--------------------------- MODULE CodeGenProofs ---------------------------
(***************************************************************************)
(* Theorems about the code generator, for every set of node kinds and      *)
(* operators, every number of scratch registers and every bound on the     *)
(* size of the program: the types of what the compiler keeps, and that the *)
(* register pool and the pending operands agree while expressions and      *)
(* conditions are compiled.                                                *)
(***************************************************************************)
EXTENDS CodeGen, SequenceTheorems, TLAPS

-----------------------------------------------------------------------------
(***************************************************************************)
(* What each operation of the back end does to the register pool, and what *)
(* the instructions do to the processor; the proofs of ValueProofs and     *)
(* CallProofs cite these lemmas too.                                       *)
(***************************************************************************)


\* What the instructions do, by their mnemonics.
LEMMA ExecImm ==
  ASSUME NEW c, NEW i, i[1] = "imm"
  PROVE  Exec(c, i) = SetReg(c, i[3], Own)
  BY DEF Exec

LEMMA ExecLea ==
  ASSUME NEW c, NEW i, i[1] = "lea"
  PROVE  Exec(c, i) = SetReg(c, i[3], i[2])
  BY DEF Exec

LEMMA ExecAddImm ==
  ASSUME NEW c, NEW i, i[1] = "addimm"
  PROVE  Exec(c, i) = SetReg(c, i[2], Displaced(c.reg[i[2]]))
  BY DEF Exec

LEMMA ExecZero ==
  ASSUME NEW c, NEW i, i[1] = "zero"
  PROVE  Exec(c, i) = SetReg(c, i[2], Zero)
  BY DEF Exec

LEMMA ExecMov ==
  ASSUME NEW c, NEW i, i[1] = "mov"
  PROVE  Exec(c, i) = SetReg(c, i[3], c.reg[i[2]])
  BY DEF Exec

LEMMA ExecGlob ==
  ASSUME NEW c, NEW i, i[1] = "glob"
  PROVE  Exec(c, i) = SetReg(c, i[3], c.glob[i[2]])
  BY DEF Exec

LEMMA ExecAdd ==
  ASSUME NEW c, NEW i, i[1] = "+"
  PROVE  Exec(c, i) = SetReg(c, i[3], Term(i[1], c.reg[i[3]], c.reg[i[2]]))
  BY DEF Exec

LEMMA ExecSub ==
  ASSUME NEW c, NEW i, i[1] = "-"
  PROVE  Exec(c, i) = SetReg(c, i[3], Term(i[1], c.reg[i[3]], c.reg[i[2]]))
  BY DEF Exec

LEMMA ExecMul ==
  ASSUME NEW c, NEW i, i[1] = "*"
  PROVE  Exec(c, i) = SetReg(c, i[3], Term(i[1], c.reg[i[3]], c.reg[i[2]]))
  BY DEF Exec

LEMMA ExecSetcc ==
  ASSUME NEW c, NEW i, i[1] = "setcc"
  PROVE  Exec(c, i) = SetReg(c, i[3], IF c.reg[i[3]] = Zero
                                  THEN Term(i[2], c.flags[1], c.flags[2]) ELSE Junk)
  BY DEF Exec

LEMMA ExecCmp ==
  ASSUME NEW c, NEW i, i[1] = "cmp"
  PROVE  Exec(c, i) = [c EXCEPT !.flags = << c.reg[i[3]], c.reg[i[2]] >>]
  BY DEF Exec

LEMMA ExecSubSp ==
  ASSUME NEW c, NEW i, i[1] = "subsp"
  PROVE  Exec(c, i) = [c EXCEPT !.sp = @ + i[2]]
  BY DEF Exec

LEMMA ExecPush ==
  ASSUME NEW c, NEW i, i[1] = "push"
  PROVE  Exec(c, i) = [SetCell(c, c.sp + 1, c.reg[i[2]]) EXCEPT !.sp = @ + 1]
  BY DEF Exec

LEMMA ExecPop ==
  ASSUME NEW c, NEW i, i[1] = "pop"
  PROVE  Exec(c, i) = Trim(SetReg(c, i[2], Cell(c, c.sp)), c.sp - 1)
  BY DEF Exec

LEMMA ExecAddSp ==
  ASSUME NEW c, NEW i, i[1] = "addsp"
  PROVE  Exec(c, i) = Trim(c, c.sp - i[2])
  BY DEF Exec

LEMMA ExecStGlob ==
  ASSUME NEW c, NEW i, i[1] = "stglob"
  PROVE  Exec(c, i) = [c EXCEPT !.glob[i[3]] = c.reg[i[2]]]
  BY DEF Exec

LEMMA ExecStCell ==
  ASSUME NEW c, NEW i, i[1] = "stcell"
  PROVE  Exec(c, i) = SetCell(c, i[3], c.reg[i[2]])
  BY DEF Exec

LEMMA ExecCell ==
  ASSUME NEW c, NEW i, i[1] = "cell"
  PROVE  Exec(c, i) = SetReg(c, i[3], Cell(c, i[2]))
  BY DEF Exec

LEMMA ExecXchg ==
  ASSUME NEW c, NEW i, i[1] = "xchg"
  PROVE  Exec(c, i) = [c EXCEPT !.reg[i[2]] = c.reg[i[3]], !.reg[i[3]] = c.reg[i[2]]]
  BY DEF Exec

LEMMA ExecShift ==
  ASSUME NEW c, NEW i, i[1] = "<<" \/ i[1] = ">>"
  PROVE  Exec(c, i) = SetReg(c, i[2], Term(i[1], c.reg[i[2]], c.reg[RCX]))
  BY DEF Exec

LEMMA ExecCqo ==
  ASSUME NEW c, NEW i, i[1] = "cqo"
  PROVE  Exec(c, i) = SetReg(c, RDX, Sign(c.reg[RAX]))
  BY DEF Exec

LEMMA ExecIdiv ==
  ASSUME NEW c, NEW i, i[1] = "idiv"
  PROVE  LET ok == c.reg[RDX] = Sign(c.reg[RAX])
             q  == IF ok THEN Term("/", c.reg[RAX], c.reg[i[2]]) ELSE Junk
             m  == IF ok THEN Term("%", c.reg[RAX], c.reg[i[2]]) ELSE Junk
         IN  Exec(c, i) = [c EXCEPT !.reg[RAX] = q, !.reg[RDX] = m]
  BY DEF Exec

LEMMA ExecCall ==
  ASSUME NEW c, NEW i, i[1] = "call"
  PROVE  Exec(c, i) = Trim([c EXCEPT !.reg = [r \in Regs |-> IF r = RAX THEN Own ELSE Junk]], c.sp)
  BY DEF Exec

LEMMA ExecCallExt ==
  ASSUME NEW c, NEW i, i[1] = "callext"
  PROVE  \E home :
           Exec(c, i) =
             Trim([c EXCEPT !.reg   = [r \in Regs |-> IF r = RAX THEN Own
                                                      ELSE IF r \in Volatile THEN Junk ELSE @[r]],
                            !.stack = [k \in DOMAIN @ |-> IF k \in home THEN Junk ELSE @[k]]],
                  c.sp)
  BY DEF Exec

\* Sequences of one and of three instructions.

LEMMA RunOne ==
  ASSUME NEW c, NEW i
  PROVE  Run(c, << i >>) = Exec(c, i)
<1> DEFINE code == << i >>
           F(g) == [n \in 0 .. Len(code) |-> IF n = 0 THEN c ELSE Exec(g[n - 1], code[n])]
           f == [n \in 0 .. 1 |-> IF n = 0 THEN c ELSE Exec(c, i)]
           a == CHOOSE g : g = F(g)
<1>1. Len(code) = 1 /\ code[1] = i
  OBVIOUS
<1>2. f = F(f)
  <2> HIDE DEF code
  <2>1. \A n \in 0 .. 1 : f[n] = IF n = 0 THEN c ELSE Exec(f[n - 1], code[n])
    BY <1>1
  <2> QED
    BY <1>1, <2>1
<1>3. a = F(a)
  BY <1>2
<1>4. Run(c, code) = a[Len(code)]
  BY DEF Run
<1> HIDE DEF a, code, f
<1>5. a[0] = c /\ a[1] = Exec(a[0], code[1])
  BY <1>1, <1>3
<1> QED
  BY <1>1, <1>4, <1>5 DEF code

LEMMA RunThree ==
  ASSUME NEW c, NEW i, NEW j, NEW k
  PROVE  Run(c, << i, j, k >>) = Exec(Exec(Exec(c, i), j), k)
<1> DEFINE code == << i, j, k >>
           F(g) == [n \in 0 .. Len(code) |-> IF n = 0 THEN c ELSE Exec(g[n - 1], code[n])]
           c1 == Exec(c, i)
           c2 == Exec(c1, j)
           c3 == Exec(c2, k)
           f == [n \in 0 .. 3 |-> CASE n = 0 -> c [] n = 1 -> c1 [] n = 2 -> c2 [] n = 3 -> c3]
           a == CHOOSE g : g = F(g)
<1>1. Len(code) = 3 /\ code[1] = i /\ code[2] = j /\ code[3] = k
  OBVIOUS
<1>2. f = F(f)
  <2>1. f[0] = c /\ f[1] = c1 /\ f[2] = c2 /\ f[3] = c3
    OBVIOUS
  <2> HIDE DEF code
  <2>2. DOMAIN f = 0 .. Len(code) /\ f = [n \in 0 .. 3 |-> f[n]]
    BY <1>1
  <2> HIDE DEF f
  <2>3. /\ f[1] = Exec(f[1 - 1], code[1]) /\ f[2] = Exec(f[2 - 1], code[2])
        /\ f[3] = Exec(f[3 - 1], code[3])
    BY <1>1, <2>1
  <2>4. \A n \in 0 .. 3 : f[n] = IF n = 0 THEN c ELSE Exec(f[n - 1], code[n])
    <3> TAKE n \in 0 .. 3
    <3>1. n = 0 \/ n = 1 \/ n = 2 \/ n = 3
      OBVIOUS
    <3> QED
      BY <2>1, <2>3, <3>1
  <2> QED
    BY <1>1, <2>2, <2>4
<1>3. a = F(a)
  BY <1>2
<1>4. Run(c, code) = a[Len(code)]
  BY DEF Run
<1> HIDE DEF a, code, f, c1, c2, c3
<1>5. /\ a[0] = c /\ a[1] = Exec(a[1 - 1], code[1]) /\ a[2] = Exec(a[2 - 1], code[2])
      /\ a[3] = Exec(a[3 - 1], code[3])
  BY <1>1, <1>3
<1> QED
  BY <1>1, <1>4, <1>5 DEF code, c1, c2, c3

-----------------------------------------------------------------------------
BackendFields == {"used", "call", "nargs", "raxInUse", "res", "cpu", "live", "err"}

(***************************************************************************)
(* The type of a back end, apart from its processor.                       *)
(***************************************************************************)
BackendOK(b) ==
  /\ DOMAIN b = BackendFields
  /\ b.used \in SUBSET Regs /\ b.res \in Regs /\ b.err \in Errors
  /\ b.call \in CallStates /\ b.nargs \in Nat
  /\ b.raxInUse \in BOOLEAN /\ b.live \in BOOLEAN

\* c differs from b in its processor, the last result and the pool at most.
SameCall(b, c) ==
  c.call = b.call /\ c.nargs = b.nargs /\ c.raxInUse = b.raxInUse /\ c.live = b.live

\* The registers are the numbers 0 .. 7.
LEMMA RegsAre == Regs = 0 .. 7 /\ RAX \in Regs /\ RBX \in Regs /\ RCX \in Regs /\ RDX \in Regs
  BY DEF Regs, RAX, RBX, RCX, RDX, R8, R9, R10, R11

\* A nonempty set of registers has a least one.
LEMMA LeastRegister ==
  ASSUME NEW S \in SUBSET Regs, S # {}
  PROVE  \E q \in S : \A p \in S : q <= p
<1>1. \A p \in S : p \in 0 .. 7
  BY RegsAre
<1>2. CASE 0 \in S
  BY <1>1, <1>2
<1>3. CASE 0 \notin S /\ 1 \in S
  BY <1>1, <1>3
<1>4. CASE S \cap {0, 1} = {} /\ 2 \in S
  BY <1>1, <1>4
<1>5. CASE S \cap {0, 1, 2} = {} /\ 3 \in S
  BY <1>1, <1>5
<1>6. CASE S \cap {0, 1, 2, 3} = {} /\ 4 \in S
  BY <1>1, <1>6
<1>7. CASE S \cap {0, 1, 2, 3, 4} = {} /\ 5 \in S
  BY <1>1, <1>7
<1>8. CASE S \cap {0, 1, 2, 3, 4, 5} = {}
  BY <1>1, <1>8
<1> QED
  BY <1>2, <1>3, <1>4, <1>5, <1>6, <1>7, <1>8

\* Emitting instructions changes the processor only.
LEMMA EmitKeeps ==
  ASSUME NEW b, BackendOK(b), NEW code
  PROVE  /\ BackendOK(Emit(b, code)) /\ SameCall(b, Emit(b, code))
         /\ Emit(b, code).used = b.used /\ Emit(b, code).res = b.res
         /\ Emit(b, code).err = b.err
  BY DEF Emit, BackendOK, BackendFields, SameCall

\* A failing call is noted and changes nothing else.
LEMMA FailKeeps ==
  ASSUME NEW b, BackendOK(b), NEW e \in Errors
  PROVE  /\ BackendOK(Fail(b, e)) /\ SameCall(b, Fail(b, e))
         /\ Fail(b, e).used = b.used /\ Fail(b, e).err = e
  BY DEF Fail, BackendOK, BackendFields, SameCall

LEMMA DeallocFrees ==
  ASSUME NEW b, BackendOK(b), NEW r
  PROVE  /\ BackendOK(RegDealloc(b, r)) /\ SameCall(b, RegDealloc(b, r))
         /\ RegDealloc(b, r).used = b.used \ {r}
         /\ RegDealloc(b, r).res = b.res /\ RegDealloc(b, r).err = b.err
  BY DEF RegDealloc, BackendOK, BackendFields, SameCall

LEMMA ReturningReturns ==
  ASSUME NEW b, BackendOK(b), NEW r \in Regs
  PROVE  /\ BackendOK(Returning(b, r)) /\ SameCall(b, Returning(b, r))
         /\ Returning(b, r).used = b.used
         /\ Returning(b, r).res = r /\ Returning(b, r).err = b.err
  BY DEF Returning, BackendOK, BackendFields, SameCall

\* reg_alloc either stops the compiler or marks a register that was free.
LEMMA AllocTakesFree ==
  ASSUME NEW b, BackendOK(b)
  PROVE  /\ BackendOK(RegAlloc(b)) /\ SameCall(b, RegAlloc(b))
         /\ RegAlloc(b).err = "none" =>
              /\ b.err = "none" /\ RegAlloc(b).res \in Regs \ b.used
              /\ RegAlloc(b).used = b.used \cup {RegAlloc(b).res}
<1>1. CASE Free(b) = {}
  <2>1. "no_register" \in Errors /\ "no_register" # "none"
    BY DEF Errors
  <2> QED
    BY <1>1, <2>1, FailKeeps DEF RegAlloc
<1>2. CASE Free(b) # {}
  <2> DEFINE r == CHOOSE q \in Free(b) : \A p \in Free(b) : q <= p
  <2>1. Free(b) \in SUBSET Regs /\ Free(b) \cap b.used = {}
    BY DEF Free, Scratch
  <2>2. r \in Free(b)
    <3>1. \E q \in Free(b) : \A p \in Free(b) : q <= p
      BY <1>2, <2>1, LeastRegister
    <3> QED
      BY <3>1
  <2>3. RegAlloc(b) = [b EXCEPT !.used = @ \cup {r}, !.res = r]
    BY <1>2 DEF RegAlloc
  <2> HIDE DEF r
  <2> QED
    BY <2>1, <2>2, <2>3 DEF BackendOK, BackendFields, SameCall
<1> QED
  BY <1>1, <1>2

\* The loads: one instruction into a register that was free.
LEMMA LoadTakesFree ==
  ASSUME NEW b, BackendOK(b), NEW op, NEW src
  PROVE  /\ BackendOK(Load(b, op, src)) /\ SameCall(b, Load(b, op, src))
         /\ Load(b, op, src).err = "none" =>
              /\ b.err = "none" /\ Load(b, op, src).res \in Regs \ b.used
              /\ Load(b, op, src).used = b.used \cup {Load(b, op, src).res}
  BY AllocTakesFree, EmitKeeps DEF Load, SameCall

-----------------------------------------------------------------------------
(***************************************************************************)
(* What a binary operator on the registers l and r owes the pool: if the   *)
(* compiler goes on, the two operands are free again and the result is     *)
(* marked, in a register no other operand holds.                           *)
(***************************************************************************)
ReplacesOperands(b, c, l, r) ==
  c.err = "none" =>
    /\ b.err = "none" /\ c.res \in Regs \ (b.used \ {l, r})
    /\ c.used = (b.used \ {l, r}) \cup {c.res}

LEMMA CompareReplaces ==
  ASSUME NEW b, BackendOK(b), NEW op, NEW l \in Regs, NEW r \in Regs
  PROVE  /\ BackendOK(GenCompare(b, op, l, r)) /\ SameCall(b, GenCompare(b, op, l, r))
         /\ l \in b.used /\ r \in b.used => ReplacesOperands(b, GenCompare(b, op, l, r), l, r)
<1> DEFINE a == RegAlloc(b)
           e == Emit(a, << << "zero", a.res >>, << "cmp", r, l >>, << "setcc", op, a.res >> >>)
           f == RegDealloc(e, r)
           g == RegDealloc(f, l)
<1>1. GenCompare(b, op, l, r) = g
  BY DEF GenCompare
<1>2. /\ BackendOK(a) /\ SameCall(b, a)
      /\ a.err = "none" => b.err = "none" /\ a.res \in Regs \ b.used /\ a.used = b.used \cup {a.res}
  BY AllocTakesFree
<1> HIDE DEF a
<1>3. BackendOK(e) /\ SameCall(a, e) /\ e.used = a.used /\ e.res = a.res /\ e.err = a.err
  BY <1>2, EmitKeeps
<1> HIDE DEF e
<1>4. BackendOK(f) /\ SameCall(e, f) /\ f.used = e.used \ {r} /\ f.res = e.res /\ f.err = e.err
  BY <1>3, DeallocFrees
<1> HIDE DEF f
<1>5. BackendOK(g) /\ SameCall(f, g) /\ g.used = f.used \ {l} /\ g.res = f.res /\ g.err = f.err
  BY <1>4, DeallocFrees
<1> HIDE DEF g
<1>6. SameCall(b, g)
  BY <1>2, <1>3, <1>4, <1>5 DEF SameCall
<1>7. l \in b.used /\ r \in b.used => ReplacesOperands(b, g, l, r)
  BY <1>2, <1>3, <1>4, <1>5 DEF ReplacesOperands
<1> QED
  BY <1>1, <1>5, <1>6, <1>7

\* add, sub, mul and the shifts: one operand register is freed, the other is the result.
LEMMA InPlaceReplaces ==
  ASSUME NEW b, BackendOK(b), NEW code, NEW l \in Regs, NEW r \in Regs
  PROVE  LET c == Returning(RegDealloc(Emit(b, code), r), l)
             d == Returning(RegDealloc(Emit(b, code), l), r)
         IN  /\ BackendOK(c) /\ SameCall(b, c) /\ BackendOK(d) /\ SameCall(b, d)
             /\ l # r /\ l \in b.used /\ r \in b.used =>
                  ReplacesOperands(b, c, l, r) /\ ReplacesOperands(b, d, l, r)
<1> DEFINE e == Emit(b, code)
           p == RegDealloc(e, r)
           q == RegDealloc(e, l)
           c == Returning(p, l)
           d == Returning(q, r)
<1>1. BackendOK(e) /\ SameCall(b, e) /\ e.used = b.used /\ e.err = b.err
  BY EmitKeeps
<1> HIDE DEF e
<1>2. /\ BackendOK(p) /\ SameCall(e, p) /\ p.used = e.used \ {r} /\ p.err = e.err
      /\ BackendOK(q) /\ SameCall(e, q) /\ q.used = e.used \ {l} /\ q.err = e.err
  BY <1>1, DeallocFrees
<1> HIDE DEF p, q
<1>3. /\ BackendOK(c) /\ SameCall(p, c) /\ c.used = p.used /\ c.res = l /\ c.err = p.err
      /\ BackendOK(d) /\ SameCall(q, d) /\ d.used = q.used /\ d.res = r /\ d.err = q.err
  BY <1>2, ReturningReturns
<1> HIDE DEF c, d
<1>4. SameCall(b, c) /\ SameCall(b, d)
  BY <1>1, <1>2, <1>3 DEF SameCall
<1>5. l # r /\ l \in b.used /\ r \in b.used => ReplacesOperands(b, c, l, r) /\ ReplacesOperands(b, d, l, r)
  BY <1>1, <1>2, <1>3 DEF ReplacesOperands
<1> QED
  BY <1>3, <1>4, <1>5 DEF c, d, p, q, e

LEMMA ShiftReplaces ==
  ASSUME NEW b, BackendOK(b), NEW op, NEW l \in Regs, NEW r \in Regs
  PROVE  /\ BackendOK(BitShift(b, op, l, r)) /\ SameCall(b, BitShift(b, op, l, r))
         /\ l # r /\ l \in b.used /\ r \in b.used => ReplacesOperands(b, BitShift(b, op, l, r), l, r)
<1>1. PICK code : BitShift(b, op, l, r) = Returning(RegDealloc(Emit(b, code), r), l)
  BY DEF BitShift
<1> QED
  BY <1>1, InPlaceReplaces

\* div_and_mod: the scratch copy of the right operand is freed again.
LEMMA DivModReplaces ==
  ASSUME NEW b, BackendOK(b), NEW op, NEW l \in Regs, NEW r \in Regs
  PROVE  /\ BackendOK(DivMod(b, op, l, r)) /\ SameCall(b, DivMod(b, op, l, r))
         /\ l \in b.used /\ r \in b.used => ReplacesOperands(b, DivMod(b, op, l, r), l, r)
<1> DEFINE saves(ins) == (IF Pushed(b, RAX, l, r) THEN << << ins, RAX >> >> ELSE << >>)
                         \o (IF Pushed(b, RDX, l, r) THEN << << ins, RDX >> >> ELSE << >>)
           clash == r \in {RAX, RDX}
           a     == IF clash THEN RegAlloc(b) ELSE Returning(b, r)
           copy  == IF clash THEN << << "mov", r, a.res >> >> ELSE << >>
           out   == IF op = "/" THEN RAX ELSE RDX
           dest  == IF out \in {l, r} THEN out ELSE l
           move  == IF out \in {l, r} THEN << >> ELSE << << "mov", out, l >> >>
           code  == saves("push") \o copy
                    \o << << "mov", l, RAX >>, << "cqo" >>, << "idiv", a.res >> >>
                    \o move \o saves("pop")
           d     == Emit(a, code)
           freed == (IF clash THEN {a.res} ELSE {}) \cup ({l, r} \ {dest})
           g     == [d EXCEPT !.used = @ \ freed, !.res = dest]
<1>1. DivMod(b, op, l, r) = g
  BY DEF DivMod
<1> HIDE DEF code
<1>2. /\ BackendOK(a) /\ SameCall(b, a)
      /\ clash /\ a.err = "none" =>
           b.err = "none" /\ a.res \in Regs \ b.used /\ a.used = b.used \cup {a.res}
      /\ ~clash => a.err = b.err /\ a.used = b.used
  BY AllocTakesFree, ReturningReturns
<1>3. dest \in {l, r} /\ dest \in Regs
  OBVIOUS
<1> HIDE DEF a, dest
<1>4. BackendOK(d) /\ SameCall(a, d) /\ d.used = a.used /\ d.err = a.err
  BY <1>2, EmitKeeps
<1> HIDE DEF d
<1>5. /\ BackendOK(g) /\ SameCall(d, g)
      /\ g.used = d.used \ freed /\ g.res = dest /\ g.err = d.err
  BY <1>3, <1>4 DEF BackendOK, BackendFields, SameCall
<1> HIDE DEF g
<1>7. SameCall(b, g)
  BY <1>2, <1>4, <1>5 DEF SameCall
<1>8. ASSUME l \in b.used, r \in b.used
      PROVE  ReplacesOperands(b, g, l, r)
  <2>1. CASE clash
    BY <1>2, <1>3, <1>4, <1>5, <1>8, <2>1 DEF ReplacesOperands
  <2>2. CASE ~clash
    BY <1>2, <1>3, <1>4, <1>5, <1>8, <2>2 DEF ReplacesOperands
  <2> QED
    BY <2>1, <2>2
<1> QED
  BY <1>1, <1>5, <1>7, <1>8

\* Every binary operator replaces its two operands by its result.
LEMMA BinopReplaces ==
  ASSUME NEW b, BackendOK(b), NEW op \in BinaryOps, NEW l \in Regs, NEW r \in Regs
  PROVE  /\ BackendOK(GenBinop(b, op, l, r)) /\ SameCall(b, GenBinop(b, op, l, r))
         /\ l # r /\ l \in b.used /\ r \in b.used => ReplacesOperands(b, GenBinop(b, op, l, r), l, r)
<1>1. CASE op \in {"==", "<", ">"}
  <2>1. GenBinop(b, op, l, r) = GenCompare(b, op, l, r)
    BY <1>1 DEF GenBinop
  <2> QED
    BY <2>1, CompareReplaces
<1>2. CASE op \in {"+", "*", "-"}
  <2>1. \E code : \/ GenBinop(b, op, l, r) = Returning(RegDealloc(Emit(b, code), r), l)
                  \/ GenBinop(b, op, l, r) = Returning(RegDealloc(Emit(b, code), l), r)
    BY <1>2 DEF GenBinop, GenAdd, GenSub, GenMul
  <2> QED
    BY <2>1, InPlaceReplaces
<1>3. CASE op \in {"<<", ">>"}
  <2>1. GenBinop(b, op, l, r) = BitShift(b, op, l, r)
    BY <1>3 DEF GenBinop
  <2> QED
    BY <2>1, ShiftReplaces
<1>4. CASE op \in {"/", "%"}
  <2>1. GenBinop(b, op, l, r) = DivMod(b, op, l, r)
    BY <1>4 DEF GenBinop
  <2> QED
    BY <2>1, DivModReplaces
<1> QED
  BY <1>1, <1>2, <1>3, <1>4 DEF BinaryOps

-----------------------------------------------------------------------------
(* The calls keep the back end well typed, whatever state they find. *)

LEMMA PreparedOK ==
  ASSUME NEW b, BackendOK(b), NEW kind \in {"EXTERNAL", "INTERNAL"}
  PROVE  BackendOK(Prepared(b, kind))
<1>1. "wrong_call_type" \in Errors /\ kind \in CallStates
  BY DEF Errors, CallStates
<1>2. BackendOK([b EXCEPT !.call = kind])
  BY <1>1 DEF BackendOK, BackendFields
<1> QED
  BY <1>1, <1>2, FailKeeps DEF Prepared

LEMMA SetupOK ==
  ASSUME NEW b, BackendOK(b)
  PROVE  BackendOK(SetupFuncCall(b))
<1> DEFINE inUse == RAX \in b.used
           c == [b EXCEPT !.raxInUse = inUse]
           code == IF inUse THEN << << "push", RAX >> >> ELSE << >>
<1>1. "call_in_progress" \in Errors
  BY DEF Errors
<1>2. inUse \in BOOLEAN
  OBVIOUS
<1> HIDE DEF inUse
<1>3. BackendOK(c)
  BY <1>2 DEF BackendOK, BackendFields
<1> HIDE DEF c
<1>4. BackendOK(Emit(c, code))
  BY <1>3, EmitKeeps
<1> QED
  BY <1>1, <1>4, FailKeeps DEF SetupFuncCall, c, inUse

LEMMA ArgOK ==
  ASSUME NEW b, BackendOK(b), NEW r
  PROVE  BackendOK(FuncArg(b, r)) /\ BackendOK(ExtFuncArg(b, r))
<1>1. ASSUME NEW c, BackendOK(c), NEW code
      PROVE  BackendOK(Emit([c EXCEPT !.nargs = @ + 1], code))
  <2> DEFINE d == [c EXCEPT !.nargs = @ + 1]
  <2>1. BackendOK(d)
    BY <1>1 DEF BackendOK, BackendFields
  <2> HIDE DEF d
  <2>2. BackendOK(Emit(d, code))
    BY <2>1, EmitKeeps
  <2> QED
    BY <2>2 DEF d
<1>2. BackendOK(Prepared(b, "INTERNAL")) /\ BackendOK(Prepared(b, "EXTERNAL"))
  BY PreparedOK
<1> QED
  BY <1>1, <1>2 DEF FuncArg, ExtFuncArg

LEMMA CopyRetValOK ==
  ASSUME NEW b, BackendOK(b)
  PROVE  BackendOK(CopyRetVal(b))
  BY LoadTakesFree, ReturningReturns, RegsAre DEF CopyRetVal

LEMMA CallOK ==
  ASSUME NEW b, BackendOK(b), NEW f
  PROVE  BackendOK(FuncCall(b, f)) /\ BackendOK(ExtFuncCall(b))
<1>1. BackendOK(Prepared(b, "INTERNAL")) /\ BackendOK(Prepared(b, "EXTERNAL"))
  BY PreparedOK
<1>2. ASSUME NEW c, BackendOK(c), NEW code
      PROVE  BackendOK(CopyRetVal(Emit(c, code)))
  BY <1>2, EmitKeeps, CopyRetValOK
<1> QED
  BY <1>1, <1>2 DEF FuncCall, ExtFuncCall

\* After cleanup nothing remembers the call.
LEMMA CleanupOK ==
  ASSUME NEW b, BackendOK(b)
  PROVE  /\ BackendOK(Cleanup(b)) /\ Cleanup(b).used = b.used
         /\ Cleanup(b).call = "NONE" /\ Cleanup(b).nargs = 0 /\ Cleanup(b).raxInUse = FALSE
<1> DEFINE drop == IF b.call = "INTERNAL" /\ b.nargs > 0 THEN << << "addsp", b.nargs >> >> ELSE << >>
           pop  == IF b.raxInUse THEN << << "pop", RAX >> >> ELSE << >>
           e == Emit(b, drop \o pop)
<1>1. BackendOK(e) /\ e.used = b.used
  BY EmitKeeps
<1>2. Cleanup(b) = [e EXCEPT !.raxInUse = FALSE, !.nargs = 0, !.call = "NONE"]
  BY DEF Cleanup
<1> HIDE DEF e
<1> QED
  BY <1>1, <1>2 DEF BackendOK, BackendFields, CallStates

\* The initial back end has every register free.
LEMMA InitBackendOK ==
  ASSUME NEW xs
  PROVE  /\ BackendOK(InitBackend(xs)) /\ InitBackend(xs).used = {}
         /\ InitBackend(xs).err = "none"
  BY RegsAre DEF InitBackend, BackendOK, BackendFields, CallStates, Errors

-----------------------------------------------------------------------------
(* Sequences whose elements have no common type. *)

IsSeq(s) == \E S : s \in Seq(S)

LEMMA SeqFacts ==
  ASSUME NEW s, IsSeq(s)
  PROVE  Len(s) \in Nat /\ DOMAIN s = 1 .. Len(s)
  BY DEF IsSeq

LEMMA AppendFacts ==
  ASSUME NEW s, IsSeq(s), NEW e
  PROVE  /\ IsSeq(Append(s, e)) /\ Len(Append(s, e)) = Len(s) + 1
         /\ \A i \in 1 .. Len(s) : Append(s, e)[i] = s[i]
         /\ Append(s, e)[Len(s) + 1] = e
<1>1. PICK S : s \in Seq(S)
  BY DEF IsSeq
<1>2. s \in Seq(S \cup {e})
  BY <1>1
<1>3. Append(s, e) \in Seq(S \cup {e})
  BY <1>2
<1> QED
  BY <1>2, <1>3 DEF IsSeq

LEMMA PopFacts ==
  ASSUME NEW s, IsSeq(s), Len(s) > 0
  PROVE  /\ IsSeq(Pop(s)) /\ Len(Pop(s)) = Len(s) - 1
         /\ \A i \in 1 .. Len(s) - 1 : Pop(s)[i] = s[i]
<1>1. PICK S : s \in Seq(S)
  BY DEF IsSeq
<1>2. \A i \in 1 .. Len(s) - 1 : s[i] \in S
  BY <1>1
<1> DEFINE n == Len(s) - 1
<1>3. n \in Nat /\ Len(s) = n + 1
  BY <1>1
<1> HIDE DEF n
<1>4. /\ SubSeq(s, 1, n) \in Seq(S) /\ Len(SubSeq(s, 1, n)) = IF 1 <= n THEN n - 1 + 1 ELSE 0
      /\ \A i \in 1 .. n - 1 + 1 : SubSeq(s, 1, n)[i] = s[1 + i - 1]
  BY <1>2, <1>3, SubSeqProperties
<1>5. /\ IsSeq(SubSeq(s, 1, n)) /\ Len(SubSeq(s, 1, n)) = n
      /\ \A i \in 1 .. n : SubSeq(s, 1, n)[i] = s[i]
  BY <1>3, <1>4 DEF IsSeq
<1> QED
  BY <1>3, <1>5 DEF Pop, n

LEMMA BecomeFacts ==
  ASSUME NEW s, IsSeq(s), Len(s) > 0, NEW e
  PROVE  /\ IsSeq([s EXCEPT ![Len(s)] = e]) /\ Len([s EXCEPT ![Len(s)] = e]) = Len(s)
         /\ \A i \in 1 .. Len(s) - 1 : [s EXCEPT ![Len(s)] = e][i] = s[i]
         /\ [s EXCEPT ![Len(s)] = e][Len(s)] = e
<1>1. PICK S : s \in Seq(S)
  BY DEF IsSeq
<1>2. s \in Seq(S \cup {e})
  BY <1>1
<1>3. [s EXCEPT ![Len(s)] = e] \in Seq(S \cup {e})
  BY <1>2
<1> QED
  BY <1>2, <1>3 DEF IsSeq

-----------------------------------------------------------------------------
(* The operand stack: keeping the first k - 1 results and adding one. *)

Results == [reg : Regs, val : BOOLEAN]

LEMMA DropFacts ==
  ASSUME NEW v \in Seq(Results), NEW k \in 1 .. Len(v) + 1
  PROVE  LET w == SubSeq(v, 1, k - 1)
         IN  w \in Seq(Results) /\ Len(w) = k - 1 /\ \A i \in 1 .. k - 1 : w[i] = v[i]
<1>1. k \in Int /\ k >= 1 /\ \A i \in 1 .. k - 1 : v[i] \in Results
  OBVIOUS
<1> QED
  BY <1>1, SubSeqProperties

LEMMA ReplaceFacts ==
  ASSUME NEW v \in Seq(Results), NEW k \in 1 .. Len(v) + 1, NEW x \in Results
  PROVE  LET w == Append(SubSeq(v, 1, k - 1), x)
         IN  /\ w \in Seq(Results) /\ Len(w) = k
             /\ \A i \in 1 .. k - 1 : w[i] = v[i]
             /\ w[k] = x
<1> DEFINE u == SubSeq(v, 1, k - 1)
<1>1. u \in Seq(Results) /\ Len(u) = k - 1 /\ \A i \in 1 .. k - 1 : u[i] = v[i]
  BY DropFacts
<1> HIDE DEF u
<1>2. /\ Append(u, x) \in Seq(Results) /\ Len(Append(u, x)) = k
      /\ \A i \in 1 .. k - 1 : Append(u, x)[i] = v[i]
      /\ Append(u, x)[k] = x
  BY <1>1
<1> QED
  BY <1>2 DEF u

LEMMA ResultFields ==
  ASSUME NEW v \in Seq(Results), NEW i \in 1 .. Len(v)
  PROVE  v[i] \in Results /\ v[i].reg \in Regs /\ v[i].val \in BOOLEAN
<1>1. v[i] \in Results
  OBVIOUS
<1> QED
  BY <1>1 DEF Results

LEMMA ResultIsResult ==
  ASSUME NEW r \in Regs, NEW x \in BOOLEAN
  PROVE  Result(r, x) \in Results /\ Result(r, x).reg = r
  BY DEF Result, Results

-----------------------------------------------------------------------------
(***************************************************************************)
(* The control stack s while n operands are pending: the activation of the *)
(* program is at the bottom and nowhere else, every activation has the     *)
(* fields of its kind, and an activation found at least the operands its   *)
(* caller found.  The last part is why no step of an inner activation can  *)
(* consume an operand of an outer one.                                     *)
(***************************************************************************)
Names == Locals \cup {Params[i] : i \in DOMAIN Params}

ContextOK(c) ==
  DOMAIN c = {"global", "off", "env", "scope"} /\ c.off \in Int /\ c.scope \in SUBSET Names

BodyOK(f) ==
  /\ f.k \in {"prog", "func"} /\ f.n \in Nat /\ f.val \in BOOLEAN
  /\ DOMAIN f = {"k", "ph", "n", "argc", "base", "val", "saved"}
  /\ f.k = "func" => f.saved.live \in BOOLEAN /\ ContextOK(f.saved.cg)

BinopOK(f) == f.k = "binop" /\ f.op \in Ops /\ DOMAIN f = {"k", "op", "root", "base"}

CallFrameOK(f) ==
  f.k = "call" /\ DOMAIN f = {"k", "ext", "argc", "n", "sp", "base"}

IfOK(f) ==
  /\ f.k = "if" /\ f.n \in Nat /\ f.live \in BOOLEAN /\ f.val \in BOOLEAN
  /\ f.scope \in SUBSET Names
  /\ DOMAIN f = {"k", "ph", "n", "live", "taken", "hasElse", "val", "scope", "base"}

AssignOK(f) == f.k \in {"reassign", "store"} /\ DOMAIN f = {"k", "x", "base"}

FrameOK(f) ==
  f.base \in Nat /\ (BodyOK(f) \/ BinopOK(f) \/ CallFrameOK(f) \/ IfOK(f) \/ AssignOK(f))

ControlOK(s, n) ==
  /\ IsSeq(s) /\ Len(s) >= 1 /\ n \in Nat
  /\ \A i \in 1 .. Len(s) : FrameOK(s[i]) /\ (s[i].k = "prog" <=> i = 1)
  /\ \A i, j \in 1 .. Len(s) : i <= j => s[i].base <= s[j].base
  /\ s[Len(s)].base <= n

LEMMA PushControl ==
  ASSUME NEW s, NEW n, ControlOK(s, n), NEW f, FrameOK(f), f.k # "prog", f.base = n
  PROVE  ControlOK(Append(s, f), n)
<1> DEFINE t == Append(s, f)
<1>1. Len(s) \in Nat /\ IsSeq(t) /\ Len(t) = Len(s) + 1
      /\ (\A i \in 1 .. Len(s) : t[i] = s[i]) /\ t[Len(s) + 1] = f
  BY AppendFacts, SeqFacts DEF ControlOK
<1> HIDE DEF t
<1>2. \A i \in 1 .. Len(t) : FrameOK(t[i]) /\ (t[i].k = "prog" <=> i = 1)
  BY <1>1 DEF ControlOK
<1>3. \A i, j \in 1 .. Len(t) : i <= j => t[i].base <= t[j].base
  <2> TAKE i, j \in 1 .. Len(t)
  <2> HAVE i <= j
  <2>1. \A m \in 1 .. Len(s) : s[m].base \in Nat /\ s[m].base <= n
    BY <1>1 DEF ControlOK, FrameOK
  <2>2. CASE j = Len(t)
    BY <1>1, <2>1, <2>2 DEF ControlOK
  <2>3. CASE j # Len(t)
    BY <1>1, <2>3 DEF ControlOK
  <2> QED
    BY <2>2, <2>3
<1>4. ControlOK(t, n)
  BY <1>1, <1>2, <1>3 DEF ControlOK
<1> QED
  BY <1>4 DEF t

LEMMA BecomeControl ==
  ASSUME NEW s, NEW n, ControlOK(s, n), NEW m \in Nat,
         NEW f, FrameOK(f), f.k = s[Len(s)].k, f.base = s[Len(s)].base, f.base <= m
  PROVE  ControlOK([s EXCEPT ![Len(s)] = f], m)
<1> DEFINE t == [s EXCEPT ![Len(s)] = f]
<1>0. IsSeq(s) /\ Len(s) \in Nat /\ Len(s) > 0
  BY SeqFacts DEF ControlOK
<1>1. Len(s) \in Nat /\ IsSeq(t) /\ Len(t) = Len(s)
      /\ (\A i \in 1 .. Len(s) - 1 : t[i] = s[i]) /\ t[Len(s)] = f
  BY <1>0, BecomeFacts
<1> HIDE DEF t
<1>2. \A i \in 1 .. Len(t) : FrameOK(t[i]) /\ t[i].k = s[i].k /\ t[i].base = s[i].base
  BY <1>1 DEF ControlOK
<1>3. ControlOK(t, m)
  BY <1>1, <1>2 DEF ControlOK
<1> QED
  BY <1>3 DEF t

LEMMA PopControl ==
  ASSUME NEW s, NEW n, ControlOK(s, n), s[Len(s)].k # "prog",
         NEW m \in Nat, s[Len(s)].base <= m
  PROVE  ControlOK(Pop(s), m)
<1> DEFINE t == Pop(s)
<1>1. Len(s) \in Nat /\ Len(s) > 1
  BY SeqFacts DEF ControlOK
<1>2. IsSeq(t) /\ Len(t) = Len(s) - 1 /\ \A i \in 1 .. Len(s) - 1 : t[i] = s[i]
  BY <1>1, PopFacts DEF ControlOK
<1> HIDE DEF t
<1>3. t[Len(t)].base <= m
  <2>1. s[Len(s) - 1].base <= s[Len(s)].base /\ s[Len(s) - 1].base \in Nat /\ s[Len(s)].base \in Nat
    BY <1>1 DEF ControlOK, FrameOK
  <2> QED
    BY <1>1, <1>2, <2>1
<1>4. ControlOK(t, m)
  BY <1>1, <1>2, <1>3 DEF ControlOK
<1> QED
  BY <1>4 DEF t

LEMMA SameControl ==
  ASSUME NEW s, NEW n, ControlOK(s, n), NEW m \in Nat, s[Len(s)].base <= m
  PROVE  ControlOK(s, m)
  BY DEF ControlOK

\* The innermost activation.
LEMMA TopFacts ==
  ASSUME ControlOK(ctl, Len(vals))
  PROVE  /\ Len(ctl) \in Nat /\ Len(ctl) >= 1 /\ FrameOK(Top)
         /\ Top.base \in Nat /\ Top.base <= Len(vals) /\ Len(vals) \in Nat
  BY SeqFacts DEF ControlOK, Top, FrameOK

LEMMA FrameKinds ==
  ASSUME NEW f, FrameOK(f)
  PROVE  /\ f.k = "binop" => BinopOK(f)
         /\ f.k = "call" => CallFrameOK(f)
         /\ f.k = "if" => IfOK(f)
         /\ f.k \in {"reassign", "store"} => AssignOK(f)
         /\ f.k \in {"prog", "func"} => BodyOK(f)
  BY DEF FrameOK, BodyOK, BinopOK, CallFrameOK, IfOK, AssignOK

-----------------------------------------------------------------------------
(* Finishing a node. *)

LEMMA SettledKeeps ==
  ASSUME NEW b, BackendOK(b), NEW n, NEW at, NEW from, NEW to
  PROVE  LET c == Settled(b, n, at, from, to)
         IN  BackendOK(c) /\ SameCall(b, c) /\ c.used = b.used /\ c.err = b.err
  BY RegsAre DEF Settled, BackendOK, BackendFields, SameCall

LEMMA DeliverOK ==
  ASSUME vals \in Seq(Results), NEW b, BackendOK(b), NEW k \in 1 .. Len(vals) + 1, NEW e,
         Deliver(b, k, e)
  PROVE  /\ BackendOK(be') /\ be'.used = b.used /\ be'.err = b.err
         /\ vals' \in Seq(Results) /\ Len(vals') = k
         /\ vals' = Append(SubSeq(vals, 1, k - 1), Result(b.res, TRUE))
<1>1. Result(b.res, TRUE) \in Results
  BY ResultIsResult DEF BackendOK
<1>2. BackendOK(be') /\ be'.used = b.used /\ be'.err = b.err
  BY SettledKeeps DEF Deliver
<1>3. vals' = Append(SubSeq(vals, 1, k - 1), Result(b.res, TRUE))
  BY DEF Deliver
<1>4. vals' \in Seq(Results) /\ Len(vals') = k
  BY <1>1, <1>3, ReplaceFacts
<1> QED
  BY <1>2, <1>3, <1>4

LEMMA DeliverNothingOK ==
  ASSUME vals \in Seq(Results), NEW b, BackendOK(b), NEW k \in 1 .. Len(vals) + 1,
         DeliverNothing(b, k)
  PROVE  BackendOK(be') /\ vals' \in Seq(Results) /\ Len(vals') = k
<1>1. NoResult \in Results
  BY ResultIsResult, RegsAre DEF NoResult
<1> QED
  BY <1>1, SettledKeeps, ReplaceFacts DEF DeliverNothing

LEMMA ConsumeOK ==
  ASSUME vals \in Seq(Results), NEW b, BackendOK(b), NEW k \in 1 .. Len(vals) + 1,
         NEW at, NEW from, NEW to, Consume(b, k, at, from, to)
  PROVE  /\ BackendOK(be') /\ be'.used = b.used /\ be'.err = b.err
         /\ vals' \in Seq(Results) /\ Len(vals') = k - 1 /\ vals' = SubSeq(vals, 1, k - 1)
  BY SettledKeeps, DropFacts DEF Consume

LEMMA IfResultOK ==
  ASSUME vals \in Seq(Results), NEW b, BackendOK(b), NEW r \in Regs,
         NEW k \in 1 .. Len(vals) + 1, NEW val \in BOOLEAN, NEW from,
         IfResult(b, r, k, val, from)
  PROVE  /\ BackendOK(be') /\ be'.used = b.used /\ be'.err = b.err
         /\ vals' \in Seq(Results) /\ Len(vals') = k
         /\ vals' = Append(SubSeq(vals, 1, k - 1), Result(r, val))
<1>1. Result(r, val) \in Results
  BY ResultIsResult
<1> QED
  BY <1>1, SettledKeeps, ReplaceFacts DEF IfResult

-----------------------------------------------------------------------------
(***************************************************************************)
(* The inductive invariant behind CompilerTypeOK, and one lemma per action *)
(* or group of actions.                                                    *)
(***************************************************************************)
TypeInv ==
  /\ ControlOK(ctl, Len(vals)) /\ vals \in Seq(Results)
  /\ BackendOK(be) /\ ContextOK(cg) /\ fuel \in 0 .. MaxNodes

LEMMA InnerFuel ==
  ASSUME TypeInv, NEW kind, Inner(kind)
  PROVE  fuel' \in 0 .. MaxNodes
  BY CodeGenAssumption DEF TypeInv, Inner

LEMMA VarAccessOK ==
  ASSUME NEW b, BackendOK(b), NEW x
  PROVE  BackendOK(VarAccess(b, x))
  BY LoadTakesFree DEF VarAccess

\* An address is computed in a register that was free, unless the symbol is unknown.
LEMMA AddressTakesFree ==
  ASSUME NEW b, BackendOK(b), NEW x, NEW c \in {AddressOf(b, x), ElementAddr(b, x)}
  PROVE  /\ BackendOK(c)
         /\ c.err = "none" => c.res \in Regs \ b.used /\ c.used = b.used \cup {c.res}
<1> DEFINE a == AddressOf(b, x)
<1>1. /\ BackendOK(a)
      /\ a.err = "none" => a.res \in Regs \ b.used /\ a.used = b.used \cup {a.res}
  <2>1. CASE Addressable(x)
    BY <2>1, LoadTakesFree DEF AddressOf
  <2>2. CASE ~Addressable(x)
    <3>1. "unknown_symbol" \in Errors /\ "unknown_symbol" # "none"
      BY DEF Errors
    <3> QED
      BY <2>2, <3>1, FailKeeps DEF AddressOf
  <2> QED
    BY <2>1, <2>2
<1>2. ElementAddr(b, x) = Emit(a, << << "addimm", a.res >> >>)
  BY DEF ElementAddr, AddImm
<1>3. c = a \/ c = Emit(a, << << "addimm", a.res >> >>)
  BY <1>2
<1> HIDE DEF a
<1> QED
  BY <1>1, <1>3, EmitKeeps

LEMMA TargetOK ==
  ASSUME NEW b, BackendOK(b), NEW x, NEW c \in Targets(b, x)
  PROVE  BackendOK(c)
  BY VarAccessOK, AddressTakesFree DEF Targets

LEMMA LeafTypes ==
  ASSUME TypeInv, NEW b, BackendOK(b), NEW e, Deliver(b, Len(vals) + 1, e),
         UNCHANGED << ctl, cg, fuel >>
  PROVE  TypeInv'
<1>1. Len(vals) \in Nat /\ Top.base <= Len(vals) /\ Top.base \in Nat
  BY TopFacts DEF TypeInv
<1> DEFINE k == Len(vals) + 1
<1>4. vals \in Seq(Results) /\ k \in 1 .. Len(vals) + 1 /\ Deliver(b, k, e)
  BY <1>1 DEF TypeInv
<1> HIDE DEF k
<1>5. BackendOK(be') /\ vals' \in Seq(Results) /\ Len(vals') = k
  BY <1>4, DeliverOK
<1>2. BackendOK(be') /\ vals' \in Seq(Results) /\ Len(vals') = Len(vals) + 1
  BY <1>5 DEF k
<1>3. ControlOK(ctl, Len(vals'))
  BY <1>1, <1>2, SameControl DEF TypeInv, Top
<1> QED
  BY <1>2, <1>3 DEF TypeInv

LEMMA LeavesTypes ==
  ASSUME TypeInv, GenInt \/ \E x \in InScope : GenVar(x) \/ GenDeref(x) \/ GenAddr(x) \/ GenIndex(x)
  PROVE  TypeInv'
<1>1. CASE GenInt
  BY <1>1, LeafTypes, LoadTakesFree DEF GenInt, Leaf, TypeInv
<1>2. CASE \E x \in InScope : GenVar(x) \/ GenDeref(x)
  BY <1>2, LeafTypes, VarAccessOK DEF GenVar, GenDeref, Leaf, TypeInv
<1>3. CASE \E x \in InScope : GenAddr(x) \/ GenIndex(x)
  <2>1. ASSUME NEW x
        PROVE  BackendOK(AddressOf(be, x)) /\ BackendOK(ElementAddr(be, x))
    BY AddressTakesFree DEF TypeInv
  <2> QED
    BY <1>3, <2>1, LeafTypes DEF GenAddr, GenIndex, Leaf
<1> QED
  BY <1>1, <1>2, <1>3

\* Entering an activation: no operand is touched.
LEMMA PushTypes ==
  ASSUME TypeInv, NEW f, FrameOK(f), f.k # "prog", f.base = Len(vals), Push(f),
         UNCHANGED vals, BackendOK(be'), ContextOK(cg'), fuel' \in 0 .. MaxNodes
  PROVE  TypeInv'
  BY PushControl DEF TypeInv, Push

\* Leaving one: at least the operands it found are still there.
LEMMA PopTypes ==
  ASSUME TypeInv, Top.k # "prog", ctl' = Pop(ctl), vals' \in Seq(Results),
         Len(vals') >= Top.base, BackendOK(be'), ContextOK(cg'), UNCHANGED fuel
  PROVE  TypeInv'
<1>1. Len(vals') \in Nat
  OBVIOUS
<1>2. ControlOK(ctl', Len(vals'))
  BY <1>1, PopControl, TopFacts DEF TypeInv, Top
<1> QED
  BY <1>2 DEF TypeInv

\* Going on in one.
LEMMA BecomeTypes ==
  ASSUME TypeInv, NEW f, FrameOK(f), f.k = Top.k, f.base = Top.base, Become(f),
         vals' \in Seq(Results), Len(vals') >= Top.base, BackendOK(be'), ContextOK(cg'),
         UNCHANGED fuel
  PROVE  TypeInv'
<1>1. Len(vals') \in Nat
  OBVIOUS
<1>2. ControlOK(ctl', Len(vals'))
  BY <1>1, BecomeControl, TopFacts DEF TypeInv, Top, Become
<1> QED
  BY <1>2 DEF TypeInv

LEMMA BeginBinopTypes ==
  ASSUME TypeInv, NEW op \in Ops, BeginBinop(op)
  PROVE  TypeInv'
<1>1. PICK root \in BOOLEAN : Push(BinopFrame(op, root))
  BY DEF BeginBinop
<1>2. FrameOK(BinopFrame(op, root)) /\ BinopFrame(op, root).k = "binop"
      /\ BinopFrame(op, root).base = Len(vals)
  BY TopFacts DEF TypeInv, BinopFrame, FrameOK, BinopOK
<1>3. fuel' \in 0 .. MaxNodes
  BY InnerFuel DEF BeginBinop
<1> QED
  BY <1>1, <1>2, <1>3, PushTypes DEF BeginBinop, TypeInv

LEMMA EndBinopTypes ==
  ASSUME TypeInv, EndBinop
  PROVE  TypeInv'
<1> DEFINE k == Len(vals) - 1
           b == GenBinop(be, Top.op, vals[k].reg, vals[k + 1].reg)
           e == Term(Top.op, Opd(k), Opd(k + 1))
<1>1. Top.k = "binop" /\ Top.op \in BinaryOps
  BY TopFacts, FrameKinds, CodeGenAssumption DEF TypeInv, EndBinop, BinopOK
<1>2. Len(vals) \in Nat /\ Top.base \in Nat /\ Len(vals) = Top.base + 2
  BY TopFacts DEF TypeInv, EndBinop, Delivered
<1>3. /\ k \in 1 .. Len(vals) + 1 /\ k >= Top.base
      /\ vals[k].reg \in Regs /\ vals[k + 1].reg \in Regs
  BY <1>2, ResultFields DEF TypeInv
<1>4. BackendOK(b)
  BY <1>1, <1>3, BinopReplaces DEF TypeInv
<1>5. Deliver(b, k, e)
  BY DEF EndBinop
<1> HIDE DEF k, b, e
<1>6. BackendOK(be') /\ vals' \in Seq(Results) /\ Len(vals') = k
  BY <1>3, <1>4, <1>5, DeliverOK DEF TypeInv
<1> QED
  BY <1>1, <1>3, <1>6, PopTypes DEF EndBinop, TypeInv

LEMMA BeginCallTypes ==
  ASSUME TypeInv, NEW ext, NEW argc, BeginCall(ext, argc)
  PROVE  TypeInv'
<1>1. FrameOK(CallFrame(ext, argc)) /\ CallFrame(ext, argc).k = "call"
      /\ CallFrame(ext, argc).base = Len(vals)
  BY TopFacts DEF TypeInv, CallFrame, FrameOK, CallFrameOK
<1>2. BackendOK(be') /\ fuel' \in 0 .. MaxNodes
  BY SetupOK, InnerFuel DEF TypeInv, BeginCall
<1> QED
  BY <1>1, <1>2, PushTypes DEF BeginCall, TypeInv

LEMMA CallArgTypes ==
  ASSUME TypeInv, CallArg
  PROVE  TypeInv'
<1> DEFINE k == Len(vals)
           r == vals[k].reg
           b == FuncArg(be, r)
           f == [Top EXCEPT !.n = @ + 1]
<1>1. Len(vals) \in Nat /\ Top.base \in Nat /\ Len(vals) = Top.base + 1
  BY TopFacts DEF TypeInv, CallArg, Delivered
<1>2. FrameOK(f) /\ f.k = Top.k /\ f.base = Top.base
  BY TopFacts, FrameKinds DEF TypeInv, CallArg, FrameOK, CallFrameOK
<1>3. BackendOK(ExtFuncArg(be, r)) /\ BackendOK(RegDealloc(b, r))
  BY ArgOK, DeallocFrees DEF TypeInv
<1>4. k \in 1 .. Len(vals) + 1
  BY <1>1
<1>5. BackendOK(be') /\ vals' \in Seq(Results) /\ Len(vals') = k - 1
  <2>1. CASE Top.ext
    BY <1>3, <1>4, <2>1, ConsumeOK DEF CallArg, TypeInv
  <2>2. CASE ~Top.ext
    BY <1>3, <1>4, <2>2, ConsumeOK DEF CallArg, TypeInv
  <2> QED
    BY <2>1, <2>2
<1>6. Become(f)
  BY DEF CallArg
<1> HIDE DEF f
<1> QED
  BY <1>1, <1>2, <1>5, <1>6, BecomeTypes DEF CallArg, TypeInv

LEMMA EndCallTypes ==
  ASSUME TypeInv, EndCall
  PROVE  TypeInv'
<1> DEFINE f == Load(be, "lea", Code)
           c == FuncCall(f, f.res)
           d == IF c.res = f.res THEN c ELSE RegDealloc(c, f.res)
           e == ExtFuncCall(be)
           k == Len(vals) + 1
<1>1. BackendOK(f)
  BY LoadTakesFree DEF TypeInv
<1> HIDE DEF f
<1>2. BackendOK(c) /\ BackendOK(e)
  BY <1>1, CallOK DEF TypeInv
<1> HIDE DEF c, e
<1>3. BackendOK(d)
  BY <1>2, DeallocFrees
<1> HIDE DEF d
<1>4. BackendOK(Cleanup(d)) /\ BackendOK(Cleanup(e)) /\ BackendOK(Returning(Cleanup(e), RAX))
  BY <1>2, <1>3, CleanupOK, ReturningReturns, RegsAre
<1>5. Deliver(Returning(Cleanup(e), RAX), k, Own) \/ Deliver(Cleanup(d), k, Own)
  BY DEF EndCall, d, c, e, f
<1>6. Len(vals) \in Nat /\ k \in 1 .. Len(vals) + 1 /\ k >= Top.base
  BY TopFacts DEF TypeInv
<1> HIDE DEF k
<1>7. BackendOK(be') /\ vals' \in Seq(Results) /\ Len(vals') = k
  BY <1>4, <1>5, <1>6, DeliverOK DEF TypeInv
<1> QED
  BY <1>6, <1>7, PopTypes DEF EndCall, TypeInv

LEMMA BeginIfTypes ==
  ASSUME TypeInv, BeginIf
  PROVE  TypeInv'
<1>1. FrameOK(IfFrame) /\ IfFrame.k = "if" /\ IfFrame.base = Len(vals)
  BY TopFacts DEF TypeInv, IfFrame, FrameOK, IfOK, BackendOK, ContextOK
<1>2. fuel' \in 0 .. MaxNodes
  BY InnerFuel DEF BeginIf
<1> QED
  BY <1>1, <1>2, PushTypes DEF BeginIf, TypeInv

LEMMA IfConditionTypes ==
  ASSUME TypeInv, IfCondition
  PROVE  TypeInv'
<1> DEFINE d == RegDealloc(be, Last(vals).reg)
           b == Settled(d, Len(vals) - 1, Nowhere, Junk, Junk)
<1>1. PICK taken \in BOOLEAN, hasElse \in BOOLEAN :
        /\ Become([Top EXCEPT !.ph = "then", !.taken = taken, !.hasElse = hasElse])
        /\ be' = [b EXCEPT !.live = @ /\ taken]
  BY DEF IfCondition
<1>2. Len(vals) \in Nat /\ Top.base \in Nat /\ Len(vals) = Top.base + 1
  BY TopFacts DEF TypeInv, IfCondition, Delivered
<1> DEFINE f == [Top EXCEPT !.ph = "then", !.taken = taken, !.hasElse = hasElse]
<1>3. FrameOK(f) /\ f.k = Top.k /\ f.base = Top.base
  BY TopFacts, FrameKinds DEF TypeInv, IfCondition, FrameOK, IfOK
<1>4. BackendOK(d)
  BY DeallocFrees DEF TypeInv
<1> HIDE DEF d
<1>5. BackendOK(b)
  BY <1>4, SettledKeeps
<1> HIDE DEF b
<1>6. BackendOK(be')
  BY <1>1, <1>5 DEF BackendOK, BackendFields
<1> DEFINE n == Len(vals)
<1>7. n \in 1 .. Len(vals) + 1
  BY <1>2
<1>8. vals' = SubSeq(vals, 1, n - 1)
  BY DEF IfCondition, Pop
<1> HIDE DEF n
<1>9. vals' \in Seq(Results) /\ Len(vals') = n - 1
  BY <1>7, <1>8, DropFacts DEF TypeInv
<1>10. Len(vals') >= Top.base
  BY <1>2, <1>9 DEF n
<1>11. Become(f)
  BY <1>1
<1> HIDE DEF f
<1> QED
  BY <1>3, <1>6, <1>9, <1>10, <1>11, BecomeTypes DEF IfCondition, TypeInv

LEMMA IfStatementTypes ==
  ASSUME TypeInv, IfStatement
  PROVE  TypeInv'
<1> DEFINE f == [Top EXCEPT !.n = @ + 1]
<1>1. Top.k = "if" /\ Top.n \in Nat /\ FrameOK(f) /\ f.k = Top.k /\ f.base = Top.base
  BY TopFacts, FrameKinds DEF TypeInv, IfStatement, InIf, FrameOK, IfOK
<1>2. Len(vals) \in Nat /\ Top.base \in Nat /\ Len(vals) = Top.base + Resting(Top) + 1
      /\ Resting(Top) \in Nat /\ (Top.n # 0 => Resting(Top) >= 1)
  BY <1>1, TopFacts, SMTT(30) DEF TypeInv, IfStatement, Delivered, Resting
<1>3. BackendOK(be') /\ vals' \in Seq(Results) /\ Len(vals') >= Top.base
  <2>1. CASE Top.n = 0
    BY <1>2, <2>1 DEF IfStatement, TypeInv
  <2>2. CASE Top.n # 0
    <3> DEFINE k == Len(vals) - 1
               d == RegDealloc(be, vals[k].reg)
    <3>1. /\ be' = Settled(d, k - 1, InReg(vals[k + 1].reg), Opd(k + 1), Opd(k))
          /\ vals' = Append(SubSeq(vals, 1, k - 1), vals[k + 1])
      BY <2>2 DEF IfStatement
    <3>2. k \in 1 .. Len(vals) + 1 /\ vals[k + 1] \in Results /\ k >= Top.base
      BY <1>2, <2>2, ResultFields DEF TypeInv
    <3>3. BackendOK(d)
      BY DeallocFrees DEF TypeInv
    <3> HIDE DEF k, d
    <3>4. BackendOK(be')
      BY <3>1, <3>3, SettledKeeps
    <3>5. vals' \in Seq(Results) /\ Len(vals') = k
      BY <3>1, <3>2, ReplaceFacts DEF TypeInv
    <3> QED
      BY <3>2, <3>4, <3>5
  <2> QED
    BY <2>1, <2>2
<1>4. Become(f)
  BY DEF IfStatement
<1> HIDE DEF f
<1> QED
  BY <1>1, <1>3, <1>4, BecomeTypes DEF IfStatement, TypeInv

\* Leaving the scope of an if body.
LEMMA ScopeRestored ==
  ASSUME TypeInv, Top.k = "if", cg' = [cg EXCEPT !.scope = Top.scope]
  PROVE  ContextOK(cg')
  BY TopFacts, FrameKinds DEF TypeInv, ContextOK, IfOK

LEMMA LiveOK ==
  ASSUME NEW b, BackendOK(b), NEW x \in BOOLEAN
  PROVE  LET c == [b EXCEPT !.live = x]
         IN  BackendOK(c) /\ c.used = b.used /\ c.err = b.err
  BY DEF BackendOK, BackendFields

LEMMA EndThenTypes ==
  ASSUME TypeInv, EndThen
  PROVE  TypeInv'
<1> DEFINE k     == Len(vals)
           a     == RegAlloc(be)
           r     == a.res
           c     == CopyReg(a, vals[k].reg, r)
           moved == RegDealloc(c, vals[k].reg)
           skip  == Top.live /\ ~Top.taken
           after == [moved EXCEPT !.live = skip]
           zero  == ZeroOut(after, r)
           done  == [zero EXCEPT !.live = Top.live]
           from  == IF Top.taken THEN Opd(k) ELSE Zero
           f     == [Top EXCEPT !.ph = "else", !.n = 0, !.val = vals[k].val]
           s     == Settled(moved, k - 1, InReg(r), Opd(k), Opd(k))
<1>1. Top.k = "if" /\ IfOK(Top) /\ Top.n > 0
  BY TopFacts, FrameKinds DEF TypeInv, EndThen, BodyEnded
<1>2. Len(vals) \in Nat /\ Top.base \in Nat /\ Len(vals) >= Top.base + 1
  BY <1>1, TopFacts DEF TypeInv, EndThen, BodyEnded, Delivered, Resting
<1>3. k \in 1 .. Len(vals) + 1 /\ vals[k].val \in BOOLEAN
  BY <1>2, ResultFields DEF TypeInv
<1>4. BackendOK(a) /\ r \in Regs
  BY AllocTakesFree DEF TypeInv, BackendOK
<1> HIDE DEF a, r
<1>5. BackendOK(c)
  BY <1>4, EmitKeeps DEF CopyReg
<1> HIDE DEF c
<1>6. BackendOK(moved)
  BY <1>5, DeallocFrees
<1> HIDE DEF moved
<1>7. skip \in BOOLEAN /\ Top.live \in BOOLEAN
  BY <1>1 DEF IfOK
<1>8. BackendOK(after)
  BY <1>6, <1>7, LiveOK
<1> HIDE DEF after
<1>9. BackendOK(zero)
  BY <1>8, EmitKeeps DEF ZeroOut
<1> HIDE DEF zero
<1>10. BackendOK(done)
  BY <1>7, <1>9, LiveOK
<1>11. BackendOK(s)
  BY <1>6, SettledKeeps
<1>12. FrameOK(f) /\ f.k = Top.k /\ f.base = Top.base
  BY <1>1, <1>2, <1>3 DEF FrameOK, IfOK
<1>13. ContextOK(cg')
  BY <1>1, ScopeRestored DEF EndThen
<1>14. UNCHANGED fuel
  BY DEF EndThen
<1>15. CASE Top.hasElse
  <2>1. /\ vals' = Append(SubSeq(vals, 1, k - 1), Result(r, FALSE))
        /\ be'   = [s EXCEPT !.live = skip] /\ Become(f)
    BY <1>15 DEF EndThen, Pop, moved, c, r, a
  <2> HIDE DEF s, skip, f, k
  <2>2. BackendOK(be')
    BY <1>7, <1>11, <2>1, LiveOK
  <2>3. Result(r, FALSE) \in Results
    BY <1>4, ResultIsResult
  <2>4. vals' \in Seq(Results) /\ Len(vals') = k
    <3> DEFINE x == Result(r, FALSE)
    <3>1. /\ vals' = Append(SubSeq(vals, 1, k - 1), x) /\ x \in Results
          /\ vals \in Seq(Results) /\ k \in 1 .. Len(vals) + 1
      BY <1>3, <2>1, <2>3 DEF TypeInv
    <3> HIDE DEF x
    <3>2. Append(SubSeq(vals, 1, k - 1), x) \in Seq(Results) /\ Len(Append(SubSeq(vals, 1, k - 1), x)) = k
      BY ONLY <3>1, ReplaceFacts
    <3> QED
      BY <3>1, <3>2
  <2>5. Len(vals') >= Top.base
    BY <1>2, <2>4 DEF k
  <2> QED
    BY <1>12, <1>13, <1>14, <2>1, <2>2, <2>4, <2>5, BecomeTypes
<1>16. CASE ~Top.hasElse
  <2>1. IfResult(done, r, k, vals[k].val, from) /\ ctl' = Pop(ctl)
    BY <1>16 DEF EndThen, done, zero, after, skip, moved, c, r, a
  <2> HIDE DEF done, k, from
  <2>2. BackendOK(be') /\ vals' \in Seq(Results) /\ Len(vals') = k
    BY <1>3, <1>4, <1>10, <2>1, IfResultOK DEF TypeInv
  <2>3. Len(vals') >= Top.base
    BY <1>2, <2>2 DEF k
  <2> QED
    BY <1>1, <1>13, <1>14, <2>1, <2>2, <2>3, PopTypes
<1> QED
  BY <1>15, <1>16

LEMMA EndElseTypes ==
  ASSUME TypeInv, EndElse
  PROVE  TypeInv'
<1> DEFINE k    == Len(vals) - 1
           last == vals[k + 1]
           r    == vals[k].reg
           c    == CopyReg(be, last.reg, r)
           b    == RegDealloc(c, last.reg)
           d    == [b EXCEPT !.live = Top.live]
           val  == Top.val /\ last.val
           from == IF Top.taken THEN Opd(k) ELSE Opd(k + 1)
<1>1. Top.k = "if" /\ IfOK(Top) /\ Top.n > 0
  BY TopFacts, FrameKinds DEF TypeInv, EndElse, BodyEnded
<1>2. Len(vals) \in Nat /\ Top.base \in Nat /\ Len(vals) = Top.base + 2
  BY <1>1, TopFacts DEF TypeInv, EndElse, BodyEnded, Delivered, Resting
<1>3. k \in 1 .. Len(vals) + 1 /\ last.val \in BOOLEAN /\ r \in Regs /\ k >= Top.base
  BY <1>2, ResultFields DEF TypeInv
<1>4. BackendOK(c)
  BY EmitKeeps DEF CopyReg, TypeInv
<1> HIDE DEF c
<1>5. BackendOK(b)
  BY <1>4, DeallocFrees
<1> HIDE DEF b
<1>6. BackendOK(d) /\ val \in BOOLEAN
  BY <1>1, <1>3, <1>5, LiveOK DEF IfOK
<1>7. IfResult(d, r, k, val, from)
  BY DEF EndElse, b, c
<1> HIDE DEF d, r, k, val, from
<1>8. BackendOK(be') /\ vals' \in Seq(Results) /\ Len(vals') = k
  BY <1>3, <1>6, <1>7, IfResultOK DEF TypeInv
<1>9. ContextOK(cg')
  BY <1>1, ScopeRestored DEF EndElse
<1> QED
  BY <1>1, <1>3, <1>8, <1>9, PopTypes DEF EndElse, TypeInv

LEMMA DeclareTypes ==
  ASSUME TypeInv, NEW x, Declare(x)
  PROVE  TypeInv'
<1> DEFINE n   == Len(vals) + 1
           off == cg.off - 1
           b   == AllocateOnStack(be, 1)
<1>1. Len(vals) \in Nat /\ n \in 1 .. Len(vals) + 1 /\ n >= Top.base /\ Top.base \in Nat
  BY TopFacts DEF TypeInv
<1>2. UNCHANGED ctl /\ fuel' \in 0 .. MaxNodes
  BY InnerFuel DEF Declare
<1>3. BackendOK(b)
  BY EmitKeeps DEF AllocateOnStack, TypeInv
<1> HIDE DEF b
<1>4. \A c : BackendOK([b EXCEPT !.cpu = c])
  BY <1>3 DEF BackendOK, BackendFields
<1>5. PICK c, d :
        /\ \/ c = be \/ c = b \/ c = [b EXCEPT !.cpu = d]
        /\ DeliverNothing(c, n)
        /\ \/ UNCHANGED cg
           \/ /\ x \in Locals
              /\ \E env : cg' = [cg EXCEPT !.off = off, !.env = env, !.scope = @ \cup {x}]
  <2>1. CASE cg.global /\ DeliverNothing(be, Len(vals) + 1) /\ UNCHANGED cg
    BY <2>1
  <2>2. CASE ~(cg.global /\ DeliverNothing(be, Len(vals) + 1) /\ UNCHANGED cg)
    <3> DEFINE env == SetEnv(cg.env, x, off)
               at  == CellOf(GetEnv(env, x))
               d   == SetCell(b.cpu, at, Var(x))
               c   == IF b.live THEN [b EXCEPT !.cpu = d] ELSE b
    <3>1. /\ x \in Locals /\ DeliverNothing(c, n)
          /\ cg' = [cg EXCEPT !.off = off, !.env = env, !.scope = @ \cup {x}]
      BY <2>2 DEF Declare, b
    <3>2. c = b \/ c = [b EXCEPT !.cpu = d]
      OBVIOUS
    <3> HIDE DEF c, d, env, at, n, off
    <3> QED
      BY <3>1, <3>2
  <2> QED
    BY <2>1, <2>2
<1>6. BackendOK(c)
  BY <1>3, <1>4, <1>5 DEF TypeInv
<1> HIDE DEF n
<1>7. BackendOK(be') /\ vals' \in Seq(Results) /\ Len(vals') = n
  BY <1>1, <1>5, <1>6, DeliverNothingOK DEF TypeInv
<1>8. ContextOK(cg')
  <2>1. CASE UNCHANGED cg
    BY <2>1 DEF TypeInv
  <2>2. CASE ~UNCHANGED cg
    <3>1. x \in Names
      BY <1>5, <2>2 DEF Names
    <3>2. PICK env : cg' = [cg EXCEPT !.off = off, !.env = env, !.scope = @ \cup {x}]
      BY <1>5, <2>2
    <3>3. DOMAIN cg = {"global", "off", "env", "scope"} /\ cg.off \in Int /\ cg.scope \in SUBSET Names
      BY DEF TypeInv, ContextOK
    <3>4. DOMAIN cg' = {"global", "off", "env", "scope"} /\ cg'.off = off /\ cg'.scope = cg.scope \cup {x}
      BY <3>2, <3>3
    <3>5. off \in Int
      BY <3>3
    <3> QED
      BY <3>1, <3>3, <3>4, <3>5 DEF ContextOK
  <2> QED
    BY <2>1, <2>2
<1>9. ControlOK(ctl', Len(vals'))
  BY <1>1, <1>2, <1>7, SameControl DEF TypeInv, Top
<1> QED
  BY <1>2, <1>7, <1>8, <1>9 DEF TypeInv

LEMMA BeginAssignTypes ==
  ASSUME TypeInv, NEW x, BeginAssign(x) \/ BeginStore(x)
  PROVE  TypeInv'
<1>1. PICK kind \in {"reassign", "store"} : Inner(kind) /\ Push(AssignFrame(kind, x))
  BY DEF BeginAssign, BeginStore
<1>2. /\ FrameOK(AssignFrame(kind, x)) /\ AssignFrame(kind, x).k # "prog"
      /\ AssignFrame(kind, x).base = Len(vals)
  BY TopFacts DEF TypeInv, AssignFrame, FrameOK, AssignOK
<1>3. fuel' \in 0 .. MaxNodes
  BY <1>1, InnerFuel
<1> QED
  BY <1>1, <1>2, <1>3, PushTypes DEF BeginAssign, BeginStore, TypeInv

LEMMA EndAssignTypes ==
  ASSUME TypeInv, EndAssign
  PROVE  TypeInv'
<1> DEFINE k     == Len(vals)
           x     == Top.x
           local == ~cg.global /\ IsBound(cg.env, x)
           b     == IF cg.global THEN StoreGlobal(be, x, vals[k].reg)
                    ELSE IF local THEN StoreLocal(be, GetEnv(cg.env, x), vals[k].reg)
                    ELSE Fail(be, "unknown_symbol")
           at    == IF local THEN InCell(CellOf(GetEnv(cg.env, x))) ELSE InGlob(x)
<1>1. Top.k = "reassign" /\ Len(vals) \in Nat /\ Top.base \in Nat /\ Len(vals) = Top.base + 1
  BY TopFacts DEF TypeInv, EndAssign, Delivered
<1>2. "unknown_symbol" \in Errors
  BY DEF Errors
<1>3. BackendOK(b)
  BY <1>2, EmitKeeps, FailKeeps DEF StoreGlobal, StoreLocal, TypeInv
<1>4. be' = Settled(b, k - 1, at, Opd(k), Var(x)) /\ vals' = Append(SubSeq(vals, 1, k - 1), NoResult)
  BY DEF EndAssign, Pop
<1>5. k \in 1 .. Len(vals) + 1 /\ k >= Top.base
  BY <1>1
<1>8. NoResult \in Results
  BY ResultIsResult, RegsAre DEF NoResult
<1> HIDE DEF b, at, k
<1>6. BackendOK(be')
  BY <1>3, <1>4, SettledKeeps
<1>7. vals' \in Seq(Results) /\ Len(vals') = k
  BY <1>4, <1>5, <1>8, ReplaceFacts DEF TypeInv
<1> QED
  BY <1>1, <1>5, <1>6, <1>7, PopTypes DEF EndAssign, TypeInv

LEMMA EndStoreTypes ==
  ASSUME TypeInv, EndStore
  PROVE  TypeInv'
<1> DEFINE k == Len(vals)
<1>0. PICK a \in Targets(be, Top.x) : DeliverNothing(RegDealloc(RegDealloc(a, vals[k].reg), a.res), k)
  BY DEF EndStore
<1> DEFINE c == RegDealloc(a, vals[k].reg)
           d == RegDealloc(c, a.res)
<1>1. Top.k = "store" /\ Len(vals) \in Nat /\ Top.base \in Nat /\ Len(vals) = Top.base + 1
  BY TopFacts DEF TypeInv, EndStore, Delivered
<1>2. BackendOK(a)
  BY <1>0, TargetOK DEF TypeInv
<1>3. BackendOK(c)
  BY <1>2, DeallocFrees
<1>4. BackendOK(d)
  BY <1>3, DeallocFrees
<1>5. DeliverNothing(d, k) /\ k \in 1 .. Len(vals) + 1 /\ k >= Top.base
  BY <1>0, <1>1
<1> HIDE DEF d, k
<1>6. BackendOK(be') /\ vals' \in Seq(Results) /\ Len(vals') = k
  BY <1>4, <1>5, DeliverNothingOK DEF TypeInv
<1> QED
  BY <1>1, <1>5, <1>6, PopTypes DEF EndStore, TypeInv

LEMMA BeginFuncTypes ==
  ASSUME TypeInv, NEW argc \in 0 .. MaxArgs, BeginFunc(argc)
  PROVE  TypeInv'
<1> DEFINE f == Body("func", argc, [cg |-> cg, cpu |-> be.cpu, live |-> be.live])
           b == [be EXCEPT !.cpu = InvokedCPU(argc), !.live = TRUE]
<1>1. FrameOK(f) /\ f.k = "func" /\ f.base = Len(vals)
  BY TopFacts DEF TypeInv, Body, FrameOK, BodyOK, BackendOK
<1>2. BackendOK(b)
  BY DEF TypeInv, BackendOK, BackendFields
<1> HIDE DEF b
<1>3. BackendOK(FuncHeader(b, InitialOffset))
  BY <1>2, EmitKeeps DEF FuncHeader
<1>4. BackendOK(be') /\ fuel' \in 0 .. MaxNodes
  BY <1>3, InnerFuel DEF BeginFunc, b
<1>5. {Params[i] : i \in 1 .. argc} \in SUBSET Names
  BY CodeGenAssumption DEF Names
<1>6. ContextOK(cg')
  BY <1>5 DEF BeginFunc, ContextOK, InitialOffset
<1>7. Push(f) /\ UNCHANGED vals
  BY DEF BeginFunc
<1> HIDE DEF f
<1> QED
  BY <1>1, <1>4, <1>6, <1>7, PushTypes

LEMMA EndFuncTypes ==
  ASSUME TypeInv, EndFunc
  PROVE  TypeInv'
<1> DEFINE c == [be EXCEPT !.cpu = Top.saved.cpu, !.live = Top.saved.live]
           b == Load(c, "lea", Code)
           k == Len(vals) + 1
<1>1. Top.k = "func" /\ Top.saved.live \in BOOLEAN /\ ContextOK(Top.saved.cg)
  BY TopFacts, FrameKinds DEF TypeInv, EndFunc, BodyOK
<1>2. BackendOK(c)
  BY <1>1 DEF TypeInv, BackendOK, BackendFields
<1> HIDE DEF c
<1>3. BackendOK(b)
  BY <1>2, LoadTakesFree
<1>4. Deliver(b, k, Code)
  BY DEF EndFunc, c
<1>5. Len(vals) \in Nat /\ k \in 1 .. Len(vals) + 1 /\ k >= Top.base
  BY TopFacts DEF TypeInv
<1> HIDE DEF b, k
<1>6. BackendOK(be') /\ vals' \in Seq(Results) /\ Len(vals') = k
  BY <1>3, <1>4, <1>5, DeliverOK DEF TypeInv
<1> QED
  BY <1>1, <1>5, <1>6, PopTypes DEF EndFunc

LEMMA StatementTypes ==
  ASSUME TypeInv, Statement \/ LastStatement
  PROVE  TypeInv'
<1> DEFINE k == Len(vals)
           r == Last(vals).reg
           d == RegDealloc(be, r)
           e == SetFuncRetVal(d, r)
           f == [Top EXCEPT !.n = @ + 1]
           g == [Top EXCEPT !.n = @ + 1, !.ph = "ret", !.val = Last(vals).val]
<1>1. Top.k \in {"prog", "func"} /\ BodyOK(Top)
  BY TopFacts, FrameKinds DEF TypeInv, Statement, LastStatement, InBody
<1>2. Len(vals) \in Nat /\ Top.base \in Nat /\ Len(vals) = Top.base + 1
  BY TopFacts DEF TypeInv, Statement, LastStatement, Delivered
<1>3. k \in 1 .. Len(vals) + 1 /\ Last(vals).val \in BOOLEAN
  <2>1. Len(vals) \in 1 .. Len(vals)
    BY <1>2
  <2>2. vals[Len(vals)].val \in BOOLEAN
    BY <2>1, ResultFields DEF TypeInv
  <2> QED
    BY <2>1, <2>2 DEF Last
<1>4. /\ FrameOK(f) /\ f.k = Top.k /\ f.base = Top.base
      /\ FrameOK(g) /\ g.k = Top.k /\ g.base = Top.base
  BY <1>1, <1>2, <1>3 DEF FrameOK, BodyOK
<1>5. BackendOK(d)
  BY DeallocFrees DEF TypeInv
<1>6. BackendOK(e)
  BY <1>5, EmitKeeps DEF SetFuncRetVal
<1>7. /\ Become(f) \/ Become(g)
      /\ \/ Consume(d, k, Nowhere, Junk, Junk)
         \/ Consume(e, k, InReg(RAX), Opd(k), Returned)
      /\ UNCHANGED << cg, fuel >>
  BY DEF Statement, LastStatement
<1> HIDE DEF d, e, f, g, k
<1>8. BackendOK(be') /\ vals' \in Seq(Results) /\ Len(vals') = k - 1
  BY <1>3, <1>5, <1>6, <1>7, ConsumeOK DEF TypeInv
<1>9. Len(vals') >= Top.base
  BY <1>2, <1>8 DEF k
<1> QED
  BY <1>4, <1>7, <1>8, <1>9, BecomeTypes DEF TypeInv

-----------------------------------------------------------------------------
LEMMA InitTypes == Init => TypeInv
<1> SUFFICES ASSUME Init PROVE TypeInv
  OBVIOUS
<1>1. FrameOK(ctl[1]) /\ ctl[1].k = "prog" /\ ctl[1].base = 0 /\ Len(ctl) = 1 /\ Len(vals) = 0
  BY DEF Init, FrameOK, BodyOK
<1>2. IsSeq(ctl)
  <2>1. \A e : << e >> \in Seq({e})
    OBVIOUS
  <2> QED
    BY <2>1 DEF Init, IsSeq
<1>3. ControlOK(ctl, Len(vals))
  BY <1>1, <1>2 DEF ControlOK
<1>4. BackendOK(be)
  BY InitBackendOK, EmitKeeps DEF Init, FuncHeader
<1>5. ContextOK(cg) /\ vals \in Seq(Results) /\ fuel \in 0 .. MaxNodes
  BY CodeGenAssumption DEF Init, ContextOK, InitialOffset
<1> QED
  BY <1>3, <1>4, <1>5 DEF TypeInv

LEMMA NextTypes == TypeInv /\ [Next]_vars => TypeInv'
<1> SUFFICES ASSUME TypeInv, [Next]_vars PROVE TypeInv'
  OBVIOUS
<1>1. CASE GenInt \/ \E x \in InScope : GenVar(x) \/ GenDeref(x) \/ GenAddr(x) \/ GenIndex(x)
  BY <1>1, LeavesTypes
<1>2. CASE \E x \in InScope : BeginAssign(x) \/ BeginStore(x)
  BY <1>2, BeginAssignTypes
<1>3. CASE \E op \in Ops : BeginBinop(op)
  BY <1>3, BeginBinopTypes
<1>4. CASE EndBinop
  BY <1>4, EndBinopTypes
<1>5. CASE \E argc \in 0 .. MaxArgs : BeginFunc(argc)
  BY <1>5, BeginFuncTypes
<1>6. CASE \E argc \in 0 .. MaxArgs : \E ext \in BOOLEAN : BeginCall(ext, argc)
  BY <1>6, BeginCallTypes
<1>7. CASE CallArg \/ EndCall
  BY <1>7, CallArgTypes, EndCallTypes
<1>8. CASE BeginIf \/ IfCondition \/ IfStatement \/ EndThen \/ EndElse
  BY <1>8, BeginIfTypes, IfConditionTypes, IfStatementTypes, EndThenTypes, EndElseTypes
<1>9. CASE \E x \in Globals \cup Locals : Declare(x)
  BY <1>9, DeclareTypes
<1>10. CASE EndAssign \/ EndStore \/ EndFunc
  BY <1>10, EndAssignTypes, EndStoreTypes, EndFuncTypes
<1>11. CASE Statement \/ LastStatement
  BY <1>11, StatementTypes
<1>12. CASE Stopped \/ UNCHANGED vars
  BY <1>12 DEF Stopped, vars, TypeInv
<1> QED
  BY <1>1, <1>2, <1>3, <1>4, <1>5, <1>6, <1>7, <1>8, <1>9, <1>10, <1>11, <1>12 DEF Next

(***************************************************************************)
(* Whatever program is compiled, for whatever part of the language, the    *)
(* control stack, the results, the pool, the call state and the context    *)
(* stay well formed: no activation of target_codegen_expr ever consumes an *)
(* operand that its callers still need.                                    *)
(***************************************************************************)
THEOREM TypeCorrect == Spec => []CompilerTypeOK
<1>1. TypeInv => CompilerTypeOK
  <2> SUFFICES ASSUME TypeInv PROVE CompilerTypeOK
    OBVIOUS
  <2>1. ctl # << >> /\ \A i \in DOMAIN ctl : ctl[i].base \in 0 .. Len(vals)
    <3>1. Len(ctl) \in Nat /\ DOMAIN ctl = 1 .. Len(ctl) /\ Len(ctl) >= 1
      BY SeqFacts DEF TypeInv, ControlOK
    <3>2. \A i \in 1 .. Len(ctl) : ctl[i].base \in Nat /\ ctl[i].base <= Len(vals)
      <4> TAKE i \in 1 .. Len(ctl)
      <4>1. ctl[i].base \in Nat /\ ctl[i].base <= ctl[Len(ctl)].base
        BY <3>1 DEF TypeInv, ControlOK, FrameOK
      <4>2. ctl[Len(ctl)].base \in Nat /\ ctl[Len(ctl)].base <= Len(vals) /\ Len(vals) \in Nat
        BY <3>1 DEF TypeInv, ControlOK, FrameOK
      <4> QED
        BY <4>1, <4>2
    <3> QED
      BY <3>1, <3>2
  <2> QED
    BY <2>1 DEF TypeInv, CompilerTypeOK, Results, BackendOK, ContextOK, Names
<1> QED
  BY <1>1, InitTypes, NextTypes, PTL DEF Spec
=============================================================================
