---------------------------- MODULE CallProofs ----------------------------
(***************************************************************************)
(* Calls and the stack.  The call state all contexts share describes the   *)
(* call being prepared, whatever surrounds it; and the stack pointer of    *)
(* the processor that runs the code is where local_offset says, plus the   *)
(* words a call being prepared has pushed.                                 *)
(***************************************************************************)
EXTENDS CodeGenProofs, WellFoundedInduction

-----------------------------------------------------------------------------
(* Least and greatest elements: induction, without an operator parameter. *)

LEMMA LeastOfNat ==
  ASSUME NEW S \in SUBSET Nat, S # {}
  PROVE  \E m \in S : \A k \in S : m <= k
<1>1. \E m \in S : \A k \in S : ~(<< k, m >> \in OpToRel(<, Nat))
  BY NatLessThanWellFounded, WFMin
<1>2. PICK m \in S : \A k \in S : ~(<< k, m >> \in OpToRel(<, Nat))
  BY <1>1
<1>3. \A k \in S : ~(k < m)
  BY <1>2 DEF OpToRel
<1>4. \A k \in S : k \in Nat
  OBVIOUS
<1> QED
  BY <1>3, <1>4

LEMMA GreatestOfInterval ==
  ASSUME NEW n \in Nat, NEW S \in SUBSET (1 .. n), S # {}
  PROVE  \E m \in S : \A k \in S : k <= m
<1> DEFINE T == {j \in Nat : \A k \in S : k <= j}
<1>1. n \in T
  OBVIOUS
<1>2. PICK m \in T : \A j \in T : m <= j
  <2>1. T \in SUBSET Nat /\ T # {}
    BY <1>1
  <2> HIDE DEF T
  <2> QED
    BY <2>1, LeastOfNat
<1>3. m \in Nat /\ \A k \in S : k <= m /\ k \in Nat /\ k >= 1
  BY <1>2
<1>4. m \in S
  <2> SUFFICES ASSUME m \notin S PROVE FALSE
    OBVIOUS
  <2>1. PICK k \in S : TRUE
    OBVIOUS
  <2>2. m - 1 \in Nat /\ \A j \in S : j <= m - 1
    BY <1>3, <2>1
  <2>3. m - 1 \in T
    BY <2>2
  <2> HIDE DEF T
  <2> QED
    BY <1>2, <1>3, <2>3
<1> QED
  BY <1>3, <1>4

-----------------------------------------------------------------------------
(***************************************************************************)
(* The open calls of a control stack, and the back end's view of them.  A  *)
(* call can be set up inside another one only before that one has its      *)
(* first argument (setup_func_call refuses it later), so all but the       *)
(* innermost have none yet: when the innermost is cleaned up, the initial  *)
(* state is the right one for the call around it.                          *)
(***************************************************************************)
CallsOf(s) == {i \in 1 .. Len(s) : s[i].k = "call"}

KindOfCall(f) == IF f.n = 0 THEN "NONE" ELSE IF f.ext THEN "EXTERNAL" ELSE "INTERNAL"

Describes(b, f) == b.nargs = f.n /\ b.call = KindOfCall(f)

NoCall(b) == b.call = "NONE" /\ b.nargs = 0 /\ ~b.raxInUse

InnermostCall(s, i) == i \in CallsOf(s) /\ \A j \in CallsOf(s) : j <= i

CallsMatch(s, b) ==
  /\ \A i, j \in CallsOf(s) : i < j => s[i].n = 0
  /\ \A i : InnermostCall(s, i) => Describes(b, s[i])
  /\ CallsOf(s) = {} => NoCall(b)

CallInv ==
  /\ \A i \in CallsOf(ctl) : ctl[i].n \in Nat
  /\ Compiling => CallsMatch(ctl, be)

\* The call state is untouched.
Calm(b, c) == c.call = b.call /\ c.nargs = b.nargs /\ c.raxInUse = b.raxInUse

SameCalls(s, t) == CallsOf(t) = CallsOf(s) /\ \A i \in CallsOf(s) : t[i] = s[i]

LEMMA CallsKept ==
  ASSUME CallInv, Running, SameCalls(ctl, ctl'), be'.err = "none" => Calm(be, be')
  PROVE  CallInv'
<1>1. Compiling
  BY DEF Running, Compiling
<1>2. \A i \in CallsOf(ctl') : i \in CallsOf(ctl) /\ ctl'[i] = ctl[i]
  BY DEF SameCalls
<1>3. ASSUME be'.err = "none" PROVE CallsMatch(ctl', be')
  <2>1. Calm(be, be') /\ CallsMatch(ctl, be)
    BY <1>1, <1>3 DEF CallInv
  <2>2. \A i : InnermostCall(ctl', i) => InnermostCall(ctl, i) /\ ctl'[i] = ctl[i]
    BY DEF InnermostCall, SameCalls
  <2> QED
    BY <1>2, <2>1, <2>2 DEF CallsMatch, Describes, NoCall, Calm, SameCalls
<1> QED
  BY <1>2, <1>3 DEF CallInv, Compiling

LEMMA CallsPush ==
  ASSUME NEW s, IsSeq(s), NEW f
  PROVE  LET t == Append(s, f)
         IN  /\ Len(t) = Len(s) + 1 /\ Len(s) \in Nat /\ t[Len(s) + 1] = f
             /\ \A i \in 1 .. Len(s) : t[i] = s[i]
             /\ f.k # "call" => SameCalls(s, t)
             /\ f.k = "call" => CallsOf(t) = CallsOf(s) \cup {Len(s) + 1}
  BY SeqFacts, AppendFacts DEF CallsOf, SameCalls

LEMMA CallsPop ==
  ASSUME NEW s, IsSeq(s), Len(s) > 0
  PROVE  LET t == Pop(s)
         IN  /\ Len(s) \in Nat /\ \A i \in 1 .. Len(s) - 1 : t[i] = s[i]
             /\ s[Len(s)].k # "call" => SameCalls(s, t)
             /\ s[Len(s)].k = "call" => CallsOf(t) = CallsOf(s) \ {Len(s)}
<1> DEFINE t == Pop(s)
<1>1. Len(s) \in Nat /\ Len(t) = Len(s) - 1 /\ \A i \in 1 .. Len(s) - 1 : t[i] = s[i]
  BY SeqFacts, PopFacts
<1> HIDE DEF t
<1>2. CallsOf(t) = CallsOf(s) \ {Len(s)}
  BY <1>1 DEF CallsOf
<1>3. \A i \in CallsOf(t) : t[i] = s[i]
  BY <1>1 DEF CallsOf
<1>4. s[Len(s)].k # "call" => Len(s) \notin CallsOf(s)
  BY DEF CallsOf
<1> QED
  BY <1>1, <1>2, <1>3, <1>4 DEF SameCalls, t

LEMMA CallsBecome ==
  ASSUME NEW s, IsSeq(s), Len(s) > 0, NEW f, f.k = s[Len(s)].k
  PROVE  LET t == [s EXCEPT ![Len(s)] = f]
         IN  /\ Len(s) \in Nat /\ t[Len(s)] = f /\ \A i \in 1 .. Len(s) - 1 : t[i] = s[i]
             /\ CallsOf(t) = CallsOf(s)
             /\ f.k # "call" => SameCalls(s, t)
  BY SeqFacts, BecomeFacts DEF CallsOf, SameCalls

\* The frames of the control stack, when the innermost is no call.
LEMMA PushCalm ==
  ASSUME TypeInv, CallInv, Running, NEW f, f.k # "call", Push(f),
         be'.err = "none" => Calm(be, be')
  PROVE  CallInv'
  BY CallsPush, CallsKept DEF Push, TypeInv, ControlOK

LEMMA PopCalm ==
  ASSUME TypeInv, CallInv, Running, Top.k # "call", ctl' = Pop(ctl),
         be'.err = "none" => Calm(be, be')
  PROVE  CallInv'
  BY CallsPop, CallsKept, TopFacts DEF TypeInv, ControlOK, Top

LEMMA BecomeCalm ==
  ASSUME TypeInv, CallInv, Running, Top.k # "call", NEW f, f.k = Top.k, Become(f),
         be'.err = "none" => Calm(be, be')
  PROVE  CallInv'
<1>1. IsSeq(ctl) /\ Len(ctl) > 0 /\ f.k = ctl[Len(ctl)].k
  BY TopFacts DEF TypeInv, ControlOK, Top
<1>2. SameCalls(ctl, [ctl EXCEPT ![Len(ctl)] = f])
  BY <1>1, CallsBecome
<1> QED
  BY <1>2, CallsKept DEF Become

LEMMA StayCalm ==
  ASSUME CallInv, Running, UNCHANGED ctl, be'.err = "none" => Calm(be, be')
  PROVE  CallInv'
  BY CallsKept DEF SameCalls

-----------------------------------------------------------------------------
(* What the back end does between the calls leaves their state alone. *)

LEMMA SettledCalm ==
  ASSUME NEW b, BackendOK(b), NEW n, NEW at, NEW from, NEW to
  PROVE  LET c == Settled(b, n, at, from, to) IN Calm(b, c) /\ c.err = b.err
  BY SettledKeeps DEF SameCall, Calm

LEMMA CalmTwice ==
  ASSUME NEW b, NEW c, NEW d, Calm(b, c), Calm(c, d)
  PROVE  Calm(b, d)
  BY DEF Calm

LEMMA EmitCalm ==
  ASSUME NEW b, BackendOK(b), NEW code
  PROVE  Calm(b, Emit(b, code)) /\ BackendOK(Emit(b, code)) /\ Emit(b, code).err = b.err
  BY EmitKeeps DEF SameCall, Calm

LEMMA DeallocCalm ==
  ASSUME NEW b, BackendOK(b), NEW r
  PROVE  /\ Calm(b, RegDealloc(b, r)) /\ BackendOK(RegDealloc(b, r))
         /\ RegDealloc(b, r).err = b.err
  BY DeallocFrees DEF SameCall, Calm

LEMMA LoadCalm ==
  ASSUME NEW b, BackendOK(b), NEW op, NEW src
  PROVE  /\ Calm(b, Load(b, op, src)) /\ BackendOK(Load(b, op, src))
         /\ Load(b, op, src).err = "none" => b.err = "none"
  BY LoadTakesFree DEF SameCall, Calm

LEMMA LiveCalm ==
  ASSUME NEW b, BackendOK(b), NEW x \in BOOLEAN
  PROVE  LET c == [b EXCEPT !.live = x] IN Calm(b, c) /\ BackendOK(c) /\ c.err = b.err
  BY DEF BackendOK, BackendFields, Calm

LEMMA CPUCalm ==
  ASSUME NEW b, BackendOK(b), NEW p
  PROVE  Calm(b, [b EXCEPT !.cpu = p]) /\ BackendOK([b EXCEPT !.cpu = p])
  BY DEF BackendOK, BackendFields, Calm

LEMMA ContextCalm ==
  ASSUME NEW b, BackendOK(b), NEW x \in BOOLEAN, NEW p
  PROVE  Calm(b, [b EXCEPT !.cpu = p, !.live = x]) /\ BackendOK([b EXCEPT !.cpu = p, !.live = x])
  BY DEF BackendOK, BackendFields, Calm

LEMMA FailCalm ==
  ASSUME NEW b, BackendOK(b), NEW e \in Errors
  PROVE  Calm(b, Fail(b, e)) /\ BackendOK(Fail(b, e)) /\ Fail(b, e).err = e
  BY FailKeeps DEF SameCall, Calm

LEMMA AccessCalm ==
  ASSUME NEW b, BackendOK(b), NEW x
  PROVE  Calm(b, VarAccess(b, x)) /\ BackendOK(VarAccess(b, x))
  BY LoadCalm DEF VarAccess

LEMMA AddressCalm ==
  ASSUME NEW b, BackendOK(b), NEW x
  PROVE  /\ Calm(b, AddressOf(b, x)) /\ BackendOK(AddressOf(b, x))
         /\ Calm(b, ElementAddr(b, x)) /\ BackendOK(ElementAddr(b, x))
<1> DEFINE a == AddressOf(b, x)
<1>1. "unknown_symbol" \in Errors
  BY DEF Errors
<1>2. Calm(b, a) /\ BackendOK(a)
  BY <1>1, LoadCalm, FailCalm DEF AddressOf
<1>3. ElementAddr(b, x) = Emit(a, << << "addimm", a.res >> >>)
  BY DEF ElementAddr, AddImm
<1> HIDE DEF a
<1>4. Calm(b, Emit(a, << << "addimm", a.res >> >>)) /\ BackendOK(Emit(a, << << "addimm", a.res >> >>))
  BY <1>2, EmitCalm, CalmTwice
<1> QED
  BY <1>2, <1>3, <1>4 DEF a

\* A node that delivers what b holds.
LEMMA DeliverCalm ==
  ASSUME NEW b, BackendOK(b), Calm(be, b), NEW k, NEW e, Deliver(b, k, e)
  PROVE  Calm(be, be')
  BY SettledCalm, CalmTwice DEF Deliver

LEMMA LeavesCalls ==
  ASSUME TypeInv, CallInv,
         GenInt \/ \E x \in InScope : GenVar(x) \/ GenDeref(x) \/ GenAddr(x) \/ GenIndex(x)
  PROVE  CallInv'
<1>1. BackendOK(be)
  BY DEF TypeInv
<1>2. CASE GenInt
  BY <1>1, <1>2, LoadCalm, DeliverCalm, StayCalm DEF GenInt, Leaf
<1>3. CASE \E x \in InScope : GenVar(x) \/ GenDeref(x)
  BY <1>1, <1>3, AccessCalm, DeliverCalm, StayCalm DEF GenVar, GenDeref, Leaf
<1>4. CASE \E x \in InScope : GenAddr(x) \/ GenIndex(x)
  BY <1>1, <1>4, AddressCalm, DeliverCalm, StayCalm DEF GenAddr, GenIndex, Leaf
<1> QED
  BY <1>2, <1>3, <1>4

LEMMA BeginsCalls ==
  ASSUME TypeInv, CallInv,
         BeginIf \/ (\E op \in Ops : BeginBinop(op))
                 \/ \E x \in InScope : BeginAssign(x) \/ BeginStore(x)
  PROVE  CallInv'
<1>1. Running /\ UNCHANGED be /\ \E f : f.k # "call" /\ Push(f)
  <2>1. CASE BeginIf
    BY <2>1 DEF BeginIf, Inner, IfFrame
  <2>2. CASE \E op \in Ops : BeginBinop(op)
    BY <2>2 DEF BeginBinop, Inner, BinopFrame
  <2>3. CASE \E x \in InScope : BeginAssign(x) \/ BeginStore(x)
    BY <2>3 DEF BeginAssign, BeginStore, Inner, AssignFrame
  <2> QED
    BY <2>1, <2>2, <2>3
<1> QED
  BY <1>1, PushCalm DEF Calm

LEMMA EndBinopCalls ==
  ASSUME TypeInv, CallInv, EndBinop
  PROVE  CallInv'
<1> DEFINE k == Len(vals) - 1
           l == vals[k].reg
           r == vals[k + 1].reg
           g == GenBinop(be, Top.op, l, r)
<1>1. Running /\ Top.k = "binop" /\ ctl' = Pop(ctl)
  BY DEF EndBinop
<1>2. Top.op \in BinaryOps
  BY <1>1, TopFacts, FrameKinds, CodeGenAssumption DEF TypeInv, BinopOK
<1>3. Len(vals) \in Nat /\ Len(vals) >= 2
  BY TopFacts DEF TypeInv, EndBinop, Delivered
<1>4. l \in Regs /\ r \in Regs
  BY <1>3, ResultFields DEF TypeInv
<1>5. \E e : Deliver(g, k, e)
  BY DEF EndBinop
<1> HIDE DEF k, l, r
<1>6. BackendOK(g) /\ Calm(be, g)
  BY <1>2, <1>4, BinopReplaces DEF TypeInv, SameCall, Calm
<1> HIDE DEF g
<1>7. Calm(be, be')
  BY <1>5, <1>6, DeliverCalm
<1> QED
  BY <1>1, <1>7, PopCalm

LEMMA IfConditionCalls ==
  ASSUME TypeInv, CallInv, IfCondition
  PROVE  CallInv'
<1> DEFINE d == RegDealloc(be, Last(vals).reg)
           n == Len(vals) - 1
           b == Settled(d, n, Nowhere, Junk, Junk)
<1>1. PICK taken, hasElse :
        /\ Become([Top EXCEPT !.ph = "then", !.taken = taken, !.hasElse = hasElse])
        /\ be' = [b EXCEPT !.live = @ /\ taken]
  BY DEF IfCondition
<1> DEFINE f == [Top EXCEPT !.ph = "then", !.taken = taken, !.hasElse = hasElse]
<1>2. Running /\ Top.k = "if"
  BY DEF IfCondition
<1>3. f.k = Top.k
  BY <1>2, TopFacts, FrameKinds DEF TypeInv, IfOK
<1>4. BackendOK(d) /\ Calm(be, d)
  BY DeallocCalm DEF TypeInv
<1> HIDE DEF d
<1>5. BackendOK(b) /\ Calm(d, b)
  BY <1>4, SettledCalm, SettledKeeps
<1> HIDE DEF b, f
<1>6. Calm(b, be')
  BY <1>1, <1>5 DEF BackendOK, BackendFields, Calm
<1>7. Calm(be, be')
  BY <1>4, <1>5, <1>6, CalmTwice
<1> QED
  BY <1>1, <1>2, <1>3, <1>7, BecomeCalm DEF f

LEMMA IfStatementCalls ==
  ASSUME TypeInv, CallInv, IfStatement
  PROVE  CallInv'
<1> DEFINE f == [Top EXCEPT !.n = @ + 1]
           k == Len(vals) - 1
           d == RegDealloc(be, vals[k].reg)
<1>1. Running /\ Top.k = "if" /\ Become(f)
  BY DEF IfStatement, InIf
<1>2. f.k = Top.k
  BY <1>1, TopFacts, FrameKinds DEF TypeInv, IfOK
<1>3. be' = be \/ \E n, at, from, to : be' = Settled(d, n, at, from, to)
  BY DEF IfStatement
<1>4. BackendOK(d) /\ Calm(be, d)
  BY DeallocCalm DEF TypeInv
<1> HIDE DEF d, f
<1>5. Calm(be, be')
  BY <1>3, <1>4, SettledCalm, CalmTwice DEF Calm
<1> QED
  BY <1>1, <1>2, <1>5, BecomeCalm

LEMMA EndThenCalls ==
  ASSUME TypeInv, CallInv, EndThen
  PROVE  CallInv'
<1> DEFINE k     == Len(vals)
           a     == RegAlloc(be)
           c     == CopyReg(a, vals[k].reg, a.res)
           moved == RegDealloc(c, vals[k].reg)
           skip  == Top.live /\ ~Top.taken
           after == [moved EXCEPT !.live = skip]
           zero  == ZeroOut(after, a.res)
           done  == [zero EXCEPT !.live = Top.live]
           from  == IF Top.taken THEN Opd(k) ELSE Zero
           f     == [Top EXCEPT !.ph = "else", !.n = 0, !.val = vals[k].val]
           s     == Settled(moved, k - 1, InReg(a.res), Opd(k), Opd(k))
<1>1. Running /\ Top.k = "if" /\ IfOK(Top)
  BY TopFacts, FrameKinds DEF TypeInv, EndThen, BodyEnded
<1>2. f.k = Top.k /\ skip \in BOOLEAN /\ Top.live \in BOOLEAN
  BY <1>1 DEF IfOK
<1>3. \/ Become(f) /\ be' = [s EXCEPT !.live = skip]
      \/ ctl' = Pop(ctl) /\ be' = Settled(done, k - 1, InReg(a.res), from, Opd(k))
  BY DEF EndThen, IfResult
<1>4. BackendOK(a) /\ Calm(be, a)
  BY AllocTakesFree DEF TypeInv, SameCall, Calm
<1> HIDE DEF a
<1>5. BackendOK(c) /\ Calm(a, c)
  BY <1>4, EmitCalm DEF CopyReg
<1> HIDE DEF c
<1>6. BackendOK(moved) /\ Calm(c, moved)
  BY <1>5, DeallocCalm
<1> HIDE DEF moved
<1>7. BackendOK(s) /\ Calm(moved, s)
  BY <1>6, SettledCalm, SettledKeeps
<1>8. BackendOK(after) /\ Calm(moved, after)
  BY <1>2, <1>6, LiveCalm
<1> HIDE DEF after, s
<1>9. BackendOK(zero) /\ Calm(after, zero)
  BY <1>8, EmitCalm DEF ZeroOut
<1> HIDE DEF zero
<1>10. BackendOK(done) /\ Calm(zero, done)
  BY <1>2, <1>9, LiveCalm
<1> HIDE DEF done, skip, f, k, from
<1>11. be' = [s EXCEPT !.live = skip] => Calm(s, be')
  BY <1>2, <1>7, LiveCalm
<1>12. \A n, at, fr, to : be' = Settled(done, n, at, fr, to) => Calm(done, be')
  BY <1>10, SettledCalm
<1>13. Calm(be, be')
  <2>1. Calm(be, moved)
    BY <1>4, <1>5, <1>6 DEF Calm
  <2>2. CASE be' = [s EXCEPT !.live = skip]
    BY <1>7, <1>11, <2>1, <2>2 DEF Calm
  <2>3. CASE be' = Settled(done, k - 1, InReg(a.res), from, Opd(k))
    BY <1>8, <1>9, <1>10, <1>12, <2>1, <2>3 DEF Calm
  <2> QED
    BY <1>3, <2>2, <2>3
<1> QED
  BY <1>1, <1>2, <1>3, <1>13, BecomeCalm, PopCalm

LEMMA EndElseCalls ==
  ASSUME TypeInv, CallInv, EndElse
  PROVE  CallInv'
<1> DEFINE k    == Len(vals) - 1
           last == vals[k + 1]
           r    == vals[k].reg
           c    == CopyReg(be, last.reg, r)
           b    == RegDealloc(c, last.reg)
           d    == [b EXCEPT !.live = Top.live]
<1>1. Running /\ Top.k = "if" /\ Top.live \in BOOLEAN /\ ctl' = Pop(ctl)
  BY TopFacts, FrameKinds DEF TypeInv, EndElse, BodyEnded, IfOK
<1>2. \E n, at, from, to : be' = Settled(d, n, at, from, to)
  BY DEF EndElse, IfResult
<1>3. BackendOK(c) /\ Calm(be, c)
  BY EmitCalm DEF CopyReg, TypeInv
<1> HIDE DEF c
<1>4. BackendOK(b) /\ Calm(c, b)
  BY <1>3, DeallocCalm
<1> HIDE DEF b
<1>5. BackendOK(d) /\ Calm(b, d)
  BY <1>1, <1>4, LiveCalm
<1> HIDE DEF d
<1>6. Calm(d, be')
  BY <1>2, <1>5, SettledCalm
<1>7. Calm(be, be')
  BY <1>3, <1>4, <1>5, <1>6 DEF Calm
<1> QED
  BY <1>1, <1>7, PopCalm

LEMMA DeclareCalls ==
  ASSUME TypeInv, CallInv, NEW x, Declare(x)
  PROVE  CallInv'
<1> DEFINE b == AllocateOnStack(be, 1)
<1>1. Running /\ UNCHANGED ctl
  BY DEF Declare, Inner
<1>2. BackendOK(be) /\ Calm(be, be) /\ BackendOK(b) /\ Calm(be, b)
  BY EmitCalm DEF AllocateOnStack, TypeInv, Calm
<1>3. \E c, n : /\ c = be \/ c = b \/ \E p : c = [b EXCEPT !.cpu = p]
                /\ DeliverNothing(c, n)
  BY DEF Declare
<1> HIDE DEF b
<1>4. PICK c, n : BackendOK(c) /\ Calm(be, c) /\ DeliverNothing(c, n)
  BY <1>2, <1>3, CPUCalm, CalmTwice
<1>5. Calm(be, be')
  BY <1>4, SettledCalm, CalmTwice DEF DeliverNothing
<1> QED
  BY <1>1, <1>5, StayCalm

LEMMA EndAssignCalls ==
  ASSUME TypeInv, CallInv, EndAssign
  PROVE  CallInv'
<1>1. Running /\ Top.k # "call" /\ ctl' = Pop(ctl)
  BY DEF EndAssign
<1>2. "unknown_symbol" \in Errors /\ BackendOK(be)
  BY DEF Errors, TypeInv
<1>3. \E b, n, at, from, to :
        /\ b = Fail(be, "unknown_symbol") \/ \E code : b = Emit(be, code)
        /\ be' = Settled(b, n, at, from, to)
  BY DEF EndAssign, StoreGlobal, StoreLocal
<1>4. PICK b, n, at, from, to :
        BackendOK(b) /\ Calm(be, b) /\ be' = Settled(b, n, at, from, to)
  BY <1>2, <1>3, EmitCalm, FailCalm
<1>5. Calm(be, be')
  BY <1>4, SettledCalm, CalmTwice
<1> QED
  BY <1>1, <1>5, PopCalm

LEMMA EndStoreCalls ==
  ASSUME TypeInv, CallInv, EndStore
  PROVE  CallInv'
<1> DEFINE k == Len(vals)
<1>1. Running /\ Top.k # "call" /\ ctl' = Pop(ctl)
  BY DEF EndStore
<1>2. PICK a \in Targets(be, Top.x) : DeliverNothing(RegDealloc(RegDealloc(a, vals[k].reg), a.res), k)
  BY DEF EndStore
<1> DEFINE c == RegDealloc(a, vals[k].reg)
           d == RegDealloc(c, a.res)
<1>3. BackendOK(a) /\ Calm(be, a)
  BY <1>2, AccessCalm, AddressCalm DEF Targets, TypeInv
<1>4. BackendOK(c) /\ Calm(a, c)
  BY <1>3, DeallocCalm
<1> HIDE DEF c
<1>5. BackendOK(d) /\ Calm(c, d)
  BY <1>4, DeallocCalm
<1>6. DeliverNothing(d, k)
  BY <1>2 DEF c
<1> HIDE DEF d
<1>7. Calm(d, be')
  BY <1>5, <1>6, SettledCalm DEF DeliverNothing
<1>8. Calm(be, be')
  BY <1>3, <1>4, <1>5, <1>7 DEF Calm
<1> QED
  BY <1>1, <1>8, PopCalm

\* A function shares the call state with the code around it.
LEMMA BeginFuncCalls ==
  ASSUME TypeInv, CallInv, NEW argc \in 0 .. MaxArgs, BeginFunc(argc)
  PROVE  CallInv'
<1> DEFINE f == Body("func", argc, [cg |-> cg, cpu |-> be.cpu, live |-> be.live])
           b == [be EXCEPT !.cpu = InvokedCPU(argc), !.live = TRUE]
<1>1. Running /\ Push(f) /\ f.k # "call"
  BY DEF BeginFunc, Inner, Body
<1>2. BackendOK(b) /\ Calm(be, b)
  BY ContextCalm DEF TypeInv
<1>3. be' = FuncHeader(b, InitialOffset)
  BY DEF BeginFunc
<1> HIDE DEF b, f
<1>4. Calm(be, be')
  BY <1>2, <1>3, EmitCalm, CalmTwice DEF FuncHeader
<1> QED
  BY <1>1, <1>4, PushCalm

LEMMA EndFuncCalls ==
  ASSUME TypeInv, CallInv, EndFunc
  PROVE  CallInv'
<1> DEFINE c == [be EXCEPT !.cpu = Top.saved.cpu, !.live = Top.saved.live]
           b == Load(c, "lea", Code)
           k == Len(vals) + 1
<1>1. Running /\ Top.k = "func" /\ ctl' = Pop(ctl)
  BY DEF EndFunc
<1>2. Top.saved.live \in BOOLEAN
  BY <1>1, TopFacts, FrameKinds DEF TypeInv, BodyOK
<1>3. BackendOK(c) /\ Calm(be, c)
  BY <1>2, ContextCalm DEF TypeInv
<1> HIDE DEF c
<1>4. BackendOK(b) /\ Calm(c, b)
  BY <1>3, LoadCalm
<1>5. Deliver(b, k, Code)
  BY DEF EndFunc, c
<1> HIDE DEF b, k
<1>6. Calm(be, be')
  BY <1>3, <1>4, <1>5, CalmTwice, DeliverCalm
<1> QED
  BY <1>1, <1>6, PopCalm

LEMMA StatementCalls ==
  ASSUME TypeInv, CallInv, Statement \/ LastStatement
  PROVE  CallInv'
<1> DEFINE r == Last(vals).reg
           d == RegDealloc(be, r)
           e == SetFuncRetVal(d, r)
           f == [Top EXCEPT !.n = @ + 1]
           g == [Top EXCEPT !.n = @ + 1, !.ph = "ret", !.val = Last(vals).val]
<1>1. Running /\ Top.k \in {"prog", "func"} /\ BodyOK(Top)
  BY TopFacts, FrameKinds DEF TypeInv, Statement, LastStatement, InBody
<1>2. f.k = Top.k /\ g.k = Top.k
  BY <1>1 DEF BodyOK
<1>3. BackendOK(d) /\ Calm(be, d)
  BY DeallocCalm DEF TypeInv
<1>4. /\ Become(f) \/ Become(g)
      /\ \E k, at, from, to : Consume(d, k, at, from, to) \/ Consume(e, k, at, from, to)
  BY DEF Statement, LastStatement
<1> HIDE DEF d, f, g
<1>5. BackendOK(e) /\ Calm(be, e)
  BY <1>3, EmitCalm, CalmTwice DEF SetFuncRetVal
<1> HIDE DEF e
<1>6. Calm(be, be')
  BY <1>3, <1>4, <1>5, SettledCalm, CalmTwice DEF Consume
<1> QED
  BY <1>1, <1>2, <1>4, <1>6, BecomeCalm

-----------------------------------------------------------------------------
(* The calls themselves. *)

LEMMA CallsAreNumbers ==
  ASSUME TypeInv
  PROVE  /\ Len(ctl) \in Nat /\ CallsOf(ctl) \in SUBSET (1 .. Len(ctl)) /\ IsSeq(ctl) /\ Len(ctl) > 0
         /\ Top.k = "call" => InnermostCall(ctl, Len(ctl)) /\ Top = ctl[Len(ctl)]
  BY TopFacts DEF TypeInv, ControlOK, CallsOf, InnermostCall, Top

\* There is an innermost call if there is any.
LEMMA Innermost ==
  ASSUME TypeInv
  PROVE  CallsOf(ctl) = {} \/ \E i : InnermostCall(ctl, i)
  BY CallsAreNumbers, GreatestOfInterval DEF InnermostCall

\* setup_func_call goes on only if the call around it, if any, has no argument yet.
LEMMA SetupCalls ==
  ASSUME NEW b, BackendOK(b), SetupFuncCall(b).err = "none"
  PROVE  /\ b.call = "NONE"
         /\ SetupFuncCall(b).call = "NONE" /\ SetupFuncCall(b).nargs = b.nargs
<1> DEFINE inUse == RAX \in b.used
           c == [b EXCEPT !.raxInUse = inUse]
           code == IF inUse THEN << << "push", RAX >> >> ELSE << >>
<1>1. "call_in_progress" \in Errors /\ "call_in_progress" # "none"
  BY DEF Errors
<1>2. b.call = "NONE"
  BY <1>1, FailKeeps DEF SetupFuncCall
<1>3. inUse \in BOOLEAN
  OBVIOUS
<1> HIDE DEF inUse
<1>4. BackendOK(c) /\ c.call = b.call /\ c.nargs = b.nargs
  BY <1>3 DEF BackendOK, BackendFields
<1> HIDE DEF c
<1>5. Emit(c, code).call = b.call /\ Emit(c, code).nargs = b.nargs
  BY <1>4, EmitKeeps DEF SameCall
<1>6. SetupFuncCall(b) = Emit(c, code)
  BY <1>2 DEF SetupFuncCall, c, inUse
<1> QED
  BY <1>2, <1>5, <1>6

LEMMA BeginCallCalls ==
  ASSUME TypeInv, CallInv, NEW ext, NEW argc, BeginCall(ext, argc)
  PROVE  CallInv'
<1> DEFINE f == CallFrame(ext, argc)
           n == Len(ctl) + 1
<1>1. Running /\ be' = SetupFuncCall(be) /\ Push(f) /\ f.k = "call" /\ f.n = 0
  BY DEF BeginCall, Inner, CallFrame
<1>2. BackendOK(be) /\ Compiling
  BY <1>1 DEF TypeInv, Running, Compiling
<1>3. /\ IsSeq(ctl) /\ CallsOf(ctl) \in SUBSET (1 .. Len(ctl)) /\ Len(ctl) \in Nat
  BY CallsAreNumbers
<1> HIDE DEF f
<1>4. /\ CallsOf(ctl') = CallsOf(ctl) \cup {n} /\ ctl'[n] = f
      /\ \A i \in CallsOf(ctl) : ctl'[i] = ctl[i]
  BY <1>1, <1>3, CallsPush DEF Push
<1>5. ASSUME be'.err = "none" PROVE CallsMatch(ctl', be')
  <2>1. be.call = "NONE" /\ be'.call = "NONE" /\ be'.nargs = be.nargs
    BY <1>1, <1>2, <1>5, SetupCalls
  <2>2. \A i \in CallsOf(ctl) : ctl[i].n = 0
    <3>1. \A i : InnermostCall(ctl, i) => ctl[i].n = 0
      BY <1>2, <2>1 DEF CallInv, CallsMatch, Describes, KindOfCall
    <3>2. \A i, j \in CallsOf(ctl) : i < j => ctl[i].n = 0
      BY <1>2 DEF CallInv, CallsMatch
    <3> QED
      BY <1>3, <3>1, <3>2, Innermost DEF InnermostCall
  <2>3. be.nargs = 0
    BY <1>2, <2>2, Innermost DEF CallInv, CallsMatch, Describes, NoCall, InnermostCall
  <2>4. \A i : InnermostCall(ctl', i) => i = n
    BY <1>3, <1>4 DEF InnermostCall
  <2>5. \A i \in CallsOf(ctl') : ctl'[i].n = 0
    BY <1>1, <1>4, <2>2
  <2> HIDE DEF n
  <2> QED
    BY <1>1, <1>4, <2>1, <2>3, <2>4, <2>5 DEF CallsMatch, Describes, KindOfCall
<1>6. \A i \in CallsOf(ctl') : ctl'[i].n \in Nat
  BY <1>1, <1>4 DEF CallInv
<1> QED
  BY <1>5, <1>6 DEF CallInv, Compiling

\* An argument is counted, and the first one settles the kind of the call.
LEMMA PreparedCalls ==
  ASSUME NEW b, BackendOK(b), NEW kind \in {"EXTERNAL", "INTERNAL"}
  PROVE  LET c == Prepared(b, kind)
         IN  /\ BackendOK(c) /\ c.nargs = b.nargs
             /\ c.err = "none" => c.call = kind
<1>1. "wrong_call_type" \in Errors /\ "wrong_call_type" # "none"
  BY DEF Errors
<1>2. CASE b.call \in {"NONE", kind}
  BY <1>2, PreparedOK DEF Prepared, BackendOK, BackendFields
<1>3. CASE b.call \notin {"NONE", kind}
  BY <1>1, <1>3, PreparedOK, FailKeeps DEF Prepared, SameCall
<1> QED
  BY <1>2, <1>3

LEMMA ArgCalls ==
  ASSUME NEW b, BackendOK(b), NEW kind \in {"EXTERNAL", "INTERNAL"}, NEW code
  PROVE  LET c == Emit([Prepared(b, kind) EXCEPT !.nargs = @ + 1], code)
         IN  /\ BackendOK(c) /\ c.nargs = b.nargs + 1
             /\ c.err = "none" => c.call = kind
<1> DEFINE p == Prepared(b, kind)
           q == [p EXCEPT !.nargs = @ + 1]
<1>1. BackendOK(p) /\ p.nargs = b.nargs /\ (p.err = "none" => p.call = kind)
  BY PreparedCalls
<1> HIDE DEF p
<1>2. BackendOK(q) /\ q.nargs = p.nargs + 1 /\ q.err = p.err /\ q.call = p.call
  BY <1>1 DEF BackendOK, BackendFields
<1> HIDE DEF q
<1>3. /\ BackendOK(Emit(q, code)) /\ Emit(q, code).nargs = b.nargs + 1
      /\ Emit(q, code).err = "none" => Emit(q, code).call = kind
  BY <1>1, <1>2, EmitKeeps DEF SameCall
<1> QED
  BY <1>3 DEF q, p

LEMMA CallArgCalls ==
  ASSUME TypeInv, CallInv, CallArg
  PROVE  CallInv'
<1> DEFINE k == Len(vals)
           r == vals[k].reg
           b == FuncArg(be, r)
           e == ExtFuncArg(be, r)
           f == [Top EXCEPT !.n = @ + 1]
           n == Len(ctl)
<1>1. Running /\ Top.k = "call" /\ Become(f)
  BY DEF CallArg
<1>2. BackendOK(be) /\ Compiling
  BY <1>1 DEF TypeInv, Running, Compiling
<1>3. Top.n \in Nat /\ be.nargs = Top.n
  BY <1>1, <1>2, CallsAreNumbers DEF CallInv, CallsMatch, Describes, InnermostCall
<1>4. f.n = Top.n + 1 /\ f.ext = Top.ext /\ f.k = "call"
  BY <1>1, TopFacts, FrameKinds DEF TypeInv, CallFrameOK
<1>5. /\ IsSeq(ctl) /\ CallsOf(ctl) \in SUBSET (1 .. Len(ctl)) /\ n \in Nat /\ n > 0
      /\ InnermostCall(ctl, n) /\ ctl[n].k = "call"
  BY <1>1, CallsAreNumbers DEF Top
<1>6. /\ BackendOK(b) /\ b.nargs = be.nargs + 1 /\ (b.err = "none" => b.call = "INTERNAL")
      /\ BackendOK(e) /\ e.nargs = be.nargs + 1 /\ (e.err = "none" => e.call = "EXTERNAL")
  BY <1>2, ArgCalls DEF FuncArg, ExtFuncArg
<1>7. /\ be'.nargs = Top.n + 1
      /\ be'.err = "none" => be'.call = IF Top.ext THEN "EXTERNAL" ELSE "INTERNAL"
  <2>1. CASE Top.ext
    <3>1. \E m, at, from, to : be' = Settled(e, m, at, from, to)
      BY <2>1 DEF CallArg, Consume
    <3> HIDE DEF e
    <3> QED
      BY <1>3, <1>6, <2>1, <3>1, SettledCalm DEF Calm
  <2>2. CASE ~Top.ext
    <3> DEFINE d == RegDealloc(b, r)
    <3>1. \E m, at, from, to : be' = Settled(d, m, at, from, to)
      BY <2>2 DEF CallArg, Consume
    <3> HIDE DEF b
    <3>2. BackendOK(d) /\ Calm(b, d) /\ d.err = b.err
      BY <1>6, DeallocCalm
    <3> HIDE DEF d
    <3> QED
      BY <1>3, <1>6, <2>2, <3>1, <3>2, SettledCalm DEF Calm
  <2> QED
    BY <2>1, <2>2
<1> HIDE DEF f, b, e
<1>8. /\ CallsOf(ctl') = CallsOf(ctl) /\ ctl'[n] = f
      /\ \A i \in CallsOf(ctl) : i # n => ctl'[i] = ctl[i]
  <2>1. f.k = ctl[Len(ctl)].k /\ Len(ctl) > 0
    BY <1>4, <1>5
  <2>2. /\ CallsOf(ctl') = CallsOf(ctl) /\ ctl'[n] = f
        /\ \A i \in 1 .. n - 1 : ctl'[i] = ctl[i]
    BY <1>1, <1>5, <2>1, CallsBecome DEF Become
  <2> QED
    BY <1>5, <2>2
<1>9. ASSUME be'.err = "none" PROVE CallsMatch(ctl', be')
  <2>1. \A i \in CallsOf(ctl') : i <= n /\ i \in Nat
    BY <1>5, <1>8
  <2>2. \A i : InnermostCall(ctl', i) => i = n
    BY <1>5, <1>8, <2>1 DEF InnermostCall
  <2>3. \A i, j \in CallsOf(ctl') : i < j => ctl'[i].n = 0
    <3>1. \A i, j \in CallsOf(ctl) : i < j => ctl[i].n = 0 /\ i # n
      BY <1>2, <1>5, <1>8, <2>1 DEF CallInv, CallsMatch
    <3> QED
      BY <1>8, <3>1
  <2>4. Describes(be', f)
    BY <1>3, <1>4, <1>7, <1>9 DEF Describes, KindOfCall
  <2>5. CallsOf(ctl') # {}
    BY <1>5, <1>8 DEF InnermostCall
  <2> HIDE DEF n
  <2> QED
    BY <1>8, <2>2, <2>3, <2>4, <2>5 DEF CallsMatch
<1>10. \A i \in CallsOf(ctl') : ctl'[i].n \in Nat
  BY <1>3, <1>4, <1>8 DEF CallInv
<1> QED
  BY <1>9, <1>10 DEF CallInv, Compiling

LEMMA EndCallCalls ==
  ASSUME TypeInv, CallInv, EndCall
  PROVE  CallInv'
<1> DEFINE f == Load(be, "lea", Code)
           c == FuncCall(f, f.res)
           d == IF c.res = f.res THEN c ELSE RegDealloc(c, f.res)
           e == ExtFuncCall(be)
           n == Len(ctl)
<1>1. Running /\ Top.k = "call" /\ ctl' = Pop(ctl)
  BY DEF EndCall
<1>2. BackendOK(f) /\ BackendOK(be) /\ Compiling
  BY <1>1, LoadTakesFree DEF TypeInv, Running, Compiling
<1>3. \E b : /\ b = Returning(Cleanup(e), RAX) \/ b = Cleanup(d)
             /\ \E m, at, from, to : be' = Settled(b, m, at, from, to)
  BY DEF EndCall, Deliver
<1> HIDE DEF f
<1>4. BackendOK(c) /\ BackendOK(e)
  BY <1>2, CallOK
<1> HIDE DEF c, e
<1>5. BackendOK(d)
  BY <1>4, DeallocFrees
<1> HIDE DEF d
<1>6. /\ BackendOK(Cleanup(d)) /\ NoCall(Cleanup(d))
      /\ BackendOK(Cleanup(e)) /\ NoCall(Cleanup(e))
  BY <1>4, <1>5, CleanupOK DEF NoCall
<1>7. BackendOK(Returning(Cleanup(e), RAX)) /\ NoCall(Returning(Cleanup(e), RAX))
  BY <1>6, ReturningReturns, RegsAre DEF NoCall, SameCall
<1>8. NoCall(be')
  BY <1>3, <1>6, <1>7, SettledCalm DEF NoCall, Calm
<1>9. /\ IsSeq(ctl) /\ CallsOf(ctl) \in SUBSET (1 .. Len(ctl)) /\ n \in Nat /\ n > 0
      /\ n \in CallsOf(ctl) /\ ctl[n].k = "call"
  BY <1>1, CallsAreNumbers DEF Top, InnermostCall
<1>10. /\ CallsOf(ctl') = CallsOf(ctl) \ {n}
       /\ \A i \in CallsOf(ctl') : i \in CallsOf(ctl) /\ i < n /\ ctl'[i] = ctl[i]
  <2>1. CallsOf(ctl') = CallsOf(ctl) \ {n} /\ \A i \in 1 .. n - 1 : ctl'[i] = ctl[i]
    BY <1>1, <1>9, CallsPop
  <2> QED
    BY <1>9, <2>1
<1>11. \A i \in CallsOf(ctl') : ctl'[i].n = 0
  BY <1>2, <1>9, <1>10 DEF CallInv, CallsMatch
<1> HIDE DEF n
<1>12. CallsMatch(ctl', be')
  BY <1>8, <1>11 DEF CallsMatch, Describes, KindOfCall, NoCall, InnermostCall
<1> QED
  BY <1>11, <1>12 DEF CallInv

-----------------------------------------------------------------------------
LEMMA InitCalls == Init => CallInv
<1> SUFFICES ASSUME Init PROVE CallInv
  OBVIOUS
<1>1. CallsOf(ctl) = {}
  BY DEF Init, CallsOf
<1> DEFINE b == InitBackend(Globals)
<1>2. BackendOK(b) /\ NoCall(b)
  BY InitBackendOK DEF InitBackend, NoCall
<1>3. be = FuncHeader(b, InitialOffset)
  BY DEF Init
<1> HIDE DEF b
<1>4. NoCall(be)
  BY <1>2, <1>3, EmitCalm DEF FuncHeader, NoCall, Calm
<1> QED
  BY <1>1, <1>4 DEF CallInv, CallsMatch, InnermostCall

LEMMA NextCalls == TypeInv /\ CallInv /\ [Next]_vars => CallInv'
<1> SUFFICES ASSUME TypeInv, CallInv, [Next]_vars PROVE CallInv'
  OBVIOUS
<1>1. CASE GenInt \/ \E x \in InScope : GenVar(x) \/ GenDeref(x) \/ GenAddr(x) \/ GenIndex(x)
  BY <1>1, LeavesCalls
<1>2. CASE BeginIf \/ (\E op \in Ops : BeginBinop(op))
                   \/ \E x \in InScope : BeginAssign(x) \/ BeginStore(x)
  BY <1>2, BeginsCalls
<1>3. CASE EndBinop
  BY <1>3, EndBinopCalls
<1>4. CASE \E argc \in 0 .. MaxArgs : BeginFunc(argc)
  BY <1>4, BeginFuncCalls
<1>5. CASE \E argc \in 0 .. MaxArgs : \E ext \in BOOLEAN : BeginCall(ext, argc)
  BY <1>5, BeginCallCalls
<1>6. CASE CallArg \/ EndCall
  BY <1>6, CallArgCalls, EndCallCalls
<1>7. CASE IfCondition \/ IfStatement \/ EndThen \/ EndElse
  BY <1>7, IfConditionCalls, IfStatementCalls, EndThenCalls, EndElseCalls
<1>8. CASE \E x \in Globals \cup Locals : Declare(x)
  BY <1>8, DeclareCalls
<1>9. CASE EndAssign \/ EndStore \/ EndFunc
  BY <1>9, EndAssignCalls, EndStoreCalls, EndFuncCalls
<1>10. CASE Statement \/ LastStatement
  BY <1>10, StatementCalls
<1>11. CASE Stopped \/ UNCHANGED vars
  BY <1>11 DEF Stopped, vars, CallInv, Compiling
<1> QED
  BY <1>1, <1>2, <1>3, <1>4, <1>5, <1>6, <1>7, <1>8, <1>9, <1>10, <1>11 DEF Next

(***************************************************************************)
(* Whatever program is compiled, calls inside calls included: as long as   *)
(* the compiler goes on, func_call and num_call_args of the one ArchData   *)
(* are those of the innermost call being prepared, and between calls all   *)
(* of it is back to its initial state.                                     *)
(***************************************************************************)
THEOREM CallStateCorrect == Spec => []CallStateMatches
<1>1. TypeInv /\ CallInv => CallStateMatches
  <2> SUFFICES ASSUME TypeInv, CallInv, Compiling
               PROVE  IF OpenCalls = {} THEN be.call = "NONE" /\ be.nargs = 0 /\ ~be.raxInUse
                      ELSE LET f == ctl[CHOOSE i \in OpenCalls : \A j \in OpenCalls : j <= i]
                           IN  /\ be.nargs = f.n
                               /\ be.call = IF f.n = 0 THEN "NONE"
                                            ELSE IF f.ext THEN "EXTERNAL" ELSE "INTERNAL"
    BY DEF CallStateMatches
  <2> DEFINE i == CHOOSE i \in OpenCalls : \A j \in OpenCalls : j <= i
  <2>1. OpenCalls = CallsOf(ctl)
    BY SeqFacts DEF OpenCalls, CallsOf, TypeInv, ControlOK
  <2>2. OpenCalls # {} => InnermostCall(ctl, i)
    BY <2>1, Innermost DEF InnermostCall
  <2> HIDE DEF i
  <2>3. OpenCalls # {} => Describes(be, ctl[i])
    BY <2>2 DEF CallInv, CallsMatch
  <2>4. OpenCalls = {} => NoCall(be)
    BY <2>1 DEF CallInv, CallsMatch
  <2> QED
    BY <2>3, <2>4 DEF i, Describes, KindOfCall, NoCall
<1> QED
  BY <1>1, InitTypes, NextTypes, InitCalls, NextCalls, PTL DEF Spec

-----------------------------------------------------------------------------
(***************************************************************************)
(* The processor: one step and a sequence of steps.  An instruction keeps  *)
(* the registers, the globals and the stack what they are, and moves the   *)
(* stack pointer by Moves(i) words.                                        *)
(***************************************************************************)
MachineFields == {"reg", "flags", "sp", "stack", "glob"}

MachineOK(c) == DOMAIN c = MachineFields /\ CPUTypeOK(c)

Plain == {"imm", "lea", "addimm", "zero", "mov", "xchg", "glob", "cell", "+", "-", "*", "<<", ">>",
          "stglob", "cmp", "setcc", "cqo", "idiv", "call", "callext"}

Instruction(i) ==
  \/ i[1] \in Plain \cup {"push", "pop"}
  \/ i[1] \in {"subsp", "addsp"} /\ i[2] \in Int
  \/ i[1] = "stcell" /\ i[3] \in Int

Moves(i) == CASE i[1] = "push"  -> 1
              [] i[1] = "pop"   -> -1
              [] i[1] = "subsp" -> i[2]
              [] i[1] = "addsp" -> -i[2]
              [] OTHER          -> 0

LEMMA RegMachine ==
  ASSUME NEW c, MachineOK(c), NEW r, NEW v
  PROVE  MachineOK(SetReg(c, r, v)) /\ SetReg(c, r, v).sp = c.sp
  BY DEF MachineOK, MachineFields, CPUTypeOK, SetReg

LEMMA CellMachine ==
  ASSUME NEW c, MachineOK(c), NEW k \in Int, NEW v
  PROVE  MachineOK(SetCell(c, k, v)) /\ SetCell(c, k, v).sp = c.sp
  BY DEF MachineOK, MachineFields, CPUTypeOK, SetCell

LEMMA TrimMachine ==
  ASSUME NEW c, MachineOK(c), NEW k \in Int
  PROVE  MachineOK(Trim(c, k)) /\ Trim(c, k).sp = k
  BY DEF MachineOK, MachineFields, CPUTypeOK, Trim

LEMMA ExecMoves ==
  ASSUME NEW c, MachineOK(c), NEW i, Instruction(i)
  PROVE  MachineOK(Exec(c, i)) /\ Exec(c, i).sp = c.sp + Moves(i)
<1> DEFINE op == i[1]
           d == Exec(c, i)
<1>0. c.sp \in Int
  BY DEF MachineOK, CPUTypeOK
<1>13. /\ op \in Plain \cup {"stcell"} => Moves(i) = 0
       /\ op = "push" => Moves(i) = 1
       /\ op = "pop" => Moves(i) = -1
       /\ op = "subsp" => Moves(i) = i[2]
       /\ op = "addsp" => Moves(i) = -i[2]
  BY DEF Moves, Plain
<1>14. /\ op \in {"subsp", "addsp"} => i[2] \in Int
       /\ op = "stcell" => i[3] \in Int
  BY DEF Instruction, Plain
<1> HIDE DEF op
<1>1. ASSUME \E r, v : d = SetReg(c, r, v), Moves(i) = 0
      PROVE  MachineOK(d) /\ d.sp = c.sp + Moves(i)
  BY <1>0, <1>1, RegMachine
<1>2. CASE op \in {"imm", "lea", "addimm", "zero", "mov", "glob", "cell"}
  BY <1>1, <1>2, <1>13, ExecImm, ExecLea, ExecAddImm, ExecZero, ExecMov, ExecGlob, ExecCell DEF op, Plain
<1>3. CASE op \in {"+", "-", "*", "<<", ">>", "setcc", "cqo"}
  BY <1>1, <1>3, <1>13, ExecAdd, ExecSub, ExecMul, ExecShift, ExecSetcc, ExecCqo DEF op, Plain
<1>4. CASE op \in {"cmp", "stglob"}
  <2>1. \/ \E v : d = [c EXCEPT !.flags = v]
        \/ \E x, v : d = [c EXCEPT !.glob[x] = v]
    <3>1. op = "cmp" => d = [c EXCEPT !.flags = << c.reg[i[3]], c.reg[i[2]] >>]
      BY ExecCmp DEF op
    <3>2. op = "stglob" => d = [c EXCEPT !.glob[i[3]] = c.reg[i[2]]]
      BY ExecStGlob DEF op
    <3> HIDE DEF d
    <3> QED
      BY <1>4, <3>1, <3>2
  <2>2. MachineOK(d) /\ d.sp = c.sp
    BY <2>1 DEF MachineOK, MachineFields, CPUTypeOK
  <2> QED
    BY <1>0, <1>13, <1>4, <2>2 DEF Plain
<1>5. CASE op \in {"xchg", "idiv"}
  <2>1. MachineOK(d) /\ d.sp = c.sp
    <3>1. CASE op = "xchg"
      <4>1. d = [c EXCEPT !.reg[i[2]] = c.reg[i[3]], !.reg[i[3]] = c.reg[i[2]]]
        BY <3>1, ExecXchg DEF op
      <4> HIDE DEF d
      <4> QED
        BY <4>1 DEF MachineOK, MachineFields, CPUTypeOK
    <3>2. CASE op = "idiv"
      <4> DEFINE ok == c.reg[RDX] = Sign(c.reg[RAX])
                 q  == IF ok THEN Term("/", c.reg[RAX], c.reg[i[2]]) ELSE Junk
                 m  == IF ok THEN Term("%", c.reg[RAX], c.reg[i[2]]) ELSE Junk
      <4>1. d = [c EXCEPT !.reg[RAX] = q, !.reg[RDX] = m]
        BY <3>2, ExecIdiv DEF op
      <4> HIDE DEF q, m
      <4> HIDE DEF d
      <4> QED
        BY <4>1 DEF MachineOK, MachineFields, CPUTypeOK
    <3> QED
      BY <1>5, <3>1, <3>2
  <2> QED
    BY <1>0, <1>13, <1>5, <2>1 DEF Plain
<1>6. CASE op = "call"
  <2> DEFINE e == [c EXCEPT !.reg = [r \in Regs |-> IF r = RAX THEN Own ELSE Junk]]
  <2>1. MachineOK(e)
    BY DEF MachineOK, MachineFields, CPUTypeOK
  <2>2. d = Trim(e, c.sp)
    BY <1>6, ExecCall DEF op
  <2> HIDE DEF e
  <2> QED
    BY <1>0, <1>13, <1>6, <2>1, <2>2, TrimMachine DEF Plain
<1>7. CASE op = "callext"
  <2>1. PICK home :
          d = Trim([c EXCEPT !.reg   = [r \in Regs |-> IF r = RAX THEN Own
                                                       ELSE IF r \in Volatile THEN Junk ELSE @[r]],
                             !.stack = [k \in DOMAIN @ |-> IF k \in home THEN Junk ELSE @[k]]],
                   c.sp)
    BY <1>7, ExecCallExt DEF op
  <2> DEFINE e == [c EXCEPT !.reg   = [r \in Regs |-> IF r = RAX THEN Own
                                                      ELSE IF r \in Volatile THEN Junk ELSE @[r]],
                            !.stack = [k \in DOMAIN @ |-> IF k \in home THEN Junk ELSE @[k]]]
  <2>2. MachineOK(e)
    BY DEF MachineOK, MachineFields, CPUTypeOK
  <2>3. d = Trim(e, c.sp)
    BY <2>1
  <2> HIDE DEF e
  <2> QED
    BY <1>0, <1>13, <1>7, <2>2, <2>3, TrimMachine DEF Plain
<1>8. CASE op = "push"
  <2> DEFINE e == SetCell(c, c.sp + 1, c.reg[i[2]])
  <2>1. MachineOK(e) /\ e.sp = c.sp
    <3>1. c.sp + 1 \in Int
      BY <1>0
    <3> QED
      BY <3>1, CellMachine
  <2>2. d = [e EXCEPT !.sp = @ + 1]
    BY <1>8, ExecPush DEF op
  <2> HIDE DEF e
  <2>3. MachineOK(d) /\ d.sp = c.sp + 1
    BY <2>1, <2>2 DEF MachineOK, MachineFields, CPUTypeOK
  <2> QED
    BY <1>0, <1>13, <1>8, <2>3
<1>9. CASE op = "pop"
  <2> DEFINE e == SetReg(c, i[2], Cell(c, c.sp))
  <2>1. MachineOK(e)
    BY RegMachine
  <2>2. d = Trim(e, c.sp - 1)
    BY <1>9, ExecPop DEF op
  <2> HIDE DEF e
  <2>3. c.sp - 1 \in Int /\ c.sp + (-1) = c.sp - 1
    BY <1>0
  <2>4. MachineOK(d) /\ d.sp = c.sp - 1
    BY <2>1, <2>2, <2>3, TrimMachine
  <2> HIDE DEF d
  <2>5. MachineOK(d) /\ d.sp = c.sp + Moves(i)
    BY <1>13, <1>9, <2>3, <2>4
  <2> QED
    BY <2>5 DEF d
<1>10. CASE op = "subsp"
  <2>1. d = [c EXCEPT !.sp = @ + i[2]] /\ i[2] \in Int
    BY <1>10, <1>14, ExecSubSp DEF op
  <2>2. MachineOK(d) /\ d.sp = c.sp + i[2]
    BY <2>1 DEF MachineOK, MachineFields, CPUTypeOK
  <2> QED
    BY <1>0, <1>13, <1>10, <2>2
<1>11. CASE op = "addsp"
  <2>1. d = Trim(c, c.sp - i[2]) /\ i[2] \in Int
    BY <1>11, <1>14, ExecAddSp DEF op
  <2>2. c.sp - i[2] \in Int /\ c.sp + (-i[2]) = c.sp - i[2]
    BY <1>0, <2>1
  <2>3. MachineOK(d) /\ d.sp = c.sp - i[2]
    BY <2>1, <2>2, TrimMachine
  <2> HIDE DEF d
  <2>4. MachineOK(d) /\ d.sp = c.sp + Moves(i)
    BY <1>13, <1>11, <2>2, <2>3
  <2> QED
    BY <2>4 DEF d
<1>12. CASE op = "stcell"
  <2>1. d = SetCell(c, i[3], c.reg[i[2]]) /\ i[3] \in Int
    BY <1>12, <1>14, ExecStCell DEF op
  <2> QED
    BY <1>0, <1>13, <1>12, <2>1, CellMachine DEF Plain
<1> QED
  BY <1>2, <1>3, <1>4, <1>5, <1>6, <1>7, <1>8, <1>9, <1>10, <1>11, <1>12 DEF Instruction, Plain, op

-----------------------------------------------------------------------------
(* Sequences of instructions. *)

\* The states of the processor while code is run from c.
Trace(c, code, f) ==
  /\ f[0] = c
  /\ \A n \in 1 .. Len(code) : f[n] = Exec(f[n - 1], code[n])

\* The recursive function of Run exists, whatever the length of the code.
LEMMA RunTraces ==
  ASSUME NEW c, NEW code, Len(code) \in Nat
  PROVE  \E f : Trace(c, code, f) /\ Run(c, code) = f[Len(code)]
<1> DEFINE F(g, m) == [n \in 0 .. m |-> IF n = 0 THEN c ELSE Exec(g[n - 1], code[n])]
           Bad == {m \in Nat : ~\E g : g = F(g, m)}
           a == CHOOSE g : g = F(g, Len(code))
<1>1. Bad = {}
  <2> SUFFICES ASSUME Bad # {} PROVE FALSE
    OBVIOUS
  <2>1. PICK m \in Bad : \A k \in Bad : m <= k
    <3>1. Bad \in SUBSET Nat
      OBVIOUS
    <3> HIDE DEF Bad
    <3> QED
      BY <3>1, LeastOfNat
  <2>2. m \in Nat /\ ~\E g : g = F(g, m)
    OBVIOUS
  <2>3. CASE m = 0
    <3> DEFINE g == [n \in 0 .. 0 |-> c]
    <3>1. g = F(g, 0)
      OBVIOUS
    <3> QED
      BY <2>2, <2>3, <3>1
  <2>4. CASE m # 0
    <3>1. m - 1 \in Nat /\ m - 1 \notin Bad
      BY <2>1, <2>2, <2>4
    <3>2. PICK g : g = F(g, m - 1)
      BY <3>1
    <3> DEFINE h == [n \in 0 .. m |-> IF n = m THEN Exec(g[m - 1], code[m]) ELSE g[n]]
    <3>3. \A n \in 0 .. m : h[n] = IF n = 0 THEN c ELSE Exec(h[n - 1], code[n])
      <4> TAKE n \in 0 .. m
      <4>1. CASE n = m
        BY <2>2, <2>4, <4>1
      <4>2. CASE n # m /\ n = 0
        BY <2>2, <3>1, <3>2, <4>2
      <4>3. CASE n # m /\ n # 0
        <5>1. n \in 0 .. m - 1 /\ n - 1 \in 0 .. m - 1 /\ n - 1 # m /\ n - 1 \in 0 .. m
          BY <2>2, <4>3
        <5>2. g[n] = Exec(g[n - 1], code[n])
          BY <3>2, <4>3, <5>1
        <5> QED
          BY <4>3, <5>1, <5>2
      <4> QED
        BY <4>1, <4>2, <4>3
    <3>4. h = [n \in 0 .. m |-> h[n]]
      OBVIOUS
    <3> HIDE DEF h
    <3>5. h = F(h, m)
      BY <3>3, <3>4
    <3> QED
      BY <2>2, <3>5
  <2> QED
    BY <2>3, <2>4
<1>2. a = F(a, Len(code))
  <2>1. \E g : g = F(g, Len(code))
    BY <1>1
  <2> HIDE DEF F
  <2> QED
    BY <2>1
<1>3. Run(c, code) = a[Len(code)]
  BY DEF Run
<1> HIDE DEF a
<1>4. Trace(c, code, a)
  BY <1>2 DEF Trace
<1> QED
  BY <1>3, <1>4

\* Any trace ends where Run does.
LEMMA RunIs ==
  ASSUME NEW c, NEW code, Len(code) \in Nat, NEW f, Trace(c, code, f)
  PROVE  Run(c, code) = f[Len(code)]
<1>1. PICK g : Trace(c, code, g) /\ Run(c, code) = g[Len(code)]
  BY RunTraces
<1> DEFINE Bad == {n \in 0 .. Len(code) : f[n] # g[n]}
<1>2. Bad = {}
  <2> SUFFICES ASSUME Bad # {} PROVE FALSE
    OBVIOUS
  <2>1. PICK m \in Bad : \A k \in Bad : m <= k
    <3>1. Bad \in SUBSET Nat
      OBVIOUS
    <3> HIDE DEF Bad
    <3> QED
      BY <3>1, LeastOfNat
  <2>2. m \in 0 .. Len(code) /\ f[m] # g[m]
    OBVIOUS
  <2>3. m # 0
    BY <1>1, <2>2 DEF Trace
  <2>4. m - 1 \in 0 .. Len(code) /\ m - 1 \notin Bad /\ m \in 1 .. Len(code)
    BY <2>1, <2>2, <2>3
  <2>5. f[m - 1] = g[m - 1]
    BY <2>4
  <2> QED
    BY <1>1, <2>2, <2>4, <2>5 DEF Trace
<1> QED
  BY <1>1, <1>2

LEMMA ConcatFacts ==
  ASSUME NEW s, IsSeq(s), NEW t, IsSeq(t)
  PROVE  /\ IsSeq(s \o t) /\ Len(s \o t) = Len(s) + Len(t) /\ Len(s) \in Nat /\ Len(t) \in Nat
         /\ \A i \in 1 .. Len(s) : (s \o t)[i] = s[i]
         /\ \A i \in 1 .. Len(t) : (s \o t)[Len(s) + i] = t[i]
<1>1. PICK S : s \in Seq(S)
  BY DEF IsSeq
<1>2. PICK T : t \in Seq(T)
  BY DEF IsSeq
<1>3. s \in Seq(S \cup T) /\ t \in Seq(S \cup T)
  BY <1>1, <1>2
<1>4. s \o t \in Seq(S \cup T)
  BY <1>3
<1> QED
  BY <1>3, <1>4 DEF IsSeq

LEMMA RunConcat ==
  ASSUME NEW c, NEW s, IsSeq(s), NEW t, IsSeq(t)
  PROVE  Run(c, s \o t) = Run(Run(c, s), t)
<1> DEFINE u == s \o t
           d == Run(c, s)
           m == Len(s)
<1>1. /\ Len(u) = m + Len(t) /\ m \in Nat /\ Len(t) \in Nat
      /\ \A i \in 1 .. m : u[i] = s[i]
      /\ \A i \in 1 .. Len(t) : u[m + i] = t[i]
  BY ConcatFacts
<1>2. PICK f : Trace(c, s, f) /\ d = f[m]
  BY <1>1, RunTraces
<1>3. PICK g : Trace(d, t, g) /\ Run(d, t) = g[Len(t)]
  BY <1>1, RunTraces
<1> DEFINE h == [n \in 0 .. m + Len(t) |-> IF n <= m THEN f[n] ELSE g[n - m]]
<1> HIDE DEF u, d
<1>7. /\ \A n \in 0 .. m : h[n] = f[n]
      /\ \A n \in 1 .. Len(t) : h[m + n] = g[n]
  BY <1>1
<1>8. f[m] = g[0] /\ h[0] = c
  BY <1>1, <1>2, <1>3, <1>7 DEF Trace
<1> HIDE DEF h
<1>4. Trace(c, u, h)
  <2>0. SUFFICES ASSUME NEW n \in 1 .. Len(u) PROVE h[n] = Exec(h[n - 1], u[n])
    BY <1>8 DEF Trace
  <2>1. CASE n <= m
    <3>1. n \in 1 .. m /\ n \in 0 .. m /\ n - 1 \in 0 .. m
      BY <1>1, <2>1
    <3>2. f[n] = Exec(f[n - 1], s[n])
      BY <1>2, <3>1 DEF Trace
    <3> QED
      BY <1>1, <1>7, <3>1, <3>2
  <2>2. CASE n > m
    <3> DEFINE j == n - m
    <3>1. j \in 1 .. Len(t) /\ n = m + j /\ (j = 1 \/ j - 1 \in 1 .. Len(t)) /\ n - 1 = m + (j - 1)
      BY <1>1, <2>2
    <3> HIDE DEF j
    <3>2. h[n] = g[j] /\ u[n] = t[j]
      BY <1>1, <1>7, <3>1
    <3>3. h[n - 1] = g[j - 1]
      <4>1. CASE j = 1
        <5>1. n - 1 = m /\ m \in 0 .. m
          BY <1>1, <3>1, <4>1
        <5> QED
          BY <1>7, <1>8, <4>1, <5>1
      <4>2. CASE j # 1
        BY <1>7, <3>1, <4>2
      <4> QED
        BY <4>1, <4>2
    <3>4. g[j] = Exec(g[j - 1], t[j])
      BY <1>3, <3>1 DEF Trace
    <3> QED
      BY <3>2, <3>3, <3>4
  <2> QED
    BY <1>1, <2>1, <2>2
<1>5. Run(c, u) = h[m + Len(t)]
  <2>1. Len(u) \in Nat
    BY <1>1
  <2>2. Run(c, u) = h[Len(u)]
    BY <1>4, <2>1, RunIs
  <2> QED
    BY <1>1, <2>2
<1>6. h[m + Len(t)] = g[Len(t)]
  <2>1. CASE Len(t) = 0
    BY <1>1, <1>7, <1>8, <2>1
  <2>2. CASE Len(t) # 0
    BY <1>1, <1>7, <2>2
  <2> QED
    BY <2>1, <2>2
<1> QED
  BY <1>3, <1>5, <1>6 DEF u, d

-----------------------------------------------------------------------------
(* How far a sequence of instructions moves the stack pointer. *)

Moving(code, d) ==
  IsSeq(code) /\ \A c : MachineOK(c) => MachineOK(Run(c, code)) /\ Run(c, code).sp = c.sp + d

LEMMA MachineSp ==
  ASSUME NEW c, MachineOK(c)
  PROVE  c.sp \in Int
  BY DEF MachineOK, CPUTypeOK

LEMMA Singleton ==
  ASSUME NEW i
  PROVE  IsSeq(<< i >>)
<1>1. << i >> \in Seq({i})
  OBVIOUS
<1> QED
  BY <1>1 DEF IsSeq

LEMMA MovingNone == Moving(<< >>, 0)
<1> DEFINE code == << >>
<1>1. IsSeq(code) /\ Len(code) = 0
  <2>1. << >> \in Seq({})
    OBVIOUS
  <2> QED
    BY <2>1 DEF IsSeq
<1> HIDE DEF code
<1>2. ASSUME NEW c, MachineOK(c) PROVE MachineOK(Run(c, code)) /\ Run(c, code).sp = c.sp + 0
  <2> DEFINE f == [n \in 0 .. 0 |-> c]
  <2>1. Trace(c, code, f)
    BY <1>1 DEF Trace
  <2>2. Run(c, code) = f[0]
    <3> HIDE DEF f
    <3> QED
      BY <1>1, <2>1, RunIs
  <2> QED
    BY <1>2, <2>2, MachineSp
<1> QED
  BY <1>1, <1>2 DEF Moving, code

LEMMA MovingOne ==
  ASSUME NEW i, Instruction(i)
  PROVE  Moving(<< i >>, Moves(i))
  BY RunOne, ExecMoves, Singleton DEF Moving

LEMMA MovesInt ==
  ASSUME NEW i, Instruction(i)
  PROVE  Moves(i) \in Int
  BY DEF Moves, Instruction, Plain

LEMMA MovingConcat ==
  ASSUME NEW s, NEW t, NEW d \in Int, NEW e \in Int, Moving(s, d), Moving(t, e)
  PROVE  Moving(s \o t, d + e)
<1>1. IsSeq(s) /\ IsSeq(t) /\ IsSeq(s \o t)
  BY ConcatFacts DEF Moving
<1>2. ASSUME NEW c, MachineOK(c)
      PROVE  MachineOK(Run(c, s \o t)) /\ Run(c, s \o t).sp = c.sp + (d + e)
  <2>1. Run(c, s \o t) = Run(Run(c, s), t)
    BY <1>1, RunConcat
  <2>2. MachineOK(Run(c, s)) /\ Run(c, s).sp = c.sp + d
    BY <1>2 DEF Moving
  <2>3. MachineOK(Run(Run(c, s), t)) /\ Run(Run(c, s), t).sp = Run(c, s).sp + e
    BY <2>2 DEF Moving
  <2>4. c.sp \in Int
    BY <1>2, MachineSp
  <2> QED
    BY <2>1, <2>2, <2>3, <2>4
<1> QED
  BY <1>1, <1>2 DEF Moving

LEMMA MovingTwo ==
  ASSUME NEW i, NEW j, Instruction(i), Instruction(j)
  PROVE  Moving(<< i, j >>, Moves(i) + Moves(j))
<1>1. << i, j >> = << i >> \o << j >>
  <2> DEFINE s == << i >> \o << j >>
  <2>1. IsSeq(s) /\ Len(s) = 2 /\ s[1] = i /\ s[2] = j
    <3>1. IsSeq(<< i >>) /\ IsSeq(<< j >>)
      BY Singleton
    <3> QED
      BY <3>1, ConcatFacts
  <2> HIDE DEF s
  <2>2. PICK S : s \in Seq(S)
    BY <2>1 DEF IsSeq
  <2>3. s = << i, j >>
    BY <2>1, <2>2
  <2> QED
    BY <2>3 DEF s
<1>2. Moves(i) \in Int /\ Moves(j) \in Int
  BY MovesInt
<1>3. Moving(<< i >> \o << j >>, Moves(i) + Moves(j))
  BY <1>2, MovingOne, MovingConcat
<1> QED
  BY <1>1, <1>3

LEMMA MovingThree ==
  ASSUME NEW i, NEW j, NEW k, Instruction(i), Instruction(j), Instruction(k),
         Moves(i) = 0, Moves(j) = 0, Moves(k) = 0
  PROVE  Moving(<< i, j, k >>, 0)
<1>1. IsSeq(<< i, j, k >>)
  <2>1. << i, j, k >> \in Seq({i, j, k})
    OBVIOUS
  <2> QED
    BY <2>1 DEF IsSeq
<1>2. ASSUME NEW c, MachineOK(c), NEW x, Instruction(x), Moves(x) = 0
      PROVE  MachineOK(Exec(c, x)) /\ Exec(c, x).sp = c.sp
  <2>1. MachineOK(Exec(c, x)) /\ Exec(c, x).sp = c.sp + Moves(x)
    BY <1>2, ExecMoves
  <2>2. c.sp \in Int
    BY <1>2, MachineSp
  <2>3. c.sp + Moves(x) = c.sp
    BY <1>2, <2>2
  <2> QED
    BY <2>1, <2>3
<1>3. ASSUME NEW c, MachineOK(c)
      PROVE  MachineOK(Run(c, << i, j, k >>)) /\ Run(c, << i, j, k >>).sp = c.sp + 0
  <2>1. MachineOK(Exec(c, i)) /\ Exec(c, i).sp = c.sp
    BY <1>2, <1>3
  <2>2. MachineOK(Exec(Exec(c, i), j)) /\ Exec(Exec(c, i), j).sp = c.sp
    BY <1>2, <2>1
  <2>3. MachineOK(Exec(Exec(Exec(c, i), j), k)) /\ Exec(Exec(Exec(c, i), j), k).sp = c.sp
    BY <1>2, <2>2
  <2> QED
    BY <1>3, <2>3, RunThree, MachineSp
<1> QED
  BY <1>1, <1>3 DEF Moving

\* The instructions that do not name the stack.
LEMMA PlainMoves ==
  ASSUME NEW i, i[1] \in Plain
  PROVE  Instruction(i) /\ Moves(i) = 0
  BY DEF Instruction, Moves, Plain

LEMMA PushPopMoves ==
  ASSUME NEW r
  PROVE  /\ Instruction(<< "push", r >>) /\ Moves(<< "push", r >>) = 1
         /\ Instruction(<< "pop", r >>) /\ Moves(<< "pop", r >>) = -1
  BY DEF Instruction, Moves, Plain

LEMMA MovingPushPop ==
  ASSUME NEW r
  PROVE  Moving(<< << "push", r >> >>, 1) /\ Moving(<< << "pop", r >> >>, -1)
<1>1. Moving(<< << "push", r >> >>, Moves(<< "push", r >>))
  BY PushPopMoves, MovingOne
<1>2. Moving(<< << "pop", r >> >>, Moves(<< "pop", r >>))
  BY PushPopMoves, MovingOne
<1> QED
  BY <1>1, <1>2, PushPopMoves

LEMMA StackMoves ==
  ASSUME NEW n \in Int
  PROVE  /\ Instruction(<< "subsp", n >>) /\ Moves(<< "subsp", n >>) = n
         /\ Instruction(<< "addsp", n >>) /\ Moves(<< "addsp", n >>) = -n
  BY DEF Instruction, Moves, Plain

-----------------------------------------------------------------------------
(***************************************************************************)
(* The operations of the back end: c is b after code that moves the stack  *)
(* pointer by d words, if it is executed at all.                           *)
(***************************************************************************)
Moved(b, c, d) ==
  /\ c.live = b.live
  /\ MachineOK(b.cpu) => MachineOK(c.cpu) /\ (b.live => c.cpu.sp = b.cpu.sp + d)

LEMMA MovedTwice ==
  ASSUME NEW b, NEW c, NEW e, NEW d \in Int, NEW k \in Int, Moved(b, c, d), Moved(c, e, k)
  PROVE  Moved(b, e, d + k)
<1>1. MachineOK(b.cpu) => b.cpu.sp \in Int
  BY MachineSp
<1> QED
  BY <1>1 DEF Moved

LEMMA MovedSame ==
  ASSUME NEW b, NEW c, c.live = b.live, c.cpu = b.cpu
  PROVE  Moved(b, c, 0)
<1>1. MachineOK(b.cpu) => b.cpu.sp \in Int
  BY MachineSp
<1> QED
  BY <1>1 DEF Moved

LEMMA StillTwice ==
  ASSUME NEW b, NEW c, NEW e, Moved(b, c, 0), Moved(c, e, 0)
  PROVE  Moved(b, e, 0)
<1>1. Moved(b, e, 0 + 0)
  BY MovedTwice
<1> QED
  BY <1>1

LEMMA EmitMoved ==
  ASSUME NEW b, BackendOK(b), NEW code, NEW d \in Int, Moving(code, d)
  PROVE  Moved(b, Emit(b, code), d) /\ BackendOK(Emit(b, code))
<1>1. CASE b.live
  <2>1. Emit(b, code).cpu = Run(b.cpu, code) /\ Emit(b, code).live = b.live
    BY <1>1 DEF Emit, BackendOK, BackendFields
  <2> QED
    BY <2>1, EmitKeeps DEF Moved, Moving
<1>2. CASE ~b.live
  <2>1. Emit(b, code) = b
    BY <1>2 DEF Emit
  <2> QED
    BY <1>2, <2>1 DEF Moved
<1> QED
  BY <1>1, <1>2

LEMMA PlainMoved ==
  ASSUME NEW b, BackendOK(b), NEW i, i[1] \in Plain
  PROVE  Moved(b, Emit(b, << i >>), 0) /\ BackendOK(Emit(b, << i >>))
<1>1. Moving(<< i >>, 0)
  BY PlainMoves, MovingOne
<1> QED
  BY <1>1, EmitMoved

LEMMA FailMoved ==
  ASSUME NEW b, BackendOK(b), NEW e
  PROVE  Moved(b, Fail(b, e), 0)
<1>1. Fail(b, e).live = b.live /\ Fail(b, e).cpu = b.cpu
  BY DEF Fail, BackendOK, BackendFields
<1> QED
  BY <1>1, MovedSame

LEMMA DeallocMoved ==
  ASSUME NEW b, BackendOK(b), NEW r
  PROVE  Moved(b, RegDealloc(b, r), 0) /\ BackendOK(RegDealloc(b, r))
<1>1. RegDealloc(b, r).live = b.live /\ RegDealloc(b, r).cpu = b.cpu
  BY DEF RegDealloc, BackendOK, BackendFields
<1> QED
  BY <1>1, MovedSame, DeallocFrees

LEMMA ReturningMoved ==
  ASSUME NEW b, BackendOK(b), NEW r \in Regs
  PROVE  Moved(b, Returning(b, r), 0) /\ BackendOK(Returning(b, r))
<1>1. Returning(b, r).live = b.live /\ Returning(b, r).cpu = b.cpu
  BY DEF Returning, BackendOK, BackendFields
<1> QED
  BY <1>1, MovedSame, ReturningReturns

LEMMA AllocMoved ==
  ASSUME NEW b, BackendOK(b)
  PROVE  Moved(b, RegAlloc(b), 0) /\ BackendOK(RegAlloc(b))
<1>1. CASE Free(b) = {}
  BY <1>1, FailMoved, AllocTakesFree DEF RegAlloc
<1>2. CASE Free(b) # {}
  <2> DEFINE r == CHOOSE q \in Free(b) : \A p \in Free(b) : q <= p
  <2>1. RegAlloc(b) = [b EXCEPT !.used = @ \cup {r}, !.res = r]
    BY <1>2 DEF RegAlloc
  <2> HIDE DEF r
  <2>2. RegAlloc(b).live = b.live /\ RegAlloc(b).cpu = b.cpu
    BY <2>1 DEF BackendOK, BackendFields
  <2> QED
    BY <2>2, MovedSame, AllocTakesFree
<1> QED
  BY <1>1, <1>2

LEMMA LoadMoved ==
  ASSUME NEW b, BackendOK(b), NEW op \in Plain, NEW src
  PROVE  Moved(b, Load(b, op, src), 0) /\ BackendOK(Load(b, op, src))
<1> DEFINE a == RegAlloc(b)
           e == Emit(a, << << op, src, a.res >> >>)
<1>1. Moved(b, a, 0) /\ BackendOK(a)
  BY AllocMoved
<1>2. Load(b, op, src) = e
  BY DEF Load
<1> HIDE DEF a
<1>3. Moved(a, e, 0) /\ BackendOK(e)
  BY <1>1, PlainMoved
<1> HIDE DEF e
<1> QED
  BY <1>1, <1>2, <1>3, StillTwice

LEMMA SettleMachine ==
  ASSUME NEW c, MachineOK(c), NEW n, NEW at, NEW from, NEW to
  PROVE  MachineOK(Settle(c, n, at, from, to)) /\ Settle(c, n, at, from, to).sp = c.sp
  BY DEF MachineOK, MachineFields, CPUTypeOK, Settle

LEMMA SettledMoved ==
  ASSUME NEW b, BackendOK(b), NEW n, NEW at, NEW from, NEW to
  PROVE  Moved(b, Settled(b, n, at, from, to), 0) /\ BackendOK(Settled(b, n, at, from, to))
<1> DEFINE c == Settled(b, n, at, from, to)
<1>1. c.live = b.live /\ (c.cpu = b.cpu \/ c.cpu = Settle(b.cpu, n, at, from, to))
  BY DEF Settled, BackendOK, BackendFields
<1>2. BackendOK(c)
  BY SettledKeeps
<1> HIDE DEF c
<1>3. MachineOK(b.cpu) => MachineOK(c.cpu) /\ c.cpu.sp = b.cpu.sp /\ b.cpu.sp \in Int
  BY <1>1, SettleMachine, MachineSp
<1>4. Moved(b, c, 0)
  BY <1>1, <1>3 DEF Moved
<1> QED
  BY <1>2, <1>4 DEF c

-----------------------------------------------------------------------------
(* Binary operators: whatever they save on the stack they take from it again. *)

LEMMA CompareMoved ==
  ASSUME NEW b, BackendOK(b), NEW op, NEW l, NEW r
  PROVE  Moved(b, GenCompare(b, op, l, r), 0)
<1> DEFINE a == RegAlloc(b)
           code == << << "zero", a.res >>, << "cmp", r, l >>, << "setcc", op, a.res >> >>
           e == Emit(a, code)
           d == RegDealloc(e, r)
<1>1. Moved(b, a, 0) /\ BackendOK(a)
  BY AllocMoved
<1>2. GenCompare(b, op, l, r) = RegDealloc(d, l)
  BY DEF GenCompare
<1> HIDE DEF a
<1>3. Moving(code, 0)
  <2> DEFINE x == << "zero", a.res >>
             y == << "cmp", r, l >>
             z == << "setcc", op, a.res >>
  <2>1. x[1] \in Plain /\ y[1] \in Plain /\ z[1] \in Plain
    BY DEF Plain
  <2> HIDE DEF x, y, z
  <2>2. Moving(<< x, y, z >>, 0)
    BY <2>1, PlainMoves, MovingThree
  <2> QED
    BY <2>2 DEF x, y, z
<1> HIDE DEF code
<1>4. Moved(a, e, 0) /\ BackendOK(e)
  BY <1>1, <1>3, EmitMoved
<1> HIDE DEF e
<1>5. Moved(e, d, 0) /\ BackendOK(d)
  BY <1>4, DeallocMoved
<1> HIDE DEF d
<1>6. Moved(d, RegDealloc(d, l), 0)
  BY <1>5, DeallocMoved
<1> QED
  BY <1>1, <1>2, <1>4, <1>5, <1>6, StillTwice

LEMMA InPlaceMoved ==
  ASSUME NEW b, BackendOK(b), NEW code, Moving(code, 0), NEW q, NEW r \in Regs
  PROVE  Moved(b, Returning(RegDealloc(Emit(b, code), q), r), 0)
<1> DEFINE e == Emit(b, code)
           d == RegDealloc(e, q)
<1>1. Moved(b, e, 0) /\ BackendOK(e)
  BY EmitMoved
<1> HIDE DEF e
<1>2. Moved(e, d, 0) /\ BackendOK(d)
  BY <1>1, DeallocMoved
<1> HIDE DEF d
<1>3. Moved(d, Returning(d, r), 0)
  BY <1>2, ReturningMoved
<1>4. Moved(b, Returning(d, r), 0)
  BY <1>1, <1>2, <1>3, StillTwice
<1> QED
  BY <1>4 DEF d, e

LEMMA ShiftMoved ==
  ASSUME NEW b, BackendOK(b), NEW op \in {"<<", ">>"}, NEW l \in Regs, NEW r \in Regs
  PROVE  Moved(b, BitShift(b, op, l, r), 0)
<1> DEFINE save == RCX \in b.used /\ l # RCX /\ r # RCX
           swap == << "xchg", r, RCX >>
           one  == << op, l >>
           back == IF save THEN << swap >> ELSE << >>
           code == << swap, one >> \o back
<1>1. swap[1] \in Plain /\ one[1] \in Plain
  BY DEF Plain
<1> HIDE DEF swap, one, save
<1>2. Moving(<< swap, one >>, 0)
  BY <1>1, PlainMoves, MovingTwo
<1>3. Moving(back, 0)
  BY <1>1, PlainMoves, MovingOne, MovingNone
<1> HIDE DEF back
<1>4. Moving(code, 0)
  BY <1>2, <1>3, MovingConcat
<1>5. BitShift(b, op, l, r) = Returning(RegDealloc(Emit(b, code), r), l)
  BY DEF BitShift, save, swap, one, back
<1> HIDE DEF code
<1> QED
  BY <1>4, <1>5, InPlaceMoved

LEMMA DivModMoved ==
  ASSUME NEW b, BackendOK(b), NEW op, NEW l \in Regs, NEW r \in Regs
  PROVE  Moved(b, DivMod(b, op, l, r), 0)
<1> DEFINE x == Pushed(b, RAX, l, r)
           y == Pushed(b, RDX, l, r)
           pushes == (IF x THEN << << "push", RAX >> >> ELSE << >>)
                     \o (IF y THEN << << "push", RDX >> >> ELSE << >>)
           pops == (IF x THEN << << "pop", RAX >> >> ELSE << >>)
                   \o (IF y THEN << << "pop", RDX >> >> ELSE << >>)
           n == (IF x THEN 1 ELSE 0) + (IF y THEN 1 ELSE 0)
           clash == r \in {RAX, RDX}
           a     == IF clash THEN RegAlloc(b) ELSE Returning(b, r)
           copy  == IF clash THEN << << "mov", r, a.res >> >> ELSE << >>
           out   == IF op = "/" THEN RAX ELSE RDX
           dest  == IF out \in {l, r} THEN out ELSE l
           move  == IF out \in {l, r} THEN << >> ELSE << << "mov", out, l >> >>
           core  == << << "mov", l, RAX >>, << "cqo" >>, << "idiv", a.res >> >>
           code  == pushes \o copy \o core \o move \o pops
           done  == Emit(a, code)
           freed == (IF clash THEN {a.res} ELSE {}) \cup ({l, r} \ {dest})
           g     == [done EXCEPT !.used = @ \ freed, !.res = dest]
<1>1. DivMod(b, op, l, r) = g
  BY DEF DivMod
<1>2. Moved(b, a, 0) /\ BackendOK(a)
  BY AllocMoved, ReturningMoved
<1> HIDE DEF a, x, y, clash, out
<1>3. Moving(pushes, n) /\ n \in Int
  <2> DEFINE u == IF x THEN << << "push", RAX >> >> ELSE << >>
             v == IF y THEN << << "push", RDX >> >> ELSE << >>
             p == IF x THEN 1 ELSE 0
             q == IF y THEN 1 ELSE 0
  <2>1. Moving(u, p) /\ Moving(v, q) /\ p \in Int /\ q \in Int
    <3>1. Moving(<< << "push", RAX >> >>, 1) /\ Moving(<< << "push", RDX >> >>, 1)
      BY MovingPushPop
    <3>2. \/ u = << << "push", RAX >> >> /\ p = 1
          \/ u = << >> /\ p = 0
      OBVIOUS
    <3>3. \/ v = << << "push", RDX >> >> /\ q = 1
          \/ v = << >> /\ q = 0
      OBVIOUS
    <3> HIDE DEF u, v, p, q
    <3> QED
      BY <3>1, <3>2, <3>3, MovingNone
  <2> HIDE DEF u, v, p, q
  <2>2. Moving(u \o v, p + q)
    BY <2>1, MovingConcat
  <2> QED
    BY <2>1, <2>2 DEF u, v, p, q
<1>4. Moving(pops, -n)
  <2> DEFINE u == IF x THEN << << "pop", RAX >> >> ELSE << >>
             v == IF y THEN << << "pop", RDX >> >> ELSE << >>
             p == IF x THEN -1 ELSE 0
             q == IF y THEN -1 ELSE 0
  <2>1. Moving(u, p) /\ Moving(v, q) /\ p \in Int /\ q \in Int
    <3>1. Moving(<< << "pop", RAX >> >>, -1) /\ Moving(<< << "pop", RDX >> >>, -1)
      BY MovingPushPop
    <3>2. \/ u = << << "pop", RAX >> >> /\ p = -1
          \/ u = << >> /\ p = 0
      OBVIOUS
    <3>3. \/ v = << << "pop", RDX >> >> /\ q = -1
          \/ v = << >> /\ q = 0
      OBVIOUS
    <3> HIDE DEF u, v, p, q
    <3> QED
      BY <3>1, <3>2, <3>3, MovingNone
  <2>2. p + q = -n
    OBVIOUS
  <2> HIDE DEF u, v, p, q, n
  <2>3. Moving(u \o v, p + q)
    BY <2>1, MovingConcat
  <2> QED
    BY <2>2, <2>3 DEF u, v
<1>5. Moving(copy, 0) /\ Moving(move, 0)
  <2> DEFINE u == << "mov", r, a.res >>
             v == << "mov", out, l >>
  <2>1. u[1] \in Plain /\ v[1] \in Plain
    BY DEF Plain
  <2> HIDE DEF u, v
  <2>2. Moving(<< u >>, 0) /\ Moving(<< v >>, 0)
    BY <2>1, PlainMoves, MovingOne
  <2> QED
    BY <2>2, MovingNone DEF u, v
<1>6. Moving(core, 0)
  <2> DEFINE u == << "mov", l, RAX >>
             v == << "cqo" >>
             w == << "idiv", a.res >>
  <2>1. u[1] \in Plain /\ v[1] \in Plain /\ w[1] \in Plain
    BY DEF Plain
  <2> HIDE DEF u, v, w
  <2>2. Moving(<< u, v, w >>, 0)
    BY <2>1, PlainMoves, MovingThree
  <2> QED
    BY <2>2 DEF u, v, w
<1> HIDE DEF pushes, pops, copy, move, core, n
<1>7. Moving(pushes \o copy, n + 0)
  BY <1>3, <1>5, MovingConcat
<1>8. Moving(pushes \o copy \o core, n + 0 + 0)
  BY <1>3, <1>6, <1>7, MovingConcat
<1>9. Moving(pushes \o copy \o core \o move, n + 0 + 0 + 0)
  BY <1>3, <1>5, <1>8, MovingConcat
<1>10. Moving(code, n + 0 + 0 + 0 + (-n))
  <2>1. n + 0 + 0 + 0 \in Int /\ -n \in Int
    BY <1>3
  <2> QED
    BY <1>4, <1>9, <2>1, MovingConcat
<1>11. Moving(code, 0)
  BY <1>3, <1>10
<1> HIDE DEF code, freed, dest
<1>12. Moved(a, done, 0) /\ BackendOK(done)
  BY <1>2, <1>11, EmitMoved
<1> HIDE DEF done
<1>13. g.live = done.live /\ g.cpu = done.cpu
  BY <1>12 DEF BackendOK, BackendFields
<1> HIDE DEF g
<1>14. Moved(done, g, 0)
  BY <1>13, MovedSame
<1> QED
  BY <1>1, <1>2, <1>12, <1>14, StillTwice

LEMMA BinopMoved ==
  ASSUME NEW b, BackendOK(b), NEW op \in BinaryOps, NEW l \in Regs, NEW r \in Regs
  PROVE  Moved(b, GenBinop(b, op, l, r), 0)
<1>1. CASE op \in {"==", "<", ">"}
  BY <1>1, CompareMoved DEF GenBinop
<1>2. CASE op \in {"+", "*", "-"}
  <2> DEFINE u == << "+", l, r >>
             v == << "-", r, l >>
             w == << "*", l, r >>
  <2>1. u[1] \in Plain /\ v[1] \in Plain /\ w[1] \in Plain
    BY DEF Plain
  <2>2. \E i \in {u, v, w} :
          \/ GenBinop(b, op, l, r) = Returning(RegDealloc(Emit(b, << i >>), r), l)
          \/ GenBinop(b, op, l, r) = Returning(RegDealloc(Emit(b, << i >>), l), r)
    BY <1>2 DEF GenBinop, GenAdd, GenSub, GenMul
  <2> HIDE DEF u, v, w
  <2>3. \A i \in {u, v, w} : Moving(<< i >>, 0)
    BY <2>1, PlainMoves, MovingOne
  <2> QED
    BY <2>2, <2>3, InPlaceMoved
<1>3. CASE op \in {"<<", ">>"}
  BY <1>3, ShiftMoved DEF GenBinop
<1>4. CASE op \in {"/", "%"}
  BY <1>4, DivModMoved DEF GenBinop
<1> QED
  BY <1>1, <1>2, <1>3, <1>4 DEF BinaryOps

-----------------------------------------------------------------------------
(***************************************************************************)
(* c is b after code that leaves the stack pointer and the call state as   *)
(* they were.                                                              *)
(***************************************************************************)
Still(b, c) == BackendOK(c) /\ Calm(b, c) /\ Moved(b, c, 0)

LEMMA StillSame ==
  ASSUME NEW b, BackendOK(b)
  PROVE  Still(b, b)
  BY MovedSame DEF Still, Calm

LEMMA StillStill ==
  ASSUME NEW b, NEW c, NEW d, Still(b, c), Still(c, d)
  PROVE  Still(b, d)
  BY StillTwice, CalmTwice DEF Still

LEMMA PlainStill ==
  ASSUME NEW b, BackendOK(b), NEW i, i[1] \in Plain
  PROVE  Still(b, Emit(b, << i >>))
  BY PlainMoved, EmitCalm DEF Still

LEMMA DeallocStill ==
  ASSUME NEW b, BackendOK(b), NEW r
  PROVE  Still(b, RegDealloc(b, r))
  BY DeallocMoved, DeallocCalm DEF Still

LEMMA FailStill ==
  ASSUME NEW b, BackendOK(b), NEW e \in Errors
  PROVE  Still(b, Fail(b, e))
  BY FailMoved, FailCalm DEF Still

LEMMA LoadStill ==
  ASSUME NEW b, BackendOK(b), NEW op \in Plain, NEW src
  PROVE  Still(b, Load(b, op, src))
  BY LoadMoved, LoadCalm DEF Still

LEMMA SettledStill ==
  ASSUME NEW b, BackendOK(b), NEW n, NEW at, NEW from, NEW to
  PROVE  Still(b, Settled(b, n, at, from, to))
  BY SettledMoved, SettledCalm DEF Still

LEMMA BinopStill ==
  ASSUME NEW b, BackendOK(b), NEW op \in BinaryOps, NEW l \in Regs, NEW r \in Regs
  PROVE  Still(b, GenBinop(b, op, l, r))
  BY BinopMoved, BinopReplaces DEF Still, SameCall, Calm

LEMMA AccessStill ==
  ASSUME NEW b, BackendOK(b), NEW x
  PROVE  Still(b, VarAccess(b, x))
<1>1. "cell" \in Plain /\ "glob" \in Plain
  BY DEF Plain
<1> QED
  BY <1>1, LoadStill DEF VarAccess

LEMMA AddressStill ==
  ASSUME NEW b, BackendOK(b), NEW x
  PROVE  Still(b, AddressOf(b, x)) /\ Still(b, ElementAddr(b, x))
<1> DEFINE a == AddressOf(b, x)
           i == << "addimm", a.res >>
<1>1. "unknown_symbol" \in Errors /\ "lea" \in Plain /\ i[1] \in Plain
  BY DEF Errors, Plain
<1>2. Still(b, a)
  BY <1>1, LoadStill, FailStill DEF AddressOf
<1>3. ElementAddr(b, x) = Emit(a, << i >>)
  BY DEF ElementAddr, AddImm
<1> HIDE DEF a, i
<1>4. Still(a, Emit(a, << i >>))
  BY <1>1, <1>2, PlainStill DEF Still
<1>5. Still(b, Emit(a, << i >>))
  BY <1>2, <1>4, StillStill
<1> QED
  BY <1>2, <1>3, <1>5 DEF a

LEMMA TargetStill ==
  ASSUME NEW b, BackendOK(b), NEW x, NEW c \in Targets(b, x)
  PROVE  Still(b, c)
  BY AccessStill, AddressStill DEF Targets

LEMMA DeliverStill ==
  ASSUME NEW b, Still(be, b), NEW k, NEW e, Deliver(b, k, e)
  PROVE  Still(be, be')
<1>1. BackendOK(b)
  BY DEF Still
<1> QED
  BY <1>1, SettledStill, StillStill DEF Deliver

LEMMA DeliverNothingStill ==
  ASSUME NEW b, Still(be, b), NEW k, DeliverNothing(b, k)
  PROVE  Still(be, be')
<1>1. BackendOK(b)
  BY DEF Still
<1> QED
  BY <1>1, SettledStill, StillStill DEF DeliverNothing

LEMMA ConsumeStill ==
  ASSUME NEW b, Still(be, b), NEW k, NEW at, NEW from, NEW to, Consume(b, k, at, from, to)
  PROVE  Still(be, be')
<1>1. BackendOK(b)
  BY DEF Still
<1> QED
  BY <1>1, SettledStill, StillStill DEF Consume

-----------------------------------------------------------------------------
(* The offsets of a context are numbers. *)

Offsets == [id : Names, val : Int]

EnvOK(env) == env \in Seq(Offsets)

LEMMA BoundPositions ==
  ASSUME NEW env, EnvOK(env), NEW x
  PROVE  Bound(env, x) \in SUBSET (1 .. Len(env)) /\ Len(env) \in Nat
  BY DEF Bound, EnvOK

LEMMA GetOffset ==
  ASSUME NEW env, EnvOK(env), NEW x, IsBound(env, x)
  PROVE  GetEnv(env, x) \in Int
<1> DEFINE S == Bound(env, x)
<1>1. S \in SUBSET (1 .. Len(env)) /\ S # {} /\ Len(env) \in Nat
  BY BoundPositions DEF IsBound
<1>2. GetEnv(env, x) = env[First(S)].val
  BY DEF GetEnv
<1> HIDE DEF S
<1>3. First(S) \in S
  <2>1. S \in SUBSET Nat
    BY <1>1
  <2>2. \E m \in S : \A k \in S : m <= k
    BY <1>1, <2>1, LeastOfNat
  <2> QED
    BY <2>2 DEF First
<1> DEFINE m == First(S)
<1>5. m \in 1 .. Len(env)
  BY <1>1, <1>3
<1> HIDE DEF m
<1>6. env[m] \in Offsets
  BY <1>5 DEF EnvOK
<1>4. env[First(S)] \in Offsets
  BY <1>6 DEF m
<1> QED
  BY <1>2, <1>4 DEF Offsets

LEMMA SetOffset ==
  ASSUME NEW env, EnvOK(env), NEW x \in Names, NEW v \in Int
  PROVE  EnvOK(SetEnv(env, x, v)) /\ IsBound(SetEnv(env, x, v), x)
<1> DEFINE seen == {i \in Bound(env, x) : i < Len(env)}
<1>1. CASE seen = {}
  <2>1. SetEnv(env, x, v) = Append(env, Binding(x, v))
    BY <1>1 DEF SetEnv
  <2>2. Binding(x, v) \in Offsets /\ Binding(x, v).id = x
    BY DEF Binding, Offsets
  <2> DEFINE e == Binding(x, v)
             t == Append(env, e)
  <2> HIDE DEF e
  <2>3. t \in Seq(Offsets) /\ Len(t) = Len(env) + 1 /\ t[Len(env) + 1] = e /\ Len(env) \in Nat
    BY <2>2 DEF EnvOK, e
  <2> HIDE DEF t
  <2>4. Len(env) + 1 \in Bound(t, x)
    BY <2>2, <2>3 DEF Bound, e
  <2> QED
    BY <2>1, <2>3, <2>4 DEF EnvOK, IsBound, t, e
<1>2. CASE seen # {}
  <2> DEFINE m == First(seen)
             t == [env EXCEPT ![m].val = v]
  <2>1. SetEnv(env, x, v) = t
    BY <1>2 DEF SetEnv
  <2>2. PICK i \in Bound(env, x) : TRUE
    BY <1>2
  <2> HIDE DEF m
  <2>3. t \in Seq(Offsets) /\ Len(t) = Len(env)
    <3>1. ASSUME m \in 1 .. Len(env)
          PROVE  [env[m] EXCEPT !.val = v] \in Offsets
      <4>1. env[m] \in Offsets
        BY <3>1 DEF EnvOK
      <4> QED
        BY <4>1 DEF Offsets
    <3> DEFINE e == [env[m] EXCEPT !.val = v]
    <3>2. t = [env EXCEPT ![m] = e]
      OBVIOUS
    <3>3. m \in 1 .. Len(env) => e \in Offsets
      BY <3>1
    <3> HIDE DEF e, t
    <3>4. CASE m \in 1 .. Len(env)
      BY <3>2, <3>3, <3>4 DEF EnvOK
    <3>5. CASE m \notin 1 .. Len(env)
      <4>1. env = [k \in 1 .. Len(env) |-> env[k]]
        BY DEF EnvOK
      <4>2. t = env
        BY <3>2, <3>5, <4>1
      <4> QED
        BY <4>2 DEF EnvOK
    <3> QED
      BY <3>4, <3>5
  <2>4. \A j \in 1 .. Len(env) : t[j].id = env[j].id
    BY DEF EnvOK, Offsets
  <2> HIDE DEF t
  <2>5. i \in Bound(t, x)
    BY <2>2, <2>3, <2>4 DEF Bound, EnvOK
  <2> QED
    BY <2>1, <2>3, <2>5 DEF EnvOK, IsBound
<1> QED
  BY <1>1, <1>2

\* The offsets of the parameters exist and are numbers, however many there are.
LEMMA ParamOffsets ==
  ASSUME NEW argc \in 0 .. MaxArgs
  PROVE  EnvOK(ParamEnv(argc))
<1> DEFINE F(g, m) == [i \in 0 .. m |-> IF i = 0 THEN EmptyEnv
                                        ELSE SetEnv(g[i - 1], Params[i], i + 1)]
           Bad == {m \in Nat : ~\E g : g = F(g, m)}
           a == CHOOSE g : g = F(g, argc)
<1>0. argc \in Nat /\ \A i \in 1 .. argc : Params[i] \in Names
  BY CodeGenAssumption DEF Names
<1>1. Bad = {}
  <2> SUFFICES ASSUME Bad # {} PROVE FALSE
    OBVIOUS
  <2>1. PICK m \in Bad : \A k \in Bad : m <= k
    <3>1. Bad \in SUBSET Nat
      OBVIOUS
    <3> HIDE DEF Bad
    <3> QED
      BY <3>1, LeastOfNat
  <2>2. m \in Nat /\ ~\E g : g = F(g, m)
    OBVIOUS
  <2>3. CASE m = 0
    <3> DEFINE g == [i \in 0 .. 0 |-> EmptyEnv]
    <3>1. g = F(g, 0)
      OBVIOUS
    <3> QED
      BY <2>2, <2>3, <3>1
  <2>4. CASE m # 0
    <3>1. m - 1 \in Nat /\ m - 1 \notin Bad
      BY <2>1, <2>2, <2>4
    <3>2. PICK g : g = F(g, m - 1)
      BY <3>1
    <3> DEFINE h == [i \in 0 .. m |-> IF i = m THEN SetEnv(g[m - 1], Params[m], m + 1) ELSE g[i]]
    <3>3. \A i \in 0 .. m : h[i] = IF i = 0 THEN EmptyEnv ELSE SetEnv(h[i - 1], Params[i], i + 1)
      <4> TAKE i \in 0 .. m
      <4>1. CASE i = m
        BY <2>2, <2>4, <4>1
      <4>2. CASE i # m /\ i = 0
        BY <2>2, <3>1, <3>2, <4>2
      <4>3. CASE i # m /\ i # 0
        <5>1. i \in 0 .. m - 1 /\ i - 1 \in 0 .. m - 1 /\ i - 1 # m /\ i - 1 \in 0 .. m
          BY <2>2, <4>3
        <5>2. g[i] = SetEnv(g[i - 1], Params[i], i + 1)
          BY <3>2, <4>3, <5>1
        <5> QED
          BY <4>3, <5>1, <5>2
      <4> QED
        BY <4>1, <4>2, <4>3
    <3>4. h = [i \in 0 .. m |-> h[i]]
      OBVIOUS
    <3> HIDE DEF h
    <3>5. h = F(h, m)
      BY <3>3, <3>4
    <3> QED
      BY <2>2, <3>5
  <2> QED
    BY <2>3, <2>4
<1>3. a = F(a, argc)
  <2>1. \E g : g = F(g, argc)
    BY <1>0, <1>1
  <2> HIDE DEF F
  <2> QED
    BY <2>1
<1>4. ParamEnv(argc) = a[argc]
  BY DEF ParamEnv
<1> HIDE DEF a
<1>5. \A i \in 0 .. argc : EnvOK(a[i])
  <2> DEFINE Wrong == {i \in 0 .. argc : ~EnvOK(a[i])}
  <2> SUFFICES ASSUME Wrong # {} PROVE FALSE
    OBVIOUS
  <2>1. PICK m \in Wrong : \A k \in Wrong : m <= k
    <3>1. Wrong \in SUBSET Nat
      BY <1>0
    <3> HIDE DEF Wrong
    <3> QED
      BY <3>1, LeastOfNat
  <2>2. m \in 0 .. argc /\ ~EnvOK(a[m]) /\ m \in Nat
    BY <1>0
  <2>3. m # 0
    BY <1>0, <1>3, <2>2 DEF EmptyEnv, EnvOK
  <2>4. m - 1 \in 0 .. argc /\ m - 1 \notin Wrong /\ m \in 1 .. argc /\ m + 1 \in Int
    BY <1>0, <2>1, <2>2, <2>3
  <2>5. EnvOK(a[m - 1]) /\ a[m] = SetEnv(a[m - 1], Params[m], m + 1)
    BY <1>3, <2>2, <2>3, <2>4
  <2> QED
    BY <1>0, <2>2, <2>4, <2>5, SetOffset
<1> QED
  BY <1>0, <1>4, <1>5

-----------------------------------------------------------------------------
(***************************************************************************)
(* The inductive invariant of the processor.  For every program: it has    *)
(* its registers, globals, stack and stack pointer, now and in the state a *)
(* function gives back to its caller, and the offsets of every context are *)
(* numbers.  For programs without conditions and nested calls: the stack   *)
(* pointer is where local_offset says, plus what the call being prepared   *)
(* has pushed (RAX and its arguments).  Only operators stand between a     *)
(* call and what is generated for one of its arguments, so that a function *)
(* body never starts while a call is being prepared.                       *)
(***************************************************************************)
Simple == Kinds \cap {"if", "nested_call"} = {}

SavedOK(f) == f.k = "func" => MachineOK(f.saved.cpu) /\ EnvOK(f.saved.cg.env)

Straight(f) ==
  /\ f.k # "if"
  /\ f.k = "func" => f.saved.live = TRUE /\ f.saved.cpu.sp = -f.saved.cg.off

Nested(s) == \A i \in CallsOf(s), j \in 1 .. Len(s) : i < j => s[j].k = "binop"

\* The words of the call being prepared.
InCallWords(b) ==
  (IF b.raxInUse THEN 1 ELSE 0) + (IF b.call = "INTERNAL" THEN b.nargs ELSE 0)

FramesInv ==
  /\ \A i \in 1 .. Len(ctl) : SavedOK(ctl[i])
  /\ Simple => Nested(ctl) /\ \A i \in 1 .. Len(ctl) : Straight(ctl[i])

MachineInv ==
  /\ MachineOK(be.cpu) /\ EnvOK(cg.env)
  /\ Simple => be.live = TRUE
  /\ Simple /\ Compiling => be.cpu.sp = InCallWords(be) - cg.off

ProcessorInv == FramesInv /\ MachineInv

LEMMA CallWordsInt ==
  ASSUME NEW b, BackendOK(b)
  PROVE  InCallWords(b) \in Nat
  BY DEF BackendOK, InCallWords

LEMMA MachineStill ==
  ASSUME TypeInv, MachineInv, Running, Still(be, be'), cg'.env = cg.env, cg'.off = cg.off
  PROVE  MachineInv'
<1>1. MachineOK(be'.cpu) /\ be'.live = be.live /\ (be.live => be'.cpu.sp = be.cpu.sp + 0)
  BY DEF Still, Moved, MachineInv
<1>2. be.cpu.sp \in Int
  BY MachineSp DEF MachineInv
<1>3. Compiling
  BY DEF Running, Compiling
<1>4. InCallWords(be') = InCallWords(be)
  BY DEF Still, Calm, InCallWords
<1> QED
  BY <1>1, <1>2, <1>3, <1>4 DEF MachineInv

LEMMA FramesPop ==
  ASSUME TypeInv, FramesInv, ctl' = Pop(ctl)
  PROVE  FramesInv'
<1>1. IsSeq(ctl) /\ Len(ctl) > 0 /\ Len(ctl) \in Nat
  BY TopFacts DEF TypeInv, ControlOK
<1>2. Len(ctl') = Len(ctl) - 1 /\ \A i \in 1 .. Len(ctl) - 1 : ctl'[i] = ctl[i]
  BY <1>1, PopFacts
<1> QED
  BY <1>1, <1>2 DEF FramesInv, Nested, CallsOf

LEMMA FramesPush ==
  ASSUME TypeInv, FramesInv, NEW f, Push(f), SavedOK(f),
         Simple => Straight(f) /\ (f.k = "binop" \/ CallsOf(ctl) = {})
  PROVE  FramesInv'
<1>1. IsSeq(ctl) /\ Len(ctl) \in Nat
  BY TopFacts DEF TypeInv, ControlOK
<1>2. /\ Len(ctl') = Len(ctl) + 1 /\ ctl'[Len(ctl) + 1] = f
      /\ \A i \in 1 .. Len(ctl) : ctl'[i] = ctl[i]
  BY <1>1, AppendFacts DEF Push
<1>3. \A i \in 1 .. Len(ctl') : i \in 1 .. Len(ctl) \/ i = Len(ctl) + 1
  BY <1>1, <1>2
<1>4. (\A i \in 1 .. Len(ctl) : SavedOK(ctl[i])) => \A i \in 1 .. Len(ctl') : SavedOK(ctl'[i])
  BY <1>2, <1>3
<1>5. ASSUME Simple PROVE \A i \in 1 .. Len(ctl') : Straight(ctl'[i])
  BY <1>2, <1>3, <1>5 DEF FramesInv
<1>6. ASSUME Simple PROVE Nested(ctl')
  <2> SUFFICES ASSUME NEW i \in CallsOf(ctl'), NEW j \in 1 .. Len(ctl'), i < j
               PROVE  ctl'[j].k = "binop"
    BY DEF Nested
  <2>1. i \in CallsOf(ctl)
    BY <1>1, <1>2, <1>3 DEF CallsOf
  <2>2. CASE j \in 1 .. Len(ctl)
    BY <1>2, <1>6, <2>1, <2>2 DEF FramesInv, Nested
  <2>3. CASE j = Len(ctl) + 1
    BY <1>2, <1>6, <2>1, <2>3
  <2> QED
    BY <1>3, <2>2, <2>3
<1> QED
  BY <1>4, <1>5, <1>6 DEF FramesInv

LEMMA FramesBecome ==
  ASSUME TypeInv, FramesInv, NEW f, Become(f), f.k = Top.k, f.k = "func" => f.saved = Top.saved
  PROVE  FramesInv'
<1>1. IsSeq(ctl) /\ Len(ctl) > 0 /\ Len(ctl) \in Nat
  BY TopFacts DEF TypeInv, ControlOK
<1>2. /\ Len(ctl') = Len(ctl) /\ ctl'[Len(ctl)] = f
      /\ \A i \in 1 .. Len(ctl) - 1 : ctl'[i] = ctl[i]
  BY <1>1, BecomeFacts DEF Become
<1>3. \A i \in 1 .. Len(ctl) : /\ ctl'[i].k = ctl[i].k
                               /\ ctl[i].k = "func" => ctl'[i].saved = ctl[i].saved
  BY <1>1, <1>2 DEF Top
<1>4. CallsOf(ctl') = CallsOf(ctl)
  BY <1>2, <1>3 DEF CallsOf
<1>5. \A i \in 1 .. Len(ctl) : SavedOK(ctl[i]) => SavedOK(ctl'[i])
  BY <1>3 DEF SavedOK
<1>6. \A i \in 1 .. Len(ctl) : Straight(ctl[i]) => Straight(ctl'[i])
  BY <1>3 DEF Straight
<1>7. Nested(ctl) => Nested(ctl')
  BY <1>2, <1>3, <1>4 DEF Nested, CallsOf
<1> QED
  BY <1>2, <1>5, <1>6, <1>7 DEF FramesInv

\* Where a statement may stand no call is being prepared.
LEMMA NoOpenCall ==
  ASSUME TypeInv, FramesInv, Simple, Top.k \notin {"call", "binop"}
  PROVE  CallsOf(ctl) = {}
<1>1. Len(ctl) \in Nat /\ Len(ctl) >= 1
  BY TopFacts DEF TypeInv
<1> SUFFICES ASSUME NEW i \in CallsOf(ctl) PROVE FALSE
  OBVIOUS
<1>2. i \in 1 .. Len(ctl) /\ ctl[i].k = "call"
  BY DEF CallsOf
<1>3. i # Len(ctl)
  BY <1>2 DEF Top
<1>4. ctl[Len(ctl)].k = "binop"
  BY <1>1, <1>2, <1>3 DEF FramesInv, Nested
<1> QED
  BY <1>4 DEF Top

\* There is no activation of a condition.
LEMMA NoConditions ==
  ASSUME TypeInv, FramesInv, Simple
  PROVE  Top.k # "if"
<1>1. Len(ctl) \in Nat /\ Len(ctl) >= 1
  BY TopFacts DEF TypeInv
<1> QED
  BY <1>1 DEF FramesInv, Straight, Top

-----------------------------------------------------------------------------
(* Every action but those of the calls and of the functions. *)

LEMMA StayProcessor ==
  ASSUME TypeInv, ProcessorInv, Running, UNCHANGED << ctl, cg >>, Still(be, be')
  PROVE  ProcessorInv'
<1>1. FramesInv'
  BY DEF ProcessorInv, FramesInv
<1> QED
  BY <1>1, MachineStill DEF ProcessorInv

LEMMA LeavesProcessor ==
  ASSUME TypeInv, ProcessorInv,
         GenInt \/ \E x \in InScope : GenVar(x) \/ GenDeref(x) \/ GenAddr(x) \/ GenIndex(x)
  PROVE  ProcessorInv'
<1>1. BackendOK(be) /\ "imm" \in Plain
  BY DEF TypeInv, Plain
<1>2. CASE GenInt
  BY <1>1, <1>2, LoadStill, DeliverStill, StayProcessor DEF GenInt, Leaf
<1>3. CASE \E x \in InScope : GenVar(x) \/ GenDeref(x)
  BY <1>1, <1>3, AccessStill, DeliverStill, StayProcessor DEF GenVar, GenDeref, Leaf
<1>4. CASE \E x \in InScope : GenAddr(x) \/ GenIndex(x)
  BY <1>1, <1>4, AddressStill, DeliverStill, StayProcessor DEF GenAddr, GenIndex, Leaf
<1> QED
  BY <1>2, <1>3, <1>4

LEMMA BeginsProcessor ==
  ASSUME TypeInv, ProcessorInv,
         BeginIf \/ (\E op \in Ops : BeginBinop(op))
                 \/ \E x \in InScope : BeginAssign(x) \/ BeginStore(x)
  PROVE  ProcessorInv'
<1>1. Running /\ UNCHANGED << be, cg >>
  BY DEF BeginIf, BeginBinop, BeginAssign, BeginStore, Inner
<1>2. PICK f : /\ Push(f) /\ f.k # "func"
               /\ Simple => f.k # "if" /\ (f.k = "binop" \/ Top.k \notin {"call", "binop"})
  <2>1. CASE BeginIf
    <3>1. ~Simple
      BY <2>1 DEF BeginIf, Inner, Simple
    <3> QED
      BY <2>1, <3>1 DEF BeginIf, IfFrame
  <2>2. CASE \E op \in Ops : BeginBinop(op)
    BY <2>2 DEF BeginBinop, BinopFrame
  <2>3. CASE \E x \in InScope : BeginAssign(x) \/ BeginStore(x)
    BY <2>3 DEF BeginAssign, BeginStore, AssignFrame, StmtWanted, InBody, InIf
  <2> QED
    BY <2>1, <2>2, <2>3
<1>3. FramesInv'
  BY <1>2, FramesPush, NoOpenCall DEF ProcessorInv, SavedOK, Straight
<1>4. MachineInv'
  BY <1>1, StillSame, MachineStill DEF ProcessorInv, TypeInv
<1> QED
  BY <1>3, <1>4 DEF ProcessorInv

LEMMA PopProcessor ==
  ASSUME TypeInv, ProcessorInv, Running, ctl' = Pop(ctl), UNCHANGED cg, Still(be, be')
  PROVE  ProcessorInv'
  BY FramesPop, MachineStill DEF ProcessorInv

LEMMA EndBinopProcessor ==
  ASSUME TypeInv, ProcessorInv, EndBinop
  PROVE  ProcessorInv'
<1> DEFINE k == Len(vals) - 1
           l == vals[k].reg
           r == vals[k + 1].reg
           g == GenBinop(be, Top.op, l, r)
<1>1. Running /\ Top.k = "binop" /\ ctl' = Pop(ctl) /\ UNCHANGED cg
  BY DEF EndBinop
<1>2. Top.op \in BinaryOps
  BY <1>1, TopFacts, FrameKinds, CodeGenAssumption DEF TypeInv, BinopOK
<1>3. Len(vals) \in Nat /\ Len(vals) >= 2
  BY TopFacts DEF TypeInv, EndBinop, Delivered
<1>4. l \in Regs /\ r \in Regs
  BY <1>3, ResultFields DEF TypeInv
<1>5. \E e : Deliver(g, k, e)
  BY DEF EndBinop
<1> HIDE DEF k, l, r
<1>6. Still(be, g)
  BY <1>2, <1>4, BinopStill DEF TypeInv
<1> HIDE DEF g
<1>7. Still(be, be')
  BY <1>5, <1>6, DeliverStill
<1> QED
  BY <1>1, <1>7, PopProcessor

\* A condition may change which code is executed, and nothing but that.
LEMMA ConditionMachine ==
  ASSUME TypeInv, MachineInv, ~Simple, MachineOK(be'.cpu), cg'.env = cg.env
  PROVE  MachineInv'
  BY DEF MachineInv

Whole(b) == BackendOK(b) /\ MachineOK(b.cpu)

LEMMA WholeLive ==
  ASSUME NEW b, Whole(b), NEW x \in BOOLEAN
  PROVE  Whole([b EXCEPT !.live = x])
  BY DEF Whole, BackendOK, BackendFields

LEMMA WholeStill ==
  ASSUME NEW b, NEW c, Whole(b), Still(b, c)
  PROVE  Whole(c)
  BY DEF Whole, Still, Moved

LEMMA WholeSettled ==
  ASSUME NEW b, Whole(b), NEW n, NEW at, NEW from, NEW to
  PROVE  Whole(Settled(b, n, at, from, to))
  BY SettledStill, WholeStill DEF Whole

LEMMA WholeNow ==
  ASSUME TypeInv, MachineInv
  PROVE  Whole(be)
  BY DEF TypeInv, MachineInv, Whole

LEMMA IfConditionProcessor ==
  ASSUME TypeInv, ProcessorInv, IfCondition
  PROVE  ProcessorInv'
<1> DEFINE d == RegDealloc(be, Last(vals).reg)
           n == Len(vals) - 1
           b == Settled(d, n, Nowhere, Junk, Junk)
<1>1. PICK taken \in BOOLEAN, hasElse \in BOOLEAN :
        /\ Become([Top EXCEPT !.ph = "then", !.taken = taken, !.hasElse = hasElse])
        /\ be' = [b EXCEPT !.live = @ /\ taken]
  BY DEF IfCondition
<1> DEFINE f == [Top EXCEPT !.ph = "then", !.taken = taken, !.hasElse = hasElse]
<1>2. Top.k = "if" /\ UNCHANGED cg
  BY DEF IfCondition
<1>3. f.k = Top.k
  BY <1>2, TopFacts, FrameKinds DEF TypeInv, IfOK
<1>4. Whole(d)
  BY DeallocStill, WholeNow, WholeStill DEF ProcessorInv, TypeInv
<1> HIDE DEF d, f
<1>5. Whole(b)
  BY <1>4, WholeSettled
<1> HIDE DEF b
<1>6. be'.cpu = b.cpu
  BY <1>1, <1>5 DEF Whole, BackendOK, BackendFields
<1>7. MachineOK(be'.cpu) /\ ~Simple
  BY <1>2, <1>5, <1>6, NoConditions DEF Whole, ProcessorInv
<1>8. FramesInv'
  BY <1>1, <1>2, <1>3, FramesBecome DEF ProcessorInv, f
<1> QED
  BY <1>2, <1>7, <1>8, ConditionMachine DEF ProcessorInv

LEMMA IfStatementProcessor ==
  ASSUME TypeInv, ProcessorInv, IfStatement
  PROVE  ProcessorInv'
<1> DEFINE f == [Top EXCEPT !.n = @ + 1]
           k == Len(vals) - 1
           d == RegDealloc(be, vals[k].reg)
<1>1. Top.k = "if" /\ Become(f) /\ UNCHANGED cg
  BY DEF IfStatement, InIf
<1>2. f.k = Top.k
  BY <1>1, TopFacts, FrameKinds DEF TypeInv, IfOK
<1>3. be' = be \/ \E n, at, from, to : be' = Settled(d, n, at, from, to)
  BY DEF IfStatement
<1>4. Whole(d) /\ Whole(be)
  BY DeallocStill, WholeNow, WholeStill DEF ProcessorInv, TypeInv
<1> HIDE DEF d, f
<1>5. Whole(be')
  BY <1>3, <1>4, WholeSettled
<1>6. MachineOK(be'.cpu) /\ ~Simple
  BY <1>1, <1>5, NoConditions DEF Whole, ProcessorInv
<1>7. FramesInv'
  BY <1>1, <1>2, FramesBecome DEF ProcessorInv
<1> QED
  BY <1>1, <1>6, <1>7, ConditionMachine DEF ProcessorInv

LEMMA EndThenProcessor ==
  ASSUME TypeInv, ProcessorInv, EndThen
  PROVE  ProcessorInv'
<1> DEFINE k     == Len(vals)
           a     == RegAlloc(be)
           i     == << "mov", vals[k].reg, a.res >>
           c     == Emit(a, << i >>)
           moved == RegDealloc(c, vals[k].reg)
           skip  == Top.live /\ ~Top.taken
           after == [moved EXCEPT !.live = skip]
           z     == << "zero", a.res >>
           zero  == Emit(after, << z >>)
           done  == [zero EXCEPT !.live = Top.live]
           from  == IF Top.taken THEN Opd(k) ELSE Zero
           f     == [Top EXCEPT !.ph = "else", !.n = 0, !.val = vals[k].val]
           s     == Settled(moved, k - 1, InReg(a.res), Opd(k), Opd(k))
<1>1. Top.k = "if" /\ IfOK(Top)
  BY TopFacts, FrameKinds DEF TypeInv, EndThen, BodyEnded
<1>2. f.k = Top.k /\ skip \in BOOLEAN /\ Top.live \in BOOLEAN
  BY <1>1 DEF IfOK
<1>3. \/ Become(f) /\ be' = [s EXCEPT !.live = skip]
      \/ ctl' = Pop(ctl) /\ be' = Settled(done, k - 1, InReg(a.res), from, Opd(k))
  BY DEF EndThen, IfResult, CopyReg, ZeroOut
<1>4. i[1] \in Plain /\ z[1] \in Plain
  BY DEF Plain
<1>5. Whole(a)
  BY AllocMoved, WholeNow DEF ProcessorInv, TypeInv, Whole, Moved
<1> HIDE DEF a, i, z
<1>6. Whole(c)
  BY <1>4, <1>5, PlainStill, WholeStill DEF Whole
<1> HIDE DEF c
<1>7. Whole(moved)
  BY <1>6, DeallocStill, WholeStill DEF Whole
<1> HIDE DEF moved
<1>8. Whole(s) /\ Whole(after)
  BY <1>2, <1>7, WholeSettled, WholeLive
<1> HIDE DEF s, after
<1>9. Whole(zero)
  BY <1>4, <1>8, PlainStill, WholeStill DEF Whole
<1> HIDE DEF zero
<1>10. Whole(done)
  BY <1>2, <1>9, WholeLive
<1> HIDE DEF done, from, skip, f, k
<1>11. Whole(be')
  BY <1>2, <1>3, <1>8, <1>10, WholeLive, WholeSettled
<1>12. FramesInv'
  BY <1>1, <1>2, <1>3, FramesBecome, FramesPop DEF ProcessorInv
<1>13. cg'.env = cg.env
  BY DEF EndThen, TypeInv, ContextOK
<1>14. MachineOK(be'.cpu) /\ ~Simple
  BY <1>1, <1>11, NoConditions DEF Whole, ProcessorInv
<1> QED
  BY <1>12, <1>13, <1>14, ConditionMachine DEF ProcessorInv

LEMMA EndElseProcessor ==
  ASSUME TypeInv, ProcessorInv, EndElse
  PROVE  ProcessorInv'
<1> DEFINE k    == Len(vals) - 1
           last == vals[k + 1]
           r    == vals[k].reg
           i    == << "mov", last.reg, r >>
           c    == Emit(be, << i >>)
           b    == RegDealloc(c, last.reg)
           d    == [b EXCEPT !.live = Top.live]
<1>1. Top.k = "if" /\ Top.live \in BOOLEAN /\ ctl' = Pop(ctl)
  BY TopFacts, FrameKinds DEF TypeInv, EndElse, BodyEnded, IfOK
<1>2. \E n, at, from, to : be' = Settled(d, n, at, from, to)
  BY DEF EndElse, IfResult, CopyReg
<1>3. i[1] \in Plain
  BY DEF Plain
<1> HIDE DEF i
<1>4. Whole(c)
  BY <1>3, PlainStill, WholeNow, WholeStill DEF ProcessorInv, TypeInv
<1> HIDE DEF c
<1>5. Whole(b)
  BY <1>4, DeallocStill, WholeStill DEF Whole
<1> HIDE DEF b
<1>6. Whole(d)
  BY <1>1, <1>5, WholeLive
<1> HIDE DEF d
<1>7. Whole(be')
  BY <1>2, <1>6, WholeSettled
<1>8. cg'.env = cg.env
  BY DEF EndElse, TypeInv, ContextOK
<1>9. MachineOK(be'.cpu) /\ ~Simple
  BY <1>1, <1>7, NoConditions DEF Whole, ProcessorInv
<1> QED
  BY <1>1, <1>8, <1>9, ConditionMachine, FramesPop DEF ProcessorInv

LEMMA EndAssignProcessor ==
  ASSUME TypeInv, ProcessorInv, EndAssign
  PROVE  ProcessorInv'
<1> DEFINE k == Len(vals)
           u == << "stglob", vals[k].reg, Top.x >>
           v == << "stcell", vals[k].reg, CellOf(GetEnv(cg.env, Top.x)) >>
<1>1. Running /\ ctl' = Pop(ctl) /\ UNCHANGED cg
  BY DEF EndAssign
<1>2. "unknown_symbol" \in Errors /\ BackendOK(be)
  BY DEF Errors, TypeInv
<1>3. \E b, n, at, from, to :
        /\ \/ b = Fail(be, "unknown_symbol")
           \/ b = Emit(be, << u >>)
           \/ IsBound(cg.env, Top.x) /\ b = Emit(be, << v >>)
        /\ be' = Settled(b, n, at, from, to)
  BY DEF EndAssign, StoreGlobal, StoreLocal
<1>4. u[1] \in Plain
  BY DEF Plain
<1>5. ASSUME IsBound(cg.env, Top.x) PROVE Still(be, Emit(be, << v >>))
  <2>1. GetEnv(cg.env, Top.x) \in Int
    BY <1>5, GetOffset DEF ProcessorInv, MachineInv
  <2>2. Instruction(v) /\ Moves(v) = 0
    BY <2>1 DEF Instruction, Moves, CellOf
  <2> HIDE DEF v
  <2>3. Moving(<< v >>, 0)
    BY <2>2, MovingOne
  <2> QED
    BY <1>2, <2>3, EmitMoved, EmitCalm DEF Still
<1> HIDE DEF u, v
<1>6. PICK b, n, at, from, to : Still(be, b) /\ be' = Settled(b, n, at, from, to)
  BY <1>2, <1>3, <1>4, <1>5, PlainStill, FailStill
<1>7. Still(be, be')
  BY <1>6, SettledStill, StillStill DEF Still
<1> QED
  BY <1>1, <1>7, PopProcessor

LEMMA EndStoreProcessor ==
  ASSUME TypeInv, ProcessorInv, EndStore
  PROVE  ProcessorInv'
<1> DEFINE k == Len(vals)
<1>1. Running /\ ctl' = Pop(ctl) /\ UNCHANGED cg
  BY DEF EndStore
<1>2. PICK a \in Targets(be, Top.x) : DeliverNothing(RegDealloc(RegDealloc(a, vals[k].reg), a.res), k)
  BY DEF EndStore
<1> DEFINE c == RegDealloc(a, vals[k].reg)
           d == RegDealloc(c, a.res)
<1>3. Still(be, a)
  BY <1>2, TargetStill DEF TypeInv
<1>4. Still(be, c)
  BY <1>3, DeallocStill, StillStill DEF Still
<1> HIDE DEF c
<1>5. Still(be, d)
  BY <1>4, DeallocStill, StillStill DEF Still
<1>6. DeliverNothing(d, k)
  BY <1>2 DEF c
<1> HIDE DEF d
<1>7. Still(be, be')
  BY <1>5, <1>6, DeliverNothingStill
<1> QED
  BY <1>1, <1>7, PopProcessor

LEMMA StatementProcessor ==
  ASSUME TypeInv, ProcessorInv, Statement \/ LastStatement
  PROVE  ProcessorInv'
<1> DEFINE r == Last(vals).reg
           d == RegDealloc(be, r)
           i == << "mov", r, RAX >>
           e == Emit(d, << i >>)
           f == [Top EXCEPT !.n = @ + 1]
           g == [Top EXCEPT !.n = @ + 1, !.ph = "ret", !.val = Last(vals).val]
<1>1. Running /\ Top.k \in {"prog", "func"} /\ BodyOK(Top) /\ UNCHANGED cg
  BY TopFacts, FrameKinds DEF TypeInv, Statement, LastStatement, InBody
<1>2. f.k = Top.k /\ g.k = Top.k /\ f.saved = Top.saved /\ g.saved = Top.saved
  BY <1>1 DEF BodyOK
<1>3. /\ Become(f) \/ Become(g)
      /\ \E k, at, from, to : Consume(d, k, at, from, to) \/ Consume(e, k, at, from, to)
  BY DEF Statement, LastStatement, SetFuncRetVal
<1>4. i[1] \in Plain
  BY DEF Plain
<1>5. Still(be, d)
  BY DeallocStill DEF TypeInv
<1> HIDE DEF d, f, g, i
<1>6. Still(be, e)
  BY <1>4, <1>5, PlainStill, StillStill DEF Still
<1> HIDE DEF e
<1>7. Still(be, be')
  BY <1>3, <1>5, <1>6, ConsumeStill
<1>8. FramesInv'
  BY <1>2, <1>3, FramesBecome DEF ProcessorInv
<1> QED
  BY <1>1, <1>7, <1>8, MachineStill DEF ProcessorInv

-----------------------------------------------------------------------------
(* A local variable: the stack grows by the word local_offset is lowered by. *)

LEMMA MovingSub ==
  ASSUME NEW n \in Int
  PROVE  Moving(<< << "subsp", n >> >>, n)
<1> DEFINE i == << "subsp", n >>
<1>1. Instruction(i) /\ Moves(i) = n
  BY StackMoves
<1> HIDE DEF i
<1>2. Moving(<< i >>, n)
  BY <1>1, MovingOne
<1> QED
  BY <1>2 DEF i

LEMMA DeclareProcessor ==
  ASSUME TypeInv, ProcessorInv, NEW x, Declare(x)
  PROVE  ProcessorInv'
<1> DEFINE n    == Len(vals) + 1
           off  == cg.off - 1
           env  == SetEnv(cg.env, x, off)
           at   == CellOf(GetEnv(env, x))
           b    == AllocateOnStack(be, 1)
           c    == IF b.live THEN [b EXCEPT !.cpu = SetCell(@, at, Var(x))] ELSE b
<1>1. Running /\ UNCHANGED ctl /\ BackendOK(be)
  BY DEF Declare, Inner, TypeInv
<1>2. FramesInv'
  BY <1>1 DEF ProcessorInv, FramesInv
<1>3. \/ DeliverNothing(be, n) /\ UNCHANGED cg
      \/ /\ x \in Locals /\ DeliverNothing(c, n)
         /\ cg' = [cg EXCEPT !.off = off, !.env = env, !.scope = @ \cup {x}]
  BY DEF Declare
<1>4. CASE DeliverNothing(be, n) /\ UNCHANGED cg
  BY <1>1, <1>4, StillSame, DeliverNothingStill, StayProcessor
<1>5. CASE /\ x \in Locals /\ DeliverNothing(c, n)
           /\ cg' = [cg EXCEPT !.off = off, !.env = env, !.scope = @ \cup {x}]
  <2>1. cg.off \in Int /\ off \in Int /\ x \in Names
    BY <1>5 DEF TypeInv, ContextOK, Names
  <2>2. cg'.off = off /\ cg'.env = env
    BY <1>5 DEF TypeInv, ContextOK
  <2>3. EnvOK(env) /\ IsBound(env, x)
    BY <2>1, SetOffset DEF ProcessorInv, MachineInv
  <2> HIDE DEF env
  <2>4. at \in Int
    BY <2>3, GetOffset DEF CellOf
  <2>6. Moved(be, b, 1) /\ BackendOK(b) /\ Calm(be, b)
    BY <1>1, MovingSub, EmitMoved, EmitCalm DEF AllocateOnStack
  <2> HIDE DEF b, at
  <2>7. BackendOK(c) /\ Calm(b, c)
    BY <2>6, CPUCalm, CalmTwice DEF Calm
  <2>8. c.live = b.live /\ (c.cpu = b.cpu \/ c.cpu = SetCell(b.cpu, at, Var(x)))
    BY <2>6 DEF BackendOK, BackendFields
  <2> HIDE DEF c
  <2>9. MachineOK(c.cpu) /\ c.cpu.sp = b.cpu.sp
    BY <2>4, <2>6, <2>8, CellMachine DEF Moved, ProcessorInv, MachineInv
  <2>10. Still(c, be')
    BY <1>5, <2>7, SettledStill DEF DeliverNothing
  <2>11. MachineOK(be'.cpu) /\ be'.live = be.live /\ Calm(be, be')
    BY <2>6, <2>7, <2>8, <2>9, <2>10, CalmTwice DEF Still, Moved
  <2>12. be.live => be'.cpu.sp = be.cpu.sp + 1
    <3>1. be.live => be'.cpu.sp = c.cpu.sp + 0 /\ b.cpu.sp = be.cpu.sp + 1
      BY <2>6, <2>8, <2>9, <2>10 DEF Still, Moved, ProcessorInv, MachineInv
    <3>2. be.cpu.sp \in Int
      BY MachineSp DEF ProcessorInv, MachineInv
    <3> QED
      BY <2>9, <3>1, <3>2
  <2>13. InCallWords(be') = InCallWords(be) /\ InCallWords(be) \in Nat
    BY <1>1, <2>11, CallWordsInt DEF Calm, InCallWords
  <2>14. Compiling
    BY <1>1 DEF Running, Compiling
  <2>15. ASSUME Simple PROVE be'.cpu.sp = InCallWords(be') - cg'.off
    <3>1. be.live = TRUE /\ be.cpu.sp = InCallWords(be) - cg.off
      BY <2>14, <2>15 DEF ProcessorInv, MachineInv
    <3> QED
      BY <2>1, <2>2, <2>12, <2>13, <3>1
  <2>16. MachineInv'
    BY <2>2, <2>3, <2>11, <2>15 DEF ProcessorInv, MachineInv
  <2> QED
    BY <1>2, <2>16 DEF ProcessorInv
<1> QED
  BY <1>3, <1>4, <1>5

-----------------------------------------------------------------------------
(* Functions: the processor follows the invocation, then the caller again. *)

LEMMA InvokedMachine ==
  ASSUME NEW argc \in 0 .. MaxArgs
  PROVE  MachineOK(InvokedCPU(argc)) /\ InvokedCPU(argc).sp = 0
<1> DEFINE c == InitCPU(Globals)
           pushed == [j \in 1 .. argc |-> Var(Params[argc - j + 1])]
           s == [k \in -(argc + 1) .. -2 |-> pushed[-k - 1]]
<1>1. MachineOK(c) /\ c.sp = 0
  BY DEF InitCPU, MachineOK, MachineFields, CPUTypeOK
<1>2. InvokedCPU(argc) = [c EXCEPT !.stack = s]
  BY DEF InvokedCPU
<1>3. \A k \in DOMAIN s : k \in Int
  OBVIOUS
<1> HIDE DEF c, s
<1> QED
  BY <1>1, <1>2, <1>3 DEF MachineOK, MachineFields, CPUTypeOK

\* The prologue makes room for the words the initial offset stands for.
LEMMA HeaderMoved ==
  ASSUME NEW b, BackendOK(b)
  PROVE  /\ Moved(b, FuncHeader(b, InitialOffset), 4)
         /\ BackendOK(FuncHeader(b, InitialOffset)) /\ Calm(b, FuncHeader(b, InitialOffset))
<1> DEFINE n == -InitialOffset
<1>0. InitialOffset \in Int /\ InitialOffset + 4 = 0
  BY DEF InitialOffset
<1>1. n \in Int /\ n = 4
  <2> DEFINE m == InitialOffset
  <2> HIDE DEF m
  <2>1. m \in Int /\ m + 4 = 0
    BY <1>0 DEF m
  <2>2. -m \in Int /\ -m = 4
    BY <2>1
  <2> QED
    BY <2>2 DEF m
<1>2. FuncHeader(b, InitialOffset) = Emit(b, << << "subsp", n >> >>)
  BY DEF FuncHeader
<1> HIDE DEF n
<1>3. Moving(<< << "subsp", n >> >>, n)
  BY <1>1, MovingSub
<1> QED
  BY <1>1, <1>2, <1>3, EmitMoved, EmitCalm

LEMMA BeginFuncProcessor ==
  ASSUME TypeInv, CallInv, ProcessorInv, NEW argc \in 0 .. MaxArgs, BeginFunc(argc)
  PROVE  ProcessorInv'
<1> DEFINE save == [cg |-> cg, cpu |-> be.cpu, live |-> be.live]
           f == Body("func", argc, save)
           p == InvokedCPU(argc)
           b == [be EXCEPT !.cpu = p, !.live = TRUE]
<1>1. Running /\ Push(f) /\ f.k = "func" /\ f.saved = save
  BY DEF BeginFunc, Inner, Body
<1>2. BackendOK(b) /\ Calm(be, b) /\ b.cpu = p /\ b.live = TRUE
  BY ContextCalm DEF TypeInv, BackendOK, BackendFields
<1>3. be' = FuncHeader(b, InitialOffset) /\ cg'.env = ParamEnv(argc) /\ cg'.off = InitialOffset
  BY DEF BeginFunc
<1>4. /\ save.cpu = be.cpu /\ save.live = be.live /\ save.cg.env = cg.env /\ save.cg.off = cg.off
  OBVIOUS
<1>5. Compiling /\ cg.off \in Int
  BY <1>1 DEF Running, Compiling, TypeInv, ContextOK
<1>6. Top.k \notin {"call", "binop"}
  BY DEF BeginFunc, StmtWanted, InBody, InIf
<1>7. Simple => CallsOf(ctl) = {}
  BY <1>6, NoOpenCall DEF ProcessorInv
<1>8. CallsOf(ctl) = {} => InCallWords(be) = 0
  BY <1>5 DEF CallInv, CallsMatch, NoCall, InCallWords
<1> HIDE DEF f, b, p, save
<1>9. SavedOK(f)
  BY <1>1, <1>4 DEF SavedOK, ProcessorInv, MachineInv
<1>10. Simple => Straight(f)
  BY <1>1, <1>4, <1>5, <1>7, <1>8 DEF Straight, ProcessorInv, MachineInv
<1>11. FramesInv'
  BY <1>1, <1>7, <1>9, <1>10, FramesPush DEF ProcessorInv
<1>12. Moved(b, be', 4) /\ Calm(b, be')
  BY <1>2, <1>3, HeaderMoved
<1>13. MachineOK(p) /\ p.sp = 0
  BY InvokedMachine DEF p
<1>14. MachineOK(be'.cpu) /\ be'.live = TRUE /\ be'.cpu.sp = 4
  BY <1>2, <1>12, <1>13 DEF Moved
<1>15. InCallWords(be') = InCallWords(be)
  BY <1>2, <1>12, CalmTwice DEF Calm, InCallWords
<1>16. MachineInv'
  BY <1>3, <1>7, <1>8, <1>14, <1>15, ParamOffsets DEF MachineInv, InitialOffset
<1> QED
  BY <1>11, <1>16 DEF ProcessorInv

LEMMA EndFuncProcessor ==
  ASSUME TypeInv, CallInv, ProcessorInv, EndFunc
  PROVE  ProcessorInv'
<1> DEFINE c == [be EXCEPT !.cpu = Top.saved.cpu, !.live = Top.saved.live]
           b == Load(c, "lea", Code)
           k == Len(vals) + 1
<1>1. Running /\ Top.k = "func" /\ ctl' = Pop(ctl) /\ cg' = Top.saved.cg
  BY DEF EndFunc
<1>2. Top.saved.live \in BOOLEAN /\ ContextOK(Top.saved.cg)
  BY <1>1, TopFacts, FrameKinds DEF TypeInv, BodyOK
<1>3. SavedOK(Top) /\ (Simple => Straight(Top))
  BY TopFacts DEF TypeInv, ProcessorInv, FramesInv, Top
<1>4. BackendOK(c) /\ Calm(be, c) /\ c.cpu = Top.saved.cpu /\ c.live = Top.saved.live
  BY <1>2, ContextCalm DEF TypeInv, BackendOK, BackendFields
<1>5. "lea" \in Plain
  BY DEF Plain
<1>6. Deliver(b, k, Code)
  BY DEF EndFunc, c
<1> HIDE DEF c
<1>7. Still(c, b)
  BY <1>4, <1>5, LoadStill
<1> HIDE DEF b, k
<1>8. Still(c, be')
  BY <1>6, <1>7, SettledStill, StillStill DEF Deliver, Still
<1>9. Compiling
  BY <1>1 DEF Running, Compiling
<1>10. Simple => InCallWords(be) = 0
  BY <1>1, <1>9, NoOpenCall DEF ProcessorInv, CallInv, CallsMatch, NoCall, InCallWords
<1>11. InCallWords(be') = InCallWords(be)
  BY <1>4, <1>8 DEF Still, Calm, InCallWords
<1>12. MachineOK(c.cpu) /\ c.cpu.sp \in Int /\ EnvOK(cg'.env) /\ cg'.off \in Int
  BY <1>1, <1>2, <1>3, <1>4, MachineSp DEF SavedOK, ContextOK
<1>13. ASSUME Simple PROVE be'.live = TRUE /\ be'.cpu.sp = InCallWords(be') - cg'.off
  <2>1. c.live = TRUE /\ c.cpu.sp = -cg'.off
    BY <1>1, <1>3, <1>4, <1>13 DEF Straight
  <2> QED
    BY <1>8, <1>10, <1>11, <1>12, <1>13, <2>1 DEF Still, Moved
<1>14. MachineOK(be'.cpu)
  BY <1>8, <1>12 DEF Still, Moved
<1>15. MachineInv'
  BY <1>12, <1>13, <1>14 DEF MachineInv
<1> QED
  BY <1>1, <1>15, FramesPop DEF ProcessorInv

-----------------------------------------------------------------------------
(* The calls: what setup and the arguments push, the call and cleanup take. *)

LEMMA SetupMoved ==
  ASSUME NEW b, BackendOK(b), SetupFuncCall(b).err = "none"
  PROVE  LET c == SetupFuncCall(b)
         IN  Moved(b, c, IF c.raxInUse THEN 1 ELSE 0)
<1> DEFINE inUse == RAX \in b.used
           a == [b EXCEPT !.raxInUse = inUse]
           code == IF inUse THEN << << "push", RAX >> >> ELSE << >>
           d == IF inUse THEN 1 ELSE 0
<1>1. b.call = "NONE"
  BY SetupCalls
<1>2. SetupFuncCall(b) = Emit(a, code)
  BY <1>1 DEF SetupFuncCall
<1>3. d \in Int /\ Moving(code, d)
  <2>1. Moving(<< << "push", RAX >> >>, 1) /\ Moving(<< >>, 0)
    BY MovingPushPop, MovingNone
  <2>2. \/ code = << << "push", RAX >> >> /\ d = 1
        \/ code = << >> /\ d = 0
    OBVIOUS
  <2> HIDE DEF code, d
  <2> QED
    BY <2>1, <2>2
<1>4. inUse \in BOOLEAN
  OBVIOUS
<1> HIDE DEF inUse
<1>5. BackendOK(a) /\ a.raxInUse = inUse /\ a.cpu = b.cpu /\ a.live = b.live
  BY <1>4 DEF BackendOK, BackendFields
<1> HIDE DEF a, code
<1>6. Moved(a, Emit(a, code), d) /\ Emit(a, code).raxInUse = inUse
  BY <1>3, <1>5, EmitMoved, EmitKeeps DEF SameCall
<1>7. Moved(b, Emit(a, code), d)
  BY <1>5, <1>6 DEF Moved
<1> QED
  BY <1>2, <1>6, <1>7

LEMMA SetupWhole ==
  ASSUME NEW b, Whole(b)
  PROVE  MachineOK(SetupFuncCall(b).cpu) /\ SetupFuncCall(b).live = b.live
<1>1. CASE b.call = "NONE"
  <2> DEFINE inUse == RAX \in b.used
             a == [b EXCEPT !.raxInUse = inUse]
             code == IF inUse THEN << << "push", RAX >> >> ELSE << >>
  <2>1. SetupFuncCall(b) = Emit(a, code)
    BY <1>1 DEF SetupFuncCall
  <2>2. inUse \in BOOLEAN
    OBVIOUS
  <2>3. \E d \in Int : Moving(code, d)
    <3>1. Moving(<< << "push", RAX >> >>, 1) /\ Moving(<< >>, 0)
      BY MovingPushPop, MovingNone
    <3>2. code = << << "push", RAX >> >> \/ code = << >>
      OBVIOUS
    <3>3. 1 \in Int /\ 0 \in Int
      OBVIOUS
    <3> HIDE DEF code
    <3> QED
      BY <3>1, <3>2, <3>3
  <2> HIDE DEF inUse
  <2>4. BackendOK(a) /\ a.cpu = b.cpu /\ a.live = b.live
    BY <2>2 DEF Whole, BackendOK, BackendFields
  <2> HIDE DEF a, code
  <2>5. MachineOK(Emit(a, code).cpu) /\ Emit(a, code).live = b.live
    BY <2>3, <2>4, EmitMoved DEF Whole, Moved
  <2> QED
    BY <2>1, <2>5
<1>2. CASE b.call # "NONE"
  <2>1. SetupFuncCall(b) = Fail(b, "call_in_progress")
    BY <1>2 DEF SetupFuncCall
  <2> QED
    BY <2>1, FailMoved DEF Whole, Moved
<1> QED
  BY <1>1, <1>2

LEMMA BeginCallProcessor ==
  ASSUME TypeInv, CallInv, ProcessorInv, NEW ext, NEW argc, BeginCall(ext, argc)
  PROVE  ProcessorInv'
<1> DEFINE f == CallFrame(ext, argc)
<1>1. Running /\ be' = SetupFuncCall(be) /\ Push(f) /\ f.k = "call" /\ UNCHANGED cg
  BY DEF BeginCall, Inner, CallFrame
<1>2. Whole(be) /\ Compiling /\ cg.off \in Int
  BY <1>1, WholeNow DEF ProcessorInv, Running, Compiling, TypeInv, ContextOK
<1>3. Simple => CallsOf(ctl) = {}
  BY SeqFacts DEF BeginCall, Simple, Calling, CallsOf, TypeInv, ControlOK
<1> HIDE DEF f
<1>4. FramesInv'
  BY <1>1, <1>3, FramesPush DEF ProcessorInv, SavedOK, Straight
<1>5. MachineOK(be'.cpu) /\ be'.live = be.live
  BY <1>1, <1>2, SetupWhole
<1>6. ASSUME Simple, be'.err = "none"
      PROVE  be'.cpu.sp = InCallWords(be') - cg.off
  <2>1. Moved(be, be', IF be'.raxInUse THEN 1 ELSE 0) /\ be'.call = "NONE"
    BY <1>1, <1>2, <1>6, SetupMoved, SetupCalls DEF Whole
  <2>2. be.live = TRUE /\ be.cpu.sp = 0 - cg.off
    BY <1>2, <1>3, <1>6 DEF ProcessorInv, MachineInv, CallInv, CallsMatch, NoCall, InCallWords
  <2> QED
    BY <1>2, <2>1, <2>2 DEF Moved, Whole, InCallWords
<1>7. MachineInv'
  BY <1>1, <1>5, <1>6 DEF ProcessorInv, MachineInv, Compiling
<1> QED
  BY <1>4, <1>7 DEF ProcessorInv

LEMMA PreparedMoved ==
  ASSUME NEW b, BackendOK(b), NEW kind \in {"EXTERNAL", "INTERNAL"}
  PROVE  LET c == Prepared(b, kind)
         IN  Moved(b, c, 0) /\ BackendOK(c) /\ c.raxInUse = b.raxInUse
<1>1. CASE b.call \in {"NONE", kind}
  <2>1. Prepared(b, kind) = [b EXCEPT !.call = kind]
    BY <1>1 DEF Prepared
  <2>2. /\ Prepared(b, kind).live = b.live /\ Prepared(b, kind).cpu = b.cpu
        /\ Prepared(b, kind).raxInUse = b.raxInUse
    BY <2>1 DEF BackendOK, BackendFields
  <2> QED
    BY <2>2, PreparedOK, MovedSame
<1>2. CASE b.call \notin {"NONE", kind}
  <2>1. Prepared(b, kind) = Fail(b, "wrong_call_type") /\ "wrong_call_type" \in Errors
    BY <1>2 DEF Prepared, Errors
  <2> QED
    BY <2>1, PreparedOK, FailMoved, FailKeeps DEF SameCall
<1> QED
  BY <1>1, <1>2

\* The back end that has counted one more argument.
Counted(b, kind) == [Prepared(b, kind) EXCEPT !.nargs = @ + 1]

LEMMA ArgMoved ==
  ASSUME NEW b, BackendOK(b), NEW kind \in {"EXTERNAL", "INTERNAL"},
         NEW code, NEW d \in Int, Moving(code, d),
         NEW c, c = Emit(Counted(b, kind), code)
  PROVE  Moved(b, c, d) /\ c.raxInUse = b.raxInUse
<1> DEFINE p == Prepared(b, kind)
           q == [p EXCEPT !.nargs = @ + 1]
<1>0. c = Emit(q, code)
  BY DEF Counted
<1>1. Moved(b, p, 0) /\ BackendOK(p) /\ p.raxInUse = b.raxInUse
  BY PreparedMoved
<1> HIDE DEF p
<1>2. BackendOK(q) /\ q.live = p.live /\ q.cpu = p.cpu /\ q.raxInUse = p.raxInUse
  BY <1>1 DEF BackendOK, BackendFields
<1> HIDE DEF q
<1>3. Moved(q, c, d) /\ c.raxInUse = q.raxInUse
  BY <1>0, <1>2, EmitMoved, EmitKeeps DEF SameCall
<1>4. Moved(p, q, 0)
  BY <1>2, MovedSame
<1>5. Moved(b, q, 0)
  BY <1>1, <1>4, StillTwice
<1>6. Moved(b, c, 0 + d)
  BY <1>3, <1>5, MovedTwice
<1> QED
  BY <1>1, <1>2, <1>3, <1>6

LEMMA CallArgProcessor ==
  ASSUME TypeInv, CallInv, ProcessorInv, CallArg
  PROVE  ProcessorInv'
<1> DEFINE k == Len(vals)
           r == vals[k].reg
           i == << "mov", r, ArgRegs[be.nargs + 1] >>
           b == FuncArg(be, r)
           e == ExtFuncArg(be, r)
           d == RegDealloc(b, r)
           f == [Top EXCEPT !.n = @ + 1]
           w == IF Top.ext THEN 0 ELSE 1
<1>1. Running /\ Top.k = "call" /\ Become(f) /\ UNCHANGED cg
  BY DEF CallArg
<1>2. BackendOK(be) /\ Compiling /\ cg.off \in Int
  BY <1>1 DEF TypeInv, Running, Compiling, ContextOK
<1>3. f.k = Top.k
  BY <1>1, TopFacts, FrameKinds DEF TypeInv, CallFrameOK
<1>4. Describes(be, Top)
  BY <1>1, <1>2, CallsAreNumbers DEF CallInv, CallsMatch
<1>5. i[1] \in Plain
  BY DEF Plain
<1>6. Moving(<< << "push", r >> >>, 1) /\ Moving(<< i >>, 0)
  <2> HIDE DEF i
  <2> QED
    BY <1>5, MovingPushPop, MovingOne, PlainMoves
<1>7. /\ Moved(be, b, 1) /\ b.raxInUse = be.raxInUse
      /\ BackendOK(b) /\ b.nargs = be.nargs + 1 /\ (b.err = "none" => b.call = "INTERNAL")
      /\ Moved(be, e, 0) /\ e.raxInUse = be.raxInUse
      /\ BackendOK(e) /\ e.nargs = be.nargs + 1 /\ (e.err = "none" => e.call = "EXTERNAL")
  <2> DEFINE push == << << "push", r >> >>
             move == << i >>
  <2>1. b = Emit(Counted(be, "INTERNAL"), push)
    BY DEF FuncArg, Counted
  <2>2. e = Emit(Counted(be, "EXTERNAL"), move)
    BY DEF ExtFuncArg, Counted
  <2>5. Moving(push, 1) /\ Moving(move, 0)
    BY <1>6
  <2> HIDE DEF b, e, push, move
  <2>3. /\ Moved(be, b, 1) /\ b.raxInUse = be.raxInUse
        /\ BackendOK(b) /\ b.nargs = be.nargs + 1 /\ (b.err = "none" => b.call = "INTERNAL")
    <3>1. Moved(be, b, 1) /\ b.raxInUse = be.raxInUse
      BY <1>2, <2>1, <2>5, ArgMoved
    <3>2. BackendOK(b) /\ b.nargs = be.nargs + 1 /\ (b.err = "none" => b.call = "INTERNAL")
      BY <1>2, <2>1, ArgCalls DEF Counted
    <3> QED
      BY <3>1, <3>2
  <2>4. /\ Moved(be, e, 0) /\ e.raxInUse = be.raxInUse
        /\ BackendOK(e) /\ e.nargs = be.nargs + 1 /\ (e.err = "none" => e.call = "EXTERNAL")
    <3>1. Moved(be, e, 0) /\ e.raxInUse = be.raxInUse
      BY <1>2, <2>2, <2>5, ArgMoved
    <3>2. BackendOK(e) /\ e.nargs = be.nargs + 1 /\ (e.err = "none" => e.call = "EXTERNAL")
      BY <1>2, <2>2, ArgCalls DEF Counted
    <3> QED
      BY <3>1, <3>2
  <2> QED
    BY <2>3, <2>4
<1>8. /\ Top.ext => \E n, at, from, to : be' = Settled(e, n, at, from, to)
      /\ ~Top.ext => \E n, at, from, to : be' = Settled(d, n, at, from, to)
  BY DEF CallArg, Consume
<1> HIDE DEF b, e, f
<1>9. BackendOK(d) /\ Calm(b, d) /\ d.err = b.err /\ Moved(b, d, 0)
  BY <1>7, DeallocCalm, DeallocMoved
<1> HIDE DEF d
<1>10. /\ Moved(be, be', w) /\ be'.raxInUse = be.raxInUse /\ be'.nargs = be.nargs + 1
       /\ be'.err = "none" => be'.call = IF Top.ext THEN "EXTERNAL" ELSE "INTERNAL"
  <2>1. CASE Top.ext
    <3>1. Still(e, be') /\ be'.err = e.err
      BY <1>7, <1>8, <2>1, SettledStill, SettledCalm
    <3>2. Moved(be, be', 0 + 0)
      BY <1>7, <3>1, MovedTwice DEF Still
    <3> QED
      BY <1>7, <2>1, <3>1, <3>2 DEF Still, Calm
  <2>2. CASE ~Top.ext
    <3>1. Still(d, be') /\ be'.err = d.err
      BY <1>8, <1>9, <2>2, SettledStill, SettledCalm
    <3>2. Moved(b, be', 0)
      BY <1>9, <3>1, StillTwice DEF Still
    <3>3. Moved(be, be', 1 + 0)
      BY <1>7, <3>2, MovedTwice
    <3> QED
      BY <1>7, <1>9, <2>2, <3>1, <3>3 DEF Still, Calm
  <2> QED
    BY <2>1, <2>2
<1>11. FramesInv'
  BY <1>1, <1>3, FramesBecome DEF ProcessorInv
<1>12. MachineOK(be'.cpu) /\ be'.live = be.live
  BY <1>10 DEF Moved, ProcessorInv, MachineInv
<1>13. ASSUME Simple, be'.err = "none" PROVE be'.cpu.sp = InCallWords(be') - cg.off
  <2>1. be.live = TRUE /\ be.cpu.sp = InCallWords(be) - cg.off /\ MachineOK(be.cpu)
    BY <1>2, <1>13 DEF ProcessorInv, MachineInv
  <2>2. be'.cpu.sp = be.cpu.sp + w /\ w \in Int
    BY <1>10, <2>1 DEF Moved
  <2>3. be.nargs \in Nat /\ be.nargs = Top.n /\ be.raxInUse \in BOOLEAN
        /\ be.call = IF Top.n = 0 THEN "NONE" ELSE IF Top.ext THEN "EXTERNAL" ELSE "INTERNAL"
    BY <1>2, <1>4 DEF Describes, KindOfCall, BackendOK
  <2>4. InCallWords(be') = InCallWords(be) + w
    <3>1. CASE Top.ext
      BY <1>10, <1>13, <2>3, <3>1 DEF InCallWords
    <3>2. CASE ~Top.ext /\ Top.n = 0
      BY <1>10, <1>13, <2>3, <3>2 DEF InCallWords
    <3>3. CASE ~Top.ext /\ Top.n # 0
      BY <1>10, <1>13, <2>3, <3>3 DEF InCallWords
    <3> QED
      BY <3>1, <3>2, <3>3
  <2>5. InCallWords(be) \in Nat
    BY <1>2, CallWordsInt
  <2> HIDE DEF w
  <2> QED
    BY <1>2, <2>1, <2>2, <2>4, <2>5
<1>14. MachineInv'
  BY <1>1, <1>12, <1>13 DEF ProcessorInv, MachineInv, Compiling
<1> QED
  BY <1>11, <1>14 DEF ProcessorInv

\* The call itself leaves the stack as it is, and so does taking its result.
LEMMA CallMoved ==
  ASSUME NEW b, BackendOK(b), NEW kind \in {"EXTERNAL", "INTERNAL"}, NEW i, i[1] \in Plain,
         NEW c, c = CopyRetVal(Emit(Prepared(b, kind), << i >>))
  PROVE  /\ BackendOK(c) /\ Moved(b, c, 0) /\ c.raxInUse = b.raxInUse /\ c.nargs = b.nargs
         /\ c.err = "none" => c.call = kind
<1> DEFINE p == Prepared(b, kind)
           e == Emit(p, << i >>)
<1>1. /\ Moved(b, p, 0) /\ BackendOK(p) /\ p.raxInUse = b.raxInUse
      /\ p.nargs = b.nargs /\ (p.err = "none" => p.call = kind)
  BY PreparedMoved, PreparedCalls
<1> HIDE DEF p
<1>2. Still(p, e) /\ e.err = p.err
  BY <1>1, PlainStill, EmitKeeps
<1> HIDE DEF e
<1>3. c = CopyRetVal(e) /\ "mov" \in Plain
  BY DEF e, p, Plain
<1>4. Still(e, c) /\ (c.err = "none" => e.err = "none")
  <2>1. BackendOK(e)
    BY <1>2 DEF Still
  <2>2. CASE e.raxInUse
    BY <1>3, <2>1, <2>2, LoadStill, LoadCalm DEF CopyRetVal
  <2>3. CASE ~e.raxInUse
    <3>1. c = Returning(e, RAX)
      BY <1>3, <2>3 DEF CopyRetVal
    <3> QED
      BY <2>1, <3>1, ReturningMoved, ReturningReturns, RegsAre DEF Still, SameCall, Calm
  <2> QED
    BY <2>2, <2>3
<1>5. Moved(b, e, 0)
  BY <1>1, <1>2, StillTwice DEF Still
<1>6. Moved(b, c, 0)
  BY <1>4, <1>5, StillTwice DEF Still
<1> QED
  BY <1>1, <1>2, <1>4, <1>6 DEF Still, Calm

LEMMA MovingAdd ==
  ASSUME NEW n \in Int
  PROVE  Moving(<< << "addsp", n >> >>, -n)
<1> DEFINE i == << "addsp", n >>
<1>1. Instruction(i) /\ Moves(i) = -n
  BY StackMoves
<1> HIDE DEF i
<1>2. Moving(<< i >>, -n)
  BY <1>1, MovingOne
<1> QED
  BY <1>2 DEF i

\* cleanup takes what the call being prepared has pushed.
LEMMA CleanupMoved ==
  ASSUME NEW b, BackendOK(b)
  PROVE  Moved(b, Cleanup(b), -InCallWords(b)) /\ Cleanup(b).err = b.err
<1> DEFINE args == b.call = "INTERNAL" /\ b.nargs > 0
           drop == IF args THEN << << "addsp", b.nargs >> >> ELSE << >>
           pop  == IF b.raxInUse THEN << << "pop", RAX >> >> ELSE << >>
           m == IF args THEN -b.nargs ELSE 0
           n == IF b.raxInUse THEN -1 ELSE 0
           e == Emit(b, drop \o pop)
<1>1. b.nargs \in Int /\ b.nargs >= 0 /\ b.raxInUse \in BOOLEAN
  BY DEF BackendOK
<1>2. m \in Int /\ n \in Int /\ m + n = -InCallWords(b)
  BY <1>1 DEF InCallWords
<1>3. Moving(drop, m) /\ Moving(pop, n)
  <2>1. Moving(<< << "addsp", b.nargs >> >>, -b.nargs) /\ Moving(<< >>, 0)
    BY <1>1, MovingAdd, MovingNone
  <2>2. Moving(<< << "pop", RAX >> >>, -1)
    BY MovingPushPop
  <2>3. \/ drop = << << "addsp", b.nargs >> >> /\ m = -b.nargs
        \/ drop = << >> /\ m = 0
    OBVIOUS
  <2>4. \/ pop = << << "pop", RAX >> >> /\ n = -1
        \/ pop = << >> /\ n = 0
    OBVIOUS
  <2> HIDE DEF drop, pop, m, n
  <2> QED
    BY <2>1, <2>2, <2>3, <2>4
<1>4. Cleanup(b) = [e EXCEPT !.raxInUse = FALSE, !.nargs = 0, !.call = "NONE"]
  BY DEF Cleanup
<1> HIDE DEF drop, pop, m, n
<1>5. Moving(drop \o pop, m + n)
  BY <1>2, <1>3, MovingConcat
<1>6. Moved(b, e, m + n) /\ BackendOK(e) /\ e.err = b.err
  <2>1. m + n \in Int
    BY <1>2
  <2> QED
    BY <1>5, <2>1, EmitMoved, EmitKeeps
<1> HIDE DEF e
<1>7. Cleanup(b).live = e.live /\ Cleanup(b).cpu = e.cpu /\ Cleanup(b).err = e.err
  BY <1>4, <1>6 DEF BackendOK, BackendFields
<1> QED
  BY <1>2, <1>6, <1>7 DEF Moved

LEMMA EndCallProcessor ==
  ASSUME TypeInv, CallInv, ProcessorInv, EndCall
  PROVE  ProcessorInv'
<1> DEFINE f == Load(be, "lea", Code)
           i == << "call", f.res >>
           j == << "callext" >>
           c == FuncCall(f, f.res)
           d == IF c.res = f.res THEN c ELSE RegDealloc(c, f.res)
           e == ExtFuncCall(be)
           kind == IF Top.ext THEN "EXTERNAL" ELSE "INTERNAL"
<1>1. Running /\ Top.k = "call" /\ ctl' = Pop(ctl) /\ UNCHANGED cg
  BY DEF EndCall
<1>2. BackendOK(be) /\ Compiling /\ cg.off \in Int
  BY <1>1 DEF TypeInv, Running, Compiling, ContextOK
<1>3. Describes(be, Top)
  BY <1>1, <1>2, CallsAreNumbers DEF CallInv, CallsMatch
<1>4. i[1] \in Plain /\ j[1] \in Plain /\ "lea" \in Plain
  BY DEF Plain
<1>5. c = CopyRetVal(Emit(Prepared(f, "INTERNAL"), << i >>))
  BY DEF FuncCall
<1>6. e = CopyRetVal(Emit(Prepared(be, "EXTERNAL"), << j >>))
  BY DEF ExtFuncCall
<1>7. \E x, y : /\ \/ ~Top.ext /\ x = d /\ y = Cleanup(x)
                   \/ Top.ext /\ x = e /\ y = Returning(Cleanup(x), RAX)
                /\ \E n, at, from, to : be' = Settled(y, n, at, from, to)
  BY DEF EndCall, Deliver
<1> HIDE DEF f, i, j
<1>8. Still(be, f)
  BY <1>2, <1>4, LoadStill DEF f
<1> HIDE DEF c, e
<1>9. /\ BackendOK(c) /\ Moved(f, c, 0) /\ c.raxInUse = f.raxInUse /\ c.nargs = f.nargs
      /\ c.err = "none" => c.call = "INTERNAL"
  BY <1>4, <1>5, <1>8, CallMoved DEF Still
<1>10. /\ BackendOK(e) /\ Moved(be, e, 0) /\ e.raxInUse = be.raxInUse /\ e.nargs = be.nargs
       /\ e.err = "none" => e.call = "EXTERNAL"
  BY <1>2, <1>4, <1>6, CallMoved
<1>11. Still(c, d) /\ d.err = c.err
  BY <1>9, DeallocStill, DeallocCalm, StillSame
<1> HIDE DEF d
<1>12. /\ BackendOK(d) /\ Moved(be, d, 0) /\ d.raxInUse = be.raxInUse /\ d.nargs = be.nargs
       /\ d.err = "none" => d.call = "INTERNAL"
  <2>1. Moved(be, c, 0)
    BY <1>8, <1>9, StillTwice DEF Still
  <2>2. Moved(be, d, 0)
    BY <1>11, <2>1, StillTwice DEF Still
  <2> QED
    BY <1>8, <1>9, <1>11, <2>2 DEF Still, Calm
<1>13. PICK x, y :
         /\ BackendOK(x) /\ Moved(be, x, 0) /\ x.raxInUse = be.raxInUse /\ x.nargs = be.nargs
         /\ x.err = "none" => x.call = kind
         /\ y = Cleanup(x) \/ y = Returning(Cleanup(x), RAX)
         /\ \E n, at, from, to : be' = Settled(y, n, at, from, to)
  BY <1>7, <1>10, <1>12
<1> DEFINE z == Cleanup(x)
<1>14. BackendOK(z) /\ NoCall(z) /\ z.err = x.err /\ Moved(x, z, -InCallWords(x))
  BY <1>13, CleanupOK, CleanupMoved DEF NoCall
<1> HIDE DEF z
<1>15. Still(z, y) /\ y.err = z.err
  BY <1>13, <1>14, StillSame, ReturningMoved, ReturningReturns, RegsAre DEF z, Still, SameCall, Calm
<1>16. Still(z, be') /\ be'.err = z.err
  <2>1. Still(y, be') /\ be'.err = y.err
    BY <1>13, <1>15, SettledStill, SettledCalm DEF Still
  <2> QED
    BY <1>15, <2>1, StillStill
<1>17. InCallWords(be') = 0
  BY <1>14, <1>16 DEF NoCall, Still, Calm, InCallWords
<1>18. MachineOK(be'.cpu) /\ be'.live = be.live
  BY <1>13, <1>14, <1>16 DEF Still, Moved, ProcessorInv, MachineInv
<1>19. ASSUME Simple, be'.err = "none" PROVE be'.cpu.sp = InCallWords(be') - cg.off
  <2>1. be.live = TRUE /\ be.cpu.sp = InCallWords(be) - cg.off /\ MachineOK(be.cpu)
    BY <1>2, <1>19 DEF ProcessorInv, MachineInv
  <2>2. /\ be.nargs \in Nat /\ be.nargs = Top.n /\ be.raxInUse \in BOOLEAN
        /\ be.call = IF Top.n = 0 THEN "NONE" ELSE IF Top.ext THEN "EXTERNAL" ELSE "INTERNAL"
    BY <1>2, <1>3 DEF Describes, KindOfCall, BackendOK
  <2>3. x.call = kind
    BY <1>13, <1>14, <1>16, <1>19
  <2>4. InCallWords(x) = InCallWords(be)
    BY <1>13, <2>2, <2>3 DEF InCallWords
  <2>5. InCallWords(be) \in Nat
    BY <1>2, CallWordsInt
  <2>6. /\ x.live = TRUE /\ x.cpu.sp = be.cpu.sp + 0 /\ MachineOK(x.cpu)
    BY <1>13, <2>1 DEF Moved
  <2>7. z.live = TRUE /\ z.cpu.sp = x.cpu.sp + (-InCallWords(x)) /\ MachineOK(z.cpu)
    BY <1>14, <2>6 DEF Moved
  <2>8. be'.cpu.sp = z.cpu.sp + 0
    BY <1>16, <2>7 DEF Still, Moved
  <2> HIDE DEF z
  <2> QED
    BY <1>2, <1>17, <2>1, <2>4, <2>5, <2>6, <2>7, <2>8
<1>20. MachineInv'
  BY <1>1, <1>18, <1>19 DEF ProcessorInv, MachineInv, Compiling
<1> QED
  BY <1>1, <1>20, FramesPop DEF ProcessorInv

-----------------------------------------------------------------------------
LEMMA InitProcessor == Init => ProcessorInv
<1> SUFFICES ASSUME Init PROVE ProcessorInv
  OBVIOUS
<1>1. Len(ctl) = 1 /\ ctl[1].k = "prog"
  BY DEF Init
<1>2. FramesInv
  BY <1>1 DEF FramesInv, SavedOK, Straight, Nested, CallsOf
<1> DEFINE b == InitBackend(Globals)
<1>3. /\ BackendOK(b) /\ InCallWords(b) = 0 /\ b.live = TRUE /\ b.cpu = InitCPU(Globals)
  <2>1. BackendOK(b)
    BY InitBackendOK
  <2>2. b.raxInUse = FALSE /\ b.call = "NONE" /\ b.live = TRUE /\ b.cpu = InitCPU(Globals)
    BY DEF InitBackend
  <2> HIDE DEF b
  <2> QED
    BY <2>1, <2>2 DEF InCallWords
<1>4. be = FuncHeader(b, InitialOffset) /\ cg.off = InitialOffset /\ cg.env = EmptyEnv
  BY DEF Init
<1>5. MachineOK(InitCPU(Globals)) /\ InitCPU(Globals).sp = 0
  BY DEF InitCPU, MachineOK, MachineFields, CPUTypeOK
<1> HIDE DEF b
<1>6. Moved(b, be, 4) /\ Calm(b, be)
  BY <1>3, <1>4, HeaderMoved
<1>7. MachineOK(be.cpu) /\ be.live = TRUE /\ be.cpu.sp = 4
  BY <1>3, <1>5, <1>6 DEF Moved
<1>8. InCallWords(be) = 0
  BY <1>3, <1>6 DEF Calm, InCallWords
<1>9. MachineInv
  BY <1>4, <1>7, <1>8 DEF MachineInv, EmptyEnv, EnvOK, InitialOffset
<1> QED
  BY <1>2, <1>9 DEF ProcessorInv

LEMMA NextProcessor == TypeInv /\ CallInv /\ ProcessorInv /\ [Next]_vars => ProcessorInv'
<1> SUFFICES ASSUME TypeInv, CallInv, ProcessorInv, [Next]_vars PROVE ProcessorInv'
  OBVIOUS
<1>1. CASE GenInt \/ \E x \in InScope : GenVar(x) \/ GenDeref(x) \/ GenAddr(x) \/ GenIndex(x)
  BY <1>1, LeavesProcessor
<1>2. CASE BeginIf \/ (\E op \in Ops : BeginBinop(op))
                   \/ \E x \in InScope : BeginAssign(x) \/ BeginStore(x)
  BY <1>2, BeginsProcessor
<1>3. CASE EndBinop
  BY <1>3, EndBinopProcessor
<1>4. CASE \E argc \in 0 .. MaxArgs : BeginFunc(argc)
  BY <1>4, BeginFuncProcessor
<1>5. CASE \E argc \in 0 .. MaxArgs : \E ext \in BOOLEAN : BeginCall(ext, argc)
  BY <1>5, BeginCallProcessor
<1>6. CASE CallArg \/ EndCall
  BY <1>6, CallArgProcessor, EndCallProcessor
<1>7. CASE IfCondition \/ IfStatement \/ EndThen \/ EndElse
  BY <1>7, IfConditionProcessor, IfStatementProcessor, EndThenProcessor, EndElseProcessor
<1>8. CASE \E x \in Globals \cup Locals : Declare(x)
  BY <1>8, DeclareProcessor
<1>9. CASE EndAssign \/ EndStore \/ EndFunc
  BY <1>9, EndAssignProcessor, EndStoreProcessor, EndFuncProcessor
<1>10. CASE Statement \/ LastStatement
  BY <1>10, StatementProcessor
<1>11. CASE Stopped \/ UNCHANGED vars
  BY <1>11 DEF Stopped, vars, ProcessorInv, FramesInv, MachineInv, Compiling
<1> QED
  BY <1>1, <1>2, <1>3, <1>4, <1>5, <1>6, <1>7, <1>8, <1>9, <1>10, <1>11 DEF Next

(***************************************************************************)
(* Whatever program is compiled: besides what the compiler keeps, the      *)
(* processor that follows the emitted code always has its registers, its   *)
(* globals and one stack pointer, in every function and after it.          *)
(***************************************************************************)
THEOREM TypesHold == Spec => []TypeOK
<1>1. ProcessorInv => CPUTypeOK(be.cpu)
  BY DEF ProcessorInv, MachineInv, MachineOK
<1>2. Spec => []ProcessorInv
  BY InitTypes, NextTypes, InitCalls, NextCalls, InitProcessor, NextProcessor, PTL DEF Spec
<1> QED
  BY <1>1, <1>2, TypeCorrect, PTL DEF TypeOK

(***************************************************************************)
(* Without conditions (a local declared in a body that is not executed     *)
(* moves local_offset alone) and without calls among the arguments of a    *)
(* call (the inner call forgets that the outer one has saved RAX): outside *)
(* calls the stack pointer is where local_offset says, in the program and  *)
(* in every function, whatever operators, declarations, calls and function *)
(* definitions came before.                                                *)
(***************************************************************************)
THEOREM StackAccountedHolds ==
  ASSUME Kinds \cap {"if", "nested_call"} = {}
  PROVE  Spec => []StackAccounted
<1>1. TypeInv /\ CallInv /\ ProcessorInv => StackAccounted
  <2> SUFFICES ASSUME TypeInv, CallInv, ProcessorInv, Compiling, OpenCalls = {}
               PROVE  be.cpu.sp = -cg.off
    BY DEF StackAccounted
  <2>1. CallsOf(ctl) = {}
    BY SeqFacts DEF OpenCalls, CallsOf, TypeInv, ControlOK
  <2>2. InCallWords(be) = 0
    BY <2>1 DEF CallInv, CallsMatch, NoCall, InCallWords
  <2>3. be.cpu.sp = InCallWords(be) - cg.off /\ cg.off \in Int
    BY DEF Simple, ProcessorInv, MachineInv, TypeInv, ContextOK
  <2> QED
    BY <2>2, <2>3
<1> QED
  BY <1>1, InitTypes, NextTypes, InitCalls, NextCalls, InitProcessor, NextProcessor, PTL DEF Spec
=============================================================================
