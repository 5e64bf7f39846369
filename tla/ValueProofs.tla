---------------------------- MODULE ValueProofs ----------------------------
(***************************************************************************)
(* The register pool, and the values in the registers of the compiled      *)
(* program, for programs of every size and every number of scratch         *)
(* registers.                                                              *)
(*   PoolCorrect              the registers in use are those of the        *)
(*                            pending operands (inductive: PoolInv)        *)
(*   NeverOutOfRegistersHolds operators alone never exhaust the pool       *)
(*                            (inductive: PoolInv and DepthInv)            *)
(*   NoRegisterLeaks          between statements no register is in use     *)
(*                            (inductive: NoLeak)                          *)
(*   LiveOperandsIntactHolds  every pending operand is still in its        *)
(*                            register                                     *)
(*   ReturnsLastValueHolds    the program ends with the value of its last  *)
(*                            statement in RAX                             *)
(* None of the first three is inductive by itself: all need that the       *)
(* operands an activation consumes are the topmost ones (TypeInv), the     *)
(* first two that only certain kinds of activations exist (ExprFrames,     *)
(* DepthInv), and NoRegisterLeaks counts the registers that belong to no   *)
(* result.  The last two follow from PoolInv and ValueInv:                 *)
(* LiveOperandsIntact is not inductive, as it says nothing while the code  *)
(* being emitted is jumped over, and must hold again when that code ends.  *)
(*                                                                         *)
(* The theorems about values leave out two kinds of programs on purpose.   *)
(* A pointer that is read ("deref") keeps the register of the pointer, so  *)
(* that the value pointed at is never loaded; and shifts and divisions use *)
(* RCX, or RAX and RDX, which are right only where other operands stay out *)
(* of them.  For these the statement is false, or needs which registers    *)
(* the pool hands out.                                                     *)
(***************************************************************************)
EXTENDS CodeGenProofs, FiniteSetTheorems

-----------------------------------------------------------------------------
(* The register pool. *)

ExprKinds == {"int", "var", "deref", "addr", "index", "binop", "if", "else"}

ExprFrames == \A i \in 1 .. Len(ctl) : ctl[i].k \in {"prog", "binop", "if"}

PoolInv == TypeInv /\ ExprFrames /\ PoolMatchesOperands

\* The registers u are those of the results v, which are all different.
Pool(u, v) ==
  /\ u = {v[i].reg : i \in 1 .. Len(v)}
  /\ \A i, j \in 1 .. Len(v) : i # j => v[i].reg # v[j].reg

\* The registers of the results from number k on.
From(v, k) == {v[i].reg : i \in k .. Len(v)}

LEMMA PoolDrop ==
  ASSUME NEW v \in Seq(Results), NEW u, Pool(u, v), NEW k \in 1 .. Len(v) + 1
  PROVE  Pool(u \ From(v, k), SubSeq(v, 1, k - 1))
<1> DEFINE w == SubSeq(v, 1, k - 1)
<1>1. Len(w) = k - 1 /\ \A i \in 1 .. k - 1 : w[i] = v[i]
  BY DropFacts
<1> HIDE DEF w
<1>2. Len(v) \in Nat
  OBVIOUS
<1>3. {w[i].reg : i \in 1 .. Len(w)} = {v[i].reg : i \in 1 .. k - 1}
  BY <1>1
<1>4. u \ From(v, k) = {v[i].reg : i \in 1 .. k - 1}
  <2>1. ASSUME NEW r \in u \ From(v, k)
        PROVE  r \in {v[i].reg : i \in 1 .. k - 1}
    BY <1>2, <2>1 DEF Pool, From
  <2>2. ASSUME NEW i \in 1 .. k - 1
        PROVE  v[i].reg \in u \ From(v, k)
    BY <1>2, <2>2 DEF Pool, From
  <2> QED
    BY <2>1, <2>2
<1>5. \A i, j \in 1 .. Len(w) : i # j => w[i].reg # w[j].reg
  BY <1>1, <1>2 DEF Pool
<1>6. Pool(u \ From(v, k), w)
  BY <1>3, <1>4, <1>5 DEF Pool
<1> QED
  BY <1>6 DEF w

LEMMA PoolAdd ==
  ASSUME NEW v \in Seq(Results), NEW u, Pool(u, v), NEW x \in Results, x.reg \notin u
  PROVE  Pool(u \cup {x.reg}, Append(v, x))
<1> DEFINE w == Append(v, x)
<1>1. Len(v) \in Nat /\ Len(w) = Len(v) + 1 /\ (\A i \in 1 .. Len(v) : w[i] = v[i]) /\ w[Len(w)] = x
  OBVIOUS
<1> HIDE DEF w
<1>2. \A i \in 1 .. Len(w) : w[i].reg = IF i = Len(w) THEN x.reg ELSE v[i].reg
  BY <1>1
<1>3. {w[i].reg : i \in 1 .. Len(w)} = u \cup {x.reg}
  <2>1. ASSUME NEW i \in 1 .. Len(w)
        PROVE  w[i].reg \in u \cup {x.reg}
    BY <1>1, <2>1 DEF Pool
  <2>2. ASSUME NEW r \in u
        PROVE  \E i \in 1 .. Len(w) : r = w[i].reg
    <3>1. PICK i \in 1 .. Len(v) : r = v[i].reg
      BY <2>2 DEF Pool
    <3> QED
      BY <1>1, <3>1
  <2>3. x.reg = w[Len(w)].reg /\ Len(w) \in 1 .. Len(w)
    BY <1>1
  <2> QED
    BY <2>1, <2>2, <2>3
<1>4. \A i, j \in 1 .. Len(w) : i # j => w[i].reg # w[j].reg
  BY <1>1, <1>2 DEF Pool
<1>5. Pool(u \cup {x.reg}, w)
  BY <1>3, <1>4 DEF Pool
<1> QED
  BY <1>5 DEF w

\* The results from number k on are replaced by x.
LEMMA PoolReplace ==
  ASSUME NEW v \in Seq(Results), NEW u, Pool(u, v), NEW k \in 1 .. Len(v) + 1,
         NEW x \in Results, x.reg \notin u \ From(v, k)
  PROVE  Pool((u \ From(v, k)) \cup {x.reg}, Append(SubSeq(v, 1, k - 1), x))
<1>1. SubSeq(v, 1, k - 1) \in Seq(Results)
  BY DropFacts
<1>2. Pool(u \ From(v, k), SubSeq(v, 1, k - 1))
  BY PoolDrop
<1> QED
  BY <1>1, <1>2, PoolAdd

LEMMA FromFacts ==
  ASSUME NEW v \in Seq(Results)
  PROVE  /\ From(v, Len(v) + 1) = {}
         /\ Len(v) >= 1 => From(v, Len(v)) = {v[Len(v)].reg}
         /\ Len(v) >= 2 => From(v, Len(v) - 1) = {v[Len(v) - 1].reg, v[Len(v)].reg}
<1>1. Len(v) \in Nat
  OBVIOUS
<1> QED
  BY <1>1 DEF From

\* PoolMatchesOperands, in terms of Pool.
LEMMA PoolMeaning ==
  ASSUME vals \in Seq(Results)
  PROVE  PoolMatchesOperands <=> (be.err = "none" => Pool(be.used, vals))
<1>1. DOMAIN vals = 1 .. Len(vals)
  OBVIOUS
<1> QED
  BY <1>1 DEF PoolMatchesOperands, Compiling, Pool

-----------------------------------------------------------------------------
(* The control stack: only these kinds of activations are ever entered. *)

LEMMA TopKind ==
  ASSUME TypeInv, ExprFrames
  PROVE  Top.k \in {"prog", "binop", "if"}
  BY TopFacts DEF TypeInv, ExprFrames, Top

LEMMA FramesPush ==
  ASSUME TypeInv, ExprFrames, NEW f, f.k \in {"binop", "if"}, Push(f)
  PROVE  ExprFrames'
<1>1. IsSeq(ctl)
  BY DEF TypeInv, ControlOK
<1>2. /\ Len(ctl) \in Nat /\ Len(ctl') = Len(ctl) + 1 /\ ctl'[Len(ctl) + 1] = f
      /\ \A i \in 1 .. Len(ctl) : ctl'[i] = ctl[i]
  BY <1>1, AppendFacts, SeqFacts DEF Push
<1> QED
  BY <1>2 DEF ExprFrames

LEMMA FramesPop ==
  ASSUME TypeInv, ExprFrames, ctl' = Pop(ctl)
  PROVE  ExprFrames'
<1>1. IsSeq(ctl) /\ Len(ctl) \in Nat /\ Len(ctl) > 0
  BY TopFacts DEF TypeInv, ControlOK
<1>2. Len(ctl') = Len(ctl) - 1 /\ \A i \in 1 .. Len(ctl) - 1 : ctl'[i] = ctl[i]
  BY <1>1, PopFacts
<1> QED
  BY <1>1, <1>2 DEF ExprFrames

LEMMA FramesBecome ==
  ASSUME TypeInv, ExprFrames, NEW f, f.k = Top.k, Become(f)
  PROVE  ExprFrames'
<1>1. IsSeq(ctl) /\ Len(ctl) \in Nat /\ Len(ctl) > 0
  BY TopFacts DEF TypeInv, ControlOK
<1>2. /\ Len(ctl') = Len(ctl) /\ ctl'[Len(ctl)] = f
      /\ \A i \in 1 .. Len(ctl) - 1 : ctl'[i] = ctl[i]
  BY <1>1, BecomeFacts DEF Become
<1> QED
  BY <1>1, <1>2 DEF ExprFrames, Top

-----------------------------------------------------------------------------
(* One lemma per action or group of actions. *)

\* While the compiler runs the pool is that of the operands.
LEMMA PoolNow ==
  ASSUME PoolInv, Running
  PROVE  be.err = "none" /\ Pool(be.used, vals) /\ vals \in Seq(Results) /\ Len(vals) \in Nat
<1>1. be.err = "none" /\ vals \in Seq(Results)
  BY DEF Running, PoolInv, TypeInv
<1> QED
  BY <1>1, PoolMeaning DEF PoolInv

\* The pool and the operands agree after the step.
PoolKept == be'.err = "none" => Pool(be'.used, vals')

\* c is b with one more register in use, the one returned.
TakesFree(b, c) ==
  c.err = "none" => c.res \in Regs \ b.used /\ c.used = b.used \cup {c.res}

LEMMA LeafPool ==
  ASSUME PoolInv, Running, NEW b, BackendOK(b), TakesFree(be, b), NEW e,
         Deliver(b, Len(vals) + 1, e)
  PROVE  PoolKept
<1> DEFINE k == Len(vals) + 1
           x == Result(b.res, TRUE)
<1>1. Pool(be.used, vals) /\ vals \in Seq(Results) /\ k \in 1 .. Len(vals) + 1
  BY PoolNow
<1>2. From(vals, k) = {} /\ be.used \ From(vals, k) = be.used
  BY <1>1, FromFacts
<1>3. Deliver(b, k, e)
  OBVIOUS
<1>4. x \in Results /\ x.reg = b.res
  BY ResultIsResult DEF BackendOK
<1> HIDE DEF k, x
<1>5. /\ be'.used = b.used /\ be'.err = b.err
      /\ vals' = Append(SubSeq(vals, 1, k - 1), x)
  BY <1>1, <1>3, DeliverOK DEF x
<1>6. ASSUME b.err = "none"
      PROVE  Pool(b.used, vals')
  <2>1. b.used = (be.used \ From(vals, k)) \cup {x.reg} /\ x.reg \notin be.used \ From(vals, k)
    BY <1>2, <1>4, <1>6 DEF TakesFree
  <2>2. Pool((be.used \ From(vals, k)) \cup {x.reg}, Append(SubSeq(vals, 1, k - 1), x))
    BY <1>1, <1>4, <2>1, PoolReplace
  <2> QED
    BY <1>5, <2>1, <2>2
<1> QED
  BY <1>5, <1>6 DEF PoolKept

LEMMA LeavesPool ==
  ASSUME PoolInv, GenInt \/ \E x \in InScope : GenVar(x) \/ GenDeref(x) \/ GenAddr(x) \/ GenIndex(x)
  PROVE  ExprFrames' /\ PoolKept
<1>1. ExprFrames' /\ Running
  BY DEF GenInt, GenVar, GenDeref, GenAddr, GenIndex, Leaf, PoolInv, ExprFrames
<1>2. ASSUME NEW op, NEW src
      PROVE  BackendOK(Load(be, op, src)) /\ TakesFree(be, Load(be, op, src))
  BY LoadTakesFree DEF TakesFree, PoolInv, TypeInv
<1>3. ASSUME NEW x
      PROVE  BackendOK(VarAccess(be, x)) /\ TakesFree(be, VarAccess(be, x))
  BY <1>2 DEF VarAccess
<1>4. CASE GenInt
  BY <1>1, <1>2, <1>4, LeafPool DEF GenInt
<1>5. CASE \E x \in InScope : GenVar(x) \/ GenDeref(x)
  BY <1>1, <1>3, <1>5, LeafPool DEF GenVar, GenDeref
<1>6. CASE \E x \in InScope : GenAddr(x) \/ GenIndex(x)
  <2>1. ASSUME NEW x, NEW c \in {AddressOf(be, x), ElementAddr(be, x)}
        PROVE  BackendOK(c) /\ TakesFree(be, c)
    BY <2>1, AddressTakesFree DEF TakesFree, PoolInv, TypeInv
  <2>2. \E b : \E e : BackendOK(b) /\ TakesFree(be, b) /\ Deliver(b, Len(vals) + 1, e)
    BY <1>6, <2>1 DEF GenAddr, GenIndex
  <2> QED
    BY <1>1, <2>2, LeafPool
<1> QED
  BY <1>1, <1>4, <1>5, <1>6

\* Entering an operator or a condition touches no operand.
LEMMA BeginPool ==
  ASSUME PoolInv, BeginIf \/ \E op \in Ops : BeginBinop(op)
  PROVE  ExprFrames' /\ PoolKept
<1>1. \E f : f.k \in {"binop", "if"} /\ Push(f)
  <2>1. CASE BeginIf
    <3>1. IfFrame.k \in {"binop", "if"} /\ Push(IfFrame)
      BY <2>1 DEF BeginIf, IfFrame
    <3> QED
      BY <3>1
  <2>2. CASE \E op \in Ops : BeginBinop(op)
    <3>1. PICK op, root : Push(BinopFrame(op, root))
      BY <2>2 DEF BeginBinop
    <3>2. BinopFrame(op, root).k \in {"binop", "if"}
      BY DEF BinopFrame
    <3> QED
      BY <3>1, <3>2
  <2> QED
    BY <2>1, <2>2
<1>2. Running /\ UNCHANGED << vals, be >>
  BY DEF BeginIf, BeginBinop, Inner
<1>3. ExprFrames'
  BY <1>1, FramesPush DEF PoolInv
<1> QED
  BY <1>2, <1>3, PoolNow DEF PoolKept

LEMMA EndBinopPool ==
  ASSUME PoolInv, EndBinop
  PROVE  ExprFrames' /\ PoolKept
<1> DEFINE k == Len(vals) - 1
           l == vals[k].reg
           r == vals[k + 1].reg
           b == GenBinop(be, Top.op, l, r)
           x == Result(b.res, TRUE)
           e == Term(Top.op, Opd(k), Opd(k + 1))
<1>1. Top.k = "binop" /\ Top.op \in BinaryOps /\ Running
  BY TopFacts, FrameKinds, CodeGenAssumption DEF PoolInv, TypeInv, EndBinop, BinopOK
<1>2. Len(vals) \in Nat /\ Len(vals) >= 2
  BY TopFacts DEF PoolInv, TypeInv, EndBinop, Delivered
<1>3. Pool(be.used, vals) /\ vals \in Seq(Results)
  BY <1>1, PoolNow
<1>4. k \in 1 .. Len(vals) + 1 /\ l \in Regs /\ r \in Regs
  BY <1>2, <1>3, ResultFields
<1>5. l # r /\ l \in be.used /\ r \in be.used
  BY <1>2, <1>3 DEF Pool
<1>6. From(vals, k) = {l, r}
  BY <1>2, <1>3, FromFacts
<1> HIDE DEF l, r
<1>7. BackendOK(b) /\ ReplacesOperands(be, b, l, r)
  BY <1>1, <1>4, <1>5, BinopReplaces DEF PoolInv, TypeInv
<1>8. Deliver(b, k, e) /\ ctl' = Pop(ctl)
  BY DEF EndBinop, l, r
<1>9. x \in Results /\ x.reg = b.res
  BY <1>7, ResultIsResult DEF BackendOK
<1> HIDE DEF k, b, e, x
<1>10. /\ be'.used = b.used /\ be'.err = b.err
       /\ vals' = Append(SubSeq(vals, 1, k - 1), x)
  BY <1>3, <1>4, <1>7, <1>8, DeliverOK DEF x
<1>11. ASSUME b.err = "none"
       PROVE  Pool(b.used, vals')
  <2>1. b.used = (be.used \ From(vals, k)) \cup {x.reg} /\ x.reg \notin be.used \ From(vals, k)
    BY <1>6, <1>7, <1>9, <1>11 DEF ReplacesOperands
  <2>2. Pool((be.used \ From(vals, k)) \cup {x.reg}, Append(SubSeq(vals, 1, k - 1), x))
    BY <1>3, <1>4, <1>9, <2>1, PoolReplace
  <2> QED
    BY <1>10, <2>1, <2>2
<1>12. ExprFrames'
  BY <1>8, FramesPop DEF PoolInv
<1> QED
  BY <1>10, <1>11, <1>12 DEF PoolKept

\* The topmost operand is freed and dropped.
LEMMA FreesTop ==
  ASSUME PoolInv, Running, Len(vals) >= 1
  PROVE  LET k == Len(vals)
         IN  Pool(be.used \ {vals[k].reg}, SubSeq(vals, 1, k - 1))
<1> DEFINE k == Len(vals)
<1>1. Pool(be.used, vals) /\ vals \in Seq(Results) /\ Len(vals) \in Nat
  BY PoolNow
<1>2. k \in 1 .. Len(vals) + 1 /\ From(vals, k) = {vals[k].reg}
  BY <1>1, FromFacts
<1> HIDE DEF k
<1>3. Pool(be.used \ {vals[k].reg}, SubSeq(vals, 1, k - 1))
  BY <1>1, <1>2, PoolDrop
<1> QED
  BY <1>3 DEF k

\* The operand below the topmost one is freed, the topmost one takes its place.
LEMMA FreesBelow ==
  ASSUME PoolInv, Running, Len(vals) >= 2
  PROVE  LET k == Len(vals) - 1
         IN  /\ vals[k].reg # vals[k + 1].reg
             /\ \A x \in Results : x.reg = vals[k + 1].reg =>
                  Pool(be.used \ {vals[k].reg}, Append(SubSeq(vals, 1, k - 1), x))
             /\ \A x \in Results : x.reg = vals[k].reg =>
                  Pool(be.used \ {vals[k + 1].reg}, Append(SubSeq(vals, 1, k - 1), x))
<1> DEFINE k == Len(vals) - 1
           l == vals[k].reg
           r == vals[k + 1].reg
<1>1. Pool(be.used, vals) /\ vals \in Seq(Results) /\ Len(vals) \in Nat
  BY PoolNow
<1>2. l # r /\ l \in be.used /\ r \in be.used
  BY <1>1 DEF Pool
<1>3. k \in 1 .. Len(vals) + 1 /\ From(vals, k) = {l, r}
  BY <1>1, FromFacts
<1> HIDE DEF k, l, r
<1>4. ASSUME NEW x \in Results, x.reg \in {l, r}
      PROVE  Pool((be.used \ {l, r}) \cup {x.reg}, Append(SubSeq(vals, 1, k - 1), x))
  BY <1>1, <1>3, <1>4, PoolReplace
<1>5. be.used \ {l} = (be.used \ {l, r}) \cup {r} /\ be.used \ {r} = (be.used \ {l, r}) \cup {l}
  BY <1>2
<1>6. \A x \in Results : x.reg = r => Pool(be.used \ {l}, Append(SubSeq(vals, 1, k - 1), x))
  BY <1>4, <1>5
<1>7. \A x \in Results : x.reg = l => Pool(be.used \ {r}, Append(SubSeq(vals, 1, k - 1), x))
  BY <1>4, <1>5
<1> QED
  BY <1>2, <1>6, <1>7 DEF k, l, r

LEMMA IfConditionPool ==
  ASSUME PoolInv, IfCondition
  PROVE  ExprFrames' /\ PoolKept
<1> DEFINE k == Len(vals)
           d == RegDealloc(be, vals[k].reg)
           b == Settled(d, k - 1, Nowhere, Junk, Junk)
<1>1. Running /\ Len(vals) >= 1
  BY TopFacts DEF IfCondition, Delivered, PoolInv, TypeInv
<1>2. Pool(be.used \ {vals[k].reg}, SubSeq(vals, 1, k - 1))
  BY <1>1, FreesTop
<1>3. BackendOK(d) /\ d.used = be.used \ {vals[k].reg}
  BY DeallocFrees DEF PoolInv, TypeInv
<1>4. PICK taken \in BOOLEAN, hasElse \in BOOLEAN :
        /\ Become([Top EXCEPT !.ph = "then", !.taken = taken, !.hasElse = hasElse])
        /\ be' = [b EXCEPT !.live = @ /\ taken] /\ vals' = SubSeq(vals, 1, k - 1)
  BY DEF IfCondition, Last, Pop
<1> DEFINE f == [Top EXCEPT !.ph = "then", !.taken = taken, !.hasElse = hasElse]
<1>5. f.k = Top.k
  BY TopFacts, FrameKinds DEF PoolInv, TypeInv, IfCondition, IfOK
<1>6. Become(f)
  BY <1>4
<1> HIDE DEF f
<1>7. ExprFrames'
  BY <1>5, <1>6, FramesBecome DEF PoolInv
<1> HIDE DEF d
<1>8. BackendOK(b) /\ b.used = d.used
  BY <1>3, SettledKeeps
<1> HIDE DEF b
<1>9. be'.used = b.used
  BY <1>4, <1>8 DEF BackendOK, BackendFields
<1> QED
  BY <1>2, <1>3, <1>4, <1>7, <1>8, <1>9 DEF PoolKept

LEMMA IfStatementPool ==
  ASSUME PoolInv, IfStatement
  PROVE  ExprFrames' /\ PoolKept
<1> DEFINE f == [Top EXCEPT !.n = @ + 1]
<1>1. Top.k = "if" /\ Running /\ f.k = Top.k /\ Top.n \in Nat
  BY TopFacts, FrameKinds, TopKind DEF PoolInv, TypeInv, IfStatement, InIf, IfOK
<1>2. Become(f)
  BY DEF IfStatement
<1> HIDE DEF f
<1>3. ExprFrames'
  BY <1>1, <1>2, FramesBecome DEF PoolInv
<1>4. CASE Top.n = 0
  <2>1. UNCHANGED << vals, be >>
    BY <1>4 DEF IfStatement
  <2> QED
    BY <1>1, <1>3, <2>1, PoolNow DEF PoolKept
<1>5. CASE Top.n # 0
  <2> DEFINE k == Len(vals) - 1
             d == RegDealloc(be, vals[k].reg)
  <2>1. Len(vals) \in Nat /\ Len(vals) >= 2
    BY <1>1, <1>5, TopFacts DEF PoolInv, TypeInv, IfStatement, Delivered, Resting
  <2>2. vals[k + 1] \in Results
    BY <2>1, ResultFields DEF PoolInv, TypeInv
  <2>3. Pool(be.used \ {vals[k].reg}, Append(SubSeq(vals, 1, k - 1), vals[k + 1]))
    BY <1>1, <2>1, <2>2, FreesBelow
  <2>4. BackendOK(d) /\ d.used = be.used \ {vals[k].reg}
    BY DeallocFrees DEF PoolInv, TypeInv
  <2>5. /\ be' = Settled(d, k - 1, InReg(vals[k + 1].reg), Opd(k + 1), Opd(k))
        /\ vals' = Append(SubSeq(vals, 1, k - 1), vals[k + 1])
    BY <1>5 DEF IfStatement
  <2> HIDE DEF d
  <2>6. be'.used = d.used
    BY <2>4, <2>5, SettledKeeps
  <2> QED
    BY <1>3, <2>3, <2>4, <2>5, <2>6 DEF PoolKept
<1> QED
  BY <1>4, <1>5

LEMMA EndThenPool ==
  ASSUME PoolInv, EndThen
  PROVE  ExprFrames' /\ PoolKept
<1> DEFINE k     == Len(vals)
           a     == RegAlloc(be)
           r     == a.res
           c     == CopyReg(a, vals[k].reg, r)
           moved == RegDealloc(c, vals[k].reg)
           skip  == Top.live /\ ~Top.taken
           after == [moved EXCEPT !.live = skip]
           zero  == ZeroOut(after, r)
           done  == [zero EXCEPT !.live = Top.live]
           from  == IF Top.taken THEN Opd(k) ELSE Zero
           f     == [Top EXCEPT !.ph = "else", !.n = 0, !.val = vals[k].val]
           s     == Settled(moved, k - 1, InReg(r), Opd(k), Opd(k))
<1>1. Top.k = "if" /\ IfOK(Top) /\ Top.n > 0 /\ Running
  BY TopFacts, FrameKinds DEF PoolInv, TypeInv, EndThen, BodyEnded
<1>2. Len(vals) \in Nat /\ Len(vals) >= 1
  BY <1>1, TopFacts DEF PoolInv, TypeInv, EndThen, BodyEnded, Delivered, Resting
<1>3. Pool(be.used, vals) /\ vals \in Seq(Results)
  BY <1>1, PoolNow
<1>4. k \in 1 .. Len(vals) + 1 /\ vals[k].val \in BOOLEAN /\ From(vals, k) = {vals[k].reg}
  BY <1>2, <1>3, ResultFields, FromFacts
<1>5. /\ BackendOK(a) /\ r \in Regs
      /\ a.err = "none" => r \notin be.used /\ a.used = be.used \cup {r}
  BY AllocTakesFree DEF PoolInv, TypeInv, BackendOK
<1>6. vals[k].reg \in be.used
  BY <1>2, <1>3 DEF Pool
<1> HIDE DEF a, r
<1>7. BackendOK(c) /\ c.used = a.used /\ c.err = a.err
  BY <1>5, EmitKeeps DEF CopyReg
<1> HIDE DEF c
<1>8. BackendOK(moved) /\ moved.used = a.used \ {vals[k].reg} /\ moved.err = a.err
  BY <1>7, DeallocFrees
<1> HIDE DEF moved
<1>9. skip \in BOOLEAN /\ Top.live \in BOOLEAN /\ f.k = Top.k
  BY <1>1 DEF IfOK
<1>10. BackendOK(after) /\ after.used = moved.used /\ after.err = moved.err
  BY <1>8, <1>9, LiveOK
<1> HIDE DEF after
<1>11. BackendOK(zero) /\ zero.used = moved.used /\ zero.err = moved.err
  BY <1>10, EmitKeeps DEF ZeroOut
<1> HIDE DEF zero
<1>12. BackendOK(done) /\ done.used = moved.used /\ done.err = moved.err
  BY <1>9, <1>11, LiveOK
<1>13. BackendOK(s) /\ s.used = moved.used /\ s.err = moved.err
  BY <1>8, SettledKeeps
\* Either way r is the register of the last operand, and the pool is that of moved.
<1>14. ASSUME NEW x \in Results, x.reg = r, a.err = "none"
       PROVE  Pool(moved.used, Append(SubSeq(vals, 1, k - 1), x))
  <2>1. moved.used = (be.used \ From(vals, k)) \cup {x.reg} /\ x.reg \notin be.used \ From(vals, k)
    BY <1>4, <1>5, <1>6, <1>8, <1>14
  <2> HIDE DEF k
  <2>2. Pool((be.used \ From(vals, k)) \cup {x.reg}, Append(SubSeq(vals, 1, k - 1), x))
    BY <1>3, <1>4, <2>1, PoolReplace
  <2> QED
    BY <2>1, <2>2
<1>15. CASE Top.hasElse
  <2>1. /\ vals' = Append(SubSeq(vals, 1, k - 1), Result(r, FALSE))
        /\ be'   = [s EXCEPT !.live = skip] /\ Become(f)
    BY <1>15 DEF EndThen, Pop, moved, c, r, a
  <2> HIDE DEF s, skip, f, k
  <2>2. be'.used = moved.used /\ be'.err = a.err
    BY <1>8, <1>9, <1>13, <2>1, LiveOK
  <2>3. Result(r, FALSE) \in Results /\ Result(r, FALSE).reg = r
    BY <1>5, ResultIsResult
  <2>4. ExprFrames'
    BY <1>9, <2>1, FramesBecome DEF PoolInv
  <2> QED
    BY <1>14, <2>1, <2>2, <2>3, <2>4 DEF PoolKept
<1>16. CASE ~Top.hasElse
  <2>1. IfResult(done, r, k, vals[k].val, from) /\ ctl' = Pop(ctl)
    BY <1>16 DEF EndThen, done, zero, after, skip, moved, c, r, a
  <2> HIDE DEF done, k, from
  <2>2. /\ be'.used = moved.used /\ be'.err = a.err
        /\ vals' = Append(SubSeq(vals, 1, k - 1), Result(r, vals[k].val))
    BY <1>3, <1>4, <1>5, <1>8, <1>12, <2>1, IfResultOK
  <2>3. Result(r, vals[k].val) \in Results /\ Result(r, vals[k].val).reg = r
    BY <1>4, <1>5, ResultIsResult
  <2>4. ExprFrames'
    BY <2>1, FramesPop DEF PoolInv
  <2> QED
    BY <1>14, <2>2, <2>3, <2>4 DEF PoolKept
<1> QED
  BY <1>15, <1>16

LEMMA EndElsePool ==
  ASSUME PoolInv, EndElse
  PROVE  ExprFrames' /\ PoolKept
<1> DEFINE k    == Len(vals) - 1
           last == vals[k + 1]
           r    == vals[k].reg
           c    == CopyReg(be, last.reg, r)
           b    == RegDealloc(c, last.reg)
           d    == [b EXCEPT !.live = Top.live]
           val  == Top.val /\ last.val
           from == IF Top.taken THEN Opd(k) ELSE Opd(k + 1)
<1>1. Top.k = "if" /\ IfOK(Top) /\ Top.n > 0 /\ Running
  BY TopFacts, FrameKinds DEF PoolInv, TypeInv, EndElse, BodyEnded
<1>2. Len(vals) \in Nat /\ Len(vals) >= 2
  BY <1>1, TopFacts DEF PoolInv, TypeInv, EndElse, BodyEnded, Delivered, Resting
<1>3. k \in 1 .. Len(vals) + 1 /\ last.val \in BOOLEAN /\ r \in Regs
  BY <1>2, ResultFields DEF PoolInv, TypeInv
<1>4. \A x \in Results : x.reg = r => Pool(be.used \ {last.reg}, Append(SubSeq(vals, 1, k - 1), x))
  BY <1>1, <1>2, FreesBelow
<1>5. BackendOK(c) /\ c.used = be.used
  BY EmitKeeps DEF CopyReg, PoolInv, TypeInv
<1> HIDE DEF c
<1>6. BackendOK(b) /\ b.used = be.used \ {last.reg}
  BY <1>5, DeallocFrees
<1> HIDE DEF b
<1>7. BackendOK(d) /\ d.used = b.used /\ val \in BOOLEAN
  BY <1>1, <1>3, <1>6, LiveOK DEF IfOK
<1>8. IfResult(d, r, k, val, from) /\ ctl' = Pop(ctl)
  BY DEF EndElse, b, c
<1>9. ExprFrames'
  BY <1>8, FramesPop DEF PoolInv
<1> HIDE DEF d, r, k, val, from, last
<1>10. be'.used = d.used /\ vals' = Append(SubSeq(vals, 1, k - 1), Result(r, val))
  BY <1>3, <1>7, <1>8, IfResultOK DEF PoolInv, TypeInv
<1>11. Result(r, val) \in Results /\ Result(r, val).reg = r
  BY <1>3, <1>7, ResultIsResult
<1> QED
  BY <1>4, <1>6, <1>7, <1>9, <1>10, <1>11 DEF PoolKept

LEMMA StatementPool ==
  ASSUME PoolInv, Statement \/ LastStatement
  PROVE  ExprFrames' /\ PoolKept
<1> DEFINE k == Len(vals)
           r == vals[k].reg
           d == RegDealloc(be, r)
           e == SetFuncRetVal(d, r)
           f == [Top EXCEPT !.n = @ + 1]
           g == [Top EXCEPT !.n = @ + 1, !.ph = "ret", !.val = Last(vals).val]
<1>1. Running /\ Len(vals) \in Nat /\ Len(vals) >= 1
  BY TopFacts DEF PoolInv, TypeInv, Statement, LastStatement, Delivered
<1>2. f.k = Top.k /\ g.k = Top.k
  BY TopFacts, FrameKinds DEF PoolInv, TypeInv, Statement, LastStatement, InBody, BodyOK
<1>3. Pool(be.used \ {r}, SubSeq(vals, 1, k - 1))
  BY <1>1, FreesTop
<1>4. BackendOK(d) /\ d.used = be.used \ {r}
  BY DeallocFrees DEF PoolInv, TypeInv
<1> HIDE DEF d
<1>5. BackendOK(e) /\ e.used = d.used
  BY <1>4, EmitKeeps DEF SetFuncRetVal
<1> HIDE DEF e
<1>6. /\ Become(f) \/ Become(g)
      /\ \/ Consume(d, k, Nowhere, Junk, Junk)
         \/ Consume(e, k, InReg(RAX), Opd(k), Returned)
  BY DEF Statement, LastStatement, Last, d, e
<1>7. k \in 1 .. Len(vals) + 1
  BY <1>1
<1> HIDE DEF f, g
<1>8. ExprFrames'
  BY <1>2, <1>6, FramesBecome DEF PoolInv
<1> HIDE DEF k, r
<1>9. be'.used = d.used /\ vals' = SubSeq(vals, 1, k - 1)
  BY <1>4, <1>5, <1>6, <1>7, ConsumeOK DEF PoolInv, TypeInv
<1> QED
  BY <1>3, <1>4, <1>8, <1>9 DEF PoolKept

-----------------------------------------------------------------------------
LEMMA InitPool == Init => PoolInv
<1> SUFFICES ASSUME Init PROVE PoolInv
  OBVIOUS
<1>1. TypeInv
  BY InitTypes
<1>2. ExprFrames
  BY DEF Init, ExprFrames
<1>3. be.used = {} /\ vals = << >>
  BY InitBackendOK, EmitKeeps DEF Init, FuncHeader
<1> QED
  BY <1>1, <1>2, <1>3 DEF PoolInv, PoolMatchesOperands

\* Which steps programs of these kinds of nodes can take.
LEMMA ExprSteps ==
  ASSUME Kinds \subseteq ExprKinds, PoolInv, Next
  PROVE  \/ GenInt \/ \E x \in InScope : GenVar(x) \/ GenDeref(x) \/ GenAddr(x) \/ GenIndex(x)
         \/ BeginIf \/ \E op \in Ops : BeginBinop(op)
         \/ EndBinop \/ IfCondition \/ IfStatement \/ EndThen \/ EndElse
         \/ Statement \/ LastStatement \/ UNCHANGED vars
<1>1. ASSUME NEW kind, Inner(kind)
      PROVE  kind \in ExprKinds
  BY <1>1 DEF Inner
<1>2. Top.k \notin {"call", "func", "reassign", "store"}
  BY TopKind DEF PoolInv
<1>3. /\ ~Inner("reassign") /\ ~Inner("store") /\ ~Inner("decl") /\ ~Inner("function")
      /\ ~Inner("call") /\ ~Inner("ext_call")
  BY <1>1 DEF ExprKinds
<1>4. /\ \A x : ~BeginAssign(x) /\ ~BeginStore(x) /\ ~Declare(x)
      /\ \A argc : ~BeginFunc(argc) /\ \A ext : ~BeginCall(ext, argc)
  <2>1. ASSUME NEW x
        PROVE  ~BeginAssign(x) /\ ~BeginStore(x) /\ ~Declare(x)
    BY <1>3 DEF BeginAssign, BeginStore, Declare
  <2>2. ASSUME NEW argc
        PROVE  ~BeginFunc(argc)
    BY <1>3 DEF BeginFunc
  <2>3. ASSUME NEW argc, NEW ext
        PROVE  ~BeginCall(ext, argc)
    BY <1>3 DEF BeginCall
  <2> QED
    BY <2>1, <2>2, <2>3
<1>5. ~(CallArg \/ EndCall \/ EndAssign \/ EndStore \/ EndFunc)
  BY <1>2 DEF CallArg, EndCall, EndAssign, EndStore, EndFunc
<1> QED
  BY <1>4, <1>5 DEF Next, Stopped

LEMMA NextPool ==
  ASSUME Kinds \subseteq ExprKinds
  PROVE  PoolInv /\ [Next]_vars => PoolInv'
<1> SUFFICES ASSUME PoolInv, [Next]_vars PROVE PoolInv'
  OBVIOUS
<1>1. TypeInv'
  BY NextTypes DEF PoolInv
<1>2. CASE UNCHANGED vars
  BY <1>1, <1>2 DEF PoolInv, ExprFrames, PoolMatchesOperands, Compiling, vars
<1>3. CASE Next
  <2>1. \/ GenInt \/ \E x \in InScope : GenVar(x) \/ GenDeref(x) \/ GenAddr(x) \/ GenIndex(x)
        \/ BeginIf \/ \E op \in Ops : BeginBinop(op)
        \/ EndBinop \/ IfCondition \/ IfStatement \/ EndThen \/ EndElse
        \/ Statement \/ LastStatement \/ UNCHANGED vars
    BY <1>3, ExprSteps
  <2>2. CASE UNCHANGED vars
    BY <1>2, <2>2
  <2>3. CASE ~UNCHANGED vars
    <3>1. ExprFrames' /\ PoolKept
      BY <2>1, <2>3, LeavesPool, BeginPool, EndBinopPool, IfConditionPool, IfStatementPool,
         EndThenPool, EndElsePool, StatementPool
    <3>2. vals' \in Seq(Results)
      BY <1>1 DEF TypeInv
    <3>3. DOMAIN vals' = 1 .. Len(vals')
      BY <3>2
    <3>4. PoolMatchesOperands'
      BY <3>1, <3>3 DEF PoolMatchesOperands, Compiling, PoolKept, Pool
    <3> QED
      BY <1>1, <3>1, <3>4 DEF PoolInv
  <2> QED
    BY <2>2, <2>3
<1> QED
  BY <1>2, <1>3

(***************************************************************************)
(* Whatever program of literals, variables, pointers, array elements,      *)
(* operators and conditions is compiled, of whatever size and with however *)
(* many scratch registers: as long as the compiler has not given up, the   *)
(* registers marked in use are those of the pending operands, one each.    *)
(* No register leaks, and reg_alloc never hands out one that is needed.    *)
(***************************************************************************)
THEOREM PoolCorrect ==
  ASSUME Kinds \subseteq ExprKinds
  PROVE  Spec => []PoolMatchesOperands
<1>1. Init => PoolInv
  BY InitPool
<1>2. PoolInv /\ [Next]_vars => PoolInv'
  BY NextPool
<1>3. PoolInv => PoolMatchesOperands
  BY DEF PoolInv
<1> QED
  BY <1>1, <1>2, <1>3, PTL DEF Spec

-----------------------------------------------------------------------------
(***************************************************************************)
(* The number of registers.  An operator on the right of another binds     *)
(* tighter, so that an activation finds at most one operand for each level *)
(* of precedence below its own.                                            *)
(***************************************************************************)
AtomKinds == {"int", "var", "deref", "addr", "index", "binop"}

Level(op) == CASE Precedence[op] = 3 -> 0 [] Precedence[op] = 4 -> 1
               [] Precedence[op] = 5 -> 2 [] Precedence[op] = 10 -> 3

\* What an activation may add to the operands it found.
Room(f) == IF f.k = "prog" THEN 1 ELSE 2

DepthInv ==
  /\ \A i \in 1 .. Len(ctl) : ctl[i].k \in {"prog", "binop"}
  /\ ctl[1].base = 0
  /\ \A i \in 2 .. Len(ctl) : /\ ctl[i].base <= Level(ctl[i].op)
                              /\ ctl[i].root => ctl[i].base = 0
  /\ \A i \in 1 .. Len(ctl) - 1 : ctl[i + 1].base < ctl[i].base + Room(ctl[i])
  /\ Len(vals) <= Top.base + Room(Top)
  /\ be.err # "no_register"

\* Levels order the operators as the precedences do.
LEMMA LevelsOrder ==
  /\ \A p \in BinaryOps : Level(p) \in 0 .. 3
  /\ \A p, q \in BinaryOps : Precedence[p] < Precedence[q] => Level(p) < Level(q)
  /\ \A p \in {"==", "<", ">"} : Level(p) = 0
<1>1. \A p \in BinaryOps : Precedence[p] = CASE p \in {"==", "<", ">"} -> 3
                                             [] p \in {"<<", ">>"}     -> 4
                                             [] p \in {"+", "-"}       -> 5
                                             [] p \in {"*", "/", "%"}  -> 10
  BY DEF Precedence
<1>2. \A p \in BinaryOps : \/ p \in {"==", "<", ">"} /\ Precedence[p] = 3
                           \/ p \in {"<<", ">>"} /\ Precedence[p] = 4
                           \/ p \in {"+", "-"} /\ Precedence[p] = 5
                           \/ p \in {"*", "/", "%"} /\ Precedence[p] = 10
  BY <1>1 DEF BinaryOps
<1>3. \A p \in BinaryOps : \/ Precedence[p] = 3 /\ Level(p) = 0
                           \/ Precedence[p] = 4 /\ Level(p) = 1
                           \/ Precedence[p] = 5 /\ Level(p) = 2
                           \/ Precedence[p] = 10 /\ Level(p) = 3
  BY <1>2 DEF Level
<1>4. {"==", "<", ">"} \subseteq BinaryOps
  BY DEF BinaryOps
<1>5. \A p \in {"==", "<", ">"} : Level(p) = 0
  BY <1>2, <1>3, <1>4
<1> QED
  BY <1>3, <1>5

LEMMA PrecedenceIsNat == \A p \in BinaryOps : Precedence[p] \in Nat
<1>1. \A p \in BinaryOps : Precedence[p] = CASE p \in {"==", "<", ">"} -> 3
                                             [] p \in {"<<", ">>"}     -> 4
                                             [] p \in {"+", "-"}       -> 5
                                             [] p \in {"*", "/", "%"}  -> 10
  BY DEF Precedence
<1> QED
  BY <1>1 DEF BinaryOps

LEMMA ScratchCntIsNat == ScratchCnt \in 1 .. 8
<1> DEFINE m == 7
<1>1. m \in Int
  OBVIOUS
<1> HIDE DEF m
<1>2. Cardinality(0 .. m) = IF 0 > m THEN 0 ELSE m - 0 + 1
  BY <1>1, FS_Interval
<1> QED
  BY <1>2, RegsAre, ScratchAssumption DEF m

\* Fewer operands than scratch registers: one is free.
LEMMA OneIsFree ==
  ASSUME PoolInv, Running, Len(vals) < ScratchCnt
  PROVE  Free(be) # {}
<1> SUFFICES ASSUME Free(be) = {} PROVE FALSE
  OBVIOUS
<1>1. Pool(be.used, vals) /\ vals \in Seq(Results) /\ Len(vals) \in Nat
  BY PoolNow
<1> DEFINE n == Len(vals)
           f == [i \in 1 .. n |-> vals[i].reg]
<1>2. f \in Surjection(1 .. n, be.used)
  BY <1>1 DEF Surjection, Pool
<1>3. IsFiniteSet(1 .. n) /\ Cardinality(1 .. n) = n
  <2>1. 1 \in Int /\ n \in Int
    BY <1>1
  <2>2. IsFiniteSet(1 .. n) /\ Cardinality(1 .. n) = IF 1 > n THEN 0 ELSE n - 1 + 1
    BY <2>1, FS_Interval
  <2> QED
    BY <1>1, <2>2
<1>4. IsFiniteSet(be.used) /\ Cardinality(be.used) <= n
  BY <1>2, <1>3, FS_Surjection
<1>6. ScratchCnt \in 1 .. 8
  BY ScratchCntIsNat
<1>7. Scratch = 0 .. ScratchCnt - 1
  BY <1>6, RegsAre DEF Scratch
<1>8. Cardinality(Scratch) = ScratchCnt
  <2> DEFINE m == ScratchCnt - 1
  <2>1. m \in Int /\ m >= 0
    BY <1>6
  <2> HIDE DEF m
  <2>2. Cardinality(0 .. m) = IF 0 > m THEN 0 ELSE m - 0 + 1
    BY <2>1, FS_Interval
  <2> QED
    BY <1>6, <1>7, <2>1, <2>2 DEF m
<1>9. Scratch \in SUBSET be.used
  BY DEF Free
<1>10. Cardinality(Scratch) <= Cardinality(be.used) /\ Cardinality(be.used) \in Nat
  BY <1>4, <1>9, FS_Subset, FS_CardinalityType
<1> QED
  BY <1>1, <1>4, <1>6, <1>8, <1>10

\* A back end that did not run out of registers when b did not.
Allocates(b, c) == b.err = "none" /\ Free(b) # {} => c.err # "no_register"

LEMMA AllocAllocates ==
  ASSUME NEW b, BackendOK(b)
  PROVE  /\ b.err = "none" /\ Free(b) # {} => RegAlloc(b).err = "none"
  BY DEF RegAlloc, BackendOK, BackendFields

LEMMA LoadAllocates ==
  ASSUME NEW b, BackendOK(b), NEW op, NEW src
  PROVE  b.err = "none" /\ Free(b) # {} => Load(b, op, src).err = "none"
  BY AllocAllocates, AllocTakesFree, EmitKeeps DEF Load

LEMMA AddressAllocates ==
  ASSUME NEW b, BackendOK(b), NEW x, NEW c \in {AddressOf(b, x), ElementAddr(b, x)}
  PROVE  Allocates(b, c)
<1> DEFINE a == AddressOf(b, x)
<1>1. BackendOK(a)
  BY AddressTakesFree
<1>2. Allocates(b, a)
  <2>1. CASE Addressable(x)
    BY <2>1, LoadAllocates DEF AddressOf, Allocates
  <2>2. CASE ~Addressable(x)
    <3>1. "unknown_symbol" \in Errors /\ "unknown_symbol" # "no_register"
      BY DEF Errors
    <3> QED
      BY <2>2, <3>1, FailKeeps DEF AddressOf, Allocates
  <2> QED
    BY <2>1, <2>2
<1>3. c = a \/ c = Emit(a, << << "addimm", a.res >> >>)
  BY DEF ElementAddr, AddImm
<1> HIDE DEF a
<1> QED
  BY <1>1, <1>2, <1>3, EmitKeeps DEF Allocates

\* An operator allocates at most one register.
LEMMA BinopAllocates ==
  ASSUME NEW b, BackendOK(b), b.err = "none", NEW op \in BinaryOps, NEW l \in Regs, NEW r \in Regs,
         Free(b) # {} \/ op \notin {"==", "<", ">", "/", "%"}
  PROVE  GenBinop(b, op, l, r).err = "none"
<1>1. CASE op \in {"==", "<", ">"}
  <2> DEFINE a == RegAlloc(b)
             e == Emit(a, << << "zero", a.res >>, << "cmp", r, l >>, << "setcc", op, a.res >> >>)
             f == RegDealloc(e, r)
             g == RegDealloc(f, l)
  <2>1. GenBinop(b, op, l, r) = g
    BY <1>1 DEF GenBinop, GenCompare
  <2>2. BackendOK(a) /\ a.err = "none"
    BY <1>1, AllocTakesFree, AllocAllocates
  <2> HIDE DEF a
  <2>3. BackendOK(e) /\ e.err = "none"
    BY <2>2, EmitKeeps
  <2> HIDE DEF e
  <2>4. BackendOK(f) /\ f.err = "none"
    BY <2>3, DeallocFrees
  <2> HIDE DEF f
  <2> QED
    BY <2>1, <2>4, DeallocFrees
<1>2. CASE op \in {"+", "*", "-", "<<", ">>"}
  <2>1. PICK code : \/ GenBinop(b, op, l, r) = Returning(RegDealloc(Emit(b, code), r), l)
                    \/ GenBinop(b, op, l, r) = Returning(RegDealloc(Emit(b, code), l), r)
    <3>1. op \in {"+", "*", "-"} \/ GenBinop(b, op, l, r) = BitShift(b, op, l, r)
      BY <1>2 DEF GenBinop
    <3>2. \E code : BitShift(b, op, l, r) = Returning(RegDealloc(Emit(b, code), r), l)
      BY DEF BitShift
    <3>3. op \in {"+", "*", "-"} => \E code : \/ GenBinop(b, op, l, r) = Returning(RegDealloc(Emit(b, code), r), l)
                                              \/ GenBinop(b, op, l, r) = Returning(RegDealloc(Emit(b, code), l), r)
      BY DEF GenBinop, GenAdd, GenSub, GenMul
    <3> QED
      BY <3>1, <3>2, <3>3
  <2>2. BackendOK(Emit(b, code)) /\ Emit(b, code).err = "none"
    BY EmitKeeps
  <2> QED
    BY <2>1, <2>2, DeallocFrees, ReturningReturns
<1>3. CASE op \in {"/", "%"}
  <2> DEFINE saves(ins) == (IF Pushed(b, RAX, l, r) THEN << << ins, RAX >> >> ELSE << >>)
                           \o (IF Pushed(b, RDX, l, r) THEN << << ins, RDX >> >> ELSE << >>)
             clash == r \in {RAX, RDX}
             a     == IF clash THEN RegAlloc(b) ELSE Returning(b, r)
             copy  == IF clash THEN << << "mov", r, a.res >> >> ELSE << >>
             out   == IF op = "/" THEN RAX ELSE RDX
             dest  == IF out \in {l, r} THEN out ELSE l
             move  == IF out \in {l, r} THEN << >> ELSE << << "mov", out, l >> >>
             code  == saves("push") \o copy
                      \o << << "mov", l, RAX >>, << "cqo" >>, << "idiv", a.res >> >>
                      \o move \o saves("pop")
             d     == Emit(a, code)
             freed == (IF clash THEN {a.res} ELSE {}) \cup ({l, r} \ {dest})
  <2>1. GenBinop(b, op, l, r) = [d EXCEPT !.used = @ \ freed, !.res = dest]
    <3>1. GenBinop(b, op, l, r) = DivMod(b, op, l, r)
      BY <1>3 DEF GenBinop
    <3> QED
      BY <3>1 DEF DivMod
  <2>2. BackendOK(a) /\ a.err = "none"
    BY <1>3, AllocTakesFree, AllocAllocates, ReturningReturns
  <2> HIDE DEF a, code
  <2>3. BackendOK(d) /\ d.err = "none"
    BY <2>2, EmitKeeps
  <2> HIDE DEF d, freed, dest
  <2> QED
    BY <2>1, <2>3 DEF BackendOK, BackendFields
<1> QED
  BY <1>1, <1>2, <1>3 DEF BinaryOps

-----------------------------------------------------------------------------
(* One lemma per action or group of actions. *)

\* The activations that are there, and how many operands the innermost has.
LEMMA DepthNow ==
  ASSUME PoolInv, DepthInv
  PROVE  /\ Len(ctl) \in Nat /\ Len(ctl) >= 1 /\ Len(vals) \in Nat /\ Top.base \in Nat
         /\ Top.k \in {"prog", "binop"} /\ (Top.k = "prog" <=> Len(ctl) = 1)
         /\ Top.k = "prog" => Top.base = 0
         /\ Top.k = "binop" => /\ Top.op \in BinaryOps /\ Level(Top.op) \in 0 .. 3
                               /\ Top.base <= Level(Top.op)
                               /\ Top.root => Top.base = 0
         /\ Delivered = Len(vals) - Top.base
<1>1. /\ Len(ctl) \in Nat /\ Len(ctl) >= 1 /\ FrameOK(Top) /\ Len(vals) \in Nat /\ Top.base \in Nat
  BY TopFacts DEF PoolInv, TypeInv
<1>2. Len(ctl) \in 1 .. Len(ctl) /\ 1 \in 1 .. Len(ctl) /\ (Len(ctl) # 1 => Len(ctl) \in 2 .. Len(ctl))
  <2> DEFINE n == Len(ctl)
  <2>1. n \in Nat /\ n >= 1
    BY <1>1
  <2> HIDE DEF n
  <2>2. n \in 1 .. n /\ 1 \in 1 .. n /\ (n # 1 => n \in 2 .. n)
    BY <2>1
  <2> QED
    BY <2>2 DEF n
<1>3. Top.k \in {"prog", "binop"} /\ (Top.k = "prog" <=> Len(ctl) = 1)
  BY <1>1, <1>2 DEF DepthInv, PoolInv, TypeInv, ControlOK, Top
<1>4. Top.k = "binop" => Top.op \in BinaryOps
  BY <1>1, FrameKinds, CodeGenAssumption DEF BinopOK
<1>5. Top.k = "binop" => Top.base <= Level(Top.op) /\ (Top.root => Top.base = 0)
  BY <1>2, <1>3 DEF DepthInv, Top
<1> QED
  BY <1>1, <1>2, <1>3, <1>4, <1>5, LevelsOrder DEF DepthInv, Delivered, Top

\* A leaf finds at most four operands.
LEMMA LeafDepth ==
  ASSUME PoolInv, DepthInv, ScratchCnt >= 6, Running, AtomWanted, UNCHANGED ctl,
         NEW b, BackendOK(b), Allocates(be, b), NEW e, Deliver(b, Len(vals) + 1, e)
  PROVE  DepthInv'
<1> DEFINE k == Len(vals) + 1
<1>1. Len(vals) + 1 <= Top.base + Room(Top) /\ Len(vals) <= 4
  <2>1. CASE Top.k = "prog"
    BY <2>1, DepthNow DEF AtomWanted, ExprWanted, StmtWanted, RhsWanted, InBody, InIf, Room
  <2>2. CASE Top.k = "binop"
    BY <2>2, DepthNow DEF AtomWanted, ExprWanted, StmtWanted, RhsWanted, InBody, InIf, Room
  <2> QED
    BY <2>1, <2>2, DepthNow
<1>2. ScratchCnt \in Nat
  BY ScratchCntIsNat
<1>3. Len(vals) < ScratchCnt /\ be.err = "none"
  BY <1>1, <1>2, DepthNow DEF Running
<1>4. b.err # "no_register"
  BY <1>3, OneIsFree DEF Allocates
<1>5. vals \in Seq(Results) /\ k \in 1 .. Len(vals) + 1 /\ Deliver(b, k, e)
  BY DepthNow DEF PoolInv, TypeInv
<1> HIDE DEF k
<1>6. be'.err = b.err /\ Len(vals') = k
  BY <1>5, DeliverOK
<1> QED
  BY <1>1, <1>4, <1>6 DEF DepthInv, Top, k, Room

LEMMA PushDepth ==
  ASSUME PoolInv, DepthInv, NEW op \in BinaryOps, NEW root \in BOOLEAN, UNCHANGED << vals, be >>,
         Push(BinopFrame(op, root)), Len(vals) < Top.base + Room(Top),
         Len(vals) <= Level(op), root => Len(vals) = 0
  PROVE  DepthInv'
<1> DEFINE f == BinopFrame(op, root)
<1>1. f.k = "binop" /\ f.op = op /\ f.root = root /\ f.base = Len(vals)
  BY DEF BinopFrame
<1>2. ctl' = Append(ctl, f)
  BY DEF Push
<1> HIDE DEF f
<1>3. /\ Len(ctl) \in Nat /\ Len(ctl) >= 1 /\ Len(ctl') = Len(ctl) + 1 /\ ctl'[Len(ctl) + 1] = f
      /\ \A i \in 1 .. Len(ctl) : ctl'[i] = ctl[i]
  BY <1>2, AppendFacts, SeqFacts, DepthNow DEF PoolInv, TypeInv, ControlOK
<1>4. Top' = f /\ Top = ctl[Len(ctl)]
  BY <1>3 DEF Top
<1>5. \A i \in 1 .. Len(ctl') : ctl'[i].k \in {"prog", "binop"}
  BY <1>1, <1>3 DEF DepthInv
<1>6. ctl'[1].base = 0
  BY <1>3 DEF DepthInv
<1>7. \A i \in 2 .. Len(ctl') : /\ ctl'[i].base <= Level(ctl'[i].op)
                                /\ ctl'[i].root => ctl'[i].base = 0
  <2> TAKE i \in 2 .. Len(ctl')
  <2>1. i = Len(ctl) + 1 \/ i \in 2 .. Len(ctl)
    BY <1>3
  <2>2. i \in 2 .. Len(ctl) => ctl'[i] = ctl[i]
    BY <1>3
  <2> QED
    BY <1>1, <1>3, <2>1, <2>2 DEF DepthInv
<1>8. \A i \in 1 .. Len(ctl') - 1 : ctl'[i + 1].base < ctl'[i].base + Room(ctl'[i])
  <2> TAKE i \in 1 .. Len(ctl') - 1
  <2>1. i = Len(ctl) \/ (i \in 1 .. Len(ctl) - 1 /\ i + 1 \in 1 .. Len(ctl) /\ i \in 1 .. Len(ctl))
    BY <1>3
  <2>2. CASE i = Len(ctl)
    <3>1. ctl'[i] = Top /\ ctl'[i + 1] = f
      BY <1>3, <1>4, <2>2
    <3> QED
      BY <1>1, <3>1
  <2>3. CASE i \in 1 .. Len(ctl) - 1 /\ i + 1 \in 1 .. Len(ctl) /\ i \in 1 .. Len(ctl)
    BY <1>3, <2>3 DEF DepthInv
  <2> QED
    BY <2>1, <2>2, <2>3
<1>9. Len(vals') <= Top'.base + Room(Top')
  BY <1>1, <1>4, DepthNow DEF Room
<1> QED
  BY <1>5, <1>6, <1>7, <1>8, <1>9 DEF DepthInv, Room

LEMMA BeginBinopDepth ==
  ASSUME PoolInv, DepthInv, NEW op \in Ops, BeginBinop(op)
  PROVE  DepthInv'
<1>1. op \in BinaryOps /\ Level(op) \in 0 .. 3
  BY CodeGenAssumption, LevelsOrder
<1>2. UNCHANGED << vals, be >>
  BY DEF BeginBinop
<1>3. CASE ExprWanted /\ Push(BinopFrame(op, TRUE))
  <2>1. Len(vals) = 0 /\ Len(vals) < Top.base + Room(Top)
    BY <1>3, DepthNow DEF ExprWanted, StmtWanted, InBody, InIf, Room
  <2>2. Len(vals) <= Level(op) /\ TRUE \in BOOLEAN
    BY <1>1, <2>1
  <2> QED
    BY <1>1, <1>2, <1>3, <2>1, <2>2, PushDepth
<1>4. CASE RhsWanted
  BY <1>4, DepthNow DEF RhsWanted
<1>5. CASE /\ Top.k = "binop" /\ Delivered = 1
           /\ Precedence[op] > Precedence[Top.op]
           /\ Push(BinopFrame(op, FALSE))
  <2>1. Precedence[op] \in Nat /\ Precedence[Top.op] \in Nat
    BY <1>1, <1>5, DepthNow, PrecedenceIsNat
  <2>2. Level(Top.op) < Level(op)
    BY <1>1, <1>5, <2>1, DepthNow, LevelsOrder
  <2>3. Len(vals) <= Level(op) /\ Len(vals) < Top.base + Room(Top)
    BY <1>1, <1>5, <2>2, DepthNow DEF Room
  <2> QED
    BY <1>1, <1>2, <1>5, <2>3, PushDepth
<1> QED
  BY <1>3, <1>4, <1>5 DEF BeginBinop

LEMMA EndBinopDepth ==
  ASSUME PoolInv, DepthInv, ScratchCnt >= 6, EndBinop
  PROVE  DepthInv'
<1> DEFINE k == Len(vals) - 1
           l == vals[k].reg
           r == vals[k + 1].reg
           b == GenBinop(be, Top.op, l, r)
           e == Term(Top.op, Opd(k), Opd(k + 1))
<1>1. Running /\ Top.k = "binop" /\ Delivered = 2
  BY DEF EndBinop
<1>2. /\ Top.op \in BinaryOps /\ Len(vals) \in Nat /\ Top.base \in 0 .. 3 /\ Len(vals) = Top.base + 2
      /\ Len(ctl) > 1 /\ Len(ctl) \in Nat
  <2>1. /\ Top.op \in BinaryOps /\ Level(Top.op) \in 0 .. 3 /\ Top.base <= Level(Top.op) /\ Top.base \in Nat
        /\ Len(ctl) # 1 /\ Len(ctl) \in Nat /\ Len(ctl) >= 1
        /\ Len(vals) \in Nat /\ Len(vals) - Top.base = 2
    BY <1>1, DepthNow
  <2> DEFINE t == Top.base
             n == Len(vals)
             m == Len(ctl)
             v == Level(Top.op)
  <2>2. t \in Nat /\ n \in Nat /\ m \in Nat /\ v \in 0 .. 3 /\ t <= v /\ n - t = 2 /\ m >= 1 /\ m # 1
    BY <2>1
  <2> HIDE DEF t, n, m, v
  <2>3. t \in 0 .. 3 /\ n = t + 2 /\ m > 1
    BY <2>2
  <2> QED
    BY <2>1, <2>3 DEF t, n, m
<1>3. ScratchCnt \in Nat
  BY ScratchCntIsNat
<1>4. Free(be) # {} /\ be.err = "none" /\ vals \in Seq(Results)
  BY <1>1, <1>2, <1>3, OneIsFree, PoolNow
<1>5. k \in 1 .. Len(vals) + 1 /\ l \in Regs /\ r \in Regs
  <2>1. k \in 1 .. Len(vals) /\ k + 1 \in 1 .. Len(vals)
    BY <1>2
  <2> QED
    BY <1>4, <2>1, ResultFields
<1> HIDE DEF l, r
<1>6. BackendOK(b) /\ b.err = "none"
  BY <1>2, <1>4, <1>5, BinopReplaces, BinopAllocates DEF PoolInv, TypeInv
<1>7. Deliver(b, k, e) /\ ctl' = Pop(ctl)
  BY DEF EndBinop, l, r
<1> HIDE DEF k, b, e
<1>8. be'.err = "none" /\ Len(vals') = k
  BY <1>4, <1>5, <1>6, <1>7, DeliverOK
<1>9. Len(ctl') = Len(ctl) - 1 /\ \A i \in 1 .. Len(ctl) - 1 : ctl'[i] = ctl[i]
  BY <1>2, <1>7, PopFacts DEF PoolInv, TypeInv, ControlOK
<1>10. Len(vals') <= Top'.base + Room(Top')
  <2>1. Top' = ctl[Len(ctl) - 1] /\ Len(ctl) - 1 \in 1 .. Len(ctl) - 1 /\ Top = ctl[Len(ctl) - 1 + 1]
    BY <1>2, <1>9 DEF Top
  <2>2. Top.base < Top'.base + Room(Top')
    BY <2>1 DEF DepthInv, Room
  <2>3. Top'.base \in Nat /\ Room(Top') \in Nat
    BY <1>2, <2>1 DEF PoolInv, TypeInv, ControlOK, FrameOK, Room
  <2> QED
    BY <1>2, <1>8, <2>2, <2>3, SMTT(30) DEF k
<1>11. \A i \in 1 .. Len(ctl') : ctl'[i] = ctl[i] /\ i \in 1 .. Len(ctl)
  BY <1>2, <1>9
<1>12. \A i \in 1 .. Len(ctl') : ctl'[i].k \in {"prog", "binop"}
  BY <1>11 DEF DepthInv
<1>13. ctl'[1].base = 0
  <2>1. 1 \in 1 .. Len(ctl')
    BY <1>2, <1>9
  <2> QED
    BY <1>11, <2>1 DEF DepthInv
<1>14. \A i \in 2 .. Len(ctl') : /\ ctl'[i].base <= Level(ctl'[i].op)
                                 /\ ctl'[i].root => ctl'[i].base = 0
  <2> TAKE i \in 2 .. Len(ctl')
  <2>1. i \in 1 .. Len(ctl') /\ i \in 2 .. Len(ctl)
    BY <1>2, <1>9
  <2> QED
    BY <1>11, <2>1 DEF DepthInv
<1>15. \A i \in 1 .. Len(ctl') - 1 : ctl'[i + 1].base < ctl'[i].base + Room(ctl'[i])
  <2> TAKE i \in 1 .. Len(ctl') - 1
  <2>1. i \in 1 .. Len(ctl') /\ i + 1 \in 1 .. Len(ctl') /\ i \in 1 .. Len(ctl) - 1
    BY <1>2, <1>9
  <2> QED
    BY <1>11, <2>1 DEF DepthInv
<1>16. be'.err # "no_register"
  BY <1>8
<1> QED
  BY <1>10, <1>12, <1>13, <1>14, <1>15, <1>16 DEF DepthInv, Room
LEMMA LeavesDepth ==
  ASSUME PoolInv, DepthInv, ScratchCnt >= 6,
         GenInt \/ \E x \in InScope : GenVar(x) \/ GenDeref(x) \/ GenAddr(x) \/ GenIndex(x)
  PROVE  DepthInv'
<1>1. Running /\ AtomWanted /\ UNCHANGED ctl
  BY DEF GenInt, GenVar, GenDeref, GenAddr, GenIndex, Leaf
<1>2. ASSUME NEW op, NEW src
      PROVE  BackendOK(Load(be, op, src)) /\ Allocates(be, Load(be, op, src))
  <2>1. BackendOK(be)
    BY DEF PoolInv, TypeInv
  <2> QED
    BY <2>1, LoadTakesFree, LoadAllocates DEF Allocates
<1>3. ASSUME NEW x
      PROVE  BackendOK(VarAccess(be, x)) /\ Allocates(be, VarAccess(be, x))
  BY <1>2 DEF VarAccess
<1>4. ASSUME NEW x, NEW c \in {AddressOf(be, x), ElementAddr(be, x)}
      PROVE  BackendOK(c) /\ Allocates(be, c)
  BY <1>4, AddressTakesFree, AddressAllocates DEF PoolInv, TypeInv
<1>5. PICK b, e : BackendOK(b) /\ Allocates(be, b) /\ Deliver(b, Len(vals) + 1, e)
  <2>1. CASE GenInt
    BY <1>2, <2>1 DEF GenInt
  <2>2. CASE \E x \in InScope : GenVar(x) \/ GenDeref(x)
    BY <1>3, <2>2 DEF GenVar, GenDeref
  <2>3. CASE \E x \in InScope : GenAddr(x) \/ GenIndex(x)
    BY <1>4, <2>3 DEF GenAddr, GenIndex
  <2> QED
    BY <2>1, <2>2, <2>3
<1> QED
  BY <1>1, <1>5, LeafDepth

\* After a statement of the program nothing is pending.
LEMMA StatementDepth ==
  ASSUME PoolInv, DepthInv, Statement \/ LastStatement
  PROVE  DepthInv'
<1> DEFINE k == Len(vals)
           r == vals[k].reg
           d == RegDealloc(be, r)
           e == SetFuncRetVal(d, r)
           f == [Top EXCEPT !.n = @ + 1]
           g == [Top EXCEPT !.n = @ + 1, !.ph = "ret", !.val = Last(vals).val]
<1>1. /\ Running /\ Len(vals) = 1 /\ Len(ctl) = 1 /\ ctl[1] = Top /\ Top.k = "prog" /\ Top.base = 0
  <2>1. Running /\ Top.k \in {"prog", "func"} /\ Delivered = 1
    BY DEF Statement, LastStatement, InBody
  <2>2. Top.k = "prog"
    BY <2>1, DepthNow
  <2>3. Len(ctl) = 1 /\ Top.base = 0 /\ Len(vals) \in Nat /\ Len(vals) - Top.base = 1
    BY <2>1, <2>2, DepthNow
  <2> QED
    BY <2>1, <2>2, <2>3 DEF Top
<1>2. f.k = "prog" /\ g.k = "prog" /\ f.base = 0 /\ g.base = 0
  <2>1. BodyOK(Top) /\ Top.base = 0
    BY <1>1, TopFacts, FrameKinds DEF PoolInv, TypeInv
  <2>2. DOMAIN Top = {"k", "ph", "n", "argc", "base", "val", "saved"}
    BY <2>1 DEF BodyOK
  <2> QED
    BY <1>1, <2>2
<1>4. BackendOK(d) /\ d.err = "none"
  BY <1>1, PoolNow, DeallocFrees DEF PoolInv, TypeInv
<1> HIDE DEF d
<1>5. BackendOK(e) /\ e.err = "none"
  BY <1>4, EmitKeeps DEF SetFuncRetVal
<1> HIDE DEF e
<1>6. /\ Become(f) \/ Become(g)
      /\ \/ Consume(d, k, Nowhere, Junk, Junk)
         \/ Consume(e, k, InReg(RAX), Opd(k), Returned)
  BY DEF Statement, LastStatement, Last, d, e
<1>7. k \in 1 .. Len(vals) + 1 /\ k = 1 /\ vals \in Seq(Results)
  BY <1>1 DEF PoolInv, TypeInv
<1> HIDE DEF f, g, k, r
<1>8. PICK h : Become(h) /\ h.k = "prog" /\ h.base = 0
  BY <1>2, <1>6
<1>9. Len(ctl') = 1 /\ ctl'[1] = h /\ Top' = h
  <2>1. IsSeq(ctl) /\ Len(ctl) > 0
    BY <1>1 DEF PoolInv, TypeInv, ControlOK
  <2> QED
    BY <1>1, <1>8, <2>1, BecomeFacts DEF Become, Top
<1>10. be'.err = "none" /\ Len(vals') = 0
  BY <1>4, <1>5, <1>6, <1>7, ConsumeOK
<1> QED
  BY <1>8, <1>9, <1>10 DEF DepthInv, Room

LEMMA InitDepth == Init => DepthInv
<1> SUFFICES ASSUME Init PROVE DepthInv
  OBVIOUS
<1>1. be.err = "none"
  BY InitBackendOK, EmitKeeps DEF Init, FuncHeader
<1>2. Len(ctl) = 1 /\ ctl[1].k = "prog" /\ ctl[1].base = 0 /\ Len(vals) = 0
  BY DEF Init
<1> QED
  BY <1>1, <1>2 DEF DepthInv, Top, Room

LEMMA NextDepth ==
  ASSUME Kinds \subseteq AtomKinds, ScratchCnt >= 6
  PROVE  PoolInv /\ DepthInv /\ [Next]_vars => DepthInv'
<1> SUFFICES ASSUME PoolInv, DepthInv, [Next]_vars PROVE DepthInv'
  OBVIOUS
<1>1. Top.k \in {"prog", "binop"}
  BY DepthNow
<1>2. CASE UNCHANGED vars
  BY <1>2 DEF DepthInv, Top, vars
<1>3. CASE Next
  <2>1. ASSUME NEW kind, Inner(kind)
        PROVE  kind \in AtomKinds
    BY <2>1 DEF Inner
  <2>2. /\ ~Inner("if") /\ ~Inner("reassign") /\ ~Inner("store") /\ ~Inner("decl")
        /\ ~Inner("function") /\ ~Inner("call") /\ ~Inner("ext_call")
    BY <2>1 DEF AtomKinds
  <2>3. ~BeginIf /\ \A x : ~BeginAssign(x) /\ ~BeginStore(x) /\ ~Declare(x)
    BY <2>2 DEF BeginIf, BeginAssign, BeginStore, Declare
  <2>4. \A argc : ~BeginFunc(argc) /\ \A ext : ~BeginCall(ext, argc)
    <3>1. ASSUME NEW argc PROVE ~BeginFunc(argc)
      BY <2>2 DEF BeginFunc
    <3>2. ASSUME NEW argc, NEW ext PROVE ~BeginCall(ext, argc)
      BY <2>2 DEF BeginCall
    <3> QED
      BY <3>1, <3>2
  <2>5. ~(CallArg \/ EndCall \/ EndAssign \/ EndStore \/ EndFunc)
    BY <1>1 DEF CallArg, EndCall, EndAssign, EndStore, EndFunc
  <2>6. ~(IfCondition \/ IfStatement \/ EndThen \/ EndElse)
    BY <1>1 DEF IfCondition, IfStatement, EndThen, EndElse, InIf, BodyEnded
  <2>7. \/ GenInt \/ \E x \in InScope : GenVar(x) \/ GenDeref(x) \/ GenAddr(x) \/ GenIndex(x)
        \/ \E op \in Ops : BeginBinop(op)
        \/ EndBinop \/ Statement \/ LastStatement \/ UNCHANGED vars
    BY <1>3, <2>3, <2>4, <2>5, <2>6 DEF Next, Stopped
  <2> QED
    BY <1>2, <2>7, LeavesDepth, BeginBinopDepth, EndBinopDepth, StatementDepth
<1> QED
  BY <1>2, <1>3

(***************************************************************************)
(* A program of literals, variables, pointers, array elements and          *)
(* operators never runs out of registers, however long its expressions     *)
(* are, if there are at least six scratch registers (the code has seven).  *)
(* The operators have four levels of precedence and the right operand of   *)
(* an operator binds tighter, so at most five operands are pending; the    *)
(* sixth register is the copy div_and_mod makes of its divisor.  With      *)
(* conditions this is false: their results stay pending to any depth.      *)
(***************************************************************************)
THEOREM NeverOutOfRegistersHolds ==
  ASSUME Kinds \subseteq AtomKinds, ScratchCnt >= 6
  PROVE  Spec => []NeverOutOfRegisters
<1>1. Kinds \subseteq ExprKinds
  BY DEF AtomKinds, ExprKinds
<1>2. Init => PoolInv /\ DepthInv
  BY InitPool, InitDepth
<1>3. PoolInv /\ DepthInv /\ [Next]_vars => (PoolInv /\ DepthInv)'
  BY <1>1, NextPool, NextDepth
<1>4. DepthInv => NeverOutOfRegisters
  BY DEF DepthInv, NeverOutOfRegisters
<1> QED
  BY <1>2, <1>3, <1>4, PTL DEF Spec

-----------------------------------------------------------------------------
(***************************************************************************)
(* No leak: a register in use is that of a pending operand, for every kind *)
(* of node but the two that keep a register for good: the assignment to a  *)
(* variable, and the arguments of an external call.  The converse, which   *)
(* PoolCorrect states, fails as soon as there are calls (the value of a    *)
(* call stays in RAX, not marked), so the operators must be looked at      *)
(* again without knowing that their operands are marked and different.     *)
(***************************************************************************)
Held(u, v) == u \subseteq {v[i].reg : i \in 1 .. Len(v)}

Frees(f) == f.k # "reassign" /\ (f.k = "call" => f.ext = FALSE)

NoLeak ==
  /\ \A i \in 1 .. Len(ctl) : Frees(ctl[i])
  /\ be.err = "none" => Held(be.used, vals)

LEMMA HeldDrop ==
  ASSUME NEW v \in Seq(Results), NEW u, Held(u, v), NEW k \in 1 .. Len(v) + 1,
         NEW w, w \subseteq u \ From(v, k)
  PROVE  Held(w, SubSeq(v, 1, k - 1))
<1> DEFINE s == SubSeq(v, 1, k - 1)
<1>1. Len(s) = k - 1 /\ \A i \in 1 .. k - 1 : s[i] = v[i]
  BY DropFacts
<1> HIDE DEF s
<1>2. Len(v) \in Nat
  OBVIOUS
<1>3. ASSUME NEW r \in w
      PROVE  r \in {s[i].reg : i \in 1 .. Len(s)}
  <2>1. r \in u /\ r \notin From(v, k)
    BY <1>3
  <2>2. PICK i \in 1 .. Len(v) : r = v[i].reg
    BY <2>1 DEF Held
  <2>3. i \in 1 .. k - 1
    BY <1>2, <2>1, <2>2 DEF From
  <2> QED
    BY <1>1, <2>2, <2>3
<1>4. Held(w, s)
  BY <1>3 DEF Held
<1> QED
  BY <1>4 DEF s

LEMMA HeldReplace ==
  ASSUME NEW v \in Seq(Results), NEW u, Held(u, v), NEW k \in 1 .. Len(v) + 1,
         NEW x \in Results, NEW w, w \subseteq (u \ From(v, k)) \cup {x.reg}
  PROVE  Held(w, Append(SubSeq(v, 1, k - 1), x))
<1> DEFINE s == SubSeq(v, 1, k - 1)
           t == Append(s, x)
<1>1. s \in Seq(Results) /\ Len(s) \in Nat
  BY DropFacts
<1>2. Held(w \ {x.reg}, s)
  <2>1. w \ {x.reg} \subseteq u \ From(v, k)
    OBVIOUS
  <2> QED
    BY <2>1, HeldDrop
<1> HIDE DEF s
<1>3. Len(t) = Len(s) + 1 /\ (\A i \in 1 .. Len(s) : t[i] = s[i]) /\ t[Len(t)] = x
  BY <1>1
<1> HIDE DEF t
<1>4. ASSUME NEW r \in w
      PROVE  r \in {t[i].reg : i \in 1 .. Len(t)}
  <2>1. CASE r = x.reg
    BY <1>1, <1>3, <2>1, SMTT(30)
  <2>2. CASE r # x.reg
    <3>1. PICK i \in 1 .. Len(s) : r = s[i].reg
      BY <1>2, <2>2 DEF Held
    <3> QED
      BY <1>1, <1>3, <3>1
  <2> QED
    BY <2>1, <2>2
<1>5. Held(w, t)
  BY <1>4 DEF Held
<1> QED
  BY <1>5 DEF t, s

-----------------------------------------------------------------------------
(* What the operators may leave in use. *)

\* Of the registers b uses, c still uses at most those not in gone, and its result.
Leaves(b, c, gone) == c.err = "none" => c.used \subseteq (b.used \ gone) \cup {c.res}

LEMMA BinopLeaves ==
  ASSUME NEW b, BackendOK(b), NEW op \in BinaryOps, NEW l \in Regs, NEW r \in Regs
  PROVE  Leaves(b, GenBinop(b, op, l, r), {l, r})
<1>1. CASE op \in {"==", "<", ">"}
  <2> DEFINE a == RegAlloc(b)
             e == Emit(a, << << "zero", a.res >>, << "cmp", r, l >>, << "setcc", op, a.res >> >>)
             f == RegDealloc(e, r)
             g == RegDealloc(f, l)
  <2>1. GenBinop(b, op, l, r) = g
    BY <1>1 DEF GenBinop, GenCompare
  <2>2. BackendOK(a) /\ (a.err = "none" => a.used = b.used \cup {a.res})
    BY AllocTakesFree
  <2> HIDE DEF a
  <2>3. BackendOK(e) /\ e.used = a.used /\ e.res = a.res /\ e.err = a.err
    BY <2>2, EmitKeeps
  <2> HIDE DEF e
  <2>4. BackendOK(f) /\ f.used = e.used \ {r} /\ f.res = e.res /\ f.err = e.err
    BY <2>3, DeallocFrees
  <2> HIDE DEF f
  <2>5. BackendOK(g) /\ g.used = f.used \ {l} /\ g.res = f.res /\ g.err = f.err
    BY <2>4, DeallocFrees
  <2> HIDE DEF g
  <2> QED
    BY <2>1, <2>2, <2>3, <2>4, <2>5 DEF Leaves
<1>2. CASE op \in {"+", "*", "-", "<<", ">>"}
  <2>1. PICK code : \/ GenBinop(b, op, l, r) = Returning(RegDealloc(Emit(b, code), r), l)
                    \/ GenBinop(b, op, l, r) = Returning(RegDealloc(Emit(b, code), l), r)
    <3>1. op \in {"+", "*", "-"} \/ GenBinop(b, op, l, r) = BitShift(b, op, l, r)
      BY <1>2 DEF GenBinop
    <3>2. \E code : BitShift(b, op, l, r) = Returning(RegDealloc(Emit(b, code), r), l)
      BY DEF BitShift
    <3>3. op \in {"+", "*", "-"} => \E code : \/ GenBinop(b, op, l, r) = Returning(RegDealloc(Emit(b, code), r), l)
                                              \/ GenBinop(b, op, l, r) = Returning(RegDealloc(Emit(b, code), l), r)
      BY DEF GenBinop, GenAdd, GenSub, GenMul
    <3> QED
      BY <3>1, <3>2, <3>3
  <2> DEFINE e == Emit(b, code)
             p == RegDealloc(e, r)
             q == RegDealloc(e, l)
             c == Returning(p, l)
             d == Returning(q, r)
  <2>2. BackendOK(e) /\ e.used = b.used
    BY EmitKeeps
  <2>3. GenBinop(b, op, l, r) \in {c, d}
    BY <2>1
  <2> HIDE DEF e
  <2>4. BackendOK(p) /\ p.used = e.used \ {r} /\ BackendOK(q) /\ q.used = e.used \ {l}
    BY <2>2, DeallocFrees
  <2> HIDE DEF p, q
  <2>5. c.used = p.used /\ c.res = l /\ d.used = q.used /\ d.res = r
    BY <2>4, ReturningReturns
  <2> HIDE DEF c, d
  <2> QED
    BY <2>2, <2>3, <2>4, <2>5 DEF Leaves
<1>3. CASE op \in {"/", "%"}
  <2> DEFINE saves(ins) == (IF Pushed(b, RAX, l, r) THEN << << ins, RAX >> >> ELSE << >>)
                           \o (IF Pushed(b, RDX, l, r) THEN << << ins, RDX >> >> ELSE << >>)
             clash == r \in {RAX, RDX}
             a     == IF clash THEN RegAlloc(b) ELSE Returning(b, r)
             copy  == IF clash THEN << << "mov", r, a.res >> >> ELSE << >>
             out   == IF op = "/" THEN RAX ELSE RDX
             dest  == IF out \in {l, r} THEN out ELSE l
             move  == IF out \in {l, r} THEN << >> ELSE << << "mov", out, l >> >>
             code  == saves("push") \o copy
                      \o << << "mov", l, RAX >>, << "cqo" >>, << "idiv", a.res >> >>
                      \o move \o saves("pop")
             d     == Emit(a, code)
             freed == (IF clash THEN {a.res} ELSE {}) \cup ({l, r} \ {dest})
             g     == [d EXCEPT !.used = @ \ freed, !.res = dest]
  <2>1. GenBinop(b, op, l, r) = g
    <3>1. GenBinop(b, op, l, r) = DivMod(b, op, l, r)
      BY <1>3 DEF GenBinop
    <3> QED
      BY <3>1 DEF DivMod
  <2>2. /\ BackendOK(a)
        /\ clash /\ a.err = "none" => a.used = b.used \cup {a.res}
        /\ ~clash => a.used = b.used
    BY AllocTakesFree, ReturningReturns
  <2> HIDE DEF a, dest, code
  <2>3. BackendOK(d) /\ d.used = a.used /\ d.err = a.err
    BY <2>2, EmitKeeps
  <2> HIDE DEF d
  <2>4. g.used = d.used \ freed /\ g.res = dest /\ g.err = d.err
    BY <2>3 DEF BackendOK, BackendFields
  <2> HIDE DEF g
  <2> QED
    BY <2>1, <2>2, <2>3, <2>4 DEF Leaves
<1> QED
  BY <1>1, <1>2, <1>3 DEF BinaryOps

\* The pool when the value of a call has been copied from RAX.
LEMMA CopyRetValUses ==
  ASSUME NEW b, BackendOK(b)
  PROVE  LET c == CopyRetVal(b)
         IN  BackendOK(c) /\ (c.err = "none" => c.used \subseteq b.used \cup {c.res})
<1>1. CASE b.raxInUse
  BY <1>1, LoadTakesFree DEF CopyRetVal
<1>2. CASE ~b.raxInUse
  BY <1>2, ReturningReturns, RegsAre DEF CopyRetVal
<1> QED
  BY <1>1, <1>2

LEMMA PreparedUses ==
  ASSUME NEW b, BackendOK(b), NEW kind \in {"EXTERNAL", "INTERNAL"}
  PROVE  BackendOK(Prepared(b, kind)) /\ Prepared(b, kind).used = b.used
<1>1. "wrong_call_type" \in Errors
  BY DEF Errors
<1>2. [b EXCEPT !.call = kind].used = b.used
  BY DEF BackendOK, BackendFields
<1> QED
  BY <1>1, <1>2, PreparedOK, FailKeeps DEF Prepared

LEMMA CleanupResult ==
  ASSUME NEW b, BackendOK(b)
  PROVE  Cleanup(b).res = b.res /\ Cleanup(b).err = b.err
<1> DEFINE drop == IF b.call = "INTERNAL" /\ b.nargs > 0 THEN << << "addsp", b.nargs >> >> ELSE << >>
           pop  == IF b.raxInUse THEN << << "pop", RAX >> >> ELSE << >>
           e == Emit(b, drop \o pop)
<1>1. BackendOK(e) /\ e.res = b.res /\ e.err = b.err
  BY EmitKeeps
<1>2. Cleanup(b) = [e EXCEPT !.raxInUse = FALSE, !.nargs = 0, !.call = "NONE"]
  BY DEF Cleanup
<1> HIDE DEF e
<1> QED
  BY <1>1, <1>2 DEF BackendOK, BackendFields

-----------------------------------------------------------------------------
(* The activations. *)

LEMMA FreesPush ==
  ASSUME TypeInv, NoLeak, NEW f, Frees(f), Push(f)
  PROVE  \A i \in 1 .. Len(ctl') : Frees(ctl'[i])
<1>1. IsSeq(ctl)
  BY DEF TypeInv, ControlOK
<1>2. /\ Len(ctl) \in Nat /\ Len(ctl') = Len(ctl) + 1 /\ ctl'[Len(ctl) + 1] = f
      /\ \A i \in 1 .. Len(ctl) : ctl'[i] = ctl[i]
  BY <1>1, AppendFacts, SeqFacts DEF Push
<1> QED
  BY <1>2 DEF NoLeak

LEMMA FreesPop ==
  ASSUME TypeInv, NoLeak, ctl' = Pop(ctl)
  PROVE  \A i \in 1 .. Len(ctl') : Frees(ctl'[i])
<1>1. IsSeq(ctl) /\ Len(ctl) \in Nat /\ Len(ctl) > 0
  BY TopFacts DEF TypeInv, ControlOK
<1>2. Len(ctl') = Len(ctl) - 1 /\ \A i \in 1 .. Len(ctl) - 1 : ctl'[i] = ctl[i]
  BY <1>1, PopFacts
<1> QED
  BY <1>1, <1>2 DEF NoLeak

LEMMA FreesBecome ==
  ASSUME TypeInv, NoLeak, NEW f, Frees(Top) => Frees(f), Become(f)
  PROVE  \A i \in 1 .. Len(ctl') : Frees(ctl'[i])
<1>1. IsSeq(ctl) /\ Len(ctl) \in Nat /\ Len(ctl) > 0
  BY TopFacts DEF TypeInv, ControlOK
<1>2. /\ Len(ctl') = Len(ctl) /\ ctl'[Len(ctl)] = f
      /\ \A i \in 1 .. Len(ctl) - 1 : ctl'[i] = ctl[i]
  BY <1>1, BecomeFacts DEF Become
<1>3. Frees(Top)
  BY <1>1 DEF NoLeak, Top
<1> QED
  BY <1>1, <1>2, <1>3 DEF NoLeak

LEMMA LeakNow ==
  ASSUME TypeInv, NoLeak, Running
  PROVE  /\ BackendOK(be) /\ be.err = "none" /\ Held(be.used, vals) /\ vals \in Seq(Results) /\ Len(vals) \in Nat
         /\ Len(ctl) \in Nat /\ Frees(Top) /\ FrameOK(Top) /\ Top.base \in Nat /\ Top.base <= Len(vals)
<1>1. be.err = "none" /\ vals \in Seq(Results)
  BY DEF Running, TypeInv
<1>2. Frees(Top)
  BY TopFacts DEF NoLeak, Top, TypeInv
<1> QED
  BY <1>1, <1>2, TopFacts DEF NoLeak, TypeInv

HeldAfter == be'.err = "none" => Held(be'.used, vals')

\* A node whose result replaces the operands from number k on.
LEMMA DeliverHeld ==
  ASSUME TypeInv, NoLeak, Running, NEW k \in 1 .. Len(vals) + 1, NEW b, BackendOK(b),
         Leaves(be, b, From(vals, k)), NEW e, Deliver(b, k, e)
  PROVE  HeldAfter
<1> DEFINE x == Result(b.res, TRUE)
<1>1. Held(be.used, vals) /\ vals \in Seq(Results)
  BY LeakNow
<1>2. x \in Results /\ x.reg = b.res
  BY ResultIsResult DEF BackendOK
<1> HIDE DEF x
<1>3. be'.used = b.used /\ be'.err = b.err /\ vals' = Append(SubSeq(vals, 1, k - 1), x)
  BY <1>1, DeliverOK DEF x
<1>4. b.err = "none" => b.used \subseteq (be.used \ From(vals, k)) \cup {x.reg}
  BY <1>2 DEF Leaves
<1>5. b.err = "none" => Held(b.used, Append(SubSeq(vals, 1, k - 1), x))
  BY <1>1, <1>2, <1>4, HeldReplace
<1> QED
  BY <1>3, <1>5 DEF HeldAfter

\* A node without a result register.
LEMMA DeliverNothingHeld ==
  ASSUME TypeInv, NoLeak, Running, NEW k \in 1 .. Len(vals) + 1, NEW b, BackendOK(b),
         b.err = "none" => b.used \subseteq be.used \ From(vals, k), DeliverNothing(b, k)
  PROVE  HeldAfter
<1>1. Held(be.used, vals) /\ vals \in Seq(Results)
  BY LeakNow
<1>2. NoResult \in Results
  BY ResultIsResult, RegsAre DEF NoResult
<1>3. be'.used = b.used /\ be'.err = b.err /\ vals' = Append(SubSeq(vals, 1, k - 1), NoResult)
  BY SettledKeeps DEF DeliverNothing
<1>4. b.err = "none" => Held(b.used, Append(SubSeq(vals, 1, k - 1), NoResult))
  BY <1>1, <1>2, HeldReplace
<1> QED
  BY <1>3, <1>4 DEF HeldAfter

\* Operands consumed without a result.
LEMMA ConsumeHeld ==
  ASSUME TypeInv, NoLeak, Running, NEW k \in 1 .. Len(vals) + 1, NEW b, BackendOK(b),
         b.used \subseteq be.used \ From(vals, k), NEW at, NEW from, NEW to,
         Consume(b, k, at, from, to)
  PROVE  HeldAfter
<1>1. Held(be.used, vals) /\ vals \in Seq(Results)
  BY LeakNow
<1>2. be'.used = b.used /\ vals' = SubSeq(vals, 1, k - 1)
  BY <1>1, ConsumeOK
<1>3. Held(b.used, SubSeq(vals, 1, k - 1))
  BY <1>1, HeldDrop
<1> QED
  BY <1>2, <1>3 DEF HeldAfter

-----------------------------------------------------------------------------
LEMMA LeavesHeld ==
  ASSUME TypeInv, NoLeak,
         GenInt \/ \E x \in InScope : GenVar(x) \/ GenDeref(x) \/ GenAddr(x) \/ GenIndex(x)
  PROVE  NoLeak'
<1>1. Running /\ UNCHANGED ctl
  BY DEF GenInt, GenVar, GenDeref, GenAddr, GenIndex, Leaf
<1>2. ASSUME NEW op, NEW src
      PROVE  BackendOK(Load(be, op, src)) /\ TakesFree(be, Load(be, op, src))
  BY LoadTakesFree DEF TakesFree, TypeInv
<1>3. ASSUME NEW x
      PROVE  BackendOK(VarAccess(be, x)) /\ TakesFree(be, VarAccess(be, x))
  BY <1>2 DEF VarAccess
<1>4. ASSUME NEW x, NEW c \in {AddressOf(be, x), ElementAddr(be, x)}
      PROVE  BackendOK(c) /\ TakesFree(be, c)
  BY <1>4, AddressTakesFree DEF TakesFree, TypeInv
<1>5. PICK b, e : BackendOK(b) /\ TakesFree(be, b) /\ Deliver(b, Len(vals) + 1, e)
  <2>1. CASE GenInt
    BY <1>2, <2>1 DEF GenInt
  <2>2. CASE \E x \in InScope : GenVar(x) \/ GenDeref(x)
    BY <1>3, <2>2 DEF GenVar, GenDeref
  <2>3. CASE \E x \in InScope : GenAddr(x) \/ GenIndex(x)
    BY <1>4, <2>3 DEF GenAddr, GenIndex
  <2> QED
    BY <2>1, <2>2, <2>3
<1> DEFINE k == Len(vals) + 1
<1>6. k \in 1 .. Len(vals) + 1 /\ From(vals, k) = {} /\ Deliver(b, k, e)
  BY <1>1, <1>5, LeakNow, FromFacts
<1> HIDE DEF k
<1>7. Leaves(be, b, From(vals, k))
  BY <1>5, <1>6 DEF Leaves, TakesFree
<1>8. HeldAfter
  BY <1>1, <1>5, <1>6, <1>7, DeliverHeld
<1> QED
  BY <1>1, <1>8 DEF NoLeak, HeldAfter

\* Entering an activation touches neither operands nor pool.
LEMMA BeginHeld ==
  ASSUME TypeInv, NoLeak, Running, NEW f, Frees(f), Push(f), UNCHANGED vals, be'.used = be.used
  PROVE  NoLeak'
<1>1. Held(be.used, vals)
  BY LeakNow
<1>2. \A i \in 1 .. Len(ctl') : Frees(ctl'[i])
  BY FreesPush
<1> QED
  BY <1>1, <1>2 DEF NoLeak

LEMMA BeginsHeld ==
  ASSUME TypeInv, NoLeak, "reassign" \notin Kinds, "ext_call" \notin Kinds,
         \/ BeginIf \/ \E op \in Ops : BeginBinop(op)
         \/ \E x \in InScope : BeginAssign(x) \/ BeginStore(x)
         \/ \E argc \in 0 .. MaxArgs : BeginFunc(argc) \/ \E ext \in BOOLEAN : BeginCall(ext, argc)
  PROVE  NoLeak'
<1>1. CASE BeginIf
  <2>1. Frees(IfFrame) /\ Running /\ Push(IfFrame) /\ UNCHANGED << vals, be >>
    BY <1>1 DEF BeginIf, Inner, Frees, IfFrame
  <2> QED
    BY <2>1, BeginHeld
<1>2. CASE \E op \in Ops : BeginBinop(op)
  <2>1. PICK op, root : Push(BinopFrame(op, root)) /\ Running /\ UNCHANGED << vals, be >>
    BY <1>2 DEF BeginBinop, Inner
  <2>2. Frees(BinopFrame(op, root))
    BY DEF Frees, BinopFrame
  <2> QED
    BY <2>1, <2>2, BeginHeld
<1>3. CASE \E x \in InScope : BeginAssign(x) \/ BeginStore(x)
  <2>1. PICK x : BeginStore(x)
    BY <1>3 DEF BeginAssign, Inner
  <2>2. Push(AssignFrame("store", x)) /\ Running /\ UNCHANGED << vals, be >>
    BY <2>1 DEF BeginStore, Inner
  <2>3. Frees(AssignFrame("store", x))
    BY DEF Frees, AssignFrame
  <2> QED
    BY <2>2, <2>3, BeginHeld
<1>4. CASE \E argc \in 0 .. MaxArgs : BeginFunc(argc)
  <2>1. PICK argc \in 0 .. MaxArgs : BeginFunc(argc)
    BY <1>4
  <2> DEFINE f == Body("func", argc, [cg |-> cg, cpu |-> be.cpu, live |-> be.live])
             b == [be EXCEPT !.cpu = InvokedCPU(argc), !.live = TRUE]
  <2>2. Frees(f)
    BY DEF Frees, Body
  <2>3. Push(f) /\ Running /\ UNCHANGED vals /\ be' = FuncHeader(b, InitialOffset)
    BY <2>1 DEF BeginFunc, Inner
  <2>4. BackendOK(b) /\ b.used = be.used
    BY DEF TypeInv, BackendOK, BackendFields
  <2> HIDE DEF b, f
  <2>5. be'.used = be.used
    BY <2>3, <2>4, EmitKeeps DEF FuncHeader
  <2> QED
    BY <2>2, <2>3, <2>5, BeginHeld
<1>5. CASE \E argc \in 0 .. MaxArgs : \E ext \in BOOLEAN : BeginCall(ext, argc)
  <2>1. PICK argc \in 0 .. MaxArgs, ext \in BOOLEAN : BeginCall(ext, argc)
    BY <1>5
  <2>2. ext = FALSE
    BY <2>1 DEF BeginCall, Inner
  <2>3. /\ Frees(CallFrame(ext, argc)) /\ Push(CallFrame(ext, argc)) /\ Running /\ UNCHANGED vals
        /\ be' = SetupFuncCall(be)
    BY <2>1, <2>2 DEF BeginCall, Inner, Frees, CallFrame
  <2>4. SetupFuncCall(be).used = be.used
    <3> DEFINE inUse == RAX \in be.used
               c == [be EXCEPT !.raxInUse = inUse]
               code == IF inUse THEN << << "push", RAX >> >> ELSE << >>
    <3>1. inUse \in BOOLEAN /\ "call_in_progress" \in Errors
      BY DEF Errors
    <3> HIDE DEF inUse
    <3>2. BackendOK(be) /\ BackendOK(c) /\ c.used = be.used
      BY <3>1 DEF TypeInv, BackendOK, BackendFields
    <3>3. Emit(c, code).used = c.used
      BY <3>2, EmitKeeps
    <3>4. Fail(be, "call_in_progress").used = be.used
      BY <3>1, <3>2, FailKeeps
    <3> QED
      BY <3>2, <3>3, <3>4 DEF SetupFuncCall, inUse
  <2> QED
    BY <2>3, <2>4, BeginHeld
<1> QED
  BY <1>1, <1>2, <1>3, <1>4, <1>5

LEMMA EndBinopHeld ==
  ASSUME TypeInv, NoLeak, EndBinop
  PROVE  NoLeak'
<1> DEFINE k == Len(vals) - 1
           l == vals[k].reg
           r == vals[k + 1].reg
           b == GenBinop(be, Top.op, l, r)
           e == Term(Top.op, Opd(k), Opd(k + 1))
<1>1. Top.k = "binop" /\ Top.op \in BinaryOps /\ Running
  BY TopFacts, FrameKinds, CodeGenAssumption DEF TypeInv, EndBinop, BinopOK
<1>2. Len(vals) \in Nat /\ Len(vals) >= 2
  BY TopFacts DEF TypeInv, EndBinop, Delivered
<1>3. k \in 1 .. Len(vals) + 1 /\ l \in Regs /\ r \in Regs
  BY <1>2, ResultFields DEF TypeInv
<1>4. From(vals, k) = {l, r}
  BY <1>2, FromFacts DEF TypeInv
<1> HIDE DEF l, r
<1>5. BackendOK(b) /\ Leaves(be, b, {l, r})
  BY <1>1, <1>3, BinopReplaces, BinopLeaves DEF TypeInv
<1>6. Deliver(b, k, e) /\ ctl' = Pop(ctl)
  BY DEF EndBinop, l, r
<1> HIDE DEF k, b, e
<1>7. HeldAfter
  BY <1>1, <1>3, <1>4, <1>5, <1>6, DeliverHeld
<1> QED
  BY <1>6, <1>7, FreesPop DEF NoLeak, HeldAfter

LEMMA CallArgHeld ==
  ASSUME TypeInv, NoLeak, CallArg
  PROVE  NoLeak'
<1> DEFINE k == Len(vals)
           r == vals[k].reg
           b == FuncArg(be, r)
           d == RegDealloc(b, r)
           f == [Top EXCEPT !.n = @ + 1]
<1>1. Running /\ Top.k = "call" /\ Delivered = 1
  BY DEF CallArg
<1>2. Top.ext = FALSE
  BY <1>1, LeakNow DEF Frees
<1>3. Len(vals) \in Nat /\ Len(vals) >= 1 /\ vals \in Seq(Results) /\ BackendOK(be)
  BY <1>1, LeakNow DEF Delivered
<1>4. From(vals, k) = {r} /\ k \in 1 .. Len(vals) + 1
  BY <1>3, FromFacts
<1>5. BackendOK(b) /\ b.used = be.used
  <2> DEFINE p == Prepared(be, "INTERNAL")
             q == [p EXCEPT !.nargs = @ + 1]
  <2>1. BackendOK(p) /\ p.used = be.used
    BY <1>3, PreparedUses
  <2> HIDE DEF p
  <2>2. BackendOK(q) /\ q.used = p.used
    BY <2>1 DEF BackendOK, BackendFields
  <2> HIDE DEF q
  <2>3. Emit(q, << << "push", r >> >>).used = q.used
    BY <2>2, EmitKeeps
  <2> QED
    BY <1>3, <2>1, <2>2, <2>3, ArgOK DEF FuncArg, q, p
<1>6. \E at, from, to : Consume(d, k, at, from, to)
  BY <1>2 DEF CallArg
<1>7. Frees(Top) => Frees(f)
  BY <1>1, LeakNow, FrameKinds DEF Frees, CallFrameOK
<1>8. Become(f)
  BY DEF CallArg
<1> HIDE DEF b, f
<1>9. BackendOK(d) /\ d.used = b.used \ {r}
  BY <1>5, DeallocFrees
<1> HIDE DEF d, r, k
<1>10. HeldAfter
  BY <1>1, <1>4, <1>5, <1>6, <1>9, ConsumeHeld
<1> QED
  BY <1>7, <1>8, <1>10, FreesBecome DEF NoLeak, HeldAfter

LEMMA EndCallHeld ==
  ASSUME TypeInv, NoLeak, EndCall
  PROVE  NoLeak'
<1> DEFINE f == Load(be, "lea", Code)
           p == Prepared(f, "INTERNAL")
           q == Emit(p, << << "call", f.res >> >>)
           c == FuncCall(f, f.res)
           d == IF c.res = f.res THEN c ELSE RegDealloc(c, f.res)
           g == Cleanup(d)
           k == Len(vals) + 1
<1>1. Running /\ Top.k = "call"
  BY DEF EndCall
<1>2. Top.ext = FALSE /\ BackendOK(be)
  BY <1>1, LeakNow DEF Frees
<1>3. Deliver(g, k, Own) /\ ctl' = Pop(ctl)
  BY <1>2 DEF EndCall
<1>4. k \in 1 .. Len(vals) + 1 /\ From(vals, k) = {}
  BY <1>1, LeakNow, FromFacts
<1>5. BackendOK(f) /\ (f.err = "none" => f.used = be.used \cup {f.res})
  BY <1>2, LoadTakesFree
<1>6. c = CopyRetVal(q)
  BY DEF FuncCall
<1> HIDE DEF f
<1>7. BackendOK(p) /\ p.used = f.used /\ (p.err = "none" => f.err = "none")
  <2>1. "wrong_call_type" \in Errors /\ "wrong_call_type" # "none"
    BY DEF Errors
  <2>2. p = [f EXCEPT !.call = "INTERNAL"] \/ p = Fail(f, "wrong_call_type")
    BY DEF Prepared
  <2>3. p = [f EXCEPT !.call = "INTERNAL"] => p.err = f.err
    BY <1>5 DEF BackendOK, BackendFields
  <2>4. p = Fail(f, "wrong_call_type") => p.err = "wrong_call_type"
    BY <1>5, <2>1, FailKeeps
  <2> QED
    BY <1>5, <2>1, <2>2, <2>3, <2>4, PreparedUses
<1> HIDE DEF p
<1>8. BackendOK(q) /\ q.used = p.used /\ q.err = p.err
  BY <1>7, EmitKeeps
<1> HIDE DEF q
<1>9. BackendOK(c) /\ (c.err = "none" => c.used \subseteq q.used \cup {c.res} /\ q.err = "none")
  <2>1. c.err = "none" => q.err = "none"
    BY <1>6, <1>8, LoadTakesFree, ReturningReturns, RegsAre DEF CopyRetVal
  <2> QED
    BY <1>6, <1>8, <2>1, CopyRetValUses
<1> HIDE DEF c
<1>10. /\ BackendOK(d) /\ d.res = c.res /\ d.err = c.err
       /\ d.used \subseteq c.used /\ (d.res # f.res => f.res \notin d.used)
  BY <1>9, DeallocFrees
<1> HIDE DEF d
<1>11. BackendOK(g) /\ g.res = d.res /\ g.err = d.err /\ g.used = d.used
  BY <1>10, CleanupOK, CleanupResult
<1> HIDE DEF g, k
<1>12. Leaves(be, g, From(vals, k))
  BY <1>4, <1>5, <1>7, <1>8, <1>9, <1>10, <1>11 DEF Leaves
<1>13. HeldAfter
  BY <1>1, <1>3, <1>4, <1>11, <1>12, DeliverHeld
<1> QED
  BY <1>3, <1>13, FreesPop DEF NoLeak, HeldAfter

LEMMA IfConditionHeld ==
  ASSUME TypeInv, NoLeak, IfCondition
  PROVE  NoLeak'
<1> DEFINE k == Len(vals)
           d == RegDealloc(be, vals[k].reg)
           b == Settled(d, k - 1, Nowhere, Junk, Junk)
<1>1. Running /\ Top.k = "if" /\ Delivered = 1
  BY DEF IfCondition
<1>2. Len(vals) \in Nat /\ Len(vals) >= 1 /\ vals \in Seq(Results) /\ BackendOK(be) /\ Held(be.used, vals)
  BY <1>1, LeakNow DEF Delivered
<1>3. k \in 1 .. Len(vals) + 1 /\ From(vals, k) = {vals[k].reg}
  BY <1>2, FromFacts
<1>4. PICK taken \in BOOLEAN, hasElse \in BOOLEAN :
        /\ Become([Top EXCEPT !.ph = "then", !.taken = taken, !.hasElse = hasElse])
        /\ be' = [b EXCEPT !.live = @ /\ taken] /\ vals' = SubSeq(vals, 1, k - 1)
  BY DEF IfCondition, Last, Pop
<1> DEFINE f == [Top EXCEPT !.ph = "then", !.taken = taken, !.hasElse = hasElse]
<1>5. Frees(f)
  BY <1>1, LeakNow, FrameKinds DEF Frees, IfOK
<1>6. Become(f)
  BY <1>4
<1>7. BackendOK(d) /\ d.used = be.used \ {vals[k].reg}
  BY <1>2, DeallocFrees
<1> HIDE DEF f, d
<1>8. BackendOK(b) /\ b.used = d.used
  BY <1>7, SettledKeeps
<1> HIDE DEF b
<1>9. be'.used = b.used
  BY <1>4, <1>8 DEF BackendOK, BackendFields
<1> HIDE DEF k
<1>10. Held(be'.used, SubSeq(vals, 1, k - 1))
  BY <1>2, <1>3, <1>7, <1>8, <1>9, HeldDrop
<1> QED
  BY <1>4, <1>5, <1>6, <1>10, FreesBecome DEF NoLeak

LEMMA IfStatementHeld ==
  ASSUME TypeInv, NoLeak, IfStatement
  PROVE  NoLeak'
<1> DEFINE f == [Top EXCEPT !.n = @ + 1]
<1>1. Top.k = "if" /\ Running /\ Top.n \in Nat
  BY TopFacts, FrameKinds DEF TypeInv, IfStatement, InIf, IfOK
<1>2. Become(f) /\ Frees(f)
  BY <1>1, LeakNow, FrameKinds DEF IfStatement, Frees, IfOK
<1> HIDE DEF f
<1>3. HeldAfter
  <2>1. CASE Top.n = 0
    <3>1. UNCHANGED << vals, be >>
      BY <2>1 DEF IfStatement
    <3> QED
      BY <1>1, <3>1, LeakNow DEF HeldAfter
  <2>2. CASE Top.n # 0
    <3> DEFINE k == Len(vals) - 1
               x == vals[k + 1]
               d == RegDealloc(be, vals[k].reg)
    <3>1. Len(vals) \in Nat /\ Len(vals) >= 2 /\ vals \in Seq(Results) /\ BackendOK(be) /\ Held(be.used, vals)
      BY <1>1, <2>2, LeakNow, SMTT(30) DEF IfStatement, Delivered, Resting
    <3>2. x \in Results /\ k \in 1 .. Len(vals) + 1 /\ From(vals, k) = {vals[k].reg, x.reg}
      BY <3>1, ResultFields, FromFacts
    <3>3. /\ be' = Settled(d, k - 1, InReg(x.reg), Opd(k + 1), Opd(k))
          /\ vals' = Append(SubSeq(vals, 1, k - 1), x)
      BY <2>2 DEF IfStatement
    <3>4. BackendOK(d) /\ d.used = be.used \ {vals[k].reg}
      BY <3>1, DeallocFrees
    <3> HIDE DEF d
    <3>5. be'.used = d.used
      BY <3>3, <3>4, SettledKeeps
    <3> HIDE DEF x, k
    <3>6. be'.used \subseteq (be.used \ From(vals, k)) \cup {x.reg}
      BY <3>2, <3>4, <3>5
    <3> QED
      BY <3>1, <3>2, <3>3, <3>6, HeldReplace DEF HeldAfter
  <2> QED
    BY <2>1, <2>2
<1> QED
  BY <1>2, <1>3, FreesBecome DEF NoLeak, HeldAfter

LEMMA EndThenHeld ==
  ASSUME TypeInv, NoLeak, EndThen
  PROVE  NoLeak'
<1> DEFINE k     == Len(vals)
           a     == RegAlloc(be)
           r     == a.res
           c     == CopyReg(a, vals[k].reg, r)
           moved == RegDealloc(c, vals[k].reg)
           skip  == Top.live /\ ~Top.taken
           after == [moved EXCEPT !.live = skip]
           zero  == ZeroOut(after, r)
           done  == [zero EXCEPT !.live = Top.live]
           from  == IF Top.taken THEN Opd(k) ELSE Zero
           f     == [Top EXCEPT !.ph = "else", !.n = 0, !.val = vals[k].val]
           s     == Settled(moved, k - 1, InReg(r), Opd(k), Opd(k))
<1>1. Top.k = "if" /\ IfOK(Top) /\ Top.n > 0 /\ Running
  BY TopFacts, FrameKinds DEF TypeInv, EndThen, BodyEnded
<1>2. Len(vals) \in Nat /\ Len(vals) >= 1 /\ vals \in Seq(Results) /\ BackendOK(be) /\ Held(be.used, vals)
  BY <1>1, LeakNow DEF EndThen, BodyEnded, Delivered, Resting, IfOK
<1>3. k \in 1 .. Len(vals) + 1 /\ vals[k].val \in BOOLEAN /\ From(vals, k) = {vals[k].reg}
  BY <1>2, ResultFields, FromFacts
<1>4. BackendOK(a) /\ r \in Regs /\ (a.err = "none" => a.used = be.used \cup {r})
  BY <1>2, AllocTakesFree DEF BackendOK
<1> HIDE DEF a, r
<1>5. BackendOK(c) /\ c.used = a.used /\ c.err = a.err
  BY <1>4, EmitKeeps DEF CopyReg
<1> HIDE DEF c
<1>6. BackendOK(moved) /\ moved.used = a.used \ {vals[k].reg} /\ moved.err = a.err
  BY <1>5, DeallocFrees
<1> HIDE DEF moved
<1>7. skip \in BOOLEAN /\ Top.live \in BOOLEAN /\ Frees(f)
  BY <1>1 DEF IfOK, Frees
<1>8. BackendOK(after) /\ after.used = moved.used /\ after.err = moved.err
  BY <1>6, <1>7, LiveOK
<1> HIDE DEF after
<1>9. BackendOK(zero) /\ zero.used = moved.used /\ zero.err = moved.err
  BY <1>8, EmitKeeps DEF ZeroOut
<1> HIDE DEF zero
<1>10. BackendOK(done) /\ done.used = moved.used /\ done.err = moved.err
  BY <1>7, <1>9, LiveOK
<1>11. BackendOK(s) /\ s.used = moved.used /\ s.err = moved.err
  BY <1>6, SettledKeeps
<1>12. ASSUME NEW x \in Results, x.reg = r, a.err = "none"
       PROVE  Held(moved.used, Append(SubSeq(vals, 1, k - 1), x))
  <2>1. moved.used \subseteq (be.used \ From(vals, k)) \cup {x.reg}
    BY <1>3, <1>4, <1>6, <1>12
  <2> HIDE DEF k
  <2> QED
    BY <1>2, <1>3, <2>1, HeldReplace
<1>13. CASE Top.hasElse
  <2>1. /\ vals' = Append(SubSeq(vals, 1, k - 1), Result(r, FALSE))
        /\ be'   = [s EXCEPT !.live = skip] /\ Become(f)
    BY <1>13 DEF EndThen, Pop, moved, c, r, a
  <2> HIDE DEF s, skip, f, k
  <2>2. be'.used = moved.used /\ be'.err = a.err
    BY <1>6, <1>7, <1>11, <2>1, LiveOK
  <2>3. Result(r, FALSE) \in Results /\ Result(r, FALSE).reg = r
    BY <1>4, ResultIsResult
  <2> QED
    BY <1>7, <1>12, <2>1, <2>2, <2>3, FreesBecome DEF NoLeak
<1>14. CASE ~Top.hasElse
  <2>1. IfResult(done, r, k, vals[k].val, from) /\ ctl' = Pop(ctl)
    BY <1>14 DEF EndThen, done, zero, after, skip, moved, c, r, a
  <2> HIDE DEF done, k, from
  <2>2. /\ be'.used = moved.used /\ be'.err = a.err
        /\ vals' = Append(SubSeq(vals, 1, k - 1), Result(r, vals[k].val))
    BY <1>2, <1>3, <1>4, <1>6, <1>10, <2>1, IfResultOK
  <2>3. Result(r, vals[k].val) \in Results /\ Result(r, vals[k].val).reg = r
    BY <1>3, <1>4, ResultIsResult
  <2> QED
    BY <1>12, <2>1, <2>2, <2>3, FreesPop DEF NoLeak
<1> QED
  BY <1>13, <1>14

LEMMA EndElseHeld ==
  ASSUME TypeInv, NoLeak, EndElse
  PROVE  NoLeak'
<1> DEFINE k    == Len(vals) - 1
           last == vals[k + 1]
           r    == vals[k].reg
           c    == CopyReg(be, last.reg, r)
           b    == RegDealloc(c, last.reg)
           d    == [b EXCEPT !.live = Top.live]
           val  == Top.val /\ last.val
           from == IF Top.taken THEN Opd(k) ELSE Opd(k + 1)
<1>1. Top.k = "if" /\ IfOK(Top) /\ Top.n > 0 /\ Running
  BY TopFacts, FrameKinds DEF TypeInv, EndElse, BodyEnded
<1>2. Len(vals) \in Nat /\ Len(vals) >= 2 /\ vals \in Seq(Results) /\ BackendOK(be) /\ Held(be.used, vals)
  BY <1>1, LeakNow DEF EndElse, BodyEnded, Delivered, Resting, IfOK
<1>3. k \in 1 .. Len(vals) + 1 /\ last.val \in BOOLEAN /\ r \in Regs /\ From(vals, k) = {r, last.reg}
  BY <1>2, ResultFields, FromFacts
<1>4. BackendOK(c) /\ c.used = be.used
  BY <1>2, EmitKeeps DEF CopyReg
<1> HIDE DEF c
<1>5. BackendOK(b) /\ b.used = be.used \ {last.reg}
  BY <1>4, DeallocFrees
<1> HIDE DEF b
<1>6. BackendOK(d) /\ d.used = b.used /\ val \in BOOLEAN
  BY <1>1, <1>3, <1>5, LiveOK DEF IfOK
<1>7. IfResult(d, r, k, val, from) /\ ctl' = Pop(ctl)
  BY DEF EndElse, b, c
<1> HIDE DEF d, r, k, val, from, last
<1>8. be'.used = d.used /\ vals' = Append(SubSeq(vals, 1, k - 1), Result(r, val))
  BY <1>2, <1>3, <1>6, <1>7, IfResultOK
<1>9. Result(r, val) \in Results /\ Result(r, val).reg = r
  BY <1>3, <1>6, ResultIsResult
<1>10. be'.used \subseteq (be.used \ From(vals, k)) \cup {Result(r, val).reg}
  BY <1>3, <1>5, <1>6, <1>8, <1>9
<1>11. Held(be'.used, vals')
  BY <1>2, <1>3, <1>8, <1>9, <1>10, HeldReplace
<1> QED
  BY <1>7, <1>11, FreesPop DEF NoLeak

LEMMA DeclareHeld ==
  ASSUME TypeInv, NoLeak, NEW x, Declare(x)
  PROVE  NoLeak'
<1> DEFINE k == Len(vals) + 1
           b == AllocateOnStack(be, 1)
<1>1. Running /\ UNCHANGED ctl
  BY DEF Declare, Inner
<1>2. k \in 1 .. Len(vals) + 1 /\ From(vals, k) = {} /\ BackendOK(be)
  BY <1>1, LeakNow, FromFacts
<1>3. BackendOK(b) /\ b.used = be.used
  BY <1>2, EmitKeeps DEF AllocateOnStack
<1>4. PICK c : BackendOK(c) /\ c.used = be.used /\ DeliverNothing(c, k)
  <2>1. CASE DeliverNothing(be, k)
    BY <1>2, <2>1
  <2>2. CASE ~DeliverNothing(be, k)
    <3> DEFINE off == cg.off - 1
               env == SetEnv(cg.env, x, off)
               at  == CellOf(GetEnv(env, x))
               d   == [b EXCEPT !.cpu = SetCell(@, at, Var(x))]
               c   == IF b.live THEN d ELSE b
    <3>1. DeliverNothing(c, k)
      BY <2>2 DEF Declare
    <3> HIDE DEF b, at
    <3>2. BackendOK(d) /\ d.used = b.used
      BY <1>3 DEF BackendOK, BackendFields
    <3> HIDE DEF d
    <3>3. BackendOK(c) /\ c.used = be.used
      BY <1>3, <3>2
    <3> HIDE DEF c, k
    <3> QED
      BY <3>1, <3>3
  <2> QED
    BY <2>1, <2>2
<1> HIDE DEF k
<1>5. HeldAfter
  BY <1>1, <1>2, <1>4, DeliverNothingHeld
<1> QED
  BY <1>1, <1>5 DEF NoLeak, HeldAfter

\* The address the left-hand side is read into, and the value, are both freed.
LEMMA EndStoreHeld ==
  ASSUME TypeInv, NoLeak, EndStore
  PROVE  NoLeak'
<1> DEFINE k == Len(vals)
<1>0. PICK a \in Targets(be, Top.x) : DeliverNothing(RegDealloc(RegDealloc(a, vals[k].reg), a.res), k)
  BY DEF EndStore
<1> DEFINE c == RegDealloc(a, vals[k].reg)
           d == RegDealloc(c, a.res)
<1>1. Running /\ Top.k = "store" /\ Delivered = 1 /\ ctl' = Pop(ctl)
  BY DEF EndStore
<1>2. Len(vals) \in Nat /\ Len(vals) >= 1 /\ vals \in Seq(Results) /\ BackendOK(be)
  BY <1>1, LeakNow DEF Delivered
<1>3. k \in 1 .. Len(vals) + 1 /\ From(vals, k) = {vals[k].reg}
  BY <1>2, FromFacts
<1>4. BackendOK(a) /\ (a.err = "none" => a.used = be.used \cup {a.res})
  <2>1. CASE a = VarAccess(be, Top.x)
    BY <1>2, <2>1, LoadTakesFree DEF VarAccess
  <2>2. CASE a \in {AddressOf(be, Top.x), ElementAddr(be, Top.x)}
    BY <1>2, <2>2, AddressTakesFree
  <2> QED
    BY <1>0, <2>1, <2>2 DEF Targets
<1>5. BackendOK(c) /\ c.used = a.used \ {vals[k].reg} /\ c.err = a.err
  BY <1>4, DeallocFrees
<1> HIDE DEF c
<1>6. BackendOK(d) /\ d.used = c.used \ {a.res} /\ d.err = c.err
  BY <1>5, DeallocFrees
<1>7. DeliverNothing(d, k)
  BY <1>0 DEF c
<1> HIDE DEF d, k
<1>8. d.err = "none" => d.used \subseteq be.used \ From(vals, k)
  BY <1>3, <1>4, <1>5, <1>6
<1>9. HeldAfter
  BY <1>1, <1>3, <1>6, <1>7, <1>8, DeliverNothingHeld
<1> QED
  BY <1>1, <1>9, FreesPop DEF NoLeak, HeldAfter

LEMMA EndFuncHeld ==
  ASSUME TypeInv, NoLeak, EndFunc
  PROVE  NoLeak'
<1> DEFINE c == [be EXCEPT !.cpu = Top.saved.cpu, !.live = Top.saved.live]
           b == Load(c, "lea", Code)
           k == Len(vals) + 1
<1>1. Running /\ Top.k = "func" /\ ctl' = Pop(ctl) /\ Top.saved.live \in BOOLEAN
  BY TopFacts, FrameKinds DEF TypeInv, EndFunc, BodyOK
<1>2. k \in 1 .. Len(vals) + 1 /\ From(vals, k) = {} /\ BackendOK(be)
  BY <1>1, LeakNow, FromFacts
<1>3. BackendOK(c) /\ c.used = be.used
  BY <1>1, <1>2 DEF BackendOK, BackendFields
<1>4. Deliver(b, k, Code)
  BY DEF EndFunc
<1> HIDE DEF c
<1>5. BackendOK(b) /\ (b.err = "none" => b.used = c.used \cup {b.res})
  BY <1>3, LoadTakesFree
<1> HIDE DEF b, k
<1>6. Leaves(be, b, From(vals, k))
  BY <1>2, <1>3, <1>5 DEF Leaves
<1>7. HeldAfter
  BY <1>1, <1>2, <1>4, <1>5, <1>6, DeliverHeld
<1> QED
  BY <1>1, <1>7, FreesPop DEF NoLeak, HeldAfter

LEMMA StatementHeld ==
  ASSUME TypeInv, NoLeak, Statement \/ LastStatement
  PROVE  NoLeak'
<1> DEFINE k == Len(vals)
           r == vals[k].reg
           d == RegDealloc(be, r)
           e == SetFuncRetVal(d, r)
           f == [Top EXCEPT !.n = @ + 1]
           g == [Top EXCEPT !.n = @ + 1, !.ph = "ret", !.val = Last(vals).val]
<1>1. Running /\ Delivered = 1 /\ Top.k \in {"prog", "func"}
  BY DEF Statement, LastStatement, InBody
<1>2. Len(vals) \in Nat /\ Len(vals) >= 1 /\ vals \in Seq(Results) /\ BackendOK(be)
  BY <1>1, LeakNow DEF Delivered
<1>3. k \in 1 .. Len(vals) + 1 /\ From(vals, k) = {r}
  BY <1>2, FromFacts
<1>4. Frees(f) /\ Frees(g)
  BY <1>1, LeakNow, FrameKinds DEF Frees, BodyOK
<1>5. BackendOK(d) /\ d.used = be.used \ {r}
  BY <1>2, DeallocFrees
<1> HIDE DEF d
<1>6. BackendOK(e) /\ e.used = d.used
  BY <1>5, EmitKeeps DEF SetFuncRetVal
<1> HIDE DEF e
<1>7. /\ Become(f) \/ Become(g)
      /\ \/ Consume(d, k, Nowhere, Junk, Junk)
         \/ Consume(e, k, InReg(RAX), Opd(k), Returned)
  BY DEF Statement, LastStatement, Last, d, e
<1> HIDE DEF f, g, k, r
<1>8. HeldAfter
  BY <1>1, <1>3, <1>5, <1>6, <1>7, ConsumeHeld
<1> QED
  BY <1>4, <1>7, <1>8, FreesBecome DEF NoLeak, HeldAfter

-----------------------------------------------------------------------------
LEMMA InitNoLeak == Init => NoLeak
<1> SUFFICES ASSUME Init PROVE NoLeak
  OBVIOUS
<1>1. be.used = {}
  BY InitBackendOK, EmitKeeps DEF Init, FuncHeader
<1>2. Len(ctl) = 1 /\ ctl[1].k = "prog"
  BY DEF Init
<1> QED
  BY <1>1, <1>2 DEF NoLeak, Held, Frees

LEMMA NextNoLeak ==
  ASSUME "reassign" \notin Kinds, "ext_call" \notin Kinds
  PROVE  TypeInv /\ NoLeak /\ [Next]_vars => NoLeak'
<1> SUFFICES ASSUME TypeInv, NoLeak, [Next]_vars PROVE NoLeak'
  OBVIOUS
<1>1. CASE GenInt \/ \E x \in InScope : GenVar(x) \/ GenDeref(x) \/ GenAddr(x) \/ GenIndex(x)
  BY <1>1, LeavesHeld
<1>2. CASE \/ BeginIf \/ \E op \in Ops : BeginBinop(op)
           \/ \E x \in InScope : BeginAssign(x) \/ BeginStore(x)
           \/ \E argc \in 0 .. MaxArgs : BeginFunc(argc) \/ \E ext \in BOOLEAN : BeginCall(ext, argc)
  BY <1>2, BeginsHeld
<1>3. CASE EndBinop
  BY <1>3, EndBinopHeld
<1>4. CASE CallArg \/ EndCall
  BY <1>4, CallArgHeld, EndCallHeld
<1>5. CASE IfCondition \/ IfStatement \/ EndThen \/ EndElse
  BY <1>5, IfConditionHeld, IfStatementHeld, EndThenHeld, EndElseHeld
<1>6. CASE \E x \in Globals \cup Locals : Declare(x)
  BY <1>6, DeclareHeld
<1>7. CASE EndAssign
  <2>1. Running /\ Top.k = "reassign"
    BY <1>7 DEF EndAssign
  <2> QED
    BY <2>1, LeakNow DEF Frees
<1>8. CASE EndStore \/ EndFunc \/ Statement \/ LastStatement
  BY <1>8, EndStoreHeld, EndFuncHeld, StatementHeld
<1>9. CASE Stopped \/ UNCHANGED vars
  BY <1>9 DEF Stopped, vars, NoLeak
<1> QED
  BY <1>1, <1>2, <1>3, <1>4, <1>5, <1>6, <1>7, <1>8, <1>9 DEF Next

(***************************************************************************)
(* Between two statements of the program no register is in use, whatever   *)
(* was compiled before: operators, conditions, functions, stores through   *)
(* pointers and internal calls give back every register they took.  The    *)
(* two kinds left out do not: an assignment to a variable and the          *)
(* arguments of an external call never free theirs.                        *)
(***************************************************************************)
THEOREM NoRegisterLeaks ==
  ASSUME "reassign" \notin Kinds, "ext_call" \notin Kinds
  PROVE  Spec => []PoolEmptyBetweenStatements
<1>1. Init => TypeInv /\ NoLeak
  BY InitTypes, InitNoLeak
<1>2. TypeInv /\ NoLeak /\ [Next]_vars => (TypeInv /\ NoLeak)'
  BY NextTypes, NextNoLeak
<1>3. TypeInv /\ NoLeak => PoolEmptyBetweenStatements
  BY DEF NoLeak, PoolEmptyBetweenStatements, Compiling, Held
<1> QED
  BY <1>1, <1>2, <1>3, PTL DEF Spec

-----------------------------------------------------------------------------
(* Single instructions. *)

CPUFields == {"reg", "flags", "sp", "stack", "glob"}

CPUOK(c) ==
  /\ DOMAIN c = CPUFields /\ DOMAIN c.reg = Regs
  /\ DOMAIN c.glob = Globals /\ \A x \in Globals : c.glob[x] = Var(x)

\* d is c with the value v in register r.
Writes(c, d, r, v) ==
  CPUOK(d) /\ d.reg[r] = v /\ \A q \in Regs \ {r} : d.reg[q] = c.reg[q]

LEMMA SetRegWrites ==
  ASSUME NEW c, CPUOK(c), NEW r \in Regs, NEW v
  PROVE  Writes(c, SetReg(c, r, v), r, v)
  BY DEF SetReg, Writes, CPUOK, CPUFields

LEMMA ExecWrites ==
  ASSUME NEW c, CPUOK(c), NEW r \in Regs, NEW q \in Regs, NEW x
  PROVE  /\ Writes(c, Exec(c, << "imm", x, r >>), r, Own)
         /\ Writes(c, Exec(c, << "lea", x, r >>), r, x)
         /\ Writes(c, Exec(c, << "addimm", r >>), r, Displaced(c.reg[r]))
         /\ Writes(c, Exec(c, << "zero", r >>), r, Zero)
         /\ Writes(c, Exec(c, << "mov", q, r >>), r, c.reg[q])
         /\ x \in Globals => Writes(c, Exec(c, << "glob", x, r >>), r, Var(x))
         /\ \A op \in {"+", "-", "*"} :
              Writes(c, Exec(c, << op, q, r >>), r, Term(op, c.reg[r], c.reg[q]))
         /\ Writes(c, Exec(c, << "setcc", x, r >>), r,
                   IF c.reg[r] = Zero THEN Term(x, c.flags[1], c.flags[2]) ELSE Junk)
<1>1. Exec(c, << "imm", x, r >>) = SetReg(c, r, Own)
  <2> DEFINE i == << "imm", x, r >>
  <2>1. i[1] = "imm" /\ i[3] = r
    OBVIOUS
  <2> HIDE DEF i
  <2> QED
    BY <2>1, ExecImm DEF i
<1>2. Exec(c, << "lea", x, r >>) = SetReg(c, r, x)
  <2> DEFINE i == << "lea", x, r >>
  <2>1. i[1] = "lea" /\ i[2] = x /\ i[3] = r
    OBVIOUS
  <2> HIDE DEF i
  <2> QED
    BY <2>1, ExecLea DEF i
<1>3. Exec(c, << "addimm", r >>) = SetReg(c, r, Displaced(c.reg[r]))
  <2> DEFINE i == << "addimm", r >>
  <2>1. i[1] = "addimm" /\ i[2] = r
    OBVIOUS
  <2> HIDE DEF i
  <2> QED
    BY <2>1, ExecAddImm DEF i
<1>4. Exec(c, << "zero", r >>) = SetReg(c, r, Zero)
  <2> DEFINE i == << "zero", r >>
  <2>1. i[1] = "zero" /\ i[2] = r
    OBVIOUS
  <2> HIDE DEF i
  <2> QED
    BY <2>1, ExecZero DEF i
<1>5. Exec(c, << "mov", q, r >>) = SetReg(c, r, c.reg[q])
  <2> DEFINE i == << "mov", q, r >>
  <2>1. i[1] = "mov" /\ i[2] = q /\ i[3] = r
    OBVIOUS
  <2> HIDE DEF i
  <2> QED
    BY <2>1, ExecMov DEF i
<1>6. Exec(c, << "glob", x, r >>) = SetReg(c, r, c.glob[x])
  <2> DEFINE i == << "glob", x, r >>
  <2>1. i[1] = "glob" /\ i[2] = x /\ i[3] = r
    OBVIOUS
  <2> HIDE DEF i
  <2> QED
    BY <2>1, ExecGlob DEF i
<1>7. ASSUME NEW op \in {"+", "-", "*"}
      PROVE  Exec(c, << op, q, r >>) = SetReg(c, r, Term(op, c.reg[r], c.reg[q]))
  <2> DEFINE i == << op, q, r >>
  <2>1. i[1] = op /\ i[2] = q /\ i[3] = r
    OBVIOUS
  <2> HIDE DEF i
  <2>2. Exec(c, i) = SetReg(c, i[3], Term(i[1], c.reg[i[3]], c.reg[i[2]]))
    BY <2>1, ExecAdd, ExecSub, ExecMul
  <2> QED
    BY <2>1, <2>2 DEF i
<1>8. Exec(c, << "setcc", x, r >>) =
        SetReg(c, r, IF c.reg[r] = Zero THEN Term(x, c.flags[1], c.flags[2]) ELSE Junk)
  <2> DEFINE i == << "setcc", x, r >>
  <2>1. i[1] = "setcc" /\ i[2] = x /\ i[3] = r
    OBVIOUS
  <2> HIDE DEF i
  <2>2. Exec(c, i) = SetReg(c, i[3], IF c.reg[i[3]] = Zero
                                     THEN Term(i[2], c.flags[1], c.flags[2]) ELSE Junk)
    BY <2>1, ExecSetcc
  <2> QED
    BY <2>1, <2>2 DEF i
<1>9. x \in Globals => c.glob[x] = Var(x)
  BY DEF CPUOK
<1> QED
  BY <1>1, <1>2, <1>3, <1>4, <1>5, <1>6, <1>7, <1>8, <1>9, SetRegWrites

LEMMA ExecCompare ==
  ASSUME NEW c, CPUOK(c), NEW q \in Regs, NEW r \in Regs
  PROVE  LET d == Exec(c, << "cmp", q, r >>)
         IN  CPUOK(d) /\ d.reg = c.reg /\ d.flags = << c.reg[r], c.reg[q] >>
<1>1. Exec(c, << "cmp", q, r >>) = [c EXCEPT !.flags = << c.reg[r], c.reg[q] >>]
  <2> DEFINE i == << "cmp", q, r >>
  <2>1. i[1] = "cmp" /\ i[2] = q /\ i[3] = r
    OBVIOUS
  <2> HIDE DEF i
  <2>2. Exec(c, i) = [c EXCEPT !.flags = << c.reg[i[3]], c.reg[i[2]] >>]
    BY <2>1, ExecCmp
  <2> QED
    BY <2>1, <2>2 DEF i
<1> QED
  BY <1>1 DEF CPUOK, CPUFields

\* Emitting one instruction.
LEMMA EmitOne ==
  ASSUME NEW b, BackendOK(b), NEW i
  PROVE  /\ Emit(b, << i >>).live = b.live
         /\ Emit(b, << i >>).cpu = IF b.live THEN Exec(b.cpu, i) ELSE b.cpu
  BY RunOne DEF Emit, BackendOK, BackendFields

-----------------------------------------------------------------------------
(***************************************************************************)
(* Naming the values: what Settle does to registers and globals.           *)
(***************************************************************************)
LEMMA ValuesDiffer ==
  /\ \A i, j : Opd(i) = Opd(j) => i = j
  /\ \A i \in Nat, n \in Nat : i <= n => Lasting(Opd(i), n)
  /\ \A x, n : Lasting(Var(x), n)
  /\ \A r, x : InReg(r) # InGlob(x)
  /\ \A r, q : InReg(r) = InReg(q) => r = q
  /\ \A r : InReg(r) # Nowhere
  BY DEF Opd, Lasting, Var, InReg, InGlob, Nowhere

LEMMA SettleValues ==
  ASSUME NEW c, CPUOK(c), NEW n \in Nat, NEW r \in Regs, NEW at \in {InReg(r), Nowhere}, NEW from, NEW to
  PROVE  LET d == Settle(c, n, at, from, to)
         IN  /\ CPUOK(d)
             /\ \A q \in Regs \ {r} : \A i \in Nat : i <= n /\ c.reg[q] = Opd(i) => d.reg[q] = Opd(i)
             /\ at = InReg(r) /\ c.reg[r] = from => d.reg[r] = to
             /\ at = Nowhere => \A i \in Nat : i <= n /\ c.reg[r] = Opd(i) => d.reg[r] = Opd(i)
<1> DEFINE label(l, v) == IF l = at /\ v = from THEN to ELSE IF Lasting(v, n) THEN v ELSE Junk
           d == Settle(c, n, at, from, to)
<1>1. d = [c EXCEPT !.flags = Junk,
                    !.reg   = [q \in Regs |-> label(InReg(q), @[q])],
                    !.stack = [k \in DOMAIN @ |-> label(InCell(k), @[k])],
                    !.glob  = [x \in DOMAIN @ |-> label(InGlob(x), @[x])]]
  BY DEF Settle
<1> HIDE DEF label, d
<1>2. /\ DOMAIN d = CPUFields
      /\ d.reg = [q \in Regs |-> label(InReg(q), c.reg[q])]
      /\ d.glob = [x \in DOMAIN c.glob |-> label(InGlob(x), c.glob[x])]
  BY <1>1 DEF CPUOK, CPUFields
<1>3. \A x \in Globals : d.glob[x] = Var(x)
  <2> TAKE x \in Globals
  <2>1. d.glob[x] = label(InGlob(x), Var(x))
    BY <1>2 DEF CPUOK
  <2>2. InGlob(x) # at
    BY ValuesDiffer DEF InGlob, Nowhere, InReg
  <2> QED
    BY <2>1, <2>2, ValuesDiffer DEF label
<1>4. CPUOK(d)
  BY <1>2, <1>3 DEF CPUOK
<1>5. ASSUME NEW q \in Regs, InReg(q) # at, NEW i \in Nat, i <= n, c.reg[q] = Opd(i)
      PROVE  d.reg[q] = Opd(i)
  <2>1. d.reg[q] = label(InReg(q), Opd(i))
    BY <1>2, <1>5
  <2> QED
    BY <1>5, <2>1, ValuesDiffer DEF label
<1>6. at = InReg(r) /\ c.reg[r] = from => d.reg[r] = to
  BY <1>2 DEF label
<1>7. \A q \in Regs \ {r} : InReg(q) # at
  BY ValuesDiffer
<1>8. at = Nowhere => InReg(r) # at
  BY ValuesDiffer
<1> QED
  BY <1>4, <1>5, <1>6, <1>7, <1>8 DEF d

-----------------------------------------------------------------------------
(***************************************************************************)
(* What the traversal believes about the values.  The operand of a         *)
(* condition with a second body is not there yet while that body is        *)
(* generated (Missing): its register holds the value only if the first     *)
(* body was the one that ran.  An activation relies on the operands up to  *)
(* its Floor, whether or not the code being emitted runs; so a condition   *)
(* remembers whether it runs itself (live), and what it relied on comes    *)
(* true again when a body that is jumped over ends.                        *)
(***************************************************************************)
Holds(v, c, i) == c.reg[v[i].reg] = Opd(i)
Good(v, c, i)  == v[i].val => Holds(v, c, i)

InElse(f)     == f.k = "if" /\ f.ph = "else"
Floor(f)      == IF InElse(f) THEN f.base + 1 ELSE f.base
Missing(f, i) == InElse(f) /\ i = f.base + 1

\* The code being emitted in activation f runs if f does.
Runs(f) ==
  IF f.k = "if" /\ f.ph = "then" THEN f.taken ELSE IF InElse(f) THEN ~f.taken ELSE TRUE

FrameGood(f, v, c) ==
  f.k = "if" =>
    /\ f.scope = {} /\ f.ph \in {"cond", "then", "else"}
    /\ InElse(f) => f.val
    /\ f.live => /\ \A i \in 1 .. f.base : Good(v, c, i)
                 /\ f.taken /\ InElse(f) => Holds(v, c, f.base + 1)

ValuesOK(s, v, c, live) ==
  /\ CPUOK(c)
  /\ \A i, j \in 1 .. Len(s) : i < j => Floor(s[i]) <= s[j].base
  /\ Floor(s[Len(s)]) <= Len(v)
  /\ live <=> \A i \in 1 .. Len(s) : Runs(s[i])
  /\ \A j \in 1 .. Len(s) : s[j].k = "if" => (s[j].live <=> \A i \in 1 .. j - 1 : Runs(s[i]))
  /\ \A j \in 1 .. Len(s) : FrameGood(s[j], v, c)
  /\ live => \A i \in 1 .. Len(v) : Good(v, c, i)
  /\ \A i \in 1 .. Len(v) : v[i].val \/ \E j \in 1 .. Len(s) : Missing(s[j], i)

ValueInv ==
  be.err = "none" =>
    /\ cg.global /\ cg.env = EmptyEnv /\ cg.scope = {}
    /\ ValuesOK(ctl, vals, be.cpu, be.live)
    /\ Len(ctl) > 1 => ctl[1].ph # "ret"
    /\ Top.k = "prog" /\ Top.ph = "ret" /\ Top.val => be.cpu.reg[RAX] = Returned

\* The operands before number k are still there, and where they were.
Keeps(v, c, w, d, k) ==
  \A i \in 1 .. k - 1 : w[i] = v[i] /\ (Holds(v, c, i) => Holds(w, d, i))

LEMMA FrameKeeps ==
  ASSUME NEW f, f.base \in Nat, NEW v, NEW c, NEW w, NEW d, NEW k \in Nat, FrameGood(f, v, c),
         Keeps(v, c, w, d, k), Floor(f) < k
  PROVE  FrameGood(f, w, d)
<1>1. \A i \in 1 .. f.base : i \in 1 .. k - 1
  BY DEF Floor
<1>2. \A i \in 1 .. f.base : Good(v, c, i) => Good(w, d, i)
  BY <1>1 DEF Good, Keeps
<1>3. InElse(f) => f.base + 1 \in 1 .. k - 1
  BY DEF Floor
<1>4. InElse(f) /\ Holds(v, c, f.base + 1) => Holds(w, d, f.base + 1)
  BY <1>3 DEF Keeps
<1> QED
  BY <1>2, <1>4 DEF FrameGood

(***************************************************************************)
(* A step that leaves the activations below number n alone and the         *)
(* operands below number k intact: what is left to show is about activation *)
(* n, now the innermost, and the operands from k on.                       *)
(***************************************************************************)
LEMMA ValuesStep ==
  ASSUME NEW s, NEW v, NEW c, NEW live, ValuesOK(s, v, c, live),
         NEW t, NEW w, NEW d, NEW run, NEW k \in Nat,
         Len(s) \in Nat, Len(w) \in Nat, Len(v) \in Nat, k <= Len(v) + 1,
         Len(t) \in Nat, Len(t) >= 1, Len(t) <= Len(s),
         \A i \in 1 .. Len(s) : s[i].base \in Nat,
         \A i \in 1 .. Len(t) - 1 : t[i] = s[i] /\ Floor(s[i]) < k,
         LET f == t[Len(t)]
             g == s[Len(t)]
         IN  /\ f.base = g.base /\ Floor(f) <= Len(w)
             /\ f.k = "if" => f.live = g.live /\ g.k = "if"
             /\ FrameGood(f, w, d)
             /\ run <=> Runs(f) /\ \A i \in 1 .. Len(t) - 1 : Runs(s[i])
             /\ \A i \in k .. Len(w) : w[i].val \/ Missing(f, i)
             /\ \A j \in Len(t) .. Len(s), i \in 1 .. k - 1 : Missing(s[j], i) => Missing(f, i),
         CPUOK(d), Keeps(v, c, w, d, k), run => \A i \in 1 .. Len(w) : Good(w, d, i)
  PROVE  ValuesOK(t, w, d, run)
<1> DEFINE n == Len(t)
           f == t[n]
<1>1. /\ n \in Nat /\ n >= 1 /\ n <= Len(s) /\ Len(s) \in Nat
      /\ \A i \in 1 .. n - 1 : t[i] = s[i] /\ Floor(s[i]) < k
      /\ f.base = s[n].base /\ (f.k = "if" => f.live = s[n].live /\ s[n].k = "if")
      /\ \A i \in 1 .. n : i \in 1 .. Len(s)
      /\ \A i \in 1 .. n : i = n \/ i \in 1 .. n - 1
      /\ n \in 1 .. n
  OBVIOUS
<1>2. \A i \in k .. Len(w) : w[i].val \/ Missing(f, i)
  OBVIOUS
<1>3. \A j \in n .. Len(s), i \in 1 .. k - 1 : Missing(s[j], i) => Missing(f, i)
  OBVIOUS
<1>4. run <=> Runs(f) /\ \A i \in 1 .. n - 1 : Runs(s[i])
  OBVIOUS
<1>5. FrameGood(f, w, d) /\ Floor(t[Len(t)]) <= Len(w)
  OBVIOUS
<1>6. t[n] = f /\ n = Len(t)
  OBVIOUS
<1> HIDE DEF n, f
<1>7. \A i, j \in 1 .. n : i < j => Floor(t[i]) <= t[j].base
  <2> TAKE i, j \in 1 .. n
  <2> HAVE i < j
  <2>1. i \in 1 .. n - 1
    BY <1>1
  <2>2. t[i] = s[i]
    BY <1>1, <2>1
  <2>3. t[j].base = s[j].base
    <3>1. CASE j = n
      BY <1>1, <1>6, <3>1
    <3>2. CASE j \in 1 .. n - 1
      BY <1>1, <3>2
    <3> QED
      BY <1>1, <3>1, <3>2
  <2>4. i \in 1 .. Len(s) /\ j \in 1 .. Len(s)
    BY <1>1
  <2> QED
    BY <2>2, <2>3, <2>4 DEF ValuesOK
<1>8. run <=> \A i \in 1 .. n : Runs(t[i])
  BY <1>1, <1>4, <1>6
<1>9. \A j \in 1 .. n : t[j].k = "if" => (t[j].live <=> \A i \in 1 .. j - 1 : Runs(t[i]))
  <2> TAKE j \in 1 .. n
  <2> HAVE t[j].k = "if"
  <2>1. s[j].k = "if" /\ t[j].live = s[j].live /\ j \in 1 .. Len(s)
    BY <1>1, <1>6
  <2>2. \A i \in 1 .. j - 1 : t[i] = s[i]
    BY <1>1
  <2> QED
    BY <2>1, <2>2 DEF ValuesOK
<1>10. \A j \in 1 .. n : FrameGood(t[j], w, d)
  <2> TAKE j \in 1 .. n
  <2>1. CASE j = n
    BY <1>5, <1>6, <2>1
  <2>2. CASE j \in 1 .. n - 1
    <3>1. t[j] = s[j] /\ s[j].base \in Nat /\ FrameGood(s[j], v, c) /\ Floor(s[j]) < k
      BY <1>1, <2>2 DEF ValuesOK
    <3> QED
      BY <3>1, FrameKeeps
  <2> QED
    BY <1>1, <2>1, <2>2
<1>11. \A i \in 1 .. Len(w) : w[i].val \/ \E j \in 1 .. n : Missing(t[j], i)
  <2> TAKE i \in 1 .. Len(w)
  <2>1. CASE i \in k .. Len(w)
    BY <1>1, <1>2, <1>6, <2>1
  <2>2. CASE i \in 1 .. k - 1
    <3>1. w[i] = v[i] /\ i \in 1 .. Len(v)
      BY <2>2 DEF Keeps
    <3>2. CASE v[i].val
      BY <3>1, <3>2
    <3>3. CASE \E j \in 1 .. Len(s) : Missing(s[j], i)
      <4>1. PICK j \in 1 .. Len(s) : Missing(s[j], i)
        BY <3>3
      <4>2. CASE j \in n .. Len(s)
        BY <1>1, <1>3, <1>6, <2>2, <4>1, <4>2
      <4>3. CASE j \in 1 .. n - 1
        BY <1>1, <4>1, <4>3
      <4> QED
        BY <1>1, <4>1, <4>2, <4>3
    <3> QED
      BY <3>1, <3>2, <3>3 DEF ValuesOK
  <2> QED
    BY <2>1, <2>2
<1> QED
  BY <1>5, <1>6, <1>7, <1>8, <1>9, <1>10, <1>11 DEF ValuesOK

\* Entering an activation of an operator or a condition.
LEMMA ValuesPush ==
  ASSUME NEW s, NEW v, NEW c, NEW live, ValuesOK(s, v, c, live), IsSeq(s),
         Len(s) \in Nat, Len(s) >= 1, Len(v) \in Nat, \A i \in 1 .. Len(s) : s[i].base <= Len(v),
         \A i \in 1 .. Len(s) : s[i].base \in Nat,
         NEW f, f.base = Len(v), ~InElse(f), f.k = "if" => f.ph = "cond" /\ f.scope = {} /\ f.live = live
  PROVE  ValuesOK(Append(s, f), v, c, live)
<1> DEFINE t == Append(s, f)
           n == Len(s)
<1>1. /\ n \in Nat /\ n >= 1 /\ Len(t) = n + 1 /\ t[n + 1] = f /\ \A i \in 1 .. n : t[i] = s[i]
      /\ \A i \in 1 .. n + 1 : i \in 1 .. n \/ i = n + 1
  BY AppendFacts
<1> HIDE DEF t
<1>2. Floor(f) = Len(v) /\ Runs(f) /\ (\A i : ~Missing(f, i)) /\ FrameGood(f, v, c)
  BY DEF Floor, Runs, Missing, FrameGood, InElse, ValuesOK
<1>3. \A i \in 1 .. n : Floor(s[i]) <= Len(v)
  <2> TAKE i \in 1 .. n
  <2>1. CASE i = n
    BY <2>1 DEF ValuesOK
  <2>2. CASE i < n
    <3>1. n \in 1 .. n /\ Floor(s[i]) <= s[n].base /\ s[n].base <= Len(v) /\ s[n].base \in Nat
      BY <1>1, <2>2 DEF ValuesOK
    <3>2. s[i].base \in Nat /\ Floor(s[i]) \in Nat
      BY DEF Floor
    <3> QED
      BY <3>1, <3>2
  <2> QED
    BY <1>1, <2>1, <2>2
<1>4. \A i, j \in 1 .. n + 1 : i < j => Floor(t[i]) <= t[j].base
  <2> TAKE i, j \in 1 .. n + 1
  <2> HAVE i < j
  <2>1. i \in 1 .. n /\ t[i] = s[i]
    BY <1>1
  <2>2. CASE j = n + 1
    BY <1>1, <1>3, <2>1, <2>2
  <2>3. CASE j \in 1 .. n
    BY <1>1, <2>1, <2>3 DEF ValuesOK
  <2> QED
    BY <1>1, <2>2, <2>3
<1>5. live <=> \A i \in 1 .. n + 1 : Runs(t[i])
  BY <1>1, <1>2 DEF ValuesOK
<1>6. \A j \in 1 .. n + 1 : t[j].k = "if" => (t[j].live <=> \A i \in 1 .. j - 1 : Runs(t[i]))
  <2> TAKE j \in 1 .. n + 1
  <2> HAVE t[j].k = "if"
  <2>1. \A i \in 1 .. j - 1 : i \in 1 .. n /\ t[i] = s[i]
    BY <1>1
  <2>2. CASE j = n + 1
    BY <1>1, <2>1, <2>2 DEF ValuesOK
  <2>3. CASE j \in 1 .. n
    BY <1>1, <2>1, <2>3 DEF ValuesOK
  <2> QED
    BY <1>1, <2>2, <2>3
<1>7. \A j \in 1 .. n + 1 : FrameGood(t[j], v, c)
  BY <1>1, <1>2 DEF ValuesOK
<1>8. \A i \in 1 .. Len(v) : v[i].val \/ \E j \in 1 .. n + 1 : Missing(t[j], i)
  <2> TAKE i \in 1 .. Len(v)
  <2>1. v[i].val \/ \E j \in 1 .. n : Missing(s[j], i)
    BY DEF ValuesOK
  <2> QED
    BY <1>1, <2>1
<1> QED
  BY <1>1, <1>2, <1>4, <1>5, <1>6, <1>7, <1>8, SMTT(30) DEF ValuesOK, t

\* Every operand above the floor of the innermost activation is there.
LEMMA AboveFloor ==
  ASSUME NEW s, NEW v, NEW c, NEW live, ValuesOK(s, v, c, live), Len(s) \in Nat, Len(v) \in Nat,
         \A i \in 1 .. Len(s) : s[i].base \in Nat,
         Len(s) >= 1, NEW i \in 1 .. Len(v), i > Floor(s[Len(s)])
  PROVE  v[i].val /\ (live => Holds(v, c, i))
<1> DEFINE n == Len(s)
<1>1. \A j \in 1 .. n : ~Missing(s[j], i)
  <2> TAKE j \in 1 .. n
  <2>1. SUFFICES ASSUME Missing(s[j], i) PROVE FALSE
    OBVIOUS
  <2>2. Floor(s[j]) = i
    BY <2>1 DEF Missing, Floor
  <2>3. j # n
    BY <2>2
  <2>4. n \in 1 .. n /\ Floor(s[j]) <= s[n].base /\ s[n].base <= Floor(s[n]) /\ s[n].base \in Nat
    BY <2>3 DEF ValuesOK, Floor
  <2> QED
    BY <2>2, <2>4 DEF Floor
<1>2. v[i].val
  BY <1>1 DEF ValuesOK
<1> QED
  BY <1>2 DEF ValuesOK, Good

-----------------------------------------------------------------------------
(* What one operation of the back end does to the values. *)

LEMMA WritesAgain ==
  ASSUME NEW c, NEW d, NEW e, NEW r \in Regs, NEW x, NEW y, Writes(c, d, r, x), Writes(d, e, r, y)
  PROVE  Writes(c, e, r, y)
  BY DEF Writes

\* The operands before number k are left in place, and none of them is in register r.
Spared(v, w, k, r) == \A i \in 1 .. k - 1 : w[i] = v[i] /\ v[i].reg # r

\* A value written to register r and then named operand k.
LEMMA WriteSettle ==
  ASSUME NEW c, NEW d, NEW r \in Regs, NEW x, Writes(c, d, r, x), NEW v \in Seq(Results),
         NEW k \in 1 .. Len(v) + 1, NEW w, Spared(v, w, k, r), NEW to
  PROVE  LET e == Settle(d, k - 1, InReg(r), x, to)
         IN  CPUOK(e) /\ e.reg[r] = to /\ Keeps(v, c, w, e, k)
<1> DEFINE e == Settle(d, k - 1, InReg(r), x, to)
<1>1. k - 1 \in Nat /\ InReg(r) \in {InReg(r), Nowhere} /\ CPUOK(d) /\ d.reg[r] = x
  BY DEF Writes
<1>2. /\ CPUOK(e) /\ e.reg[r] = to
      /\ \A q \in Regs \ {r} : \A i \in Nat : i <= k - 1 /\ d.reg[q] = Opd(i) => e.reg[q] = Opd(i)
  BY <1>1, SettleValues
<1> HIDE DEF e
<1>3. Keeps(v, c, w, e, k)
  <2>1. SUFFICES ASSUME NEW i \in 1 .. k - 1
                 PROVE  w[i] = v[i] /\ (Holds(v, c, i) => Holds(w, e, i))
    BY DEF Keeps
  <2>2. i \in 1 .. Len(v) /\ i \in Nat /\ i <= k - 1
    OBVIOUS
  <2>3. w[i] = v[i] /\ v[i].reg \in Regs \ {r}
    BY <2>1, <2>2, ResultFields DEF Spared
  <2>4. Holds(v, c, i) => d.reg[v[i].reg] = Opd(i)
    BY <2>3 DEF Holds, Writes
  <2> QED
    BY <1>2, <2>2, <2>3, <2>4 DEF Holds
<1> QED
  BY <1>2, <1>3 DEF e

\* Nothing is named.
LEMMA OnlySettle ==
  ASSUME NEW c, CPUOK(c), NEW v \in Seq(Results), NEW k \in 1 .. Len(v) + 1,
         NEW w, \A i \in 1 .. k - 1 : w[i] = v[i]
  PROVE  LET e == Settle(c, k - 1, Nowhere, Junk, Junk)
         IN  CPUOK(e) /\ Keeps(v, c, w, e, k)
<1> DEFINE e == Settle(c, k - 1, Nowhere, Junk, Junk)
<1>1. CPUOK(e) /\ \A q \in Regs : \A i \in Nat : i <= k - 1 /\ c.reg[q] = Opd(i) => e.reg[q] = Opd(i)
  <2>1. Nowhere \in {InReg(RAX), Nowhere} /\ k - 1 \in Nat /\ RAX \in Regs
    BY RegsAre
  <2> QED
    BY <2>1, SettleValues
<1> HIDE DEF e
<1>2. \A i \in 1 .. k - 1 : i \in Nat /\ i <= k - 1 /\ v[i].reg \in Regs
  BY ResultFields
<1>3. Keeps(v, c, w, e, k)
  BY <1>1, <1>2 DEF Keeps, Holds
<1> QED
  BY <1>1, <1>3 DEF e

\* What register r holds is named, if it is x.
LEMMA OnlyNames ==
  ASSUME NEW c, CPUOK(c), NEW v \in Seq(Results), NEW k \in 1 .. Len(v) + 1,
         NEW w, NEW r \in Regs, \A i \in 1 .. k - 1 : w[i] = v[i] /\ v[i].reg # r, NEW x, NEW to
  PROVE  LET e == Settle(c, k - 1, InReg(r), x, to)
         IN  CPUOK(e) /\ Keeps(v, c, w, e, k) /\ (c.reg[r] = x => e.reg[r] = to)
<1> DEFINE e == Settle(c, k - 1, InReg(r), x, to)
<1>1. /\ CPUOK(e) /\ (c.reg[r] = x => e.reg[r] = to)
      /\ \A q \in Regs \ {r} : \A i \in Nat : i <= k - 1 /\ c.reg[q] = Opd(i) => e.reg[q] = Opd(i)
  <2>1. InReg(r) \in {InReg(r), Nowhere} /\ k - 1 \in Nat
    OBVIOUS
  <2> QED
    BY <2>1, SettleValues
<1> HIDE DEF e
<1>2. \A i \in 1 .. k - 1 : i \in Nat /\ i <= k - 1 /\ v[i].reg \in Regs
  BY ResultFields
<1>3. Keeps(v, c, w, e, k)
  BY <1>1, <1>2 DEF Keeps, Holds
<1> QED
  BY <1>1, <1>3 DEF e

\* b leaves the value x in the register it returns, if the code runs.
Computes(a, b, x) ==
  /\ b.live = a.live
  /\ IF a.live THEN Writes(a.cpu, b.cpu, b.res, x) ELSE b.cpu = a.cpu

LEMMA AllocEmitsNothing ==
  ASSUME NEW b, BackendOK(b)
  PROVE  RegAlloc(b).cpu = b.cpu /\ RegAlloc(b).live = b.live
<1>1. \A r : [b EXCEPT !.used = @ \cup {r}, !.res = r].cpu = b.cpu
             /\ [b EXCEPT !.used = @ \cup {r}, !.res = r].live = b.live
  BY DEF BackendOK, BackendFields
<1>2. \A e : Fail(b, e).cpu = b.cpu /\ Fail(b, e).live = b.live
  BY DEF Fail, BackendOK, BackendFields
<1> QED
  BY <1>1, <1>2 DEF RegAlloc

LEMMA LoadComputes ==
  ASSUME NEW b, BackendOK(b), CPUOK(b.cpu)
  PROVE  /\ Computes(b, Load(b, "imm", Own), Own)
         /\ \A x \in Globals : Computes(b, Load(b, "glob", x), Var(x))
         /\ \A x : Computes(b, Load(b, "lea", x), x)
<1> DEFINE a == RegAlloc(b)
<1>1. BackendOK(a) /\ a.cpu = b.cpu /\ a.live = b.live /\ a.res \in Regs
  BY AllocTakesFree, AllocEmitsNothing DEF BackendOK
<1>2. \A op, src : Load(b, op, src) = Emit(a, << << op, src, a.res >> >>)
  BY DEF Load
<1> HIDE DEF a
<1>3. ASSUME NEW op, NEW src, NEW x,
             b.live => Writes(b.cpu, Exec(b.cpu, << op, src, a.res >>), a.res, x)
      PROVE  Computes(b, Load(b, op, src), x)
  <2> DEFINE i == << op, src, a.res >>
             e == Emit(a, << i >>)
  <2>1. e.live = a.live /\ e.res = a.res /\ e.cpu = IF a.live THEN Exec(a.cpu, i) ELSE a.cpu
    BY <1>1, EmitOne, EmitKeeps
  <2>2. Load(b, op, src) = e
    BY <1>2
  <2> HIDE DEF e
  <2> QED
    BY <1>1, <1>3, <2>1, <2>2 DEF Computes
<1>4. Computes(b, Load(b, "imm", Own), Own)
  BY <1>1, <1>3, ExecWrites
<1>5. \A x \in Globals : Computes(b, Load(b, "glob", x), Var(x))
  BY <1>1, <1>3, ExecWrites
<1>6. \A x : Computes(b, Load(b, "lea", x), x)
  BY <1>1, <1>3, ExecWrites
<1> QED
  BY <1>4, <1>5, <1>6

LEMMA AddressComputes ==
  ASSUME NEW b, BackendOK(b), CPUOK(b.cpu), cg.global, NEW x
  PROVE  /\ Computes(b, AddressOf(b, x), Address(x))
         /\ Computes(b, ElementAddr(b, x), Displaced(Address(x)))
<1> DEFINE a == AddressOf(b, x)
           i == << "addimm", a.res >>
<1>1. Computes(b, a, Address(x)) /\ BackendOK(a) /\ a.res \in Regs
  BY LoadComputes, LoadTakesFree DEF AddressOf, Addressable, BackendOK
<1>2. ElementAddr(b, x) = Emit(a, << i >>)
  BY DEF ElementAddr, AddImm
<1> HIDE DEF a
<1> DEFINE e == Emit(a, << i >>)
<1>3. e.live = a.live /\ e.res = a.res /\ e.cpu = IF a.live THEN Exec(a.cpu, i) ELSE a.cpu
  BY <1>1, EmitOne, EmitKeeps
<1>4. CASE b.live
  <2>1. Writes(b.cpu, a.cpu, a.res, Address(x))
    BY <1>1, <1>4 DEF Computes
  <2>2. CPUOK(a.cpu) /\ a.cpu.reg[a.res] = Address(x)
    BY <2>1 DEF Writes
  <2>3. Writes(a.cpu, Exec(a.cpu, i), a.res, Displaced(Address(x)))
    BY <1>1, <2>2, ExecWrites
  <2> HIDE DEF i
  <2>4. Writes(b.cpu, Exec(a.cpu, i), a.res, Displaced(Address(x)))
    BY <1>1, <2>1, <2>3, WritesAgain
  <2> HIDE DEF e
  <2> QED
    BY <1>1, <1>2, <1>3, <1>4, <2>4 DEF Computes, a, e
<1>5. CASE ~b.live
  <2> HIDE DEF e
  <2> QED
    BY <1>1, <1>2, <1>3, <1>5 DEF Computes, a, e
<1> QED
  BY <1>4, <1>5

(***************************************************************************)
(* The operators whose result is the value the source means, whatever else *)
(* is in use.  The shifts and the divisions are left out: they are only    *)
(* right as long as other operands stay out of RCX, or out of RAX and RDX. *)
(***************************************************************************)
ValueOps == {"==", "<", ">", "+", "-", "*"}

LEMMA EmitThree ==
  ASSUME NEW b, BackendOK(b), NEW i, NEW j, NEW k
  PROVE  /\ Emit(b, << i, j, k >>).live = b.live
         /\ Emit(b, << i, j, k >>).cpu =
              IF b.live THEN Exec(Exec(Exec(b.cpu, i), j), k) ELSE b.cpu
  BY RunThree DEF Emit, BackendOK, BackendFields

LEMMA CompareComputes ==
  ASSUME NEW b, BackendOK(b), CPUOK(b.cpu), NEW op, op \notin Commutative,
         NEW l \in Regs, NEW r \in Regs, l \in b.used, r \in b.used,
         GenCompare(b, op, l, r).err = "none"
  PROVE  Computes(b, GenCompare(b, op, l, r), Term(op, b.cpu.reg[l], b.cpu.reg[r]))
<1> DEFINE a == RegAlloc(b)
           q == a.res
           z == << "zero", q >>
           m == << "cmp", r, l >>
           t == << "setcc", op, q >>
           e == Emit(a, << z, m, t >>)
           d == RegDealloc(RegDealloc(e, r), l)
           x == Term(op, b.cpu.reg[l], b.cpu.reg[r])
<1>1. GenCompare(b, op, l, r) = d
  BY DEF GenCompare
<1>2. /\ BackendOK(a) /\ a.cpu = b.cpu /\ a.live = b.live /\ q \in Regs
      /\ a.err = "none" => q \notin b.used
  BY AllocTakesFree, AllocEmitsNothing DEF BackendOK
<1> HIDE DEF a, q, z, m, t
<1>3. /\ BackendOK(e) /\ e.err = a.err /\ e.res = q /\ e.live = a.live
      /\ e.cpu = IF a.live THEN Exec(Exec(Exec(a.cpu, z), m), t) ELSE a.cpu
  <2>1. BackendOK(e) /\ e.err = a.err /\ e.res = a.res
    BY <1>2, EmitKeeps
  <2>2. e.live = a.live /\ e.cpu = IF a.live THEN Exec(Exec(Exec(a.cpu, z), m), t) ELSE a.cpu
    BY <1>2, EmitThree
  <2> QED
    BY <2>1, <2>2 DEF q
<1> HIDE DEF e
<1>4. /\ d.live = e.live /\ d.cpu = e.cpu /\ d.res = e.res /\ d.err = e.err
  BY <1>3 DEF RegDealloc, BackendOK, BackendFields
<1> HIDE DEF d
<1>5. q # l /\ q # r
  BY <1>1, <1>2, <1>3, <1>4
<1> DEFINE c1 == Exec(b.cpu, z)
           c2 == Exec(c1, m)
           c3 == Exec(c2, t)
<1>6. Writes(b.cpu, c1, q, Zero)
  BY <1>2, ExecWrites DEF z
<1>7. CPUOK(c1) /\ c1.reg[q] = Zero /\ c1.reg[l] = b.cpu.reg[l] /\ c1.reg[r] = b.cpu.reg[r]
  BY <1>5, <1>6 DEF Writes
<1>8. CPUOK(c2) /\ c2.reg = c1.reg /\ c2.flags = << c1.reg[l], c1.reg[r] >>
  <2> HIDE DEF c1
  <2> QED
    BY <1>7, ExecCompare DEF m
<1>9. c2.flags[1] = b.cpu.reg[l] /\ c2.flags[2] = b.cpu.reg[r] /\ c2.reg[q] = Zero
  BY <1>7, <1>8
<1>10. Writes(c2, c3, q, x)
  <2> HIDE DEF c2
  <2>1. Writes(c2, c3, q, IF c2.reg[q] = Zero THEN Term(op, c2.flags[1], c2.flags[2]) ELSE Junk)
    BY <1>2, <1>8, ExecWrites DEF t
  <2> QED
    BY <1>9, <2>1
<1>11. Writes(b.cpu, c3, q, x)
  <2> HIDE DEF c1, c2, c3, x
  <2> QED
    BY <1>2, <1>6, <1>8, <1>10 DEF Writes
<1> QED
  BY <1>1, <1>2, <1>3, <1>4, <1>11 DEF Computes

LEMMA InPlaceComputes ==
  ASSUME NEW b, BackendOK(b), CPUOK(b.cpu), NEW l \in Regs, NEW r \in Regs
  PROVE  /\ Computes(b, GenAdd(b, l, r), Term("+", b.cpu.reg[l], b.cpu.reg[r]))
         /\ Computes(b, GenMul(b, l, r), Term("*", b.cpu.reg[l], b.cpu.reg[r]))
         /\ Computes(b, GenSub(b, l, r), Term("-", b.cpu.reg[l], b.cpu.reg[r]))
<1>1. ASSUME NEW op \in {"+", "-", "*"}, NEW p \in Regs, NEW q \in Regs
      PROVE  Computes(b, Returning(RegDealloc(Emit(b, << << op, p, q >> >>), p), q),
                      Term(op, b.cpu.reg[q], b.cpu.reg[p]))
  <2> DEFINE i == << op, p, q >>
             e == Emit(b, << i >>)
             d == Returning(RegDealloc(e, p), q)
  <2>1. BackendOK(e) /\ e.live = b.live /\ e.cpu = IF b.live THEN Exec(b.cpu, i) ELSE b.cpu
    BY EmitOne, EmitKeeps
  <2>2. Writes(b.cpu, Exec(b.cpu, i), q, Term(op, b.cpu.reg[q], b.cpu.reg[p]))
    BY ExecWrites
  <2> HIDE DEF e, i
  <2>3. d.live = e.live /\ d.cpu = e.cpu /\ d.res = q
    BY <2>1 DEF RegDealloc, Returning, BackendOK, BackendFields
  <2> HIDE DEF d
  <2> QED
    BY <2>1, <2>2, <2>3 DEF Computes, d, e, i
<1>2. \A x, y : Term("+", x, y) = Term("+", y, x) /\ Term("*", x, y) = Term("*", y, x)
  BY DEF Term, Commutative
<1>3. Computes(b, GenAdd(b, l, r), Term("+", b.cpu.reg[r], b.cpu.reg[l]))
  BY <1>1 DEF GenAdd
<1>4. Computes(b, GenMul(b, l, r), Term("*", b.cpu.reg[r], b.cpu.reg[l]))
  BY <1>1 DEF GenMul
<1>5. Computes(b, GenSub(b, l, r), Term("-", b.cpu.reg[l], b.cpu.reg[r]))
  BY <1>1 DEF GenSub
<1> QED
  BY <1>2, <1>3, <1>4, <1>5

LEMMA BinopComputes ==
  ASSUME NEW b, BackendOK(b), CPUOK(b.cpu), NEW op \in ValueOps,
         NEW l \in Regs, NEW r \in Regs, l \in b.used, r \in b.used,
         GenBinop(b, op, l, r).err = "none"
  PROVE  Computes(b, GenBinop(b, op, l, r), Term(op, b.cpu.reg[l], b.cpu.reg[r]))
<1>1. CASE op \in {"==", "<", ">"}
  <2>1. GenBinop(b, op, l, r) = GenCompare(b, op, l, r) /\ op \notin Commutative
    BY <1>1 DEF GenBinop, Commutative
  <2> QED
    BY <2>1, CompareComputes
<1>2. CASE op = "+"
  <2>1. GenBinop(b, op, l, r) = GenAdd(b, l, r)
    BY <1>2 DEF GenBinop
  <2> QED
    BY <1>2, <2>1, InPlaceComputes
<1>3. CASE op = "-"
  <2>1. GenBinop(b, op, l, r) = GenSub(b, l, r)
    BY <1>3 DEF GenBinop
  <2> QED
    BY <1>3, <2>1, InPlaceComputes
<1>4. CASE op = "*"
  <2>1. GenBinop(b, op, l, r) = GenMul(b, l, r)
    BY <1>4 DEF GenBinop
  <2> QED
    BY <1>4, <2>1, InPlaceComputes
<1> QED
  BY <1>1, <1>2, <1>3, <1>4 DEF ValueOps

-----------------------------------------------------------------------------
(* One lemma per action or group of actions. *)

ValueKinds == ExprKinds \ {"deref"}

LEMMA ValuesNow ==
  ASSUME PoolInv, ValueInv, Running
  PROVE  /\ be.err = "none" /\ cg.global /\ cg.env = EmptyEnv /\ cg.scope = {}
         /\ ValuesOK(ctl, vals, be.cpu, be.live) /\ CPUOK(be.cpu) /\ BackendOK(be)
         /\ Pool(be.used, vals) /\ vals \in Seq(Results) /\ Len(vals) \in Nat
         /\ IsSeq(ctl) /\ Len(ctl) \in Nat /\ Len(ctl) >= 1 /\ Top = ctl[Len(ctl)]
         /\ \A i \in 1 .. Len(ctl) : ctl[i].base \in Nat /\ ctl[i].base <= Len(vals)
         /\ ctl[1].ph # "ret" /\ (Top.k = "prog" <=> Len(ctl) = 1)
         /\ \A i, j \in 1 .. Len(ctl) : i <= j => ctl[i].base <= ctl[j].base
<1>1. be.err = "none" /\ ValuesOK(ctl, vals, be.cpu, be.live)
  BY DEF Running, ValueInv
<1>2. /\ Len(ctl) \in Nat /\ Len(ctl) >= 1 /\ Len(vals) \in Nat /\ Top.base <= Len(vals)
      /\ IsSeq(ctl) /\ BackendOK(be)
  BY TopFacts DEF PoolInv, TypeInv, ControlOK
<1>3. /\ \A i \in 1 .. Len(ctl) : FrameOK(ctl[i]) /\ (ctl[i].k = "prog" <=> i = 1)
      /\ \A i, j \in 1 .. Len(ctl) : i <= j => ctl[i].base <= ctl[j].base
  BY DEF PoolInv, TypeInv, ControlOK
<1>4. Len(ctl) \in 1 .. Len(ctl) /\ \A i \in 1 .. Len(ctl) : i <= Len(ctl)
  BY <1>2
<1>5. \A i \in 1 .. Len(ctl) : ctl[i].base \in Nat /\ ctl[i].base <= Len(vals)
  <2> TAKE i \in 1 .. Len(ctl)
  <2>1. ctl[i].base \in Nat /\ ctl[i].base <= Top.base /\ Top.base \in Nat
    BY <1>3, <1>4 DEF FrameOK, Top
  <2> QED
    BY <1>2, <2>1
<1>6. Top.k = "prog" <=> Len(ctl) = 1
  BY <1>3, <1>4 DEF Top
<1>7. ctl[1].ph # "ret"
  <2>1. CASE Len(ctl) = 1
    BY <1>6, <2>1 DEF Running, Finished, Top
  <2>2. CASE Len(ctl) > 1
    BY <1>1, <2>2 DEF ValueInv
  <2> QED
    BY <1>2, <2>1, <2>2, SMTT(30)
<1> QED
  BY <1>1, <1>2, <1>3, <1>5, <1>6, <1>7, PoolNow DEF ValueInv, ValuesOK, Top

\* What is left to show of a step within the program.
LEMMA ValuesNext ==
  ASSUME TypeInv', cg'.global, cg'.env = EmptyEnv, cg'.scope = {},
         be'.err = "none" => ValuesOK(ctl', vals', be'.cpu, be'.live) /\ ctl'[1].ph # "ret"
  PROVE  ValueInv'
<1>1. /\ Len(ctl') \in Nat /\ Len(ctl') >= 1
      /\ \A i \in 1 .. Len(ctl') : ctl'[i].k = "prog" <=> i = 1
  BY SeqFacts DEF TypeInv, ControlOK
<1>2. Top'.k = "prog" => Top'.ph = ctl'[1].ph
  <2>1. Top' = ctl'[Len(ctl')] /\ Len(ctl') \in 1 .. Len(ctl')
    BY <1>1 DEF Top
  <2> QED
    BY <1>1, <2>1
<1> QED
  BY <1>2 DEF ValueInv

LEMMA DeliverValues ==
  ASSUME PoolInv, ValueInv, Running, NEW b, BackendOK(b), NEW k \in 1 .. Len(vals) + 1, NEW e,
         Deliver(b, k, e), Computes(be, b, e), \A i \in 1 .. k - 1 : vals[i].reg # b.res
  PROVE  /\ be'.live = be.live /\ be'.err = b.err /\ CPUOK(be'.cpu)
         /\ Keeps(vals, be.cpu, vals', be'.cpu, k)
         /\ Len(vals') = k /\ vals'[k].val
         /\ be.live => \A i \in 1 .. k : Good(vals', be'.cpu, i)
<1> DEFINE d == Settled(b, k - 1, InReg(b.res), e, Opd(k))
           x == Result(b.res, TRUE)
<1>1. /\ ValuesOK(ctl, vals, be.cpu, be.live) /\ CPUOK(be.cpu)
      /\ vals \in Seq(Results) /\ Len(vals) \in Nat
  BY ValuesNow
<1>2. x \in Results /\ x.reg = b.res /\ x.val = TRUE /\ b.res \in Regs
  BY ResultIsResult DEF BackendOK, Result
<1>3. be' = d /\ vals' = Append(SubSeq(vals, 1, k - 1), x)
  BY DEF Deliver
<1>4. be'.err = b.err
  BY <1>1, DeliverOK
<1> HIDE DEF x
<1>5. Len(vals') = k /\ vals'[k] = x /\ \A i \in 1 .. k - 1 : vals'[i] = vals[i]
  BY <1>1, <1>2, <1>3, ReplaceFacts
<1>6. /\ d.live = b.live
      /\ d.cpu = IF b.live THEN Settle(b.cpu, k - 1, InReg(b.res), e, Opd(k)) ELSE b.cpu
  BY DEF Settled, BackendOK, BackendFields
<1> HIDE DEF d
<1>7. CASE ~be.live
  <2>1. be'.live = be.live /\ be'.cpu = be.cpu
    BY <1>3, <1>6, <1>7 DEF Computes, BackendOK
  <2>2. Keeps(vals, be.cpu, vals', be'.cpu, k)
    BY <1>5, <2>1 DEF Keeps, Holds
  <2> QED
    BY <1>1, <1>2, <1>4, <1>5, <1>7, <2>1, <2>2
<1>8. CASE be.live
  <2>1. Writes(be.cpu, b.cpu, b.res, e) /\ b.live = be.live
    BY <1>8 DEF Computes
  <2>2. be'.cpu = Settle(b.cpu, k - 1, InReg(b.res), e, Opd(k)) /\ be'.live = be.live
    BY <1>3, <1>6, <1>8, <2>1
  <2>3. /\ CPUOK(be'.cpu) /\ be'.cpu.reg[b.res] = Opd(k)
        /\ Keeps(vals, be.cpu, vals', be'.cpu, k)
    <3>1. Spared(vals, vals', k, b.res)
      BY <1>5 DEF Spared
    <3> DEFINE s == Settle(b.cpu, k - 1, InReg(b.res), e, Opd(k))
    <3>2. CPUOK(s) /\ s.reg[b.res] = Opd(k) /\ Keeps(vals, be.cpu, vals', s, k)
      BY <1>1, <1>2, <2>1, <3>1, WriteSettle
    <3> HIDE DEF s
    <3> QED
      BY <2>2, <3>2 DEF s
  <2>4. \A i \in 1 .. k : Good(vals', be'.cpu, i)
    <3> TAKE i \in 1 .. k
    <3>1. CASE i = k
      BY <1>2, <1>5, <2>3, <3>1 DEF Good, Holds
    <3>2. CASE i \in 1 .. k - 1
      <4>1. i \in 1 .. Len(vals) /\ Good(vals, be.cpu, i)
        BY <1>1, <1>8, <3>2 DEF ValuesOK
      <4> QED
        BY <2>3, <3>2, <4>1 DEF Keeps, Good
    <3> QED
      BY <3>1, <3>2
  <2> QED
    BY <1>2, <1>4, <1>5, <1>8, <2>2, <2>3, <2>4
<1> QED
  BY <1>7, <1>8

LEMMA LeafValues ==
  ASSUME PoolInv, ValueInv, TypeInv', Running, NEW b, BackendOK(b), TakesFree(be, b), NEW e,
         Computes(be, b, e), Deliver(b, Len(vals) + 1, e), UNCHANGED << ctl, cg >>
  PROVE  ValueInv'
<1> DEFINE k == Len(vals) + 1
           n == Len(ctl)
<1>1. /\ ValuesOK(ctl, vals, be.cpu, be.live) /\ Pool(be.used, vals) /\ cg.global
      /\ cg.env = EmptyEnv /\ cg.scope = {} /\ ctl[1].ph # "ret"
      /\ vals \in Seq(Results) /\ Len(vals) \in Nat /\ n \in Nat /\ n >= 1
      /\ \A i \in 1 .. n : ctl[i].base \in Nat /\ ctl[i].base <= Len(vals)
  BY ValuesNow
<1>2. SUFFICES ASSUME be'.err = "none"
               PROVE  ValuesOK(ctl', vals', be'.cpu, be'.live)
  BY <1>1, ValuesNext
<1>3. k \in 1 .. Len(vals) + 1 /\ k \in Nat /\ Deliver(b, k, e) /\ k - 1 = Len(vals)
  BY <1>1
<1>4. b.err = "none"
  BY <1>1, <1>2, <1>3, DeliverOK
<1>5. \A i \in 1 .. k - 1 : vals[i].reg # b.res
  BY <1>1, <1>3, <1>4 DEF TakesFree, Pool
<1> HIDE DEF k
<1>6. /\ be'.live = be.live /\ CPUOK(be'.cpu) /\ Keeps(vals, be.cpu, vals', be'.cpu, k)
      /\ Len(vals') = k /\ vals'[k].val
      /\ be.live => \A i \in 1 .. k : Good(vals', be'.cpu, i)
  BY <1>3, <1>5, DeliverValues
<1>7. \A i \in 1 .. n : Floor(ctl[i]) < k /\ Floor(ctl[i]) <= Len(vals)
  <2> TAKE i \in 1 .. n
  <2>1. n \in 1 .. n /\ Floor(ctl[n]) <= Len(vals)
    BY <1>1 DEF ValuesOK
  <2>2. CASE i < n
    <3>1. Floor(ctl[i]) <= ctl[n].base /\ ctl[n].base <= Len(vals) /\ ctl[n].base \in Nat
      BY <1>1, <2>1, <2>2 DEF ValuesOK
    <3>2. ctl[i].base \in Nat /\ Floor(ctl[i]) \in Nat
      BY <1>1 DEF Floor
    <3> QED
      BY <1>1, <1>3, <3>1, <3>2
  <2>3. CASE i = n
    BY <1>1, <1>3, <2>1, <2>3 DEF Floor
  <2> QED
    BY <1>1, <2>2, <2>3
<1>8. FrameGood(ctl[n], vals', be'.cpu)
  <2>1. n \in 1 .. n /\ FrameGood(ctl[n], vals, be.cpu) /\ ctl[n].base \in Nat /\ Floor(ctl[n]) < k
    BY <1>1, <1>7 DEF ValuesOK
  <2> QED
    BY <1>3, <1>6, <2>1, FrameKeeps
<1>9. be.live <=> Runs(ctl[n]) /\ \A i \in 1 .. n - 1 : Runs(ctl[i])
  <2>1. \A i \in 1 .. n : i = n \/ i \in 1 .. n - 1
    BY <1>1
  <2>2. n \in 1 .. n /\ \A i \in 1 .. n - 1 : i \in 1 .. n
    BY <1>1
  <2> QED
    BY <1>1, <2>1, <2>2 DEF ValuesOK
<1>10. \A i \in k .. Len(vals') : vals'[i].val
  BY <1>3, <1>6
<1>11. ctl' = ctl /\ Floor(ctl[n]) <= Len(vals') /\ Len(vals') \in Nat
  BY <1>1, <1>3, <1>6, <1>7 DEF Floor
<1>12. ValuesOK(ctl, vals', be'.cpu, be'.live)
  <2>1. \A i \in 1 .. n - 1 : Floor(ctl[i]) < k
    BY <1>7
  <2>2. \A j \in n .. n, i \in 1 .. k - 1 : Missing(ctl[j], i) => Missing(ctl[n], i)
    BY <1>1
  <2> QED
    BY <1>1, <1>3, <1>6, <1>8, <1>9, <1>10, <1>11, <2>1, <2>2, ValuesStep, SMTT(30)
<1> QED
  BY <1>11, <1>12

LEMMA LeavesValues ==
  ASSUME PoolInv, ValueInv, TypeInv', Kinds \subseteq ValueKinds,
         GenInt \/ \E x \in InScope : GenVar(x) \/ GenDeref(x) \/ GenAddr(x) \/ GenIndex(x)
  PROVE  ValueInv'
<1>1. Running /\ UNCHANGED << ctl, cg >>
  BY DEF GenInt, GenVar, GenDeref, GenAddr, GenIndex, Leaf
<1>2. BackendOK(be) /\ CPUOK(be.cpu) /\ cg.global /\ cg.env = EmptyEnv /\ cg.scope = {}
  BY <1>1, ValuesNow
<1>3. CASE GenInt
  <2>1. LET b == Load(be, "imm", Own)
        IN  BackendOK(b) /\ TakesFree(be, b) /\ Computes(be, b, Own)
    BY <1>2, LoadTakesFree, LoadComputes DEF TakesFree
  <2> QED
    BY <1>1, <1>3, <2>1, LeafValues DEF GenInt
<1>4. ASSUME NEW x \in InScope, GenVar(x)
      PROVE  ValueInv'
  <2>1. x \in Globals
    BY <1>2 DEF InScope
  <2>2. VarAccess(be, x) = Load(be, "glob", x)
    BY <1>2 DEF VarAccess, IsBound, Bound, EmptyEnv
  <2>3. LET b == Load(be, "glob", x)
        IN  BackendOK(b) /\ TakesFree(be, b) /\ Computes(be, b, Var(x))
    BY <1>2, <2>1, LoadTakesFree, LoadComputes DEF TakesFree
  <2> QED
    BY <1>1, <1>4, <2>2, <2>3, LeafValues DEF GenVar
<1>5. ASSUME NEW x \in InScope, GenAddr(x) \/ GenIndex(x)
      PROVE  ValueInv'
  <2>1. LET a == AddressOf(be, x)
            b == ElementAddr(be, x)
        IN  /\ BackendOK(a) /\ TakesFree(be, a) /\ Computes(be, a, Address(x))
            /\ BackendOK(b) /\ TakesFree(be, b) /\ Computes(be, b, Displaced(Address(x)))
    BY <1>2, AddressTakesFree, AddressComputes DEF TakesFree
  <2> QED
    BY <1>1, <1>5, <2>1, LeafValues DEF GenAddr, GenIndex
<1>6. ~ \E x \in InScope : GenDeref(x)
  BY DEF GenDeref, Leaf, ValueKinds
<1> QED
  BY <1>3, <1>4, <1>5, <1>6

LEMMA BeginValues ==
  ASSUME PoolInv, ValueInv, TypeInv', BeginIf \/ \E op \in Ops : BeginBinop(op)
  PROVE  ValueInv'
<1>1. \E f : /\ Push(f) /\ f.base = Len(vals) /\ f.k # "prog" /\ ~InElse(f)
             /\ f.k = "if" => f.ph = "cond" /\ f.scope = cg.scope /\ f.live = be.live
  <2>1. CASE BeginIf
    <3>1. /\ Push(IfFrame) /\ IfFrame.base = Len(vals) /\ IfFrame.k = "if" /\ IfFrame.ph = "cond"
          /\ IfFrame.scope = cg.scope /\ IfFrame.live = be.live
      BY <2>1 DEF BeginIf, IfFrame
    <3> QED
      BY <3>1 DEF InElse
  <2>2. CASE \E op \in Ops : BeginBinop(op)
    <3>1. PICK op, root : Push(BinopFrame(op, root))
      BY <2>2 DEF BeginBinop
    <3>2. BinopFrame(op, root).base = Len(vals) /\ BinopFrame(op, root).k = "binop"
      BY DEF BinopFrame
    <3> QED
      BY <3>1, <3>2 DEF InElse
  <2> QED
    BY <2>1, <2>2
<1>2. PICK f : /\ Push(f) /\ f.base = Len(vals) /\ f.k # "prog" /\ ~InElse(f)
               /\ f.k = "if" => f.ph = "cond" /\ f.scope = cg.scope /\ f.live = be.live
  BY <1>1
<1>3. Running /\ UNCHANGED << vals, be, cg >>
  BY DEF BeginIf, BeginBinop, Inner
<1>4. /\ ValuesOK(ctl, vals, be.cpu, be.live) /\ cg.global /\ cg.env = EmptyEnv /\ cg.scope = {}
      /\ IsSeq(ctl) /\ Len(ctl) \in Nat /\ Len(ctl) >= 1 /\ Len(vals) \in Nat
      /\ \A i \in 1 .. Len(ctl) : ctl[i].base \in Nat /\ ctl[i].base <= Len(vals)
      /\ ctl[1].ph # "ret"
  BY <1>3, ValuesNow
<1>5. ctl' = Append(ctl, f)
  BY <1>2 DEF Push
<1>6. ValuesOK(Append(ctl, f), vals, be.cpu, be.live)
  BY <1>2, <1>4, ValuesPush
<1>7. ctl'[1] = ctl[1]
  BY <1>4, <1>5, AppendFacts
<1> QED
  BY <1>3, <1>4, <1>5, <1>6, <1>7, ValuesNext

\* The activations below the innermost one rely on no operand from number k on.
LEMMA FloorsBelow ==
  ASSUME NEW s, NEW v, NEW c, NEW live, ValuesOK(s, v, c, live), Len(s) \in Nat, Len(s) >= 1,
         NEW k \in Nat, s[Len(s)].base < k, s[Len(s)].base \in Nat,
         \A i \in 1 .. Len(s) : s[i].base \in Nat
  PROVE  \A i \in 1 .. Len(s) - 1 : Floor(s[i]) < k /\ Floor(s[i]) \in Nat
<1> TAKE i \in 1 .. Len(s) - 1
<1>1. Len(s) \in 1 .. Len(s) /\ i \in 1 .. Len(s) /\ i < Len(s)
  OBVIOUS
<1>2. Floor(s[i]) <= s[Len(s)].base
  BY <1>1 DEF ValuesOK
<1>3. s[i].base \in Nat /\ Floor(s[i]) \in Nat
  BY <1>1 DEF Floor
<1> QED
  BY <1>2, <1>3

(***************************************************************************)
(* Leaving the innermost activation with one result, operand number k,     *)
(* which its caller can use if that runs.                                  *)
(***************************************************************************)
LEMMA PopValues ==
  ASSUME PoolInv, ValueInv, TypeInv', Running, Top.k # "prog", ctl' = Pop(ctl),
         NEW k \in Nat, Top.base = k - 1, k <= Len(vals), ~InElse(Top) \/ Floor(Top) = k,
         cg'.global, cg'.env = EmptyEnv, cg'.scope = {},
         be'.err = "none" =>
           /\ CPUOK(be'.cpu) /\ Keeps(vals, be.cpu, vals', be'.cpu, k)
           /\ Len(vals') = k /\ vals'[k].val
           /\ be'.live <=> \A i \in 1 .. Len(ctl) - 1 : Runs(ctl[i])
           /\ be'.live => \A i \in 1 .. k : Good(vals', be'.cpu, i)
  PROVE  ValueInv'
<1> DEFINE m == Len(ctl)
<1>1. /\ ValuesOK(ctl, vals, be.cpu, be.live) /\ ctl[1].ph # "ret" /\ IsSeq(ctl)
      /\ Len(vals) \in Nat /\ m \in Nat /\ m >= 1 /\ m # 1 /\ Top = ctl[m]
      /\ \A i \in 1 .. m : ctl[i].base \in Nat /\ ctl[i].base <= Len(vals)
  BY ValuesNow
<1> HIDE DEF m
<1> DEFINE n == m - 1
<1>2. n \in Nat /\ n >= 1 /\ n \in 1 .. m /\ 1 \in 1 .. n
  BY <1>1
<1>3. IsSeq(ctl') /\ Len(ctl') = n /\ \A i \in 1 .. n : ctl'[i] = ctl[i]
  BY <1>1, PopFacts DEF m
<1>4. SUFFICES ASSUME be'.err = "none"
               PROVE  ValuesOK(ctl', vals', be'.cpu, be'.live)
  BY <1>1, <1>2, <1>3, ValuesNext
<1> DEFINE w == vals'
           d == be'.cpu
           run == be'.live
<1>5. /\ CPUOK(d) /\ Keeps(vals, be.cpu, w, d, k) /\ Len(w) = k /\ w[k].val
      /\ run <=> \A i \in 1 .. n : Runs(ctl[i])
      /\ run => \A i \in 1 .. Len(w) : Good(w, d, i)
  BY <1>4 DEF m
<1>6. \A i \in 1 .. n : Floor(ctl[i]) < k /\ Floor(ctl[i]) \in Nat
  BY <1>1, FloorsBelow DEF m
<1>7. FrameGood(ctl[n], w, d)
  <2>1. FrameGood(ctl[n], vals, be.cpu) /\ ctl[n].base \in Nat
    BY <1>1, <1>2 DEF ValuesOK, m
  <2>2. Floor(ctl[n]) < k /\ n \in 1 .. n
    BY <1>2, <1>6
  <2> QED
    BY <1>5, <2>1, <2>2, FrameKeeps
<1>8. \A j \in n .. m, i \in 1 .. k - 1 : Missing(ctl[j], i) => Missing(ctl[n], i)
  <2> TAKE j \in n .. m, i \in 1 .. k - 1
  <2>1. j = n \/ j = m
    BY <1>1
  <2>2. ~Missing(ctl[m], i)
    BY <1>1 DEF Missing, Floor
  <2> QED
    BY <2>1, <2>2
<1>9. run <=> Runs(ctl[n]) /\ \A i \in 1 .. n - 1 : Runs(ctl[i])
  <2>1. \A i \in 1 .. n : i = n \/ i \in 1 .. n - 1
    BY <1>2
  <2>2. n \in 1 .. n /\ \A i \in 1 .. n - 1 : i \in 1 .. n
    BY <1>2
  <2> QED
    BY <1>5, <2>1, <2>2
<1>10. ctl'[n] = ctl[n] /\ n \in 1 .. n /\ Floor(ctl[n]) <= Len(w)
  BY <1>2, <1>3, <1>5, <1>6
<1>11. \A i \in k .. Len(w) : w[i].val
  BY <1>5
<1>12. \A i \in 1 .. n - 1 : ctl'[i] = ctl[i] /\ Floor(ctl[i]) < k
  BY <1>2, <1>3, <1>6
<1>13. n <= Len(ctl) /\ Len(ctl) \in Nat /\ \A i \in 1 .. Len(ctl) : ctl[i].base \in Nat
  BY <1>1, <1>2 DEF m
<1>14. \A j \in n .. Len(ctl), i \in 1 .. k - 1 : Missing(ctl[j], i) => Missing(ctl[n], i)
  BY <1>8 DEF m
<1> HIDE DEF w, d, run, n
<1>15. ValuesOK(ctl', w, d, run)
  BY <1>1, <1>2, <1>3, <1>5, <1>7, <1>9, <1>10, <1>11, <1>12, <1>13, <1>14, ValuesStep, SMTT(30)
<1> QED
  BY <1>15 DEF w, d, run

LEMMA EndBinopValues ==
  ASSUME PoolInv, ValueInv, TypeInv', Ops \subseteq ValueOps, EndBinop
  PROVE  ValueInv'
<1> DEFINE k == Len(vals) - 1
           l == vals[k].reg
           r == vals[k + 1].reg
           b == GenBinop(be, Top.op, l, r)
           e == Term(Top.op, Opd(k), Opd(k + 1))
<1>1. Top.k = "binop" /\ Top.op \in ValueOps /\ Running /\ UNCHANGED cg
  BY TopFacts, FrameKinds DEF PoolInv, TypeInv, EndBinop, BinopOK
<1>2. /\ ValuesOK(ctl, vals, be.cpu, be.live) /\ CPUOK(be.cpu) /\ BackendOK(be)
      /\ cg.global /\ cg.env = EmptyEnv /\ cg.scope = {}
      /\ Pool(be.used, vals) /\ vals \in Seq(Results) /\ Len(vals) \in Nat
      /\ Len(ctl) \in Nat /\ Len(ctl) >= 1 /\ Top = ctl[Len(ctl)] /\ Top.base \in Nat
      /\ \A i \in 1 .. Len(ctl) : ctl[i].base \in Nat
  <2>1. Top.base \in Nat
    BY TopFacts DEF PoolInv, TypeInv
  <2> QED
    BY <1>1, <2>1, ValuesNow
<1>3. Top.base = k - 1 /\ k \in Nat /\ k >= 1 /\ k \in 1 .. Len(vals) + 1 /\ k <= Len(vals)
      /\ k + 1 = Len(vals)
  BY <1>2 DEF EndBinop, Delivered
<1>4. ~InElse(Top) /\ Floor(Top) = k - 1
  BY <1>1, <1>3 DEF InElse, Floor
<1>5. l \in Regs /\ r \in Regs /\ l # r /\ l \in be.used /\ r \in be.used
      /\ \A i \in 1 .. k - 1 : vals[i].reg \in be.used /\ vals[i].reg # l /\ vals[i].reg # r
  BY <1>2, <1>3, ResultFields DEF Pool
<1>6. be.live => be.cpu.reg[l] = Opd(k) /\ be.cpu.reg[r] = Opd(k + 1)
  <2>1. ASSUME NEW i \in {k, k + 1}
        PROVE  be.live => Holds(vals, be.cpu, i)
    <3> HIDE DEF k
    <3>1. i \in 1 .. Len(vals) /\ i > k - 1
      BY <1>3
    <3>2. i > Floor(ctl[Len(ctl)])
      BY <1>2, <1>4, <3>1
    <3> QED
      BY <1>2, <3>1, <3>2, AboveFloor
  <2> QED
    BY <2>1 DEF Holds
<1>7. Deliver(b, k, e) /\ ctl' = Pop(ctl)
  BY DEF EndBinop
<1> HIDE DEF k, l, r
<1>8. BackendOK(b) /\ ReplacesOperands(be, b, l, r) /\ b.live = be.live
  <2>1. Top.op \in BinaryOps
    BY <1>1 DEF ValueOps, BinaryOps
  <2>2. BackendOK(b) /\ SameCall(be, b) /\ ReplacesOperands(be, b, l, r)
    BY <1>2, <1>5, <2>1, BinopReplaces
  <2> QED
    BY <2>2 DEF SameCall
<1>9. be'.err = b.err
  <2> HIDE DEF b, e
  <2> QED
    BY <1>2, <1>3, <1>7, <1>8, DeliverOK
<1>10. SUFFICES ASSUME b.err = "none"
                PROVE  /\ be'.live = be.live /\ CPUOK(be'.cpu)
                       /\ Keeps(vals, be.cpu, vals', be'.cpu, k)
                       /\ Len(vals') = k /\ vals'[k].val
                       /\ be.live => \A i \in 1 .. k : Good(vals', be'.cpu, i)
  <2> HIDE DEF b, e
  <2>1. be.live <=> \A i \in 1 .. Len(ctl) - 1 : Runs(ctl[i])
    <3>1. Runs(ctl[Len(ctl)])
      BY <1>1, <1>2, <1>4 DEF Runs
    <3>2. \A i \in 1 .. Len(ctl) : i = Len(ctl) \/ i \in 1 .. Len(ctl) - 1
      BY <1>2
    <3> QED
      BY <1>2, <3>1, <3>2 DEF ValuesOK
  <2> QED
    BY <1>1, <1>2, <1>3, <1>4, <1>7, <1>9, <1>10, <2>1, PopValues
<1>11. Computes(be, b, e)
  <2>1. Computes(be, b, Term(Top.op, be.cpu.reg[l], be.cpu.reg[r]))
    BY <1>1, <1>2, <1>5, <1>10, BinopComputes
  <2> HIDE DEF b
  <2>2. CASE be.live
    BY <1>6, <2>1, <2>2
  <2>3. CASE ~be.live
    BY <2>1, <2>3 DEF Computes
  <2> QED
    BY <2>2, <2>3
<1>12. \A i \in 1 .. k - 1 : vals[i].reg # b.res
  BY <1>5, <1>8, <1>10 DEF ReplacesOperands
<1> HIDE DEF b, e
<1> QED
  BY <1>1, <1>3, <1>7, <1>8, <1>11, <1>12, DeliverValues

\* Going on in the innermost activation.
LEMMA BecomeValues ==
  ASSUME PoolInv, ValueInv, TypeInv', Running, NEW f, Become(f), f.base = Top.base,
         f.k = "if" => f.live = Top.live /\ Top.k = "if", Top.k = "prog" => f.ph # "ret",
         NEW k \in Nat, Top.base < k, k <= Len(vals) + 1,
         cg'.global, cg'.env = EmptyEnv, cg'.scope = {},
         be'.err = "none" =>
           /\ CPUOK(be'.cpu) /\ Keeps(vals, be.cpu, vals', be'.cpu, k)
           /\ Len(vals') \in Nat /\ Floor(f) <= Len(vals') /\ FrameGood(f, vals', be'.cpu)
           /\ \A i \in k .. Len(vals') : vals'[i].val \/ Missing(f, i)
           /\ \A i \in 1 .. k - 1 : Missing(Top, i) => Missing(f, i)
           /\ be'.live <=> Runs(f) /\ \A i \in 1 .. Len(ctl) - 1 : Runs(ctl[i])
           /\ be'.live => \A i \in 1 .. Len(vals') : Good(vals', be'.cpu, i)
  PROVE  ValueInv'
<1> DEFINE n == Len(ctl)
<1>1. /\ ValuesOK(ctl, vals, be.cpu, be.live) /\ ctl[1].ph # "ret" /\ IsSeq(ctl)
      /\ Len(vals) \in Nat /\ n \in Nat /\ n >= 1 /\ Top = ctl[n] /\ (Top.k = "prog" <=> n = 1)
      /\ \A i \in 1 .. n : ctl[i].base \in Nat /\ ctl[i].base <= Len(vals)
  BY ValuesNow
<1>2. Len(ctl') = n /\ ctl'[n] = f /\ \A i \in 1 .. n - 1 : ctl'[i] = ctl[i]
  <2>1. ctl' = [ctl EXCEPT ![Len(ctl)] = f]
    BY DEF Become
  <2> QED
    BY <1>1, <2>1, BecomeFacts
<1> HIDE DEF n
<1>3. n \in 1 .. n /\ \A i \in 1 .. n - 1 : i \in 1 .. n
  BY <1>1
<1>4. ctl'[1].ph # "ret"
  <2>1. CASE n = 1
    BY <1>1, <1>2, <2>1
  <2>2. CASE n # 1
    BY <1>1, <1>2, <2>2
  <2> QED
    BY <2>1, <2>2
<1>5. SUFFICES ASSUME be'.err = "none"
               PROVE  ValuesOK(ctl', vals', be'.cpu, be'.live)
  BY <1>4, ValuesNext
<1> DEFINE w == vals'
           d == be'.cpu
           run == be'.live
<1>6. /\ CPUOK(d) /\ Keeps(vals, be.cpu, w, d, k)
      /\ Len(w) \in Nat /\ Floor(f) <= Len(w) /\ FrameGood(f, w, d)
      /\ \A i \in k .. Len(w) : w[i].val \/ Missing(f, i)
      /\ \A i \in 1 .. k - 1 : Missing(Top, i) => Missing(f, i)
      /\ run <=> Runs(f) /\ \A i \in 1 .. n - 1 : Runs(ctl[i])
      /\ run => \A i \in 1 .. Len(w) : Good(w, d, i)
  BY <1>5 DEF n
<1>7. \A i \in 1 .. n - 1 : Floor(ctl[i]) < k
  BY <1>1, <1>3, FloorsBelow DEF n
<1>8. \A j \in n .. Len(ctl), i \in 1 .. k - 1 : Missing(ctl[j], i) => Missing(f, i)
  <2> TAKE j \in n .. Len(ctl), i \in 1 .. k - 1
  <2>1. j = n
    BY <1>1 DEF n
  <2> QED
    BY <1>1, <1>6, <2>1
<1>9. n <= Len(ctl) /\ Len(ctl) \in Nat /\ \A i \in 1 .. Len(ctl) : ctl[i].base \in Nat
  BY <1>1 DEF n
<1>10. \A i \in 1 .. n - 1 : ctl'[i] = ctl[i] /\ Floor(ctl[i]) < k
  BY <1>2, <1>7
<1>11. f.base = ctl[n].base /\ (f.k = "if" => f.live = ctl[n].live /\ ctl[n].k = "if")
  BY <1>1
<1> HIDE DEF w, d, run
<1>12. ValuesOK(ctl', w, d, run)
  BY <1>1, <1>2, <1>6, <1>8, <1>9, <1>10, <1>11, ValuesStep, SMTT(30)
<1> QED
  BY <1>12 DEF w, d, run

\* The operand of the condition is freed and dropped; from here on the code runs
\* only if the condition is true.
LEMMA IfConditionValues ==
  ASSUME PoolInv, ValueInv, TypeInv', IfCondition
  PROVE  ValueInv'
<1> DEFINE k == Len(vals)
           d == RegDealloc(be, vals[k].reg)
           b == Settled(d, k - 1, Nowhere, Junk, Junk)
<1>1. Top.k = "if" /\ Top.ph = "cond" /\ IfOK(Top) /\ Running /\ UNCHANGED cg
  BY TopFacts, FrameKinds DEF PoolInv, TypeInv, IfCondition
<1>2. /\ ValuesOK(ctl, vals, be.cpu, be.live) /\ CPUOK(be.cpu) /\ BackendOK(be)
      /\ cg.global /\ cg.env = EmptyEnv /\ cg.scope = {}
      /\ vals \in Seq(Results) /\ k \in Nat
      /\ Len(ctl) \in Nat /\ Len(ctl) >= 1 /\ Top = ctl[Len(ctl)]
  BY <1>1, ValuesNow
<1>3. Top.base = k - 1 /\ k >= 1
  BY <1>2, TopFacts DEF PoolInv, TypeInv, IfCondition, Delivered
<1>4. PICK taken \in BOOLEAN, hasElse \in BOOLEAN :
        /\ Become([Top EXCEPT !.ph = "then", !.taken = taken, !.hasElse = hasElse])
        /\ be' = [b EXCEPT !.live = @ /\ taken] /\ vals' = SubSeq(vals, 1, k - 1)
  BY DEF IfCondition, Last, Pop
<1> DEFINE f == [Top EXCEPT !.ph = "then", !.taken = taken, !.hasElse = hasElse]
<1>5. /\ f.base = Top.base /\ f.k = "if" /\ f.live = Top.live /\ f.ph = "then"
      /\ f.scope = Top.scope /\ f.taken = taken
  BY <1>1 DEF IfOK
<1>6. Become(f)
  BY <1>4
<1> HIDE DEF f
<1>7. d.live = be.live /\ d.cpu = be.cpu /\ BackendOK(d)
  BY <1>2, DeallocFrees DEF RegDealloc, BackendOK, BackendFields
<1> HIDE DEF d
<1>8. /\ b.live = be.live /\ BackendOK(b)
      /\ b.cpu = IF be.live THEN Settle(be.cpu, k - 1, Nowhere, Junk, Junk) ELSE be.cpu
  <2>1. /\ b.live = d.live
        /\ b.cpu = IF d.live THEN Settle(d.cpu, k - 1, Nowhere, Junk, Junk) ELSE d.cpu
    BY <1>7 DEF Settled, BackendOK, BackendFields
  <2> HIDE DEF b
  <2>2. BackendOK(b)
    BY <1>7, SettledKeeps DEF b
  <2> QED
    BY <1>7, <2>1, <2>2
<1> HIDE DEF b
<1>9. be'.cpu = b.cpu /\ (be'.live <=> be.live /\ taken)
  BY <1>4, <1>8 DEF BackendOK, BackendFields
<1>10. k \in 1 .. Len(vals) + 1 /\ k - 1 \in 0 .. Len(vals)
  BY <1>2, <1>3
<1> HIDE DEF k
<1>11. Len(vals') = k - 1 /\ \A i \in 1 .. k - 1 : vals'[i] = vals[i]
  BY <1>2, <1>4, <1>10, DropFacts
<1>12. CPUOK(be'.cpu) /\ Keeps(vals, be.cpu, vals', be'.cpu, k)
  <2> DEFINE s == Settle(be.cpu, k - 1, Nowhere, Junk, Junk)
  <2>1. CPUOK(s) /\ Keeps(vals, be.cpu, vals', s, k)
    BY <1>2, <1>10, <1>11, OnlySettle
  <2>2. be.live => be'.cpu = s
    BY <1>8, <1>9
  <2> HIDE DEF s
  <2>3. CASE ~be.live
    BY <1>2, <1>8, <1>9, <1>11, <2>3 DEF Keeps, Holds
  <2> QED
    BY <2>1, <2>2, <2>3
<1>13. FrameGood(f, vals', be'.cpu)
  <2>1. FrameGood(Top, vals, be.cpu) /\ ~InElse(Top) /\ Floor(Top) < k /\ Top.base \in Nat
    BY <1>1, <1>2, <1>3 DEF ValuesOK, InElse, Floor
  <2>2. FrameGood(Top, vals', be'.cpu)
    BY <1>2, <1>12, <2>1, FrameKeeps
  <2> QED
    BY <1>1, <1>5, <2>2 DEF FrameGood, InElse
<1>14. be'.live <=> Runs(f) /\ \A i \in 1 .. Len(ctl) - 1 : Runs(ctl[i])
  <2>1. Runs(Top) /\ (Runs(f) <=> taken)
    BY <1>1, <1>5 DEF Runs, InElse
  <2>2. \A i \in 1 .. Len(ctl) : i = Len(ctl) \/ i \in 1 .. Len(ctl) - 1
    BY <1>2
  <2>3. be.live <=> \A i \in 1 .. Len(ctl) - 1 : Runs(ctl[i])
    BY <1>2, <2>1, <2>2 DEF ValuesOK
  <2> QED
    BY <1>9, <2>1, <2>3
<1>15. be'.live => \A i \in 1 .. Len(vals') : Good(vals', be'.cpu, i)
  <2>1. SUFFICES ASSUME be'.live, NEW i \in 1 .. k - 1 PROVE Good(vals', be'.cpu, i)
    BY <1>11
  <2>2. Good(vals, be.cpu, i)
    BY <1>2, <1>9, <1>10, <2>1 DEF ValuesOK
  <2> QED
    BY <1>12, <2>1, <2>2 DEF Keeps, Good
<1>16. Floor(f) <= Len(vals') /\ \A i : ~Missing(Top, i)
  BY <1>1, <1>3, <1>5, <1>11 DEF Floor, InElse, Missing
<1>17. Len(vals') \in Nat /\ \A i \in k .. Len(vals') : FALSE
  BY <1>2, <1>3, <1>11
<1> QED
  BY <1>1, <1>2, <1>3, <1>5, <1>6, <1>10, <1>12, <1>13, <1>14, <1>15, <1>16, <1>17, BecomeValues

\* A statement of a body ends: the result of the one before gives way to its result.
LEMMA IfStatementValues ==
  ASSUME PoolInv, ValueInv, TypeInv', IfStatement
  PROVE  ValueInv'
<1> DEFINE f == [Top EXCEPT !.n = @ + 1]
<1>1. Top.k = "if" /\ IfOK(Top) /\ Running /\ UNCHANGED cg /\ Top.ph \in {"then", "else"}
  BY TopFacts, FrameKinds DEF PoolInv, TypeInv, IfStatement, InIf
<1>2. /\ ValuesOK(ctl, vals, be.cpu, be.live) /\ CPUOK(be.cpu) /\ BackendOK(be)
      /\ cg.global /\ cg.env = EmptyEnv /\ cg.scope = {}
      /\ vals \in Seq(Results) /\ Len(vals) \in Nat /\ Pool(be.used, vals)
      /\ Len(ctl) \in Nat /\ Len(ctl) >= 1 /\ Top = ctl[Len(ctl)] /\ Top.base \in Nat
      /\ \A i \in 1 .. Len(ctl) : ctl[i].base \in Nat
  <2>1. Top.base \in Nat
    BY TopFacts DEF PoolInv, TypeInv
  <2> QED
    BY <1>1, <2>1, ValuesNow
<1>3. /\ f.base = Top.base /\ f.k = "if" /\ f.live = Top.live /\ f.ph = Top.ph
      /\ f.scope = Top.scope /\ f.taken = Top.taken /\ f.val = Top.val
  BY <1>1 DEF IfOK
<1>4. Become(f)
  BY DEF IfStatement
<1> HIDE DEF f
<1>5. /\ Floor(f) = Floor(Top) /\ (InElse(f) <=> InElse(Top)) /\ (Runs(f) <=> Runs(Top))
      /\ \A i : Missing(Top, i) <=> Missing(f, i)
      /\ \A w, d : FrameGood(Top, w, d) => FrameGood(f, w, d)
  <2>1. (InElse(f) <=> InElse(Top))
    BY <1>1, <1>3 DEF InElse
  <2>2. \A w, d : FrameGood(Top, w, d) => FrameGood(f, w, d)
    BY <1>1, <1>3, <2>1 DEF FrameGood
  <2> QED
    BY <1>1, <1>3, <2>1, <2>2 DEF Floor, Missing, Runs
<1>6. be.live <=> Runs(f) /\ \A i \in 1 .. Len(ctl) - 1 : Runs(ctl[i])
  <2>1. \A i \in 1 .. Len(ctl) : i = Len(ctl) \/ i \in 1 .. Len(ctl) - 1
    BY <1>2
  <2>2. Len(ctl) \in 1 .. Len(ctl) /\ \A i \in 1 .. Len(ctl) - 1 : i \in 1 .. Len(ctl)
    BY <1>2
  <2> QED
    BY <1>2, <1>5, <2>1, <2>2 DEF ValuesOK
<1>7. FrameGood(Top, vals, be.cpu) /\ Floor(Top) <= Len(vals) /\ Floor(Top) \in Nat
  <2>1. Len(ctl) \in 1 .. Len(ctl)
    BY <1>2
  <2> QED
    BY <1>2, <2>1 DEF ValuesOK, Floor
<1>8. CASE Top.n = 0
  <2>1. UNCHANGED << vals, be >>
    BY <1>8 DEF IfStatement
  <2>2. Keeps(vals, be.cpu, vals, be.cpu, Len(vals) + 1)
    BY DEF Keeps
  <2>3. Top.base < Len(vals) + 1 /\ Len(vals) + 1 \in Nat /\ \A i \in Len(vals) + 1 .. Len(vals) : FALSE
    BY <1>2, TopFacts DEF PoolInv, TypeInv
  <2>4. FrameGood(f, vals', be'.cpu) /\ Floor(f) <= Len(vals')
    BY <1>5, <1>7, <2>1
  <2>5. be'.live => \A i \in 1 .. Len(vals') : Good(vals', be'.cpu, i)
    BY <1>2, <2>1 DEF ValuesOK
  <2> DEFINE k == Len(vals) + 1
  <2>6. k \in Nat /\ Top.base < k /\ k <= Len(vals) + 1 /\ Keeps(vals, be.cpu, vals', be'.cpu, k)
        /\ Len(vals') \in Nat /\ \A i \in k .. Len(vals') : FALSE
    BY <1>2, <2>1, <2>2, <2>3
  <2> HIDE DEF k
  <2> QED
    BY <1>1, <1>2, <1>3, <1>4, <1>5, <1>6, <2>1, <2>4, <2>5, <2>6, BecomeValues
<1>9. CASE Top.n # 0
  <2> DEFINE k    == Len(vals) - 1
             last == vals[k + 1]
             b    == RegDealloc(be, vals[k].reg)
             s    == Settle(be.cpu, k - 1, InReg(last.reg), Opd(k + 1), Opd(k))
  <2>1. Top.n \in Nat /\ Top.n > 0 /\ Resting(Top) = (IF InElse(Top) THEN 1 ELSE 0) + 1
    BY <1>1, <1>9 DEF Resting, InElse, IfOK
  <2>2. Len(vals) - Top.base = Resting(Top) + 1
    BY DEF IfStatement, Delivered
  <2>3. Floor(Top) = k - 1 /\ Top.base < k /\ k \in Nat /\ k >= 1 /\ k + 1 = Len(vals)
        /\ k <= Len(vals) + 1 /\ k \in 1 .. Len(vals) + 1 /\ k + 1 \in 1 .. Len(vals)
    BY <1>2, <2>1, <2>2 DEF Floor
  <2>4. /\ be' = Settled(b, k - 1, InReg(last.reg), Opd(k + 1), Opd(k))
        /\ vals' = Append(SubSeq(vals, 1, k - 1), last)
    BY <1>9 DEF IfStatement
  <2>5. last \in Results /\ last.reg \in Regs
    BY <1>2, <2>3, ResultFields
  <2>6. \A i \in 1 .. k - 1 : vals[i].reg # last.reg
    BY <1>2, <2>3 DEF Pool
  <2>7. last.val /\ (be.live => be.cpu.reg[last.reg] = Opd(k + 1))
    <3> HIDE DEF k, s
    <3>1. k + 1 > Floor(ctl[Len(ctl)])
      BY <1>2, <2>3
    <3>2. vals[k + 1].val /\ (be.live => Holds(vals, be.cpu, k + 1))
      BY <1>2, <2>3, <3>1, AboveFloor
    <3> QED
      BY <3>2 DEF Holds
  <2> HIDE DEF k, last
  <2>8. Len(vals') = k /\ vals'[k] = last /\ \A i \in 1 .. k - 1 : vals'[i] = vals[i]
    BY <1>2, <2>3, <2>4, <2>5, ReplaceFacts
  <2>9. b.live = be.live /\ b.cpu = be.cpu /\ BackendOK(b)
    BY <1>2, DeallocFrees DEF RegDealloc, BackendOK, BackendFields
  <2> HIDE DEF b
  <2>10. be'.live = be.live /\ be'.cpu = IF be.live THEN s ELSE be.cpu
    BY <2>4, <2>9 DEF Settled, BackendOK, BackendFields
  <2>11. CPUOK(s) /\ Keeps(vals, be.cpu, vals', s, k) /\ (be.live => s.reg[last.reg] = Opd(k))
    <3>1. \A i \in 1 .. k - 1 : vals'[i] = vals[i] /\ vals[i].reg # last.reg
      BY <2>6, <2>8
    <3> DEFINE r == last.reg
               x == Opd(k + 1)
               y == Opd(k)
    <3>2. r \in Regs /\ (be.live => be.cpu.reg[r] = x)
      BY <2>5, <2>7
    <3> HIDE DEF r, x, y, s
    <3>3. \A i \in 1 .. k - 1 : vals'[i] = vals[i] /\ vals[i].reg # r
      BY <3>1 DEF r
    <3>4. LET e == Settle(be.cpu, k - 1, InReg(r), x, y)
          IN  CPUOK(e) /\ Keeps(vals, be.cpu, vals', e, k) /\ (be.cpu.reg[r] = x => e.reg[r] = y)
      <4>1. CPUOK(be.cpu) /\ vals \in Seq(Results) /\ k \in 1 .. Len(vals) + 1 /\ r \in Regs
        BY <1>2, <2>3, <3>2
      <4> QED
        BY <3>3, <4>1, OnlyNames
    <3> QED
      BY <3>2, <3>4 DEF r, x, y, s
  <2> HIDE DEF s
  <2>12. CPUOK(be'.cpu) /\ Keeps(vals, be.cpu, vals', be'.cpu, k)
    <3>1. CASE ~be.live
      BY <1>2, <2>8, <2>10, <3>1 DEF Keeps, Holds
    <3> QED
      BY <2>10, <2>11, <3>1
  <2>13. FrameGood(f, vals', be'.cpu)
    <3>1. Floor(Top) < k
      BY <2>3
    <3> QED
      BY <1>2, <1>5, <1>7, <2>3, <2>12, <3>1, FrameKeeps
  <2>14. be'.live => \A i \in 1 .. Len(vals') : Good(vals', be'.cpu, i)
    <3>1. SUFFICES ASSUME be.live, NEW i \in 1 .. k PROVE Good(vals', be'.cpu, i)
      BY <2>8, <2>10
    <3>2. CASE i = k
      BY <2>8, <2>10, <2>11, <3>1, <3>2 DEF Good, Holds
    <3>3. CASE i \in 1 .. k - 1
      <4>1. i \in 1 .. Len(vals) /\ Good(vals, be.cpu, i)
        BY <1>2, <2>3, <3>1, <3>3 DEF ValuesOK
      <4> QED
        BY <2>12, <3>3, <4>1 DEF Keeps, Good
    <3> QED
      BY <2>3, <3>2, <3>3
  <2>15. \A i \in k .. Len(vals') : vals'[i].val
    BY <2>3, <2>7, <2>8
  <2>16. Floor(f) <= Len(vals') /\ Len(vals') \in Nat
    BY <1>5, <2>3, <2>8
  <2> QED
    BY <1>1, <1>2, <1>3, <1>4, <1>5, <1>6, <2>3, <2>10, <2>12, <2>13, <2>14, <2>15, <2>16, BecomeValues
<1> QED
  BY <1>8, <1>9

\* A value left in register r, if the code that leaves it runs, becomes operand number k.
LEMMA NamesWritten ==
  ASSUME NEW c, NEW d, NEW r \in Regs, NEW x, Writes(c, d, r, x), NEW v \in Seq(Results),
         NEW k \in 1 .. Len(v) + 1, NEW w, Spared(v, w, k, r), w[k].reg = r
  PROVE  LET e == Settle(d, k - 1, InReg(r), x, Opd(k))
         IN  CPUOK(e) /\ Keeps(v, c, w, e, k) /\ Holds(w, e, k)
<1> DEFINE y == Opd(k)
           e == Settle(d, k - 1, InReg(r), x, y)
<1> HIDE DEF y
<1>1. CPUOK(e) /\ e.reg[r] = y /\ Keeps(v, c, w, e, k)
  BY WriteSettle
<1> HIDE DEF e
<1> QED
  BY <1>1 DEF e, y, Holds

LEMMA NamesResult ==
  ASSUME NEW c, CPUOK(c), NEW d, NEW r \in Regs, NEW x, NEW live \in BOOLEAN,
         live => Writes(c, d, r, x), ~live => d = c,
         NEW v \in Seq(Results), NEW k \in 1 .. Len(v) + 1, NEW w, Spared(v, w, k, r), w[k].reg = r,
         NEW e, e = IF live THEN Settle(d, k - 1, InReg(r), x, Opd(k)) ELSE d
  PROVE  CPUOK(e) /\ Keeps(v, c, w, e, k) /\ (live => Holds(w, e, k))
<1>1. CASE live
  <2> DEFINE g == Settle(d, k - 1, InReg(r), x, Opd(k))
  <2>1. Writes(c, d, r, x) /\ e = g
    BY <1>1
  <2>2. CPUOK(g) /\ Keeps(v, c, w, g, k) /\ Holds(w, g, k)
    BY <2>1, NamesWritten
  <2> HIDE DEF g
  <2> QED
    BY <2>1, <2>2
<1>2. CASE ~live
  <2>1. e = c
    BY <1>2
  <2> QED
    BY <1>2, <2>1 DEF Keeps, Holds, Spared
<1> QED
  BY <1>1, <1>2

\* A condition whose body has just ended: operand k is the result of its last statement.
LEMMA EndThenNow ==
  ASSUME PoolInv, ValueInv, EndThen, NEW k, k = Len(vals), NEW q, q = vals[k].reg
  PROVE  /\ Running /\ Top.k = "if" /\ Top.ph = "then" /\ IfOK(Top) /\ Top.scope = {}
         /\ k \in Nat /\ k >= 1 /\ Top.base = k - 1 /\ q \in Regs
         /\ vals[k].val /\ (be.live => be.cpu.reg[q] = Opd(k))
         /\ be.live <=> Top.live /\ Top.taken
         /\ Top.live <=> \A i \in 1 .. Len(ctl) - 1 : Runs(ctl[i])
         /\ FrameGood(Top, vals, be.cpu) /\ ~InElse(Top) /\ Floor(Top) = k - 1
<1>1. Top.k = "if" /\ Top.ph = "then" /\ IfOK(Top) /\ Top.n \in Nat /\ Top.n > 0 /\ Running
  BY TopFacts, FrameKinds DEF PoolInv, TypeInv, EndThen, BodyEnded, IfOK
<1>2. /\ ValuesOK(ctl, vals, be.cpu, be.live) /\ vals \in Seq(Results) /\ k \in Nat
      /\ Len(ctl) \in Nat /\ Len(ctl) >= 1 /\ Top = ctl[Len(ctl)]
      /\ \A i \in 1 .. Len(ctl) : ctl[i].base \in Nat
  BY <1>1, ValuesNow
<1>3. Top.base = k - 1 /\ k >= 1
  <2>1. Len(vals) - Top.base = 1
    BY <1>1 DEF EndThen, BodyEnded, Delivered, Resting
  <2>2. Top.base \in Nat
    BY TopFacts DEF PoolInv, TypeInv
  <2> QED
    BY <1>2, <2>1, <2>2
<1>4. ~InElse(Top) /\ Floor(Top) = k - 1 /\ (Runs(Top) <=> Top.taken)
  BY <1>1, <1>3 DEF InElse, Floor, Runs
<1>5. q \in Regs
  BY <1>2, <1>3, ResultFields
<1>6. vals[k].val /\ (be.live => be.cpu.reg[q] = Opd(k))
  <2>1. vals[k].val /\ (be.live => Holds(vals, be.cpu, k))
    BY <1>2, <1>3, <1>4, AboveFloor
  <2> QED
    BY <2>1 DEF Holds
<1>7. Len(ctl) \in 1 .. Len(ctl)
      /\ \A i \in 1 .. Len(ctl) : i = Len(ctl) \/ i \in 1 .. Len(ctl) - 1
  BY <1>2
<1>8. FrameGood(Top, vals, be.cpu) /\ (Top.live <=> \A i \in 1 .. Len(ctl) - 1 : Runs(ctl[i]))
  BY <1>1, <1>2, <1>7 DEF ValuesOK
<1>9. be.live <=> Top.live /\ Top.taken
  <2>1. \A i \in 1 .. Len(ctl) - 1 : i \in 1 .. Len(ctl)
    BY <1>2
  <2> QED
    BY <1>2, <1>4, <1>7, <1>8, <2>1 DEF ValuesOK
<1> QED
  BY <1>1, <1>2, <1>3, <1>4, <1>5, <1>6, <1>8, <1>9 DEF FrameGood

LEMMA EndThenValues ==
  ASSUME PoolInv, ValueInv, TypeInv', EndThen
  PROVE  ValueInv'
<1> DEFINE k     == Len(vals)
           q     == vals[k].reg
           a     == RegAlloc(be)
           r     == a.res
           c     == CopyReg(a, q, r)
           moved == RegDealloc(c, q)
           skip  == Top.live /\ ~Top.taken
           after == [moved EXCEPT !.live = skip]
           zero  == ZeroOut(after, r)
           done  == [zero EXCEPT !.live = Top.live]
           from  == IF Top.taken THEN Opd(k) ELSE Zero
           f     == [Top EXCEPT !.ph = "else", !.n = 0, !.val = vals[k].val]
           s     == Settled(moved, k - 1, InReg(r), Opd(k), Opd(k))
<1>1. /\ Running /\ Top.k = "if" /\ Top.ph = "then" /\ IfOK(Top) /\ Top.scope = {}
      /\ k \in Nat /\ k >= 1 /\ Top.base = k - 1 /\ q \in Regs
      /\ vals[k].val /\ (be.live => be.cpu.reg[q] = Opd(k))
      /\ be.live <=> Top.live /\ Top.taken
      /\ Top.live <=> \A i \in 1 .. Len(ctl) - 1 : Runs(ctl[i])
      /\ FrameGood(Top, vals, be.cpu) /\ ~InElse(Top) /\ Floor(Top) = k - 1
  BY EndThenNow
<1>2. /\ CPUOK(be.cpu) /\ BackendOK(be) /\ cg.global /\ cg.env = EmptyEnv
      /\ Pool(be.used, vals) /\ vals \in Seq(Results)
      /\ DOMAIN cg = {"global", "off", "env", "scope"}
  BY <1>1, ValuesNow DEF PoolInv, TypeInv, ContextOK
<1>3. cg'.global /\ cg'.env = EmptyEnv /\ cg'.scope = {}
  <2>1. cg' = [cg EXCEPT !.scope = Top.scope]
    BY DEF EndThen
  <2> QED
    BY <1>1, <1>2, <2>1
<1>4. /\ BackendOK(a) /\ a.cpu = be.cpu /\ a.live = be.live /\ r \in Regs
      /\ a.err = "none" => r \notin be.used
  BY <1>2, AllocTakesFree, AllocEmitsNothing DEF BackendOK
<1>5. a.err = "none" => \A i \in 1 .. k - 1 : vals[i].reg # r
  BY <1>1, <1>2, <1>4 DEF Pool
<1> HIDE DEF a, r, q
<1> DEFINE mov == << "mov", q, r >>
<1>6. /\ BackendOK(c) /\ c.err = a.err /\ c.live = be.live
      /\ c.cpu = IF be.live THEN Exec(be.cpu, mov) ELSE be.cpu
  BY <1>4, EmitKeeps, EmitOne DEF CopyReg
<1> HIDE DEF c
<1>7. BackendOK(moved) /\ moved.err = a.err /\ moved.live = be.live /\ moved.cpu = c.cpu
  BY <1>6, DeallocFrees DEF RegDealloc, BackendOK, BackendFields
<1> HIDE DEF moved
<1>8. be.live => Writes(be.cpu, moved.cpu, r, Opd(k))
  <2>1. Writes(be.cpu, Exec(be.cpu, mov), r, be.cpu.reg[q])
    BY <1>1, <1>2, <1>4, ExecWrites
  <2> QED
    BY <1>1, <1>6, <1>7, <2>1
<1>9. ~be.live => moved.cpu = be.cpu
  BY <1>6, <1>7
<1> HIDE DEF mov, k
<1>10. k \in 1 .. Len(vals) + 1 /\ k <= Len(vals) + 1 /\ k <= Len(vals) /\ Top.base < k
  BY <1>1 DEF k
<1>11. CASE Top.hasElse
  <2>1. /\ vals' = Append(SubSeq(vals, 1, k - 1), Result(r, FALSE))
        /\ be'   = [s EXCEPT !.live = skip] /\ Become(f)
    BY <1>11 DEF EndThen, Pop, moved, c, r, a, q, k
  <2>2. /\ f.base = Top.base /\ f.k = "if" /\ f.live = Top.live /\ f.ph = "else"
        /\ f.scope = {} /\ f.taken = Top.taken /\ f.val
    BY <1>1 DEF IfOK
  <2> HIDE DEF f
  <2>3. /\ BackendOK(s) /\ s.err = a.err
        /\ s.cpu = IF be.live THEN Settle(moved.cpu, k - 1, InReg(r), Opd(k), Opd(k)) ELSE moved.cpu
    <3>1. s.cpu = IF moved.live THEN Settle(moved.cpu, k - 1, InReg(r), Opd(k), Opd(k)) ELSE moved.cpu
      BY <1>7 DEF Settled, BackendOK, BackendFields
    <3>2. BackendOK(s) /\ s.err = moved.err
      BY <1>7, SettledKeeps
    <3> HIDE DEF s
    <3> QED
      BY <1>7, <3>1, <3>2
  <2> HIDE DEF s, skip
  <2>4. be'.err = a.err /\ be'.cpu = s.cpu /\ be'.live = skip
    BY <2>1, <2>3 DEF BackendOK, BackendFields
  <2>5. Result(r, FALSE) \in Results /\ Result(r, FALSE).reg = r /\ Result(r, FALSE).val = FALSE
    BY <1>4, ResultIsResult DEF Result
  <2>6. Len(vals') = k /\ vals'[k] = Result(r, FALSE) /\ \A i \in 1 .. k - 1 : vals'[i] = vals[i]
    <3> DEFINE x == Result(r, FALSE)
    <3>1. x \in Results /\ vals' = Append(SubSeq(vals, 1, k - 1), x)
      BY <2>1, <2>5
    <3> HIDE DEF x
    <3>2. Len(vals') = k /\ vals'[k] = x /\ \A i \in 1 .. k - 1 : vals'[i] = vals[i]
      BY <1>2, <1>10, <3>1, ReplaceFacts
    <3> QED
      BY <3>2 DEF x
  <2>7. Runs(f) <=> ~Top.taken
    BY <2>2 DEF Runs, InElse
  <2>8. Floor(f) = k /\ Missing(f, k) /\ \A i : ~Missing(Top, i)
    BY <1>1, <2>2 DEF Floor, Missing, InElse
  <2>9. ASSUME be'.err = "none"
        PROVE  /\ CPUOK(be'.cpu) /\ Keeps(vals, be.cpu, vals', be'.cpu, k)
               /\ FrameGood(f, vals', be'.cpu)
               /\ be'.live => \A i \in 1 .. k : Good(vals', be'.cpu, i)
    <3>1. \A i \in 1 .. k - 1 : vals'[i] = vals[i] /\ vals[i].reg # r
      BY <1>5, <2>4, <2>6, <2>9
    <3>2. /\ CPUOK(be'.cpu) /\ Keeps(vals, be.cpu, vals', be'.cpu, k)
          /\ be.live => Holds(vals', be'.cpu, k)
      <4>1. vals'[k].reg = r
        BY <2>5, <2>6
      <4>2. be'.cpu = IF be.live THEN Settle(moved.cpu, k - 1, InReg(r), Opd(k), Opd(k)) ELSE moved.cpu
        BY <2>3, <2>4
      <4>3. /\ CPUOK(be.cpu) /\ r \in Regs /\ vals \in Seq(Results) /\ k \in 1 .. Len(vals) + 1
            /\ be.live => Writes(be.cpu, moved.cpu, r, Opd(k))
            /\ ~be.live => moved.cpu = be.cpu
        BY <1>2, <1>4, <1>8, <1>9, <1>10
      <4> DEFINE live == be.live
                 x == Opd(k)
                 w == vals'
                 e == be'.cpu
                 d == moved.cpu
                 o == be.cpu
      <4> HIDE DEF live, w, e, d, o
      <4>4. CPUOK(e) /\ Keeps(vals, o, w, e, k) /\ (live => Holds(w, e, k))
        <5>1. /\ CPUOK(o) /\ r \in Regs /\ vals \in Seq(Results) /\ k \in 1 .. Len(vals) + 1
              /\ live \in BOOLEAN
              /\ live => Writes(o, d, r, x)
              /\ ~live => d = o
              /\ Spared(vals, w, k, r)
              /\ w[k].reg = r
              /\ e = IF live THEN Settle(d, k - 1, InReg(r), x, Opd(k)) ELSE d
          BY <1>2, <3>1, <4>1, <4>2, <4>3 DEF Spared, BackendOK, live, w, e, d, o
        <5> HIDE DEF x
        <5> QED
          BY <5>1, NamesResult
      <4> QED
        BY <4>4 DEF live, w, e, d, o
    <3>3. FrameGood(Top, vals', be'.cpu)
      BY <1>1, <3>2, FrameKeeps
    <3>4. Top.base + 1 = k /\ 1 .. k - 1 = 1 .. Top.base
      BY <1>1
    <3>5. FrameGood(f, vals', be'.cpu)
      BY <1>1, <2>2, <3>2, <3>3, <3>4 DEF FrameGood
    <3>6. be'.live => \A i \in 1 .. k : Good(vals', be'.cpu, i)
      <4>1. SUFFICES ASSUME Top.live, NEW i \in 1 .. k PROVE Good(vals', be'.cpu, i)
        BY <2>4 DEF skip
      <4>2. CASE i = k
        BY <2>5, <2>6, <4>2 DEF Good
      <4>3. CASE i \in 1 .. k - 1
        BY <1>1, <3>3, <3>4, <4>1, <4>3 DEF FrameGood
      <4> QED
        BY <1>1, <4>2, <4>3
    <3> QED
      BY <3>2, <3>5, <3>6
  <2>10. be'.live <=> Runs(f) /\ \A i \in 1 .. Len(ctl) - 1 : Runs(ctl[i])
    BY <1>1, <2>4, <2>7 DEF skip
  <2>11. \A i \in k .. Len(vals') : i = k
    BY <1>1, <2>6
  <2>12. \A i \in k .. Len(vals') : vals'[i].val \/ Missing(f, i)
    BY <2>8, <2>11
  <2>13. Len(vals') \in Nat /\ Floor(f) <= Len(vals')
    BY <1>1, <2>6, <2>8
  <2> QED
    BY <1>1, <1>3, <1>10, <2>1, <2>2, <2>6, <2>8, <2>9, <2>10, <2>12, <2>13, BecomeValues
<1>12. CASE ~Top.hasElse
  <2>1. IfResult(done, r, k, vals[k].val, from) /\ ctl' = Pop(ctl)
    BY <1>12 DEF EndThen, done, zero, after, skip, moved, c, r, a, q, k
  <2>2. /\ BackendOK(after) /\ after.cpu = moved.cpu /\ after.live = skip /\ after.err = moved.err
    <3>1. skip \in BOOLEAN
      OBVIOUS
    <3> HIDE DEF skip
    <3>2. BackendOK(after) /\ after.err = moved.err
      BY <1>7, <3>1, LiveOK
    <3> QED
      BY <1>7, <3>2 DEF BackendOK, BackendFields
  <2> HIDE DEF after, skip
  <2> DEFINE clear == << "zero", r >>
  <2>3. /\ BackendOK(zero) /\ zero.err = moved.err
        /\ zero.cpu = IF skip THEN Exec(moved.cpu, clear) ELSE moved.cpu
    BY <2>2, EmitKeeps, EmitOne DEF ZeroOut
  <2> HIDE DEF zero
  <2>4. /\ BackendOK(done) /\ done.err = a.err /\ done.cpu = zero.cpu /\ done.live = Top.live
    <3>1. Top.live \in BOOLEAN
      BY <1>1 DEF IfOK
    <3>2. BackendOK(done) /\ done.err = zero.err
      BY <2>3, <3>1, LiveOK
    <3> QED
      BY <1>7, <2>3, <3>2 DEF BackendOK, BackendFields
  <2> HIDE DEF done
  <2>5. /\ Top.live => Writes(be.cpu, done.cpu, r, from)
        /\ ~Top.live => done.cpu = be.cpu
    <3>1. CASE ~Top.live
      BY <1>1, <1>9, <2>3, <2>4, <3>1 DEF skip
    <3>2. CASE Top.live /\ Top.taken
      BY <1>1, <1>8, <2>3, <2>4, <3>2 DEF skip
    <3>3. CASE Top.live /\ ~Top.taken
      <4>1. done.cpu = Exec(be.cpu, clear)
        BY <1>1, <1>9, <2>3, <2>4, <3>3 DEF skip
      <4>2. Writes(be.cpu, Exec(be.cpu, clear), r, Zero)
        BY <1>2, <1>4, ExecWrites
      <4> QED
        BY <3>3, <4>1, <4>2
    <3> QED
      BY <3>1, <3>2, <3>3
  <2> HIDE DEF from, clear
  <2>6. /\ be'.live = Top.live /\ be'.err = a.err
        /\ be'.cpu = IF Top.live THEN Settle(done.cpu, k - 1, InReg(r), from, Opd(k)) ELSE done.cpu
    <3>1. be' = Settled(done, k - 1, InReg(r), from, Opd(k))
      BY <2>1 DEF IfResult
    <3> QED
      BY <2>4, <3>1 DEF Settled, BackendOK, BackendFields
  <2>7. Result(r, vals[k].val) \in Results /\ Result(r, vals[k].val).reg = r
    BY <1>2, <1>4, <1>10, ResultFields, ResultIsResult
  <2>8. /\ Len(vals') = k /\ vals'[k] = Result(r, vals[k].val)
        /\ \A i \in 1 .. k - 1 : vals'[i] = vals[i]
    <3>1. vals' = Append(SubSeq(vals, 1, k - 1), Result(r, vals[k].val))
      BY <2>1 DEF IfResult
    <3> QED
      BY <1>2, <1>10, <2>7, <3>1, ReplaceFacts
  <2>9. vals'[k].reg = r /\ vals'[k].val
    BY <1>1, <2>8 DEF Result
  <2>10. ASSUME be'.err = "none"
         PROVE  /\ CPUOK(be'.cpu) /\ Keeps(vals, be.cpu, vals', be'.cpu, k)
                /\ be'.live => \A i \in 1 .. k : Good(vals', be'.cpu, i)
    <3>1. \A i \in 1 .. k - 1 : vals'[i] = vals[i] /\ vals[i].reg # r
      BY <1>5, <2>6, <2>8, <2>10
    <3>2. /\ CPUOK(be'.cpu) /\ Keeps(vals, be.cpu, vals', be'.cpu, k)
          /\ Top.live => Holds(vals', be'.cpu, k)
      <4> DEFINE live == Top.live
                 w == vals'
                 e == be'.cpu
                 d == done.cpu
                 o == be.cpu
      <4> HIDE DEF live, w, e, d, o
      <4>1. CPUOK(e) /\ Keeps(vals, o, w, e, k) /\ (live => Holds(w, e, k))
        <5>1. /\ CPUOK(o) /\ r \in Regs /\ vals \in Seq(Results) /\ k \in 1 .. Len(vals) + 1
              /\ live \in BOOLEAN
              /\ live => Writes(o, d, r, from)
              /\ ~live => d = o
              /\ Spared(vals, w, k, r)
              /\ w[k].reg = r
              /\ e = IF live THEN Settle(d, k - 1, InReg(r), from, Opd(k)) ELSE d
          BY <1>1, <1>2, <1>4, <1>10, <2>5, <2>6, <2>9, <3>1 DEF Spared, IfOK, live, w, e, d, o
        <5> QED
          BY <5>1, NamesResult
      <4> QED
        BY <4>1 DEF live, w, e, d, o
    <3>3. FrameGood(Top, vals', be'.cpu)
      BY <1>1, <3>2, FrameKeeps
    <3>4. Top.base + 1 = k /\ 1 .. k - 1 = 1 .. Top.base
      BY <1>1
    <3>5. be'.live => \A i \in 1 .. k : Good(vals', be'.cpu, i)
      <4>1. SUFFICES ASSUME Top.live, NEW i \in 1 .. k PROVE Good(vals', be'.cpu, i)
        BY <2>6
      <4>2. CASE i = k
        BY <3>2, <4>1, <4>2 DEF Good
      <4>3. CASE i \in 1 .. k - 1
        BY <1>1, <3>3, <3>4, <4>1, <4>3 DEF FrameGood
      <4> QED
        BY <1>1, <4>2, <4>3
    <3> QED
      BY <3>2, <3>5
  <2> QED
    BY <1>1, <1>3, <1>10, <2>1, <2>6, <2>8, <2>9, <2>10, PopValues
<1> QED
  BY <1>11, <1>12

\* A condition whose second body has just ended: operand k is its own result, if the
\* first body ran, and operand k + 1 that of the last statement.
LEMMA EndElseNow ==
  ASSUME PoolInv, ValueInv, EndElse, NEW k, k = Len(vals) - 1,
         NEW q, q = vals[k + 1].reg, NEW r, r = vals[k].reg
  PROVE  /\ Running /\ Top.k = "if" /\ Top.ph = "else" /\ IfOK(Top) /\ Top.scope = {} /\ Top.val
         /\ k \in Nat /\ k >= 1 /\ k + 1 = Len(vals) /\ Top.base = k - 1
         /\ q \in Regs /\ r \in Regs
         /\ vals[k + 1].val /\ (be.live => be.cpu.reg[q] = Opd(k + 1))
         /\ be.live <=> Top.live /\ ~Top.taken
         /\ Top.live /\ Top.taken => be.cpu.reg[r] = Opd(k)
         /\ Top.live <=> \A i \in 1 .. Len(ctl) - 1 : Runs(ctl[i])
         /\ FrameGood(Top, vals, be.cpu) /\ Floor(Top) = k
<1>1. Top.k = "if" /\ Top.ph = "else" /\ IfOK(Top) /\ Top.n \in Nat /\ Top.n > 0 /\ Running
  BY TopFacts, FrameKinds DEF PoolInv, TypeInv, EndElse, BodyEnded, IfOK
<1>2. /\ ValuesOK(ctl, vals, be.cpu, be.live) /\ vals \in Seq(Results) /\ Len(vals) \in Nat
      /\ Len(ctl) \in Nat /\ Len(ctl) >= 1 /\ Top = ctl[Len(ctl)]
      /\ \A i \in 1 .. Len(ctl) : ctl[i].base \in Nat
  BY <1>1, ValuesNow
<1>3. Top.base = k - 1 /\ k \in Nat /\ k >= 1 /\ k + 1 = Len(vals)
  <2>1. Len(vals) - Top.base = 2
    BY <1>1 DEF EndElse, BodyEnded, Delivered, Resting
  <2>2. Top.base \in Nat
    BY TopFacts DEF PoolInv, TypeInv
  <2> QED
    BY <1>2, <2>1, <2>2
<1>4. InElse(Top) /\ Floor(Top) = k /\ (Runs(Top) <=> ~Top.taken)
  BY <1>1, <1>3 DEF InElse, Floor, Runs
<1>5. q \in Regs /\ r \in Regs
  BY <1>2, <1>3, ResultFields
<1>6. vals[k + 1].val /\ (be.live => be.cpu.reg[q] = Opd(k + 1))
  <2>1. k + 1 \in 1 .. Len(vals) /\ k + 1 > Floor(ctl[Len(ctl)])
    BY <1>2, <1>3, <1>4
  <2>2. vals[k + 1].val /\ (be.live => Holds(vals, be.cpu, k + 1))
    BY <1>2, <2>1, AboveFloor
  <2> QED
    BY <2>2 DEF Holds
<1>7. Len(ctl) \in 1 .. Len(ctl)
      /\ \A i \in 1 .. Len(ctl) : i = Len(ctl) \/ i \in 1 .. Len(ctl) - 1
  BY <1>2
<1>8. FrameGood(Top, vals, be.cpu) /\ (Top.live <=> \A i \in 1 .. Len(ctl) - 1 : Runs(ctl[i]))
  BY <1>1, <1>2, <1>7 DEF ValuesOK
<1>9. be.live <=> Top.live /\ ~Top.taken
  <2>1. \A i \in 1 .. Len(ctl) - 1 : i \in 1 .. Len(ctl)
    BY <1>2
  <2> QED
    BY <1>2, <1>4, <1>7, <1>8, <2>1 DEF ValuesOK
<1>10. Top.live /\ Top.taken => be.cpu.reg[r] = Opd(k)
  <2>1. Top.base + 1 = k
    BY <1>3
  <2> QED
    BY <1>1, <1>4, <1>8, <2>1 DEF FrameGood, Holds
<1> QED
  BY <1>1, <1>3, <1>4, <1>5, <1>6, <1>8, <1>9, <1>10 DEF FrameGood

LEMMA EndElseValues ==
  ASSUME PoolInv, ValueInv, TypeInv', EndElse
  PROVE  ValueInv'
<1> DEFINE k    == Len(vals) - 1
           q    == vals[k + 1].reg
           r    == vals[k].reg
           c    == CopyReg(be, q, r)
           b    == RegDealloc(c, q)
           done == [b EXCEPT !.live = Top.live]
           val  == Top.val /\ vals[k + 1].val
           from == IF Top.taken THEN Opd(k) ELSE Opd(k + 1)
<1>1. /\ Running /\ Top.k = "if" /\ Top.ph = "else" /\ IfOK(Top) /\ Top.scope = {} /\ Top.val
      /\ k \in Nat /\ k >= 1 /\ k + 1 = Len(vals) /\ Top.base = k - 1
      /\ q \in Regs /\ r \in Regs
      /\ vals[k + 1].val /\ (be.live => be.cpu.reg[q] = Opd(k + 1))
      /\ be.live <=> Top.live /\ ~Top.taken
      /\ Top.live /\ Top.taken => be.cpu.reg[r] = Opd(k)
      /\ Top.live <=> \A i \in 1 .. Len(ctl) - 1 : Runs(ctl[i])
      /\ FrameGood(Top, vals, be.cpu) /\ Floor(Top) = k
  BY EndElseNow
<1>2. /\ CPUOK(be.cpu) /\ BackendOK(be) /\ cg.global /\ cg.env = EmptyEnv
      /\ Pool(be.used, vals) /\ vals \in Seq(Results)
      /\ DOMAIN cg = {"global", "off", "env", "scope"}
  BY <1>1, ValuesNow DEF PoolInv, TypeInv, ContextOK
<1>3. cg'.global /\ cg'.env = EmptyEnv /\ cg'.scope = {}
  <2>1. cg' = [cg EXCEPT !.scope = Top.scope]
    BY DEF EndElse
  <2> QED
    BY <1>1, <1>2, <2>1
<1>4. IfResult(done, r, k, val, from) /\ ctl' = Pop(ctl)
  BY DEF EndElse
<1> DEFINE mov == << "mov", q, r >>
<1>5. BackendOK(c) /\ c.live = be.live /\ c.cpu = IF be.live THEN Exec(be.cpu, mov) ELSE be.cpu
  BY <1>2, EmitKeeps, EmitOne DEF CopyReg
<1>6. \A i \in 1 .. k - 1 : vals[i].reg # r
  BY <1>1, <1>2 DEF Pool
<1> HIDE DEF c, mov
<1>7. BackendOK(b) /\ b.live = be.live /\ b.cpu = c.cpu
  BY <1>5, DeallocFrees DEF RegDealloc, BackendOK, BackendFields
<1> HIDE DEF b
<1>8. BackendOK(done) /\ done.cpu = b.cpu /\ done.live = Top.live
  <2>1. Top.live \in BOOLEAN
    BY <1>1 DEF IfOK
  <2>2. BackendOK(done)
    BY <1>7, <2>1, LiveOK
  <2> QED
    BY <1>7, <2>2 DEF BackendOK, BackendFields
<1> HIDE DEF done, q, r
<1>9. Writes(be.cpu, Exec(be.cpu, mov), r, be.cpu.reg[q]) /\ Writes(be.cpu, be.cpu, r, be.cpu.reg[r])
  <2>1. Writes(be.cpu, Exec(be.cpu, mov), r, be.cpu.reg[q])
    BY <1>1, <1>2, ExecWrites DEF mov
  <2>2. Writes(be.cpu, be.cpu, r, be.cpu.reg[r])
    BY <1>1, <1>2 DEF Writes
  <2> QED
    BY <2>1, <2>2
<1>10. /\ Top.live => Writes(be.cpu, done.cpu, r, from)
       /\ ~Top.live => done.cpu = be.cpu
  BY <1>1, <1>5, <1>9, <1>7, <1>8
<1> HIDE DEF from
<1>11. /\ be'.live = Top.live
       /\ be'.cpu = IF Top.live THEN Settle(done.cpu, k - 1, InReg(r), from, Opd(k)) ELSE done.cpu
  <2>1. be' = Settled(done, k - 1, InReg(r), from, Opd(k))
    BY <1>4 DEF IfResult
  <2> QED
    BY <1>8, <2>1 DEF Settled, BackendOK, BackendFields
<1>12. val = TRUE
  BY <1>1, <1>2, ResultFields DEF IfOK
<1> HIDE DEF val, k
<1>13. k \in 1 .. Len(vals) + 1 /\ k <= Len(vals)
  BY <1>1
<1>14. /\ Len(vals') = k /\ vals'[k].reg = r /\ vals'[k].val
       /\ \A i \in 1 .. k - 1 : vals'[i] = vals[i]
  <2> DEFINE x == Result(r, val)
  <2>1. x \in Results /\ x.reg = r /\ x.val
    BY <1>1, <1>12, ResultIsResult DEF Result
  <2>2. vals' = Append(SubSeq(vals, 1, k - 1), x)
    BY <1>4 DEF IfResult
  <2> HIDE DEF x
  <2>3. Len(vals') = k /\ vals'[k] = x /\ \A i \in 1 .. k - 1 : vals'[i] = vals[i]
    BY <1>2, <1>13, <2>1, <2>2, ReplaceFacts
  <2> QED
    BY <2>1, <2>3
<1>15. /\ CPUOK(be'.cpu) /\ Keeps(vals, be.cpu, vals', be'.cpu, k)
       /\ Top.live => Holds(vals', be'.cpu, k)
  <2> DEFINE live == Top.live
             w == vals'
             e == be'.cpu
             d == done.cpu
             o == be.cpu
  <2> HIDE DEF live, w, e, d, o
  <2>1. CPUOK(e) /\ Keeps(vals, o, w, e, k) /\ (live => Holds(w, e, k))
    <3>1. /\ CPUOK(o) /\ r \in Regs /\ vals \in Seq(Results) /\ k \in 1 .. Len(vals) + 1
          /\ live \in BOOLEAN
          /\ live => Writes(o, d, r, from)
          /\ ~live => d = o
          /\ Spared(vals, w, k, r)
          /\ w[k].reg = r
          /\ e = IF live THEN Settle(d, k - 1, InReg(r), from, Opd(k)) ELSE d
      BY <1>1, <1>2, <1>6, <1>10, <1>11, <1>13, <1>14 DEF Spared, IfOK, live, w, e, d, o
    <3> QED
      BY <3>1, NamesResult
  <2> QED
    BY <2>1 DEF live, w, e, d, o
<1>16. be'.live => \A i \in 1 .. k : Good(vals', be'.cpu, i)
  <2>1. SUFFICES ASSUME Top.live, NEW i \in 1 .. k PROVE Good(vals', be'.cpu, i)
    BY <1>11
  <2>2. CASE i = k
    BY <1>15, <2>1, <2>2 DEF Good
  <2>3. CASE i \in 1 .. k - 1
    <3>1. i \in 1 .. Top.base
      BY <1>1, <2>3
    <3>2. Good(vals, be.cpu, i)
      BY <1>1, <2>1, <3>1 DEF FrameGood
    <3> QED
      BY <1>15, <2>3, <3>2 DEF Keeps, Good
  <2> QED
    BY <1>1, <2>2, <2>3
<1> QED
  BY <1>1, <1>3, <1>4, <1>11, <1>13, <1>14, <1>15, <1>16, PopValues

-----------------------------------------------------------------------------
(* The statements of the program. *)

LEMMA StatementNow ==
  ASSUME PoolInv, ValueInv, Statement \/ LastStatement, NEW k, k = Len(vals)
  PROVE  /\ Running /\ Top.k = "prog" /\ BodyOK(Top) /\ UNCHANGED cg
         /\ k \in Nat /\ k >= 1 /\ Top.base = k - 1 /\ Floor(Top) = k - 1
         /\ ~InElse(Top) /\ Runs(Top) /\ vals[k].reg \in Regs
         /\ vals[k].val /\ (be.live => be.cpu.reg[vals[k].reg] = Opd(k))
         /\ be.live <=> \A i \in 1 .. Len(ctl) - 1 : Runs(ctl[i])
<1>1. Running /\ Top.k = "prog" /\ BodyOK(Top) /\ UNCHANGED cg
  BY TopFacts, FrameKinds, TopKind DEF PoolInv, TypeInv, Statement, LastStatement, InBody
<1>2. /\ ValuesOK(ctl, vals, be.cpu, be.live) /\ vals \in Seq(Results) /\ Len(vals) \in Nat
      /\ Len(ctl) \in Nat /\ Len(ctl) >= 1 /\ Top = ctl[Len(ctl)]
      /\ \A i \in 1 .. Len(ctl) : ctl[i].base \in Nat
  BY <1>1, ValuesNow
<1>3. Top.base = k - 1 /\ k \in Nat /\ k >= 1
  <2>1. Top.base \in Nat
    BY TopFacts DEF PoolInv, TypeInv
  <2> QED
    BY <1>2, <2>1 DEF Statement, LastStatement, Delivered
<1>4. ~InElse(Top) /\ Runs(Top) /\ Floor(Top) = k - 1
  BY <1>1, <1>3 DEF InElse, Runs, Floor
<1>5. vals[k].reg \in Regs
  BY <1>2, <1>3, ResultFields
<1>6. vals[k].val /\ (be.live => be.cpu.reg[vals[k].reg] = Opd(k))
  <2>1. k \in 1 .. Len(vals) /\ k > Floor(ctl[Len(ctl)])
    BY <1>2, <1>3, <1>4
  <2>2. vals[k].val /\ (be.live => Holds(vals, be.cpu, k))
    BY <1>2, <2>1, AboveFloor
  <2> QED
    BY <2>2 DEF Holds
<1>7. be.live <=> \A i \in 1 .. Len(ctl) - 1 : Runs(ctl[i])
  <2>1. Len(ctl) \in 1 .. Len(ctl)
        /\ \A i \in 1 .. Len(ctl) : i = Len(ctl) \/ i \in 1 .. Len(ctl) - 1
    BY <1>2
  <2>2. \A i \in 1 .. Len(ctl) - 1 : i \in 1 .. Len(ctl)
    BY <1>2
  <2> QED
    BY <1>2, <1>4, <2>1, <2>2 DEF ValuesOK
<1> QED
  BY <1>1, <1>3, <1>4, <1>5, <1>6, <1>7

\* The result of a statement is dropped.
LEMMA StatementValues ==
  ASSUME PoolInv, ValueInv, TypeInv', Statement
  PROVE  ValueInv'
<1> DEFINE k == Len(vals)
           b == RegDealloc(be, vals[k].reg)
           f == [Top EXCEPT !.n = @ + 1]
           s == Settle(be.cpu, k - 1, Nowhere, Junk, Junk)
<1>1. /\ Running /\ Top.k = "prog" /\ BodyOK(Top) /\ UNCHANGED cg
      /\ k \in Nat /\ k >= 1 /\ Top.base = k - 1 /\ Floor(Top) = k - 1
      /\ ~InElse(Top) /\ Runs(Top)
      /\ be.live <=> \A i \in 1 .. Len(ctl) - 1 : Runs(ctl[i])
  BY StatementNow
<1>2. /\ ValuesOK(ctl, vals, be.cpu, be.live) /\ CPUOK(be.cpu) /\ BackendOK(be)
      /\ cg.global /\ cg.env = EmptyEnv /\ cg.scope = {} /\ vals \in Seq(Results)
  BY <1>1, ValuesNow
<1>3. Consume(b, k, Nowhere, Junk, Junk) /\ Become(f)
  BY DEF Statement, Last
<1>4. f.k = "prog" /\ f.base = Top.base /\ f.ph = "body"
  <2>1. Top.ph = "body"
    BY DEF Statement, InBody
  <2> QED
    BY <1>1, <2>1 DEF BodyOK
<1> HIDE DEF f
<1>5. BackendOK(b) /\ b.live = be.live /\ b.cpu = be.cpu
  BY <1>2, DeallocFrees DEF RegDealloc, BackendOK, BackendFields
<1> HIDE DEF b, k
<1>6. be'.live = be.live /\ be'.cpu = IF be.live THEN s ELSE be.cpu
  BY <1>3, <1>5 DEF Consume, Settled, BackendOK, BackendFields
<1>7. k \in 1 .. Len(vals) + 1 /\ k <= Len(vals) + 1 /\ Top.base < k
  BY <1>1 DEF k
<1>8. Len(vals') = k - 1 /\ \A i \in 1 .. k - 1 : vals'[i] = vals[i]
  BY <1>2, <1>3, <1>7, DropFacts DEF Consume
<1>9. CPUOK(be'.cpu) /\ Keeps(vals, be.cpu, vals', be'.cpu, k)
  <2>1. CPUOK(s) /\ Keeps(vals, be.cpu, vals', s, k)
    BY <1>2, <1>7, <1>8, OnlySettle
  <2> HIDE DEF s
  <2>2. CASE ~be.live
    BY <1>2, <1>6, <1>8, <2>2 DEF Keeps, Holds
  <2> QED
    BY <1>6, <2>1, <2>2
<1>10. be'.live => \A i \in 1 .. Len(vals') : Good(vals', be'.cpu, i)
  <2>1. SUFFICES ASSUME be.live, NEW i \in 1 .. k - 1 PROVE Good(vals', be'.cpu, i)
    BY <1>6, <1>8
  <2>2. i \in 1 .. Len(vals)
    BY <1>7, <2>1
  <2>3. Good(vals, be.cpu, i)
    BY <1>2, <2>1, <2>2 DEF ValuesOK
  <2> QED
    BY <1>9, <2>1, <2>3 DEF Keeps, Good
<1>11. /\ Floor(f) = k - 1 /\ Runs(f) /\ (\A i : ~Missing(Top, i)) /\ FrameGood(f, vals', be'.cpu)
  BY <1>1, <1>4 DEF Floor, InElse, Runs, Missing, FrameGood
<1>12. Len(vals') \in Nat /\ Floor(f) <= Len(vals') /\ \A i \in k .. Len(vals') : FALSE
  BY <1>1, <1>8, <1>11
<1>13. be'.live <=> Runs(f) /\ \A i \in 1 .. Len(ctl) - 1 : Runs(ctl[i])
  BY <1>1, <1>6, <1>11
<1>14. f.k # "if" /\ f.ph # "ret"
  BY <1>4
<1> QED
  BY <1>1, <1>2, <1>3, <1>4, <1>7, <1>9, <1>10, <1>11, <1>12, <1>13, <1>14, BecomeValues

\* The activation of the program is the first, and found no operand.
ProgramBase == ctl[1].base = 0

\* The result of the last statement is copied to RAX, and the program ends.
LEMMA LastStatementValues ==
  ASSUME PoolInv, ValueInv, ProgramBase, LastStatement
  PROVE  ValueInv'
<1> DEFINE k == Len(vals)
           q == vals[k].reg
           d == RegDealloc(be, q)
           b == SetFuncRetVal(d, q)
           f == [Top EXCEPT !.n = @ + 1, !.ph = "ret", !.val = Last(vals).val]
           mov == << "mov", q, RAX >>
           s == Settle(b.cpu, k - 1, InReg(RAX), Opd(k), Returned)
<1>1. /\ Running /\ Top.k = "prog" /\ BodyOK(Top) /\ UNCHANGED cg
      /\ k \in Nat /\ k >= 1 /\ Top.base = k - 1 /\ q \in Regs
      /\ (be.live => be.cpu.reg[q] = Opd(k))
      /\ be.live <=> \A i \in 1 .. Len(ctl) - 1 : Runs(ctl[i])
  BY StatementNow
<1>2. /\ CPUOK(be.cpu) /\ BackendOK(be) /\ IsSeq(ctl) /\ Len(ctl) = 1 /\ Top = ctl[1]
      /\ cg.global /\ cg.env = EmptyEnv /\ cg.scope = {} /\ vals \in Seq(Results)
  BY <1>1, ValuesNow
<1>3. be.live = TRUE
  BY <1>1, <1>2 DEF BackendOK
<1>4. Consume(b, k, InReg(RAX), Opd(k), Returned) /\ Become(f)
  BY DEF LastStatement, Last
<1>5. f.k = "prog" /\ f.base = 0 /\ k = 1
  <2>1. f.k = Top.k /\ f.base = Top.base
    BY <1>1 DEF BodyOK
  <2> HIDE DEF f, k
  <2> QED
    BY <1>1, <1>2, <2>1 DEF ProgramBase
<1> HIDE DEF f, q
<1>6. BackendOK(d) /\ d.live = be.live /\ d.cpu = be.cpu
  BY <1>2, DeallocFrees DEF RegDealloc, BackendOK, BackendFields
<1> HIDE DEF d
<1>7. BackendOK(b) /\ b.live = TRUE /\ b.cpu = Exec(be.cpu, mov)
  BY <1>3, <1>6, EmitKeeps, EmitOne DEF SetFuncRetVal
<1>8. Writes(be.cpu, b.cpu, RAX, Opd(k))
  <2>1. Writes(be.cpu, Exec(be.cpu, mov), RAX, be.cpu.reg[q])
    BY <1>1, <1>2, RegsAre, ExecWrites
  <2> HIDE DEF mov, b
  <2> QED
    BY <1>1, <1>3, <1>7, <2>1
<1> HIDE DEF b, k, mov
<1>9. be'.live = TRUE /\ be'.cpu = s
  BY <1>4, <1>7 DEF Consume, Settled, BackendOK, BackendFields
<1>10. Len(vals') = 0
  <2>1. vals' = SubSeq(vals, 1, k - 1) /\ k \in 1 .. Len(vals) + 1
    BY <1>1, <1>4 DEF Consume, k
  <2>2. Len(vals') = k - 1
    BY <1>2, <2>1, DropFacts
  <2> QED
    BY <1>5, <2>2
<1>11. CPUOK(s) /\ s.reg[RAX] = Returned
  <2>1. RAX \in Regs /\ InReg(RAX) \in {InReg(RAX), Nowhere} /\ k - 1 \in Nat
        /\ CPUOK(b.cpu) /\ b.cpu.reg[RAX] = Opd(k)
    BY <1>1, <1>5, <1>8, RegsAre DEF Writes
  <2> QED
    BY <2>1, SettleValues
<1> HIDE DEF s
<1>12. Len(ctl') = 1 /\ ctl'[1] = f /\ Top' = f
  <2>1. ctl' = [ctl EXCEPT ![Len(ctl)] = f]
    BY <1>4 DEF Become
  <2> QED
    BY <1>2, <2>1, BecomeFacts DEF Top
<1>13. Floor(f) = 0 /\ Runs(f) /\ \A w, c : FrameGood(f, w, c)
  BY <1>5 DEF Floor, InElse, Runs, FrameGood
<1>14. ValuesOK(ctl', vals', be'.cpu, be'.live)
  <2>1. \A i \in 1 .. Len(ctl') : i = 1
    BY <1>12
  <2>2. \A i \in 1 .. Len(vals') : FALSE
    BY <1>10
  <2>3. \A i, j \in 1 .. Len(ctl') : ~(i < j)
    BY <2>1
  <2>4. \A i \in 1 .. Len(ctl') : ctl'[i] = f
    BY <1>12, <2>1
  <2>5. CPUOK(be'.cpu) /\ be'.live /\ Floor(ctl'[Len(ctl')]) <= Len(vals') /\ f.k # "if"
    BY <1>5, <1>9, <1>10, <1>11, <1>12, <1>13
  <2> QED
    BY <1>13, <2>2, <2>3, <2>4, <2>5 DEF ValuesOK
<1> QED
  BY <1>1, <1>2, <1>9, <1>11, <1>12, <1>14 DEF ValueInv

\* What each kind of step does to the activation of the program.
LEMMA BaseKept ==
  ASSUME PoolInv, ProgramBase,
         \/ ctl' = ctl \/ \E f : Push(f)
         \/ Top.k # "prog" /\ ctl' = Pop(ctl)
         \/ \E f : Become(f) /\ f.base = Top.base
  PROVE  ProgramBase'
<1> DEFINE n == Len(ctl)
<1>1. IsSeq(ctl) /\ n \in Nat /\ n >= 1 /\ Top = ctl[n] /\ (Top.k = "prog" <=> n = 1)
  <2>1. IsSeq(ctl) /\ n \in Nat /\ n >= 1
    BY TopFacts DEF PoolInv, TypeInv, ControlOK
  <2>2. n \in 1 .. n
    BY <2>1
  <2> QED
    BY <2>1, <2>2 DEF PoolInv, TypeInv, ControlOK, Top
<1>2. CASE ctl' = ctl
  BY <1>2 DEF ProgramBase
<1>3. CASE \E f : Push(f)
  <2>1. ctl'[1] = ctl[1]
    BY <1>1, <1>3, AppendFacts DEF Push
  <2> QED
    BY <2>1 DEF ProgramBase
<1>4. CASE Top.k # "prog" /\ ctl' = Pop(ctl)
  <2>1. \A i \in 1 .. n - 1 : ctl'[i] = ctl[i]
    BY <1>1, <1>4, PopFacts
  <2> HIDE DEF n
  <2> QED
    BY <1>1, <1>4, <2>1 DEF ProgramBase
<1>5. CASE \E f : Become(f) /\ f.base = Top.base
  <2>1. PICK f : Become(f) /\ f.base = Top.base
    BY <1>5
  <2>2. ctl'[n] = f /\ \A i \in 1 .. n - 1 : ctl'[i] = ctl[i]
    BY <1>1, <2>1, BecomeFacts DEF Become
  <2> HIDE DEF n
  <2>3. CASE n = 1
    BY <1>1, <2>1, <2>2, <2>3 DEF ProgramBase
  <2>4. CASE n # 1
    BY <1>1, <2>2, <2>4 DEF ProgramBase
  <2> QED
    BY <2>3, <2>4
<1> QED
  BY <1>2, <1>3, <1>4, <1>5

LEMMA BaseNext ==
  ASSUME PoolInv, ProgramBase,
         \/ GenInt \/ \E x \in InScope : GenVar(x) \/ GenDeref(x) \/ GenAddr(x) \/ GenIndex(x)
         \/ BeginIf \/ \E op \in Ops : BeginBinop(op)
         \/ EndBinop \/ IfCondition \/ IfStatement \/ EndThen \/ EndElse
         \/ Statement \/ LastStatement
  PROVE  ProgramBase'
<1> DEFINE Kept == \/ ctl' = ctl \/ \E f : Push(f)
                   \/ Top.k # "prog" /\ ctl' = Pop(ctl)
                   \/ \E f : Become(f) /\ f.base = Top.base
<1>0. SUFFICES Kept
  BY BaseKept
<1>1. /\ Top.k = "if" => IfOK(Top)
      /\ Top.k \in {"prog", "func"} => BodyOK(Top)
  BY TopFacts, FrameKinds DEF PoolInv, TypeInv
<1>2. CASE GenInt \/ \E x \in InScope : GenVar(x) \/ GenDeref(x) \/ GenAddr(x) \/ GenIndex(x)
  BY <1>2 DEF GenInt, GenVar, GenDeref, GenAddr, GenIndex, Leaf
<1>3. CASE BeginIf \/ \E op \in Ops : BeginBinop(op)
  BY <1>3 DEF BeginIf, BeginBinop
<1>4. CASE EndBinop
  BY <1>4 DEF EndBinop
<1>5. CASE IfCondition
  <2>1. PICK taken, hasElse :
          Become([Top EXCEPT !.ph = "then", !.taken = taken, !.hasElse = hasElse])
    BY <1>5 DEF IfCondition
  <2>2. [Top EXCEPT !.ph = "then", !.taken = taken, !.hasElse = hasElse].base = Top.base
    BY <1>1, <1>5 DEF IfCondition, IfOK
  <2> QED
    BY <2>1, <2>2
<1>6. CASE IfStatement
  <2>1. Become([Top EXCEPT !.n = @ + 1]) /\ [Top EXCEPT !.n = @ + 1].base = Top.base
    BY <1>1, <1>6 DEF IfStatement, InIf, IfOK
  <2> QED
    BY <2>1
<1>7. CASE EndThen
  <2> DEFINE g(x) == [Top EXCEPT !.ph = "else", !.n = 0, !.val = x]
  <2>1. Top.k = "if" /\ \A x : g(x).base = Top.base
    BY <1>1, <1>7 DEF EndThen, BodyEnded, IfOK
  <2>2. ctl' = Pop(ctl) \/ \E x : Become(g(x))
    BY <1>7 DEF EndThen
  <2> HIDE DEF g
  <2> QED
    BY <2>1, <2>2
<1>8. CASE EndElse
  BY <1>8 DEF EndElse, BodyEnded
<1>9. CASE Statement
  <2>1. Become([Top EXCEPT !.n = @ + 1]) /\ [Top EXCEPT !.n = @ + 1].base = Top.base
    BY <1>1, <1>9 DEF Statement, InBody, BodyOK
  <2> QED
    BY <2>1
<1>10. CASE LastStatement
  <2> DEFINE g == [Top EXCEPT !.n = @ + 1, !.ph = "ret", !.val = Last(vals).val]
  <2>1. Become(g) /\ g.base = Top.base
    BY <1>1, <1>10 DEF LastStatement, InBody, BodyOK
  <2> QED
    BY <2>1
<1> QED
  BY <1>2, <1>3, <1>4, <1>5, <1>6, <1>7, <1>8, <1>9, <1>10

LEMMA InitValues == Init => ValueInv /\ ProgramBase
<1> SUFFICES ASSUME Init PROVE ValueInv /\ ProgramBase
  OBVIOUS
<1> DEFINE b == InitBackend(Globals)
           i == << "subsp", -InitialOffset >>
<1>1. /\ Len(ctl) = 1 /\ ctl[1].base = 0 /\ ctl[1].k = "prog" /\ ctl[1].ph = "body"
      /\ Len(vals) = 0 /\ Top = ctl[1]
  BY DEF Init, Top
<1>2. cg.global /\ cg.env = EmptyEnv /\ cg.scope = {}
  BY DEF Init
<1>3. be = Emit(b, << i >>)
  BY DEF Init, FuncHeader
<1>4. BackendOK(b) /\ b.live = TRUE /\ b.cpu = InitCPU(Globals)
  <2>1. b.live = TRUE /\ b.cpu = InitCPU(Globals)
    BY DEF InitBackend
  <2> QED
    BY <2>1, InitBackendOK
<1> HIDE DEF b
<1>5. be.live = TRUE /\ be.cpu = Exec(InitCPU(Globals), i)
  BY <1>3, <1>4, EmitOne
<1>6. Exec(InitCPU(Globals), i) = [InitCPU(Globals) EXCEPT !.sp = @ + i[2]]
  <2>1. i[1] = "subsp"
    OBVIOUS
  <2> HIDE DEF i
  <2> QED
    BY <2>1, ExecSubSp
<1>7. CPUOK(InitCPU(Globals))
  BY DEF InitCPU, CPUOK, CPUFields
<1>8. CPUOK(be.cpu)
  BY <1>5, <1>6, <1>7 DEF CPUOK, CPUFields
<1> DEFINE f == ctl[1]
<1>9. Floor(f) = 0 /\ Runs(f) /\ \A w, c : FrameGood(f, w, c)
  BY <1>1 DEF Floor, InElse, Runs, FrameGood
<1>10. ValuesOK(ctl, vals, be.cpu, be.live)
  <2>1. \A j \in 1 .. Len(ctl) : j = 1
    BY <1>1
  <2>2. \A j \in 1 .. Len(vals) : FALSE
    BY <1>1
  <2>3. \A j, k \in 1 .. Len(ctl) : ~(j < k)
    BY <2>1
  <2>4. \A j \in 1 .. Len(ctl) : ctl[j] = f
    BY <1>1, <2>1
  <2>5. be.live /\ Floor(ctl[Len(ctl)]) <= Len(vals) /\ f.k # "if"
    BY <1>1, <1>5, <1>9
  <2> QED
    BY <1>8, <1>9, <2>2, <2>3, <2>4, <2>5 DEF ValuesOK
<1> QED
  BY <1>1, <1>2, <1>10 DEF ValueInv, ProgramBase

LEMMA NextValues ==
  ASSUME Kinds \subseteq ValueKinds, Ops \subseteq ValueOps
  PROVE  PoolInv /\ ValueInv /\ ProgramBase /\ [Next]_vars => PoolInv' /\ ValueInv' /\ ProgramBase'
<1> SUFFICES ASSUME PoolInv, ValueInv, ProgramBase, [Next]_vars
             PROVE  PoolInv' /\ ValueInv' /\ ProgramBase'
  OBVIOUS
<1>1. PoolInv'
  BY NextPool DEF ValueKinds
<1>2. CASE UNCHANGED vars
  BY <1>1, <1>2 DEF ValueInv, ProgramBase, Top, vars
<1>3. CASE Next /\ ~UNCHANGED vars
  <2>1. \/ GenInt \/ \E x \in InScope : GenVar(x) \/ GenDeref(x) \/ GenAddr(x) \/ GenIndex(x)
        \/ BeginIf \/ \E op \in Ops : BeginBinop(op)
        \/ EndBinop \/ IfCondition \/ IfStatement \/ EndThen \/ EndElse
        \/ Statement \/ LastStatement
    BY <1>3, ExprSteps DEF ValueKinds
  <2>2. TypeInv'
    BY <1>1 DEF PoolInv
  <2>3. ProgramBase'
    BY <2>1, BaseNext
  <2>4. ValueInv'
    BY <2>1, <2>2, LeavesValues, BeginValues, EndBinopValues, IfConditionValues,
       IfStatementValues, EndThenValues, EndElseValues, StatementValues, LastStatementValues
  <2> QED
    BY <1>1, <2>3, <2>4
<1> QED
  BY <1>2, <1>3

(***************************************************************************)
(* Whatever program of literals, global variables, addresses, array        *)
(* elements, conditions and the operators of ValueOps is compiled, of      *)
(* whatever size: in the running program the register of every pending     *)
(* operand holds the value of that operand, until it is used.  No code for *)
(* another operand, for an operator or for the bodies of a condition, run  *)
(* or jumped over, overwrites it.                                          *)
(***************************************************************************)
THEOREM LiveOperandsIntactHolds ==
  ASSUME Kinds \subseteq ValueKinds, Ops \subseteq ValueOps
  PROVE  Spec => []LiveOperandsIntact
<1>1. Init => PoolInv /\ ValueInv /\ ProgramBase
  BY InitPool, InitValues
<1>2. PoolInv /\ ValueInv /\ ProgramBase /\ [Next]_vars => PoolInv' /\ ValueInv' /\ ProgramBase'
  BY NextValues
<1>3. PoolInv /\ ValueInv => LiveOperandsIntact
  <2> SUFFICES ASSUME PoolInv, ValueInv, Compiling, be.live
               PROVE  \A i \in DOMAIN vals : vals[i].val => be.cpu.reg[vals[i].reg] = Opd(i)
    BY DEF LiveOperandsIntact
  <2>1. DOMAIN vals = 1 .. Len(vals)
    BY DEF PoolInv, TypeInv
  <2>2. \A i \in 1 .. Len(vals) : Good(vals, be.cpu, i)
    BY DEF ValueInv, ValuesOK, Compiling
  <2> QED
    BY <2>1, <2>2 DEF Good, Holds
<1> QED
  BY <1>1, <1>2, <1>3, PTL DEF Spec

(***************************************************************************)
(* Such a program returns the value of its last statement: when it is      *)
(* complete, RAX holds what that statement was meant to compute.           *)
(***************************************************************************)
THEOREM ReturnsLastValueHolds ==
  ASSUME Kinds \subseteq ValueKinds, Ops \subseteq ValueOps
  PROVE  Spec => []ReturnsLastValue
<1>1. Init => PoolInv /\ ValueInv /\ ProgramBase
  BY InitPool, InitValues
<1>2. PoolInv /\ ValueInv /\ ProgramBase /\ [Next]_vars => PoolInv' /\ ValueInv' /\ ProgramBase'
  BY NextValues
<1>3. PoolInv /\ ValueInv => ReturnsLastValue
  <2> SUFFICES ASSUME PoolInv, ValueInv, Compiling, Top.k \in {"prog", "func"}, Top.ph = "ret", Top.val
               PROVE  be.cpu.reg[RAX] = Returned
    BY DEF ReturnsLastValue
  <2>1. Top.k = "prog"
    BY TopKind DEF PoolInv
  <2> QED
    BY <2>1 DEF ValueInv, Compiling
<1> QED
  BY <1>1, <1>2, <1>3, PTL DEF Spec
=============================================================================
