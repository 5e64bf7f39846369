------------------------------ MODULE Backend ------------------------------
(***************************************************************************)
(* The x86-64 back end: the register pool of code_gen.c and the emission   *)
(* functions of arch/x86_64/code_gen_x86_64.c, reached through the         *)
(* dispatch functions of arch/platforms.c.  Every operator takes the back  *)
(* end b and gives the back end after the call; b is a record of           *)
(*   used      the registers whose reg_in_use is set (one pool is shared   *)
(*             by all code generation contexts)                            *)
(*   call      ArchData.func_call, nargs its num_call_args and raxInUse    *)
(*             its is_rax_in_use (one ArchData is shared as well)          *)
(*   res       the register descriptor the last emission function returned *)
(*   cpu       the processor that executes each instruction as it is       *)
(*             emitted, and live, which is FALSE while the instructions    *)
(*             being emitted are jumped over at run time                   *)
(*   err       the print_error call that stopped the compiler, or "none";  *)
(*             print_error exits, so what a failing call does to the other   *)
(*             fields after that is never looked at                          *)
(***************************************************************************)
EXTENDS X86, Operators, FiniteSets

CONSTANT ScratchCnt   \* reg_pool.scratch_reg_cnt, 7 in the code

ASSUME ScratchAssumption == ScratchCnt \in 1 .. Cardinality(Regs)

(***************************************************************************)
(* The scratch registers as reg_alloc sees them: it walks the array of all *)
(* registers from *scratch_regs, not the array scratch_regs, so they are   *)
(* the first ScratchCnt registers of the machine: RBX is one, R11 is not.  *)
(***************************************************************************)
Scratch == {r \in Regs : r < ScratchCnt}

Free(b) == Scratch \ b.used

CallStates == {"NONE", "EXTERNAL", "INTERNAL"}
Errors     == {"none", "no_register", "call_in_progress", "wrong_call_type", "unknown_symbol"}

\* The processor at the entry of a body, with the global variables xs.
InitCPU(xs) ==
  [reg |-> [r \in Regs |-> Junk], flags |-> Junk, sp |-> 0,
   stack |-> << >>, glob |-> [x \in xs |-> Var(x)]]

InitBackend(xs) ==
  [used |-> {}, call |-> "NONE", nargs |-> 0, raxInUse |-> FALSE,
   res |-> RAX, cpu |-> InitCPU(xs), live |-> TRUE, err |-> "none"]

Fail(b, e) == [b EXCEPT !.err = e]

Emit(b, code) == IF b.live THEN [b EXCEPT !.cpu = Run(@, code)] ELSE b

-----------------------------------------------------------------------------
\* Seeded faults (see README.md): an exhausted pool hands out descriptor -1, and a
\* register is never marked free.
RegAllocUnchecked(b) ==
  IF Free(b) = {} THEN [b EXCEPT !.res = -1]
  ELSE LET r == CHOOSE q \in Free(b) : \A p \in Free(b) : q <= p
       IN  [b EXCEPT !.used = @ \cup {r}, !.res = r]
RegDeallocNothing(b, r) == b

\* reg_alloc and reg_dealloc.  reg_alloc takes the first free register.
RegAlloc(b) ==
  IF Free(b) = {} THEN Fail(b, "no_register")
  ELSE LET r == CHOOSE q \in Free(b) : \A p \in Free(b) : q <= p
       IN  [b EXCEPT !.used = @ \cup {r}, !.res = r]

RegDealloc(b, r) == [b EXCEPT !.used = @ \ {r}]

Returning(b, r) == [b EXCEPT !.res = r]

\* code_gen_get_imm, code_gen_get_global, code_gen_get_local and the
\* code_gen_get_..._addr functions: one instruction into a new register.
Load(b, op, src) == LET a == RegAlloc(b) IN Emit(a, << << op, src, a.res >> >>)

\* A local variable at `offset` words from the frame pointer.
CellOf(offset) == -offset

-----------------------------------------------------------------------------
(* Binary operators.  l and r are the registers of the two operands. *)

GenCompare(b, op, l, r) ==
  LET a == RegAlloc(b)
      e == Emit(a, << << "zero", a.res >>, << "cmp", r, l >>, << "setcc", op, a.res >> >>)
  IN  RegDealloc(RegDealloc(e, r), l)

\* Seeded faults: the right register stays in use; the operands of sub swapped.
GenSubKeepsRight(b, l, r) == Returning(Emit(b, << << "-", r, l >> >>), l)
GenSubSwapped(b, l, r) == Returning(RegDealloc(Emit(b, << << "-", l, r >> >>), r), l)

GenAdd(b, l, r) == Returning(RegDealloc(Emit(b, << << "+", l, r >> >>), l), r)
GenSub(b, l, r) == Returning(RegDealloc(Emit(b, << << "-", r, l >> >>), r), l)
GenMul(b, l, r) == Returning(RegDealloc(Emit(b, << << "*", l, r >> >>), l), r)

BitShift(b, op, l, r) ==
  LET save == RCX \in b.used /\ l # RCX /\ r # RCX
      swap == << "xchg", r, RCX >>
      code == << swap, << op, l >> >> \o (IF save THEN << swap >> ELSE << >>)
  IN  Returning(RegDealloc(Emit(b, code), r), l)

\* Seeded fault: only the right operand is left out of the saved registers.
PushedUnlessRight(b, q, l, r) == q \in b.used /\ q # r

\* is_rax_pushed and is_rdx_pushed: q is saved around idiv.
Pushed(b, q, l, r) == q \in b.used /\ q \notin {l, r}

\* div_and_mod.  The two saved registers are popped in the order they were
\* pushed.
DivMod(b, op, l, r) ==
  LET saves(ins) == (IF Pushed(b, RAX, l, r) THEN << << ins, RAX >> >> ELSE << >>)
                    \o (IF Pushed(b, RDX, l, r) THEN << << ins, RDX >> >> ELSE << >>)
      clash == r \in {RAX, RDX}
      a     == IF clash THEN RegAlloc(b) ELSE Returning(b, r)
      copy  == IF clash THEN << << "mov", r, a.res >> >> ELSE << >>
      out   == IF op = "/" THEN RAX ELSE RDX
      dest  == IF out \in {l, r} THEN out ELSE l
      move  == IF out \in {l, r} THEN << >> ELSE << << "mov", out, l >> >>
      code  == saves("push") \o copy
               \o << << "mov", l, RAX >>, << "cqo" >>, << "idiv", a.res >> >>
               \o move \o saves("pop")
      done  == Emit(a, code)
      freed == (IF clash THEN {a.res} ELSE {}) \cup ({l, r} \ {dest})
  IN  [done EXCEPT !.used = @ \ freed, !.res = dest]

GenBinop(b, op, l, r) ==
  CASE op \in {"==", "<", ">"} -> GenCompare(b, op, l, r)
    [] op = "+"                -> GenAdd(b, l, r)
    [] op = "-"                -> GenSub(b, l, r)
    [] op = "*"                -> GenMul(b, l, r)
    [] op \in {"<<", ">>"}     -> BitShift(b, op, l, r)
    [] op \in {"/", "%"}       -> DivMod(b, op, l, r)

-----------------------------------------------------------------------------
(***************************************************************************)
(* Calls.  setup_func_call checks that no call is being prepared, notes    *)
(* whether RAX holds a live value and saves it; the arguments follow one   *)
(* by one; the call itself; and cleanup drops the pushed arguments,        *)
(* restores RAX and resets the call state.                                 *)
(***************************************************************************)
SetupFuncCall(b) ==
  IF b.call # "NONE" THEN Fail(b, "call_in_progress")
  ELSE LET inUse == RAX \in b.used
       IN  Emit([b EXCEPT !.raxInUse = inUse],
                IF inUse THEN << << "push", RAX >> >> ELSE << >>)

\* The switch on func_call that opens every function below.
Prepared(b, kind) ==
  IF b.call \in {"NONE", kind} THEN [b EXCEPT !.call = kind]
                               ELSE Fail(b, "wrong_call_type")

\* Seeded faults: a wrong register is pushed; the argument is not counted.
FuncArgPushesRax(b, r) ==
  Emit([Prepared(b, "INTERNAL") EXCEPT !.nargs = @ + 1], << << "push", RAX >> >>)
FuncArgUncounted(b, r) == Emit(Prepared(b, "INTERNAL"), << << "push", r >> >>)

FuncArg(b, r) ==
  Emit([Prepared(b, "INTERNAL") EXCEPT !.nargs = @ + 1], << << "push", r >> >>)

\* Where the Windows convention wants the arguments of an external call; a
\* fifth argument is refused.
ArgRegs == << RCX, RDX, R8, R9 >>

ExtFuncArg(b, r) ==
  Emit([Prepared(b, "EXTERNAL") EXCEPT !.nargs = @ + 1],
       << << "mov", r, ArgRegs[b.nargs + 1] >> >>)

\* Seeded fault: the result is left in RAX although RAX will be restored.
CopyRetValInRax(b) == Returning(b, RAX)

\* copy_ret_val_from_rax: RAX itself, or a new register if RAX is to be
\* restored.  RAX is returned without being marked as in use.
CopyRetVal(b) ==
  IF b.raxInUse THEN Load(b, "mov", RAX) ELSE Returning(b, RAX)

FuncCall(b, f) ==
  CopyRetVal(Emit(Prepared(b, "INTERNAL"), << << "call", f >> >>))

ExtFuncCall(b) ==
  CopyRetVal(Emit(Prepared(b, "EXTERNAL"), << << "callext" >> >>))

\* Seeded faults: the arguments of this call are counted for the next one as
\* well; RAX is not popped.
CleanupKeepsCount(b) ==
  LET drop == IF b.call = "INTERNAL" /\ b.nargs > 0 THEN << << "addsp", b.nargs >> >> ELSE << >>
      pop  == IF b.raxInUse THEN << << "pop", RAX >> >> ELSE << >>
  IN  [Emit(b, drop \o pop) EXCEPT !.raxInUse = FALSE, !.call = "NONE"]
CleanupNoPop(b) ==
  LET drop == IF b.call = "INTERNAL" /\ b.nargs > 0 THEN << << "addsp", b.nargs >> >> ELSE << >>
  IN  [Emit(b, drop) EXCEPT !.raxInUse = FALSE, !.nargs = 0, !.call = "NONE"]

Cleanup(b) ==
  LET drop == IF b.call = "INTERNAL" /\ b.nargs > 0 THEN << << "addsp", b.nargs >> >> ELSE << >>
      pop  == IF b.raxInUse THEN << << "pop", RAX >> >> ELSE << >>
  IN  [Emit(b, drop \o pop) EXCEPT !.raxInUse = FALSE, !.nargs = 0, !.call = "NONE"]

-----------------------------------------------------------------------------
\* Seeded faults: a move with its operands exchanged; no room made for a local.
CopyRegSwapped(b, from, to) == Emit(b, << << "mov", to, from >> >>)
AllocateNothing(b, words) == b

\* The remaining emission functions.
StoreGlobal(b, x, r)      == Emit(b, << << "stglob", r, x >> >>)
StoreLocal(b, offset, r)  == Emit(b, << << "stcell", r, CellOf(offset) >> >>)
CopyReg(b, from, to)      == Emit(b, << << "mov", from, to >> >>)
ZeroOut(b, r)             == Emit(b, << << "zero", r >> >>)
AddImm(b, r)              == Emit(b, << << "addimm", r >> >>)
AllocateOnStack(b, words) == Emit(b, << << "subsp", words >> >>)
SetFuncRetVal(b, r)       == Emit(b, << << "mov", r, RAX >> >>)

\* push %rbp; mov %rsp, %rbp; sub $-local_offset, %rsp: cell 0 is where the
\* frame pointer was pushed.
FuncHeader(b, local_offset) ==
  Emit(b, << << "subsp", -local_offset >> >>)
=============================================================================
