------------------------------ MODULE CodeGen ------------------------------
(***************************************************************************)
(* The code generator of code_gen.c: target_codegen_prog, _func and the    *)
(* recursive target_codegen_expr walk a type-checked AST and emit x86-64   *)
(* code through the back end.  The AST is not an input of the model: its   *)
(* next node is chosen when the traversal reaches it, among the nodes the  *)
(* parser can put in that place, so the behaviours of this specification   *)
(* are the compilations of all programs of a bounded size.                 *)
(*                                                                         *)
(* The C recursion is the control stack ctl, one frame per activation;     *)
(* result_reg_desc of the nodes that are finished and still needed is the  *)
(* operand stack vals.  Every emitted instruction is executed on the       *)
(* symbolic processor of module X86 as it is emitted, so that a state says *)
(* both what the compiler believes (be.used, vals) and what the compiled   *)
(* program would hold at that point (be.cpu).                              *)
(***************************************************************************)
EXTENDS Backend, Env

CONSTANTS
  Kinds,     \* the kinds of AST nodes of the programs considered
  Ops,       \* their binary operators
  Globals,   \* the variables of the global scope
  Locals,    \* the names of local variables
  Params,    \* the names of function parameters, a sequence
  MaxStmts,  \* bound: statements of a program, function or if body
  MaxNodes,  \* bound: inner nodes (everything but literals and variables)
  MaxArgs    \* bound: arguments of a call, and parameters of a function

AllKinds == {"int", "var", "deref", "addr", "index", "binop", "if", "else", "call", "ext_call",
             "nested_call", "decl", "reassign", "store", "function"}

ASSUME CodeGenAssumption ==
  /\ Kinds \subseteq AllKinds /\ "int" \in Kinds
  /\ Ops \subseteq BinaryOps
  /\ MaxStmts \in Nat \ {0} /\ MaxNodes \in Nat /\ MaxArgs \in 0 .. 4
  /\ Params \in Seq(STRING) /\ Len(Params) >= MaxArgs
  /\ \A i, j \in DOMAIN Params : Params[i] = Params[j] => i = j
  /\ Globals \cap Locals = {}
  /\ \A i \in DOMAIN Params : Params[i] \notin Globals \cup Locals

VARIABLES
  ctl,   \* the activations of the traversal, innermost last
  vals,  \* result registers of the finished nodes that are still needed
  be,    \* the back end
  cg,    \* the CGContext: local_env, local_offset, parent_ctx = NULL or not
  fuel   \* inner nodes the program may still have

vars == << ctl, vals, be, cg, fuel >>

-----------------------------------------------------------------------------
(* Frames. Each records how many operands were pending when it was pushed. *)

Body(kind, argc, saved) ==
  [k |-> kind, ph |-> "body", n |-> 0, argc |-> argc, base |-> Len(vals),
   val |-> FALSE, saved |-> saved]

BinopFrame(op, root) == [k |-> "binop", op |-> op, root |-> root, base |-> Len(vals)]

CallFrame(ext, argc) ==
  [k |-> "call", ext |-> ext, argc |-> argc, n |-> 0, sp |-> be.cpu.sp, base |-> Len(vals)]

IfFrame == [k |-> "if", ph |-> "cond", n |-> 0, live |-> be.live, taken |-> FALSE,
            hasElse |-> FALSE, val |-> FALSE, scope |-> cg.scope, base |-> Len(vals)]

AssignFrame(kind, x) == [k |-> kind, x |-> x, base |-> Len(vals)]

Top       == ctl[Len(ctl)]
Pop(s)    == SubSeq(s, 1, Len(s) - 1)
Push(f)   == ctl' = Append(ctl, f)
Become(f) == ctl' = [ctl EXCEPT ![Len(ctl)] = f]
Last(s)   == s[Len(s)]

\* How many operands the innermost activation has so far.
Delivered == Len(vals) - Top.base

\* print_error has not been called and there is code left to generate.
Finished == Top.k = "prog" /\ Top.ph = "ret"
Running  == be.err = "none" /\ ~Finished

-----------------------------------------------------------------------------
(***************************************************************************)
(* Where a node may stand.  An operand to the right of an operator is an   *)
(* atom or an operator that binds strictly tighter, whose left operand is  *)
(* an atom again: parse_binary_infix_op turns everything else into the     *)
(* left operand of the new operator.                                       *)
(***************************************************************************)
\* Operands an if activation keeps between two statements of a body: the
\* result of the previous statement and, in the else body, the result of the if.
Resting(f) == (IF f.ph = "else" THEN 1 ELSE 0) + (IF f.n > 0 THEN 1 ELSE 0)

InBody == Top.k \in {"prog", "func"} /\ Top.ph = "body"
InIf   == Top.k = "if" /\ Top.ph \in {"then", "else"}

StmtWanted ==
  \/ InBody /\ Delivered = 0 /\ Top.n < MaxStmts
  \/ InIf /\ Delivered = Resting(Top) /\ Top.n < MaxStmts

ExprWanted ==
  \/ StmtWanted
  \/ Top.k = "call" /\ Delivered = 0 /\ Top.n < Top.argc
  \/ Top.k = "if" /\ Top.ph = "cond" /\ Delivered = 0
  \/ Top.k = "binop" /\ Delivered = 0 /\ Top.root

RhsWanted == Top.k \in {"reassign", "store"} /\ Delivered = 0

AtomWanted ==
  \/ ExprWanted
  \/ RhsWanted
  \/ Top.k = "binop" /\ Delivered \in {0, 1}

Inner(kind) == Running /\ kind \in Kinds /\ fuel > 0 /\ fuel' = fuel - 1
Leaf(kind)  == Running /\ kind \in Kinds /\ AtomWanted /\ UNCHANGED << ctl, cg, fuel >>

-----------------------------------------------------------------------------
(* Finishing a node: its result register becomes operand number k.         *)

\* result_reg_desc of a node; val says whether code was emitted that leaves
\* the value of the node there.  A node whose case never assigns the field
\* keeps the 0 of calloc, which is RAX.
Result(r, val) == [reg |-> r, val |-> val]
NoResult       == Result(RAX, FALSE)

Settled(b, n, at, from, to) ==
  IF b.live THEN [b EXCEPT !.cpu = Settle(@, n, at, from, to), !.res = RAX]
            ELSE [b EXCEPT !.res = RAX]

\* The operands from k on are replaced by the one result the back end returned.
Deliver(b, k, expected) ==
  /\ be'   = Settled(b, k - 1, InReg(b.res), expected, Opd(k))
  /\ vals' = Append(SubSeq(vals, 1, k - 1), Result(b.res, TRUE))

DeliverNothing(b, k) ==
  /\ be'   = Settled(b, k - 1, Nowhere, Junk, Junk)
  /\ vals' = Append(SubSeq(vals, 1, k - 1), NoResult)

\* The operands from k on are consumed and no result is delivered.
Consume(b, k, at, from, to) ==
  /\ be'   = Settled(b, k - 1, at, from, to)
  /\ vals' = SubSeq(vals, 1, k - 1)

-----------------------------------------------------------------------------
(***************************************************************************)
(* Leaves: TYPE_INT, TYPE_VAR_ACCESS, and of a variable TYPE_DEREFERENCE,  *)
(* TYPE_ADDROF and TYPE_ARR_INDEX.                                         *)
(***************************************************************************)

InScope == Globals \cup cg.scope

\* TYPE_VAR_ACCESS: a name without a stack offset is taken for a global.
VarAccess(b, x) ==
  IF IsBound(cg.env, x) THEN Load(b, "cell", CellOf(GetEnv(cg.env, x)))
                        ELSE Load(b, "glob", x)

GenInt == Leaf("int") /\ Deliver(Load(be, "imm", Own), Len(vals) + 1, Own)

GenVar(x) == Leaf("var") /\ Deliver(VarAccess(be, x), Len(vals) + 1, Var(x))

\* The value a pointer points at; the case hands on the register of its child.
Pointee(x) == << "pointee", x >>

GenDeref(x) == Leaf("deref") /\ Deliver(VarAccess(be, x), Len(vals) + 1, Pointee(x))

\* map_sym_to_addr: inside a function only the function's own locals are found.
Addressable(x) == cg.global \/ IsBound(cg.env, x)

Address(x) == << "address", x >>

AddressOf(b, x) ==
  IF Addressable(x) THEN Load(b, "lea", Address(x)) ELSE Fail(b, "unknown_symbol")

\* An address is not an int, so it is no operand of an operator.
GenAddr(x) ==
  Leaf("addr") /\ Top.k # "binop" /\ Deliver(AddressOf(be, x), Len(vals) + 1, Address(x))

\* An element that is not the first is displaced from the address of the array.
ElementAddr(b, x) == LET a == AddressOf(b, x) IN AddImm(a, a.res)

\* The address is also what reading the element gives.
GenIndex(x) ==
  /\ Leaf("index")
  /\ \/ Deliver(AddressOf(be, x), Len(vals) + 1, Address(x))
     \/ Deliver(ElementAddr(be, x), Len(vals) + 1, Displaced(Address(x)))

-----------------------------------------------------------------------------
(* TYPE_BINARY_OPERATOR: left operand, right operand, operation.           *)

BeginBinop(op) ==
  /\ Inner("binop")
  /\ \/ ExprWanted /\ Push(BinopFrame(op, TRUE))
     \/ RhsWanted /\ Push(BinopFrame(op, FALSE))
     \/ /\ Top.k = "binop" /\ Delivered = 1
        /\ Precedence[op] > Precedence[Top.op]
        /\ Push(BinopFrame(op, FALSE))
  /\ UNCHANGED << vals, be, cg >>

EndBinop ==
  /\ Running /\ Top.k = "binop" /\ Delivered = 2
  /\ LET k == Len(vals) - 1
     IN  Deliver(GenBinop(be, Top.op, vals[k].reg, vals[k + 1].reg), k,
                 Term(Top.op, Opd(k), Opd(k + 1)))
  /\ ctl' = Pop(ctl)
  /\ UNCHANGED << cg, fuel >>

-----------------------------------------------------------------------------
(***************************************************************************)
(* TYPE_FUNCTION_CALL.  The registers of the arguments of an internal call *)
(* are freed once pushed, those of an external call never; the register an *)
(* external call returns is not recorded in the node.                      *)
(***************************************************************************)
Calling == \E i \in DOMAIN ctl : ctl[i].k = "call"

BeginCall(ext, argc) ==
  /\ Inner(IF ext THEN "ext_call" ELSE "call") /\ AtomWanted
  /\ Calling => "nested_call" \in Kinds
  /\ be' = SetupFuncCall(be)
  /\ Push(CallFrame(ext, argc))
  /\ UNCHANGED << vals, cg >>

CallArg ==
  /\ Running /\ Top.k = "call" /\ Delivered = 1
  /\ LET k == Len(vals)
         r == vals[k].reg
         b == FuncArg(be, r)
     IN  IF Top.ext
         THEN Consume(ExtFuncArg(be, r), k, InReg(ArgRegs[be.nargs + 1]), Opd(k), Arg(Top.n + 1))
         ELSE Consume(RegDealloc(b, r), k, InCell(b.cpu.sp), Opd(k), Arg(Top.n + 1))
  /\ Become([Top EXCEPT !.n = @ + 1])
  /\ UNCHANGED << cg, fuel >>

EndCall ==
  /\ Running /\ Top.k = "call" /\ Delivered = 0 /\ Top.n = Top.argc
  /\ LET f == Load(be, "lea", Code)    \* the variable that holds the function
         c == FuncCall(f, f.res)
         d == IF c.res = f.res THEN c ELSE RegDealloc(c, f.res)
         e == ExtFuncCall(be)
     IN  IF Top.ext THEN Deliver(Returning(Cleanup(e), RAX), Len(vals) + 1, Own)
                    ELSE Deliver(Cleanup(d), Len(vals) + 1, Own)
  /\ ctl' = Pop(ctl)
  /\ UNCHANGED << cg, fuel >>

-----------------------------------------------------------------------------
(***************************************************************************)
(* TYPE_IF_CONDITION.  Code is emitted for both bodies; be.live says which *)
(* of them the compiled program runs.  The result of a statement is freed  *)
(* after the next statement of its body has been generated.  The result    *)
(* register of the if is allocated after the then body.                    *)
(***************************************************************************)
BeginIf ==
  /\ Inner("if") /\ AtomWanted
  /\ Push(IfFrame)
  /\ UNCHANGED << vals, be, cg >>

IfCondition ==
  /\ Running /\ Top.k = "if" /\ Top.ph = "cond" /\ Delivered = 1
  /\ \E taken \in IF be.live THEN BOOLEAN ELSE {FALSE},
        hasElse \in IF "else" \in Kinds THEN BOOLEAN ELSE {FALSE} :
       /\ Become([Top EXCEPT !.ph = "then", !.taken = taken, !.hasElse = hasElse])
       /\ LET b == Settled(RegDealloc(be, Last(vals).reg), Len(vals) - 1, Nowhere, Junk, Junk)
          IN  be' = [b EXCEPT !.live = @ /\ taken]
  /\ vals' = Pop(vals)
  /\ UNCHANGED << cg, fuel >>

\* A statement of a body is finished: the previous one, if any, is freed.
IfStatement ==
  /\ Running /\ InIf /\ Delivered = Resting(Top) + 1
  /\ Become([Top EXCEPT !.n = @ + 1])
  /\ IF Top.n = 0 THEN UNCHANGED << vals, be >>
     ELSE LET k    == Len(vals) - 1
              last == vals[k + 1]
          IN  /\ be'   = Settled(RegDealloc(be, vals[k].reg), k - 1,
                                 InReg(last.reg), Opd(k + 1), Opd(k))
              /\ vals' = Append(SubSeq(vals, 1, k - 1), last)
  /\ UNCHANGED << cg, fuel >>

BodyEnded(ph) ==
  Running /\ Top.k = "if" /\ Top.ph = ph /\ Top.n > 0 /\ Delivered = Resting(Top)

\* The operand k of an if: b holds its result in register r.
IfResult(b, r, k, val, from) ==
  /\ be'   = Settled(b, k - 1, InReg(r), from, Opd(k))
  /\ vals' = Append(SubSeq(vals, 1, k - 1), Result(r, val))

EndThen ==
  /\ BodyEnded("then")
  /\ LET k     == Len(vals)
         a     == RegAlloc(be)
         moved == RegDealloc(CopyReg(a, vals[k].reg, a.res), vals[k].reg)
         skip  == Top.live /\ ~Top.taken
         after == [moved EXCEPT !.live = skip]
     IN  IF Top.hasElse
         THEN /\ vals' = Append(Pop(vals), Result(a.res, FALSE))
              /\ be'   = [Settled(moved, k - 1, InReg(a.res), Opd(k), Opd(k)) EXCEPT !.live = skip]
              /\ Become([Top EXCEPT !.ph = "else", !.n = 0, !.val = vals[k].val])
         ELSE /\ IfResult([ZeroOut(after, a.res) EXCEPT !.live = Top.live], a.res, k,
                          vals[k].val, IF Top.taken THEN Opd(k) ELSE Zero)
              /\ ctl' = Pop(ctl)
  /\ cg' = [cg EXCEPT !.scope = Top.scope]
  /\ UNCHANGED fuel

EndElse ==
  /\ BodyEnded("else")
  /\ LET k    == Len(vals) - 1
         last == vals[k + 1]
         r    == vals[k].reg
         b    == RegDealloc(CopyReg(be, last.reg, r), last.reg)
     IN  IfResult([b EXCEPT !.live = Top.live], r, k, Top.val /\ last.val,
                  IF Top.taken THEN Opd(k) ELSE Opd(k + 1))
  /\ ctl' = Pop(ctl)
  /\ cg' = [cg EXCEPT !.scope = Top.scope]
  /\ UNCHANGED fuel

-----------------------------------------------------------------------------
(***************************************************************************)
(* TYPE_VAR_DECLARATION.  In the global context nothing is emitted (and    *)
(* every global has its .space in the data section); a local gets a word   *)
(* of the stack and an offset.  Relabelling the cell says that from here   *)
(* on the cell belongs to x, whatever it holds.                            *)
(***************************************************************************)
Declare(x) ==
  /\ Inner("decl") /\ StmtWanted
  /\ \/ /\ cg.global /\ Top.k = "prog" /\ x \in Globals
        /\ DeliverNothing(be, Len(vals) + 1)
        /\ UNCHANGED cg
     \/ /\ ~cg.global /\ x \in Locals \ cg.scope
        /\ LET off == cg.off - 1
               env == SetEnv(cg.env, x, off)
               b   == AllocateOnStack(be, 1)
               at  == CellOf(GetEnv(env, x))
           IN  /\ cg' = [cg EXCEPT !.off = off, !.env = env, !.scope = @ \cup {x}]
               /\ DeliverNothing(IF b.live THEN [b EXCEPT !.cpu = SetCell(@, at, Var(x))] ELSE b,
                                 Len(vals) + 1)
  /\ UNCHANGED ctl

(***************************************************************************)
(* TYPE_VAR_REASSIGNMENT.  The right-hand side comes first.  Assigning to  *)
(* a variable (BeginAssign, EndAssign) stores its register and keeps the   *)
(* register in use; storing through a pointer or into an array element     *)
(* (BeginStore, EndStore) frees both registers, after the value has gone   *)
(* to memory outside the cells modelled here.  Neither assigns the result  *)
(* register of the node.                                                   *)
(***************************************************************************)
BeginAssign(x) ==
  /\ Inner("reassign") /\ StmtWanted
  /\ Push(AssignFrame("reassign", x))
  /\ UNCHANGED << vals, be, cg >>

EndAssign ==
  /\ Running /\ Top.k = "reassign" /\ Delivered = 1
  /\ LET k     == Len(vals)
         x     == Top.x
         local == ~cg.global /\ IsBound(cg.env, x)
         b     == IF cg.global THEN StoreGlobal(be, x, vals[k].reg)
                  ELSE IF local THEN StoreLocal(be, GetEnv(cg.env, x), vals[k].reg)
                  ELSE Fail(be, "unknown_symbol")
         at    == IF local THEN InCell(CellOf(GetEnv(cg.env, x))) ELSE InGlob(x)
     IN  /\ be'   = Settled(b, k - 1, at, Opd(k), Var(x))
         /\ vals' = Append(Pop(vals), NoResult)
  /\ ctl' = Pop(ctl)
  /\ UNCHANGED << cg, fuel >>

BeginStore(x) ==
  /\ Inner("store") /\ StmtWanted
  /\ Push(AssignFrame("store", x))
  /\ UNCHANGED << vals, be, cg >>

\* Seeded fault: only the register of the right-hand side is freed.
EndStoreKeepsAddress ==
  /\ Running /\ Top.k = "store" /\ Delivered = 1
  /\ LET k == Len(vals)
         a == VarAccess(be, Top.x)
     IN  DeliverNothing(RegDealloc(a, vals[k].reg), k)
  /\ ctl' = Pop(ctl)
  /\ UNCHANGED << cg, fuel >>

\* What the left-hand side may be: the variable is a pointer or an array.
Targets(b, x) ==
  {VarAccess(b, x)}
    \cup (IF "index" \in Kinds THEN {AddressOf(b, x), ElementAddr(b, x)} ELSE {})

EndStore ==
  /\ Running /\ Top.k = "store" /\ Delivered = 1
  /\ LET k == Len(vals)
     IN  \E a \in Targets(be, Top.x) :
           DeliverNothing(RegDealloc(RegDealloc(a, vals[k].reg), a.res), k)
  /\ ctl' = Pop(ctl)
  /\ UNCHANGED << cg, fuel >>

-----------------------------------------------------------------------------
(***************************************************************************)
(* TYPE_FUNCTION and target_codegen_func.  A function is generated where   *)
(* its definition stands, jumped over at run time, in a child context that *)
(* shares the register pool and the call state.  The processor meanwhile   *)
(* follows one later invocation of the function: its caller has pushed the *)
(* argc arguments in order, then the return address.                       *)
(***************************************************************************)
InitialOffset == -4   \* local_offset of a new context: -32 bytes

InvokedCPU(argc) ==
  LET pushed == [j \in 1 .. argc |-> Var(Params[argc - j + 1])]
  IN  [InitCPU(Globals) EXCEPT !.stack = [k \in -(argc + 1) .. -2 |-> pushed[-k - 1]]]

\* Seeded fault: the offsets start a word too low, so the return address is taken
\* for the first parameter.
ParamEnvFromOne(argc) ==
  LET bound[i \in 0 .. argc] == IF i = 0 THEN EmptyEnv
                                ELSE SetEnv(bound[i - 1], Params[i], i)
  IN  bound[argc]

\* Parameter i is bound to the offset 8 * (i + 1).
ParamEnv(argc) ==
  LET bound[i \in 0 .. argc] == IF i = 0 THEN EmptyEnv
                                ELSE SetEnv(bound[i - 1], Params[i], i + 1)
  IN  bound[argc]

BeginFunc(argc) ==
  /\ Inner("function")
  /\ StmtWanted \/ (Top.k = "reassign" /\ Delivered = 0)
  /\ Push(Body("func", argc, [cg |-> cg, cpu |-> be.cpu, live |-> be.live]))
  /\ cg' = [global |-> FALSE, off |-> InitialOffset, env |-> ParamEnv(argc),
            scope |-> {Params[i] : i \in 1 .. argc}]
  /\ be' = FuncHeader([be EXCEPT !.cpu = InvokedCPU(argc), !.live = TRUE], InitialOffset)
  /\ UNCHANGED vals

EndFunc ==
  /\ Running /\ Top.k = "func" /\ Top.ph = "ret"
  /\ Deliver(Load([be EXCEPT !.cpu = Top.saved.cpu, !.live = Top.saved.live], "lea", Code),
             Len(vals) + 1, Code)
  /\ cg' = Top.saved.cg
  /\ ctl' = Pop(ctl)
  /\ UNCHANGED fuel

-----------------------------------------------------------------------------
(***************************************************************************)
(* The statement loops of target_codegen_prog and target_codegen_func: the *)
(* result register of every statement is freed; that of the last one is    *)
(* then copied to RAX, and the frame is left.                              *)
(***************************************************************************)
Statement ==
  /\ Running /\ InBody /\ Delivered = 1 /\ Top.n + 1 < MaxStmts
  /\ Consume(RegDealloc(be, Last(vals).reg), Len(vals), Nowhere, Junk, Junk)
  /\ Become([Top EXCEPT !.n = @ + 1])
  /\ UNCHANGED << cg, fuel >>

LastStatement ==
  /\ Running /\ InBody /\ Delivered = 1
  /\ LET r == Last(vals).reg
         k == Len(vals)
     IN  Consume(SetFuncRetVal(RegDealloc(be, r), r), k, InReg(RAX), Opd(k), Returned)
  /\ Become([Top EXCEPT !.n = @ + 1, !.ph = "ret", !.val = Last(vals).val])
  /\ UNCHANGED << cg, fuel >>

-----------------------------------------------------------------------------
Init ==
  /\ ctl  = << [k |-> "prog", ph |-> "body", n |-> 0, argc |-> 0, base |-> 0,
                val |-> FALSE, saved |-> << >>] >>
  /\ vals = << >>
  /\ be   = FuncHeader(InitBackend(Globals), InitialOffset)
  /\ cg   = [global |-> TRUE, off |-> InitialOffset, env |-> EmptyEnv, scope |-> {}]
  /\ fuel = MaxNodes

\* The compiler has exited: the program is complete or an error was printed.
Stopped == ~Running /\ UNCHANGED vars

Next ==
  \/ GenInt
  \/ \E x \in InScope : GenVar(x) \/ GenDeref(x) \/ GenAddr(x) \/ GenIndex(x)
  \/ \E x \in InScope : BeginAssign(x) \/ BeginStore(x)
  \/ \E op \in Ops : BeginBinop(op)
  \/ EndBinop
  \/ \E argc \in 0 .. MaxArgs : BeginFunc(argc) \/ (\E ext \in BOOLEAN : BeginCall(ext, argc))
  \/ CallArg \/ EndCall
  \/ BeginIf \/ IfCondition \/ IfStatement \/ EndThen \/ EndElse
  \/ \E x \in Globals \cup Locals : Declare(x)
  \/ EndAssign \/ EndStore \/ EndFunc
  \/ Statement \/ LastStatement
  \/ Stopped

Spec == Init /\ [][Next]_vars

-----------------------------------------------------------------------------
(* Properties.                                                             *)

\* What the compiler itself keeps: activations, results, pool, call state, context.
CompilerTypeOK ==
  /\ ctl # << >> /\ \A i \in DOMAIN ctl : ctl[i].base \in 0 .. Len(vals)
  /\ vals \in Seq([reg : Regs, val : BOOLEAN])
  /\ be.used \subseteq Regs /\ be.res \in Regs /\ be.err \in Errors
  /\ be.call \in CallStates /\ be.nargs \in Nat /\ be.raxInUse \in BOOLEAN
  /\ be.live \in BOOLEAN
  /\ cg.off \in Int /\ cg.scope \subseteq Locals \cup {Params[i] : i \in DOMAIN Params}
  /\ fuel \in 0 .. MaxNodes

CPUTypeOK(c) ==
  /\ DOMAIN c.reg = Regs /\ DOMAIN c.glob = Globals
  /\ c.sp \in Int /\ \A k \in DOMAIN c.stack : k \in Int

\* Types: the pool holds registers, results are registers, every activation knows
\* how many operands it found, and the processor has one stack pointer.
TypeOK == CompilerTypeOK /\ CPUTypeOK(be.cpu)

Compiling == be.err = "none"

\* The pool marks as in use exactly the registers of the pending operands, and
\* no two operands share one: no register leaks, none is freed too early.
PoolMatchesOperands ==
  Compiling =>
    /\ be.used = {vals[i].reg : i \in DOMAIN vals}
    /\ \A i, j \in DOMAIN vals : i # j => vals[i].reg # vals[j].reg

\* In the running program the register of each pending operand still holds the
\* value of that operand: nothing emitted since then has overwritten it.
LiveOperandsIntact ==
  Compiling /\ be.live =>
    \A i \in DOMAIN vals : vals[i].val => be.cpu.reg[vals[i].reg] = Opd(i)

\* The compiler never runs out of scratch registers.
NeverOutOfRegisters == be.err # "no_register"

\* Each variable in scope is in its own stack cell: no push, store or callee
\* has overwritten it, and it lies between the frame and the stack pointer.
LocalsIntact ==
  Compiling /\ be.live =>
    /\ \A x \in Globals : be.cpu.glob[x] = Var(x)
    /\ \A x \in cg.scope : Cell(be.cpu, CellOf(GetEnv(cg.env, x))) = Var(x)

\* The calls being prepared.
OpenCalls == {i \in DOMAIN ctl : ctl[i].k = "call"}

\* Outside calls the stack pointer is exactly where the context believes the last
\* local to be (local_offset): every push and sub has its pop and add.
StackAccounted ==
  Compiling /\ be.live /\ OpenCalls = {} => be.cpu.sp = -cg.off

\* The call state, shared by all contexts, describes the innermost call being
\* prepared: how many arguments it has and, once it has one, its kind.  Between
\* calls it is back to its initial value, so that the next call can be set up.
CallStateMatches ==
  Compiling =>
    IF OpenCalls = {} THEN be.call = "NONE" /\ be.nargs = 0 /\ ~be.raxInUse
    ELSE LET f == ctl[CHOOSE i \in OpenCalls : \A j \in OpenCalls : j <= i]
         IN  /\ be.nargs = f.n
             /\ be.call = IF f.n = 0 THEN "NONE" ELSE IF f.ext THEN "EXTERNAL" ELSE "INTERNAL"

\* When a call instruction is about to be emitted every argument is in place.
ArgsInPlace ==
  Compiling /\ be.live /\ Top.k = "call" /\ Top.n = Top.argc /\ Delivered = 0 =>
    \A i \in 1 .. Top.argc :
      Arg(i) = IF Top.ext THEN be.cpu.reg[ArgRegs[i]]
               ELSE Cell(be.cpu, be.cpu.sp - Top.argc + i)

\* Between two statements of the outermost body no register is in use.
PoolEmptyBetweenStatements ==
  Compiling /\ Len(ctl) = 1 /\ vals = << >> => be.used = {}

\* A body returns the value of its last statement in RAX.
ReturnsLastValue ==
  Compiling /\ Top.k \in {"prog", "func"} /\ Top.ph = "ret" /\ Top.val =>
    be.cpu.reg[RAX] = Returned
=============================================================================
