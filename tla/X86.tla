-------------------------------- MODULE X86 --------------------------------
(***************************************************************************)
(* The x86-64 instructions the code generator emits, executed on symbolic  *)
(* values.  The repository only prints these instructions; the processor   *)
(* that runs them is outside src/, so this module is written from the way  *)
(* the emission functions of code_gen_x86_64.c use each instruction (AT&T  *)
(* operand order: source, destination).                                    *)
(*                                                                         *)
(* A value says where it comes from and not which number it is:            *)
(*   Opd(i)         the value of the i-th pending operand of the traversal *)
(*   Var(x)         the value of variable x                                *)
(*   Arg(i)         the value of the i-th argument of the call being made  *)
(*   Returned       the value a body returns                               *)
(*   Own            the value of the node whose code is being emitted      *)
(*   Term(op, a, b) the result of an operator on two values                *)
(*   Displaced(a)   the address a with an array offset added               *)
(*   Code           the address of a function                              *)
(*   Junk           anything else                                          *)
(* Stack cells are numbered in words away from the frame pointer: cell k   *)
(* is at -8k(%rbp), so locals have positive numbers, the saved frame       *)
(* pointer is cell 0, the return address cell -1 and the last argument     *)
(* pushed by the caller cell -2.                                           *)
(***************************************************************************)
EXTENDS Integers, Sequences

RAX == 0   RBX == 1   RCX == 2   RDX == 3
R8  == 4   R9  == 5   R10 == 6   R11 == 7

Regs == RAX .. R11

\* "The x64 ABI considers the registers RAX, RCX, RDX, R8, R9, R10, R11 ...
\* volatile": what a callee that keeps the Windows convention may change.
Volatile == Regs \ {RBX}

Junk     == << "junk" >>
Own      == << "own" >>
Zero     == << "zero" >>
Code     == << "code" >>
Opd(i)   == << "opd", i >>
Var(x)   == << "var", x >>
Arg(i)   == << "arg", i >>
Returned == << "arg", 0 >>
Sign(v)  == << "sign", v >>
Displaced(a) == << "displaced", a >>

Commutative == {"+", "*"}

Term(op, a, b) == << op, IF op \in Commutative THEN {a, b} ELSE << a, b >> >>

-----------------------------------------------------------------------------
\* The stack is a partial function; a cell never written holds Junk.
Cell(c, k) == IF k \in DOMAIN c.stack THEN c.stack[k] ELSE Junk

SetReg(c, r, v)  == [c EXCEPT !.reg[r] = v]
SetCell(c, k, v) ==
  [c EXCEPT !.stack = [j \in DOMAIN @ \cup {k} |-> IF j = k THEN v ELSE @[j]]]

\* Only the cells up to k; those beyond the stack pointer may be overwritten.
Trim(c, k) == [c EXCEPT !.sp = k, !.stack = [j \in {i \in DOMAIN @ : i <= k} |-> @[j]]]

\* The HomeWords words just below the return address (towards the caller) are
\* the home area of a Windows callee, which may store its register arguments there.
HomeWords == 4

(***************************************************************************)
(* One instruction: a tuple of the mnemonic and its operands.  `mov %al`   *)
(* after setcc needs the upper bytes zeroed first, idiv needs the dividend *)
(* sign-extended into RDX, a shift takes its count from RCX.               *)
(***************************************************************************)
Exec(c, i) ==
  LET op == i[1]
  IN  CASE op = "imm"  -> SetReg(c, i[3], Own)
        [] op = "lea"  -> SetReg(c, i[3], i[2])
        [] op = "addimm" -> SetReg(c, i[2], Displaced(c.reg[i[2]]))
        [] op = "zero" -> SetReg(c, i[2], Zero)
        [] op = "mov"  -> SetReg(c, i[3], c.reg[i[2]])
        [] op = "xchg" -> [c EXCEPT !.reg[i[2]] = c.reg[i[3]], !.reg[i[3]] = c.reg[i[2]]]
        [] op = "glob" -> SetReg(c, i[3], c.glob[i[2]])
        [] op = "cell" -> SetReg(c, i[3], Cell(c, i[2]))
        [] op \in {"+", "-", "*"} -> SetReg(c, i[3], Term(op, c.reg[i[3]], c.reg[i[2]]))
        [] op \in {"<<", ">>"}    -> SetReg(c, i[2], Term(op, c.reg[i[2]], c.reg[RCX]))
        [] op = "stglob" -> [c EXCEPT !.glob[i[3]] = c.reg[i[2]]]
        [] op = "stcell" -> SetCell(c, i[3], c.reg[i[2]])
        [] op = "cmp"  -> [c EXCEPT !.flags = << c.reg[i[3]], c.reg[i[2]] >>]
        [] op = "setcc" -> SetReg(c, i[3], IF c.reg[i[3]] = Zero
                                           THEN Term(i[2], c.flags[1], c.flags[2])
                                           ELSE Junk)
        [] op = "cqo"  -> SetReg(c, RDX, Sign(c.reg[RAX]))
        [] op = "idiv" -> LET ok == c.reg[RDX] = Sign(c.reg[RAX])
                          IN  [c EXCEPT
                                 !.reg[RAX] = IF ok THEN Term("/", @, c.reg[i[2]]) ELSE Junk,
                                 !.reg[RDX] = IF ok THEN Term("%", c.reg[RAX], c.reg[i[2]]) ELSE Junk]
        [] op = "push" -> [SetCell(c, c.sp + 1, c.reg[i[2]]) EXCEPT !.sp = @ + 1]
        [] op = "pop"  -> Trim(SetReg(c, i[2], Cell(c, c.sp)), c.sp - 1)
        [] op = "subsp" -> [c EXCEPT !.sp = @ + i[2]]
        [] op = "addsp" -> Trim(c, c.sp - i[2])
        [] op = "call"  -> Trim([c EXCEPT !.reg = [r \in Regs |-> IF r = RAX THEN Own ELSE Junk]], c.sp)
        [] op = "callext" ->
             LET home == (c.sp - HomeWords + 1) .. c.sp
             IN  Trim([c EXCEPT
                         !.reg   = [r \in Regs |-> IF r = RAX THEN Own
                                                    ELSE IF r \in Volatile THEN Junk ELSE @[r]],
                         !.stack = [k \in DOMAIN @ |-> IF k \in home THEN Junk ELSE @[k]]],
                      c.sp)

\* Runs a sequence of instructions.
Run(c, code) ==
  LET after[n \in 0 .. Len(code)] == IF n = 0 THEN c ELSE Exec(after[n - 1], code[n])
  IN  after[Len(code)]
-----------------------------------------------------------------------------
(***************************************************************************)
(* Once a node is finished, the value that was being computed gets a       *)
(* settled name: the location `at` (a register, cell or global) is         *)
(* relabelled `to` if it holds `from`, and of all other locations only     *)
(* those that hold a variable, an argument or one of the first n operands  *)
(* keep their value; the rest is dead.                                     *)
(***************************************************************************)
InReg(r)  == << "reg", r >>
InCell(k) == << "cell", k >>
InGlob(x) == << "glob", x >>
Nowhere   == << "nowhere" >>

Lasting(v, n) == v[1] \in {"var", "arg"} \/ (v[1] = "opd" /\ v[2] <= n)

Settle(c, n, at, from, to) ==
  LET label(l, v) == IF l = at /\ v = from THEN to
                     ELSE IF Lasting(v, n) THEN v ELSE Junk
  IN  [c EXCEPT !.flags = Junk,
                !.reg   = [r \in Regs |-> label(InReg(r), @[r])],
                !.stack = [k \in DOMAIN @ |-> label(InCell(k), @[k])],
                !.glob  = [x \in DOMAIN @ |-> label(InGlob(x), @[x])]]
=============================================================================
