---------------------------- MODULE TypeChecker ----------------------------
(***************************************************************************)
(* type_check.c: the walk of type_check_expr over the AST.  Its recursion  *)
(* is two stacks.  levels has one entry per statement list being checked:  *)
(* the context of its names, and the child context the next block of the   *)
(* list will be checked in (the *context_to_enter of the C code).  frames  *)
(* has one entry per expression list being checked.                        *)
(***************************************************************************)
EXTENDS Contexts, SequencesExt

VARIABLES
  cpos,     \* the item of the AST to be checked next; 0 before the walk
  levels,   \* [ctx, next], innermost last
  frames,   \* innermost last, see Frame
  verdict   \* "none", or how the walk ended

checkerVars == << cpos, levels, frames, verdict >>

\* "crashed": a context that is not there was dereferenced.
Verdicts == {"none", "accepted", "type_error", "crashed"}

(***************************************************************************)
(* A list of statements or arguments: the type of the current one so far,  *)
(* the prefixes and whether an operator wait for an operand, the type of   *)
(* the variable being assigned to, the type the last statement must have,  *)
(* and the type of the whole block if it is not that of its last           *)
(* statement.                                                              *)
(***************************************************************************)
AnyType == Type("any", 0)
Invalid == Type("invalid", 0)

Frame(goal, gives) ==
  [ty |-> NoType, pre |-> << >>, op |-> FALSE, want |-> AnyType, goal |-> goal, gives |-> gives]

Level(c) == [ctx |-> c, next |-> FirstChild(c)]

Checking == cpos \in DOMAIN ast /\ verdict = "none"
At(k)    == Checking /\ ast[cpos].k = k

\* The context names are looked up in, and the frame of the current expression.
Scope == Last(levels).ctx
F     == Last(frames)

Go(ls, fs) == /\ cpos' = cpos + 1
              /\ levels' = ls
              /\ frames' = fs
              /\ UNCHANGED verdict

Fail(v) == verdict' = v /\ UNCHANGED << cpos, levels, frames >>

\* Seeded fault (see README.md): every variable can be dereferenced.
PrefixTypeLoose(prefix, T) ==
  CASE prefix.k = "addr" -> [T EXCEPT !.ptr = @ + 1]
    [] prefix.k = "deref" -> [T EXCEPT !.ptr = IF @ = 0 THEN 0 ELSE @ - 1]
    [] prefix.k = "index" /\ T.sym = "array" /\ prefix.x < ArrayLen -> IntType
    [] OTHER -> Invalid

\* TYPE_ADDROF, TYPE_DEREFERENCE and TYPE_ARR_INDEX of an operand of type T.
\* The pointer level of an array is not looked at.
PrefixType(prefix, T) ==
  CASE prefix.k = "addr" -> [T EXCEPT !.ptr = @ + 1]
    [] prefix.k = "deref" /\ T.ptr > 0 -> [T EXCEPT !.ptr = @ - 1]
    [] prefix.k = "index" /\ T.sym = "array" /\ prefix.x < ArrayLen -> IntType
    [] OTHER -> Invalid

\* The type of an operand of type T below all of them, the outermost first.
TypeOfPrefixed(prefixes, T) ==
  FoldRight(LAMBDA prefix, U : IF U = Invalid THEN Invalid ELSE PrefixType(prefix, U), prefixes, T)

(***************************************************************************)
(* The operand just checked has type T.  TYPE_BINARY_OPERATOR compares the *)
(* types of its operands with those of its declaration, all int.           *)
(***************************************************************************)
Operand(ls, fs, T) ==
  LET f == Last(fs)
      U == TypeOfPrefixed(f.pre, T)
  IN  IF U = Invalid \/ (f.op /\ U # IntType)
      THEN Fail("type_error")
      ELSE Go(ls, [fs EXCEPT ![Len(fs)] = [f EXCEPT !.ty = U, !.pre = << >>, !.op = FALSE]])

\* cmp_type_sym on the type of the current expression and on what it must be, if
\* anything, and what is done then.
Compare(want, done) == IF want \in {AnyType, F.ty} THEN done ELSE Fail("type_error")

\* TYPE_VAR_REASSIGNMENT, when its right-hand side has been checked; and the
\* comparison of the last statement of a block with what the block must be.
StatementEnd(done) == Compare(F.want, done)
BlockEnd(done)     == StatementEnd(Compare(F.goal, done))

\* Seeded fault: the child context of the block stays the next.
AdvancedNot == Front(levels)

\* The level below, when the block entered from it has been checked.
Advanced == LET up == Front(levels)
            IN  [up EXCEPT ![Len(up)].next = NextChild(@)]

\* Entering the child context of the level on top of ls, with a new frame.
\* (*context_to_enter)->child is read without asking whether there is one.
Enter(ls, fs) ==
  IF Last(ls).next = NULL THEN Fail("crashed")
                          ELSE Go(Append(ls, Level(Last(ls).next)), fs)

-----------------------------------------------------------------------------
\* type_check_prog, called with the context the parser ended in.
BeginCheck ==
  /\ cpos = 0
  /\ cpos' = 1
  /\ levels' = << Level(here) >>
  /\ frames' = << Frame(AnyType, AnyType) >>
  /\ UNCHANGED verdict

CheckInt == At("int") /\ Operand(levels, frames, IntType)

CheckNull == At("null") /\ Operand(levels, frames, NoType)

\* TYPE_DEREFERENCE, TYPE_ARR_INDEX, and TYPE_ADDROF, whose child is looked at
\* before it is checked.
CheckPrefix ==
  /\ At("deref") \/ At("index") \/ At("addr")
  /\ IF At("addr") /\ ast[cpos + 1].k \notin {"use", "set", "index"}
     THEN Fail("type_error")
     ELSE Go(levels, [frames EXCEPT ![Len(frames)].pre = Append(@, ast[cpos])])

\* TYPE_VAR_ACCESS.
CheckVar ==
  /\ At("use")
  /\ LET x == ast[cpos].x IN
     IF Visible(Scope, x) THEN Operand(levels, frames, GetVar(Scope, x).ty)
                          ELSE Fail("type_error")

\* Between the operands of TYPE_BINARY_OPERATOR.
CheckOperator ==
  /\ At("op")
  /\ IF F.ty = IntType THEN Go(levels, [frames EXCEPT ![Len(frames)].op = TRUE])
                     ELSE Fail("type_error")

\* TYPE_VAR_REASSIGNMENT: its left-hand side.
CheckAssign ==
  /\ At("set")
  /\ LET x == ast[cpos].x
         T == TypeOfPrefixed(F.pre, GetVar(Scope, x).ty)
     IN  IF Visible(Scope, x) /\ T # Invalid
         THEN Go(levels, [frames EXCEPT ![Len(frames)].want = T, ![Len(frames)].pre = << >>])
         ELSE Fail("type_error")

\* TYPE_VAR_DECLARATION, and what TYPE_FUNCTION does not look at.
CheckNothing == (At("decl") \/ At("func") \/ At("param")) /\ Go(levels, frames)

\* TYPE_FUNCTION_CALL up to its arguments.
CheckCall ==
  /\ At("call")
  /\ LET x == ast[cpos].x IN
     CASE ~Visible(Scope, x)              -> Fail("type_error")
       [] GetVar(Scope, x).ty = Fun0      -> Go(levels, Append(frames, Frame(NoType, IntType)))
       [] GetVar(Scope, x).ty = Fun1      -> Go(levels, Append(frames, Frame(IntType, IntType)))
       [] OTHER                           -> Fail("type_error")

\* No function modelled has two parameters: "Too many arguments".
CheckSecondArg == At("arg") /\ Fail("type_error")

\* Seeded fault: an argument is not compared with the parameter.
CheckRetAny ==
  /\ At("ret")
  /\ Operand(levels, Front(frames), IntType)

\* The argument is compared with the parameter, and there is one if and only if
\* the function has one.
CheckRet ==
  /\ At("ret")
  /\ IF F.ty = F.goal /\ (F.goal = NoType <=> ast[cpos - 1].k = "call")
     THEN Operand(levels, Front(frames), IntType)
     ELSE Fail("type_error")

\* TYPE_IF_CONDITION: the condition is checked first, at the level of the if.
CheckIf == At("if") /\ Go(levels, Append(frames, Frame(AnyType, AnyType)))

CheckThen == At("then") /\ Enter(levels, Append(Front(frames), Frame(AnyType, AnyType)))

\* The body of the else must have the type of the first one.
CheckElse ==
  /\ At("else")
  /\ BlockEnd(Enter(Advanced, Append(Front(frames), Frame(F.ty, AnyType))))

\* TYPE_FUNCTION: its body, which must have the type it returns.
CheckBody == At("body") /\ Enter(levels, Append(frames, Frame(IntType, ast[cpos].means.ty)))

\* An if or a lambda without a body: the children of NULL are read.
CheckNoBody == At("nobody") /\ Fail("crashed")

\* The end of a block: of a condition without else, of an else or of a lambda.
CheckEnd ==
  /\ At("end")
  /\ BlockEnd(Operand(Advanced, Front(frames), IF F.gives = AnyType THEN F.ty ELSE F.gives))

\* The next statement of the list.
CheckNext ==
  /\ At("next")
  /\ StatementEnd(Go(levels, [frames EXCEPT ![Len(frames)] = Frame(F.goal, F.gives)]))

EndCheck ==
  /\ cpos = Len(ast) + 1 /\ verdict = "none"
  /\ StatementEnd(verdict' = "accepted" /\ UNCHANGED << cpos, levels, frames >>)

-----------------------------------------------------------------------------
CheckerInit ==
  /\ cpos = 0
  /\ levels = << >>
  /\ frames = << >>
  /\ verdict = "none"

CheckerNext ==
  \/ BeginCheck \/ CheckInt \/ CheckNull \/ CheckPrefix \/ CheckVar \/ CheckOperator \/ CheckAssign \/ CheckNothing
  \/ CheckCall \/ CheckSecondArg \/ CheckRet
  \/ CheckIf \/ CheckThen \/ CheckElse \/ CheckBody \/ CheckNoBody \/ CheckEnd \/ CheckNext \/ EndCheck
=============================================================================
