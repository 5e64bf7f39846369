---------------------------- MODULE BlockParser ----------------------------
(***************************************************************************)
(* The statement level of parse_tokens and stack_operator_continue of      *)
(* parser.c: conditions, lambdas, declarations and calls, each open one    *)
(* with an entry on the parsing stack, and the contexts they open and      *)
(* close.  The tokens are not an input: each is chosen when the parser     *)
(* reads it, so the behaviours parse all programs up to the bound, those   *)
(* the file ends in the middle of included.                                *)
(***************************************************************************)
EXTENDS Contexts

VARIABLES
  stack,  \* the parsing stack, innermost entry last: [op, from]
  ph,     \* what the parser is about to read, or how it ended
  found   \* history: what the last lookup of a variable gave

parserVars == << ctxs, here, ast, stack, ph, found >>

(***************************************************************************)
(* ph: "statement" and "operand", running_expr is an empty node, at the    *)
(* beginning of a statement or not; "target" and "prefixed", it is the     *)
(* operand of an `@` or `&` there; "param", it is the next parameter of a  *)
(* lambda; "after", an operand was read that an operator may follow;       *)
(* "closed", what was read can only be followed by what closes or          *)
(* continues the innermost open construct; "parsed" and "rejected".        *)
(***************************************************************************)
Phases == {"statement", "operand", "target", "prefixed", "param",
           "after", "closed", "parsed", "rejected"}

BodyOps  == {"if-then-body", "if-else-body", "lambda_body"}
BlockOps == BodyOps \cup {"if-cond", "lambda_params"}
StackOps == BlockOps \cup {"func_call"}

\* An entry: its op, and the item of the AST it was pushed for.
Entry(op)  == [op |-> op, from |-> Len(ast) + 1]

Top      == stack[Len(stack)]
TopOp    == IF stack = << >> THEN "none" ELSE Top.op
Outer    == SubSeq(stack, 1, Len(stack) - 1)
Become(op) == stack' = [stack EXCEPT ![Len(stack)].op = op]
Pop        == stack' = Outer

AtOperand == ph \in {"statement", "operand"}
Prefixed  == ph \in {"target", "prefixed"}
Finished  == ph \in {"after", "closed"}   \* an operand is complete

Reject == ph' = "rejected" /\ UNCHANGED << ctxs, here, ast, stack, found >>

\* Opening a context below *context, and going back to its parent.
OpenContext  == ctxs' = NewContext(ctxs, here) /\ here' = Len(ctxs) + 1
CloseContext == here' = Parent(here) /\ UNCHANGED ctxs

Depth == Len(Chain(here))

-----------------------------------------------------------------------------
(* Operands. *)

(***************************************************************************)
(* `@` and `&`: their operand is read next, and here that is a literal, a  *)
(* variable, an element or another prefix.  An operator behind it nests    *)
(* below the prefix or not, by its precedence (see ExprParser), and is     *)
(* left out: hence "closed".                                               *)
(***************************************************************************)
AfterOperand == IF Prefixed THEN "closed" ELSE "after"

ParseInt ==
  /\ AtOperand \/ Prefixed
  /\ Add(Plain("int")) /\ ph' = AfterOperand
  /\ UNCHANGED << ctxs, here, stack, found >>

ParsePrefix ==
  \E k \in {"addr", "deref"} :
    /\ AtOperand \/ Prefixed
    /\ Room(k)
    /\ Add(Plain(k))
    /\ ph' = IF ph \in {"statement", "target"} THEN "target" ELSE "prefixed"
    /\ UNCHANGED << ctxs, here, stack, found >>

\* Where a name is looked up, and what is done if it is not declared:
\* print_error(... "Undefined symbol").
Lookup(x, subscript, item, next) ==
  /\ IF Visible(here, x)
     THEN /\ found' = GetVar(here, x)
          /\ ast' = ast \o subscript \o << Item(item, x, here, GetVar(here, x)) >>
          /\ ph' = next
          /\ UNCHANGED << ctxs, here >>
     ELSE Reject

Indices == IF "index" \in Constructs THEN 0 .. ArrayLen ELSE {}

\* A variable may have an index, whose node is put above that of the variable.
Subscripts ==
  {<< >>} \cup {<< Item("index", n, here, Undeclared) >> : n \in Indices}

\* A variable or an element.
ParseVar ==
  \E x \in Names, subscript \in Subscripts :
    /\ AtOperand \/ Prefixed
    /\ "use" \in Constructs
    /\ Lookup(x, subscript, "use", AfterOperand)
    /\ UNCHANGED stack

\* A variable or an element and `:=` at the beginning of a statement, behind
\* prefixes or not.
ParseAssign ==
  \E x \in Names, subscript \in Subscripts :
    /\ ph \in {"statement", "target"} /\ Room("set")
    /\ Lookup(x, subscript, "set", "operand")
    /\ UNCHANGED stack

\* A variable and `(`, and then an argument or `)`.
BeginCall ==
  \E x \in Names :
    /\ AtOperand /\ Room("call")
    /\ Lookup(x, << >>, "call", "operand")
    /\ IF Visible(here, x) THEN stack' = Append(stack, Entry("func_call")) ELSE UNCHANGED stack

\* A variable, `(` and `)`.
ParseEmptyCall ==
  \E x \in Names :
    /\ AtOperand /\ Room("call")
    /\ IF Visible(here, x)
       THEN /\ found' = GetVar(here, x)
            /\ ast' = ast \o << Item("call", x, here, GetVar(here, x)),
                                Item("ret", x, here, GetVar(here, x)) >>
            /\ ph' = "after"
            /\ UNCHANGED << ctxs, here, stack >>
       ELSE Reject

-----------------------------------------------------------------------------
(***************************************************************************)
(* Declarations.  Only *context is searched for an earlier declaration.    *)
(* An initial value is an assignment that follows the declaration as a     *)
(* statement of its own.                                                   *)
(***************************************************************************)
NewMeaning(ty) == Meaning(ty, Len(ast) + 1)

Declared(x, ty) == ctxs' = [ctxs EXCEPT ![here].vars = SetEnv(@, x, NewMeaning(ty))]

Declare ==
  \E x \in Names, ty \in Types :
    /\ ph = "statement" /\ Room("decl")
    /\ IF IsBound(Vars(here), x)
       THEN Reject
       ELSE /\ Declared(x, ty)
            /\ \/ /\ Add(Item("decl", x, here, NewMeaning(ty)))
                  /\ ph' = "closed"
               \/ /\ ast' = ast \o << Item("decl", x, here, NewMeaning(ty)),
                                      Plain("next"),
                                      Item("set", x, here, NewMeaning(ty)) >>
                  /\ ph' = "operand"
            /\ UNCHANGED << here, stack, found >>

-----------------------------------------------------------------------------
(* Conditions. *)

\* `if`: its context is created before its condition is parsed.
BeginIf ==
  /\ AtOperand /\ Room("if")
  /\ Add(Plain("if"))
  /\ OpenContext
  /\ stack' = Append(stack, Entry("if-cond"))
  /\ ph' = "operand"
  /\ UNCHANGED found

\* `{` after the condition, opening the body.
BeginThen ==
  /\ Finished /\ TopOp = "if-cond"
  /\ Add(Plain("then"))
  /\ Become("if-then-body")
  /\ ph' = "statement"
  /\ UNCHANGED << ctxs, here, found >>

\* `{ }` after the condition: the body is a null node, and no `else` may follow.
EmptyThen ==
  /\ Finished /\ TopOp = "if-cond"
  /\ ast' = ast \o << Plain("then"), Plain("end") >>
  /\ CloseContext
  /\ Pop
  /\ ph' = "closed"
  /\ UNCHANGED found

\* `} else {`: the context of the first body ends, one for the second is created.
BeginElse ==
  /\ Finished /\ TopOp = "if-then-body" /\ Room("else")
  /\ Add(Plain("else"))
  /\ ctxs' = NewContext(ctxs, Parent(here)) /\ here' = Len(ctxs) + 1
  /\ Become("if-else-body")
  /\ ph' = "statement"
  /\ UNCHANGED found

\* Seeded fault: `}` leaves *context where it is.
EndBlockKeepsContext ==
  /\ Finished /\ TopOp \in BodyOps
  /\ Add(Plain("end"))
  /\ Pop
  /\ ph' = "closed"
  /\ UNCHANGED << ctxs, here, found >>

\* `}` of a condition without `else`, of an `else` or of a lambda.
EndBlock ==
  /\ Finished /\ TopOp \in BodyOps
  /\ Add(Plain("end"))
  /\ CloseContext
  /\ Pop
  /\ ph' = "closed"
  /\ UNCHANGED found

-----------------------------------------------------------------------------
(* Lambdas. *)

\* `type : ( ) {`, with a body that is not empty.
BeginPlainLambda ==
  /\ AtOperand /\ Room("func")
  /\ OpenContext
  /\ ast' = ast \o << Plain("func"), Item("body", "", here', Meaning(Fun0, 0)) >>
  /\ stack' = Append(stack, Entry("lambda_body"))
  /\ ph' = "statement"
  /\ UNCHANGED found

\* `type : ( ) { }`: the loop of parse_tokens ends at once, whatever is open.
\* The parsing stack is lost with it, *context stays, and the lambda has no body.
EmptyLambda ==
  /\ AtOperand /\ Room("func")
  /\ ast' = ast \o << Plain("func"), Plain("nobody") >>
  /\ stack' = << >>
  /\ ph' = "closed"
  /\ UNCHANGED << ctxs, here, found >>

\* `type : (`: the context is created before the parameters are parsed.
BeginLambda ==
  /\ AtOperand /\ Room("func")
  /\ Add(Plain("func"))
  /\ OpenContext
  /\ stack' = Append(stack, Entry("lambda_params"))
  /\ ph' = "param"
  /\ UNCHANGED found

\* A parameter: a declaration in the context of the lambda.  Every function
\* modelled has at most one, so `)` and `{` follow.
ParseParam ==
  \E x \in Names :
    /\ ph = "param"
    /\ Declared(x, IntType)
    /\ Add(Item("param", x, here, NewMeaning(IntType)))
    /\ ph' = "closed"
    /\ UNCHANGED << here, stack, found >>

\* The body of a lambda with parameters.
BeginLambdaBody ==
  /\ ph = "closed" /\ TopOp = "lambda_params"
  /\ Add(Item("body", "", here, Meaning(Fun1, 0)))
  /\ Become("lambda_body")
  /\ ph' = "statement"
  /\ UNCHANGED << ctxs, here, found >>

\* `}` at once: this lambda has no body either, but its context and its entry go.
EmptyLambdaBody ==
  /\ ph = "closed" /\ TopOp = "lambda_params"
  /\ Add(Plain("nobody"))
  /\ CloseContext
  /\ Pop
  /\ ph' = "closed"
  /\ UNCHANGED found

-----------------------------------------------------------------------------
(* What may follow an operand. *)

\* parse_binary_infix_op.
ParseInfix ==
  /\ ph = "after" /\ Room("op")
  /\ Add(Plain("op"))
  /\ ph' = "operand"
  /\ UNCHANGED << ctxs, here, stack, found >>

\* Another argument of a call.
NextArg ==
  /\ Finished /\ TopOp = "func_call" /\ Room("arg")
  /\ Add(Plain("arg"))
  /\ ph' = "operand"
  /\ UNCHANGED << ctxs, here, stack, found >>

\* Seeded fault: `)` gives back a context, as the other closings do.
EndCallClosesContext ==
  /\ Finished /\ TopOp = "func_call"
  /\ LET call == ast[Top.from] IN Add(Item("ret", call.x, call.at, call.means))
  /\ CloseContext
  /\ Pop
  /\ ph' = "after"
  /\ UNCHANGED found

\* `)`: an operator may follow the call.
EndCall ==
  /\ Finished /\ TopOp = "func_call"
  /\ LET call == ast[Top.from] IN Add(Item("ret", call.x, call.at, call.means))
  /\ Pop
  /\ ph' = "after"
  /\ UNCHANGED << ctxs, here, found >>

\* Neither `}` nor an operator follows: the next statement of the body begins,
\* or the next one of the program (lex_and_parse).
NextStatement ==
  /\ Finished /\ TopOp \in BodyOps \cup {"none"} /\ Room("next")
  /\ Add(Plain("next"))
  /\ ph' = "statement"
  /\ UNCHANGED << ctxs, here, stack, found >>

\* The file ends where the program is complete.
EndOfFile ==
  /\ Finished /\ stack = << >>
  /\ ph' = "parsed"
  /\ UNCHANGED << ctxs, here, ast, stack, found >>

\* The file ends with something open: the node being parsed stays a null node,
\* and what is open stays as it is.  The listing closes it; an if or a lambda
\* whose body was not reached has none.
Closing(entry) ==
  CASE entry.op \in BodyOps    -> Plain("end")
    [] entry.op = "func_call"  -> LET call == ast[entry.from]
                                  IN  Item("ret", call.x, call.at, call.means)
    [] OTHER                   -> Plain("nobody")

EndOfFileInside ==
  /\ \/ ph \in {"operand", "target", "prefixed", "param"}
     \/ ph = "statement" /\ stack # << >>
  /\ ast' = ast \o (IF ph = "param" THEN << >> ELSE << Plain("null") >>)
                \o [i \in DOMAIN stack |-> Closing(stack[Len(stack) + 1 - i])]
  /\ ph' = "parsed"
  /\ UNCHANGED << ctxs, here, stack, found >>

-----------------------------------------------------------------------------
ParserInit ==
  /\ ctxs = DefaultContext
  /\ here = Global
  /\ ast = << >>
  /\ stack = << >>
  /\ ph = "statement"
  /\ found = Undeclared

ParserNext ==
  \/ ParseInt \/ ParsePrefix \/ ParseVar \/ ParseAssign \/ BeginCall \/ ParseEmptyCall
  \/ Declare
  \/ BeginIf \/ BeginThen \/ EmptyThen \/ BeginElse \/ EndBlock
  \/ BeginPlainLambda \/ EmptyLambda \/ BeginLambda \/ ParseParam \/ BeginLambdaBody \/ EmptyLambdaBody
  \/ ParseInfix \/ NextArg \/ EndCall \/ NextStatement
  \/ EndOfFile \/ EndOfFileInside

ParserSpec == ParserInit /\ [][ParserNext]_parserVars

-----------------------------------------------------------------------------
(***************************************************************************)
(* What nested scopes promise, with the contexts on the chain of *context  *)
(* as the open scopes.  Every lookup of the parser finds the innermost     *)
(* enclosing declaration, and a block leaves the scopes around it as they  *)
(* were: parser.c:692-707 and stack_operator_continue.                     *)
(***************************************************************************)
NamesOf(env) == {env[i].id : i \in DOMAIN env}

ScopeOf(c) == [x \in NamesOf(Vars(c)) |-> GetEnv(Vars(c), x)]

OpenScopes == [i \in DOMAIN Chain(here) |-> ScopeOf(Chain(here)[i])]

Meanings == [ty : Types, d : 0 .. MaxItems + 1]

Table == INSTANCE ScopeTable WITH scopes <- OpenScopes, Nothing <- Undeclared

ScopesAreATable == Table!Spec

(***************************************************************************)
(* *context is as deep as the entries of the parsing stack that opened a   *)
(* context, so that whatever is closed, by whichever of the branches of    *)
(* stack_operator_continue, gives back the context its entry was pushed    *)
(* in; in particular the type checker is given the global context.  A      *)
(* lambda `( ) { }` is where the stack is lost (parser.c:762).             *)
(***************************************************************************)
BlockEntries == {i \in DOMAIN stack : stack[i].op \in BlockOps}

\* A `( ) { }`.
Unstacked == \E i \in 1 .. Len(ast) - 1 : ast[i].k = "func" /\ ast[i + 1].k = "nobody"

StackMatchesContext == ph # "rejected" /\ ~Unstacked => Depth = 1 + Cardinality(BlockEntries)
=============================================================================
