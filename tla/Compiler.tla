------------------------------ MODULE Compiler ------------------------------
(***************************************************************************)
(* The three passes as main.c runs them: lex_and_parse, type_check_prog on *)
(* what it leaves, target_codegen on what that accepts.  Each pass walks   *)
(* the scopes of the program in its own way; this module is about their    *)
(* agreement.                                                              *)
(***************************************************************************)
EXTENDS BlockParser, TypeChecker, ScopedGen

vars == << parserVars, checkerVars, genVars >>

Parse    == ParserNext /\ UNCHANGED << checkerVars, genVars >>
Check    == ph = "parsed" /\ CheckerNext /\ UNCHANGED << parserVars, genVars >>
Generate == verdict = "accepted" /\ GenNextStep /\ UNCHANGED << parserVars, checkerVars >>

\* print_error exits; so does a dereferenced NULL.
Ended == ph = "rejected" \/ verdict \in {"type_error", "crashed"} \/ failed \/ Generated

Stopped == Ended /\ UNCHANGED vars

Init == ParserInit /\ CheckerInit /\ GenInit
Next == Parse \/ Check \/ Generate \/ Stopped

\* One sequential process: it goes on while it can.
Spec == Init /\ [][Next]_vars /\ WF_vars(Next)

-----------------------------------------------------------------------------
TypeOK ==
  /\ \A c \in DOMAIN ctxs : /\ ctxs[c].chain \in Seq(DOMAIN ctxs)
                            /\ ctxs[c].kids \in Seq(DOMAIN ctxs)
  /\ here \in DOMAIN ctxs
  /\ \A i \in DOMAIN ast : ast[i].k \in ItemKinds /\ ast[i].at \in DOMAIN ctxs
  /\ \A i \in DOMAIN stack : stack[i].op \in StackOps
  /\ ph \in Phases /\ verdict \in Verdicts /\ failed \in BOOLEAN
  /\ cpos \in 0 .. Len(ast) + 1 /\ gpos \in 0 .. Len(ast) + 2

-----------------------------------------------------------------------------
(***************************************************************************)
(* Properties of the program, read off the AST, that the passes behind the *)
(* parser rely on without asking.                                          *)
(***************************************************************************)
Declarations == {i \in DOMAIN ast : ast[i].k \in {"decl", "param"}}
Uses         == {i \in DOMAIN ast : ast[i].k \in {"use", "set", "call"}}

Around(c, d) == \E i \in DOMAIN Chain(d) : Chain(d)[i] = c
Nested(c, d) == Around(c, d) \/ Around(d, c)

\* The innermost function around a context; the global context if there is none.
FunctionContexts == {ast[i].at : i \in {j \in DOMAIN ast : ast[j].k = "body"}}

FunctionOf(c) ==
  LET fs == {i \in DOMAIN Chain(c) : Chain(c)[i] \in FunctionContexts}
  IN  IF fs = {} THEN Global ELSE Chain(c)[CHOOSE i \in fs : \A j \in fs : j <= i]

\* Nothing is open at the end of the file, and every if and lambda has a body.
Complete == stack = << >> /\ \A i \in DOMAIN ast : ast[i].k # "nobody"

\* No condition and no lambda stands in the condition of an if.
NoBlockInCondition ==
  \A i, j \in DOMAIN ast : i < j /\ ast[j].k = "then" /\ ast[i].at = ast[j].at => ast[i].k \notin {"if", "func"}

\* No name is declared in a scope after it was used there with another meaning.
NoLateDeclaration ==
  \A i \in Uses, j \in Declarations : i < j /\ ast[i].x = ast[j].x => ~Around(ast[j].at, ast[i].at)

\* A name has one declaration in a function and the scopes around it.
NoShadowing ==
  \A i, j \in Declarations :
    i # j /\ ast[i].x = ast[j].x =>
      FunctionOf(ast[i].at) # FunctionOf(ast[j].at) /\ ~Nested(ast[i].at, ast[j].at)

\* A function uses its own variables and global ones.
NoCapture ==
  \A i \in Uses : FunctionOf(ast[ast[i].means.d].at) \in {Global, FunctionOf(ast[i].at)}

\* Outside functions, conditions declare nothing.
NoBlockLocals ==
  \A i \in Declarations : FunctionOf(ast[i].at) = Global => ast[i].at = Global

\* No array is declared with a pointer level.
NoPointerArrays ==
  \A i \in Declarations : ast[i].means.ty.sym = "array" => ast[i].means.ty.ptr = 0

-----------------------------------------------------------------------------
(***************************************************************************)
(* type_check.c: the child contexts are taken out of the tree in the order *)
(* in which the parser created them, so that every statement list is       *)
(* checked in the context it was parsed in, no context is left over and    *)
(* none is missing.                                                        *)
(***************************************************************************)
Boundary == {"next", "else", "end"}

CheckedInOwnContext ==
  Complete /\ NoBlockInCondition =>
    /\ verdict # "crashed"
    /\ Checking /\ ast[cpos].k \in Boundary => Scope = ast[cpos].at
    /\ Checking /\ ast[cpos].k \in Boundary \ {"next"} => Last(levels).next = NULL

(***************************************************************************)
(* The same of the code generator.                                         *)
(***************************************************************************)
GeneratedInOwnContext ==
  Complete /\ NoBlockInCondition /\ gpos \in DOMAIN ast =>
    /\ ast[gpos].k \in Boundary => Here.ctx = ast[gpos].at
    /\ ast[gpos].k \in Boundary \ {"next"} => Here.next = NULL

(***************************************************************************)
(* Whatever name the type checker is about to look up, in the environments *)
(* of the whole program, it finds the declaration that the parser found    *)
(* when only a part of the program was declared.                           *)
(***************************************************************************)
CheckedAsParsed ==
  Complete /\ NoBlockInCondition /\ NoLateDeclaration /\ Checking /\ cpos \in Uses =>
    Visible(Scope, ast[cpos].x) /\ GetVar(Scope, ast[cpos].x) = ast[cpos].means

(***************************************************************************)
(* A program that type_check_prog accepts calls functions only, with as    *)
(* many arguments as they have parameters; it indexes arrays only, within  *)
(* their length, and reads through pointers only; operators and parameters *)
(* get ints, and a variable or an element what its type says.              *)
(***************************************************************************)
PrefixKinds == {"addr", "deref", "index"}
PrefixesOf(i) == {j \in 1 .. i - 1 : \A m \in j .. i - 1 : ast[m].k \in PrefixKinds}

\* What a name stands for, its prefixes included.
ValueType(i) ==
  LET levels_of(k) == Cardinality({j \in PrefixesOf(i) : ast[j].k = k})
      T == IF Indexed(i) THEN IntType ELSE ast[i].means.ty
  IN  [T EXCEPT !.ptr = @ + levels_of("addr") - levels_of("deref")]

\* The operand that begins behind the item at i.
Behind(i) == CHOOSE j \in i + 1 .. Len(ast) :
               /\ ast[j].k \notin PrefixKinds
               /\ \A m \in i + 1 .. j - 1 : ast[m].k \in PrefixKinds

CallsAreWellTyped ==
  \A i \in DOMAIN ast :
    ast[i].k = "call" => \/ ast[i].means.ty = Fun0 /\ ast[i + 1].k = "ret"
                         \/ ast[i].means.ty = Fun1 /\ ast[i + 1].k # "ret"

PrefixesAreWellTyped ==
  \A i \in Uses : ast[i].k # "call" =>
    /\ ValueType(i).ptr >= 0
    /\ Indexed(i) => ast[i].means.ty.sym = "array" /\ Prefix(i).x < ArrayLen

OperandsAreInts ==
  \A i \in DOMAIN ast :
    /\ ast[i].k \in {"op", "call"} /\ ast[Behind(i)].k = "use" => ValueType(Behind(i)) = IntType
    /\ ast[i].k \in {"op", "ret"} /\ ast[i - 1].k = "use" => ValueType(i - 1) = IntType

\* Assignments of a name or a literal alone.
AssignmentsAreWellTyped ==
  \A i \in DOMAIN ast :
    ast[i].k = "set" /\ (Behind(i) = Len(ast) \/ ast[Behind(i) + 1].k \in Boundary) =>
      /\ ast[Behind(i)].k = "use" => ValueType(i) = ValueType(Behind(i))
      /\ ast[Behind(i)].k = "int" => ValueType(i) = IntType

AcceptedIsWellTyped ==
  verdict = "accepted" /\ NoLateDeclaration =>
    CallsAreWellTyped /\ PrefixesAreWellTyped /\ OperandsAreInts /\ AssignmentsAreWellTyped

(***************************************************************************)
(* parser.h:83-84, "This enables scoped access to variables.": two         *)
(* variables that can be alive at the same time are not found in the same  *)
(* place, whatever they are called.  The code generator finds variables by *)
(* name, in local_env and local_offset (code_gen.c:136, 154-187).          *)
(***************************************************************************)
\* The word read or written.
Word(p) == [p.cell EXCEPT !.offset = @ + p.disp]

ScopedAccess ==
  \A p, q \in cells : p.d # q.d /\ Nested(ast[p.d].at, ast[q.d].at) => Word(p) # Word(q)

(***************************************************************************)
(* Unless a name is declared again where it is visible, a variable of an   *)
(* enclosing function is used, a condition outside functions declares      *)
(* something or an array has a pointer level, a variable is found in the   *)
(* same cell at every use of it, its elements are in the storage reserved  *)
(* for it, and no other variable is found there: the sizes and offsets of  *)
(* TYPE_VAR_DECLARATION, target_codegen_func and target_codegen_prog agree *)
(* with the four ways of looking a variable up.                            *)
(***************************************************************************)
OneCell  == \A p, q \in cells : p.d = q.d => p.cell = q.cell
Reserved == \A p \in cells : /\ p.cell.func = 0 => IsBound(Vars(Global), p.x)
                             /\ p.disp + WordSize <= SizeOf(ast[p.d].means.ty)

VariablesKeepTheirCells ==
  NoShadowing /\ NoCapture /\ NoBlockLocals /\ NoPointerArrays =>
    OneCell /\ Reserved /\ ScopedAccess

(***************************************************************************)
(* The labels of the conditions and functions that are still open are      *)
(* printed when they end (code_gen.c:452-512, 673): as long as not too     *)
(* many others were generated since, they still read as they were.         *)
(***************************************************************************)
HeldLabelsIntact ==
  \A i \in DOMAIN glevels : \A j \in DOMAIN glevels[i].labels :
    Recent(ring, glevels[i].labels[j]) => Intact(ring, glevels[i].labels[j])

(***************************************************************************)
(* The compiler comes to an end with every program.                        *)
(***************************************************************************)
Termination == <>Ended

(***************************************************************************)
(* Every scope of a complete program is generated in the end, unless the   *)
(* program is refused on the way: no body is left out, although nothing in *)
(* the AST says which context belongs to it.  A context takes two items    *)
(* of the AST or more, so there are no others.                             *)
(***************************************************************************)
Refused == Ended /\ ~Generated

EveryScopeGenerated ==
  \A c \in 2 .. (MaxItems + 3) \div 2 :
    ph = "parsed" /\ gpos = 0 /\ Complete /\ NoBlockInCondition /\ c \in DOMAIN ctxs
      ~> Refused \/ \E i \in DOMAIN glevels : glevels[i].ctx = c
=============================================================================
