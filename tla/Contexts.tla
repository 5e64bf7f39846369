------------------------------ MODULE Contexts ------------------------------
(***************************************************************************)
(* The two structures the parser hands to the type checker and the code    *)
(* generator: the tree of parsing contexts, one for each scope of the      *)
(* program, and the AST.  Which context a block of the AST was parsed in   *)
(* is recorded nowhere: whoever walks the AST has to take the contexts out *)
(* of their tree in the order in which the parser put them there.          *)
(*                                                                         *)
(* The AST is kept as the preorder listing of its nodes, a block ending    *)
(* with an item of its own.  ExprParser shows that the tree of an          *)
(* expression has its words in the order they were read, so for scopes an  *)
(* expression is its operands in that order.                               *)
(***************************************************************************)
EXTENDS Env, FiniteSets

CONSTANTS
  Names,       \* names of variables
  Types,       \* types a variable is declared with
  ArrayLen,    \* how many elements arrays have
  Constructs,  \* the kinds of items that programs are made of
  MaxItems     \* bound: items of the AST from which on it only gets finished

VARIABLES
  ctxs,  \* the contexts created so far; context 1 is the global one
  here,  \* *context: the context being parsed in
  ast    \* the AST

(***************************************************************************)
(* A type: its symbol and its pointer_level.  "fun0" and "fun1" are        *)
(* functions of no and of one int, giving an int.  An array has ints; its  *)
(* length is no part of its type, cmp_type_sym does not compare it.        *)
(***************************************************************************)
Type(sym, ptr) == [sym |-> sym, ptr |-> ptr]

IntType == Type("int", 0)
Fun0   == Type("fun0", 0)
Fun1   == Type("fun1", 0)
NoType == Type("none", 0)   \* of a node of TYPE_NULL

AllTypes == [sym : {"int", "array"}, ptr : Nat] \cup {Fun0, Fun1}

ItemKinds == {"int", "use", "op", "addr", "deref", "index", "set", "decl", "param", "call", "arg", "ret",
              "if", "then", "else", "func", "body", "nobody", "end", "next", "null"}

ASSUME ContextsAssumption ==
  /\ Types \subseteq AllTypes /\ IntType \in Types
  /\ ArrayLen \in Nat \ {0}
  /\ Constructs \subseteq ItemKinds
  /\ MaxItems \in Nat

-----------------------------------------------------------------------------
(***************************************************************************)
(* A context: its chain of parents from the global context down to itself  *)
(* (the parent_ctx links), its children in order (child and the next_child *)
(* links of the children) and the variables declared in it.  A variable is *)
(* bound to a meaning: its type, and which declaration of the program it   *)
(* is (in the C code that is the identity of the type node).               *)
(***************************************************************************)
Global == 1
NULL   == 0

Context(chain) == [chain |-> chain, kids |-> << >>, vars |-> EmptyEnv]

Meaning(ty, d) == [ty |-> ty, d |-> d]
Undeclared     == Meaning(NoType, 0)

Chain(c) == ctxs[c].chain
Vars(c)  == ctxs[c].vars

\* create_default_parsing_context: the context the program starts in.
DefaultContext == << Context(<< Global >>) >>

\* Seeded fault (see README.md): a child is put before its siblings.
NewContextFirst(tree, parent) ==
  LET c == Len(tree) + 1
  IN  Append([tree EXCEPT ![parent].kids = << c >> \o @], Context(Append(tree[parent].chain, c)))

\* create_parsing_context and add_parsing_context_child: the new context, number
\* Len(tree) + 1, becomes the last child of its parent.
NewContext(tree, parent) ==
  LET c == Len(tree) + 1
  IN  Append([tree EXCEPT ![parent].kids = Append(@, c)], Context(Append(tree[parent].chain, c)))

\* (*context)->parent_ctx.
Parent(c) == IF c = Global THEN NULL ELSE Chain(c)[Len(Chain(c)) - 1]

\* context->child, and context->next_child.
FirstChild(c) == IF ctxs[c].kids = << >> THEN NULL ELSE Head(ctxs[c].kids)

NextChild(c) ==
  LET kids == ctxs[Parent(c)].kids
      i    == CHOOSE j \in DOMAIN kids : kids[j] = c
  IN  IF i = Len(kids) THEN NULL ELSE kids[i + 1]

(***************************************************************************)
(* parser_get_var, and the loops over temp_ctx in parse_tokens and in      *)
(* type_check_expr: the first context from c outwards that binds x.        *)
(***************************************************************************)
BoundIn(c, x) == {i \in DOMAIN Chain(c) : IsBound(Vars(Chain(c)[i]), x)}
Visible(c, x) == BoundIn(c, x) # {}

\* Seeded fault: the search begins at the global context.
GetVarOutermost(c, x) == GetEnv(Vars(Chain(c)[CHOOSE i \in BoundIn(c, x) : \A j \in BoundIn(c, x) : i <= j]), x)

GetVar(c, x) == GetEnv(Vars(Chain(c)[CHOOSE i \in BoundIn(c, x) : \A j \in BoundIn(c, x) : j <= i]), x)

-----------------------------------------------------------------------------
(***************************************************************************)
(* An item of the AST: the kind of its node, its name if it has one or the *)
(* index of an array, and two things that are not in the C node and that   *)
(* no code reads: the context it was parsed in and the meaning its name    *)
(* had there.                                                              *)
(***************************************************************************)
Item(k, x, c, m) == [k |-> k, x |-> x, at |-> c, means |-> m]

Plain(k) == Item(k, "", here, Undeclared)

Add(item) == ast' = Append(ast, item)

\* The bounds leave room to finish what is open, with any operand.
Room(k) == k \in Constructs /\ Len(ast) < MaxItems
=============================================================================
