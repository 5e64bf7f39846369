----------------------------- MODULE ExprParser -----------------------------
(***************************************************************************)
(* How parse_tokens of parser.c builds the AST of one expression           *)
(* statement.  There is no grammar: the parser keeps a pointer to the node *)
(* that the next operand will fill (running_expr), the precedence of the   *)
(* last operator (running_precedence, one for the whole statement) and a   *)
(* stack with one entry per open call, and a binary operator rearranges    *)
(* the tree built so far.                                                  *)
(*                                                                         *)
(* The tokens are not an input: each is chosen when the parser reads it.   *)
(* An iteration of the loop reads an operand (ph = "operand") and then     *)
(* looks at the token after it (ph = "variable" if `:=` may follow, else   *)
(* "after").                                                               *)
(***************************************************************************)
EXTENDS Operators, Sequences

CONSTANTS
  Ops,        \* the operators of the statements considered
  MaxTokens   \* bound: tokens of the statement

ASSUME ExprParserAssumption == Ops \subseteq BinaryOps /\ MaxTokens \in Nat

VARIABLES
  heap,     \* the nodes allocated so far; node 1 is *curr_expr
  running,  \* running_expr
  prec,     \* running_precedence
  stack,    \* res of each ParsingStack entry of kind func_call, innermost last
  ph,       \* "operand", "variable", "after" or "done"
  toks      \* the tokens read so far

vars == << heap, running, prec, stack, ph, toks >>

-----------------------------------------------------------------------------
(***************************************************************************)
(* A node: its type, the token it was made from, its operator if it has    *)
(* one, and its children in order.  node_alloc gives a node of type NULL.  *)
(* The function called and its argument list node are left out: the        *)
(* children of a call are its arguments.                                   *)
(***************************************************************************)
Types == {"null", "atom", "prefix", "call", "assign", "binop"}

Node(t, tok, op, kids) == [t |-> t, tok |-> tok, op |-> op, kids |-> kids]
Hole                   == << "hole", 0 >>
NullNode               == Node("null", Hole, "none", << >>)

End(s)   == s[Len(s)]
Front(s) == SubSeq(s, 1, Len(s) - 1)

\* The nodes after the node n has become m and the nodes new were allocated.
Become(n, m, new) == heap' = [heap EXCEPT ![n] = m] \o new

\* Reading a token; tokens are told apart by their position.
Token(kind) == << kind, Len(toks) + 1 >>
Read(kind)  == Len(toks) < MaxTokens /\ toks' = Append(toks, Token(kind))

New == Len(heap) + 1   \* the next node node_alloc gives

OperandRead == ph \in {"variable", "after"}

-----------------------------------------------------------------------------
(* Operands. *)

\* An integer, or the access of a variable or of an array element.
ParseAtom ==
  /\ ph = "operand" /\ Read("atom")
  /\ Become(running, Node("atom", Token("atom"), "none", << >>), << >>)
  /\ ph' \in {"variable", "after"}
  /\ UNCHANGED << running, prec, stack >>

\* `@` and `&`: the node becomes the prefix, its operand is parsed next.
ParsePrefix ==
  /\ ph = "operand" /\ Read("prefix")
  /\ Become(running, Node("prefix", Token("prefix"), "none", << New >>), << NullNode >>)
  /\ running' = New
  /\ UNCHANGED << prec, stack, ph >>

\* A variable followed by `(`: its first argument is parsed next.
BeginCall ==
  /\ ph = "operand" /\ Read("call")
  /\ Become(running, Node("call", Token("call"), "none", << New >>), << NullNode >>)
  /\ running' = New
  /\ stack' = Append(stack, New)
  /\ UNCHANGED << prec, ph >>

\* A variable followed by `(` and `)`.
ParseEmptyCall ==
  /\ ph = "operand" /\ Read("call")
  /\ Become(running, Node("call", Token("call"), "none", << >>), << >>)
  /\ ph' = "after"
  /\ UNCHANGED << running, prec, stack >>

\* A delimiter, say `)` or `;`, where an operand should stand is skipped, and
\* running_expr stays empty: the operand is missing.
SkipDelimiter ==
  /\ ph = "operand" /\ Len(toks) < MaxTokens /\ toks' = Append(toks, Hole)
  /\ ph' = "after"
  /\ UNCHANGED << heap, running, prec, stack >>

-----------------------------------------------------------------------------
(***************************************************************************)
(* parse_binary_infix_op.  An operator that binds tighter than the last    *)
(* one takes the node running_expr as its left operand; any other takes    *)
(* everything: the whole statement, or the whole argument being parsed.    *)
(* copy_node copies the left operand into a fresh node, and the node it    *)
(* stood in becomes the operator.                                          *)
(***************************************************************************)
Whole == IF stack = << >> THEN 1 ELSE End(stack)

\* Seeded faults (see README.md): equal precedence nests to the right; inside a
\* call the operator takes the whole statement.
LeftOperandStrict(op) == IF Precedence[op] < prec THEN Whole ELSE running
LeftOperandOuter(op)  == IF Precedence[op] <= prec THEN 1 ELSE running

LeftOperand(op) == IF Precedence[op] <= prec THEN Whole ELSE running

ParseInfix(op) ==
  /\ OperandRead /\ Read("op")
  /\ LET left == LeftOperand(op)
     IN  Become(left, Node("binop", Token("op"), op, << New, New + 1 >>),
                << heap[left], NullNode >>)
  /\ running' = New + 1
  /\ prec' = Precedence[op]
  /\ ph' = "operand"
  /\ UNCHANGED stack

(***************************************************************************)
(* stack_operator_continue for an open call, reached when no operator      *)
(* follows an operand.  After `)` the last argument becomes running_expr,  *)
(* and the token after it is looked at.  After `,`, and after anything     *)
(* else, the next argument is parsed: add it to the parent of the last.    *)
(***************************************************************************)
CloseCall ==
  /\ OperandRead /\ stack # << >>
  /\ running' = End(stack)
  /\ stack' = Front(stack)
  /\ ph' = "after"
  /\ UNCHANGED << heap, prec, toks >>

Parent(n) == CHOOSE p \in DOMAIN heap : \E i \in DOMAIN heap[p].kids : heap[p].kids[i] = n

NextArg ==
  /\ OperandRead /\ stack # << >>
  /\ LET call == Parent(End(stack))
     IN  Become(call, [heap[call] EXCEPT !.kids = Append(@, New)], << NullNode >>)
  /\ stack' = Append(Front(stack), New)
  /\ running' = New
  /\ ph' = "operand"
  /\ UNCHANGED << prec, toks >>

-----------------------------------------------------------------------------
\* `:=` after a variable: whatever was parsed so far, of the statement or of the
\* argument, becomes the left-hand side.
BeginAssign ==
  /\ ph = "variable" /\ Read("assign")
  /\ Become(Whole, Node("assign", Token("assign"), "none", << New, New + 1 >>),
            << heap[Whole], NullNode >>)
  /\ running' = New + 1
  /\ ph' = "operand"
  /\ UNCHANGED << prec, stack >>

\* No operator follows and no call is open.
EndStatement ==
  /\ OperandRead /\ stack = << >>
  /\ ph' = "done"
  /\ UNCHANGED << heap, running, prec, stack, toks >>

\* The file ends where an operand should stand: parse_tokens returns as well.
EndOfFile ==
  /\ ph = "operand" /\ ph' = "done"
  /\ UNCHANGED << heap, running, prec, stack, toks >>

Init ==
  /\ heap = << NullNode >> /\ running = 1 /\ prec = 0
  /\ stack = << >> /\ ph = "operand" /\ toks = << >>

Stopped == ph = "done" /\ UNCHANGED vars

Next ==
  \/ ParseAtom \/ ParsePrefix \/ BeginCall \/ ParseEmptyCall \/ SkipDelimiter
  \/ \E op \in Ops : ParseInfix(op)
  \/ CloseCall \/ NextArg \/ BeginAssign
  \/ EndStatement \/ EndOfFile
  \/ Stopped

Spec == Init /\ [][Next]_vars
-----------------------------------------------------------------------------
(* Properties. *)

IsBinop(n) == heap[n].t = "binop"

\* The words of the subtree of a node, from left to right.
Words ==
  LET words[n \in DOMAIN heap] ==
        LET node == heap[n]
            kids[i \in 0 .. Len(node.kids)] ==
              IF i = 0 THEN << >> ELSE kids[i - 1] \o words[node.kids[i]]
        IN  IF node.t \in {"binop", "assign"}
            THEN words[node.kids[1]] \o << node.tok >> \o words[node.kids[2]]
            ELSE << node.tok >> \o kids[Len(node.kids)]
  IN  words

\* However operators, calls and assignments rearrange it, the tree reads like the
\* statement: no token parsed is lost, doubled or moved past another, and operands
\* are missing exactly where a delimiter was skipped and, at the end, where the
\* parser expects the next operand or the file ended.
TokensInOrder ==
  \/ ph # "operand" /\ Words[1] = toks
  \/ ~OperandRead /\ Words[1] = Append(toks, Hole)

\* An operator that is the right operand of another binds strictly tighter, and
\* like one on the right of `:=` its own left operand is no operator.  This is
\* the shape of expressions that CodeGen generates code for.
RightOperandsBindTighter ==
  \A n \in DOMAIN heap : heap[n].t \in {"binop", "assign"} =>
    LET r == heap[n].kids[2]
    IN  IsBinop(r) => /\ IsBinop(n) => Precedence[heap[r].op] > Precedence[heap[n].op]
                      /\ ~IsBinop(heap[r].kids[1])

\* The nodes on the right edge of the tree, from node 1 down.
RightEdge ==
  LET Kids(n) == heap[n].kids
      edge[i \in 1 .. Len(heap)] ==
        IF i = 1 THEN << 1 >>
        ELSE IF Kids(End(edge[i - 1])) = << >> THEN edge[i - 1]
        ELSE Append(edge[i - 1], End(Kids(End(edge[i - 1]))))
  IN  edge[Len(heap)]

\* The open calls are nested in each other, and the node the parser works on in
\* the innermost one: all of them lie on the right edge of the tree, in order.
OpenCallsOnRightEdge ==
  LET edge     == RightEdge
      Depth(n) == CHOOSE i \in DOMAIN edge : edge[i] = n
      Nodes    == {edge[i] : i \in DOMAIN edge}
  IN  /\ running \in Nodes
      /\ \A i \in DOMAIN stack :
           /\ stack[i] \in Nodes /\ Depth(stack[i]) <= Depth(running)
           /\ \A j \in 1 .. i - 1 : Depth(stack[j]) < Depth(stack[i])

\* An operator never has an operator of lower precedence as its left operand.
LeftOperandsBindTighter ==
  \A n \in DOMAIN heap : IsBinop(n) =>
    LET l == heap[n].kids[1]
    IN  IsBinop(l) => Precedence[heap[l].op] >= Precedence[heap[n].op]
=============================================================================
