-------------------------- MODULE ExprParserProofs --------------------------
(***************************************************************************)
(* The expressions the parser builds, for statements of every length over  *)
(* every set of operators.                                                 *)
(*                                                                         *)
(* Their shape, RightOperandsBindTighter, is not inductive by itself.  An  *)
(* operator is put where running_expr, the statement or an argument stood, *)
(* so the proof needs to know what can stand above these nodes: nothing    *)
(* but a call above a statement or an argument (WholesInv), and above      *)
(* running_expr only an operator whose precedence running_precedence       *)
(* remembers (RunningInv).                                                 *)
(*                                                                         *)
(* Their words, TokensInOrder and OpenCallsOnRightEdge: the heap is a      *)
(* finite tree, whatever changes is on its right edge, and the place of    *)
(* the operand to come is the last word of every node of the edge (Order). *)
(* The words of all nodes and the edge are witnesses of the invariant.     *)
(* That they are what the recursive functions of ExprParser compute        *)
(* (ReadsOnce, EdgeIs) follows from the rank of a node, which is greater   *)
(* than those of its operands: a node that disagrees would be above one    *)
(* of a smaller rank that does.                                            *)
(***************************************************************************)
EXTENDS ExprParser, SequenceTheorems, WellFoundedInduction, TLAPS

Kinds  == {"hole", "atom", "prefix", "call", "assign", "op"}
Tokens == Kinds \X Nat
Nodes  == [t : Types, tok : Tokens, op : BinaryOps \cup {"none"}, kids : Seq(Nat)]

TypeInv ==
  /\ heap \in Seq(Nodes) /\ Len(heap) > 0
  /\ running \in 1 .. Len(heap)
  /\ prec \in Nat
  /\ stack \in Seq(1 .. Len(heap))
  /\ toks \in Seq(Tokens)
  /\ ph \in {"operand", "variable", "after", "done"}

(***************************************************************************)
(* The parts of the invariant, of any heap h, so that a lemma can speak of *)
(* the heap before a step and of the one after it.                         *)
(***************************************************************************)
Binop(h, n) == h[n].t = "binop"
Infix(h, n) == h[n].t = "binop" \/ h[n].t = "assign"
Left(h, n)  == h[n].kids[1]
Right(h, n) == h[n].kids[2]

\* The operands of an infix node are nodes.
KidsInv(h) ==
  \A n \in 1 .. Len(h) : Infix(h, n) =>
    /\ Len(h[n].kids) >= 2
    /\ Left(h, n) \in 1 .. Len(h) /\ Right(h, n) \in 1 .. Len(h)
    /\ Binop(h, n) => h[n].op \in BinaryOps

\* RightOperandsBindTighter of the heap h.
Tighter(h) ==
  \A n \in 1 .. Len(h) : Infix(h, n) /\ Binop(h, Right(h, n)) =>
    /\ Binop(h, n) => Precedence[h[Right(h, n)].op] > Precedence[h[n].op]
    /\ ~Binop(h, Left(h, Right(h, n)))

\* The node m is no operand of an infix node.
Top(h, m) == \A n \in 1 .. Len(h) : Infix(h, n) => Left(h, n) # m /\ Right(h, n) # m

\* The node m is no left operand, and the right operand only of `:=` or of an
\* operator of at most precedence p; then it is no operator itself.
Under(h, m, p) ==
  \A n \in 1 .. Len(h) : Infix(h, n) =>
    /\ Left(h, n) # m
    /\ Right(h, n) = m =>
         (Binop(h, n) => Precedence[h[n].op] <= p) /\ ~Binop(h, m)

WholesInv  == Top(heap, 1) /\ \A i \in 1 .. Len(stack) : Top(heap, stack[i])
RunningInv == /\ Under(heap, running, prec)
              /\ ph = "operand" => heap[running].t = "null"
ShapeInv   == TypeInv /\ KidsInv(heap) /\ Tighter(heap) /\ WholesInv /\ RunningInv

LEMMA PrecedenceFacts == \A op \in BinaryOps : Precedence[op] \in Nat
  BY DEF Precedence, BinaryOps

LEMMA ShapeImplies == ShapeInv => RightOperandsBindTighter
<1> SUFFICES ASSUME ShapeInv  PROVE RightOperandsBindTighter
  OBVIOUS
<1>1. DOMAIN heap = 1 .. Len(heap)
  BY DEF ShapeInv, TypeInv
<1> QED
  BY <1>1 DEF ShapeInv, RightOperandsBindTighter, Tighter, Infix, Binop, IsBinop, Left, Right

-----------------------------------------------------------------------------
(***************************************************************************)
(* Steps that leave the infix nodes alone: what is an infix node after the *)
(* step was one before, with the same operator and operands.               *)
(***************************************************************************)
SameInfix(h, g) ==
  \A n \in 1 .. Len(g) : Infix(g, n) =>
    /\ n \in 1 .. Len(h)
    /\ g[n].t = h[n].t /\ g[n].op = h[n].op
    /\ Len(g[n].kids) >= 2
    /\ Left(g, n) = Left(h, n) /\ Right(g, n) = Right(h, n)

LEMMA PlainStep ==
  ASSUME NEW h, NEW g, Len(h) \in Nat, Len(g) \in Nat, Len(g) >= Len(h),
         KidsInv(h), Tighter(h), SameInfix(h, g)
  PROVE  /\ KidsInv(g) /\ Tighter(g)
         /\ \A k : Top(h, k) => Top(g, k)
         /\ \A k \in Nat : k > Len(h) => Top(g, k)
<1>1. ASSUME NEW n \in 1 .. Len(g), Infix(g, n)
      PROVE  /\ n \in 1 .. Len(h) /\ Infix(h, n) /\ (Binop(g, n) <=> Binop(h, n))
             /\ g[n].op = h[n].op /\ Len(g[n].kids) >= 2
             /\ Left(g, n) = Left(h, n) /\ Right(g, n) = Right(h, n)
             /\ Left(g, n) \in 1 .. Len(h) /\ Right(g, n) \in 1 .. Len(h)
             /\ Binop(h, n) => h[n].op \in BinaryOps
  <2>1. n \in 1 .. Len(h) /\ Infix(h, n)
    BY <1>1 DEF SameInfix, Infix
  <2> QED
    BY <1>1, <2>1 DEF SameInfix, Binop, KidsInv
<1>2. \A n \in 1 .. Len(h) : n \in 1 .. Len(g)
  OBVIOUS
<1>3. KidsInv(g)
  BY <1>1, <1>2 DEF KidsInv
<1>4. \A n \in 1 .. Len(g) : Binop(g, n) => Infix(g, n) /\ Binop(h, n)
  BY <1>1 DEF Binop, Infix
<1>5. ASSUME NEW n \in 1 .. Len(g), Infix(g, n), Binop(g, Right(g, n))
      PROVE  /\ Binop(g, n) => Precedence[g[Right(g, n)].op] > Precedence[g[n].op]
             /\ ~Binop(g, Left(g, Right(g, n)))
  <2> DEFINE r == Right(h, n)
  <2>1. /\ n \in 1 .. Len(h) /\ Infix(h, n) /\ (Binop(g, n) <=> Binop(h, n))
        /\ g[n].op = h[n].op /\ Right(g, n) = r /\ r \in 1 .. Len(g)
    BY <1>1, <1>2, <1>5
  <2>2. Infix(g, r) /\ Binop(h, r) /\ g[r].op = h[r].op /\ Left(g, r) = Left(h, r)
        /\ Left(g, r) \in 1 .. Len(g)
    BY <1>1, <1>2, <1>4, <1>5, <2>1
  <2>3. /\ Binop(h, n) => Precedence[h[r].op] > Precedence[h[n].op]
        /\ ~Binop(h, Left(h, r))
    BY <2>1, <2>2 DEF Tighter
  <2> QED
    BY <1>4, <2>1, <2>2, <2>3
<1>6. Tighter(g)
  BY <1>5 DEF Tighter
<1>7. \A k : Top(h, k) => Top(g, k)
  BY <1>1 DEF Top
<1>8. \A k \in Nat : k > Len(h) => Top(g, k)
  BY <1>1 DEF Top
<1> QED
  BY <1>3, <1>6, <1>7, <1>8

\* A node that nothing stands above can be running_expr.
LEMMA TopUnder ==
  ASSUME NEW h, NEW m, NEW p, Top(h, m)
  PROVE  Under(h, m, p)
  BY DEF Top, Under

(***************************************************************************)
(* The step of an operator: the node x becomes an infix node, its operands *)
(* are the copy of what it was and a node with nothing in it yet.          *)
(***************************************************************************)
InfixAt(h, g, x, p) ==
  /\ Len(h) \in Nat /\ Len(g) = Len(h) + 2 /\ x \in 1 .. Len(h)
  /\ \A i \in 1 .. Len(h) : i # x => g[i] = h[i]
  /\ g[Len(h) + 1] = h[x] /\ ~Infix(g, Len(h) + 2)
  /\ Infix(g, x) /\ Left(g, x) = Len(h) + 1 /\ Right(g, x) = Len(h) + 2
  /\ Len(g[x].kids) >= 2
  /\ Binop(g, x) => g[x].op \in BinaryOps /\ Precedence[g[x].op] = p

\* What may stand above x: its right operand may, if the new operator binds
\* tighter and x is no operator so far.
Replaceable(h, x, op) ==
  \A n \in 1 .. Len(h) : Infix(h, n) =>
    /\ Left(h, n) # x
    /\ Right(h, n) = x => /\ Binop(h, n) => Precedence[op] > Precedence[h[n].op]
                          /\ ~Binop(h, x)

LEMMA InfixStep ==
  ASSUME NEW h, NEW g, NEW x, NEW p, KidsInv(h), Tighter(h), InfixAt(h, g, x, p),
         Top(h, x) \/ (Binop(g, x) /\ Replaceable(h, x, g[x].op))
  PROVE  /\ KidsInv(g) /\ Tighter(g)
         /\ \A k \in 1 .. Len(h) : Top(h, k) => Top(g, k)
         /\ Under(g, Len(h) + 2, p)
<1> USE DEF InfixAt
<1>1. \A n \in 1 .. Len(h) : Infix(h, n) =>
        /\ Left(h, n) # x
        /\ Right(h, n) = x => /\ Binop(h, n) => Precedence[g[x].op] > Precedence[h[n].op]
                              /\ ~Binop(h, x)
  BY DEF Top, Replaceable
<1> DEFINE L == Len(h)
           a == L + 1
           b == L + 2
\* An infix node is x, or what was one, moved to a if it was x.
<1>2. ASSUME NEW n \in 1 .. Len(g), Infix(g, n), n # x
      PROVE  \E m \in 1 .. L :
               /\ Infix(h, m) /\ g[n] = h[m]
               /\ (n = m /\ m # x) \/ (n = a /\ m = x)
  <2>1. n \in 1 .. L \/ n = a \/ n = b
    OBVIOUS
  <2>2. CASE n \in 1 .. L
    BY <1>2, <2>2 DEF Infix
  <2>3. CASE n = a
    BY <1>2, <2>3 DEF Infix
  <2> QED
    BY <1>2, <2>1, <2>2, <2>3
<1>3. KidsInv(g)
  <2> SUFFICES ASSUME NEW n \in 1 .. Len(g), Infix(g, n)
               PROVE  /\ Len(g[n].kids) >= 2
                      /\ Left(g, n) \in 1 .. Len(g) /\ Right(g, n) \in 1 .. Len(g)
                      /\ Binop(g, n) => g[n].op \in BinaryOps
    BY DEF KidsInv
  <2>1. CASE n = x
    BY <2>1
  <2>2. CASE n # x
    <3>1. PICK m \in 1 .. L : Infix(h, m) /\ g[n] = h[m]
      BY <1>2, <2>2
    <3>2. /\ Len(h[m].kids) >= 2 /\ (Binop(h, m) => h[m].op \in BinaryOps)
          /\ Left(h, m) \in 1 .. L /\ Right(h, m) \in 1 .. L
      BY <3>1 DEF KidsInv
    <3>3. Left(g, n) = Left(h, m) /\ Right(g, n) = Right(h, m) /\ g[n].op = h[m].op
      BY <3>1 DEF Left, Right
    <3>4. Binop(g, n) => Binop(h, m)
      BY <3>1 DEF Binop
    <3> QED
      BY <3>1, <3>2, <3>3, <3>4
  <2> QED
    BY <2>1, <2>2
<1>4. Tighter(g)
  <2> SUFFICES ASSUME NEW n \in 1 .. Len(g), Infix(g, n), Binop(g, Right(g, n))
               PROVE  /\ Binop(g, n) => Precedence[g[Right(g, n)].op] > Precedence[g[n].op]
                      /\ ~Binop(g, Left(g, Right(g, n)))
    BY DEF Tighter
  <2>1. n # x
    BY DEF Binop, Infix
  <2>2. PICK m \in 1 .. L : /\ Infix(h, m) /\ g[n] = h[m]
                            /\ (n = m /\ m # x) \/ (n = a /\ m = x)
    BY <1>2, <2>1
  <2> DEFINE r == Right(h, m)
  <2>3. Right(g, n) = r /\ r \in 1 .. L /\ (Binop(g, n) <=> Binop(h, m))
    BY <2>2 DEF Right, Binop, KidsInv
  <2>4. CASE r = x
    <3>1. ~Binop(h, x) /\ (Binop(h, m) => Precedence[g[x].op] > Precedence[h[m].op])
      BY <1>1, <2>2, <2>3, <2>4
    <3>2. ~Binop(g, a)
      BY <3>1 DEF Binop
    <3> QED
      BY <2>2, <2>3, <2>4, <3>1, <3>2
  <2>5. CASE r # x
    <3>1. g[r] = h[r] /\ Binop(h, r)
      BY <2>3, <2>5 DEF Binop
    <3>2. /\ Binop(h, m) => Precedence[h[r].op] > Precedence[h[m].op]
          /\ ~Binop(h, Left(h, r))
      BY <2>2, <3>1 DEF Tighter
    <3>3. Infix(h, r) /\ Left(g, r) = Left(h, r) /\ Left(h, r) \in 1 .. L
      BY <2>3, <3>1 DEF Infix, Binop, Left, KidsInv
    <3>4. Left(h, r) # x
      BY <1>1, <2>3, <3>3
    <3>5. ~Binop(g, Left(g, r))
      BY <3>2, <3>3, <3>4 DEF Binop
    <3> QED
      BY <2>2, <2>3, <3>1, <3>2, <3>5
  <2> QED
    BY <2>4, <2>5
<1>5. ASSUME NEW k \in 1 .. L, Top(h, k)
      PROVE  Top(g, k)
  <2> SUFFICES ASSUME NEW n \in 1 .. Len(g), Infix(g, n)
               PROVE  Left(g, n) # k /\ Right(g, n) # k
    BY DEF Top
  <2>1. CASE n = x
    BY <2>1
  <2>2. CASE n # x
    <3>1. PICK m \in 1 .. L : Infix(h, m) /\ g[n] = h[m]
      BY <1>2, <2>2
    <3> QED
      BY <1>5, <3>1 DEF Top, Left, Right
  <2> QED
    BY <2>1, <2>2
<1>6. Under(g, b, p)
  <2> SUFFICES ASSUME NEW n \in 1 .. Len(g), Infix(g, n)
               PROVE  /\ Left(g, n) # b
                      /\ Right(g, n) = b =>
                           (Binop(g, n) => Precedence[g[n].op] <= p) /\ ~Binop(g, b)
    BY DEF Under
  <2>1. CASE n = x
    BY <2>1, PrecedenceFacts DEF Infix, Binop
  <2>2. CASE n # x
    <3>1. PICK m \in 1 .. L : Infix(h, m) /\ g[n] = h[m]
      BY <1>2, <2>2
    <3>2. Left(h, m) \in 1 .. L /\ Right(h, m) \in 1 .. L
      BY <3>1 DEF KidsInv
    <3> QED
      BY <3>1, <3>2 DEF Left, Right
  <2> QED
    BY <2>1, <2>2
<1> QED
  BY <1>3, <1>4, <1>5, <1>6

-----------------------------------------------------------------------------
(* Sequences and nodes. *)

LEMMA ExceptFacts ==
  ASSUME NEW S, NEW s \in Seq(S), NEW n, NEW m, n \in 1 .. Len(s) => m \in S
  PROVE  LET h == [s EXCEPT ![n] = m]
         IN  /\ h \in Seq(S) /\ Len(h) = Len(s)
             /\ \A i \in 1 .. Len(s) : h[i] = IF i = n THEN m ELSE s[i]
<1>1. CASE n \in 1 .. Len(s)
  BY <1>1
<1>2. CASE n \notin 1 .. Len(s)
  <2>1. [s EXCEPT ![n] = m] = s
    BY <1>2
  <2> QED
    BY <1>2, <2>1
<1> QED
  BY <1>1, <1>2

\* One element changed and others appended.
LEMMA ExceptConcatFacts ==
  ASSUME NEW S, NEW s \in Seq(S), NEW n, NEW m, n \in 1 .. Len(s) => m \in S,
         NEW t \in Seq(S)
  PROVE  LET g == [s EXCEPT ![n] = m] \o t
         IN  /\ g \in Seq(S) /\ Len(g) = Len(s) + Len(t)
             /\ \A i \in 1 .. Len(s) : g[i] = IF i = n THEN m ELSE s[i]
             /\ \A i \in 1 .. Len(t) : g[Len(s) + i] = t[i]
<1> DEFINE h == [s EXCEPT ![n] = m]
<1>1. /\ h \in Seq(S) /\ Len(h) = Len(s)
      /\ \A i \in 1 .. Len(s) : h[i] = IF i = n THEN m ELSE s[i]
  BY ExceptFacts
<1> HIDE DEF h
<1>2. /\ h \o t \in Seq(S) /\ Len(h \o t) = Len(h) + Len(t)
      /\ \A i \in 1 .. Len(h) : (h \o t)[i] = h[i]
      /\ \A i \in 1 .. Len(t) : (h \o t)[Len(h) + i] = t[i]
  BY SMTT(20), <1>1
<1> QED
  BY <1>1, <1>2 DEF h

LEMMA ExceptTwoFacts ==
  ASSUME NEW S, NEW s \in Seq(S), NEW n, NEW m \in S, NEW a \in S, NEW b \in S
  PROVE  LET g == [s EXCEPT ![n] = m] \o << a, b >>
         IN  /\ g \in Seq(S) /\ Len(g) = Len(s) + 2
             /\ \A i \in 1 .. Len(s) : g[i] = IF i = n THEN m ELSE s[i]
             /\ g[Len(s) + 1] = a /\ g[Len(s) + 2] = b
<1> DEFINE t == << a, b >>
<1>1. t \in Seq(S) /\ Len(t) = 2 /\ t[1] = a /\ t[2] = b /\ 1 \in 1 .. 2 /\ 2 \in 1 .. 2
  OBVIOUS
<1> HIDE DEF t
<1> DEFINE g == [s EXCEPT ![n] = m] \o t
<1>2. /\ g \in Seq(S) /\ Len(g) = Len(s) + Len(t)
      /\ \A i \in 1 .. Len(s) : g[i] = IF i = n THEN m ELSE s[i]
      /\ \A i \in 1 .. Len(t) : g[Len(s) + i] = t[i]
  BY <1>1, ExceptConcatFacts
<1> QED
  BY <1>1, <1>2 DEF t

LEMMA FrontFacts ==
  ASSUME NEW S, NEW s \in Seq(S), s # << >>
  PROVE  /\ Len(s) > 0
         /\ Front(s) \in Seq(S) /\ Len(Front(s)) = Len(s) - 1
         /\ \A i \in 1 .. Len(s) - 1 : Front(s)[i] = s[i]
         /\ Len(s) \in 1 .. Len(s) /\ End(s) = s[Len(s)] /\ End(s) \in S
<1>1. Len(s) > 0
  OBVIOUS
<1> DEFINE n == Len(s) - 1
<1>2. n \in Nat /\ Len(s) = n + 1 /\ \A i \in 1 .. n : s[i] \in S
  BY <1>1
<1> HIDE DEF n
<1>3. /\ SubSeq(s, 1, n) \in Seq(S) /\ Len(SubSeq(s, 1, n)) = n
      /\ \A i \in 1 .. n : SubSeq(s, 1, n)[i] = s[i]
  BY <1>2
<1> QED
  BY <1>1, <1>3 DEF n, Front, End

LEMMA AppendFacts ==
  ASSUME NEW S, NEW s \in Seq(S), NEW e \in S
  PROVE  /\ Append(s, e) \in Seq(S) /\ Len(Append(s, e)) = Len(s) + 1
         /\ \A i \in 1 .. Len(s) : Append(s, e)[i] = s[i]
         /\ Append(s, e)[Len(s) + 1] = e
  OBVIOUS

\* Reading a token.
LEMMA ReadFacts ==
  ASSUME toks \in Seq(Tokens), NEW kind \in Kinds, Read(kind)
  PROVE  Token(kind) \in Tokens /\ toks' \in Seq(Tokens)
<1>1. Len(toks) + 1 \in Nat
  OBVIOUS
<1>2. Token(kind) \in Tokens
  BY <1>1 DEF Token, Tokens
<1>3. toks' = Append(toks, Token(kind))
  BY DEF Read
<1> HIDE DEF Tokens
<1>4. Append(toks, Token(kind)) \in Seq(Tokens)
  BY <1>2
<1> QED
  BY <1>2, <1>3, <1>4

LEMMA NodeFacts ==
  ASSUME NEW t \in Types, NEW tok \in Tokens, NEW op \in BinaryOps \cup {"none"},
         NEW kids \in Seq(Nat)
  PROVE  /\ Node(t, tok, op, kids) \in Nodes
         /\ Node(t, tok, op, kids).t = t
         /\ Node(t, tok, op, kids).op = op
         /\ Node(t, tok, op, kids).kids = kids
  BY DEF Node, Nodes

LEMMA NullFacts == NullNode \in Nodes /\ NullNode.t = "null"
<1>1. Hole \in Tokens
  BY DEF Hole, Tokens, Kinds
<1> HIDE DEF Tokens
<1>2. << >> \in Seq(Nat)
  OBVIOUS
<1> QED
  BY <1>1, <1>2 DEF NullNode, Node, Nodes, Types

-----------------------------------------------------------------------------
(* The actions. *)

\* An operand without operands of its own: ParseAtom and ParseEmptyCall.
LEMMA LeafStep ==
  ASSUME ShapeInv, NEW kind \in {"atom", "call"}, Read(kind),
         Become(running, Node(kind, Token(kind), "none", << >>), << >>),
         ph' \in {"variable", "after"}, UNCHANGED << running, prec, stack >>
  PROVE  ShapeInv'
<1> DEFINE m == Node(kind, Token(kind), "none", << >>)
<1>1. Token(kind) \in Tokens /\ toks' \in Seq(Tokens)
  BY ReadFacts DEF ShapeInv, TypeInv, Kinds
<1>2. m \in Nodes /\ m.t # "binop" /\ m.t # "assign"
  <2>1. << >> \in Seq(Nat)
    OBVIOUS
  <2> HIDE DEF Tokens
  <2> QED
    BY <1>1, <2>1 DEF Node, Nodes, Types
<1>3. /\ heap' = [heap EXCEPT ![running] = m] \o << >>
      /\ running' = running /\ prec' = prec /\ stack' = stack
      /\ ph' \in {"variable", "after"}
  BY DEF Become
<1> HIDE DEF m
<1>4. /\ heap' \in Seq(Nodes) /\ Len(heap') = Len(heap)
      /\ \A i \in 1 .. Len(heap) : heap'[i] = IF i = running THEN m ELSE heap[i]
  <2>1. heap \in Seq(Nodes) /\ << >> \in Seq(Nodes) /\ Len(<< >>) = 0 /\ Len(heap) \in Nat
    BY DEF ShapeInv, TypeInv
  <2> QED
    BY <1>2, <1>3, <2>1, ExceptConcatFacts
<1>5. /\ Len(heap) \in Nat /\ Len(heap') \in Nat /\ Len(heap') >= Len(heap)
      /\ running \in 1 .. Len(heap)
  BY <1>4 DEF ShapeInv, TypeInv
<1>6. SameInfix(heap, heap')
  BY <1>2, <1>4, <1>5 DEF SameInfix, Infix, Left, Right, ShapeInv, KidsInv
<1>7. /\ KidsInv(heap') /\ Tighter(heap')
      /\ \A k : Top(heap, k) => Top(heap', k)
  BY <1>5, <1>6, PlainStep DEF ShapeInv
<1>8. TypeInv'
  BY <1>1, <1>3, <1>4 DEF ShapeInv, TypeInv
<1>9. WholesInv'
  BY <1>3, <1>7 DEF ShapeInv, WholesInv
<1>10. RunningInv'
  <2>1. ~Binop(heap', running)
    BY <1>2, <1>4, <1>5 DEF Binop
  <2>2. Under(heap', running, prec)
    BY <1>5, <1>6, <2>1 DEF Under, SameInfix, Infix, Binop, ShapeInv, RunningInv
  <2> QED
    BY <1>3, <2>2 DEF RunningInv
<1> QED
  BY <1>7, <1>8, <1>9, <1>10 DEF ShapeInv

\* An operand with an operand of its own, which is parsed next: ParsePrefix and
\* BeginCall.
LEMMA InnerStep ==
  ASSUME ShapeInv, ph = "operand", NEW kind \in {"prefix", "call"}, Read(kind),
         Become(running, Node(kind, Token(kind), "none", << New >>), << NullNode >>),
         running' = New, stack' = stack \/ stack' = Append(stack, New),
         UNCHANGED << prec, ph >>
  PROVE  ShapeInv'
<1> DEFINE m == Node(kind, Token(kind), "none", << New >>)
<1>1. Token(kind) \in Tokens /\ toks' \in Seq(Tokens)
  BY ReadFacts DEF ShapeInv, TypeInv, Kinds
<1>2. m \in Nodes /\ m.t # "binop" /\ m.t # "assign"
  <2>1. << New >> \in Seq(Nat)
    BY DEF ShapeInv, TypeInv, New
  <2> HIDE DEF Tokens
  <2> QED
    BY <1>1, <2>1 DEF Node, Nodes, Types
<1>3. /\ heap' = [heap EXCEPT ![running] = m] \o << NullNode >>
      /\ running' = Len(heap) + 1 /\ prec' = prec /\ ph' = ph
      /\ stack' = stack \/ stack' = Append(stack, Len(heap) + 1)
  BY DEF Become, New
<1> HIDE DEF m
<1>4. /\ heap' \in Seq(Nodes) /\ Len(heap') = Len(heap) + 1
      /\ \A i \in 1 .. Len(heap) : heap'[i] = IF i = running THEN m ELSE heap[i]
      /\ heap'[Len(heap) + 1] = NullNode
  <2>1. heap \in Seq(Nodes) /\ << NullNode >> \in Seq(Nodes) /\ Len(<< NullNode >>) = 1
        /\ Len(heap) \in Nat /\ << NullNode >>[1] = NullNode
    BY NullFacts DEF ShapeInv, TypeInv
  <2> QED
    BY <1>2, <1>3, <2>1, ExceptConcatFacts
<1>5. /\ Len(heap) \in Nat /\ Len(heap') \in Nat /\ Len(heap') >= Len(heap)
      /\ running \in 1 .. Len(heap) /\ Len(heap) + 1 \in Nat
      /\ stack \in Seq(1 .. Len(heap)) /\ Len(stack) \in Nat
  BY <1>4 DEF ShapeInv, TypeInv
<1>6. SameInfix(heap, heap')
  <2>1. \A i \in 1 .. Len(heap') : i \in 1 .. Len(heap) \/ i = Len(heap) + 1
    BY SMTT(20), <1>4, <1>5
  <2>2. ~Infix(heap', Len(heap) + 1)
    BY <1>4, NullFacts DEF Infix
  <2>3. \A i \in 1 .. Len(heap) : Infix(heap', i) => heap'[i] = heap[i]
    BY <1>2, <1>4 DEF Infix
  <2> QED
    BY <2>1, <2>2, <2>3 DEF SameInfix, Infix, Left, Right, ShapeInv, KidsInv
<1>7. /\ KidsInv(heap') /\ Tighter(heap')
      /\ \A k : Top(heap, k) => Top(heap', k)
      /\ Top(heap', Len(heap) + 1)
  BY <1>5, <1>6, PlainStep DEF ShapeInv
<1>8. /\ stack' \in Seq(1 .. Len(heap'))
      /\ \A i \in 1 .. Len(stack') : \/ i \in 1 .. Len(stack) /\ stack'[i] = stack[i]
                                     \/ stack'[i] = Len(heap) + 1
  <2>1. stack \in Seq(1 .. Len(heap')) /\ Len(heap) + 1 \in 1 .. Len(heap')
    <3>1. 1 .. Len(heap) \subseteq 1 .. Len(heap')
      BY <1>4, <1>5
    <3> QED
      BY <1>4, <1>5, <3>1
  <2>2. CASE stack' = stack
    BY <2>1, <2>2
  <2>3. CASE stack' = Append(stack, Len(heap) + 1)
    BY <2>1, <2>3, AppendFacts
  <2> QED
    BY <1>3, <2>2, <2>3
<1>9. TypeInv'
  BY <1>1, <1>3, <1>4, <1>5, <1>8 DEF ShapeInv, TypeInv
<1>10. WholesInv'
  BY <1>7, <1>8 DEF ShapeInv, WholesInv
<1>11. RunningInv'
  <2>1. Under(heap', running', prec')
    BY <1>3, <1>7, TopUnder
  <2> QED
    BY <1>3, <1>4, <2>1, NullFacts DEF RunningInv
<1> QED
  BY <1>7, <1>9, <1>10, <1>11 DEF ShapeInv

\* The stack without its last call.
LEMMA FrontStack ==
  ASSUME TypeInv, WholesInv, stack # << >>
  PROVE  /\ Front(stack) \in Seq(1 .. Len(heap)) /\ End(stack) \in 1 .. Len(heap)
         /\ Top(heap, End(stack))
         /\ \A i \in 1 .. Len(Front(stack)) : i \in 1 .. Len(stack) /\ Front(stack)[i] = stack[i]
<1>1. stack \in Seq(1 .. Len(heap))
  BY DEF TypeInv
<1>2. /\ Len(stack) > 0
      /\ Front(stack) \in Seq(1 .. Len(heap)) /\ Len(Front(stack)) = Len(stack) - 1
      /\ \A i \in 1 .. Len(stack) - 1 : Front(stack)[i] = stack[i]
      /\ Len(stack) \in 1 .. Len(stack) /\ End(stack) = stack[Len(stack)]
      /\ End(stack) \in 1 .. Len(heap)
  BY <1>1, FrontFacts
<1> QED
  BY <1>1, <1>2 DEF WholesInv

LEMMA CloseCallStep ==
  ASSUME ShapeInv, CloseCall
  PROVE  ShapeInv'
<1>1. /\ Front(stack) \in Seq(1 .. Len(heap)) /\ End(stack) \in 1 .. Len(heap)
      /\ Top(heap, End(stack))
      /\ \A i \in 1 .. Len(Front(stack)) : i \in 1 .. Len(stack) /\ Front(stack)[i] = stack[i]
  BY FrontStack DEF ShapeInv, CloseCall
<1>2. /\ heap' = heap /\ prec' = prec /\ ph' = "after" /\ toks' = toks
      /\ running' = End(stack) /\ stack' = Front(stack)
  BY DEF CloseCall
<1>3. TypeInv'
  BY <1>1, <1>2 DEF ShapeInv, TypeInv
<1>4. WholesInv'
  BY <1>1, <1>2 DEF ShapeInv, WholesInv
<1>5. Under(heap, End(stack), prec)
  BY <1>1, TopUnder
<1>6. RunningInv'
  BY <1>2, <1>5 DEF RunningInv
<1> QED
  BY <1>2, <1>3, <1>4, <1>6 DEF ShapeInv

\* The call that the argument is added to may be any node.
LEMMA NextArgStep ==
  ASSUME ShapeInv, NextArg
  PROVE  ShapeInv'
<1> DEFINE c == Parent(End(stack))
           m == [heap[c] EXCEPT !.kids = Append(@, Len(heap) + 1)]
<1>1. /\ Front(stack) \in Seq(1 .. Len(heap))
      /\ \A i \in 1 .. Len(Front(stack)) : i \in 1 .. Len(stack) /\ Front(stack)[i] = stack[i]
  BY FrontStack DEF ShapeInv, NextArg
<1>2. /\ heap' = [heap EXCEPT ![c] = m] \o << NullNode >>
      /\ running' = Len(heap) + 1 /\ prec' = prec /\ ph' = "operand" /\ toks' = toks
      /\ stack' = Append(Front(stack), Len(heap) + 1)
  BY DEF NextArg, Become, New
<1> HIDE DEF c
<1>3. heap \in Seq(Nodes) /\ Len(heap) \in Nat
  BY DEF ShapeInv, TypeInv
<1>4. ASSUME c \in 1 .. Len(heap)
      PROVE  /\ m \in Nodes /\ m.t = heap[c].t /\ m.op = heap[c].op
             /\ m.kids = Append(heap[c].kids, Len(heap) + 1)
             /\ heap[c].kids \in Seq(Nat)
  <2>1. heap[c] \in Nodes
    BY <1>3, <1>4
  <2>2. heap[c].kids \in Seq(Nat) /\ Append(heap[c].kids, Len(heap) + 1) \in Seq(Nat)
    BY <1>3, <2>1 DEF Nodes
  <2> QED
    BY <2>1, <2>2 DEF Nodes
<1> HIDE DEF m
<1>5. /\ heap' \in Seq(Nodes) /\ Len(heap') = Len(heap) + 1
      /\ \A i \in 1 .. Len(heap) : heap'[i] = IF i = c THEN m ELSE heap[i]
      /\ heap'[Len(heap) + 1] = NullNode
  <2>1. /\ << NullNode >> \in Seq(Nodes) /\ Len(<< NullNode >>) = 1
        /\ << NullNode >>[1] = NullNode /\ (c \in 1 .. Len(heap) => m \in Nodes)
    BY <1>4, NullFacts
  <2> QED
    BY <1>2, <1>3, <2>1, ExceptConcatFacts
<1>6. Len(heap') \in Nat /\ Len(heap') >= Len(heap) /\ Len(heap) + 1 \in Nat
  BY <1>3, <1>5
<1>7. SameInfix(heap, heap')
  <2> SUFFICES ASSUME NEW i \in 1 .. Len(heap'), Infix(heap', i)
               PROVE  /\ i \in 1 .. Len(heap)
                      /\ heap'[i].t = heap[i].t /\ heap'[i].op = heap[i].op
                      /\ Len(heap'[i].kids) >= 2
                      /\ Left(heap', i) = Left(heap, i) /\ Right(heap', i) = Right(heap, i)
    BY DEF SameInfix
  <2>1. i \in 1 .. Len(heap)
    BY <1>3, <1>5, NullFacts DEF Infix
  <2>2. CASE i = c
    <3>1. heap'[i] = m /\ m.t = heap[i].t /\ m.op = heap[i].op
          /\ m.kids = Append(heap[i].kids, Len(heap) + 1) /\ heap[i].kids \in Seq(Nat)
      BY <1>4, <1>5, <2>1, <2>2
    <3>2. Infix(heap, i)
      BY <3>1 DEF Infix
    <3>3. Len(heap[i].kids) >= 2
      BY <2>1, <3>2 DEF ShapeInv, KidsInv
    <3>4. /\ Len(m.kids) >= 2
          /\ m.kids[1] = heap[i].kids[1] /\ m.kids[2] = heap[i].kids[2]
      BY <1>3, <3>1, <3>3
    <3> QED
      BY <2>1, <3>1, <3>4 DEF Left, Right
  <2>3. CASE i # c
    BY <1>5, <2>1, <2>3 DEF Infix, Left, Right, ShapeInv, KidsInv
  <2> QED
    BY <2>2, <2>3
<1>8. /\ KidsInv(heap') /\ Tighter(heap')
      /\ \A k : Top(heap, k) => Top(heap', k)
      /\ Top(heap', Len(heap) + 1)
  BY <1>3, <1>6, <1>7, PlainStep DEF ShapeInv
<1>9. /\ stack' \in Seq(1 .. Len(heap'))
      /\ \A i \in 1 .. Len(stack') : \/ i \in 1 .. Len(stack) /\ stack'[i] = stack[i]
                                     \/ stack'[i] = Len(heap) + 1
  <2>1. Front(stack) \in Seq(1 .. Len(heap')) /\ Len(heap) + 1 \in 1 .. Len(heap')
    <3>1. 1 .. Len(heap) \subseteq 1 .. Len(heap')
      BY <1>3, <1>5
    <3> QED
      BY <1>1, <1>3, <1>5, <3>1
  <2> QED
    BY <1>1, <1>2, <2>1, AppendFacts
<1>10. TypeInv'
  BY <1>2, <1>3, <1>5, <1>9 DEF ShapeInv, TypeInv
<1>11. WholesInv'
  BY <1>8, <1>9 DEF ShapeInv, WholesInv
<1>12. RunningInv'
  <2>1. Under(heap', running', prec')
    BY <1>2, <1>8, TopUnder
  <2> QED
    BY <1>2, <1>5, <2>1, NullFacts DEF RunningInv
<1> QED
  BY <1>8, <1>10, <1>11, <1>12 DEF ShapeInv

\* An operator or `:=` takes the place of the node x; p is running_precedence
\* after it.
TakesPlace(x, t, tok, op, p) ==
  /\ x \in 1 .. Len(heap) /\ tok \in Tokens
  /\ Become(x, Node(t, tok, op, << New, New + 1 >>), << heap[x], NullNode >>)
  /\ \/ t = "binop" /\ op \in BinaryOps /\ p = Precedence[op]
     \/ t = "assign" /\ op = "none"
  /\ Top(heap, x) \/ (t = "binop" /\ Replaceable(heap, x, op))

LEMMA OperatorHeap ==
  ASSUME ShapeInv, NEW x, NEW t, NEW tok, NEW op, NEW p, TakesPlace(x, t, tok, op, p)
  PROVE  /\ heap' \in Seq(Nodes) /\ Len(heap') = Len(heap) + 2
         /\ heap'[Len(heap) + 2].t = "null"
         /\ KidsInv(heap') /\ Tighter(heap')
         /\ \A k \in 1 .. Len(heap) : Top(heap, k) => Top(heap', k)
         /\ Under(heap', Len(heap) + 2, p)
<1> USE DEF TakesPlace
<1> DEFINE m == Node(t, tok, op, << New, New + 1 >>)
<1>1. heap \in Seq(Nodes) /\ Len(heap) \in Nat
  BY DEF ShapeInv, TypeInv
<1>2. /\ m \in Nodes /\ m.t = t /\ m.op = op /\ m.kids = << New, New + 1 >>
  <2>1. << New, New + 1 >> \in Seq(Nat)
    BY <1>1 DEF New
  <2> HIDE DEF Tokens
  <2> QED
    BY <2>1 DEF Node, Nodes, Types
<1>3. heap' = [heap EXCEPT ![x] = m] \o << heap[x], NullNode >>
  BY DEF Become
<1> HIDE DEF m
<1>4. /\ m.kids[1] = Len(heap) + 1 /\ m.kids[2] = Len(heap) + 2 /\ Len(m.kids) >= 2
  BY <1>1, <1>2 DEF New
<1>5. /\ heap' \in Seq(Nodes) /\ Len(heap') = Len(heap) + 2
      /\ \A i \in 1 .. Len(heap) : heap'[i] = IF i = x THEN m ELSE heap[i]
      /\ heap'[Len(heap) + 1] = heap[x]
      /\ heap'[Len(heap) + 2] = NullNode
  <2>1. heap[x] \in Nodes /\ NullNode \in Nodes
    BY <1>1, NullFacts
  <2> QED
    BY <1>1, <1>2, <1>3, <2>1, ExceptTwoFacts
<1>6. heap'[x] = m /\ (Binop(heap', x) <=> t = "binop") /\ heap'[x].op = op
  BY <1>2, <1>5 DEF Binop
<1>7. InfixAt(heap, heap', x, p)
  BY <1>1, <1>2, <1>4, <1>5, <1>6, NullFacts DEF InfixAt, Infix, Left, Right
<1>8. Top(heap, x) \/ (Binop(heap', x) /\ Replaceable(heap, x, heap'[x].op))
  BY <1>6
<1>9. /\ KidsInv(heap') /\ Tighter(heap')
      /\ \A k \in 1 .. Len(heap) : Top(heap, k) => Top(heap', k)
      /\ Under(heap', Len(heap) + 2, p)
  BY <1>7, <1>8, InfixStep DEF ShapeInv
<1> QED
  BY <1>5, <1>9, NullFacts

\* The rest of the state after such a step.
LEMMA OperatorRest ==
  ASSUME ShapeInv, heap' \in Seq(Nodes), Len(heap') = Len(heap) + 2,
         heap'[Len(heap) + 2].t = "null", KidsInv(heap'), Tighter(heap'),
         \A k \in 1 .. Len(heap) : Top(heap, k) => Top(heap', k),
         Under(heap', Len(heap) + 2, prec'), prec' \in Nat,
         running' = Len(heap) + 2, ph' = "operand", stack' = stack, toks' \in Seq(Tokens)
  PROVE  ShapeInv'
<1>1. /\ Len(heap) \in Nat /\ Len(heap) > 0 /\ stack \in Seq(1 .. Len(heap))
  BY DEF ShapeInv, TypeInv
<1>2. stack' \in Seq(1 .. Len(heap'))
  <2>1. 1 .. Len(heap) \subseteq 1 .. Len(heap')
    BY <1>1
  <2> QED
    BY <1>1, <2>1
<1>3. TypeInv'
  BY <1>1, <1>2 DEF ShapeInv, TypeInv
<1>4. WholesInv'
  BY <1>1 DEF ShapeInv, WholesInv
<1>5. RunningInv'
  BY DEF RunningInv
<1> QED
  BY <1>3, <1>4, <1>5 DEF ShapeInv

\* The statement, or the argument being parsed.
LEMMA WholeFacts ==
  ASSUME ShapeInv
  PROVE  Whole \in 1 .. Len(heap) /\ Top(heap, Whole)
<1>1. CASE stack = << >>
  BY <1>1 DEF Whole, ShapeInv, TypeInv, WholesInv
<1>2. CASE stack # << >>
  <2>1. Whole = End(stack)
    BY <1>2 DEF Whole
  <2> QED
    BY <1>2, <2>1, FrontStack DEF ShapeInv
<1> QED
  BY <1>1, <1>2

LEMMA ParseInfixStep ==
  ASSUME ShapeInv, NEW op \in Ops, ParseInfix(op)
  PROVE  ShapeInv'
<1> DEFINE x == LeftOperand(op)
<1>1. op \in BinaryOps /\ Precedence[op] \in Nat
  BY ExprParserAssumption, PrecedenceFacts
<1>2. Token("op") \in Tokens /\ toks' \in Seq(Tokens)
  BY ReadFacts DEF ShapeInv, TypeInv, ParseInfix, Kinds
<1>3. /\ Become(x, Node("binop", Token("op"), op, << New, New + 1 >>),
                << heap[x], NullNode >>)
      /\ running' = Len(heap) + 2 /\ prec' = Precedence[op] /\ ph' = "operand"
      /\ stack' = stack
  BY DEF ParseInfix, New, ShapeInv, TypeInv
<1>4. x \in 1 .. Len(heap) /\ (Top(heap, x) \/ Replaceable(heap, x, op))
  <2>1. CASE Precedence[op] <= prec
    BY <2>1, WholeFacts DEF LeftOperand
  <2>2. CASE ~(Precedence[op] <= prec)
    <3>1. x = running /\ running \in 1 .. Len(heap) /\ prec \in Nat
      BY <2>2 DEF LeftOperand, ShapeInv, TypeInv
    <3> HIDE DEF x
    <3>2. \A n \in 1 .. Len(heap) : Infix(heap, n) /\ Binop(heap, n) =>
            Precedence[heap[n].op] \in Nat
      BY PrecedenceFacts DEF ShapeInv, KidsInv
    <3>3. Replaceable(heap, x, op)
      BY <1>1, <2>2, <3>1, <3>2 DEF Replaceable, Under, ShapeInv, RunningInv
    <3> QED
      BY <3>1, <3>3
  <2> QED
    BY <2>1, <2>2
<1> HIDE DEF x
<1>5. /\ heap' \in Seq(Nodes) /\ Len(heap') = Len(heap) + 2
      /\ heap'[Len(heap) + 2].t = "null" /\ KidsInv(heap') /\ Tighter(heap')
      /\ \A k \in 1 .. Len(heap) : Top(heap, k) => Top(heap', k)
      /\ Under(heap', Len(heap) + 2, Precedence[op])
  <2>1. TakesPlace(x, "binop", Token("op"), op, Precedence[op])
    BY <1>1, <1>2, <1>3, <1>4 DEF TakesPlace
  <2> QED
    BY <2>1, OperatorHeap
<1> QED
  BY <1>1, <1>2, <1>3, <1>5, OperatorRest

LEMMA BeginAssignStep ==
  ASSUME ShapeInv, BeginAssign
  PROVE  ShapeInv'
<1> DEFINE x == Whole
<1>1. Token("assign") \in Tokens /\ toks' \in Seq(Tokens)
  BY ReadFacts DEF ShapeInv, TypeInv, BeginAssign, Kinds
<1>2. /\ Become(x, Node("assign", Token("assign"), "none", << New, New + 1 >>),
                << heap[x], NullNode >>)
      /\ running' = Len(heap) + 2 /\ prec' = prec /\ ph' = "operand" /\ stack' = stack
  BY DEF BeginAssign, New, ShapeInv, TypeInv
<1>3. x \in 1 .. Len(heap) /\ prec \in Nat /\ Top(heap, x)
  BY WholeFacts DEF ShapeInv, TypeInv
<1> HIDE DEF x
<1>4. /\ heap' \in Seq(Nodes) /\ Len(heap') = Len(heap) + 2
      /\ heap'[Len(heap) + 2].t = "null" /\ KidsInv(heap') /\ Tighter(heap')
      /\ \A k \in 1 .. Len(heap) : Top(heap, k) => Top(heap', k)
      /\ Under(heap', Len(heap) + 2, prec)
  <2>1. TakesPlace(x, "assign", Token("assign"), "none", prec)
    BY <1>1, <1>2, <1>3 DEF TakesPlace
  <2> QED
    BY <2>1, OperatorHeap
<1> QED
  BY <1>1, <1>2, <1>3, <1>4, OperatorRest

-----------------------------------------------------------------------------
LEMMA ShapeInit ==
  ASSUME Init
  PROVE  ShapeInv
<1>1. /\ heap = << NullNode >> /\ running = 1 /\ prec = 0 /\ stack = << >>
      /\ ph = "operand" /\ toks = << >>
  BY DEF Init
<1>2. /\ heap \in Seq(Nodes) /\ Len(heap) = 1 /\ heap[1] = NullNode
  BY <1>1, NullFacts
<1>3. TypeInv
  BY <1>1, <1>2 DEF TypeInv
<1>4. \A n \in 1 .. Len(heap) : ~Infix(heap, n)
  BY <1>2, NullFacts DEF Infix
<1>5. KidsInv(heap) /\ Tighter(heap) /\ WholesInv /\ RunningInv
  BY <1>1, <1>2, <1>4, NullFacts DEF KidsInv, Tighter, WholesInv, Top, RunningInv, Under
<1> QED
  BY <1>3, <1>5 DEF ShapeInv

LEMMA ShapeStep ==
  ASSUME ShapeInv, [Next]_vars
  PROVE  ShapeInv'
<1>1. CASE ParseAtom
  BY <1>1, LeafStep DEF ParseAtom
<1>2. CASE ParseEmptyCall
  BY <1>2, LeafStep DEF ParseEmptyCall
<1>3. CASE ParsePrefix
  BY <1>3, InnerStep DEF ParsePrefix
<1>4. CASE BeginCall
  BY <1>4, InnerStep DEF BeginCall
<1>5. ASSUME NEW op \in Ops, ParseInfix(op)
      PROVE  ShapeInv'
  BY <1>5, ParseInfixStep
<1>6. CASE CloseCall
  BY <1>6, CloseCallStep
<1>7. CASE NextArg
  BY <1>7, NextArgStep
<1>8. CASE BeginAssign
  BY <1>8, BeginAssignStep
<1>9. ASSUME UNCHANGED << heap, running, prec, stack >>, toks' \in Seq(Tokens),
             ph' \in {"after", "done", ph}
      PROVE  ShapeInv'
  <2>1. TypeInv' /\ WholesInv' /\ RunningInv'
    BY <1>9 DEF ShapeInv, TypeInv, WholesInv, RunningInv
  <2> QED
    BY <1>9, <2>1 DEF ShapeInv
<1>10. CASE SkipDelimiter
  <2>1. Append(toks, Hole) \in Seq(Tokens)
    <3>1. Hole \in Tokens /\ toks \in Seq(Tokens)
      BY DEF Hole, Tokens, Kinds, ShapeInv, TypeInv
    <3> QED
      BY <3>1
  <2> QED
    BY <1>9, <1>10, <2>1 DEF SkipDelimiter
<1>11. CASE EndStatement \/ EndOfFile \/ Stopped \/ UNCHANGED vars
  BY <1>9, <1>11 DEF EndStatement, EndOfFile, Stopped, vars, ShapeInv, TypeInv
<1> QED
  BY <1>1, <1>2, <1>3, <1>4, <1>5, <1>6, <1>7, <1>8, <1>10, <1>11 DEF Next

\* In every tree the parser builds, after every token, the right operand of an
\* operator binds tighter than the operator and has no operator on its left:
\* parse_binary_infix_op never builds another shape.
THEOREM ShapeCorrect == Spec => []RightOperandsBindTighter
<1>1. Init => ShapeInv
  BY ShapeInit
<1>2. ShapeInv /\ [Next]_vars => ShapeInv'
  BY ShapeStep
<1>3. ShapeInv => RightOperandsBindTighter
  BY ShapeImplies
<1> QED
  BY <1>1, <1>2, <1>3, PTL DEF Spec

-----------------------------------------------------------------------------
(***************************************************************************)
(* The words of the tree.  Word is the body of the recursive function      *)
(* Words, Args that of the one inside it: the words of the nodes ks.       *)
(***************************************************************************)
Args(ks, w) ==
  LET kids[i \in 0 .. Len(ks)] == IF i = 0 THEN << >> ELSE kids[i - 1] \o w[ks[i]]
  IN  kids[Len(ks)]

Word(h, w, n) ==
  LET node == h[n]
  IN  IF node.t \in {"binop", "assign"}
      THEN w[node.kids[1]] \o << node.tok >> \o w[node.kids[2]]
      ELSE << node.tok >> \o Args(node.kids, w)

LEMMA WordsIsWord == Words = CHOOSE w : w = [n \in DOMAIN heap |-> Word(heap, w, n)]
  BY DEF Words, Word, Args

\* A set of numbers has a least element: induction, without an operator parameter.
LEMMA LeastElement ==
  ASSUME NEW S \in SUBSET Nat, S # {}
  PROVE  \E m \in S : \A k \in S : m <= k
<1>1. \E m \in S : \A k \in S : ~(<< k, m >> \in OpToRel(<, Nat))
  BY NatLessThanWellFounded, WFMin
<1>2. PICK m \in S : \A k \in S : ~(<< k, m >> \in OpToRel(<, Nat))
  BY <1>1
<1>3. \A k \in S : ~(k < m)
  BY <1>2 DEF OpToRel
<1>4. \A k \in S : k \in Nat
  OBVIOUS
<1> QED
  BY <1>3, <1>4

\* The words of the first arguments, by their number.
PartSums(f, ks, w, m) ==
  /\ f \in [0 .. m -> Seq(Tokens)]
  /\ f[0] = << >>
  /\ \A i \in 1 .. m : f[i] = f[i - 1] \o w[ks[i]]

Sums(f, ks, w) == PartSums(f, ks, w, Len(ks))

Readable(ks, w) == Len(ks) \in Nat /\ \A i \in 1 .. Len(ks) : w[ks[i]] \in Seq(Tokens)

LEMMA SumsGrow ==
  ASSUME NEW ks, NEW w, NEW m \in Nat, NEW g, PartSums(g, ks, w, m),
         w[ks[m + 1]] \in Seq(Tokens)
  PROVE  PartSums([i \in 0 .. m + 1 |-> IF i = m + 1 THEN g[m] \o w[ks[m + 1]] ELSE g[i]],
                  ks, w, m + 1)
<1> DEFINE last == g[m] \o w[ks[m + 1]]
           f == [i \in 0 .. m + 1 |-> IF i = m + 1 THEN last ELSE g[i]]
<1>1. g[m] \in Seq(Tokens)
  BY DEF PartSums
<1>2. last \in Seq(Tokens)
  BY <1>1
<1>3. \A i \in 0 .. m : f[i] = g[i]
  OBVIOUS
<1>4. f[m + 1] = f[m] \o w[ks[m + 1]]
  OBVIOUS
<1>5. \A i \in 1 .. m : i \in 0 .. m /\ i - 1 \in 0 .. m
  OBVIOUS
<1> HIDE DEF last
<1>6. f \in [0 .. m + 1 -> Seq(Tokens)]
  BY <1>2 DEF PartSums
<1> HIDE DEF f
<1>7. \A i \in 1 .. m : f[i] = f[i - 1] \o w[ks[i]]
  BY <1>3, <1>5 DEF PartSums
<1>8. \A i \in 1 .. m + 1 : i = m + 1 \/ i \in 1 .. m
  OBVIOUS
<1>9. f[0] = << >>
  BY <1>3 DEF PartSums
<1>10. \A i \in 1 .. m + 1 : f[i] = f[i - 1] \o w[ks[i]]
  <2> TAKE i \in 1 .. m + 1
  <2>1. CASE i = m + 1
    <3>1. i - 1 = m
      BY <2>1
    <3> QED
      BY <1>4, <2>1, <3>1
  <2>2. CASE i \in 1 .. m
    BY <1>7, <2>2
  <2> QED
    BY <1>8, <2>1, <2>2
<1>11. PartSums(f, ks, w, m + 1)
  BY <1>6, <1>9, <1>10 DEF PartSums
<1> QED
  BY <1>11 DEF f, last

LEMMA SumsExist ==
  ASSUME NEW ks, NEW w, Readable(ks, w)
  PROVE  \E f : Sums(f, ks, w)
<1> DEFINE Bad == {m \in 0 .. Len(ks) : ~\E f : PartSums(f, ks, w, m)}
<1>1. Bad = {}
  <2> SUFFICES ASSUME Bad # {} PROVE FALSE
    OBVIOUS
  <2>1. PICK m \in Bad : \A k \in Bad : m <= k
    <3>1. Bad \in SUBSET Nat
      BY DEF Readable
    <3> HIDE DEF Bad
    <3> QED
      BY <3>1, LeastElement
  <2>2. m \in 0 .. Len(ks) /\ ~\E f : PartSums(f, ks, w, m)
    OBVIOUS
  <2>3. m # 0
    <3> DEFINE f == [i \in 0 .. 0 |-> << >>]
    <3>1. f \in [0 .. 0 -> Seq(Tokens)] /\ f[0] = << >> /\ \A i \in 1 .. 0 : FALSE
      OBVIOUS
    <3> HIDE DEF f
    <3>2. PartSums(f, ks, w, 0)
      BY <3>1 DEF PartSums
    <3> QED
      BY <2>2, <3>2
  <2> DEFINE n == m - 1
  <2>4. n \in 0 .. Len(ks) /\ n \in Nat /\ n + 1 = m /\ m \in 1 .. Len(ks) /\ ~(m <= n)
    BY <2>2, <2>3 DEF Readable
  <2>5. PICK g : PartSums(g, ks, w, n)
    BY <2>1, <2>4
  <2>6. w[ks[n + 1]] \in Seq(Tokens)
    BY <2>4 DEF Readable
  <2> HIDE DEF n
  <2> QED
    BY <2>2, <2>4, <2>5, <2>6, SumsGrow
<1>2. Len(ks) \in 0 .. Len(ks)
  BY DEF Readable
<1> QED
  BY <1>1, <1>2 DEF Sums

\* Args is the last of them.
LEMMA ArgsIs ==
  ASSUME NEW ks, NEW w, Readable(ks, w), NEW f, Sums(f, ks, w)
  PROVE  Args(ks, w) = f[Len(ks)]
<1> DEFINE n == Len(ks)
           F(g) == [i \in 0 .. n |-> IF i = 0 THEN << >> ELSE g[i - 1] \o w[ks[i]]]
           a == CHOOSE g : g = F(g)
<1>1. Args(ks, w) = a[n]
  BY DEF Args
<1>2. f = F(f)
  <2>1. \A i \in 0 .. n : f[i] = IF i = 0 THEN << >> ELSE f[i - 1] \o w[ks[i]]
    BY DEF Sums, PartSums, Readable
  <2> QED
    BY <2>1 DEF Sums, PartSums
<1>3. a = F(a)
  BY <1>2
<1> HIDE DEF a
<1>4. \A i \in 0 .. n : a[i] = IF i = 0 THEN << >> ELSE a[i - 1] \o w[ks[i]]
  BY <1>3
<1> DEFINE Bad == {i \in 0 .. n : a[i] # f[i]}
<1>5. Bad = {}
  <2> SUFFICES ASSUME Bad # {} PROVE FALSE
    OBVIOUS
  <2>1. PICK m \in Bad : \A k \in Bad : m <= k
    <3>1. Bad \in SUBSET Nat
      BY DEF Readable
    <3> HIDE DEF Bad
    <3> QED
      BY <3>1, LeastElement
  <2>2. m \in 0 .. n /\ a[m] # f[m]
    OBVIOUS
  <2>3. m # 0
    BY <1>4, <2>2 DEF Sums, PartSums, Readable
  <2>4. m - 1 \in 0 .. n /\ m - 1 \notin Bad /\ m \in 1 .. n
    BY <2>1, <2>2, <2>3 DEF Readable
  <2> QED
    BY <1>4, <2>2, <2>3, <2>4 DEF Sums, PartSums
<1> QED
  BY <1>1, <1>5 DEF Readable

LEMMA ArgsSeq ==
  ASSUME NEW ks, NEW w, Readable(ks, w)
  PROVE  Args(ks, w) \in Seq(Tokens)
<1>1. PICK f : Sums(f, ks, w)
  BY SumsExist
<1>2. f[Len(ks)] \in Seq(Tokens)
  BY <1>1 DEF Sums, PartSums, Readable
<1>3. Args(ks, w) = f[Len(ks)]
  BY <1>1, ArgsIs
<1> QED
  BY <1>2, <1>3

LEMMA ArgsNone ==
  ASSUME NEW ks, NEW w, Len(ks) = 0
  PROVE  Args(ks, w) = << >>
<1>1. Readable(ks, w)
  BY DEF Readable
<1>2. PICK f : Sums(f, ks, w)
  BY <1>1, SumsExist
<1> QED
  BY <1>1, <1>2, ArgsIs DEF Sums, PartSums

\* All arguments but the last contribute a part of their own.
FirstArgs(A, m, ks, w) ==
  \A v, ls : /\ Len(ls) = m + 1
             /\ \A i \in 1 .. m : v[ls[i]] = w[ks[i]]
             /\ v[ls[m + 1]] \in Seq(Tokens)
             => Args(ls, v) = A \o v[ls[m + 1]]

LEMMA ArgsLast ==
  ASSUME NEW ks, NEW w, Readable(ks, w), NEW m \in Nat, Len(ks) \in m .. m + 1
  PROVE  \E A \in Seq(Tokens) : FirstArgs(A, m, ks, w) /\ (Len(ks) = m => Args(ks, w) = A)
<1>1. PICK f : Sums(f, ks, w)
  BY SumsExist
<1>2. f[m] \in Seq(Tokens) /\ Len(ks) \in Nat /\ \A i \in 0 .. m : i \in 0 .. Len(ks)
  BY <1>1 DEF Sums, PartSums
<1>3. Len(ks) = m => Args(ks, w) = f[m]
  BY <1>1, ArgsIs
<1>4. ASSUME NEW v, NEW ls, Len(ls) = m + 1, \A i \in 1 .. m : v[ls[i]] = w[ks[i]],
             v[ls[m + 1]] \in Seq(Tokens)
      PROVE  Args(ls, v) = f[m] \o v[ls[m + 1]]
  <2> DEFINE e == [i \in 0 .. m |-> f[i]]
             g == [i \in 0 .. m + 1 |-> IF i = m + 1 THEN e[m] \o v[ls[m + 1]] ELSE e[i]]
  <2>1. e \in [0 .. m -> Seq(Tokens)] /\ e[0] = << >> /\ e[m] = f[m]
    BY <1>1, <1>2 DEF Sums, PartSums
  <2>2. \A i \in 1 .. m : i \in 1 .. Len(ks) /\ i - 1 \in 0 .. m /\ i \in 0 .. m
    OBVIOUS
  <2>3. \A i \in 1 .. m : e[i] = e[i - 1] \o v[ls[i]]
    BY <1>1, <1>4, <2>2 DEF Sums, PartSums
  <2> HIDE DEF e
  <2>4. PartSums(e, ls, v, m)
    BY <2>1, <2>3 DEF PartSums
  <2>5. PartSums(g, ls, v, m + 1)
    BY <1>4, <2>4, SumsGrow
  <2>6. g[m + 1] = e[m] \o v[ls[m + 1]]
    OBVIOUS
  <2>7. \A i \in 1 .. m + 1 : i = m + 1 \/ i \in 1 .. m
    OBVIOUS
  <2>8. Readable(ls, v)
    BY <1>4, <2>2, <2>7 DEF Readable
  <2> HIDE DEF g
  <2> QED
    BY <1>4, <2>1, <2>5, <2>6, <2>8, ArgsIs DEF Sums
<1> DEFINE A == f[m]
<1> HIDE DEF A
<1>5. A \in Seq(Tokens) /\ (Len(ks) = m => Args(ks, w) = A)
  BY <1>2, <1>3 DEF A
<1>6. FirstArgs(A, m, ks, w)
  BY <1>4 DEF A, FirstArgs
<1> QED
  BY <1>5, <1>6

LEMMA ArgsSame ==
  ASSUME NEW ks, NEW w, Readable(ks, w), NEW v, \A i \in 1 .. Len(ks) : v[ks[i]] = w[ks[i]]
  PROVE  Args(ks, v) = Args(ks, w)
<1>1. PICK f : Sums(f, ks, w)
  BY SumsExist
<1>2. Sums(f, ks, v) /\ Readable(ks, v)
  BY <1>1 DEF Sums, PartSums, Readable
<1> QED
  BY <1>1, <1>2, ArgsIs

-----------------------------------------------------------------------------
(***************************************************************************)
(* The tree: every node but the first has at most one parent, in one place *)
(* of its list of operands; and it is finite, as the rank of a node shows. *)
(***************************************************************************)
Places(h, n) == 1 .. Len(h[n].kids)

TwoOperands(h) == \A n \in 1 .. Len(h) : Infix(h, n) => Len(h[n].kids) = 2
Inside(h)      == \A n \in 1 .. Len(h) : \A i \in Places(h, n) : h[n].kids[i] \in 2 .. Len(h)
OneParent(h)   == \A n, m \in 1 .. Len(h) : \A i \in Places(h, n), j \in Places(h, m) :
                    h[n].kids[i] = h[m].kids[j] => n = m /\ i = j
Tree(h)        == TwoOperands(h) /\ Inside(h) /\ OneParent(h)

Ranked(h, r) ==
  /\ r \in [1 .. Len(h) -> Nat]
  /\ \A n \in 1 .. Len(h) : \A i \in Places(h, n) : r[h[n].kids[i]] < r[n]

\* w are the words of all subtrees.
Reads(h, w) ==
  /\ w \in [1 .. Len(h) -> Seq(Tokens)]
  /\ \A n \in 1 .. Len(h) : w[n] = Word(h, w, n)

\* e is the right edge.
Path(h, e) ==
  /\ e \in Seq(1 .. Len(h)) /\ Len(e) \in 1 .. Len(h)
  /\ e[1] = 1
  /\ \A i \in 1 .. Len(e) - 1 : LET ks == h[e[i]].kids
                                IN  Len(ks) > 0 /\ e[i + 1] = ks[Len(ks)]
  /\ Len(h[e[Len(e)]].kids) = 0
  /\ \A i, j \in 1 .. Len(e) : e[i] = e[j] => i = j

LEMMA NodeTypes ==
  ASSUME NEW h \in Seq(Nodes), NEW n \in 1 .. Len(h)
  PROVE  /\ h[n].t \in Types /\ h[n].tok \in Tokens /\ h[n].kids \in Seq(Nat)
         /\ Len(h[n].kids) \in Nat /\ h[n] \in Nodes
<1>1. h[n] \in Nodes
  OBVIOUS
<1>2. h[n].t \in Types /\ h[n].tok \in Tokens /\ h[n].kids \in Seq(Nat)
  BY <1>1 DEF Nodes
<1>3. Len(h[n].kids) \in Nat
  BY <1>2
<1> QED
  BY <1>1, <1>2, <1>3

One(t) == << t >>

LEMMA OneSeq == ASSUME NEW t \in Tokens PROVE One(t) \in Seq(Tokens)
  BY DEF One

LEMMA Assoc ==
  ASSUME NEW a \in Seq(Tokens), NEW b \in Seq(Tokens), NEW c \in Seq(Tokens)
  PROVE  a \o (b \o c) = (a \o b) \o c
  BY SMTT(20), ConcatAssociative

LEMMA ConcatSeq ==
  ASSUME NEW a \in Seq(Tokens), NEW b \in Seq(Tokens)
  PROVE  a \o b \in Seq(Tokens)
  OBVIOUS

LEMMA Cancel ==
  ASSUME NEW a \in Seq(Tokens), NEW b \in Seq(Tokens), NEW c \in Seq(Tokens), a \o c = b \o c
  PROVE  a = b
  BY ConcatSimplifications

\* The words of a node are a part of its own, and those of its last operand.
Part(A, h, n, m, w) ==
  \A g, v : /\ g[n] = h[n]
            /\ \A i \in 1 .. m : v[h[n].kids[i]] = w[h[n].kids[i]]
            /\ v[h[n].kids[m + 1]] \in Seq(Tokens)
            => Word(g, v, n) = A \o v[h[n].kids[m + 1]]

Known(h, n, w)     == \A i \in Places(h, n) : w[h[n].kids[i]] \in Seq(Tokens)
Agree(h, n, w, v)  == \A i \in Places(h, n) : v[h[n].kids[i]] = w[h[n].kids[i]]

LEMMA WordLast ==
  ASSUME NEW h \in Seq(Nodes), Tree(h), NEW n \in 1 .. Len(h), NEW m \in Nat,
         Len(h[n].kids) = m + 1, NEW w, Known(h, n, w)
  PROVE  \E A \in Seq(Tokens) : Part(A, h, n, m, w)
<1> DEFINE ks == h[n].kids
           t == One(h[n].tok)
<1>1. t \in Seq(Tokens)
  BY NodeTypes, OneSeq
<1>2. Len(ks) = m + 1 /\ \A i \in 1 .. m + 1 : w[ks[i]] \in Seq(Tokens)
  BY DEF Places, Known
<1>3. CASE Infix(h, n)
  <2>1. m = 1
    <3>1. Len(h[n].kids) = 2
      BY <1>3 DEF Tree, TwoOperands, Infix
    <3>2. m + 1 = 2
      BY <3>1
    <3> HIDE DEF t, ks
    <3> QED
      BY <3>2
  <2> DEFINE A == w[ks[1]] \o t
  <2>2. w[ks[1]] \in Seq(Tokens)
    BY <1>2, <2>1
  <2>3. A \in Seq(Tokens)
    BY <1>1, <2>2
  <2>4. ASSUME NEW g, NEW v, g[n] = h[n], \A i \in 1 .. m : v[ks[i]] = w[ks[i]],
               v[ks[m + 1]] \in Seq(Tokens)
        PROVE  Word(g, v, n) = A \o v[ks[m + 1]]
    <3>1. Word(g, v, n) = v[ks[1]] \o t \o v[ks[2]]
      BY <1>3, <2>4 DEF Word, Infix, One
    <3>2. v[ks[1]] = w[ks[1]]
      BY <2>1, <2>4
    <3>3. ks[m + 1] = ks[2]
      BY <2>1
    <3> HIDE DEF ks, t
    <3> QED
      BY <3>1, <3>2, <3>3
  <2> HIDE DEF A
  <2>5. Part(A, h, n, m, w)
    BY <2>4 DEF Part
  <2> QED
    BY <2>3, <2>5
<1>4. CASE ~Infix(h, n)
  <2>1. Readable(ks, w) /\ Len(ks) \in m .. m + 1
    BY <1>2 DEF Readable
  <2> HIDE DEF ks
  <2>2. PICK B \in Seq(Tokens) : FirstArgs(B, m, ks, w)
    BY <2>1, ArgsLast
  <2> DEFINE A == t \o B
  <2>3. A \in Seq(Tokens)
    BY <1>1, <2>2
  <2>4. ASSUME NEW g, NEW v, g[n] = h[n], \A i \in 1 .. m : v[ks[i]] = w[ks[i]],
               v[ks[m + 1]] \in Seq(Tokens)
        PROVE  Word(g, v, n) = A \o v[ks[m + 1]]
    <3> DEFINE z == v[ks[m + 1]]
    <3>1. Word(g, v, n) = t \o Args(ks, v)
      BY <1>4, <2>4 DEF Word, Infix, One, ks
    <3>2. Args(ks, v) = B \o z
      BY <1>2, <2>2, <2>4 DEF FirstArgs
    <3>3. z \in Seq(Tokens)
      BY <2>4
    <3> HIDE DEF z, t
    <3>4. t \o (B \o z) = (t \o B) \o z
      BY <1>1, <2>2, <3>3, Assoc
    <3> QED
      BY <3>1, <3>2, <3>4 DEF z
  <2> HIDE DEF A
  <2>5. Part(A, h, n, m, w)
    BY <2>4 DEF Part, ks
  <2> QED
    BY <2>3, <2>5
<1> QED
  BY <1>3, <1>4

\* The words of a node depend on those of its operands.
LEMMA WordSame ==
  ASSUME NEW h \in Seq(Nodes), Tree(h), NEW n \in 1 .. Len(h), NEW w, Known(h, n, w),
         NEW v, Agree(h, n, w, v), NEW g, NEW l, g[l] = h[n]
  PROVE  Word(g, v, l) = Word(h, w, n)
<1> DEFINE ks == h[n].kids
<1>1. CASE Infix(h, n)
  <2>1. 1 \in Places(h, n) /\ 2 \in Places(h, n)
    <3>1. Len(h[n].kids) = 2
      BY <1>1 DEF Tree, TwoOperands, Infix
    <3> QED
      BY <3>1 DEF Places
  <2> QED
    BY <1>1, <2>1 DEF Word, Infix, Agree
<1>2. CASE ~Infix(h, n)
  <2>1. Readable(ks, w)
    BY NodeTypes DEF Readable, Places, Known
  <2>2. Args(ks, v) = Args(ks, w)
    BY <2>1, ArgsSame DEF Places, Agree
  <2> QED
    BY <1>2, <2>2 DEF Word, Infix
<1> QED
  BY <1>1, <1>2

-----------------------------------------------------------------------------
(***************************************************************************)
(* A step changes the node e[k] of the right edge and adds nodes to the    *)
(* heap: g is the heap after it.                                           *)
(***************************************************************************)
Prefix(e, k) == {e[i] : i \in 1 .. k}

Changes(h, g, e, k) ==
  /\ h \in Seq(Nodes) /\ g \in Seq(Nodes) /\ Len(g) >= Len(h)
  /\ Tree(h) /\ Path(h, e) /\ k \in 1 .. Len(e)
  /\ \A n \in 1 .. Len(h) : n # e[k] => g[n] = h[n]

LEMMA PathNodes ==
  ASSUME NEW h, NEW e, Path(h, e), NEW i \in 1 .. Len(e)
  PROVE  e[i] \in 1 .. Len(h)
  BY DEF Path

\* On the way down, the operand that is on the edge is the last one; off the
\* way no operand is on it.
LEMMA EdgeBelow ==
  ASSUME NEW h \in Seq(Nodes), Tree(h), NEW e, Path(h, e), NEW k \in 1 .. Len(e),
         NEW n \in 1 .. Len(h), NEW j \in Places(h, n), h[n].kids[j] \in Prefix(e, k)
  PROVE  \E i \in 1 .. k - 1 : n = e[i] /\ j = Len(h[n].kids)
<1>1. PICK i \in 1 .. k : h[n].kids[j] = e[i]
  BY DEF Prefix
<1>2. h[n].kids[j] \in 2 .. Len(h)
  BY DEF Tree, Inside
<1>3. i # 1 /\ k <= Len(e) /\ Len(e) \in Nat
  BY <1>1, <1>2 DEF Path
<1> DEFINE p == i - 1
<1>4. p \in 1 .. k - 1 /\ p \in 1 .. Len(e) - 1 /\ p + 1 = i /\ p \in 1 .. Len(e)
  BY <1>3
<1> HIDE DEF p
<1> DEFINE m == e[p]
           ks == h[m].kids
<1>5. m \in 1 .. Len(h)
  BY <1>4, PathNodes
<1>6. Len(ks) > 0 /\ e[i] = ks[Len(ks)]
  BY <1>4 DEF Path
<1>7. Len(ks) \in Nat
  BY <1>5, NodeTypes
<1>8. Len(ks) \in Places(h, m)
  BY <1>6, <1>7 DEF Places
<1> HIDE DEF m
<1>9. n = m /\ j = Len(ks)
  BY <1>1, <1>5, <1>6, <1>8 DEF Tree, OneParent
<1> QED
  BY <1>4, <1>9 DEF m

\* Below e[k] nothing is on the way to it.
LEMMA BelowFree ==
  ASSUME NEW h \in Seq(Nodes), Tree(h), NEW e, Path(h, e), NEW k \in 1 .. Len(e),
         NEW n \in 1 .. Len(h), n \notin Prefix(e, k) \/ n = e[k], NEW j \in Places(h, n)
  PROVE  h[n].kids[j] \notin Prefix(e, k)
<1> SUFFICES ASSUME h[n].kids[j] \in Prefix(e, k) PROVE FALSE
  OBVIOUS
<1>1. PICK i \in 1 .. k - 1 : n = e[i]
  BY EdgeBelow
<1>2. i \in 1 .. k /\ i # k /\ i \in 1 .. Len(e)
  BY DEF Path
<1>3. n \in Prefix(e, k)
  BY <1>1, <1>2 DEF Prefix
<1> QED
  BY <1>1, <1>2, <1>3 DEF Path

(***************************************************************************)
(* The words after such a step, when the words s at the end of those of    *)
(* all nodes down to e[k] become u, and the new nodes have the words z.    *)
(***************************************************************************)
Rewritten(h, g, w, y, e, k, s, u, z) ==
  /\ y \in [1 .. Len(g) -> Seq(Tokens)]
  /\ \A n \in Prefix(e, k) : \E a \in Seq(Tokens) : w[n] = a \o s /\ y[n] = a \o u
  /\ \A n \in 1 .. Len(h) : n \notin Prefix(e, k) => y[n] = w[n]
  /\ \A i \in 1 .. Len(z) : y[Len(h) + i] = z[i]

LEMMA InSeqs ==
  ASSUME NEW n \in Nat, NEW w \in [1 .. n -> Seq(Tokens)], NEW i \in 1 .. n
  PROVE  w[i] \in Seq(Tokens)
  OBVIOUS

LEMMA RewrittenExists ==
  ASSUME NEW h, NEW g, NEW e, NEW k, Changes(h, g, e, k), NEW w, Reads(h, w),
         NEW s \in Seq(Tokens), NEW u \in Seq(Tokens),
         NEW z \in Seq(Seq(Tokens)), Len(g) = Len(h) + Len(z),
         \A n \in Prefix(e, k) : \E a \in Seq(Tokens) : w[n] = a \o s
  PROVE  \E y : Rewritten(h, g, w, y, e, k, s, u, z)
<1> DEFINE a(n) == CHOOSE b \in Seq(Tokens) : w[n] = b \o s
           y == [n \in 1 .. Len(g) |->
                   IF n \in Prefix(e, k) THEN a(n) \o u
                   ELSE IF n \in 1 .. Len(h) THEN w[n] ELSE z[n - Len(h)]]
<1>1. \A n \in Prefix(e, k) : a(n) \in Seq(Tokens) /\ w[n] = a(n) \o s
  OBVIOUS
<1>2. \A n \in Prefix(e, k) : n \in 1 .. Len(h)
  <2>1. Path(h, e) /\ k \in 1 .. Len(e)
    BY DEF Changes
  <2>2. Len(e) \in Nat
    BY <2>1 DEF Path
  <2>3. \A i \in 1 .. k : i \in 1 .. Len(e)
    BY <2>1, <2>2
  <2> QED
    BY <2>1, <2>3, PathNodes DEF Prefix
<1> HIDE DEF a
<1>3. \A n \in Prefix(e, k) : a(n) \o u \in Seq(Tokens)
  BY <1>1, ConcatSeq
<1>4. /\ Len(h) \in Nat /\ Len(z) \in Nat /\ Len(g) = Len(h) + Len(z)
      /\ \A i \in 1 .. Len(z) : z[i] \in Seq(Tokens)
  BY DEF Changes
<1>5. \A n \in 1 .. Len(g) : n \in 1 .. Len(h) \/ n - Len(h) \in 1 .. Len(z)
  BY <1>4
<1>6. \A i \in 1 .. Len(z) : Len(h) + i \in 1 .. Len(g) /\ Len(h) + i \notin 1 .. Len(h)
                             /\ (Len(h) + i) - Len(h) = i
  BY <1>4
<1>7. \A n \in 1 .. Len(h) : w[n] \in Seq(Tokens) /\ n \in 1 .. Len(g)
  <2> HIDE DEF y
  <2>1. w \in [1 .. Len(h) -> Seq(Tokens)]
    BY DEF Reads
  <2> QED
    BY <1>4, <2>1, InSeqs
<1>8. y \in [1 .. Len(g) -> Seq(Tokens)]
  BY <1>3, <1>4, <1>5, <1>7
<1>9. \A n \in Prefix(e, k) : y[n] = a(n) \o u
  BY <1>2, <1>7
<1>10. \A n \in 1 .. Len(h) : n \notin Prefix(e, k) => y[n] = w[n]
  BY <1>7
<1>11. \A i \in 1 .. Len(z) : y[Len(h) + i] = z[i]
  BY <1>2, <1>6
<1> HIDE DEF y
<1>12. Rewritten(h, g, w, y, e, k, s, u, z)
  BY <1>1, <1>8, <1>9, <1>10, <1>11 DEF Rewritten
<1> QED
  BY <1>12

\* All nodes but e[k] read as the new words say.
LEMMA RewrittenReads ==
  ASSUME NEW h, NEW g, NEW e, NEW k, Changes(h, g, e, k), NEW w, Reads(h, w),
         NEW s \in Seq(Tokens), NEW u \in Seq(Tokens), NEW z, NEW y,
         Rewritten(h, g, w, y, e, k, s, u, z)
  PROVE  /\ \A n \in 1 .. Len(h) : n # e[k] => y[n] = Word(g, y, n)
         /\ Agree(h, e[k], w, y)
         /\ \A n \in 1 .. Len(h) : Known(h, n, w)
<1>1. /\ h \in Seq(Nodes) /\ g \in Seq(Nodes) /\ Len(g) >= Len(h) /\ Tree(h) /\ Path(h, e)
      /\ k \in 1 .. Len(e) /\ \A n \in 1 .. Len(h) : n # e[k] => g[n] = h[n]
  BY DEF Changes
<1>2. \A n \in 1 .. Len(h) : w[n] \in Seq(Tokens) /\ w[n] = Word(h, w, n) /\ y[n] \in Seq(Tokens)
  <2>1. \A n \in 1 .. Len(h) : n \in 1 .. Len(g)
    BY <1>1
  <2>2. w \in [1 .. Len(h) -> Seq(Tokens)] /\ \A n \in 1 .. Len(h) : w[n] = Word(h, w, n)
    BY DEF Reads
  <2>3. y \in [1 .. Len(g) -> Seq(Tokens)]
    BY DEF Rewritten
  <2> QED
    BY <2>1, <2>2, <2>3
<1>3. \A n \in 1 .. Len(h) : \A i \in Places(h, n) : h[n].kids[i] \in 1 .. Len(h)
  BY <1>1 DEF Tree, Inside
<1>4. \A n \in 1 .. Len(h) : Known(h, n, w)
  BY <1>2, <1>3 DEF Known
<1>5. ASSUME NEW n \in 1 .. Len(h), n \notin Prefix(e, k) \/ n = e[k]
      PROVE  Agree(h, n, w, y)
  <2> SUFFICES ASSUME NEW i \in Places(h, n) PROVE y[h[n].kids[i]] = w[h[n].kids[i]]
    BY DEF Agree
  <2>1. h[n].kids[i] \notin Prefix(e, k)
    BY <1>1, <1>5, BelowFree
  <2> QED
    BY <1>3, <2>1 DEF Rewritten
<1>6. ASSUME NEW n \in 1 .. Len(h), n # e[k], n \notin Prefix(e, k)
      PROVE  y[n] = Word(g, y, n)
  <2>1. Known(h, n, w) /\ Agree(h, n, w, y)
    BY <1>4, <1>5, <1>6
  <2>2. g[n] = h[n]
    BY <1>1, <1>6
  <2>3. h \in Seq(Nodes) /\ Tree(h)
    BY <1>1
  <2>4. Word(g, y, n) = Word(h, w, n)
    BY <2>1, <2>2, <2>3, WordSame
  <2> QED
    BY <1>2, <1>6, <2>4 DEF Rewritten
<1>7. ASSUME NEW n \in 1 .. Len(h), n # e[k], n \in Prefix(e, k)
      PROVE  y[n] = Word(g, y, n)
  <2>1. PICK i \in 1 .. k : n = e[i]
    BY <1>7 DEF Prefix
  <2>2. i \in 1 .. Len(e) - 1 /\ i + 1 \in 1 .. k /\ Len(e) \in Nat
    <3>1. Len(e) \in Nat
      BY <1>1 DEF Path
    <3>2. i # k
      BY <1>7, <2>1
    <3> QED
      BY <1>1, <3>1, <3>2
  <2> DEFINE ks == h[n].kids
             m == Len(ks) - 1
             c == ks[m + 1]
  <2>3. Len(ks) > 0 /\ e[i + 1] = ks[Len(ks)] /\ Len(ks) \in Nat
    BY <1>1, <2>1, <2>2, NodeTypes DEF Path
  <2>4. m \in Nat /\ Len(ks) = m + 1 /\ e[i + 1] = c
    BY <2>3
  <2> HIDE DEF m, c
  <2>5. c \in Prefix(e, k) /\ c \in 1 .. Len(h)
    <3>1. e[i + 1] \in Prefix(e, k)
      BY <2>2 DEF Prefix
    <3>2. i + 1 \in 1 .. Len(e)
      BY <2>2
    <3>3. e[i + 1] \in 1 .. Len(h)
      BY <1>1, <3>2, PathNodes
    <3> QED
      BY <2>4, <3>1, <3>3
  <2>6. PICK A \in Seq(Tokens) : Part(A, h, n, m, w)
    <3>1. Known(h, n, w) /\ h \in Seq(Nodes) /\ Tree(h) /\ Len(h[n].kids) = m + 1 /\ m \in Nat
      BY <1>1, <1>4, <2>4
    <3> QED
      BY <3>1, WordLast
  <2>7. ASSUME NEW j \in 1 .. m PROVE y[ks[j]] = w[ks[j]]
    <3>1. j \in Places(h, n) /\ j # Len(ks)
      BY <2>4 DEF Places
    <3>2. ks[j] \notin Prefix(e, k)
      <4> SUFFICES ASSUME ks[j] \in Prefix(e, k) PROVE FALSE
        OBVIOUS
      <4>1. \E l \in 1 .. k - 1 : n = e[l] /\ j = Len(h[n].kids)
        BY <1>1, <3>1, EdgeBelow
      <4> QED
        BY <3>1, <4>1
    <3> QED
      BY <1>3, <3>1, <3>2 DEF Rewritten
  <2>8. ks[m + 1] = c /\ w[c] \in Seq(Tokens) /\ y[c] \in Seq(Tokens)
    BY <1>2, <2>5 DEF c
  <2>9. Word(h, w, n) = A \o w[c]
    BY <2>6, <2>8 DEF Part
  <2>10. Word(g, y, n) = A \o y[c]
    BY <1>1, <1>7, <2>6, <2>7, <2>8 DEF Part
  <2> HIDE DEF ks
  <2>11. PICK a \in Seq(Tokens) : w[n] = a \o s /\ y[n] = a \o u
    BY <1>7 DEF Rewritten
  <2>12. PICK b \in Seq(Tokens) : w[c] = b \o s /\ y[c] = b \o u
    BY <2>5 DEF Rewritten
  <2>13. a \o s = (A \o b) \o s
    <3>1. a \o s = A \o w[c]
      BY <1>2, <2>9, <2>11
    <3>2. a \o s = A \o (b \o s)
      BY <2>12, <3>1
    <3>3. A \o (b \o s) = (A \o b) \o s
      BY Zenon, Assoc
    <3> QED
      BY <3>2, <3>3
  <2>14. A \o b \in Seq(Tokens)
    BY Zenon, ConcatSeq
  <2>15. a = A \o b
    BY Zenon, <2>13, <2>14, Cancel
  <2>16. (A \o b) \o u = A \o (b \o u)
    BY Zenon, Assoc
  <2> QED
    BY <2>10, <2>11, <2>12, <2>15, <2>16
<1>8. e[k] \in 1 .. Len(h)
  BY <1>1, PathNodes
<1> QED
  BY <1>4, <1>5, <1>6, <1>7, <1>8

-----------------------------------------------------------------------------
(* The tree after such a step. *)

LEMMA ChangesFacts ==
  ASSUME NEW h, NEW g, NEW e, NEW k, Changes(h, g, e, k)
  PROVE  /\ h \in Seq(Nodes) /\ g \in Seq(Nodes) /\ Len(h) \in Nat /\ Len(g) \in Nat
         /\ Len(g) >= Len(h) /\ Tree(h) /\ Path(h, e) /\ k \in 1 .. Len(e) /\ Len(e) \in Nat
         /\ e[k] \in 1 .. Len(h) /\ e[k] \in Prefix(e, k) /\ Prefix(e, k) \subseteq 1 .. Len(h)
         /\ \A n \in 1 .. Len(h) : n # e[k] => g[n] = h[n]
         /\ \A i \in 1 .. Len(e) : e[i] \in 1 .. Len(h)
<1>1. /\ h \in Seq(Nodes) /\ g \in Seq(Nodes) /\ Len(g) >= Len(h) /\ Tree(h) /\ Path(h, e)
      /\ k \in 1 .. Len(e) /\ \A n \in 1 .. Len(h) : n # e[k] => g[n] = h[n]
  BY DEF Changes
<1>2. Len(h) \in Nat /\ Len(g) \in Nat
  BY <1>1
<1>3. Len(e) \in Nat
  BY <1>1 DEF Path
<1>4. \A i \in 1 .. Len(e) : e[i] \in 1 .. Len(h)
  BY <1>1, PathNodes
<1>5. k \in 1 .. k /\ \A i \in 1 .. k : i \in 1 .. Len(e)
  BY <1>1, <1>3
<1>6. e[k] \in Prefix(e, k) /\ Prefix(e, k) \subseteq 1 .. Len(h)
  BY <1>4, <1>5 DEF Prefix
<1> QED
  BY <1>1, <1>2, <1>3, <1>4, <1>6

\* The edge down to e[k], and the last new node below it.
Grow(e, k, n) == Append(SubSeq(e, 1, k), n)

LEMMA GrowFacts ==
  ASSUME NEW e, NEW l \in Nat, e \in Seq(1 .. l), NEW k \in 1 .. Len(e), NEW m \in Nat, m > l
  PROVE  /\ Grow(e, k, m) \in Seq(1 .. m) /\ Len(Grow(e, k, m)) = k + 1
         /\ \A i \in 1 .. k : Grow(e, k, m)[i] = e[i]
         /\ Grow(e, k, m)[k + 1] = m
<1> DEFINE s == SubSeq(e, 1, k)
<1>1. \A i \in 1 .. Len(e) : e[i] \in 1 .. m
  OBVIOUS
<1>2. k \in Nat /\ Len(e) \in Nat /\ \A i \in 1 .. k : i \in 1 .. Len(e)
  OBVIOUS
<1>3. Len(s) = k /\ \A i \in 1 .. k : s[i] = e[i]
  BY <1>2
<1>4. s \in Seq(1 .. m)
  <2>1. s = [i \in 1 .. k |-> e[i]]
    BY <1>2
  <2> HIDE DEF s
  <2> QED
    BY <1>1, <1>2, <2>1
<1> HIDE DEF s
<1>5. m \in 1 .. m
  OBVIOUS
<1>6. /\ Append(s, m) \in Seq(1 .. m) /\ Len(Append(s, m)) = k + 1
      /\ \A i \in 1 .. k : Append(s, m)[i] = s[i] /\ Append(s, m)[k + 1] = m
  BY <1>2, <1>3, <1>4, <1>5
<1>7. Append(s, m)[k + 1] = m
  BY <1>2, <1>6
<1> QED
  BY <1>3, <1>6, <1>7 DEF Grow, s

LEMMA PathGrows ==
  ASSUME NEW h, NEW g, NEW e, NEW k, Changes(h, g, e, k), Len(g) > Len(h),
         Len(g[e[k]].kids) > 0, g[e[k]].kids[Len(g[e[k]].kids)] = Len(g),
         Len(g[Len(g)].kids) = 0
  PROVE  /\ Path(g, Grow(e, k, Len(g))) /\ Len(Grow(e, k, Len(g))) = k + 1
         /\ \A i \in 1 .. k : Grow(e, k, Len(g))[i] = e[i]
         /\ Grow(e, k, Len(g))[k + 1] = Len(g)
<1>1. /\ Len(h) \in Nat /\ Len(g) \in Nat /\ Path(h, e) /\ k \in 1 .. Len(e) /\ Len(e) \in Nat
      /\ e[k] \in 1 .. Len(h)
      /\ \A n \in 1 .. Len(h) : n # e[k] => g[n] = h[n]
      /\ \A i \in 1 .. Len(e) : e[i] \in 1 .. Len(h)
  <2>1. /\ Len(h) \in Nat /\ Len(g) \in Nat /\ Path(h, e) /\ k \in 1 .. Len(e) /\ Len(e) \in Nat
        /\ e[k] \in 1 .. Len(h)
    BY ChangesFacts
  <2> QED
    BY <2>1, PathNodes DEF Changes
<1>2. e \in Seq(1 .. Len(h)) /\ Len(e) \in 1 .. Len(h) /\ e[1] = 1
  BY <1>1 DEF Path
<1> DEFINE d == Grow(e, k, Len(g))
           l == Len(g)
           f == Len(h)
<1>3. f \in Nat /\ l \in Nat /\ l > f /\ e \in Seq(1 .. f) /\ k \in 1 .. Len(e) /\ d = Grow(e, k, l)
  BY <1>1, <1>2
<1> HIDE DEF d, l, f
<1>4. /\ d \in Seq(1 .. l) /\ Len(d) = k + 1
      /\ \A i \in 1 .. k : d[i] = e[i]
      /\ d[k + 1] = l
  <2>1. /\ Grow(e, k, l) \in Seq(1 .. l) /\ Len(Grow(e, k, l)) = k + 1
        /\ \A i \in 1 .. k : Grow(e, k, l)[i] = e[i]
        /\ Grow(e, k, l)[k + 1] = l
    BY SMTT(30), <1>3, GrowFacts
  <2> QED
    BY <1>3, <2>1
<1>5. k + 1 \in 1 .. l /\ 1 \in 1 .. k /\ l > Len(h)
  BY <1>1, <1>2 DEF l
<1>6. d[1] = 1
  BY <1>2, <1>4, <1>5
<1>7. ASSUME NEW i \in 1 .. Len(d) - 1
      PROVE  LET ks == g[d[i]].kids IN Len(ks) > 0 /\ d[i + 1] = ks[Len(ks)]
  <2>1. i \in 1 .. k
    BY <1>1, <1>4
  <2>2. CASE i = k
    BY <1>4, <2>1, <2>2 DEF l
  <2>3. CASE i # k
    <3>1. i + 1 \in 1 .. k /\ i \in 1 .. Len(e) - 1 /\ i \in 1 .. Len(e)
      BY <1>1, <2>1, <2>3
    <3>2. e[i] # e[k] /\ e[i] \in 1 .. Len(h)
      BY <1>1, <2>3, <3>1 DEF Path
    <3>3. g[e[i]] = h[e[i]]
      BY <1>1, <3>2
    <3>4. Len(h[e[i]].kids) > 0 /\ e[i + 1] = h[e[i]].kids[Len(h[e[i]].kids)]
      BY <1>1, <3>1 DEF Path
    <3> QED
      BY <1>4, <2>1, <3>1, <3>3, <3>4
  <2> QED
    BY <2>2, <2>3
<1>8. Len(g[d[Len(d)]].kids) = 0
  BY <1>4 DEF l
<1>9. ASSUME NEW i \in 1 .. Len(d), NEW j \in 1 .. Len(d), d[i] = d[j]
      PROVE  i = j
  <2>1. \A n \in 1 .. Len(d) : n \in 1 .. k \/ n = k + 1
    BY <1>1, <1>4
  <2>2. \A n \in 1 .. k : d[n] \in 1 .. Len(h) /\ d[n] # l /\ n \in 1 .. Len(e)
    <3>1. \A n \in 1 .. k : n \in 1 .. Len(e)
      BY <1>1
    <3>2. \A n \in 1 .. k : d[n] \in 1 .. Len(h)
      BY <1>1, <1>4, <3>1
    <3>3. l \notin 1 .. Len(h)
      BY <1>1, <1>5
    <3> QED
      BY <3>1, <3>2, <3>3
  <2>3. CASE i \in 1 .. k /\ j \in 1 .. k
    <3>1. e[i] = e[j]
      BY <1>4, <1>9, <2>3
    <3> QED
      BY <1>1, <2>2, <2>3, <3>1 DEF Path
  <2>4. CASE i = k + 1 \/ j = k + 1
    BY <1>4, <1>9, <2>1, <2>2, <2>4
  <2> QED
    BY <2>1, <2>3, <2>4
<1>10. Path(g, d)
  BY <1>4, <1>5, <1>6, <1>7, <1>8, <1>9 DEF Path, l
<1> QED
  BY <1>4, <1>10 DEF d, l

LEMMA PathStays ==
  ASSUME NEW h, NEW g, NEW e, Changes(h, g, e, Len(e)), Len(g) = Len(h),
         Len(g[e[Len(e)]].kids) = 0
  PROVE  Path(g, e)
<1>1. /\ Path(h, e) /\ Len(e) \in Nat /\ Len(e) \in 1 .. Len(e)
      /\ \A n \in 1 .. Len(h) : n # e[Len(e)] => g[n] = h[n]
      /\ \A i \in 1 .. Len(e) : e[i] \in 1 .. Len(h)
  BY ChangesFacts
<1>2. ASSUME NEW i \in 1 .. Len(e) - 1
      PROVE  LET ks == g[e[i]].kids IN Len(ks) > 0 /\ e[i + 1] = ks[Len(ks)]
  <2>1. e[i] # e[Len(e)] /\ e[i] \in 1 .. Len(h)
    <3>1. i \in 1 .. Len(e) /\ i # Len(e)
      BY <1>1
    <3> QED
      BY <1>1, <3>1 DEF Path
  <2>2. g[e[i]] = h[e[i]]
    BY <1>1, <2>1
  <2> QED
    BY <1>1, <2>2 DEF Path
<1> QED
  BY <1>1, <1>2 DEF Path

\* A node without operands becomes another one.
LeafAt(h, g, x) ==
  /\ Len(g) = Len(h) /\ ~Infix(g, x)
  /\ Len(h[x].kids) = 0 /\ Len(g[x].kids) = 0

\* The node x gets one operand more, in which nothing is yet.
AddedAt(h, g, x) ==
  /\ Len(g) = Len(h) + 1 /\ ~Infix(g, x)
  /\ Len(g[x].kids) = Len(h[x].kids) + 1
  /\ \A i \in Places(h, x) : g[x].kids[i] = h[x].kids[i]
  /\ g[x].kids[Len(h[x].kids) + 1] = Len(h) + 1
  /\ g[Len(h) + 1] = NullNode

\* The node x becomes an infix node over a copy of what it was.
SplitAt(h, g, x) ==
  /\ Len(g) = Len(h) + 2 /\ Infix(g, x) /\ Len(g[x].kids) = 2
  /\ g[x].kids[1] = Len(h) + 1 /\ g[x].kids[2] = Len(h) + 2
  /\ g[Len(h) + 1] = h[x] /\ g[Len(h) + 2] = NullNode

LEMMA NullKids == Len(NullNode.kids) = 0 /\ NullNode.t # "binop" /\ NullNode.t # "assign"
  BY DEF NullNode, Node

LEMMA LeafTree ==
  ASSUME NEW h, NEW g, NEW e, NEW k, Changes(h, g, e, k), LeafAt(h, g, e[k])
  PROVE  Tree(g) /\ \A r : Ranked(h, r) => Ranked(g, r)
<1> DEFINE x == e[k]
<1>1. /\ Len(h) \in Nat /\ Len(g) = Len(h) /\ x \in 1 .. Len(h) /\ Tree(h)
      /\ \A n \in 1 .. Len(h) : n # x => g[n] = h[n]
  BY ChangesFacts DEF LeafAt
<1>2. ~Infix(g, x) /\ \A i \in Places(g, x) : FALSE
  BY DEF LeafAt, Places
<1> HIDE DEF x
<1>3. \A n \in 1 .. Len(g) : \A i \in Places(g, n) :
        n \in 1 .. Len(h) /\ g[n] = h[n] /\ i \in Places(h, n)
  BY <1>1, <1>2 DEF Places
<1>4. TwoOperands(g)
  BY <1>1, <1>2 DEF Tree, TwoOperands, Infix
<1>5. Inside(g)
  BY <1>1, <1>3 DEF Tree, Inside
<1>6. OneParent(g)
  BY <1>3, <1>1 DEF Tree, OneParent
<1>7. \A r : Ranked(h, r) => Ranked(g, r)
  BY <1>1, <1>3 DEF Ranked
<1> QED
  BY <1>4, <1>5, <1>6, <1>7 DEF Tree

\* The operands of a node of g are those it had in h, or the new node.
LEMMA AddedTree ==
  ASSUME NEW h, NEW g, NEW e, NEW k, Changes(h, g, e, k), AddedAt(h, g, e[k])
  PROVE  Tree(g)
<1> DEFINE x == e[k]
           l == Len(h) + 1
           p == Len(h[x].kids) + 1
<1>1. /\ h \in Seq(Nodes) /\ Len(h) \in Nat /\ Len(g) = l /\ x \in 1 .. Len(h) /\ Tree(h)
      /\ \A n \in 1 .. Len(h) : n # x => g[n] = h[n]
  BY ChangesFacts DEF AddedAt
<1>2. /\ ~Infix(g, x) /\ Len(g[x].kids) = p /\ g[x].kids[p] = l /\ g[l] = NullNode
      /\ \A i \in Places(h, x) : g[x].kids[i] = h[x].kids[i]
  BY DEF AddedAt
<1>3. Len(h[x].kids) \in Nat
  BY <1>1, NodeTypes
<1>4. \A i \in Places(g, x) : i \in Places(h, x) \/ i = p
  BY <1>2, <1>3 DEF Places
<1>5. l \in Nat /\ \A n \in 1 .. l : n \in 1 .. Len(h) \/ n = l
  BY <1>1
<1>6. l \notin 1 .. Len(h) /\ l \notin 2 .. Len(h) /\ 2 .. Len(h) \subseteq 2 .. l /\ l \in 2 .. l /\ x # l
  BY <1>1
<1> HIDE DEF x, l, p
<1>7. \A i \in Places(g, l) : FALSE
  BY <1>2, NullKids DEF Places
<1>8. ASSUME NEW n \in 1 .. Len(g), NEW i \in Places(g, n)
      PROVE  /\ n \in 1 .. Len(h)
             /\ \/ i \in Places(h, n) /\ g[n].kids[i] = h[n].kids[i] /\ g[n].kids[i] \in 2 .. Len(h)
                \/ n = x /\ i = p /\ g[n].kids[i] = l
  <2>1. n \in 1 .. Len(h)
    BY <1>1, <1>5, <1>7, <1>8
  <2>2. CASE n = x
    BY <1>1, <1>2, <1>4, <1>8, <2>2 DEF Tree, Inside
  <2>3. CASE n # x
    <3>1. g[n] = h[n]
      BY <1>1, <2>1, <2>3
    <3>2. i \in Places(h, n)
      BY <1>8, <3>1 DEF Places
    <3> QED
      BY <1>1, <2>1, <3>1, <3>2 DEF Tree, Inside
  <2> QED
    BY <2>1, <2>2, <2>3
<1>9. TwoOperands(g)
  <2> SUFFICES ASSUME NEW n \in 1 .. Len(g), Infix(g, n) PROVE Len(g[n].kids) = 2
    BY DEF TwoOperands
  <2>1. n \in 1 .. Len(h) /\ n # x
    BY <1>1, <1>2, <1>5, NullKids DEF Infix
  <2> QED
    BY <1>1, <2>1 DEF Tree, TwoOperands, Infix
<1>10. Inside(g)
  BY <1>1, <1>6, <1>8 DEF Inside
<1>11. OneParent(g)
  <2> SUFFICES ASSUME NEW n \in 1 .. Len(g), NEW m \in 1 .. Len(g),
                      NEW i \in Places(g, n), NEW j \in Places(g, m),
                      g[n].kids[i] = g[m].kids[j]
               PROVE  n = m /\ i = j
    BY DEF OneParent
  <2>1. CASE g[n].kids[i] = l
    <3>1. n = x /\ i = p
      BY <1>6, <1>8, <2>1
    <3>2. m = x /\ j = p
      BY <1>6, <1>8, <2>1
    <3> QED
      BY <3>1, <3>2
  <2>2. CASE g[n].kids[i] # l
    <3>1. /\ n \in 1 .. Len(h) /\ i \in Places(h, n) /\ g[n].kids[i] = h[n].kids[i]
          /\ m \in 1 .. Len(h) /\ j \in Places(h, m) /\ g[m].kids[j] = h[m].kids[j]
      BY <1>8, <2>2
    <3>2. h[n].kids[i] = h[m].kids[j] /\ OneParent(h)
      BY <1>1, <3>1 DEF Tree
    <3> QED
      BY <3>1, <3>2 DEF OneParent
  <2> QED
    BY <2>1, <2>2
<1> QED
  BY <1>9, <1>10, <1>11 DEF Tree

LEMMA SplitTree ==
  ASSUME NEW h, NEW g, NEW e, NEW k, Changes(h, g, e, k), SplitAt(h, g, e[k])
  PROVE  Tree(g)
<1> DEFINE x == e[k]
           a == Len(h) + 1
           b == Len(h) + 2
<1>1. /\ h \in Seq(Nodes) /\ Len(h) \in Nat /\ Len(g) = b /\ x \in 1 .. Len(h) /\ Tree(h)
      /\ \A n \in 1 .. Len(h) : n # x => g[n] = h[n]
  BY ChangesFacts DEF SplitAt
<1>2. /\ Len(g[x].kids) = 2 /\ g[x].kids[1] = a /\ g[x].kids[2] = b
      /\ g[a] = h[x] /\ g[b] = NullNode
  BY DEF SplitAt
<1>3. \A i \in Places(g, x) : i = 1 \/ i = 2
  BY <1>2 DEF Places
<1>4. \A n \in 1 .. b : n \in 1 .. Len(h) \/ n = a \/ n = b
  BY <1>1
<1>5. /\ a \notin 1 .. Len(h) /\ b \notin 1 .. Len(h) /\ a # b /\ a # x /\ b # x
      /\ 2 .. Len(h) \subseteq 2 .. b /\ 2 .. Len(h) \subseteq 1 .. Len(h) /\ a \in 2 .. b /\ b \in 2 .. b
  BY <1>1
<1> HIDE DEF x, a, b
<1>6. \A i \in Places(g, b) : FALSE
  BY <1>2, NullKids DEF Places
\* The node of h whose operand it was.
<1> DEFINE o(n) == IF n = a THEN x ELSE n
<1>7. ASSUME NEW n \in 1 .. Len(g), NEW i \in Places(g, n), n # x
      PROVE  /\ o(n) \in 1 .. Len(h) /\ i \in Places(h, o(n)) /\ g[n].kids[i] = h[o(n)].kids[i]
             /\ g[n].kids[i] \in 2 .. Len(h)
  <2>1. n \in 1 .. Len(h) \/ n = a
    BY <1>1, <1>4, <1>6
  <2>2. o(n) \in 1 .. Len(h) /\ g[n] = h[o(n)]
    BY <1>1, <1>2, <1>5, <1>7, <2>1
  <2> HIDE DEF o
  <2>3. i \in Places(h, o(n))
    BY <2>2 DEF Places
  <2> QED
    BY <1>1, <2>2, <2>3 DEF Tree, Inside
<1>8. ASSUME NEW n \in 1 .. Len(g), NEW i \in Places(g, n), n = x
      PROVE  (i = 1 /\ g[n].kids[i] = a) \/ (i = 2 /\ g[n].kids[i] = b)
  BY <1>2, <1>3, <1>8
<1>9. TwoOperands(g)
  <2> SUFFICES ASSUME NEW n \in 1 .. Len(g), Infix(g, n) PROVE Len(g[n].kids) = 2
    BY DEF TwoOperands
  <2>1. CASE n = x
    BY <1>2, <2>1
  <2>2. CASE n # x
    <3>1. n # b
      BY <1>2, NullKids DEF Infix
    <3>2. o(n) \in 1 .. Len(h) /\ g[n] = h[o(n)]
      BY <1>1, <1>2, <1>4, <1>5, <2>2, <3>1
    <3> HIDE DEF o
    <3> QED
      BY <1>1, <3>2 DEF Tree, TwoOperands, Infix
  <2> QED
    BY <2>1, <2>2
<1>10. Inside(g)
  <2> SUFFICES ASSUME NEW n \in 1 .. Len(g), NEW i \in Places(g, n)
               PROVE  g[n].kids[i] \in 2 .. b
    BY <1>1 DEF Inside
  <2> QED
    BY <1>5, <1>7, <1>8
<1>11. OneParent(g)
  <2> SUFFICES ASSUME NEW n \in 1 .. Len(g), NEW m \in 1 .. Len(g),
                      NEW i \in Places(g, n), NEW j \in Places(g, m),
                      g[n].kids[i] = g[m].kids[j]
               PROVE  n = m /\ i = j
    BY DEF OneParent
  <2>1. CASE n = x /\ m = x
    BY <1>5, <1>8, <2>1
  <2>2. CASE n = x /\ m # x
    BY <1>5, <1>7, <1>8, <2>2
  <2>3. CASE n # x /\ m = x
    BY <1>5, <1>7, <1>8, <2>3
  <2>4. CASE n # x /\ m # x
    <3>1. /\ o(n) \in 1 .. Len(h) /\ i \in Places(h, o(n)) /\ g[n].kids[i] = h[o(n)].kids[i]
          /\ o(m) \in 1 .. Len(h) /\ j \in Places(h, o(m)) /\ g[m].kids[j] = h[o(m)].kids[j]
      BY <1>7, <2>4
    <3> DEFINE x1 == o(n)
               x2 == o(m)
    <3> HIDE DEF o, x1, x2
    <3>2. h[x1].kids[i] = h[x2].kids[j] /\ OneParent(h)
      BY <1>1, <3>1 DEF Tree, x1, x2
    <3>3. x1 = x2 /\ i = j
      BY <3>1, <3>2 DEF OneParent, x1, x2
    <3>4. n = m
      BY <2>4, <3>3 DEF x1, x2, o
    <3> QED
      BY <3>3, <3>4
  <2> QED
    BY <2>1, <2>2, <2>3, <2>4
<1> QED
  BY <1>9, <1>10, <1>11 DEF Tree

\* Down to e[k] all ranks grow by one; the new nodes are below.
LEMMA RankGrows ==
  ASSUME NEW h, NEW g, NEW e, NEW k, Changes(h, g, e, k), NEW r, Ranked(h, r),
         AddedAt(h, g, e[k]) \/ SplitAt(h, g, e[k])
  PROVE  \E q : Ranked(g, q)
<1> DEFINE x == e[k]
           a == Len(h) + 1
           q == [n \in 1 .. Len(g) |->
                   IF n \in Prefix(e, k) THEN r[n] + 1
                   ELSE IF n \in 1 .. Len(h) THEN r[n]
                   ELSE IF SplitAt(h, g, x) /\ n = a THEN r[x] ELSE 0]
<1>1. Len(h) \in Nat /\ Len(g) \in Nat
  BY ChangesFacts
<1>2. /\ h \in Seq(Nodes) /\ Len(h) \in Nat /\ Len(g) \in Nat /\ Len(g) > Len(h)
      /\ x \in 1 .. Len(h) /\ x \in Prefix(e, k) /\ Prefix(e, k) \subseteq 1 .. Len(h)
      /\ Tree(h) /\ Path(h, e) /\ k \in 1 .. Len(e)
      /\ \A n \in 1 .. Len(h) : n # x => g[n] = h[n]
  BY ChangesFacts DEF AddedAt, SplitAt
<1>3. \A n \in 1 .. Len(h) : r[n] \in Nat /\ n \in 1 .. Len(g)
  BY <1>2 DEF Ranked
<1>4. \A n \in 1 .. Len(h) : \A i \in Places(h, n) :
        h[n].kids[i] \in 1 .. Len(h) /\ r[h[n].kids[i]] < r[n]
  BY <1>2 DEF Ranked, Tree, Inside
<1>5. q \in [1 .. Len(g) -> Nat]
  BY <1>2, <1>3
<1>6. \A n \in Prefix(e, k) : q[n] = r[n] + 1
  BY <1>2, <1>3
<1>7. \A n \in 1 .. Len(h) : n \notin Prefix(e, k) => q[n] = r[n]
  BY <1>3
<1>8. \A n \in 1 .. Len(g) : n \notin 1 .. Len(h) =>
        q[n] = IF SplitAt(h, g, x) /\ n = a THEN r[x] ELSE 0
  BY <1>2
<1> HIDE DEF q, x
<1>9. \A n \in 1 .. Len(h) : q[n] \in Nat /\ q[n] >= r[n] /\ q[n] <= r[n] + 1
  BY <1>3, <1>6, <1>7
<1>10. ASSUME NEW n \in 1 .. Len(h), NEW i \in Places(h, n), n \notin Prefix(e, k) \/ n = x
      PROVE  q[h[n].kids[i]] = r[h[n].kids[i]]
  <2>1. h[n].kids[i] \notin Prefix(e, k)
    BY <1>2, <1>10, BelowFree DEF x
  <2> QED
    BY <1>4, <1>7, <2>1
<1>11. ASSUME NEW n \in 1 .. Len(h), n # x, NEW i \in Places(g, n)
       PROVE  q[g[n].kids[i]] < q[n]
  <2>1. g[n] = h[n] /\ i \in Places(h, n)
    BY <1>2, <1>11 DEF Places
  <2> DEFINE c == h[n].kids[i]
  <2>2. c \in 1 .. Len(h) /\ r[c] < r[n] /\ g[n].kids[i] = c
    BY <1>4, <2>1
  <2>3. n \notin Prefix(e, k) => q[c] = r[c]
    BY <1>10, <2>1
  <2> HIDE DEF c
  <2>4. CASE n \in Prefix(e, k)
    BY <1>3, <1>6, <1>9, <2>2, <2>4
  <2>5. CASE n \notin Prefix(e, k)
    BY <1>3, <1>7, <2>2, <2>3, <2>5
  <2> QED
    BY <2>4, <2>5
<1>12. q[x] = r[x] + 1 /\ r[x] \in Nat
  BY <1>2, <1>3, <1>6
<1>13. \A i \in Places(h, x) : q[h[x].kids[i]] < r[x]
  BY <1>2, <1>4, <1>10
<1>14. CASE AddedAt(h, g, x)
  <2>1. /\ Len(g) = a /\ Len(g[x].kids) = Len(h[x].kids) + 1
        /\ \A i \in Places(h, x) : g[x].kids[i] = h[x].kids[i]
        /\ g[x].kids[Len(h[x].kids) + 1] = a /\ g[a] = NullNode
    BY <1>14 DEF AddedAt
  <2>2. a \in 1 .. Len(g) /\ a \notin 1 .. Len(h) /\ \A n \in 1 .. Len(g) : n \in 1 .. Len(h) \/ n = a
    <3>1. Len(g) = a
      BY <2>1
    <3> QED
      BY <1>1, <3>1
  <2>3. ~SplitAt(h, g, x)
    BY <1>2, <2>1 DEF SplitAt
  <2>4. q[a] = 0
    BY <1>8, <2>2, <2>3
  <2>5. \A i \in Places(g, a) : FALSE
    BY <2>1, NullKids DEF Places
  <2>6. ASSUME NEW i \in Places(g, x) PROVE q[g[x].kids[i]] < q[x]
    <3>1. Len(h[x].kids) \in Nat
      BY <1>2, NodeTypes
    <3>2. i \in Places(h, x) \/ i = Len(h[x].kids) + 1
      BY <2>1, <2>6, <3>1 DEF Places
    <3>3. CASE i \in Places(h, x)
      <4> DEFINE c == h[x].kids[i]
      <4>1. c \in 1 .. Len(h) /\ q[c] < r[x] /\ g[x].kids[i] = c
        BY <1>2, <1>4, <1>13, <2>1, <3>3
      <4> HIDE DEF c
      <4>2. q[c] \in Nat
        BY <1>9, <4>1
      <4> QED
        BY <1>12, <4>1, <4>2
    <3>4. CASE i = Len(h[x].kids) + 1
      <4>1. q[g[x].kids[i]] = 0
        BY <2>1, <2>4, <3>4
      <4> QED
        BY <1>12, <4>1
    <3> QED
      BY <3>2, <3>3, <3>4
  <2> QED
    BY <1>5, <1>11, <2>2, <2>5, <2>6 DEF Ranked
<1>15. CASE SplitAt(h, g, x)
  <2>1. /\ Len(g) = Len(h) + 2 /\ Len(g[x].kids) = 2
        /\ g[x].kids[1] = a /\ g[x].kids[2] = Len(h) + 2
        /\ g[a] = h[x] /\ g[Len(h) + 2] = NullNode
    BY <1>15 DEF SplitAt
  <2> DEFINE b == Len(h) + 2
  <2>2. /\ a \in 1 .. Len(g) /\ a \notin 1 .. Len(h) /\ b \in 1 .. Len(g) /\ b \notin 1 .. Len(h)
        /\ a # b /\ \A n \in 1 .. Len(g) : n \in 1 .. Len(h) \/ n = a \/ n = b
    <3>1. Len(g) = Len(h) + 2
      BY <2>1
    <3> QED
      BY <1>1, <3>1
  <2>3. q[a] = r[x] /\ q[b] = 0
    BY <1>8, <1>15, <2>2
  <2>4. \A i \in Places(g, b) : FALSE
    BY <2>1, NullKids DEF Places
  <2>5. \A i \in Places(g, x) : i = 1 \/ i = 2
    BY <2>1 DEF Places
  <2>6. ASSUME NEW i \in Places(g, x) PROVE q[g[x].kids[i]] < q[x]
    <3>1. CASE i = 1
      BY <1>12, <2>1, <2>3, <3>1
    <3>2. CASE i = 2
      BY <1>12, <2>1, <2>3, <3>2
    <3> QED
      BY <2>5, <3>1, <3>2
  <2>7. ASSUME NEW i \in Places(g, a) PROVE q[g[a].kids[i]] < q[a]
    BY <1>13, <2>1, <2>3 DEF Places
  <2> HIDE DEF b
  <2> QED
    BY <1>5, <1>11, <2>2, <2>4, <2>6, <2>7 DEF Ranked
<1> QED
  BY <1>14, <1>15 DEF x

-----------------------------------------------------------------------------
(* The words after such a step. *)

Ends(e, k, w, s) == \A n \in Prefix(e, k) : \E a \in Seq(Tokens) : w[n] = a \o s

Gap == One(Hole)

LEMMA HoleSeq == Gap \in Seq(Tokens) /\ Hole \in Tokens
<1>1. Hole \in Tokens
  BY DEF Hole, Tokens, Kinds
<1> QED
  BY <1>1, OneSeq DEF Gap

LEMMA LeafWord ==
  ASSUME NEW g, NEW y, NEW n, ~Infix(g, n), Len(g[n].kids) = 0, g[n].tok \in Tokens
  PROVE  Word(g, y, n) = One(g[n].tok)
<1>1. Args(g[n].kids, y) = << >>
  BY ArgsNone
<1>2. One(g[n].tok) \o << >> = One(g[n].tok)
  BY OneSeq, ConcatEmptySeq
<1> QED
  BY <1>1, <1>2 DEF Word, Infix, One

LEMMA NullWord ==
  ASSUME NEW g, NEW y, NEW n, g[n] = NullNode
  PROVE  Word(g, y, n) = Gap
<1>1. ~Infix(g, n) /\ Len(g[n].kids) = 0
  BY NullKids DEF Infix
<1>2. g[n].tok = Hole
  BY DEF NullNode, Node
<1> QED
  BY <1>1, <1>2, LeafWord, HoleSeq DEF Gap

\* A node in which nothing was gets a token.
LEMMA LeafReads ==
  ASSUME NEW h, NEW g, NEW e, NEW k, Changes(h, g, e, k), LeafAt(h, g, e[k]),
         NEW w, Reads(h, w), Ends(e, k, w, Gap), h[e[k]] = NullNode
  PROVE  \E y, z : Reads(g, y) /\ Rewritten(h, g, w, y, e, k, Gap, One(g[e[k]].tok), z)
<1> DEFINE x == e[k]
           t == One(g[x].tok)
           z == << >>
<1>1. /\ h \in Seq(Nodes) /\ g \in Seq(Nodes) /\ Len(g) = Len(h) /\ x \in 1 .. Len(h)
      /\ Len(h) \in Nat /\ x \in Prefix(e, k)
  BY ChangesFacts DEF LeafAt
<1>2. t \in Seq(Tokens) /\ g[x].tok \in Tokens
  BY <1>1, NodeTypes, OneSeq
<1>3. z \in Seq(Seq(Tokens)) /\ Len(z) = 0
  OBVIOUS
<1> HIDE DEF z
<1>4. Len(g) = Len(h) + Len(z)
  BY <1>1, <1>3
<1> HIDE DEF t
<1>5. PICK y : Rewritten(h, g, w, y, e, k, Gap, t, z)
  BY <1>2, <1>3, <1>4, HoleSeq, RewrittenExists DEF Ends
<1>6. \A n \in 1 .. Len(h) : n # x => y[n] = Word(g, y, n)
  BY <1>2, <1>5, HoleSeq, RewrittenReads
<1>7. PICK a \in Seq(Tokens) : w[x] = a \o Gap /\ y[x] = a \o t
  BY <1>1, <1>5 DEF Rewritten
<1>8. w[x] = Gap
  BY <1>1, NullWord DEF Reads
<1>9. a \o Gap = Gap
  BY <1>7, <1>8
<1>10. a = << >>
  BY <1>9, HoleSeq, ConcatEqualIffEmpty
<1>11. y[x] = t
  BY <1>2, <1>7, <1>10, ConcatEmptySeq
<1>12. Word(g, y, x) = t
  BY <1>2, LeafWord DEF LeafAt, t
<1>13. y \in [1 .. Len(g) -> Seq(Tokens)]
  BY <1>5 DEF Rewritten
<1>14. Reads(g, y)
  BY <1>1, <1>6, <1>11, <1>12, <1>13 DEF Reads
<1> QED
  BY <1>5, <1>14 DEF t

NoWords == << >>

\* Nothing at the end.
LEMMA EndsEmpty ==
  ASSUME NEW h, NEW g, NEW e, NEW k, Changes(h, g, e, k), NEW w, Reads(h, w)
  PROVE  Ends(e, k, w, NoWords)
<1>1. Len(h) \in Nat /\ Prefix(e, k) \subseteq 1 .. Len(h)
  BY ChangesFacts
<1>2. w \in [1 .. Len(h) -> Seq(Tokens)]
  BY DEF Reads
<1>3. ASSUME NEW n \in Prefix(e, k)
      PROVE  \E a \in Seq(Tokens) : w[n] = a \o NoWords
  <2>1. w[n] \in Seq(Tokens)
    BY <1>1, <1>2, InSeqs
  <2>2. w[n] = w[n] \o NoWords
    BY <2>1, ConcatEmptySeq DEF NoWords
  <2> QED
    BY <2>1, <2>2
<1> QED
  BY <1>3 DEF Ends

\* The words of a node that gets one operand more.
LEMMA AddedWord ==
  ASSUME NEW h \in Seq(Nodes), NEW g, NEW x \in 1 .. Len(h), AddedAt(h, g, x), NEW w,
         Known(h, x, w), NEW y, Agree(h, x, w, y), y[Len(h) + 1] = Gap, g[x].tok \in Tokens
  PROVE  /\ Args(h[x].kids, w) \in Seq(Tokens)
         /\ Word(g, y, x) = (One(g[x].tok) \o Args(h[x].kids, w)) \o Gap
<1> DEFINE ks == h[x].kids
           m == Len(ks)
           ls == g[x].kids
<1>1. m \in Nat
  BY NodeTypes
<1>2. /\ ~Infix(g, x) /\ Len(ls) = m + 1
      /\ \A i \in 1 .. m : ls[i] = ks[i]
      /\ y[ls[m + 1]] = Gap
  BY DEF AddedAt, Places
<1>3. Readable(ks, w) /\ \A i \in 1 .. m : y[ks[i]] = w[ks[i]]
  BY <1>1 DEF Known, Agree, Places, Readable
<1> HIDE DEF ks, ls
<1>4. m \in m .. m + 1
  BY <1>1
<1>5. PICK A \in Seq(Tokens) : FirstArgs(A, m, ks, w) /\ (Len(ks) = m => Args(ks, w) = A)
  BY <1>1, <1>3, <1>4, ArgsLast
<1>6. \A i \in 1 .. m : y[ls[i]] = w[ks[i]]
  BY <1>2, <1>3
<1> HIDE DEF m
<1>7. Args(ls, y) = A \o Gap
  <2>1. y[ls[m + 1]] \in Seq(Tokens)
    BY <1>2, HoleSeq
  <2>2. Args(ls, y) = A \o y[ls[m + 1]]
    BY <1>2, <1>5, <1>6, <2>1 DEF FirstArgs
  <2> QED
    BY <1>2, <2>2
<1>8. Word(g, y, x) = One(g[x].tok) \o Args(ls, y)
  BY <1>2 DEF Word, Infix, One, ls
<1>9. One(g[x].tok) \o (A \o Gap) = (One(g[x].tok) \o A) \o Gap
  BY Zenon, <1>5, OneSeq, HoleSeq, Assoc
<1> QED
  BY <1>5, <1>7, <1>8, <1>9 DEF ks, m

\* A node gets one operand more: s are the words of the node h[x] that are replaced,
\* everything if nothing was in it and nothing if it keeps its token.
AddedWords(h, g, x, s, u) ==
  \/ h[x] = NullNode /\ s = Gap /\ u = One(g[x].tok) \o Gap
  \/ ~Infix(h, x) /\ g[x].tok = h[x].tok /\ s = NoWords /\ u = Gap

LEMMA AddedReads ==
  ASSUME NEW h, NEW g, NEW e, NEW k, Changes(h, g, e, k), AddedAt(h, g, e[k]),
         NEW w, Reads(h, w), NEW s, NEW u, AddedWords(h, g, e[k], s, u), Ends(e, k, w, s)
  PROVE  \E y, z : Reads(g, y) /\ y[Len(g)] = Gap /\ Rewritten(h, g, w, y, e, k, s, u, z)
<1> DEFINE x == e[k]
           l == Len(h) + 1
           z == << Gap >>
           t == One(g[x].tok)
<1>1. /\ h \in Seq(Nodes) /\ g \in Seq(Nodes) /\ x \in 1 .. Len(h)
      /\ Len(h) \in Nat /\ x \in Prefix(e, k) /\ Tree(h) /\ Len(g) >= Len(h) /\ Len(g) \in Nat
  BY ChangesFacts
<1>2. Len(g) = l /\ g[l] = NullNode
  BY DEF AddedAt
<1>3. x \in 1 .. Len(g)
  BY <1>1
<1>4. g[x].tok \in Tokens /\ t \in Seq(Tokens)
  BY <1>1, <1>3, NodeTypes, OneSeq
<1>5. s \in Seq(Tokens) /\ u \in Seq(Tokens)
  <2> HIDE DEF x, t
  <2>1. NoWords \in Seq(Tokens)
    BY DEF NoWords
  <2>2. t \o Gap \in Seq(Tokens)
    BY <1>4, HoleSeq, ConcatSeq
  <2> QED
    BY <2>1, <2>2, HoleSeq DEF AddedWords, x, t
<1>6. z \in Seq(Seq(Tokens)) /\ Len(z) = 1 /\ z[1] = Gap
  BY HoleSeq
<1> HIDE DEF z
<1>7. Len(g) = Len(h) + Len(z)
  BY <1>2, <1>6
<1>8. PICK y : Rewritten(h, g, w, y, e, k, s, u, z)
  BY <1>5, <1>6, <1>7, RewrittenExists DEF Ends
<1>9. /\ \A n \in 1 .. Len(h) : n # x => y[n] = Word(g, y, n)
      /\ Agree(h, x, w, y) /\ Known(h, x, w)
  BY <1>1, <1>5, <1>8, RewrittenReads
<1>10. 1 \in 1 .. Len(z)
  BY <1>6
<1>11. y[l] = Gap
  BY <1>6, <1>8, <1>10 DEF Rewritten
<1>12. PICK a \in Seq(Tokens) : w[x] = a \o s /\ y[x] = a \o u
  BY <1>1, <1>8 DEF Rewritten
<1> DEFINE B == Args(h[x].kids, w)
<1>13. B \in Seq(Tokens) /\ Word(g, y, x) = (t \o B) \o Gap
  <2>1. y[Len(h) + 1] = Gap /\ AddedAt(h, g, x)
    BY <1>11
  <2>2. /\ h \in Seq(Nodes) /\ x \in 1 .. Len(h) /\ Known(h, x, w) /\ Agree(h, x, w, y)
        /\ g[x].tok \in Tokens
    BY <1>1, <1>4, <1>9
  <2> HIDE DEF x, l, t, B
  <2>3. /\ Args(h[x].kids, w) \in Seq(Tokens)
        /\ Word(g, y, x) = (One(g[x].tok) \o Args(h[x].kids, w)) \o Gap
    BY <2>1, <2>2, AddedWord
  <2> QED
    BY <2>3 DEF B, t
<1>14. y[x] = Word(g, y, x)
  <2>1. CASE h[x] = NullNode /\ s = Gap /\ u = t \o Gap
    <3>1. w[x] = Gap
      BY <1>1, <2>1, NullWord DEF Reads
    <3>2. a \o Gap = Gap
      BY <1>12, <2>1, <3>1
    <3>3. a = << >>
      BY <3>2, HoleSeq, ConcatEqualIffEmpty
    <3>4. B = << >>
      BY <2>1, NullKids, ArgsNone
    <3> HIDE DEF t, B, x
    <3>5. t \o << >> = t /\ << >> \o u = u
      BY <1>4, <1>5, ConcatEmptySeq
    <3> QED
      BY <1>12, <1>13, <2>1, <3>3, <3>4, <3>5
  <2>2. CASE ~Infix(h, x) /\ g[x].tok = h[x].tok /\ s = NoWords /\ u = Gap
    <3>1. w[x] = t \o B
      BY <1>1, <2>2 DEF Reads, Word, Infix, One
    <3>2. a \o NoWords = a
      BY ConcatEmptySeq DEF NoWords
    <3> HIDE DEF t, B, x
    <3> QED
      BY <1>12, <1>13, <2>2, <3>1, <3>2
  <2> QED
    BY <2>1, <2>2 DEF AddedWords
<1>15. y[l] = Word(g, y, l)
  BY <1>2, <1>11, NullWord
<1>16. \A n \in 1 .. Len(g) : n \in 1 .. Len(h) \/ n = l
  BY <1>1, <1>2
<1>17. y \in [1 .. Len(g) -> Seq(Tokens)]
  BY <1>8 DEF Rewritten
<1>18. Reads(g, y)
  BY <1>9, <1>14, <1>15, <1>16, <1>17 DEF Reads
<1> QED
  BY <1>2, <1>8, <1>11, <1>18

\* A node becomes an infix node over a copy of what it was.
LEMMA SplitReads ==
  ASSUME NEW h, NEW g, NEW e, NEW k, Changes(h, g, e, k), SplitAt(h, g, e[k]),
         NEW w, Reads(h, w)
  PROVE  \E y, z : /\ Reads(g, y) /\ y[Len(g)] = Gap
                   /\ Rewritten(h, g, w, y, e, k, NoWords, One(g[e[k]].tok) \o Gap, z)
<1> DEFINE x == e[k]
           p == Len(h) + 1
           q == Len(h) + 2
           v == w[x]
           z == << v, Gap >>
           t == One(g[x].tok)
           u == t \o Gap
<1>1. /\ h \in Seq(Nodes) /\ g \in Seq(Nodes) /\ x \in 1 .. Len(h)
      /\ Len(h) \in Nat /\ x \in Prefix(e, k) /\ Tree(h) /\ Len(g) >= Len(h) /\ Len(g) \in Nat
  BY ChangesFacts
<1>2. /\ Len(g) = q /\ Infix(g, x) /\ g[x].kids[1] = p /\ g[x].kids[2] = q
      /\ g[p] = h[x] /\ g[q] = NullNode
  BY DEF SplitAt
<1>3. x \in 1 .. Len(g)
  BY <1>1
<1>4. t \in Seq(Tokens)
  BY <1>1, <1>3, NodeTypes, OneSeq
<1>5. v \in Seq(Tokens) /\ v = Word(h, w, x)
  BY <1>1 DEF Reads
<1> HIDE DEF x, v, t
<1>6. u \in Seq(Tokens) /\ NoWords \in Seq(Tokens)
  BY <1>4, HoleSeq, ConcatSeq DEF NoWords
<1>7. z \in Seq(Seq(Tokens)) /\ Len(z) = 2 /\ z[1] = v /\ z[2] = Gap
  BY <1>5, HoleSeq
<1> HIDE DEF z, u
<1>8. Len(g) = Len(h) + Len(z)
  BY <1>2, <1>7
<1>9. \A n \in Prefix(e, k) : \E a \in Seq(Tokens) : w[n] = a \o NoWords
  BY EndsEmpty DEF Ends
<1>10. PICK y : Rewritten(h, g, w, y, e, k, NoWords, u, z)
  BY <1>6, <1>7, <1>8, <1>9, RewrittenExists
<1>11. /\ \A n \in 1 .. Len(h) : n # x => y[n] = Word(g, y, n)
       /\ Agree(h, x, w, y) /\ Known(h, x, w)
  <2>1. /\ \A n \in 1 .. Len(h) : n # e[k] => y[n] = Word(g, y, n)
        /\ Agree(h, e[k], w, y) /\ \A n \in 1 .. Len(h) : Known(h, n, w)
    BY <1>6, <1>10, RewrittenReads
  <2> QED
    BY <1>1, <2>1 DEF x
<1>12. 1 \in 1 .. Len(z) /\ 2 \in 1 .. Len(z)
  BY <1>7
<1>13. y[p] = v /\ y[q] = Gap
  BY <1>7, <1>10, <1>12 DEF Rewritten
<1>14. PICK a \in Seq(Tokens) : w[x] = a \o NoWords /\ y[x] = a \o u
  BY <1>1, <1>10 DEF Rewritten
<1>15. y[x] = v \o u
  BY <1>14, ConcatEmptySeq DEF v, NoWords
<1>16. Word(g, y, x) = v \o t \o Gap
  BY <1>2, <1>13 DEF Word, Infix, One, t
<1>17. y[x] = Word(g, y, x)
  <2>1. v \o (t \o Gap) = (v \o t) \o Gap
    BY Zenon, <1>4, <1>5, HoleSeq, Assoc
  <2> QED
    BY <1>15, <1>16, <2>1 DEF u
<1>18. y[p] = Word(g, y, p)
  BY <1>1, <1>2, <1>5, <1>11, <1>13, WordSame
<1>19. y[q] = Word(g, y, q)
  BY <1>2, <1>13, NullWord
<1>20. \A n \in 1 .. Len(g) : n \in 1 .. Len(h) \/ n = p \/ n = q
  <2>1. \A n \in 1 .. Len(h) + 2 : n \in 1 .. Len(h) \/ n = Len(h) + 1 \/ n = Len(h) + 2
    <3>1. Len(h) \in Nat
      BY <1>1
    <3> QED
      BY SMTT(20), <3>1
  <2> QED
    BY <1>2, <2>1
<1>21. y \in [1 .. Len(g) -> Seq(Tokens)]
  BY <1>10 DEF Rewritten
<1>22. Reads(g, y)
  BY <1>11, <1>17, <1>18, <1>19, <1>20, <1>21 DEF Reads
<1> QED
  BY <1>2, <1>10, <1>13, <1>22 DEF u, t, x

-----------------------------------------------------------------------------
(* What the recursive functions Words and RightEdge are. *)

\* In a finite tree no two functions give every node its words.
LEMMA ReadsOnce ==
  ASSUME NEW h \in Seq(Nodes), Tree(h), NEW r, Ranked(h, r), NEW w, Reads(h, w),
         NEW v, v = [n \in 1 .. Len(h) |-> Word(h, v, n)]
  PROVE  v = w
<1> DEFINE Bad == {n \in 1 .. Len(h) : v[n] # w[n]}
           Ranks == {r[n] : n \in Bad}
<1>1. \A n \in 1 .. Len(h) : r[n] \in Nat
  BY DEF Ranked
<1>2. \A n \in 1 .. Len(h) : v[n] = Word(h, v, n)
  OBVIOUS
<1>3. \A n \in 1 .. Len(h) : w[n] = Word(h, w, n) /\ w[n] \in Seq(Tokens)
  BY DEF Reads
<1>4. \A n \in 1 .. Len(h) : \A i \in Places(h, n) :
        h[n].kids[i] \in 1 .. Len(h) /\ r[h[n].kids[i]] < r[n]
  BY DEF Tree, Inside, Ranked
<1>5. Bad = {}
  <2> SUFFICES ASSUME Bad # {} PROVE FALSE
    OBVIOUS
  <2>1. Ranks \in SUBSET Nat /\ Ranks # {}
    BY <1>1
  <2> HIDE DEF Ranks
  <2>2. PICK m \in Ranks : \A q \in Ranks : m <= q
    BY <2>1, LeastElement
  <2>3. PICK n \in Bad : r[n] = m
    BY <2>2 DEF Ranks
  <2>4. n \in 1 .. Len(h) /\ v[n] # w[n]
    BY <2>3
  <2>5. ASSUME NEW i \in Places(h, n)
        PROVE  v[h[n].kids[i]] = w[h[n].kids[i]]
    <3> DEFINE c == h[n].kids[i]
    <3>1. c \in 1 .. Len(h) /\ r[c] < r[n] /\ r[c] \in Nat /\ r[n] \in Nat
      BY <1>1, <1>4, <2>4
    <3>2. c \in Bad => r[c] \in Ranks
      BY DEF Ranks
    <3> HIDE DEF c
    <3>3. c \notin Bad
      BY <2>2, <2>3, <3>1, <3>2
    <3> QED
      BY <3>1, <3>3 DEF c
  <2>6. Agree(h, n, w, v) /\ Known(h, n, w)
    BY <1>3, <1>4, <2>4, <2>5 DEF Agree, Known
  <2>7. Word(h, v, n) = Word(h, w, n)
    BY <2>4, <2>6, WordSame
  <2> QED
    BY <1>2, <1>3, <2>4, <2>7
<1>6. DOMAIN v = 1 .. Len(h)
  OBVIOUS
<1>7. w \in [1 .. Len(h) -> Seq(Tokens)]
  BY DEF Reads
<1>8. \A n \in 1 .. Len(h) : v[n] = w[n]
  BY <1>5
<1>9. v = [n \in DOMAIN v |-> v[n]]
  OBVIOUS
<1> HIDE DEF Bad
<1>10. v = [n \in 1 .. Len(h) |-> w[n]]
  BY <1>6, <1>8, <1>9
<1> QED
  BY <1>7, <1>10

LEMMA WordsAre ==
  ASSUME heap \in Seq(Nodes), Tree(heap), NEW r, Ranked(heap, r), NEW w, Reads(heap, w)
  PROVE  Words = w
<1> DEFINE V == CHOOSE v : v = [n \in DOMAIN heap |-> Word(heap, v, n)]
<1>1. DOMAIN heap = 1 .. Len(heap)
  OBVIOUS
<1>2. w = [n \in DOMAIN heap |-> Word(heap, w, n)]
  BY <1>1 DEF Reads
<1>3. V = [n \in DOMAIN heap |-> Word(heap, V, n)]
  BY <1>2
<1> HIDE DEF V
<1>4. V = w
  BY <1>1, <1>3, ReadsOnce
<1> QED
  BY <1>4, WordsIsWord DEF V

\* The first nodes of the edge.
Upto(e, i) == SubSeq(e, 1, IF i <= Len(e) THEN i ELSE Len(e))

Down(f, i) ==
  IF i = 1 THEN << 1 >>
  ELSE IF heap[End(f[i - 1])].kids = << >> THEN f[i - 1]
  ELSE Append(f[i - 1], End(heap[End(f[i - 1])].kids))

LEMMA RightEdgeIsDown ==
  RightEdge = (CHOOSE f : f = [i \in 1 .. Len(heap) |-> Down(f, i)])[Len(heap)]
  BY DEF RightEdge, Down

LEMMA UptoSteps ==
  ASSUME NEW S, NEW e \in Seq(S), Len(e) >= 1, NEW i \in Nat, i >= 1
  PROVE  /\ Upto(e, 1) = << e[1] >>
         /\ i <= Len(e) => End(Upto(e, i)) = e[i]
         /\ i < Len(e) => Upto(e, i + 1) = Append(Upto(e, i), e[i + 1])
         /\ i >= Len(e) => Upto(e, i) = e
<1>1. Upto(e, 1) = << e[1] >>
  <2>1. Upto(e, 1) = SubSeq(e, 1, 1)
    BY DEF Upto
  <2>2. SubSeq(e, 1, 1) \in Seq(S) /\ Len(SubSeq(e, 1, 1)) = 1 /\ SubSeq(e, 1, 1)[1] = e[1]
    OBVIOUS
  <2> QED
    BY <2>1, <2>2
<1>2. ASSUME i <= Len(e) PROVE End(Upto(e, i)) = e[i]
  BY <1>2 DEF Upto, End
<1>3. ASSUME i < Len(e) PROVE Upto(e, i + 1) = Append(Upto(e, i), e[i + 1])
  <2>1. Upto(e, i) = SubSeq(e, 1, i) /\ Upto(e, i + 1) = SubSeq(e, 1, i + 1)
    BY <1>3 DEF Upto
  <2>2. SubSeq(e, 1, i + 1) = Append(SubSeq(e, 1, i), e[i + 1])
    BY <1>3
  <2> QED
    BY <2>1, <2>2
<1>4. ASSUME i >= Len(e) PROVE Upto(e, i) = e
  BY <1>4 DEF Upto
<1> QED
  BY <1>1, <1>2, <1>3, <1>4

LEMMA EdgeIs ==
  ASSUME heap \in Seq(Nodes), NEW e, Path(heap, e)
  PROVE  RightEdge = e
<1> DEFINE L == Len(heap)
           F(f) == [i \in 1 .. L |-> Down(f, i)]
           g == [i \in 1 .. L |-> Upto(e, i)]
           f == CHOOSE f : f = F(f)
<1>1. /\ e \in Seq(1 .. L) /\ Len(e) \in 1 .. L /\ e[1] = 1 /\ L \in Nat /\ Len(e) \in Nat
      /\ Len(heap[e[Len(e)]].kids) = 0
  BY DEF Path
<1>2. ASSUME NEW i \in 1 .. Len(e)
      PROVE  /\ heap[e[i]].kids \in Seq(Nat)
             /\ i < Len(e) => /\ heap[e[i]].kids # << >>
                              /\ e[i + 1] = End(heap[e[i]].kids)
  <2>1. heap[e[i]].kids \in Seq(Nat)
    BY PathNodes, NodeTypes
  <2>2. ASSUME i < Len(e)
        PROVE  Len(heap[e[i]].kids) > 0 /\ e[i + 1] = heap[e[i]].kids[Len(heap[e[i]].kids)]
    <3>1. i \in 1 .. Len(e) - 1
      BY <1>1, <2>2
    <3> QED
      BY <3>1 DEF Path
  <2> QED
    BY <2>1, <2>2 DEF End
<1>3. heap[e[Len(e)]].kids = << >>
  <2>1. Len(e) \in 1 .. Len(e)
    BY <1>1
  <2>2. heap[e[Len(e)]].kids \in Seq(Nat)
    BY <1>2, <2>1
  <2> QED
    BY <1>1, <2>2
<1>4. ASSUME NEW h, NEW i \in 1 .. L, i # 1 => h[i - 1] = Upto(e, i - 1)
      PROVE  Down(h, i) = Upto(e, i)
  <2>1. CASE i = 1
    BY <1>1, <2>1, UptoSteps DEF Down
  <2>2. CASE i # 1
    <3> DEFINE j == i - 1
    <3>1. j \in Nat /\ j >= 1 /\ i = j + 1
      BY <1>1, <2>2
    <3> HIDE DEF j
    <3>2. h[i - 1] = Upto(e, j)
      BY <1>4, <2>2 DEF j
    <3>3. /\ j <= Len(e) => End(Upto(e, j)) = e[j]
          /\ j < Len(e) => Upto(e, j + 1) = Append(Upto(e, j), e[j + 1])
          /\ j >= Len(e) => Upto(e, j) = e
          /\ j + 1 >= Len(e) => Upto(e, j + 1) = e
      <4>1. e \in Seq(1 .. L) /\ Len(e) >= 1 /\ j + 1 \in Nat /\ j + 1 >= 1
        BY <1>1, <3>1
      <4>2. j + 1 >= Len(e) => Upto(e, j + 1) = e
        BY <4>1, UptoSteps
      <4> QED
        BY <3>1, <4>1, <4>2, UptoSteps
    <3>4. CASE j < Len(e)
      <4>1. j \in 1 .. Len(e)
        BY <1>1, <3>1, <3>4
      <4>2. heap[e[j]].kids # << >> /\ e[j + 1] = End(heap[e[j]].kids)
        BY <1>2, <3>4, <4>1
      <4>3. Down(h, i) = Append(Upto(e, j), End(heap[e[j]].kids))
        BY <2>2, <3>1, <3>2, <3>3, <3>4, <4>2 DEF Down
      <4> QED
        BY <3>1, <3>3, <3>4, <4>2, <4>3
    <3>5. CASE j >= Len(e)
      <4>1. End(Upto(e, j)) = e[Len(e)]
        BY <3>3, <3>5 DEF End
      <4>2. Down(h, i) = Upto(e, j)
        BY <1>3, <2>2, <3>2, <4>1 DEF Down
      <4>3. Upto(e, i) = e
        BY <1>1, <3>1, <3>3, <3>5
      <4> QED
        BY <3>3, <3>5, <4>2, <4>3
    <3> QED
      BY <1>1, <3>1, <3>4, <3>5
  <2> QED
    BY <2>1, <2>2
<1>5. g = F(g)
  <2>1. ASSUME NEW i \in 1 .. L PROVE Down(g, i) = Upto(e, i)
    <3>1. i # 1 => i - 1 \in 1 .. L
      BY <1>1
    <3>2. i # 1 => g[i - 1] = Upto(e, i - 1)
      BY <3>1
    <3> HIDE DEF g
    <3> QED
      BY <1>4, <3>2
  <2> QED
    BY <2>1
<1>6. f = F(f)
  BY <1>5
<1> HIDE DEF f
<1>7. \A i \in 1 .. L : f[i] = Down(f, i)
  BY <1>6
<1> DEFINE Bad == {i \in 1 .. L : f[i] # Upto(e, i)}
<1>8. Bad = {}
  <2> SUFFICES ASSUME Bad # {} PROVE FALSE
    OBVIOUS
  <2>1. Bad \in SUBSET Nat
    BY <1>1
  <2>2. PICK m \in Bad : \A q \in Bad : m <= q
    <3> HIDE DEF Bad
    <3> QED
      BY <2>1, LeastElement
  <2>3. m \in 1 .. L /\ f[m] # Upto(e, m)
    OBVIOUS
  <2>4. m # 1 => m - 1 \in 1 .. L /\ ~(m <= m - 1)
    BY <1>1, <2>3
  <2>5. m # 1 => m - 1 \notin Bad
    BY <2>2, <2>4
  <2>6. m # 1 => f[m - 1] = Upto(e, m - 1)
    BY <2>4, <2>5
  <2> HIDE DEF Bad
  <2>7. Down(f, m) = Upto(e, m)
    BY <1>4, <2>3, <2>6
  <2> QED
    BY <1>7, <2>3, <2>7
<1>9. f[L] = Upto(e, L)
  <2>1. L \in 1 .. L
    BY <1>1
  <2> QED
    BY <1>8, <2>1
<1>10. Upto(e, L) = e
  <2>1. L \in Nat /\ L >= 1 /\ L >= Len(e) /\ Len(e) >= 1
    BY <1>1
  <2> QED
    BY <1>1, <2>1, UptoSteps
<1> QED
  BY <1>9, <1>10, RightEdgeIsDown DEF f

-----------------------------------------------------------------------------
(***************************************************************************)
(* The invariant behind TokensInOrder and OpenCallsOnRightEdge.  The       *)
(* parser works on the right edge e of the tree: running_expr is e[p], the *)
(* arguments being parsed are e[d[1]], e[d[2]], ..., each below its call;  *)
(* and when an operand is expected running_expr is the end of the edge,    *)
(* and the words of all nodes of the edge end with the gap it fills.       *)
(***************************************************************************)
Calls(h, st, e, d, p) ==
  \A i \in 1 .. Len(st) :
    /\ d[i] \in 2 .. p /\ st[i] = e[d[i]]
    /\ h[e[d[i] - 1]].t = "call"
    /\ \A j \in 1 .. i - 1 : d[j] < d[i]

Order(w, e, r, d, p) ==
  /\ Tree(heap) /\ Ranked(heap, r) /\ Reads(heap, w) /\ Path(heap, e)
  /\ p \in 1 .. Len(e) /\ running = e[p] /\ Calls(heap, stack, e, d, p)
  /\ ph = "operand" => /\ p = Len(e) /\ heap[running] = NullNode
                       /\ Ends(e, p, w, Gap) /\ w[1] = toks \o Gap
  /\ OperandRead => w[1] = toks
  /\ ph = "done" => w[1] \in {toks, toks \o Gap}

Ordered  == \E w, e, r, d, p : Order(w, e, r, d, p)
OrderInv == ShapeInv /\ Ordered

LEMMA AppendIs ==
  ASSUME NEW s \in Seq(Tokens), NEW t \in Tokens
  PROVE  Append(s, t) = s \o One(t)
  BY AppendIsConcat DEF One

LEMMA Phases ==
  ASSUME TypeInv
  PROVE  ph = "operand" \/ OperandRead \/ ph = "done"
  BY DEF TypeInv, OperandRead

LEMMA OrderImplies ==
  ASSUME OrderInv
  PROVE  TokensInOrder /\ OpenCallsOnRightEdge
<1>1. PICK w, e, r, d, p : Order(w, e, r, d, p)
  BY DEF OrderInv, Ordered
<1>2. heap \in Seq(Nodes) /\ stack \in Seq(1 .. Len(heap)) /\ toks \in Seq(Tokens) /\ TypeInv
  BY DEF OrderInv, ShapeInv, TypeInv
<1>3. Words = w /\ RightEdge = e
  BY <1>1, <1>2, WordsAre, EdgeIs DEF Order
<1>4. TokensInOrder
  <2>1. Append(toks, Hole) = toks \o Gap
    BY <1>2, HoleSeq, AppendIs DEF Gap
  <2>2. ph = "operand" => ~OperandRead
    BY DEF OperandRead
  <2>3. ph = "done" => ~OperandRead /\ ph # "operand"
    BY DEF OperandRead
  <2>4. OperandRead => ph # "operand"
    BY DEF OperandRead
  <2> QED
    BY <1>1, <1>2, <1>3, <2>1, <2>2, <2>3, <2>4, Phases DEF Order, TokensInOrder
<1>5. OpenCallsOnRightEdge
  <2> DEFINE Depth(n) == CHOOSE i \in DOMAIN e : e[i] = n
             Ns == {e[i] : i \in DOMAIN e}
  <2>1. DOMAIN e = 1 .. Len(e) /\ Len(e) \in Nat /\ DOMAIN stack = 1 .. Len(stack)
    BY <1>1, <1>2 DEF Order, Path
  <2>2. \A i \in 1 .. Len(e) : Depth(e[i]) = i /\ e[i] \in Ns
    BY <1>1, <2>1 DEF Order, Path
  <2> HIDE DEF Depth, Ns
  <2>3. p \in 1 .. Len(e) /\ running = e[p]
    BY <1>1 DEF Order
  <2>4. ASSUME NEW i \in 1 .. Len(stack)
        PROVE  /\ d[i] \in 1 .. Len(e) /\ d[i] <= p /\ stack[i] = e[d[i]]
               /\ \A j \in 1 .. i - 1 : d[j] < d[i]
    <3> DEFINE c == d[i]
    <3>1. c \in 2 .. p /\ stack[i] = e[c] /\ \A j \in 1 .. i - 1 : d[j] < c
      BY <1>1, <2>4 DEF Order, Calls
    <3> HIDE DEF c
    <3>2. c \in 1 .. Len(e) /\ c <= p
      BY <2>1, <2>3, <3>1
    <3> QED
      BY <3>1, <3>2 DEF c
  <2>5. running \in Ns /\ Depth(running) = p
    BY <2>2, <2>3
  <2>6. \A i \in 1 .. Len(stack) : stack[i] \in Ns /\ Depth(stack[i]) = d[i]
    BY <2>2, <2>4
  <2>7. \A i \in 1 .. Len(stack) : \A j \in 1 .. i - 1 : j \in 1 .. Len(stack)
    BY <1>2
  <2>8. /\ running \in Ns
        /\ \A i \in DOMAIN stack :
             /\ stack[i] \in Ns /\ Depth(stack[i]) <= Depth(running)
             /\ \A j \in 1 .. i - 1 : Depth(stack[j]) < Depth(stack[i])
    BY <2>1, <2>4, <2>5, <2>6, <2>7
  <2> QED
    BY <1>3, <2>8 DEF OpenCallsOnRightEdge, Depth, Ns
<1> QED
  BY <1>4, <1>5

-----------------------------------------------------------------------------
(* The arguments being parsed, after a step. *)

SameTo(e, f, k) == \A i \in 1 .. k : f[i] = e[i]

\* A step that changes the edge from e[k] on keeps what is above e[k].
LEMMA CallsStay ==
  ASSUME NEW h, NEW g, NEW e, NEW k, Changes(h, g, e, k), NEW st, NEW d, NEW p \in 1 .. k,
         Calls(h, st, e, d, p), NEW f, SameTo(e, f, k), NEW q, q \in Nat, p <= q
  PROVE  Calls(g, st, f, d, q)
<1>1. /\ k \in 1 .. Len(e) /\ Len(e) \in Nat /\ Path(h, e)
      /\ \A n \in 1 .. Len(h) : n # e[k] => g[n] = h[n]
      /\ \A i \in 1 .. Len(e) : e[i] \in 1 .. Len(h)
  <2>1. Path(h, e) /\ k \in 1 .. Len(e) /\ \A n \in 1 .. Len(h) : n # e[k] => g[n] = h[n]
    BY DEF Changes
  <2>2. Len(e) \in Nat
    BY <2>1 DEF Path
  <2> QED
    BY <2>1, <2>2, PathNodes
<1> SUFFICES ASSUME NEW i \in 1 .. Len(st)
             PROVE  /\ d[i] \in 2 .. q /\ st[i] = f[d[i]]
                    /\ g[f[d[i] - 1]].t = "call"
                    /\ \A j \in 1 .. i - 1 : d[j] < d[i]
  BY DEF Calls
<1> DEFINE c == d[i]
           b == d[i] - 1
<1>2. /\ c \in 2 .. p /\ st[i] = e[c] /\ h[e[b]].t = "call" /\ \A j \in 1 .. i - 1 : d[j] < c
  BY DEF Calls
<1> HIDE DEF c
<1>3. b = c - 1 /\ k \in Nat /\ q \in Nat /\ p <= k /\ p <= q /\ p \in Nat
  BY <1>1 DEF c
<1> HIDE DEF b
<1>4. /\ b \in 1 .. k /\ b # k /\ c \in 1 .. k /\ c \in 2 .. q
  BY <1>2, <1>3
<1>5. b \in 1 .. Len(e) /\ e[b] # e[k]
  BY <1>1, <1>4 DEF Path
<1>6. g[e[b]] = h[e[b]]
  BY <1>1, <1>5
<1>7. f[c] = e[c] /\ f[b] = e[b]
  BY <1>4 DEF SameTo
<1> QED
  BY <1>2, <1>4, <1>6, <1>7 DEF b, c

LEMMA CallsMore ==
  ASSUME NEW g, NEW st, NEW e, NEW d, NEW k \in Nat, Calls(g, st, e, d, k)
  PROVE  Calls(g, st, e, d, k + 1)
<1>1. \A x \in 2 .. k : x \in 2 .. k + 1
  OBVIOUS
<1> QED
  BY <1>1 DEF Calls

Push(d, n, k) == [i \in 1 .. n + 1 |-> IF i = n + 1 THEN k ELSE d[i]]

\* A call is opened, or its next argument begins, at the end of the edge.
LEMMA CallsPush ==
  ASSUME NEW g, NEW S, NEW st \in Seq(S), NEW e, NEW d, NEW k \in Nat, Calls(g, st, e, d, k),
         NEW l \in S, e[k + 1] = l, g[e[k]].t = "call", k >= 1
  PROVE  Calls(g, Append(st, l), e, Push(d, Len(st), k + 1), k + 1)
<1> DEFINE n == Len(st)
           c == Push(d, n, k + 1)
           s == Append(st, l)
<1>1. n \in Nat /\ Len(s) = n + 1 /\ s[n + 1] = l /\ \A i \in 1 .. n : s[i] = st[i]
  BY AppendFacts
<1>2. c[n + 1] = k + 1 /\ \A i \in 1 .. n : c[i] = d[i]
  BY <1>1 DEF Push
<1>3. \A i \in 1 .. n : /\ d[i] \in 2 .. k /\ st[i] = e[d[i]] /\ g[e[d[i] - 1]].t = "call"
                        /\ \A j \in 1 .. i - 1 : d[j] < d[i]
  BY DEF Calls
<1> HIDE DEF c, s, n
<1>4. ASSUME NEW i \in 1 .. n + 1
      PROVE  /\ c[i] \in 2 .. k + 1 /\ s[i] = e[c[i]]
             /\ g[e[c[i] - 1]].t = "call"
             /\ \A j \in 1 .. i - 1 : c[j] < c[i]
  <2>1. CASE i = n + 1
    <3>1. (k + 1) - 1 = k /\ k + 1 \in 2 .. k + 1
      OBVIOUS
    <3>2. \A j \in 1 .. i - 1 : j \in 1 .. n
      BY <1>1, <2>1
    <3>3. \A j \in 1 .. n : c[j] < k + 1
      BY <1>2, <1>3
    <3> QED
      BY <1>1, <1>2, <2>1, <3>1, <3>2, <3>3
  <2>2. CASE i \in 1 .. n
    <3>1. c[i] = d[i] /\ s[i] = st[i]
      BY <1>1, <1>2, <2>2
    <3>2. \A j \in 1 .. i - 1 : c[j] = d[j]
      BY <1>1, <1>2, <2>2
    <3>3. \A x \in 2 .. k : x \in 2 .. k + 1
      OBVIOUS
    <3> QED
      BY <1>3, <2>2, <3>1, <3>2, <3>3
  <2> QED
    BY <1>1, <2>1, <2>2
<1> QED
  BY <1>1, <1>4 DEF Calls, c, s, n

\* The stack without its last entry, and the place of that entry.
LEMMA CallsFront ==
  ASSUME NEW S, NEW st \in Seq(S), st # << >>, NEW h, NEW e, NEW d, NEW p \in Nat,
         Calls(h, st, e, d, p)
  PROVE  \E k \in 1 .. p - 1 : /\ End(st) = e[k + 1] /\ h[e[k]].t = "call"
                               /\ Calls(h, Front(st), e, d, k) /\ Calls(h, st, e, d, k + 1)
<1> DEFINE n == Len(st)
           f == Front(st)
<1>1. /\ n \in Nat /\ n > 0 /\ Len(f) = n - 1 /\ \A i \in 1 .. n - 1 : f[i] = st[i]
      /\ n \in 1 .. n /\ End(st) = st[n]
  BY FrontFacts
<1>2. \A i \in 1 .. n : /\ d[i] \in 2 .. p /\ st[i] = e[d[i]] /\ h[e[d[i] - 1]].t = "call"
                        /\ \A j \in 1 .. i - 1 : d[j] < d[i]
  BY DEF Calls
<1> DEFINE k == d[n] - 1
<1> HIDE DEF f, n
<1>3. d[n] \in 2 .. p /\ End(st) = e[d[n]] /\ h[e[k]].t = "call"
  BY <1>1, <1>2
<1>4. k \in 1 .. p - 1 /\ d[n] = k + 1 /\ k \in Nat
  BY <1>3
<1> HIDE DEF k
<1>5. \A i \in 1 .. n - 1 : i \in 1 .. n /\ d[i] < d[n] /\ d[i] \in 2 .. p
  BY <1>1, <1>2
<1>6. \A i \in 1 .. n - 1 : d[i] \in 2 .. k
  BY <1>4, <1>5
<1>7. Calls(h, f, e, d, k)
  <2> SUFFICES ASSUME NEW i \in 1 .. n - 1
               PROVE  /\ d[i] \in 2 .. k /\ f[i] = e[d[i]] /\ h[e[d[i] - 1]].t = "call"
                      /\ \A j \in 1 .. i - 1 : d[j] < d[i]
    BY <1>1 DEF Calls
  <2> QED
    BY <1>1, <1>2, <1>5, <1>6
<1>8. Calls(h, st, e, d, k + 1)
  <2> SUFFICES ASSUME NEW i \in 1 .. n
               PROVE  d[i] \in 2 .. k + 1
    BY <1>2 DEF Calls, n
  <2>1. i = n \/ i \in 1 .. n - 1
    BY <1>1
  <2>2. \A x \in 2 .. k : x \in 2 .. k + 1
    BY <1>4
  <2>3. k + 1 \in 2 .. k + 1
    BY <1>4
  <2> QED
    BY <1>4, <1>6, <2>1, <2>2, <2>3
<1> QED
  BY <1>3, <1>4, <1>7, <1>8 DEF f

-----------------------------------------------------------------------------
(* The steps. *)

Appended(h, g, new)      == \A i \in 1 .. Len(new) : g[Len(h) + i] = new[i]
Updated(h, g, x, m, new) == g = [h EXCEPT ![x] = m] \o new

\* What is known of the heap after a step that changes e[k].
LEMMA ChangesIs ==
  ASSUME NEW h \in Seq(Nodes), Tree(h), NEW e, Path(h, e), NEW k \in 1 .. Len(e), NEW g,
         NEW m \in Nodes, NEW new \in Seq(Nodes), Updated(h, g, e[k], m, new)
  PROVE  /\ Changes(h, g, e, k) /\ Len(g) = Len(h) + Len(new) /\ g[e[k]] = m
         /\ Appended(h, g, new)
<1>1. e[k] \in 1 .. Len(h)
  BY PathNodes
<1> DEFINE x == e[k]
<1> HIDE DEF x
<1>2. g = [h EXCEPT ![x] = m] \o new
  BY DEF Updated, x
<1>3. /\ g \in Seq(Nodes) /\ Len(g) = Len(h) + Len(new)
      /\ \A i \in 1 .. Len(h) : g[i] = IF i = x THEN m ELSE h[i]
      /\ \A i \in 1 .. Len(new) : g[Len(h) + i] = new[i]
  <2> DEFINE f == [h EXCEPT ![x] = m] \o new
  <2>1. /\ f \in Seq(Nodes) /\ Len(f) = Len(h) + Len(new)
        /\ \A i \in 1 .. Len(h) : f[i] = IF i = x THEN m ELSE h[i]
        /\ \A i \in 1 .. Len(new) : f[Len(h) + i] = new[i]
    BY ExceptConcatFacts
  <2> HIDE DEF f
  <2> QED
    BY <1>2, <2>1 DEF f
<1>4. Len(g) >= Len(h)
  BY <1>3
<1>5. g[x] = m /\ \A i \in 1 .. Len(h) : i # x => g[i] = h[i]
  BY <1>1, <1>3 DEF x
<1> QED
  BY <1>3, <1>4, <1>5 DEF Changes, Appended, x

UpdatedOne(h, g, x, m, a)    == Updated(h, g, x, m, << a >>)
UpdatedTwo(h, g, x, m, a, b) == Updated(h, g, x, m, << a, b >>)

LEMMA ChangesOne ==
  ASSUME NEW h \in Seq(Nodes), Tree(h), NEW e, Path(h, e), NEW k \in 1 .. Len(e), NEW g,
         NEW m \in Nodes, NEW a \in Nodes, UpdatedOne(h, g, e[k], m, a)
  PROVE  /\ Changes(h, g, e, k) /\ Len(g) = Len(h) + 1 /\ g[e[k]] = m
         /\ g[Len(h) + 1] = a
<1> DEFINE new == << a >>
<1>1. new \in Seq(Nodes) /\ Len(new) = 1 /\ new[1] = a /\ Updated(h, g, e[k], m, new)
  BY DEF UpdatedOne
<1> HIDE DEF new
<1>2. 1 \in 1 .. Len(new)
  BY <1>1
<1>3. /\ Changes(h, g, e, k) /\ Len(g) = Len(h) + Len(new) /\ g[e[k]] = m
      /\ Appended(h, g, new)
  BY <1>1, ChangesIs
<1> QED
  BY <1>1, <1>2, <1>3 DEF Appended

LEMMA ChangesTwo ==
  ASSUME NEW h \in Seq(Nodes), Tree(h), NEW e, Path(h, e), NEW k \in 1 .. Len(e), NEW g,
         NEW m \in Nodes, NEW a \in Nodes, NEW b \in Nodes, UpdatedTwo(h, g, e[k], m, a, b)
  PROVE  /\ Changes(h, g, e, k) /\ Len(g) = Len(h) + 2 /\ g[e[k]] = m
         /\ g[Len(h) + 1] = a /\ g[Len(h) + 2] = b
<1> DEFINE new == << a, b >>
<1>1. /\ new \in Seq(Nodes) /\ Len(new) = 2 /\ new[1] = a /\ new[2] = b
      /\ Updated(h, g, e[k], m, new)
  BY DEF UpdatedTwo
<1> HIDE DEF new
<1>2. 1 \in 1 .. Len(new) /\ 2 \in 1 .. Len(new)
  BY <1>1
<1>3. /\ Changes(h, g, e, k) /\ Len(g) = Len(h) + Len(new) /\ g[e[k]] = m
      /\ Appended(h, g, new)
  BY <1>1, ChangesIs
<1> QED
  BY <1>1, <1>2, <1>3 DEF Appended

LEMMA FirstOnPath ==
  ASSUME NEW h, NEW e, Path(h, e), NEW k \in 1 .. Len(e)
  PROVE  1 \in Prefix(e, k)
<1>1. 1 \in 1 .. k /\ e[1] = 1
  BY DEF Path
<1> QED
  BY <1>1 DEF Prefix

\* The words of the edge end with the gap again.
LEMMA EndsGrows ==
  ASSUME NEW h, NEW g, NEW e, NEW k, Changes(h, g, e, k), NEW w, NEW y, NEW s, NEW v \in Seq(Tokens),
         NEW u, u = v \o Gap, NEW z, Rewritten(h, g, w, y, e, k, s, u, z), y[Len(g)] = Gap,
         NEW f, \A i \in 1 .. k : f[i] = e[i], f[k + 1] = Len(g)
  PROVE  Ends(f, k + 1, y, Gap)
<1>1. k \in Nat
  BY ChangesFacts
<1>2. ASSUME NEW n \in Prefix(f, k + 1)
      PROVE  \E a \in Seq(Tokens) : y[n] = a \o Gap
  <2>1. PICK i \in 1 .. k + 1 : n = f[i]
    BY DEF Prefix
  <2>2. CASE i = k + 1
    <3>1. y[n] = NoWords \o Gap /\ NoWords \in Seq(Tokens)
      BY <2>1, <2>2, HoleSeq, ConcatEmptySeq DEF NoWords
    <3> QED
      BY <3>1
  <2>3. CASE i \in 1 .. k
    <3>1. n \in Prefix(e, k)
      BY <2>1, <2>3 DEF Prefix
    <3>2. PICK a \in Seq(Tokens) : y[n] = a \o (v \o Gap)
      BY <3>1 DEF Rewritten
    <3>3. a \o v \in Seq(Tokens) /\ y[n] = (a \o v) \o Gap
      BY <3>2, HoleSeq, Assoc, ConcatSeq
    <3> QED
      BY <3>3
  <2>4. i = k + 1 \/ i \in 1 .. k
    BY <1>1
  <2> QED
    BY <2>2, <2>3, <2>4
<1> QED
  BY <1>2 DEF Ends

\* With v for the words s at its end, the statement reads like t.
Turns(w, s, v, t) == \A a \in Seq(Tokens) : w[1] = a \o s => a \o v = t

(***************************************************************************)
(* A step after which the operand to come is the new end of the edge, the  *)
(* node below e[k]: s are the words it moves out of the way, v those it    *)
(* puts there, before the gap.                                             *)
(***************************************************************************)
LEMMA GrowOrder ==
  ASSUME ShapeInv, NEW w, NEW e, NEW r, NEW d, NEW p, Order(w, e, r, d, p),
         NEW k, Changes(heap, heap', e, k),
         AddedAt(heap, heap', e[k]) \/ SplitAt(heap, heap', e[k]),
         NEW y, Reads(heap', y), NEW s \in Seq(Tokens), NEW v \in Seq(Tokens), NEW u,
         u = v \o Gap, NEW z, Rewritten(heap, heap', w, y, e, k, s, u, z), y[Len(heap')] = Gap,
         Turns(w, s, v, toks'),
         running' = Len(heap'), ph' = "operand",
         NEW c, Calls(heap', stack', Grow(e, k, Len(heap')), c, k + 1)
  PROVE  Ordered'
<1> DEFINE g == heap'
           l == Len(g)
<1>1. PICK f : f = Grow(e, k, l)
  OBVIOUS
<1>2. /\ Path(heap, e) /\ k \in 1 .. Len(e) /\ k \in Nat /\ Tree(heap)
      /\ Len(heap) \in Nat /\ l \in Nat
  BY ChangesFacts
<1>3. Tree(g)
  BY AddedTree, SplitTree
<1>4. PICK q : Ranked(g, q)
  BY RankGrows DEF Order
<1>5. g[l] = NullNode /\ l > Len(heap)
  <2>1. \/ l = Len(heap) + 1 /\ g[Len(heap) + 1] = NullNode
        \/ l = Len(heap) + 2 /\ g[Len(heap) + 2] = NullNode
    BY DEF AddedAt, SplitAt
  <2> HIDE DEF l
  <2> QED
    BY <1>2, <2>1
<1>6. Len(g[e[k]].kids) > 0 /\ g[e[k]].kids[Len(g[e[k]].kids)] = l
  <2>1. CASE AddedAt(heap, g, e[k])
    <3>1. Len(heap[e[k]].kids) \in Nat
      BY ChangesFacts, NodeTypes
    <3> QED
      BY <2>1, <3>1 DEF AddedAt
  <2>2. CASE SplitAt(heap, g, e[k])
    BY <2>2 DEF SplitAt
  <2> QED
    BY <2>1, <2>2
<1>7. Len(g[l].kids) = 0
  BY <1>5, NullKids
<1> HIDE DEF g
<1>8. /\ Path(g, f) /\ Len(f) = k + 1 /\ \A i \in 1 .. k : f[i] = e[i]
      /\ f[k + 1] = l
  <2>1. Changes(heap, g, e, k)
    BY DEF g
  <2>2. /\ Path(g, Grow(e, k, Len(g))) /\ Len(Grow(e, k, Len(g))) = k + 1
        /\ \A i \in 1 .. k : Grow(e, k, Len(g))[i] = e[i]
        /\ Grow(e, k, Len(g))[k + 1] = Len(g)
    BY <1>5, <1>6, <1>7, <2>1, PathGrows
  <2> QED
    BY <1>1, <2>2
<1>9. Ends(f, k + 1, y, Gap)
  BY <1>8, EndsGrows DEF g
<1>10. y[1] = toks' \o Gap
  <2>1. PICK a \in Seq(Tokens) : w[1] = a \o s /\ y[1] = a \o (v \o Gap)
    BY <1>2, FirstOnPath DEF Rewritten
  <2>2. a \o (v \o Gap) = (a \o v) \o Gap
    BY HoleSeq, Assoc
  <2> QED
    BY <2>1, <2>2 DEF Turns
<1>11. ~OperandRead'
  BY DEF OperandRead
<1>12. k + 1 \in 1 .. Len(f)
  BY <1>2, <1>8
<1>13. Calls(g, stack', f, c, k + 1)
  BY <1>1 DEF g
<1>14. ~OperandRead' /\ ph' # "done"
  BY <1>11
<1>15. running' = f[k + 1] /\ g[running'] = NullNode
  BY <1>5, <1>8 DEF g
<1>16. Order(y, f, q, c, k + 1)'
  BY <1>3, <1>4, <1>8, <1>9, <1>10, <1>12, <1>13, <1>14, <1>15 DEF Order, g
<1> QED
  BY <1>16 DEF Ordered

\* ParseAtom and ParseEmptyCall.
LEMMA LeafOrder ==
  ASSUME ShapeInv, NEW w, NEW e, NEW r, NEW d, NEW p, Order(w, e, r, d, p),
         NEW t \in Types, t # "binop" /\ t # "assign", NEW kind \in Kinds,
         ph = "operand", Read(kind), Become(running, Node(t, Token(kind), "none", << >>), << >>),
         ph' \in {"variable", "after"}, UNCHANGED << running, stack >>
  PROVE  Ordered'
<1>m. PICK m : m = Node(t, Token(kind), "none", << >>)
  OBVIOUS
<1>n. PICK new : new = << >>
  OBVIOUS
<1> DEFINE tok == Token(kind)
<1>1. tok \in Tokens /\ toks \in Seq(Tokens) /\ toks' = Append(toks, tok)
  BY ReadFacts DEF ShapeInv, TypeInv, Read
<1>2. /\ p = Len(e) /\ p \in 1 .. Len(e) /\ running = e[p] /\ heap[running] = NullNode
      /\ Ends(e, p, w, Gap) /\ w[1] = toks \o Gap /\ Reads(heap, w) /\ Ranked(heap, r)
      /\ Calls(heap, stack, e, d, p) /\ Path(heap, e)
  BY DEF Order
<1>3. /\ m \in Nodes /\ m.t = t /\ m.tok = tok /\ m.kids = << >>
  <2>1. << >> \in Seq(Nat)
    OBVIOUS
  <2> HIDE DEF tok
  <2>2. Node(t, tok, "none", << >>) \in Nodes
    BY <1>1, <2>1, NodeFacts
  <2> QED
    BY <1>m, <2>2 DEF Node, tok
<1>4. new \in Seq(Nodes) /\ Len(new) = 0 /\ Updated(heap, heap', e[p], m, new)
  BY <1>2, <1>m, <1>n DEF Become, Updated
<1> HIDE DEF tok
<1> DEFINE g == heap'
<1> HIDE DEF g
<1>5. Changes(heap, g, e, p) /\ Len(g) = Len(heap) + Len(new) /\ g[e[p]] = m
  <2>1. /\ p \in 1 .. Len(e) /\ m \in Nodes /\ heap \in Seq(Nodes) /\ Tree(heap)
        /\ Path(heap, e)
    BY <1>2, <1>3 DEF ShapeInv, TypeInv, Order
  <2>2. new \in Seq(Nodes) /\ Updated(heap, g, e[p], m, new)
    BY <1>4 DEF g
  <2>3. Changes(heap, g, e, p)
    BY <2>1, <2>2, ChangesIs
  <2>4. Len(g) = Len(heap) + Len(new)
    BY <2>1, <2>2, ChangesIs
  <2>5. g[e[p]] = m
    BY <2>1, <2>2, ChangesIs
  <2> QED
    BY <2>3, <2>4, <2>5
<1>6. Len(g) = Len(heap) /\ Len(m.kids) = 0
  BY <1>3, <1>4, <1>5, ChangesFacts
<1>7. LeafAt(heap, g, e[p])
  BY <1>2, <1>3, <1>5, <1>6, NullKids DEF LeafAt, Infix
<1>8. Tree(g) /\ Ranked(g, r)
  BY <1>2, <1>5, <1>7, LeafTree
<1>9. Path(g, e)
  BY <1>2, <1>5, <1>6, PathStays
<1>10. PICK y, z : Reads(g, y) /\ Rewritten(heap, g, w, y, e, p, Gap, One(g[e[p]].tok), z)
  BY <1>2, <1>5, <1>7, LeafReads
<1>11. y[1] = toks'
  <2>1. PICK a \in Seq(Tokens) : w[1] = a \o Gap /\ y[1] = a \o One(tok)
    BY <1>2, <1>3, <1>5, <1>10, FirstOnPath DEF Rewritten
  <2>2. a = toks
    BY <1>1, <1>2, <2>1, HoleSeq, Cancel
  <2> QED
    BY <1>1, <2>1, <2>2, AppendIs
<1>12. Calls(g, stack, e, d, p)
  <2>1. p \in 1 .. p /\ p \in Nat /\ p <= p
    BY <1>2
  <2>2. SameTo(e, e, p)
    BY DEF SameTo
  <2> QED
    BY <1>2, <1>5, <2>1, <2>2, CallsStay
<1>13. OperandRead' /\ ph' # "operand" /\ ph' # "done"
  BY DEF OperandRead
<1>14. Order(y, e, r, d, p)'
  BY <1>2, <1>8, <1>9, <1>10, <1>11, <1>12, <1>13 DEF Order, g
<1> QED
  BY <1>14 DEF Ordered

LEMMA OrderFacts ==
  ASSUME ShapeInv, NEW w, NEW e, NEW r, NEW d, NEW p, Order(w, e, r, d, p)
  PROVE  /\ heap \in Seq(Nodes) /\ Len(heap) \in Nat /\ Tree(heap) /\ Path(heap, e)
         /\ Ranked(heap, r) /\ Reads(heap, w) /\ Len(e) \in Nat /\ e[1] = 1
         /\ \A i \in 1 .. Len(e) : e[i] \in 1 .. Len(heap)
         /\ p \in 1 .. Len(e) /\ running = e[p] /\ Calls(heap, stack, e, d, p)
         /\ toks \in Seq(Tokens) /\ stack \in Seq(1 .. Len(heap)) /\ stack \in Seq(Nat)
<1>1. /\ heap \in Seq(Nodes) /\ Tree(heap) /\ Path(heap, e) /\ Ranked(heap, r) /\ Reads(heap, w)
      /\ p \in 1 .. Len(e) /\ running = e[p] /\ Calls(heap, stack, e, d, p)
      /\ toks \in Seq(Tokens) /\ stack \in Seq(1 .. Len(heap))
  BY DEF ShapeInv, TypeInv, Order
<1>2. Len(heap) \in Nat
  BY <1>1
<1>3. Len(e) \in Nat /\ e[1] = 1
  BY <1>1 DEF Path
<1>4. \A i \in 1 .. Len(e) : e[i] \in 1 .. Len(heap)
  BY <1>1, PathNodes
<1>5. stack \in Seq(Nat)
  BY <1>1, <1>2
<1> QED
  BY <1>1, <1>2, <1>3, <1>4, <1>5

\* ParsePrefix and BeginCall.
LEMMA InnerOrder ==
  ASSUME ShapeInv, NEW w, NEW e, NEW r, NEW d, NEW p, Order(w, e, r, d, p),
         NEW t \in {"prefix", "call"}, NEW kind \in Kinds, ph = "operand", Read(kind),
         Become(running, Node(t, Token(kind), "none", << New >>), << NullNode >>),
         running' = New, ph' = ph,
         stack' = stack \/ (t = "call" /\ stack' = Append(stack, New))
  PROVE  Ordered'
<1>m. PICK m : m = Node(t, Token(kind), "none", << New >>)
  OBVIOUS
<1> DEFINE tok == Token(kind)
           g == heap'
           l == Len(heap) + 1
<1>1. tok \in Tokens /\ toks' = Append(toks, tok)
  BY ReadFacts DEF ShapeInv, TypeInv, Read
<1>2. /\ heap \in Seq(Nodes) /\ Len(heap) \in Nat /\ Tree(heap) /\ Path(heap, e)
      /\ Reads(heap, w) /\ Len(e) \in Nat
      /\ p \in 1 .. Len(e) /\ running = e[p] /\ Calls(heap, stack, e, d, p)
      /\ toks \in Seq(Tokens) /\ stack \in Seq(Nat)
  BY OrderFacts
<1>3. heap[running] = NullNode /\ Ends(e, p, w, Gap) /\ w[1] = toks \o Gap
  BY DEF Order
<1>4. m \in Nodes /\ m.t = t /\ m.tok = tok /\ m.kids = << l >>
  <2>1. << l >> \in Seq(Nat)
    BY <1>2
  <2> HIDE DEF tok, l
  <2>2. Node(t, tok, "none", << l >>) \in Nodes
    BY <1>1, <2>1, NodeFacts DEF Types
  <2> QED
    BY <1>m, <2>2 DEF Node, tok, l, New
<1>5. Len(m.kids) = 1 /\ m.kids[1] = l
  BY <1>4
<1>6. NullNode \in Nodes /\ UpdatedOne(heap, g, e[p], m, NullNode)
  BY <1>2, <1>m, NullFacts DEF Become, Updated, UpdatedOne
<1> HIDE DEF tok, g, l
<1>7. Changes(heap, g, e, p) /\ g[e[p]] = m
  BY <1>2, <1>4, <1>6, ChangesOne
<1>8. Len(g) = l /\ g[Len(heap) + 1] = NullNode
  BY <1>2, <1>4, <1>6, ChangesOne DEF l
<1>9. AddedAt(heap, g, e[p])
  <2>1. ~Infix(g, e[p])
    BY <1>4, <1>7 DEF Infix
  <2>2. Len(heap[e[p]].kids) = 0
    BY <1>2, <1>3, NullKids
  <2>3. \A i \in Places(heap, e[p]) : FALSE
    BY <2>2 DEF Places
  <2> QED
    BY <1>2, <1>5, <1>7, <1>8, <2>1, <2>2, <2>3 DEF AddedAt, l
<1> DEFINE v == One(tok)
           u == v \o Gap
<1>10. v \in Seq(Tokens)
  BY <1>1, OneSeq
<1>11. AddedWords(heap, g, e[p], Gap, u)
  BY <1>2, <1>3, <1>4, <1>7 DEF AddedWords
<1> HIDE DEF v, u
<1>12. PICK y, z : Reads(g, y) /\ y[Len(g)] = Gap /\ Rewritten(heap, g, w, y, e, p, Gap, u, z)
  BY <1>2, <1>3, <1>7, <1>9, <1>11, AddedReads
<1>13. ASSUME NEW a \in Seq(Tokens), w[1] = a \o Gap
       PROVE  a \o v = toks'
  <2>1. a = toks
    BY <1>2, <1>3, <1>13, HoleSeq, Cancel
  <2> QED
    BY <1>1, <1>2, <2>1, AppendIs DEF v
<1>14. PICK f : f = Grow(e, p, l)
  OBVIOUS
<1>15. f[p + 1] = l /\ \A i \in 1 .. p : f[i] = e[i]
  <2>1. e \in Seq(1 .. Len(heap)) /\ l \in Nat /\ l > Len(heap)
    BY <1>2 DEF Path, l
  <2>2. p \in 1 .. Len(e) /\ Len(heap) \in Nat
    BY <1>2
  <2>3. /\ \A i \in 1 .. p : Grow(e, p, l)[i] = e[i]
        /\ Grow(e, p, l)[p + 1] = l
    BY <2>1, <2>2, GrowFacts
  <2> QED
    BY <1>14, <2>3
<1>16. \E c : Calls(g, stack', f, c, p + 1)
  <2>1. p \in 1 .. p /\ p \in Nat /\ p <= p /\ p + 1 \in Nat /\ p <= p + 1 /\ p >= 1
    BY <1>2
  <2>2. SameTo(e, f, p)
    BY <1>15 DEF SameTo
  <2>3. Calls(g, stack, f, d, p)
    BY <1>2, <1>7, <2>1, <2>2, CallsStay
  <2>4. CASE stack' = stack
    BY <2>1, <2>4, <2>3, CallsMore
  <2>5. CASE t = "call" /\ stack' = Append(stack, New)
    <3>1. g[f[p]].t = "call"
      BY <1>4, <1>7, <1>15, <2>1, <2>5
    <3>2. New = l /\ l \in Nat
      BY <1>2 DEF New, l
    <3>3. Calls(g, Append(stack, l), f, Push(d, Len(stack), p + 1), p + 1)
      BY <1>2, <1>15, <2>1, <2>3, <3>1, <3>2, CallsPush
    <3> QED
      BY <2>5, <3>2, <3>3
  <2> QED
    BY <2>4, <2>5
<1>17. PICK c : Calls(g, stack', f, c, p + 1)
  BY <1>16
<1>18. Calls(g, stack', Grow(e, p, Len(g)), c, p + 1)
  BY <1>8, <1>14, <1>17
<1>19. running' = Len(g) /\ ph' = "operand"
  BY <1>8 DEF New, l
<1>20. u = v \o Gap
  BY DEF u
<1>21. Ordered'
  <2>1. /\ Changes(heap, heap', e, p) /\ AddedAt(heap, heap', e[p]) /\ Reads(heap', y)
        /\ Rewritten(heap, heap', w, y, e, p, Gap, u, z) /\ y[Len(heap')] = Gap
        /\ Calls(heap', stack', Grow(e, p, Len(heap')), c, p + 1) /\ running' = Len(heap')
    BY <1>7, <1>9, <1>12, <1>18, <1>19 DEF g
  <2>2. Turns(w, Gap, v, toks')
    BY <1>13 DEF Turns
  <2> QED
    BY <1>10, <1>19, <1>20, <2>1, <2>2, HoleSeq, GrowOrder
<1> QED
  BY <1>21

\* The parent of the argument that is being parsed is the call above it.
LEMMA ParentIs ==
  ASSUME ShapeInv, NEW e, Tree(heap), Path(heap, e), NEW k \in 1 .. Len(e) - 1
  PROVE  Parent(e[k + 1]) = e[k]
<1> DEFINE n == e[k + 1]
           c == e[k]
           j == Len(heap[c].kids)
<1>1. /\ heap \in Seq(Nodes) /\ DOMAIN heap = 1 .. Len(heap) /\ Len(e) \in Nat
  BY DEF ShapeInv, TypeInv, Path
<1>2. k \in 1 .. Len(e)
  BY <1>1
<1>3. c \in 1 .. Len(heap)
  BY <1>2, PathNodes
<1>4. heap[c].kids \in Seq(Nat) /\ j \in Nat
  BY <1>1, <1>3, NodeTypes
<1>5. j > 0 /\ n = heap[c].kids[j]
  BY DEF Path
<1> HIDE DEF n, c, j
<1>6. j \in Places(heap, c) /\ j \in DOMAIN heap[c].kids
  BY <1>4, <1>5 DEF Places, j
<1>7. ASSUME NEW p \in DOMAIN heap, NEW i \in DOMAIN heap[p].kids, heap[p].kids[i] = n
      PROVE  p = c
  <2>1. p \in 1 .. Len(heap)
    BY <1>1
  <2>2. i \in Places(heap, p)
    <3>1. heap[p].kids \in Seq(Nat)
      BY <1>1, <2>1, NodeTypes
    <3> QED
      BY <3>1 DEF Places
  <2> QED
    BY <1>3, <1>5, <1>6, <1>7, <2>1, <2>2 DEF Tree, OneParent
<1>8. \E i \in DOMAIN heap[c].kids : heap[c].kids[i] = n
  BY <1>5, <1>6
<1>9. Parent(n) = c
  BY <1>1, <1>3, <1>7, <1>8 DEF Parent
<1> QED
  BY <1>9 DEF n, c

\* The argument is added to the call above it, whose last argument ends there.
LEMMA NextArgOrder ==
  ASSUME ShapeInv, NEW w, NEW e, NEW r, NEW d, NEW p, Order(w, e, r, d, p), NextArg
  PROVE  Ordered'
<1> DEFINE g == heap'
           l == Len(heap) + 1
<1>1. /\ heap \in Seq(Nodes) /\ Len(heap) \in Nat /\ Tree(heap) /\ Path(heap, e)
      /\ Reads(heap, w) /\ Len(e) \in Nat
      /\ p \in 1 .. Len(e) /\ Calls(heap, stack, e, d, p)
      /\ toks \in Seq(Tokens) /\ stack \in Seq(Nat)
  BY OrderFacts
<1>2. /\ stack # << >> /\ stack' = Append(Front(stack), l) /\ running' = l
      /\ ph' = "operand" /\ toks' = toks /\ OperandRead
  BY DEF NextArg, New
<1>3. w[1] = toks
  BY <1>2 DEF Order
<1>4. p \in Nat
  BY <1>1
<1>5. PICK k \in 1 .. p - 1 : /\ End(stack) = e[k + 1] /\ heap[e[k]].t = "call"
                              /\ Calls(heap, Front(stack), e, d, k)
  BY <1>1, <1>2, <1>4, CallsFront
<1>6. k \in 1 .. Len(e) - 1 /\ k \in 1 .. Len(e) /\ k \in Nat /\ k >= 1 /\ k \in 1 .. k /\ k <= k
  BY <1>1, <1>5
<1>7. Parent(End(stack)) = e[k]
  BY <1>1, <1>5, <1>6, ParentIs
<1> DEFINE x == e[k]
           ks == heap[x].kids
<1>8. x \in 1 .. Len(heap)
  BY <1>1, <1>6, PathNodes
<1>9. PICK m : m = [heap[x] EXCEPT !.kids = Append(@, l)]
  OBVIOUS
<1>10. heap[x] \in Nodes /\ ks \in Seq(Nat) /\ Len(ks) \in Nat
  BY <1>1, <1>8, NodeTypes
<1>11. UpdatedOne(heap, g, e[k], m, NullNode) /\ NullNode \in Nodes
  BY <1>7, <1>9, NullFacts DEF NextArg, Become, New, Updated, UpdatedOne
<1> HIDE DEF ks, x
<1>12. m \in Nodes /\ m.t = "call" /\ m.tok = heap[x].tok /\ m.kids = Append(ks, l)
  <2>1. Append(ks, l) \in Seq(Nat)
    BY <1>1, <1>10
  <2>2. heap[x].t = "call"
    BY <1>5 DEF x
  <2> QED
    BY <1>9, <1>10, <2>1, <2>2 DEF Nodes, ks
<1>13. Len(m.kids) = Len(ks) + 1 /\ m.kids[Len(ks) + 1] = l /\ \A i \in 1 .. Len(ks) : m.kids[i] = ks[i]
  BY <1>1, <1>10, <1>12, AppendFacts
<1> HIDE DEF g, l
<1>14. Changes(heap, g, e, k) /\ g[e[k]] = m
  BY <1>1, <1>6, <1>11, <1>12, ChangesOne
<1>15. Len(g) = l /\ g[Len(heap) + 1] = NullNode
  BY <1>1, <1>6, <1>11, <1>12, ChangesOne DEF l
<1>16. AddedAt(heap, g, e[k])
  <2>1. ~Infix(g, e[k])
    BY <1>12, <1>14 DEF Infix
  <2> QED
    BY <1>13, <1>14, <1>15, <2>1 DEF AddedAt, Places, l, x, ks
<1>17. AddedWords(heap, g, e[k], NoWords, Gap)
  <2>1. ~Infix(heap, e[k]) /\ g[e[k]].tok = heap[e[k]].tok
    BY <1>5, <1>12, <1>14 DEF Infix, x
  <2> QED
    BY <2>1 DEF AddedWords
<1>18. Ends(e, k, w, NoWords)
  BY <1>1, <1>14, EndsEmpty
<1>19. PICK y, z : Reads(g, y) /\ y[Len(g)] = Gap /\ Rewritten(heap, g, w, y, e, k, NoWords, Gap, z)
  BY <1>1, <1>14, <1>16, <1>17, <1>18, AddedReads
<1>20. NoWords \in Seq(Tokens) /\ Gap = NoWords \o Gap
  BY HoleSeq, ConcatEmptySeq DEF NoWords
<1>21. Turns(w, NoWords, NoWords, toks')
  BY <1>2, <1>3, ConcatEmptySeq DEF Turns, NoWords
<1>22. PICK f : f = Grow(e, k, l)
  OBVIOUS
<1>23. f[k + 1] = l /\ \A i \in 1 .. k : f[i] = e[i]
  <2>1. e \in Seq(1 .. Len(heap)) /\ l \in Nat /\ l > Len(heap)
    BY <1>1 DEF Path, l
  <2>2. k \in 1 .. Len(e) /\ Len(heap) \in Nat
    BY <1>1, <1>6
  <2>3. /\ \A i \in 1 .. k : Grow(e, k, l)[i] = e[i]
        /\ Grow(e, k, l)[k + 1] = l
    BY <2>1, <2>2, GrowFacts
  <2> QED
    BY <1>22, <2>3
<1>24. PICK c : Calls(g, stack', f, c, k + 1)
  <2>1. SameTo(e, f, k) /\ k \in 1 .. k /\ k \in Nat /\ k <= k
    BY <1>6, <1>14, <1>23 DEF SameTo
  <2>2. Calls(g, Front(stack), f, d, k)
    BY <1>5, <1>6, <1>14, <2>1, CallsStay
  <2>3. g[f[k]].t = "call"
    BY <1>6, <1>12, <1>14, <1>23
  <2>4. Front(stack) \in Seq(Nat) /\ l \in Nat
    <3>1. stack # << >> /\ stack \in Seq(Nat)
      BY <1>1, <1>2
    <3>2. Front(stack) \in Seq(Nat)
      BY <3>1, FrontFacts
    <3>3. l \in Nat
      BY <1>1 DEF l
    <3> QED
      BY <3>2, <3>3
  <2>5. Calls(g, Append(Front(stack), l), f, Push(d, Len(Front(stack)), k + 1), k + 1)
    BY <1>6, <1>23, <2>2, <2>3, <2>4, CallsPush
  <2> QED
    BY <1>2, <2>5
<1>25. /\ Changes(heap, heap', e, k) /\ AddedAt(heap, heap', e[k]) /\ Reads(heap', y)
       /\ Rewritten(heap, heap', w, y, e, k, NoWords, Gap, z) /\ y[Len(heap')] = Gap
       /\ Calls(heap', stack', Grow(e, k, Len(heap')), c, k + 1) /\ running' = Len(heap')
  BY <1>2, <1>14, <1>15, <1>16, <1>19, <1>22, <1>24 DEF g
<1> QED
  BY <1>2, <1>20, <1>21, <1>25, GrowOrder

\* ParseInfix and BeginAssign, at a node of the edge that no open call is below.
LEMMA SplitOrder ==
  ASSUME ShapeInv, NEW w, NEW e, NEW r, NEW d, NEW p, Order(w, e, r, d, p),
         NEW k \in 1 .. Len(e), Calls(heap, stack, e, d, k),
         NEW x, x = e[k], NEW t \in {"binop", "assign"}, NEW op \in BinaryOps \cup {"none"},
         NEW kind \in Kinds, OperandRead, Read(kind),
         Become(x, Node(t, Token(kind), op, << New, New + 1 >>), << heap[x], NullNode >>),
         running' = New + 1, ph' = "operand", stack' = stack
  PROVE  Ordered'
<1>m. PICK m : m = Node(t, Token(kind), op, << New, New + 1 >>)
  OBVIOUS
<1>n. PICK n : n = heap[x]
  OBVIOUS
<1> DEFINE tok == Token(kind)
           g == heap'
           l == Len(heap) + 2
<1>1. tok \in Tokens /\ toks' = Append(toks, tok)
  BY ReadFacts DEF ShapeInv, TypeInv, Read
<1>2. /\ heap \in Seq(Nodes) /\ Len(heap) \in Nat /\ Tree(heap) /\ Path(heap, e)
      /\ Reads(heap, w) /\ Len(e) \in Nat /\ toks \in Seq(Tokens)
  BY OrderFacts
<1>3. w[1] = toks
  BY DEF Order
<1>4. /\ m \in Nodes /\ m.t = t /\ m.tok = tok /\ Len(m.kids) = 2
      /\ m.kids[1] = Len(heap) + 1 /\ m.kids[2] = l
  <2> DEFINE ks == << New, New + 1 >>
  <2>1. ks \in Seq(Nat) /\ Len(ks) = 2 /\ ks[1] = Len(heap) + 1 /\ ks[2] = l
    BY <1>2 DEF New
  <2> HIDE DEF tok, l, ks
  <2>2. Node(t, tok, op, ks) \in Nodes
    BY <1>1, <2>1, NodeFacts DEF Types
  <2>3. m = Node(t, tok, op, ks)
    BY <1>m DEF tok, ks
  <2> QED
    BY <2>1, <2>2, <2>3 DEF Node
<1>5. n \in Nodes /\ NullNode \in Nodes
  BY <1>2, <1>n, PathNodes, NullFacts
<1>6. UpdatedTwo(heap, g, e[k], m, n, NullNode)
  BY <1>m, <1>n DEF Become, Updated, UpdatedTwo
<1> HIDE DEF tok, g, l
<1>7. Changes(heap, g, e, k) /\ g[e[k]] = m
  BY <1>2, <1>4, <1>5, <1>6, ChangesTwo
<1>8. Len(g) = l /\ g[Len(heap) + 1] = n /\ g[Len(heap) + 2] = NullNode
  BY <1>2, <1>4, <1>5, <1>6, ChangesTwo DEF l
<1>9. SplitAt(heap, g, e[k])
  <2>1. Infix(g, e[k])
    BY <1>4, <1>7 DEF Infix
  <2> QED
    BY <1>4, <1>7, <1>8, <1>n, <2>1 DEF SplitAt, l
<1> DEFINE v == One(tok)
           u == v \o Gap
<1>10. v \in Seq(Tokens)
  BY <1>1, OneSeq
<1>11. PICK y, z : Reads(g, y) /\ y[Len(g)] = Gap /\ Rewritten(heap, g, w, y, e, k, NoWords, u, z)
  <2>1. v = One(g[e[k]].tok)
    BY <1>4, <1>7
  <2> HIDE DEF v
  <2> QED
    BY <1>2, <1>7, <1>9, <2>1, SplitReads
<1> HIDE DEF v, u
<1>12. NoWords \in Seq(Tokens) /\ u = v \o Gap
  BY DEF NoWords, u
<1>13. Turns(w, NoWords, v, toks')
  <2>1. toks' = toks \o v
    BY <1>1, <1>2, AppendIs DEF v
  <2>2. ASSUME NEW a \in Seq(Tokens), w[1] = a \o NoWords
        PROVE  a \o v = toks'
    BY <1>3, <2>1, <2>2, ConcatEmptySeq DEF NoWords
  <2> QED
    BY <2>2 DEF Turns
<1>14. PICK f : f = Grow(e, k, l)
  OBVIOUS
<1>15. f[k + 1] = l /\ \A i \in 1 .. k : f[i] = e[i]
  <2>1. e \in Seq(1 .. Len(heap)) /\ l \in Nat /\ l > Len(heap)
    BY <1>2 DEF Path, l
  <2>2. k \in 1 .. Len(e) /\ Len(heap) \in Nat
    BY <1>2
  <2>3. /\ \A i \in 1 .. k : Grow(e, k, l)[i] = e[i]
        /\ Grow(e, k, l)[k + 1] = l
    BY <2>1, <2>2, GrowFacts
  <2> QED
    BY <1>14, <2>3
<1>16. Calls(g, stack', f, d, k + 1)
  <2>1. k \in 1 .. k /\ k \in Nat /\ k <= k
    BY <1>2
  <2>2. SameTo(e, f, k)
    BY <1>15 DEF SameTo
  <2>3. Calls(g, stack, f, d, k)
    BY <1>7, <2>1, <2>2, CallsStay
  <2> QED
    BY <2>1, <2>3, CallsMore
<1>17. /\ Changes(heap, heap', e, k) /\ SplitAt(heap, heap', e[k]) /\ Reads(heap', y)
       /\ Rewritten(heap, heap', w, y, e, k, NoWords, u, z) /\ y[Len(heap')] = Gap
       /\ Calls(heap', stack', Grow(e, k, Len(heap')), d, k + 1)
  BY <1>7, <1>8, <1>9, <1>11, <1>14, <1>16 DEF g
<1>18. running' = Len(heap')
  BY <1>2, <1>8 DEF New, l, g
<1> QED
  BY <1>10, <1>12, <1>13, <1>17, <1>18, GrowOrder

\* Where such an operator goes: to the place of running_expr, of the argument being
\* parsed, or of the whole statement.
LEMMA WholePlace ==
  ASSUME ShapeInv, NEW w, NEW e, NEW r, NEW d, NEW p, Order(w, e, r, d, p)
  PROVE  \E k \in 1 .. Len(e) : Whole = e[k] /\ Calls(heap, stack, e, d, k)
<1>1. /\ Len(e) \in Nat /\ e[1] = 1 /\ p \in 1 .. Len(e)
      /\ Calls(heap, stack, e, d, p) /\ stack \in Seq(Nat)
  BY OrderFacts
<1>2. CASE stack = << >>
  <2>1. Whole = e[1] /\ 1 \in 1 .. Len(e)
    BY <1>1, <1>2 DEF Whole
  <2>2. Calls(heap, stack, e, d, 1)
    BY <1>2 DEF Calls
  <2> QED
    BY <2>1, <2>2
<1>3. CASE stack # << >>
  <2>1. Whole = End(stack) /\ p \in Nat
    BY <1>1, <1>3 DEF Whole
  <2>2. PICK k \in 1 .. p - 1 : End(stack) = e[k + 1] /\ Calls(heap, stack, e, d, k + 1)
    BY <1>1, <1>3, <2>1, CallsFront
  <2>3. k + 1 \in 1 .. Len(e)
    BY <1>1, <2>2
  <2> QED
    BY <2>1, <2>2, <2>3
<1> QED
  BY <1>2, <1>3

LEMMA CloseOrder ==
  ASSUME ShapeInv, NEW w, NEW e, NEW r, NEW d, NEW p, Order(w, e, r, d, p), CloseCall
  PROVE  Ordered'
<1>1. p \in 1 .. Len(e) /\ Calls(heap, stack, e, d, p) /\ stack \in Seq(Nat) /\ Len(e) \in Nat
  BY OrderFacts
<1>2. /\ OperandRead /\ stack # << >> /\ running' = End(stack) /\ stack' = Front(stack)
      /\ ph' = "after" /\ UNCHANGED << heap, prec, toks >>
  BY DEF CloseCall
<1>3. p \in Nat
  BY <1>1
<1>4. PICK k \in 1 .. p - 1 : End(stack) = e[k + 1] /\ Calls(heap, Front(stack), e, d, k)
  BY <1>1, <1>2, <1>3, CallsFront
<1>5. k \in Nat /\ k + 1 \in 1 .. Len(e)
  BY <1>1, <1>4
<1>6. Calls(heap, Front(stack), e, d, k + 1)
  BY <1>4, <1>5, CallsMore
<1>7. Order(w, e, r, d, k + 1)'
  BY <1>2, <1>4, <1>5, <1>6 DEF Order
<1> QED
  BY <1>7 DEF Ordered

-----------------------------------------------------------------------------
LEMMA OrderInit ==
  ASSUME Init
  PROVE  OrderInv
<1>1. /\ heap = << NullNode >> /\ running = 1 /\ stack = << >> /\ ph = "operand" /\ toks = << >>
  BY DEF Init
<1>2. Len(heap) = 1 /\ heap[1] = NullNode /\ heap \in Seq(Nodes)
  BY <1>1, NullFacts
<1>3. \A n \in 1 .. Len(heap) : n = 1 /\ heap[n] = NullNode
  BY <1>2
<1>4. Len(heap[1].kids) = 0 /\ ~Infix(heap, 1) /\ \A i \in Places(heap, 1) : FALSE
  BY <1>2, NullKids DEF Infix, Places
<1> DEFINE w == [n \in 1 .. Len(heap) |-> Gap]
           e == << 1 >>
           r == [n \in 1 .. Len(heap) |-> 0]
<1>5. Tree(heap) /\ Ranked(heap, r)
  BY <1>3, <1>4 DEF Tree, TwoOperands, Inside, OneParent, Ranked
<1>6. w \in [1 .. Len(heap) -> Seq(Tokens)] /\ \A n \in 1 .. Len(heap) : w[n] = Gap
  BY HoleSeq
<1>7. /\ e \in Seq(1 .. Len(heap)) /\ Len(e) = 1 /\ e[1] = 1
      /\ \A i \in 1 .. Len(e) : i = 1
  BY <1>2
<1> HIDE DEF w, e, r
<1>8. Reads(heap, w)
  BY <1>3, <1>6, NullWord DEF Reads
<1>9. Path(heap, e)
  BY <1>2, <1>4, <1>7 DEF Path
<1>10. 1 \in 1 .. Len(heap) /\ w[1] = toks \o Gap
  <2>1. << >> \o Gap = Gap
    BY HoleSeq, ConcatEmptySeq
  <2> QED
    BY <1>1, <1>2, <1>6, <2>1
<1>11. Ends(e, 1, w, Gap)
  <2>1. \A n \in Prefix(e, 1) : n = 1
    BY <1>7 DEF Prefix
  <2>2. w[1] = NoWords \o Gap /\ NoWords \in Seq(Tokens)
    BY <1>1, <1>10 DEF NoWords
  <2> QED
    BY <2>1, <2>2 DEF Ends
<1>12. Calls(heap, stack, e, r, 1)
  BY <1>1 DEF Calls
<1>13. Order(w, e, r, r, 1)
  BY <1>1, <1>2, <1>5, <1>7, <1>8, <1>9, <1>10, <1>11, <1>12 DEF Order, OperandRead
<1> QED
  BY <1>13, ShapeInit DEF OrderInv, Ordered

LEMMA OrderStep ==
  ASSUME OrderInv, [Next]_vars
  PROVE  OrderInv'
<1>1. ShapeInv /\ ShapeInv'
  BY ShapeStep DEF OrderInv
<1>2. PICK w, e, r, d, p : Order(w, e, r, d, p)
  BY DEF OrderInv, Ordered
<1>3. /\ p \in 1 .. Len(e) /\ running = e[p] /\ Calls(heap, stack, e, d, p)
      /\ toks \in Seq(Tokens)
  BY <1>1, <1>2, OrderFacts
<1>4. PICK j \in 1 .. Len(e) : Whole = e[j] /\ Calls(heap, stack, e, d, j)
  BY <1>1, <1>2, WholePlace
<1> SUFFICES Ordered'
  BY <1>1 DEF OrderInv
<1>5. CASE ParseAtom
  BY <1>1, <1>2, <1>5, LeafOrder DEF ParseAtom, Types, Kinds
<1>6. CASE ParseEmptyCall
  BY <1>1, <1>2, <1>6, LeafOrder DEF ParseEmptyCall, Types, Kinds
<1>7. CASE ParsePrefix
  BY <1>1, <1>2, <1>7, InnerOrder DEF ParsePrefix, Kinds
<1>8. CASE BeginCall
  BY <1>1, <1>2, <1>8, InnerOrder DEF BeginCall, Kinds
<1>9. ASSUME NEW op \in Ops, ParseInfix(op)
      PROVE  Ordered'
  <2>1. op \in BinaryOps \cup {"none"}
    BY ExprParserAssumption
  <2>2. PICK k \in 1 .. Len(e) : LeftOperand(op) = e[k] /\ Calls(heap, stack, e, d, k)
    BY <1>3, <1>4 DEF LeftOperand
  <2> QED
    BY <1>1, <1>2, <1>9, <2>1, <2>2, SplitOrder DEF ParseInfix, Kinds
<1>10. CASE BeginAssign
  BY <1>1, <1>2, <1>4, <1>10, SplitOrder DEF BeginAssign, Kinds, OperandRead
<1>11. CASE CloseCall
  BY <1>1, <1>2, <1>11, CloseOrder
<1>12. CASE NextArg
  BY <1>1, <1>2, <1>12, NextArgOrder
<1>13. CASE SkipDelimiter
  <2>1. toks' = toks \o Gap
    BY <1>3, <1>13, HoleSeq, AppendIs DEF SkipDelimiter, Gap
  <2>2. Order(w, e, r, d, p)'
    BY <1>2, <1>13, <2>1 DEF Order, SkipDelimiter, OperandRead
  <2> QED
    BY <2>2 DEF Ordered
<1>14. CASE EndStatement \/ EndOfFile \/ Stopped \/ UNCHANGED vars
  <2>1. Order(w, e, r, d, p)'
    BY <1>2, <1>14 DEF Order, EndStatement, EndOfFile, Stopped, vars, OperandRead
  <2> QED
    BY <2>1 DEF Ordered
<1> QED
  BY <1>5, <1>6, <1>7, <1>8, <1>9, <1>10, <1>11, <1>12, <1>13, <1>14 DEF Next

\* Whatever the statement, after every token the tree reads like the tokens, in
\* order and each of them once: no operator that takes the place of a node, no
\* call and no assignment loses, doubles or moves one.
THEOREM WordsInOrder == Spec => []TokensInOrder
<1>1. Init => OrderInv
  BY OrderInit
<1>2. OrderInv /\ [Next]_vars => OrderInv'
  BY OrderStep
<1>3. OrderInv => TokensInOrder
  BY OrderImplies
<1> QED
  BY <1>1, <1>2, <1>3, PTL DEF Spec

\* However deep calls are nested, the node the parser works on and the arguments
\* being parsed lie on the right edge of the tree, each below the one before.
THEOREM CallsOnRightEdge == Spec => []OpenCallsOnRightEdge
<1>1. Init => OrderInv
  BY OrderInit
<1>2. OrderInv /\ [Next]_vars => OrderInv'
  BY OrderStep
<1>3. OrderInv => OpenCallsOnRightEdge
  BY OrderImplies
<1> QED
  BY <1>1, <1>2, <1>3, PTL DEF Spec
=============================================================================
