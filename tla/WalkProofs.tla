----------------------------- MODULE WalkProofs -----------------------------
(***************************************************************************)
(* The walks of the type checker and of the code generator over what the   *)
(* parser left, for programs of every size, over every set of names and    *)
(* types.                                                                  *)
(*   CompilerChecks     every entry is checked in the context it was       *)
(*                      parsed in (inductive: CheckWalk)                   *)
(*   CompilerGenerates  every entry is generated there (inductive:         *)
(*                      GenWalk)                                           *)
(*   CompilerNames      a name means to the checker what it meant to the   *)
(*                      parser (inductive: NamesInv)                       *)
(* None is inductive by itself.  The two passes count the children of the  *)
(* contexts they enter, so the first two need where each entry of the AST  *)
(* lies in the tree of contexts (Laid, and for the constructs still open   *)
(* NestIn), and that the levels of the pass are the contexts around the    *)
(* spot it has reached (Checks, Gens).  The third needs which variables a  *)
(* lookup could see when the entry was parsed (NamesInv).                  *)
(***************************************************************************)
EXTENDS CompilerProofs

-----------------------------------------------------------------------------
(***************************************************************************)
(* What is inside what: c is d or one of the contexts around it.           *)
(***************************************************************************)
On(t, c, d) == \E i \in 1 .. Len(t[d].chain) : t[d].chain[i] = c

LEMMA OnChain ==
  ASSUME NEW t, ContextsInv(t), NEW c, NEW d \in 1 .. Len(t), On(t, c, d)
  PROVE  /\ c \in 1 .. Len(t) /\ Len(t[c].chain) <= Len(t[d].chain)
         /\ Len(t[c].chain) = Len(t[d].chain) => c = d
<1>1. ChainInv(t, d)
  BY DEF ContextsInv
<1>2. PICK i \in 1 .. Len(t[d].chain) : t[d].chain[i] = c
  BY DEF On
<1>3. c \in 1 .. Len(t) /\ t[c].chain = SubSeq(t[d].chain, 1, i) /\ t[d].chain[Len(t[d].chain)] = d
  BY <1>1, <1>2 DEF ChainInv
<1>4. Len(t[c].chain) = i
  BY <1>3, ChainType
<1> QED
  BY <1>2, <1>3, <1>4, ChainType

LEMMA OnSelf ==
  ASSUME NEW t, ContextsInv(t), NEW d \in 1 .. Len(t)
  PROVE  On(t, d, d)
<1>1. ChainInv(t, d) /\ Len(t[d].chain) \in Nat
  BY ChainType DEF ContextsInv
<1>2. Len(t[d].chain) \in 1 .. Len(t[d].chain) /\ t[d].chain[Len(t[d].chain)] = d
  BY <1>1 DEF ChainInv
<1> QED
  BY <1>2 DEF On

\* Around the global context is nothing.
LEMMA OnGlobal ==
  ASSUME NEW t, ContextsInv(t), NEW c
  PROVE  Global \in 1 .. Len(t) /\ Len(t[Global].chain) = 1 /\ (On(t, c, Global) => c = Global)
<1>1. Global \in 1 .. Len(t)
  BY LenProperties DEF ContextsInv, Global
<1>2. ChainInv(t, Global)
  BY <1>1 DEF ContextsInv
<1>3. Len(t[Global].chain) \in Nat
  BY <1>1, ChainType
<1>4. 1 \in 1 .. Len(t[Global].chain) /\ t[Global].chain[1] = Global
  BY <1>2, <1>3 DEF ChainInv
<1>5. t[Global].chain = SubSeq(t[Global].chain, 1, 1)
  BY <1>2, <1>4 DEF ChainInv
<1>6. Len(t[Global].chain) = 1
  <2> DEFINE q == t[Global].chain
  <2>1. q \in Seq(Nat) /\ 1 \in 1 .. Len(q)
    BY <1>1, <1>4, ChainType
  <2> HIDE DEF q
  <2>2. Len(SubSeq(q, 1, 1)) = 1
    BY <2>1
  <2> QED
    BY <1>5, <2>2 DEF q
<1> QED
  BY <1>1, <1>4, <1>6 DEF On

LEMMA OnParent ==
  ASSUME NEW t, ContextsInv(t), NEW c, NEW d \in 2 .. Len(t)
  PROVE  On(t, c, d) <=> c = d \/ On(t, c, ParentIn(t, d))
<1> DEFINE p == ParentIn(t, d)
           n == Len(t[d].chain)
           q == t[d].chain
<1>1. d \in 1 .. Len(t)
  BY LenProperties DEF ContextsInv
<1>2. ChainInv(t, d) /\ q \in Seq(Nat) /\ n \in Nat
  BY <1>1, ChainType DEF ContextsInv
<1>3. n >= 2 /\ p \in 1 .. Len(t) /\ t[p].chain = SubSeq(q, 1, n - 1) /\ Len(t[p].chain) = n - 1
  BY ParentIsThere
<1>4. q[n] = d
  BY <1>2 DEF ChainInv
<1> HIDE DEF p, n, q
<1>5. \A i \in 1 .. n - 1 : t[p].chain[i] = q[i]
  BY <1>2, <1>3
<1>6. On(t, c, d) <=> \E i \in 1 .. n : q[i] = c
  BY DEF On, n, q
<1>7. On(t, c, p) <=> \E i \in 1 .. n - 1 : q[i] = c
  BY <1>3, <1>5 DEF On
<1>8. \A i \in 1 .. n : i = n \/ i \in 1 .. n - 1
  BY <1>2
<1>9. n \in 1 .. n /\ \A i \in 1 .. n - 1 : i \in 1 .. n
  BY <1>2, <1>3
<1> QED
  BY <1>4, <1>6, <1>7, <1>8, <1>9 DEF p

LEMMA NotOnParent ==
  ASSUME NEW t, ContextsInv(t), NEW d \in 2 .. Len(t)
  PROVE  ~On(t, d, ParentIn(t, d))
<1>1. /\ ParentIn(t, d) \in 1 .. Len(t) /\ Len(t[d].chain) \in Nat
      /\ Len(t[ParentIn(t, d)].chain) = Len(t[d].chain) - 1
  BY ParentIsThere, ChainType
<1> QED
  BY <1>1, OnChain

\* A context is inside no other of its parent.
LEMMA OnSibling ==
  ASSUME NEW t, ContextsInv(t), NEW c \in 2 .. Len(t), NEW d \in 2 .. Len(t), On(t, c, d),
         ParentIn(t, c) = ParentIn(t, d)
  PROVE  c = d
<1>1. On(t, c, ParentIn(t, d)) => FALSE
  BY NotOnParent
<1> QED
  BY <1>1, OnParent

\* A context that is added is inside its parent and what is around that, and
\* nothing is inside it.
LEMMA OnNew ==
  ASSUME NEW t, ContextsInv(t), NEW p \in 1 .. Len(t), NEW c
  PROVE  LET u == NewContext(t, p)  n == Len(t) + 1 IN
         /\ \A d \in 1 .. Len(t) : On(u, c, d) <=> On(t, c, d)
         /\ On(u, c, n) <=> c = n \/ On(t, c, p)
<1> DEFINE u == NewContext(t, p)
           n == Len(t) + 1
<1>1. /\ ContextsInv(u) /\ Len(u) = n /\ u[n] = Context(Append(t[p].chain, n))
      /\ \A d \in 1 .. Len(t) : u[d].chain = t[d].chain
  BY NewContextTree
<1>2. Len(t) \in Nat /\ t[p].chain \in Seq(Nat) /\ Len(t[p].chain) \in Nat
  BY ChainType, LenProperties DEF ContextsInv
<1> DEFINE q == t[p].chain
           r == u[n].chain
<1>3. r = Append(q, n)
  BY <1>1 DEF Context
<1>4. Len(r) = Len(q) + 1 /\ r[Len(q) + 1] = n /\ \A i \in 1 .. Len(q) : r[i] = q[i]
  BY <1>2, <1>3, AppendProperties
<1> HIDE DEF u
<1>5. \A d \in 1 .. Len(t) : On(u, c, d) <=> On(t, c, d)
  BY <1>1 DEF On
<1>6. On(u, c, n) <=> \E i \in 1 .. Len(q) + 1 : r[i] = c
  BY <1>4 DEF On
<1>7. On(t, c, p) <=> \E i \in 1 .. Len(q) : q[i] = c
  BY DEF On
<1> HIDE DEF q, r, n
<1>8. \A i \in 1 .. Len(q) + 1 : i = Len(q) + 1 \/ i \in 1 .. Len(q)
  BY <1>2 DEF q
<1>9. Len(q) + 1 \in 1 .. Len(q) + 1 /\ \A i \in 1 .. Len(q) : i \in 1 .. Len(q) + 1
  BY <1>2 DEF q
<1>10. On(u, c, n) <=> c = n \/ On(t, c, p)
  BY <1>4, <1>6, <1>7, <1>8, <1>9
<1> QED
  BY <1>5, <1>10 DEF u, n

-----------------------------------------------------------------------------
(***************************************************************************)
(* The contexts are numbered as they were created, so those inside c are   *)
(* the ones from c up to the last one created before c was left.           *)
(***************************************************************************)
Preorder(t, m, c) == \A e \in 1 .. Len(t) : On(t, e, c) => \A d \in e .. m : On(t, e, d)

LEMMA PreorderIn ==
  ASSUME NEW t, ContextsInv(t), NEW m \in 1 .. Len(t), m + 1 \in 1 .. Len(t), NEW c \in 1 .. Len(t),
         c = ParentIn(t, m + 1), Preorder(t, m, c)
  PROVE  Preorder(t, m + 1, m + 1)
<1>1. SUFFICES ASSUME NEW e \in 1 .. Len(t), On(t, e, m + 1), NEW d \in e .. m + 1
               PROVE  On(t, e, d)
  BY DEF Preorder
<1>2. Len(t) \in Nat /\ m + 1 \in 2 .. Len(t)
  BY LenProperties DEF ContextsInv
<1>3. e = m + 1 \/ On(t, e, c)
  BY <1>1, <1>2, OnParent
<1>4. CASE d = m + 1
  BY <1>1, <1>4
<1>5. CASE d # m + 1
  <2>1. d \in e .. m /\ e # m + 1
    BY <1>2, <1>5
  <2> QED
    BY <1>3, <2>1 DEF Preorder
<1> QED
  BY <1>4, <1>5

LEMMA PreorderOut ==
  ASSUME NEW t, ContextsInv(t), NEW m, NEW c \in 2 .. Len(t), Preorder(t, m, c)
  PROVE  Preorder(t, m, ParentIn(t, c))
  BY OnParent DEF Preorder

LEMMA PreorderNew ==
  ASSUME NEW t, ContextsInv(t), NEW p \in 1 .. Len(t), NEW m \in 1 .. Len(t), NEW c \in 1 .. Len(t), Preorder(t, m, c)
  PROVE  Preorder(NewContext(t, p), m, c)
<1> DEFINE u == NewContext(t, p)
<1>1. Len(u) = Len(t) + 1 /\ Len(t) \in Nat
  BY NewContextTree, LenProperties DEF ContextsInv
<1>2. \A e : \A d \in 1 .. Len(t) : On(u, e, d) <=> On(t, e, d)
  BY OnNew
<1> HIDE DEF u
<1>3. SUFFICES ASSUME NEW e \in 1 .. Len(u), On(u, e, c), NEW d \in e .. m
               PROVE  On(u, e, d)
  BY DEF Preorder, u
<1>4. On(t, e, c)
  BY <1>2, <1>3
<1>5. e \in 1 .. Len(t) /\ d \in 1 .. Len(t)
  BY <1>1, <1>4, OnChain
<1> QED
  BY <1>2, <1>4, <1>5 DEF Preorder

-----------------------------------------------------------------------------
(***************************************************************************)
(* Where the items of the AST stand in the tree: at a spot, c is the       *)
(* context of the statement list, and m the last context created so far.   *)
(* A block begins in the context that was created next, which is a child   *)
(* of c or, with an else, of the parent of c.  A context that is left has  *)
(* no more children.  A name is looked up in c or, in a condition, in the  *)
(* context created for the body.                                           *)
(***************************************************************************)
Spot(m, c) == [m |-> m, c |-> c]

Spots(t) == {u \in [m : 1 .. Len(t), c : 1 .. Len(t)] : u.c <= u.m /\ Preorder(t, u.m, u.c)}

Enters(t, u, p) == u.m + 1 \in 1 .. Len(t) /\ ParentIn(t, u.m + 1) = p

Left(t, u) == u.c # Global /\ \A d \in u.m + 1 .. Len(t) : ~On(t, u.c, d)

Lays(t, u, e, v) ==
  /\ e.k # "nobody"
  /\ e.k \in Boundary => e.at = u.c
  /\ e.k \in {"then", "body"} => Enters(t, u, u.c) /\ e.at = u.m + 1
  /\ e.k = "else" => Left(t, u) /\ Enters(t, u, ParentIn(t, u.c))
  /\ e.k = "end" => Left(t, u) /\ v = Spot(u.m, ParentIn(t, u.c))
  /\ e.k \in Opening => v = Spot(u.m + 1, u.m + 1)
  /\ e.k \notin Opening \cup {"end"} => v = u
  /\ e.k \in UseKinds => e.at = u.c \/ (Enters(t, u, u.c) /\ e.at = u.m + 1)

LayMoves(t) == {z \in Spots(t) \X AstItems \X Spots(t) : Lays(t, z[1], z[2], z[3])}

Laid(t, a, w) == Path(a, w, Spots(t), LayMoves(t)) /\ w[1] = Spot(1, Global)

\* Nothing that was left is around d.
LeftBehind(t, a, w, d) == \A i \in 1 .. Len(a) : a[i].k \in {"else", "end"} => ~On(t, w[i].c, d)

LEMMA LinkIs ==
  ASSUME NEW t, NEW u \in Spots(t), NEW e \in AstItems, NEW v \in Spots(t)
  PROVE  Link(u, e, v, LayMoves(t)) <=> Lays(t, u, e, v)
  BY DEF Link, LayMoves

LEMMA SpotType ==
  ASSUME NEW t, NEW u \in Spots(t)
  PROVE  u.m \in 1 .. Len(t) /\ u.c \in 1 .. Len(t) /\ u.c <= u.m /\ Preorder(t, u.m, u.c) /\ u = Spot(u.m, u.c)
  BY DEF Spots, Spot

LEMMA SpotIs ==
  ASSUME NEW t, NEW m \in 1 .. Len(t), NEW c \in 1 .. Len(t), c <= m, Preorder(t, m, c)
  PROVE  Spot(m, c) \in Spots(t) /\ Spot(m, c).m = m /\ Spot(m, c).c = c
  BY DEF Spots, Spot

LEMMA LaidLinks ==
  ASSUME NEW t, NEW a \in Seq(AstItems), NEW w
  PROVE  Laid(t, a, w) <=> /\ w \in [1 .. Len(a) + 1 -> Spots(t)]
                           /\ \A i \in 1 .. Len(a) : Lays(t, w[i], a[i], w[i + 1])
                           /\ w[1] = Spot(1, Global)
<1>1. \A i \in 1 .. Len(a) : a[i] \in AstItems /\ i \in 1 .. Len(a) + 1 /\ i + 1 \in 1 .. Len(a) + 1
  BY ElementOfSeq, LenProperties
<1>2. ASSUME w \in [1 .. Len(a) + 1 -> Spots(t)]
      PROVE  \A i \in 1 .. Len(a) : Link(w[i], a[i], w[i + 1], LayMoves(t)) <=> Lays(t, w[i], a[i], w[i + 1])
  <2> TAKE i \in 1 .. Len(a)
  <2>1. a[i] \in AstItems /\ w[i] \in Spots(t) /\ w[i + 1] \in Spots(t)
    BY <1>1, <1>2
  <2> QED
    BY <2>1, LinkIs
<1> QED
  BY <1>2 DEF Laid, Path

\* A context that is added where nothing was left changes nothing of this.
LEMMA LaysNew ==
  ASSUME NEW t, ContextsInv(t), KidsInv(t), NEW p \in 1 .. Len(t),
         NEW u \in Spots(t), NEW v, NEW e, Lays(t, u, e, v),
         e.k \in {"else", "end"} => ~On(t, u.c, p)
  PROVE  Lays(NewContext(t, p), u, e, v)
<1> DEFINE y == NewContext(t, p)
<1>1. Len(y) = Len(t) + 1 /\ Len(t) \in Nat
  BY NewContextTree, LenProperties DEF ContextsInv
<1>2. \A c \in 1 .. Len(t) : ParentIn(y, c) = ParentIn(t, c)
  BY NewContextKids
<1>3. /\ \A c : \A d \in 1 .. Len(t) : On(y, c, d) <=> On(t, c, d)
      /\ \A c : On(y, c, Len(t) + 1) <=> c = Len(t) + 1 \/ On(t, c, p)
  BY OnNew
<1> HIDE DEF y
<1>4. u.m \in 1 .. Len(t) /\ u.c \in 1 .. Len(t)
  BY SpotType
<1>5. ASSUME NEW q, Enters(t, u, q) PROVE Enters(y, u, q)
  BY <1>1, <1>2, <1>4, <1>5 DEF Enters
<1>6. ASSUME Left(t, u), ~On(t, u.c, p) PROVE Left(y, u)
  <2> SUFFICES ASSUME NEW d \in u.m + 1 .. Len(t) + 1 PROVE ~On(y, u.c, d)
    BY <1>1, <1>6 DEF Left
  <2>1. CASE d \in u.m + 1 .. Len(t)
    <3>1. d \in 1 .. Len(t)
      BY <1>1, <1>4, <2>1
    <3> QED
      BY <1>3, <1>6, <2>1, <3>1 DEF Left
  <2>2. CASE d = Len(t) + 1
    BY <1>1, <1>3, <1>4, <1>6, <2>2
  <2> QED
    BY <1>1, <1>4, <2>1, <2>2
<1>7. ParentIn(y, u.c) = ParentIn(t, u.c)
  BY <1>2, <1>4
<1> HIDE DEF y
<1> QED
  BY <1>5, <1>6, <1>7 DEF Lays, y

LEMMA SpotsNew ==
  ASSUME NEW t, ContextsInv(t), NEW p \in 1 .. Len(t), NEW u \in Spots(t)
  PROVE  u \in Spots(NewContext(t, p))
<1>1. Len(NewContext(t, p)) = Len(t) + 1 /\ Len(t) \in Nat
  BY NewContextTree, LenProperties DEF ContextsInv
<1>2. u.m \in 1 .. Len(t) /\ u.c \in 1 .. Len(t) /\ u.c <= u.m /\ Preorder(t, u.m, u.c) /\ u = Spot(u.m, u.c)
  BY SpotType
<1>3. Preorder(NewContext(t, p), u.m, u.c)
  BY <1>2, PreorderNew
<1>4. u.m \in 1 .. Len(NewContext(t, p)) /\ u.c \in 1 .. Len(NewContext(t, p))
  BY <1>1, <1>2
<1> QED
  BY <1>2, <1>3, <1>4, SpotIs

LEMMA LaidNew ==
  ASSUME NEW t, ContextsInv(t), KidsInv(t), NEW p \in 1 .. Len(t), NEW a \in Seq(AstItems), NEW w,
         Laid(t, a, w), LeftBehind(t, a, w, p)
  PROVE  Laid(NewContext(t, p), a, w)
<1> DEFINE y == NewContext(t, p)
<1>1. /\ w \in [1 .. Len(a) + 1 -> Spots(t)]
      /\ \A i \in 1 .. Len(a) : Lays(t, w[i], a[i], w[i + 1])
      /\ w[1] = Spot(1, Global)
  BY LaidLinks
<1>2. \A u \in Spots(t) : u \in Spots(y)
  BY SpotsNew
<1>3. ASSUME NEW i \in 1 .. Len(a) PROVE Lays(y, w[i], a[i], w[i + 1])
  <2>1. w[i] \in Spots(t)
    BY <1>1, LenProperties
  <2>2. a[i].k \in {"else", "end"} => ~On(t, w[i].c, p)
    BY DEF LeftBehind
  <2> QED
    BY <1>1, <2>1, <2>2, LaysNew
<1> HIDE DEF y
<1>4. w \in [1 .. Len(a) + 1 -> Spots(y)]
  BY <1>1, <1>2
<1> QED
  BY <1>1, <1>3, <1>4, LaidLinks DEF y

\* Only the chains of the contexts matter.
LEMMA LaidChains ==
  ASSUME NEW t, NEW y, Len(y) = Len(t), \A c \in 1 .. Len(t) : y[c].chain = t[c].chain,
         ContextsInv(t), NEW a \in Seq(AstItems), NEW w, Laid(t, a, w)
  PROVE  /\ Laid(y, a, w)
         /\ \A d \in 1 .. Len(t) : LeftBehind(t, a, w, d) => LeftBehind(y, a, w, d)
<1>1. \A c : \A d \in 1 .. Len(t) : On(y, c, d) <=> On(t, c, d)
  BY DEF On
<1>2. \A c \in 1 .. Len(t) : ParentIn(y, c) = ParentIn(t, c)
  BY DEF ParentIn
<1>3. Len(t) \in Nat
  BY LenProperties DEF ContextsInv
<1>4. ASSUME NEW u \in Spots(t) PROVE u \in Spots(y)
  <2>1. u.m \in 1 .. Len(t) /\ u.c \in 1 .. Len(t) /\ u.c <= u.m /\ Preorder(t, u.m, u.c) /\ u = Spot(u.m, u.c)
    BY SpotType
  <2>2. \A e \in 1 .. Len(t) : \A d \in e .. u.m : d \in 1 .. Len(t)
    BY <1>3, <2>1
  <2>3. Preorder(y, u.m, u.c)
    BY <1>1, <2>1, <2>2 DEF Preorder
  <2> QED
    BY <2>1, <2>3, SpotIs
<1>5. ASSUME NEW u \in Spots(t), NEW e, NEW v, Lays(t, u, e, v) PROVE Lays(y, u, e, v)
  <2>1. u.m \in 1 .. Len(t) /\ u.c \in 1 .. Len(t)
    BY SpotType
  <2>2. \A q : Enters(y, u, q) <=> Enters(t, u, q)
    BY <1>2 DEF Enters
  <2>3. \A d \in u.m + 1 .. Len(t) : d \in 1 .. Len(t)
    BY <1>3, <2>1
  <2>4. Left(y, u) <=> Left(t, u)
    BY <1>1, <2>3 DEF Left
  <2>5. ParentIn(y, u.c) = ParentIn(t, u.c)
    BY <1>2, <2>1
  <2> QED
    BY <1>5, <2>2, <2>4, <2>5 DEF Lays
<1>6. /\ w \in [1 .. Len(a) + 1 -> Spots(t)]
      /\ \A i \in 1 .. Len(a) : Lays(t, w[i], a[i], w[i + 1])
      /\ w[1] = Spot(1, Global)
  BY LaidLinks
<1>7. \A i \in 1 .. Len(a) : Lays(y, w[i], a[i], w[i + 1])
  <2> TAKE i \in 1 .. Len(a)
  <2>1. w[i] \in Spots(t)
    BY <1>6, LenProperties
  <2> QED
    BY <1>5, <1>6, <2>1
<1>8. w \in [1 .. Len(a) + 1 -> Spots(y)]
  BY <1>4, <1>6
<1>9. Laid(y, a, w)
  BY <1>6, <1>7, <1>8, LaidLinks
<1> QED
  BY <1>1, <1>9 DEF LeftBehind

-----------------------------------------------------------------------------
(***************************************************************************)
(* The contexts of the parsing stack: f[i] is *context with the first i    *)
(* entries.  An entry of a block stands for a context of its own.          *)
(***************************************************************************)
NestIn(st, t, h, f) ==
  /\ f \in [0 .. Len(st) -> 1 .. Len(t)] /\ f[0] = Global /\ f[Len(st)] = h
  /\ \A i \in 1 .. Len(st) : IF st[i].op = "func_call" THEN f[i] = f[i - 1]
                             ELSE f[i] # Global /\ ParentIn(t, f[i]) = f[i - 1]

\* t grows to y.
Grown(t, y) == Len(t) <= Len(y) /\ \A c \in 1 .. Len(t) : ParentIn(y, c) = ParentIn(t, c)


LEMMA NestLonger ==
  ASSUME NEW t, NEW y, Grown(t, y), Len(t) \in Nat, Len(y) \in Nat,
         NEW h, NEW f, NestIn(stack, t, h, f), NEW op, Longer(op), NEW d \in 1 .. Len(y),
         IF op = "func_call" THEN d = h ELSE d # Global /\ ParentIn(y, d) = h
  PROVE  \E g : NestIn(stack', y, d, g) /\ \A i \in 0 .. Len(stack) : g[i] = f[i]
<1> DEFINE n == Len(stack)
           g == [i \in 0 .. n + 1 |-> IF i <= n THEN f[i] ELSE d]
<1>1. /\ n \in Nat /\ Len(stack') = n + 1 /\ stack'[n + 1].op = op
      /\ \A i \in 1 .. n : stack'[i] = stack[i]
  BY DEF Longer
<1>2. /\ f \in [0 .. n -> 1 .. Len(t)] /\ f[0] = Global /\ f[n] = h
      /\ \A i \in 1 .. n : IF stack[i].op = "func_call" THEN f[i] = f[i - 1]
                           ELSE f[i] # Global /\ ParentIn(t, f[i]) = f[i - 1]
  BY DEF NestIn
<1> HIDE DEF n
<1>3. g[n + 1] = d /\ \A i \in 0 .. n : g[i] = f[i]
  BY <1>1
<1>4. g \in [0 .. n + 1 -> 1 .. Len(y)]
  BY <1>1, <1>2 DEF Grown
<1> HIDE DEF g
<1>5. ASSUME NEW i \in 1 .. n + 1
      PROVE  IF stack'[i].op = "func_call" THEN g[i] = g[i - 1] ELSE g[i] # Global /\ ParentIn(y, g[i]) = g[i - 1]
  <2>1. CASE i \in 1 .. n
    <3>1. i \in 0 .. n /\ i - 1 \in 0 .. n
      BY <1>1, <2>1
    <3>2. stack'[i] = stack[i] /\ g[i] = f[i] /\ g[i - 1] = f[i - 1] /\ f[i] \in 1 .. Len(t)
      BY <1>1, <1>2, <1>3, <2>1, <3>1
    <3>3. ParentIn(y, f[i]) = ParentIn(t, f[i])
      BY <3>2 DEF Grown
    <3> QED
      BY <1>2, <2>1, <3>2, <3>3
  <2>2. CASE i = n + 1
    <3>1. i - 1 = n /\ n \in 0 .. n
      BY <1>1, <2>2
    <3> QED
      BY <1>1, <1>2, <1>3, <2>2, <3>1
  <2> QED
    BY <1>1, <2>1, <2>2
<1>6. g[0] = Global
  BY <1>1, <1>2, <1>3
<1>7. NestIn(stack', y, d, g)
  BY <1>1, <1>3, <1>4, <1>5, <1>6 DEF NestIn
<1> QED
  BY <1>3, <1>7 DEF n

\* What is below the entry on top.
LEMMA NestBelow ==
  ASSUME Len(stack) \in Nat \ {0}, NEW t, NEW h, NEW f, NestIn(stack, t, h, f)
  PROVE  IF stack[Len(stack)].op = "func_call" THEN f[Len(stack) - 1] = h
         ELSE h # Global /\ ParentIn(t, h) = f[Len(stack) - 1]
<1>1. Len(stack) \in 1 .. Len(stack)
  OBVIOUS
<1> QED
  BY <1>1 DEF NestIn

LEMMA NestShorter ==
  ASSUME NEW t, NEW h, NEW f, NestIn(stack, t, h, f), Shorter
  PROVE  \E g : NestIn(stack', t, f[Len(stack) - 1], g) /\ \A i \in 0 .. Len(stack) - 1 : g[i] = f[i]
<1> DEFINE n == Len(stack) - 1
           g == [i \in 0 .. n |-> f[i]]
<1>1. /\ n \in Nat /\ Len(stack) = n + 1 /\ Len(stack') = n
      /\ \A i \in 1 .. n : stack'[i] = stack[i]
  BY DEF Shorter
<1>2. /\ f \in [0 .. n + 1 -> 1 .. Len(t)] /\ f[0] = Global
      /\ \A i \in 1 .. n + 1 : IF stack[i].op = "func_call" THEN f[i] = f[i - 1]
                               ELSE f[i] # Global /\ ParentIn(t, f[i]) = f[i - 1]
  BY <1>1 DEF NestIn
<1> HIDE DEF n
<1>3. g \in [0 .. n -> 1 .. Len(t)] /\ \A i \in 0 .. n : g[i] = f[i]
  BY <1>1, <1>2
<1> HIDE DEF g
<1>4. ASSUME NEW i \in 1 .. n
      PROVE  IF stack'[i].op = "func_call" THEN g[i] = g[i - 1] ELSE g[i] # Global /\ ParentIn(t, g[i]) = g[i - 1]
  <2>1. i \in 0 .. n /\ i - 1 \in 0 .. n /\ i \in 1 .. n + 1
    BY <1>1
  <2>2. stack'[i] = stack[i] /\ g[i] = f[i] /\ g[i - 1] = f[i - 1]
    BY <1>1, <1>3, <2>1
  <2> QED
    BY <1>2, <2>1, <2>2
<1>5. g[n] = f[n] /\ g[0] = Global
  BY <1>1, <1>2, <1>3
<1>6. NestIn(stack', t, f[n], g)
  BY <1>1, <1>3, <1>4, <1>5 DEF NestIn
<1> QED
  BY <1>3, <1>6 DEF n

LEMMA NestTurned ==
  ASSUME NEW t, NEW y, Grown(t, y), Len(t) \in Nat, Len(y) \in Nat,
         NEW h, NEW f, NestIn(stack, t, h, f), NEW op, Turned(op), op # "func_call", NEW d \in 1 .. Len(y),
         d # Global, ParentIn(y, d) = f[Len(stack) - 1]
  PROVE  \E g : NestIn(stack', y, d, g) /\ \A i \in 0 .. Len(stack) - 1 : g[i] = f[i]
<1> DEFINE n == Len(stack) - 1
           g == [i \in 0 .. n + 1 |-> IF i <= n THEN f[i] ELSE d]
<1>1. /\ n \in Nat /\ Len(stack) = n + 1 /\ Len(stack') = n + 1 /\ stack'[n + 1].op = op
      /\ \A i \in 1 .. n : stack'[i] = stack[i]
  BY DEF Turned
<1>2. /\ f \in [0 .. n + 1 -> 1 .. Len(t)] /\ f[0] = Global
      /\ \A i \in 1 .. n + 1 : IF stack[i].op = "func_call" THEN f[i] = f[i - 1]
                               ELSE f[i] # Global /\ ParentIn(t, f[i]) = f[i - 1]
  BY <1>1 DEF NestIn
<1>3. ParentIn(y, d) = f[n]
  OBVIOUS
<1> HIDE DEF n
<1>4. g[n + 1] = d /\ \A i \in 0 .. n : g[i] = f[i]
  BY <1>1
<1>5. g \in [0 .. n + 1 -> 1 .. Len(y)]
  BY <1>1, <1>2 DEF Grown
<1> HIDE DEF g
<1>6. ASSUME NEW i \in 1 .. n + 1
      PROVE  IF stack'[i].op = "func_call" THEN g[i] = g[i - 1] ELSE g[i] # Global /\ ParentIn(y, g[i]) = g[i - 1]
  <2>1. CASE i \in 1 .. n
    <3>1. i \in 0 .. n /\ i - 1 \in 0 .. n /\ i \in 0 .. n + 1
      BY <1>1, <2>1
    <3>2. stack'[i] = stack[i] /\ g[i] = f[i] /\ g[i - 1] = f[i - 1] /\ f[i] \in 1 .. Len(t)
      BY <1>1, <1>2, <1>4, <2>1, <3>1
    <3>3. ParentIn(y, f[i]) = ParentIn(t, f[i])
      BY <3>2 DEF Grown
    <3> QED
      BY <1>2, <3>2, <3>3
  <2>2. CASE i = n + 1
    <3>1. i - 1 = n /\ n \in 0 .. n
      BY <1>1, <2>2
    <3> QED
      BY <1>1, <1>3, <1>4, <2>2, <3>1
  <2> QED
    BY <1>1, <2>1, <2>2
<1>7. g[0] = Global
  BY <1>1, <1>2, <1>4
<1>8. NestIn(stack', y, d, g)
  BY <1>1, <1>4, <1>5, <1>6, <1>7 DEF NestIn
<1> QED
  BY <1>4, <1>8 DEF n

-----------------------------------------------------------------------------
(* The contexts of the parsing stack along the steps of the parser. *)

\* What is pending in a condition stays pending, until its body begins.
PendingKept(f, g) ==
  \A i \in 1 .. Len(stack) :
    stack[i].op = "if-cond" => \/ i \in 1 .. Len(stack') /\ stack'[i].op = "if-cond" /\ g[i] = f[i]
                               \/ i = Len(stack) /\ (ThenShape \/ EmptyThenShape)

Follows(f) == \E g : NestIn(stack', ctxs', here', g) /\ PendingKept(f, g)

LEMMA NestGrown ==
  ASSUME NEW st, Len(st) \in Nat, NEW t, NEW y, Len(t) \in Nat, Len(y) \in Nat, Grown(t, y), NEW h, NEW f, NestIn(st, t, h, f)
  PROVE  NestIn(st, y, h, f)
<1>1. \A i \in 1 .. Len(st) : f[i] \in 1 .. Len(t) /\ ParentIn(y, f[i]) = ParentIn(t, f[i])
  BY DEF NestIn, Grown
<1>2. f \in [0 .. Len(st) -> 1 .. Len(y)]
  BY DEF NestIn, Grown
<1> QED
  BY <1>1, <1>2 DEF NestIn

LEMMA NewIsGrown ==
  ASSUME NEW t, ContextsInv(t), KidsInv(t), NEW p \in 1 .. Len(t)
  PROVE  /\ Grown(t, NewContext(t, p)) /\ Len(t) \in Nat /\ Len(NewContext(t, p)) = Len(t) + 1
         /\ Len(t) + 1 # Global /\ ParentIn(NewContext(t, p), Len(t) + 1) = p
<1>1. Len(NewContext(t, p)) = Len(t) + 1 /\ Len(t) \in Nat /\ Len(t) > 0
  BY NewContextTree, LenProperties DEF ContextsInv
<1>2. \A c \in 1 .. Len(t) : ParentIn(NewContext(t, p), c) = ParentIn(t, c)
  BY NewContextKids
<1>3. ParentIn(NewContext(t, p), Len(t) + 1) = p
  BY NewContextKids
<1> QED
  BY <1>1, <1>2, <1>3 DEF Grown, Global

LEMMA SameIsGrown ==
  ASSUME NEW t, Len(t) \in Nat
  PROVE  Grown(t, t)
  BY DEF Grown

LEMMA NestQuiet ==
  ASSUME TreeInv, NEW f, NestIn(stack, ctxs, here, f), Quiet
  PROVE  Follows(f)
<1>1. TypeInv /\ ContextsInv(ctxs) /\ KidsInv(ctxs) /\ here \in 1 .. Len(ctxs) /\ Len(ctxs) \in Nat
  BY LenProperties DEF TreeInv, ParserInv, TypeInv, ContextsInv
<1>2. Len(stack) \in Nat /\ (Len(stack) # 0 => TopOp = stack[Len(stack)].op)
  BY <1>1, TopIs
<1>3. Grown(ctxs, ctxs') /\ Len(ctxs') = Len(ctxs) /\ here' = here
  <2>1. CASE ctxs' = ctxs
    BY <1>1, <2>1, SameIsGrown DEF Quiet
  <2>2. ASSUME NEW x \in Names, NEW m, ctxs' = BoundThere(ctxs, here, x, m), ~IsBound(Vars(here), x), m \in Meanings
        PROVE  Grown(ctxs, ctxs') /\ Len(ctxs') = Len(ctxs)
    <3>1. ~IsBound(ctxs[here].vars, x)
      BY <2>2 DEF Vars
    <3>2. \A d \in 1 .. Len(ctxs) : ParentIn(BoundThere(ctxs, here, x, m), d) = ParentIn(ctxs, d)
      BY <1>1, <2>2, <3>1, DeclaredKids
    <3>3. Len(BoundThere(ctxs, here, x, m)) = Len(ctxs)
      BY <1>1, <2>2, <3>1, DeclaredTree
    <3> QED
      BY <1>1, <2>2, <3>2, <3>3 DEF Grown
  <2>3. ctxs' # ctxs => \E x \in Names, m \in Meanings : ctxs' = BoundThere(ctxs, here, x, m) /\ ~IsBound(Vars(here), x)
    BY DEF Quiet, OneDeclared
  <2> QED
    BY <2>1, <2>2, <2>3 DEF Quiet
<1>4. CASE stack' = stack
  <2>1. NestIn(stack', ctxs', here', f)
    BY <1>1, <1>2, <1>3, <1>4, NestGrown
  <2>2. PendingKept(f, f)
    BY <1>4 DEF PendingKept
  <2> QED
    BY <2>1, <2>2 DEF Follows
<1>5. CASE stack' = Append(stack, Entry("func_call"))
  <2>1. Longer("func_call")
    BY <1>1, <1>5, PushShape DEF StackOps
  <2>2. PICK g : NestIn(stack', ctxs', here, g) /\ \A i \in 0 .. Len(stack) : g[i] = f[i]
    BY <1>1, <1>3, <2>1, NestLonger
  <2>3. PendingKept(f, g)
    BY <2>1, <2>2 DEF PendingKept, Longer
  <2> QED
    BY <1>3, <2>2, <2>3 DEF Follows
<1>6. CASE TopOp = "func_call" /\ stack' = Outer
  <2>1. Shorter /\ stack[Len(stack)].op = "func_call"
    BY <1>1, <1>6, PopShape
  <2>2. f[Len(stack) - 1] = here
    BY <2>1, NestBelow DEF Shorter
  <2>3. PICK g : NestIn(stack', ctxs, here, g) /\ \A i \in 0 .. Len(stack) - 1 : g[i] = f[i]
    BY <2>1, <2>2, NestShorter
  <2>4. Len(stack') \in Nat
    BY <2>1 DEF Shorter
  <2>5. NestIn(stack', ctxs', here, g)
    BY <1>1, <1>3, <2>3, <2>4, NestGrown
  <2>6. ASSUME NEW i \in 1 .. Len(stack), stack[i].op = "if-cond"
        PROVE  i \in 1 .. Len(stack') /\ stack'[i].op = "if-cond" /\ g[i] = f[i]
    <3>1. i # Len(stack)
      BY <2>1, <2>6
    <3>2. i \in 1 .. Len(stack) - 1 /\ i \in 0 .. Len(stack) - 1
      BY <1>2, <3>1
    <3> QED
      BY <2>1, <2>3, <2>6, <3>2 DEF Shorter
  <2>7. PendingKept(f, g)
    BY <2>6 DEF PendingKept
  <2> QED
    BY <1>3, <2>5, <2>7 DEF Follows
<1> QED
  BY <1>4, <1>5, <1>6 DEF Quiet, CallStack

LEMMA NestBlocks ==
  ASSUME TreeInv, NEW f, NestIn(stack, ctxs, here, f), BlockShapes
  PROVE  EmptyLambdaShape \/ NoBodyShape \/ Follows(f)
<1>1. TypeInv /\ ContextsInv(ctxs) /\ KidsInv(ctxs) /\ here \in 1 .. Len(ctxs) /\ Len(ctxs) \in Nat
  BY LenProperties DEF TreeInv, ParserInv, TypeInv, ContextsInv
<1>2. Len(stack) \in Nat /\ (Len(stack) # 0 => TopOp = stack[Len(stack)].op)
  BY <1>1, TopIs
<1>3. Parent(here) = ParentIn(ctxs, here)
  BY DEF Parent, Chain, ParentIn
<1>4. ASSUME NEW op, op # "func_call", Longer(op), OpenContext
      PROVE  Follows(f)
  <2>1. /\ Grown(ctxs, ctxs') /\ Len(ctxs') = Len(ctxs) + 1
        /\ here' = Len(ctxs) + 1 /\ here' # Global /\ ParentIn(ctxs', here') = here
    BY <1>1, <1>4, NewIsGrown DEF OpenContext
  <2>2. here' \in 1 .. Len(ctxs') /\ Len(ctxs') \in Nat
    BY <1>1, <2>1
  <2>3. PICK g : NestIn(stack', ctxs', here', g) /\ \A i \in 0 .. Len(stack) : g[i] = f[i]
    BY <1>1, <1>4, <2>1, <2>2, NestLonger
  <2>4. PendingKept(f, g)
    BY <1>4, <2>3 DEF PendingKept, Longer
  <2> QED
    BY <2>3, <2>4 DEF Follows
<1>5. ASSUME Len(stack) \in Nat \ {0}, TopOp # "func_call"
      PROVE  here # Global /\ ParentIn(ctxs, here) = f[Len(stack) - 1]
  BY <1>2, <1>5, NestBelow
<1>6. ASSUME NEW g, \A i \in 0 .. Len(stack) - 1 : g[i] = f[i],
             \A i \in 1 .. Len(stack) - 1 : stack'[i] = stack[i], Len(stack') >= Len(stack) - 1, Len(stack') \in Nat,
             TopOp = "if-cond" => ThenShape \/ EmptyThenShape
      PROVE  PendingKept(f, g)
  <2> SUFFICES ASSUME NEW i \in 1 .. Len(stack), stack[i].op = "if-cond"
               PROVE  \/ i \in 1 .. Len(stack') /\ stack'[i].op = "if-cond" /\ g[i] = f[i]
                      \/ i = Len(stack) /\ (ThenShape \/ EmptyThenShape)
    BY DEF PendingKept
  <2>1. CASE i = Len(stack)
    BY <1>2, <1>6, <2>1
  <2>2. CASE i # Len(stack)
    <3>1. i \in 1 .. Len(stack) - 1 /\ i \in 0 .. Len(stack) - 1
      BY <1>2, <2>2
    <3>2. i \in 1 .. Len(stack')
      BY <1>2, <1>6, <3>1
    <3> QED
      BY <1>6, <3>1, <3>2
  <2> QED
    BY <2>1, <2>2
<1>7. ASSUME NEW op, op # "func_call", Turned(op), SameTree, TopOp # "func_call", TopOp = "if-cond" => ThenShape
      PROVE  Follows(f)
  <2>1. Grown(ctxs, ctxs)
    BY <1>1, SameIsGrown
  <2>2. here # Global /\ ParentIn(ctxs, here) = f[Len(stack) - 1]
    BY <1>5, <1>7 DEF Turned
  <2>3. PICK g : NestIn(stack', ctxs, here, g) /\ \A i \in 0 .. Len(stack) - 1 : g[i] = f[i]
    BY <1>1, <1>7, <2>1, <2>2, NestTurned
  <2>4. PendingKept(f, g)
    BY <1>6, <1>7, <2>3 DEF Turned
  <2> QED
    BY <1>7, <2>3, <2>4 DEF Follows, SameTree
<1>8. ASSUME Shorter, CloseContext, TopOp # "func_call", TopOp = "if-cond" => EmptyThenShape
      PROVE  Follows(f)
  <2>1. ParentIn(ctxs, here) = f[Len(stack) - 1]
    BY <1>5, <1>8 DEF Shorter
  <2>2. PICK g : NestIn(stack', ctxs, f[Len(stack) - 1], g) /\ \A i \in 0 .. Len(stack) - 1 : g[i] = f[i]
    BY <1>8, NestShorter
  <2>3. PendingKept(f, g)
    BY <1>6, <1>8, <2>2 DEF Shorter
  <2> QED
    BY <1>3, <1>8, <2>1, <2>2, <2>3 DEF Follows, CloseContext
<1>9. CASE ElseShape
  <2>1. here # Global /\ ParentIn(ctxs, here) = f[Len(stack) - 1]
    BY <1>5, <1>9 DEF ElseShape, Turned
  <2>2. ParentIn(ctxs, here) \in 1 .. Len(ctxs)
    <3>1. here \in 2 .. Len(ctxs)
      BY <1>1, <2>1 DEF Global
    <3> QED
      BY <1>1, <3>1, ParentIsThere
  <2>3. /\ Grown(ctxs, ctxs') /\ Len(ctxs') = Len(ctxs) + 1
        /\ here' = Len(ctxs) + 1 /\ here' # Global /\ ParentIn(ctxs', here') = ParentIn(ctxs, here)
    BY <1>1, <1>3, <1>9, <2>2, NewIsGrown DEF ElseShape
  <2>4. here' \in 1 .. Len(ctxs') /\ Len(ctxs') \in Nat
    BY <1>1, <2>3
  <2>5. Turned("if-else-body")
    BY <1>9 DEF ElseShape
  <2>6. PICK g : NestIn(stack', ctxs', here', g) /\ \A i \in 0 .. Len(stack) - 1 : g[i] = f[i]
    BY <1>1, <2>1, <2>3, <2>4, <2>5, NestTurned
  <2>7. PendingKept(f, g)
    BY <1>6, <1>9, <2>5, <2>6 DEF Turned, ElseShape
  <2> QED
    BY <2>6, <2>7 DEF Follows
<1>10. CASE IfShape \/ LambdaShape \/ PlainLambdaShape
  BY <1>4, <1>10 DEF IfShape, LambdaShape, PlainLambdaShape
<1>11. CASE ThenShape \/ BodyShape
  BY <1>7, <1>11 DEF ThenShape, BodyShape
<1>12. CASE EmptyThenShape \/ EndShape
  BY <1>8, <1>12 DEF EmptyThenShape, EndShape, BodyOps
<1> QED
  BY <1>9, <1>10, <1>11, <1>12 DEF BlockShapes

-----------------------------------------------------------------------------
(***************************************************************************)
(* The layout of what was read.  A construct whose body is still to come   *)
(* is pending: it is the last that was opened, but for calls, *context is  *)
(* the one that was created last, and the items belong around it.          *)
(***************************************************************************)
PendingOps == {"if-cond", "lambda_params"}

PendIn(st) == {i \in 1 .. Len(st) : st[i].op \in PendingOps}

OnlyCalls(st) == \A i \in PendIn(st) : \A j \in i + 1 .. Len(st) : st[j].op = "func_call"

Stands(t, h, st, u) ==
  IF PendIn(st) = {} THEN u = Spot(Len(t), h)
  ELSE h # Global /\ h = Len(t) /\ u = Spot(h - 1, ParentIn(t, h))

\* Nothing is declared in a condition.
CondEmpty(t, h, st) == \A i \in PendIn(st) : st[i].op = "if-cond" => t[h].vars = EmptyEnv

\* What is looked up in a condition was not declared where it is looked up.
FreshUses(t, a, w) ==
  \A i \in 1 .. Len(a) : a[i].k \in UseKinds /\ a[i].at # w[i].c =>
    \A b \in 1 .. Len(t[a[i].at].vars) : t[a[i].at].vars[b].val.d > i

LayoutIn(t, h, a, st, w) ==
  /\ Laid(t, a, w)
  /\ OnlyCalls(st)
  /\ Stands(t, h, st, w[Len(a) + 1])
  /\ CondEmpty(t, h, st)
  /\ LeftBehind(t, a, w, h)
  /\ FreshUses(t, a, w)

-----------------------------------------------------------------------------
(* What is pending after a step. *)

LEMMA PendTop ==
  ASSUME TypeInv, OnlyCalls(stack)
  PROVE  /\ TopOp \in BodyOps \cup {"none"} => PendIn(stack) = {}
         /\ TopOp \in PendingOps => PendIn(stack) = {Len(stack)} /\ Len(stack) # 0
<1>1. /\ Len(stack) \in Nat /\ (Len(stack) = 0 => TopOp = "none")
      /\ Len(stack) # 0 => TopOp = stack[Len(stack)].op
  BY TopIs
<1>2. ASSUME NEW i \in PendIn(stack), i # Len(stack) PROVE TopOp = "func_call"
  <2>1. Len(stack) \in i + 1 .. Len(stack) /\ Len(stack) # 0
    BY <1>1, <1>2 DEF PendIn
  <2> QED
    BY <1>1, <2>1 DEF OnlyCalls
<1>3. ASSUME NEW i \in PendIn(stack), i = Len(stack) PROVE TopOp \in PendingOps
  <2>1. Len(stack) # 0
    BY <1>1, <1>3 DEF PendIn
  <2> QED
    BY <1>1, <1>3, <2>1 DEF PendIn
<1>4. CASE TopOp \in BodyOps \cup {"none"}
  BY <1>2, <1>3, <1>4 DEF BodyOps, PendingOps
<1>5. CASE TopOp \in PendingOps
  <2>1. Len(stack) # 0
    BY <1>1, <1>5 DEF PendingOps
  <2>4. TopOp \notin BodyOps \cup {"none"}
    BY <1>5 DEF BodyOps, PendingOps
  <2>2. Len(stack) \in PendIn(stack)
    BY <1>1, <1>5, <2>1 DEF PendIn
  <2>3. TopOp # "func_call"
    BY <1>5 DEF PendingOps
  <2>5. PendIn(stack) = {Len(stack)}
    BY <1>2, <2>2, <2>3
  <2> QED
    BY <2>1, <2>4, <2>5
<1> QED
  BY <1>4, <1>5

LEMMA PendCall ==
  ASSUME Longer("func_call"), OnlyCalls(stack)
  PROVE  PendIn(stack') = PendIn(stack) /\ OnlyCalls(stack') /\ \A i \in PendIn(stack) : stack'[i] = stack[i]
<1>1. /\ Len(stack) \in Nat /\ Len(stack') = Len(stack) + 1 /\ stack'[Len(stack) + 1].op = "func_call"
      /\ \A i \in 1 .. Len(stack) : stack'[i] = stack[i]
  BY DEF Longer
<1>2. "func_call" \notin PendingOps
  BY DEF PendingOps
<1>3. \A i \in 1 .. Len(stack') : i \in 1 .. Len(stack) \/ i = Len(stack) + 1
  BY <1>1
<1>4. \A i \in 1 .. Len(stack) : i \in 1 .. Len(stack')
  BY <1>1
<1>5. PendIn(stack') = PendIn(stack)
  BY <1>1, <1>2, <1>3, <1>4 DEF PendIn
<1>6. ASSUME NEW i \in PendIn(stack), NEW j \in i + 1 .. Len(stack') PROVE stack'[j].op = "func_call"
  <2>1. i \in 1 .. Len(stack)
    BY DEF PendIn
  <2>2. CASE j = Len(stack) + 1
    BY <1>1, <2>2
  <2>3. CASE j # Len(stack) + 1
    <3>1. j \in i + 1 .. Len(stack) /\ j \in 1 .. Len(stack)
      BY <1>1, <1>6, <2>1, <2>3
    <3> QED
      BY <1>1, <3>1 DEF OnlyCalls
  <2> QED
    BY <2>2, <2>3
<1> QED
  BY <1>1, <1>5, <1>6 DEF OnlyCalls, PendIn

LEMMA PendReturn ==
  ASSUME Shorter, stack[Len(stack)].op = "func_call", OnlyCalls(stack)
  PROVE  PendIn(stack') = PendIn(stack) /\ OnlyCalls(stack') /\ \A i \in PendIn(stack) : stack'[i] = stack[i]
<1> DEFINE n == Len(stack) - 1
<1>1. /\ n \in Nat /\ Len(stack) = n + 1 /\ Len(stack') = n
      /\ \A i \in 1 .. n : stack'[i] = stack[i]
  BY DEF Shorter
<1>2. "func_call" \notin PendingOps
  BY DEF PendingOps
<1> HIDE DEF n
<1>3. \A i \in 1 .. n + 1 : i \in 1 .. n \/ i = n + 1
  BY <1>1
<1>4. \A i \in 1 .. n : i \in 1 .. n + 1
  BY <1>1
<1>5. PendIn(stack') = PendIn(stack)
  BY <1>1, <1>2, <1>3, <1>4 DEF PendIn
<1>6. ASSUME NEW i \in PendIn(stack), NEW j \in i + 1 .. n PROVE stack'[j].op = "func_call"
  <2>1. i \in 1 .. n + 1
    BY <1>1 DEF PendIn
  <2>2. j \in i + 1 .. n + 1 /\ j \in 1 .. n
    BY <1>1, <2>1
  <2> QED
    BY <1>1, <2>2 DEF OnlyCalls
<1>7. \A i \in PendIn(stack') : i \in 1 .. n
  BY <1>1 DEF PendIn
<1> QED
  BY <1>1, <1>5, <1>6, <1>7 DEF OnlyCalls

\* A block is opened when nothing is pending.
LEMMA PendOpen ==
  ASSUME NEW op, Longer(op), PendIn(stack) = {}
  PROVE  /\ OnlyCalls(stack')
         /\ PendIn(stack') = IF op \in PendingOps THEN {Len(stack')} ELSE {}
         /\ stack'[Len(stack')].op = op
<1>1. /\ Len(stack) \in Nat /\ Len(stack') = Len(stack) + 1 /\ stack'[Len(stack) + 1].op = op
      /\ \A i \in 1 .. Len(stack) : stack'[i] = stack[i]
  BY DEF Longer
<1>2. \A i \in 1 .. Len(stack) : stack[i].op \notin PendingOps
  BY DEF PendIn
<1>3. \A i \in 1 .. Len(stack') : i \in 1 .. Len(stack) \/ i = Len(stack')
  BY <1>1
<1>4. Len(stack') \in 1 .. Len(stack')
  BY <1>1
<1>5. PendIn(stack') = IF op \in PendingOps THEN {Len(stack')} ELSE {}
  BY <1>1, <1>2, <1>3, <1>4 DEF PendIn
<1>6. \A j \in Len(stack') + 1 .. Len(stack') : FALSE
  BY <1>1
<1> QED
  BY <1>1, <1>5, <1>6 DEF OnlyCalls

\* What is pending becomes a body, or what is on top goes.
LEMMA PendNone ==
  ASSUME PendIn(stack) \subseteq {Len(stack)}, Shorter \/ \E op : Turned(op) /\ op \notin PendingOps
  PROVE  PendIn(stack') = {} /\ OnlyCalls(stack')
<1>1. CASE Shorter
  <2>1. /\ Len(stack) \in Nat /\ Len(stack') = Len(stack) - 1
        /\ \A i \in 1 .. Len(stack) - 1 : stack'[i] = stack[i]
    BY <1>1 DEF Shorter
  <2>2. ASSUME NEW i \in 1 .. Len(stack) - 1 PROVE stack'[i].op \notin PendingOps
    <3>1. i # Len(stack) /\ i \in 1 .. Len(stack)
      BY <2>1
    <3> QED
      BY <2>1, <3>1 DEF PendIn
  <2>3. PendIn(stack') = {}
    BY <2>1, <2>2 DEF PendIn
  <2> QED
    BY <2>3 DEF OnlyCalls
<1>2. ASSUME NEW op, Turned(op), op \notin PendingOps PROVE PendIn(stack') = {} /\ OnlyCalls(stack')
  <2>1. /\ Len(stack) \in Nat \ {0} /\ Len(stack') = Len(stack) /\ stack'[Len(stack)].op = op
        /\ \A i \in 1 .. Len(stack) - 1 : stack'[i] = stack[i]
    BY <1>2 DEF Turned
  <2>2. ASSUME NEW i \in 1 .. Len(stack) PROVE stack'[i].op \notin PendingOps
    <3>1. CASE i = Len(stack)
      BY <1>2, <2>1, <3>1
    <3>2. CASE i # Len(stack)
      <4>1. i \in 1 .. Len(stack) - 1
        BY <2>1, <3>2
      <4> QED
        BY <2>1, <3>2, <4>1 DEF PendIn
    <3> QED
      BY <3>1, <3>2
  <2>3. PendIn(stack') = {}
    BY <2>1, <2>2 DEF PendIn
  <2> QED
    BY <2>3 DEF OnlyCalls
<1> QED
  BY <1>1, <1>2

\* With nothing pending.
LEMMA NothingPends ==
  ASSUME NEW st, PendIn(st) = {}, NEW t, NEW h
  PROVE  OnlyCalls(st) /\ CondEmpty(t, h, st)
  BY DEF OnlyCalls, CondEmpty

-----------------------------------------------------------------------------
(* The layout of a longer list. *)

LEMMA LaidMore ==
  ASSUME NEW t, NEW a \in Seq(AstItems), NEW w, Laid(t, a, w),
         NEW s \in Seq(AstItems), NEW v, Path(s, v, Spots(t), LayMoves(t)), v[1] = w[Len(a) + 1],
         NEW h, LeftBehind(t, a, w, h),
         \A j \in 1 .. Len(s) : s[j].k \in {"else", "end"} => ~On(t, v[j].c, h)
  PROVE  \E z : /\ Laid(t, a \o s, z) /\ LeftBehind(t, a \o s, z, h)
                /\ z[Len(a \o s) + 1] = v[Len(s) + 1]
                /\ \A i \in 1 .. Len(a) + 1 : z[i] = w[i]
                /\ \A j \in 1 .. Len(s) + 1 : z[Len(a) + j] = v[j]
<1>1. /\ Len(a) \in Nat /\ Len(s) \in Nat /\ Len(a \o s) = Len(a) + Len(s) /\ a \o s \in Seq(AstItems)
      /\ \A i \in 1 .. Len(a) : (a \o s)[i] = a[i]
      /\ \A i \in 1 .. Len(s) : (a \o s)[Len(a) + i] = s[i]
  BY ConcatProperties, LenProperties
<1>2. Path(a, w, Spots(t), LayMoves(t)) /\ w[1] = Spot(1, Global)
  BY DEF Laid
<1>3. PICK z : /\ Path(a \o s, z, Spots(t), LayMoves(t))
               /\ \A i \in 1 .. Len(a) + 1 : z[i] = w[i]
               /\ \A i \in 1 .. Len(s) + 1 : z[Len(a) + i] = v[i]
  BY <1>2, PathJoin
<1>4. 1 \in 1 .. Len(a) + 1 /\ Len(s) + 1 \in 1 .. Len(s) + 1 /\ Len(a) + (Len(s) + 1) = Len(a \o s) + 1
  BY <1>1
<1>5. Laid(t, a \o s, z) /\ z[Len(a \o s) + 1] = v[Len(s) + 1]
  BY <1>2, <1>3, <1>4 DEF Laid
<1> DEFINE b == a \o s
<1> HIDE DEF b
<1>6. ASSUME NEW i \in 1 .. Len(b), b[i].k \in {"else", "end"} PROVE ~On(t, z[i].c, h)
  <2>1. CASE i \in 1 .. Len(a)
    <3>1. i \in 1 .. Len(a) + 1
      BY <1>1, <2>1
    <3> QED
      BY <1>1, <1>3, <1>6, <2>1, <3>1 DEF LeftBehind, b
  <2>2. CASE i \notin 1 .. Len(a)
    <3> DEFINE j == i - Len(a)
    <3>1. j \in 1 .. Len(s) /\ j \in 1 .. Len(s) + 1 /\ Len(a) + j = i
      BY <1>1, <2>2 DEF b
    <3> HIDE DEF j
    <3>2. b[i] = s[j] /\ z[i] = v[j]
      BY <1>1, <1>3, <3>1 DEF b
    <3> QED
      BY <1>6, <3>1, <3>2
  <2> QED
    BY <2>1, <2>2
<1>7. LeftBehind(t, a \o s, z, h)
  BY <1>6 DEF LeftBehind, b
<1> QED
  BY <1>3, <1>5, <1>7

\* Bindings after a declaration.
LEMMA BoundBindings ==
  ASSUME NEW t, ContextsInv(t), KidsInv(t), NEW c \in 1 .. Len(t), NEW x \in Names, NEW m \in Meanings, ~IsBound(t[c].vars, x)
  PROVE  LET y == BoundThere(t, c, x, m) IN
         /\ Len(y) = Len(t) /\ \A d \in 1 .. Len(t) : y[d].chain = t[d].chain
         /\ Len(t[c].vars) \in Nat /\ Len(y[c].vars) = Len(t[c].vars) + 1
         /\ \A b \in 1 .. Len(t[c].vars) : y[c].vars[b] = t[c].vars[b]
         /\ y[c].vars[Len(t[c].vars) + 1] = Binding(x, m)
         /\ \A d \in 1 .. Len(t) : d # c => y[d].vars = t[d].vars
<1> DEFINE y == BoundThere(t, c, x, m)
<1>1. /\ \A d \in 1 .. Len(t) : y[d].chain = t[d].chain /\ (d # c => y[d] = t[d])
      /\ y[c].vars = SetEnv(t[c].vars, x, m)
  BY DeclaredKids
<1>2. Len(y) = Len(t)
  BY DeclaredTree
<1>3. t[c].vars \in Seq(Bindings) /\ Len(t[c].vars) \in Nat
  BY ChainType, LenProperties
<1>4. SetEnv(t[c].vars, x, m) = Append(t[c].vars, Binding(x, m))
  BY DEF SetEnv, IsBound
<1>5. Binding(x, m) \in Bindings
  BY DEF Binding, Bindings
<1> HIDE DEF y
<1>6. /\ Len(y[c].vars) = Len(t[c].vars) + 1
      /\ \A b \in 1 .. Len(t[c].vars) : y[c].vars[b] = t[c].vars[b]
      /\ y[c].vars[Len(t[c].vars) + 1] = Binding(x, m)
  BY <1>1, <1>3, <1>4, <1>5, AppendProperties
<1> QED
  BY <1>1, <1>2, <1>3, <1>6 DEF y

\* Items that are added to a layout.
LEMMA LayoutMore ==
  ASSUME NEW t, NEW a \in Seq(AstItems), NEW w, Laid(t, a, w),
         NEW s \in Seq(AstItems), NEW v, Path(s, v, Spots(t), LayMoves(t)), v[1] = w[Len(a) + 1],
         NEW h, LeftBehind(t, a, w, h), FreshUses(t, a, w),
         \A j \in 1 .. Len(s) : s[j].k \in {"else", "end"} => ~On(t, v[j].c, h),
         \A j \in 1 .. Len(s) : s[j].k \in UseKinds /\ s[j].at # v[j].c => t[s[j].at].vars = EmptyEnv,
         NEW st, OnlyCalls(st), Stands(t, h, st, v[Len(s) + 1]), CondEmpty(t, h, st)
  PROVE  \E z : LayoutIn(t, h, a \o s, st, z)
<1>1. PICK z : /\ Laid(t, a \o s, z) /\ LeftBehind(t, a \o s, z, h)
               /\ z[Len(a \o s) + 1] = v[Len(s) + 1]
               /\ \A i \in 1 .. Len(a) + 1 : z[i] = w[i]
               /\ \A j \in 1 .. Len(s) + 1 : z[Len(a) + j] = v[j]
  BY LaidMore
<1>2. /\ Len(a) \in Nat /\ Len(s) \in Nat /\ Len(a \o s) = Len(a) + Len(s)
      /\ \A i \in 1 .. Len(a) : (a \o s)[i] = a[i]
      /\ \A i \in 1 .. Len(s) : (a \o s)[Len(a) + i] = s[i]
  BY ConcatProperties, LenProperties
<1> DEFINE b == a \o s
<1> HIDE DEF b
<1>3. ASSUME NEW i \in 1 .. Len(b), b[i].k \in UseKinds, b[i].at # z[i].c, NEW n \in 1 .. Len(t[b[i].at].vars)
      PROVE  t[b[i].at].vars[n].val.d > i
  <2>1. CASE i \in 1 .. Len(a)
    <3>1. i \in 1 .. Len(a) + 1
      BY <1>2, <2>1
    <3>2. b[i] = a[i] /\ z[i] = w[i]
      BY <1>1, <1>2, <2>1, <3>1 DEF b
    <3> QED
      BY <1>3, <2>1, <3>2 DEF FreshUses
  <2>2. CASE i \notin 1 .. Len(a)
    <3> DEFINE j == i - Len(a)
    <3>1. j \in 1 .. Len(s) /\ j \in 1 .. Len(s) + 1 /\ Len(a) + j = i
      BY <1>2, <2>2 DEF b
    <3> HIDE DEF j
    <3>2. b[i] = s[j] /\ z[i] = v[j]
      BY <1>1, <1>2, <3>1 DEF b
    <3>3. t[b[i].at].vars = EmptyEnv
      BY <1>3, <3>1, <3>2
    <3> QED
      BY <1>3, <3>3 DEF EmptyEnv
  <2> QED
    BY <2>1, <2>2
<1>4. FreshUses(t, a \o s, z)
  BY <1>3 DEF FreshUses, b
<1> QED
  BY <1>1, <1>4 DEF LayoutIn

\* What is not around a context is not around its parent.
LEMMA ClosedUp ==
  ASSUME NEW t, ContextsInv(t), NEW a, NEW w, NEW h \in 2 .. Len(t), LeftBehind(t, a, w, h)
  PROVE  LeftBehind(t, a, w, ParentIn(t, h))
BY OnParent DEF LeftBehind

LEMMA ClosedNew ==
  ASSUME NEW t, ContextsInv(t), NEW p \in 1 .. Len(t), NEW a \in Seq(AstItems), NEW w, Laid(t, a, w), LeftBehind(t, a, w, p)
  PROVE  LeftBehind(NewContext(t, p), a, w, Len(t) + 1)
<1>1. Len(t) \in Nat /\ Len(a) \in Nat
  BY LenProperties DEF ContextsInv
<1>2. ASSUME NEW i \in 1 .. Len(a), a[i].k \in {"else", "end"} PROVE ~On(NewContext(t, p), w[i].c, Len(t) + 1)
  <2>1. i \in 1 .. Len(a) + 1
    BY <1>1
  <2>2. w[i] \in Spots(t)
    BY <2>1, LaidLinks
  <2>3. w[i].c \in 1 .. Len(t)
    BY <2>2, SpotType
  <2>4. w[i].c # Len(t) + 1
    BY <1>1, <2>3
  <2> QED
    BY <1>2, <2>4, OnNew DEF LeftBehind
<1> QED
  BY <1>2 DEF LeftBehind

\* Uses in a tree with one more context.
LEMMA FreshNew ==
  ASSUME NEW t, ContextsInv(t), NEW p \in 1 .. Len(t), NEW a, NEW w, FreshUses(t, a, w),
         \A i \in 1 .. Len(a) : a[i].at \in 1 .. Len(t)
  PROVE  FreshUses(NewContext(t, p), a, w)
<1>1. \A c \in 1 .. Len(t) : NewContext(t, p)[c].vars = t[c].vars
  BY NewContextTree
<1> QED
  BY <1>1 DEF FreshUses

-----------------------------------------------------------------------------
(* The steps. *)

\* What TreeInv says of the AST and the tree.
LEMMA TreeFacts ==
  ASSUME TreeInv
  PROVE  /\ ast \in Seq(AstItems) /\ Len(ast) \in Nat /\ \A i \in 1 .. Len(ast) : ast[i].at \in 1 .. Len(ctxs)
         /\ ContextsInv(ctxs) /\ KidsInv(ctxs) /\ Len(ctxs) \in Nat /\ here \in 1 .. Len(ctxs)
         /\ Parent(here) = ParentIn(ctxs, here)
         /\ TypeInv /\ ParserInv /\ AstInv
<1>1. TypeInv /\ ParserInv /\ AstInv
  BY DEF TreeInv, ParserInv
<1>2. Parent(here) = ParentIn(ctxs, here)
  BY DEF Parent, ParentIn, Chain
<1> QED
  BY <1>1, <1>2, LenProperties DEF TreeInv, TypeInv, AstInv, ContextsInv

LEMMA StandsAt ==
  ASSUME TreeInv, NEW w, LayoutIn(ctxs, here, ast, stack, w)
  PROVE  /\ w[Len(ast) + 1] \in Spots(ctxs)
         /\ PendIn(stack) = {} => w[Len(ast) + 1] = Spot(Len(ctxs), here)
         /\ PendIn(stack) # {} => /\ here # Global /\ here = Len(ctxs)
                                  /\ w[Len(ast) + 1] = Spot(here - 1, ParentIn(ctxs, here))
<1>1. Len(ast) + 1 \in 1 .. Len(ast) + 1
  BY TreeFacts
<1> QED
  BY <1>1, TreeFacts, LaidLinks DEF LayoutIn, Stands

\* The stack of calls.
LEMMA PendQuiet ==
  ASSUME TypeInv, OnlyCalls(stack), CallStack
  PROVE  PendIn(stack') = PendIn(stack) /\ OnlyCalls(stack') /\ \A i \in PendIn(stack) : stack'[i] = stack[i]
<1>1. CASE stack' = stack
  BY <1>1
<1>2. CASE stack' = Append(stack, Entry("func_call"))
  BY <1>2, PushShape, PendCall DEF StackOps
<1>3. CASE TopOp = "func_call" /\ stack' = Outer
  BY <1>3, PopShape, PendReturn
<1> QED
  BY <1>1, <1>2, <1>3 DEF CallStack

\* Items that open and close nothing stay where they are.
LEMMA QuietStays ==
  ASSUME TreeInv, NEW w, LayoutIn(ctxs, here, ast, stack, w), NEW s \in Seq(AstItems), QuietItems(s)
  PROVE  Stays(s, w[Len(ast) + 1], LayMoves(ctxs))
<1> DEFINE u == w[Len(ast) + 1]
<1>1. /\ u \in Spots(ctxs)
      /\ PendIn(stack) = {} => u = Spot(Len(ctxs), here)
      /\ PendIn(stack) # {} => here # Global /\ here = Len(ctxs) /\ u = Spot(here - 1, ParentIn(ctxs, here))
  BY StandsAt
<1>2. Len(ctxs) \in Nat /\ here \in 1 .. Len(ctxs) /\ TypeInv
  BY TreeFacts
<1> HIDE DEF u
<1>3. ASSUME NEW j \in 1 .. Len(s) PROVE Link(u, s[j], u, LayMoves(ctxs))
  <2>1. s[j] \in AstItems
    BY ElementOfSeq
  <2>2. s[j].k \in QuietKinds
    BY DEF QuietItems
  <2>3. s[j].k \notin Opening \cup {"end", "nobody"}
    BY <2>2 DEF QuietKinds, Opening
  <2>4. ASSUME s[j].k \in Boundary PROVE s[j].at = u.c
    <3>1. s[j].k = "next"
      BY <2>3, <2>4 DEF Boundary, Opening
    <3>2. TopOp \in BodyOps \cup {"none"} /\ s[j].at = here
      BY <3>1 DEF QuietItems
    <3>3. PendIn(stack) = {}
      BY <1>2, <3>2, PendTop DEF LayoutIn
    <3> QED
      BY <1>1, <3>2, <3>3 DEF Spot
  <2>5. ASSUME s[j].k \in UseKinds PROVE s[j].at = u.c \/ (Enters(ctxs, u, u.c) /\ s[j].at = u.m + 1)
    <3>1. s[j].at = here
      BY <2>5 DEF QuietItems, UseKinds
    <3>2. CASE PendIn(stack) = {}
      BY <1>1, <3>1, <3>2 DEF Spot
    <3>3. CASE PendIn(stack) # {}
      <4>1. u.m + 1 = here /\ u.c = ParentIn(ctxs, here)
        BY <1>1, <1>2, <3>3 DEF Spot
      <4> QED
        BY <1>2, <3>1, <4>1 DEF Enters
    <3> QED
      BY <3>2, <3>3
  <2>6. Lays(ctxs, u, s[j], u)
    BY <2>3, <2>4, <2>5 DEF Lays, Opening
  <2> QED
    BY <1>1, <2>1, <2>6, LinkIs
<1> QED
  BY <1>3 DEF Stays, u

LEMMA LayoutSame ==
  ASSUME TreeInv, NEW w, LayoutIn(ctxs, here, ast, stack, w), NEW s \in Seq(AstItems), QuietItems(s), NoneDeclared(s),
         CallStack
  PROVE  \E z : LayoutIn(ctxs, here, ast \o s, stack', z)
<1> DEFINE u == w[Len(ast) + 1]
<1>1. /\ u \in Spots(ctxs)
      /\ PendIn(stack) = {} => u = Spot(Len(ctxs), here)
      /\ PendIn(stack) # {} => here # Global /\ here = Len(ctxs) /\ u = Spot(here - 1, ParentIn(ctxs, here))
  BY StandsAt
<1>2. Len(ctxs) \in Nat /\ here \in 1 .. Len(ctxs) /\ TypeInv /\ ast \in Seq(AstItems) /\ ParserInv /\ AstInv
  BY TreeFacts
<1>3. Stays(s, u, LayMoves(ctxs))
  BY QuietStays
<1> HIDE DEF u
<1>4. PICK v : Path(s, v, Spots(ctxs), LayMoves(ctxs)) /\ \A i \in 1 .. Len(s) + 1 : v[i] = u
  BY <1>1, <1>3, PathSame
<1>5. Len(s) \in Nat /\ 1 \in 1 .. Len(s) + 1 /\ Len(s) + 1 \in 1 .. Len(s) + 1 /\ \A j \in 1 .. Len(s) : j \in 1 .. Len(s) + 1
  BY LenProperties
<1>6. v[1] = w[Len(ast) + 1] /\ v[Len(s) + 1] = u
  BY <1>4, <1>5 DEF u
<1>7. PendIn(stack') = PendIn(stack) /\ OnlyCalls(stack') /\ \A i \in PendIn(stack) : stack'[i] = stack[i]
  BY <1>2, PendQuiet DEF LayoutIn
<1>8. Stands(ctxs, here, stack', v[Len(s) + 1])
  BY <1>6, <1>7 DEF LayoutIn, Stands, u
<1>9. CondEmpty(ctxs, here, stack')
  BY <1>7 DEF LayoutIn, CondEmpty
<1>10. ASSUME NEW j \in 1 .. Len(s), s[j].k \in {"else", "end"} PROVE ~On(ctxs, v[j].c, here)
  <2>1. s[j].k \notin {"else", "end"}
    BY DEF QuietItems, QuietKinds
  <2> QED
    BY <1>10, <2>1
<1>11. ASSUME NEW j \in 1 .. Len(s), s[j].k \in UseKinds, s[j].at # v[j].c PROVE ctxs[s[j].at].vars = EmptyEnv
  <2>1. s[j].at = here
    BY <1>11 DEF QuietItems, UseKinds
  <2>2. v[j] = u
    BY <1>4, <1>5
  <2>3. PendIn(stack) # {}
    BY <1>1, <1>11, <2>1, <2>2 DEF Spot
  <2>4. PICK i \in PendIn(stack) : TRUE
    BY <2>3
  <2>5. i \in 1 .. Len(stack) /\ stack[i].op \in PendingOps
    BY <2>4 DEF PendIn
  <2>6. stack[i].op # "lambda_params"
    BY <1>2, <2>5, NoLambda DEF NoneDeclared
  <2>7. stack[i].op = "if-cond"
    BY <2>5, <2>6 DEF PendingOps
  <2> QED
    BY <2>1, <2>4, <2>7 DEF LayoutIn, CondEmpty
<1>12. Laid(ctxs, ast, w) /\ LeftBehind(ctxs, ast, w, here) /\ FreshUses(ctxs, ast, w)
  BY DEF LayoutIn
<1> QED
  BY <1>2, <1>4, <1>6, <1>7, <1>8, <1>9, <1>10, <1>11, <1>12, LayoutMore

\* Where something may be declared nothing else is pending.
LEMMA DeclaredPending ==
  ASSUME TreeInv, OnlyCalls(stack), NEW s, NEW x, NEW ty, OneDeclared(s, x, ty), Len(s) \in Nat
  PROVE  /\ \A i \in PendIn(stack) : stack[i].op = "lambda_params"
         /\ \A j \in 1 .. Len(s) : s[j].k \in UseKinds => PendIn(stack) = {}
<1>1. TypeInv /\ AstInv
  BY TreeFacts
<1>2. CASE ph = "statement"
  <2>1. TopOp \in BodyOps \cup {"none"}
    BY <1>1, <1>2 DEF AstInv
  <2>2. PendIn(stack) = {}
    BY <1>1, <2>1, PendTop
  <2> QED
    BY <2>2
<1>3. CASE ph = "param" /\ TopOp = "lambda_params"
  <2>1. PendIn(stack) = {Len(stack)} /\ Len(stack) # 0
    BY <1>1, <1>3, PendTop DEF PendingOps
  <2>2. stack[Len(stack)].op = "lambda_params"
    BY <1>1, <1>3, <2>1, TopIs
  <2>3. ASSUME NEW j \in 1 .. Len(s), s[j].k \in UseKinds PROVE FALSE
    <3>1. Len(s) = 1
      BY <1>3 DEF OneDeclared
    <3>2. j = 1
      BY <3>1
    <3>3. s[1].k \in {"decl", "param"}
      BY DEF OneDeclared
    <3> QED
      BY <2>3, <3>2, <3>3 DEF UseKinds
  <2> QED
    BY <2>1, <2>2, <2>3
<1> QED
  BY <1>2, <1>3 DEF OneDeclared

LEMMA LayoutDeclares ==
  ASSUME TreeInv, NEW w, LayoutIn(ctxs, here, ast, stack, w), NEW s \in Seq(AstItems), QuietItems(s),
         NEW x \in Names, NEW ty \in Types, OneDeclared(s, x, ty), CallStack
  PROVE  \E z : LayoutIn(BoundThere(ctxs, here, x, NewMeaning(ty)), here, ast \o s, stack', z)
<1> DEFINE u == w[Len(ast) + 1]  m == NewMeaning(ty)  y == BoundThere(ctxs, here, x, m)
<1>1. /\ u \in Spots(ctxs)
      /\ PendIn(stack) = {} => u = Spot(Len(ctxs), here)
      /\ PendIn(stack) # {} => here # Global /\ here = Len(ctxs) /\ u = Spot(here - 1, ParentIn(ctxs, here))
  BY StandsAt
<1>2. /\ Len(ctxs) \in Nat /\ here \in 1 .. Len(ctxs) /\ TypeInv /\ ast \in Seq(AstItems) /\ ParserInv /\ AstInv
      /\ ContextsInv(ctxs) /\ KidsInv(ctxs) /\ Len(ast) \in Nat /\ \A i \in 1 .. Len(ast) : ast[i].at \in 1 .. Len(ctxs)
  BY TreeFacts
<1>3. m \in Meanings /\ ~IsBound(ctxs[here].vars, x) /\ m.d = Len(ast) + 1
  BY DEF OneDeclared, Vars, NewMeaning, Meaning
<1> HIDE DEF m
<1>4. /\ Len(y) = Len(ctxs) /\ \A d \in 1 .. Len(ctxs) : y[d].chain = ctxs[d].chain
      /\ Len(ctxs[here].vars) \in Nat /\ Len(y[here].vars) = Len(ctxs[here].vars) + 1
      /\ \A b \in 1 .. Len(ctxs[here].vars) : y[here].vars[b] = ctxs[here].vars[b]
      /\ y[here].vars[Len(ctxs[here].vars) + 1] = Binding(x, m)
      /\ \A d \in 1 .. Len(ctxs) : d # here => y[d].vars = ctxs[d].vars
  BY <1>2, <1>3, BoundBindings
<1>5. ContextsInv(y)
  BY <1>2, <1>3, DeclaredTree
<1> HIDE DEF y
<1>6. Laid(y, ast, w) /\ LeftBehind(y, ast, w, here)
  BY <1>2, <1>4, LaidChains DEF LayoutIn
<1>7. FreshUses(y, ast, w)
  <2>1. ASSUME NEW i \in 1 .. Len(ast), ast[i].k \in UseKinds, ast[i].at # w[i].c, NEW b \in 1 .. Len(y[ast[i].at].vars)
        PROVE  y[ast[i].at].vars[b].val.d > i
    <3>1. CASE ast[i].at # here
      BY <1>2, <1>4, <2>1, <3>1 DEF LayoutIn, FreshUses
    <3>2. CASE ast[i].at = here /\ b # Len(ctxs[here].vars) + 1
      <4>1. b \in 1 .. Len(ctxs[here].vars)
        BY <1>4, <2>1, <3>2, SMTT(30)
      <4> QED
        BY <1>4, <2>1, <3>2, <4>1 DEF LayoutIn, FreshUses
    <3>3. CASE ast[i].at = here /\ b = Len(ctxs[here].vars) + 1
      <4>1. y[ast[i].at].vars[b].val.d = Len(ast) + 1
        BY <1>3, <1>4, <3>3, SMTT(30) DEF Binding
      <4> QED
        BY <1>2, <4>1
    <3> QED
      BY <3>1, <3>2, <3>3
  <2> QED
    BY <2>1 DEF FreshUses
<1>8. Stays(s, u, LayMoves(ctxs))
  BY QuietStays
<1> HIDE DEF u
<1>9. u \in Spots(y) /\ Stays(s, u, LayMoves(y))
  <2>1. ASSUME NEW c \in 1 .. Len(ctxs) PROVE ParentIn(y, c) = ParentIn(ctxs, c) /\ \A d : On(y, d, c) <=> On(ctxs, d, c)
    BY <1>4 DEF ParentIn, On
  <2>2. u.m \in 1 .. Len(ctxs) /\ u.c \in 1 .. Len(ctxs) /\ u.c <= u.m /\ Preorder(ctxs, u.m, u.c) /\ u = Spot(u.m, u.c)
    BY <1>1, SpotType
  <2>3. ASSUME NEW e \in 1 .. Len(ctxs), On(y, e, u.c), NEW d \in e .. u.m PROVE On(y, e, d)
    <3>1. On(ctxs, e, u.c)
      BY <2>1, <2>2, <2>3
    <3>2. d \in 1 .. Len(ctxs)
      BY <1>2, <2>2
    <3>3. On(ctxs, e, d)
      BY <2>2, <3>1 DEF Preorder
    <3> QED
      BY <2>1, <3>2, <3>3
  <2>4. Preorder(y, u.m, u.c)
    BY <1>4, <2>3 DEF Preorder
  <2>5. u \in Spots(y)
    BY <1>4, <2>2, <2>4, SpotIs
  <2>6. ASSUME NEW j \in 1 .. Len(s) PROVE Link(u, s[j], u, LayMoves(y))
    <3>1. s[j] \in AstItems /\ s[j].k \in QuietKinds
      BY ElementOfSeq DEF QuietItems
    <3>2. s[j].k \notin Opening \cup {"else", "end", "nobody"}
      BY <3>1 DEF QuietKinds, Opening
    <3>3. Lays(ctxs, u, s[j], u)
      BY <1>1, <1>8, <3>1, LinkIs DEF Stays
    <3>4. Enters(ctxs, u, u.c) => Enters(y, u, u.c)
      BY <1>4, <2>1 DEF Enters
    <3>5. Lays(y, u, s[j], u)
      BY <3>2, <3>3, <3>4 DEF Lays, Opening
    <3> QED
      BY <2>5, <3>1, <3>5, LinkIs
  <2> QED
    BY <2>5, <2>6 DEF Stays
<1>10. PICK v : Path(s, v, Spots(y), LayMoves(y)) /\ \A i \in 1 .. Len(s) + 1 : v[i] = u
  BY <1>9, PathSame
<1>11. Len(s) \in Nat /\ 1 \in 1 .. Len(s) + 1 /\ Len(s) + 1 \in 1 .. Len(s) + 1 /\ \A j \in 1 .. Len(s) : j \in 1 .. Len(s) + 1
  BY LenProperties
<1>12. v[1] = w[Len(ast) + 1] /\ v[Len(s) + 1] = u
  BY <1>10, <1>11 DEF u
<1>13. PendIn(stack') = PendIn(stack) /\ OnlyCalls(stack') /\ \A i \in PendIn(stack) : stack'[i] = stack[i]
  BY <1>2, PendQuiet DEF LayoutIn
<1>14. Stands(y, here, stack', v[Len(s) + 1])
  <2>1. ParentIn(y, here) = ParentIn(ctxs, here)
    BY <1>2, <1>4 DEF ParentIn
  <2> QED
    BY <1>1, <1>4, <1>12, <1>13, <2>1 DEF Stands
<1>15. /\ \A i \in PendIn(stack) : stack[i].op = "lambda_params"
       /\ \A j \in 1 .. Len(s) : s[j].k \in UseKinds => PendIn(stack) = {}
  BY <1>11, DeclaredPending DEF LayoutIn
<1>16. CondEmpty(y, here, stack')
  BY <1>13, <1>15 DEF CondEmpty
<1>17. ASSUME NEW j \in 1 .. Len(s), s[j].k \in {"else", "end"} PROVE ~On(y, v[j].c, here)
  <2>1. s[j].k \notin {"else", "end"}
    BY DEF QuietItems, QuietKinds
  <2> QED
    BY <1>17, <2>1
<1>18. ASSUME NEW j \in 1 .. Len(s), s[j].k \in UseKinds, s[j].at # v[j].c PROVE y[s[j].at].vars = EmptyEnv
  <2>1. s[j].at = here
    BY <1>18 DEF QuietItems, UseKinds
  <2>2. v[j] = u
    BY <1>10, <1>11
  <2> QED
    BY <1>1, <1>15, <1>18, <2>1, <2>2 DEF Spot
<1>19. \E z : LayoutIn(y, here, ast \o s, stack', z)
  BY <1>2, <1>6, <1>7, <1>10, <1>12, <1>13, <1>14, <1>16, <1>17, <1>18, LayoutMore
<1> QED
  BY <1>19 DEF y, m

LEMMA LayoutQuiet ==
  ASSUME TreeInv, NEW w, LayoutIn(ctxs, here, ast, stack, w), Quiet
  PROVE  \E z : LayoutIn(ctxs', here', ast', stack', z)
<1>1. here' = here /\ CallStack
  BY DEF Quiet
<1>2. PICK s \in Seq(AstItems) :
       /\ ast' = ast \o s /\ Len(s) > 0
       /\ QuietItems(s)
       /\ \/ ctxs' = ctxs /\ NoneDeclared(s)
          \/ \E x \in Names, ty \in Types : ctxs' = BoundThere(ctxs, here, x, NewMeaning(ty)) /\ OneDeclared(s, x, ty)
  BY DEF Quiet
<1>3. CASE ctxs' = ctxs /\ NoneDeclared(s)
  BY <1>1, <1>2, <1>3, LayoutSame
<1>4. ASSUME NEW x \in Names, NEW ty \in Types, ctxs' = BoundThere(ctxs, here, x, NewMeaning(ty)), OneDeclared(s, x, ty)
      PROVE  \E z : LayoutIn(ctxs', here', ast', stack', z)
  BY <1>1, <1>2, <1>4, LayoutDeclares
<1> QED
  BY <1>2, <1>3, <1>4

\* Lists of one and of two items.
LEMMA OneLaid ==
  ASSUME NEW t, NEW e \in AstItems, NEW u \in Spots(t), NEW v \in Spots(t), Lays(t, u, e, v)
  PROVE  /\ << e >> \in Seq(AstItems) /\ Len(<< e >>) = 1 /\ << e >>[1] = e
         /\ \E z : Path(<< e >>, z, Spots(t), LayMoves(t)) /\ z[1] = u /\ z[2] = v
BY LinkIs, PathOne, Lists

LEMMA TwoLaid ==
  ASSUME NEW t, NEW e \in AstItems, NEW b \in AstItems, NEW u \in Spots(t), NEW v \in Spots(t), NEW y \in Spots(t),
         Lays(t, u, e, v), Lays(t, v, b, y)
  PROVE  /\ << e, b >> \in Seq(AstItems) /\ Len(<< e, b >>) = 2 /\ << e, b >>[1] = e /\ << e, b >>[2] = b
         /\ \E z : Path(<< e, b >>, z, Spots(t), LayMoves(t)) /\ z[1] = u /\ z[2] = v /\ z[3] = y
BY LinkIs, PathTwo, Lists

\* One item more.
LEMMA LayoutOne ==
  ASSUME NEW t, NEW a \in Seq(AstItems), NEW w, Laid(t, a, w), NEW h, LeftBehind(t, a, w, h), FreshUses(t, a, w),
         NEW e \in AstItems, NEW v \in Spots(t), w[Len(a) + 1] \in Spots(t), Lays(t, w[Len(a) + 1], e, v),
         e.k \in {"else", "end"} => ~On(t, w[Len(a) + 1].c, h), e.k \notin UseKinds,
         NEW st, OnlyCalls(st), Stands(t, h, st, v), CondEmpty(t, h, st)
  PROVE  \E z : LayoutIn(t, h, a \o << e >>, st, z)
<1> DEFINE s == << e >>
<1>1. s \in Seq(AstItems) /\ Len(s) = 1 /\ s[1] = e
  BY OneLaid
<1>2. PICK z : Path(s, z, Spots(t), LayMoves(t)) /\ z[1] = w[Len(a) + 1] /\ z[2] = v
  BY OneLaid
<1> HIDE DEF s
<1>3. z[Len(s) + 1] = v
  BY <1>1, <1>2
<1>4. \A j \in 1 .. Len(s) : j = 1
  BY <1>1
<1>5. \A j \in 1 .. Len(s) : s[j].k \in {"else", "end"} => ~On(t, z[j].c, h)
  BY <1>1, <1>2, <1>4
<1>6. \A j \in 1 .. Len(s) : s[j].k \in UseKinds /\ s[j].at # z[j].c => t[s[j].at].vars = EmptyEnv
  BY <1>1, <1>4
<1>7. \E y : LayoutIn(t, h, a \o s, st, y)
  BY <1>1, <1>2, <1>3, <1>5, <1>6, LayoutMore
<1> QED
  BY <1>7 DEF s

LEMMA LayoutTwo ==
  ASSUME NEW t, NEW a \in Seq(AstItems), NEW w, Laid(t, a, w), NEW h, LeftBehind(t, a, w, h), FreshUses(t, a, w),
         NEW e \in AstItems, NEW b \in AstItems, NEW v \in Spots(t), NEW y \in Spots(t), w[Len(a) + 1] \in Spots(t),
         Lays(t, w[Len(a) + 1], e, v), Lays(t, v, b, y),
         e.k \notin UseKinds \cup {"else", "end"}, b.k \notin UseKinds, b.k \in {"else", "end"} => ~On(t, v.c, h),
         NEW st, OnlyCalls(st), Stands(t, h, st, y), CondEmpty(t, h, st)
  PROVE  \E z : LayoutIn(t, h, a \o << e, b >>, st, z)
<1> DEFINE s == << e, b >>
<1>1. s \in Seq(AstItems) /\ Len(s) = 2 /\ s[1] = e /\ s[2] = b
  BY TwoLaid
<1>2. PICK z : Path(s, z, Spots(t), LayMoves(t)) /\ z[1] = w[Len(a) + 1] /\ z[2] = v /\ z[3] = y
  BY TwoLaid
<1> HIDE DEF s
<1>3. z[Len(s) + 1] = y
  BY <1>1, <1>2
<1>4. \A j \in 1 .. Len(s) : j = 1 \/ j = 2
  BY <1>1
<1>5. \A j \in 1 .. Len(s) : s[j].k \in {"else", "end"} => ~On(t, z[j].c, h)
  BY <1>1, <1>2, <1>4
<1>6. \A j \in 1 .. Len(s) : s[j].k \in UseKinds /\ s[j].at # z[j].c => t[s[j].at].vars = EmptyEnv
  BY <1>1, <1>4
<1>7. \E x : LayoutIn(t, h, a \o s, st, x)
  BY <1>1, <1>2, <1>3, <1>5, <1>6, LayoutMore
<1> QED
  BY <1>7 DEF s

-----------------------------------------------------------------------------
(* Blocks that are opened and closed, where nothing is pending. *)

\* A context for a block is created below *context.
LEMMA OpenFacts ==
  ASSUME TreeInv, NEW w, LayoutIn(ctxs, here, ast, stack, w), PendIn(stack) = {}, OpenContext
  PROVE  /\ Laid(ctxs', ast, w) /\ LeftBehind(ctxs', ast, w, here') /\ FreshUses(ctxs', ast, w)
         /\ w[Len(ast) + 1] \in Spots(ctxs') /\ w[Len(ast) + 1] = Spot(Len(ctxs), here)
         /\ Len(ctxs) \in Nat /\ here \in 1 .. Len(ctxs) /\ Len(ctxs') = Len(ctxs) + 1 /\ here' = Len(ctxs) + 1
         /\ here' # Global
         /\ ParentIn(ctxs', here') = here /\ ctxs'[here'].vars = EmptyEnv
         /\ Spot(here', here') \in Spots(ctxs')
<1>1. /\ Len(ctxs) \in Nat /\ here \in 1 .. Len(ctxs) /\ TypeInv /\ ast \in Seq(AstItems)
      /\ ContextsInv(ctxs) /\ KidsInv(ctxs) /\ Len(ast) \in Nat /\ \A i \in 1 .. Len(ast) : ast[i].at \in 1 .. Len(ctxs)
  BY TreeFacts
<1>2. ctxs' = NewContext(ctxs, here) /\ here' = Len(ctxs) + 1
  BY DEF OpenContext
<1>3. Laid(ctxs', ast, w)
  BY <1>1, <1>2, LaidNew DEF LayoutIn
<1>4. LeftBehind(ctxs', ast, w, here')
  BY <1>1, <1>2, ClosedNew DEF LayoutIn
<1>5. FreshUses(ctxs', ast, w)
  BY <1>1, <1>2, FreshNew DEF LayoutIn
<1>6. w[Len(ast) + 1] \in Spots(ctxs) /\ w[Len(ast) + 1] = Spot(Len(ctxs), here)
  BY StandsAt
<1>7. w[Len(ast) + 1] \in Spots(ctxs')
  BY <1>1, <1>2, <1>6, SpotsNew
<1>8. /\ ContextsInv(ctxs') /\ Len(ctxs') = Len(ctxs) + 1
      /\ ctxs'[here'] = Context(Append(ctxs[here].chain, Len(ctxs) + 1))
  BY <1>1, <1>2, NewContextTree
<1>9. ctxs'[here'].vars = EmptyEnv
  BY <1>8 DEF Context
<1>10. here' # Global /\ ParentIn(ctxs', here') = here
  BY <1>1, <1>2, NewIsGrown
<1> DEFINE u == w[Len(ast) + 1]
<1>11. Preorder(ctxs', Len(ctxs), here)
  <2>1. Preorder(ctxs', u.m, u.c)
    BY <1>7, SpotType
  <2> QED
    BY <1>6, <2>1 DEF Spot
<1>12. Len(ctxs) \in 1 .. Len(ctxs') /\ Len(ctxs) + 1 \in 1 .. Len(ctxs') /\ here \in 1 .. Len(ctxs')
  BY <1>1, <1>8
<1>13. Preorder(ctxs', here', here')
  BY <1>2, <1>8, <1>10, <1>11, <1>12, PreorderIn
<1>14. Spot(here', here') \in Spots(ctxs')
  BY <1>2, <1>12, <1>13, SpotIs
<1> QED
  BY <1>1, <1>2, <1>3, <1>4, <1>5, <1>6, <1>7, <1>8, <1>9, <1>10, <1>14

\* The beginnings of conditions and of lambdas with a parameter.
LEMMA LayoutPends ==
  ASSUME TreeInv, NEW w, LayoutIn(ctxs, here, ast, stack, w), PendIn(stack) = {},
         NEW k \in {"if", "func"}, OneItem(k, here), NEW op \in PendingOps, Longer(op), OpenContext
  PROVE  \E z : LayoutIn(ctxs', here', ast', stack', z)
<1> DEFINE u == w[Len(ast) + 1]
<1>1. /\ Laid(ctxs', ast, w) /\ LeftBehind(ctxs', ast, w, here') /\ FreshUses(ctxs', ast, w)
      /\ u \in Spots(ctxs') /\ u = Spot(Len(ctxs), here)
      /\ Len(ctxs) \in Nat /\ here \in 1 .. Len(ctxs) /\ Len(ctxs') = Len(ctxs) + 1 /\ here' = Len(ctxs) + 1
      /\ here' # Global
      /\ ParentIn(ctxs', here') = here /\ ctxs'[here'].vars = EmptyEnv
  BY OpenFacts
<1>2. PICK e \in AstItems : e.k = k /\ ast' = ast \o << e >>
  BY DEF OneItem
<1>3. e.k \notin UseKinds \cup {"else", "end"} \cup Boundary \cup Opening \cup {"nobody"}
  BY <1>2 DEF UseKinds, Boundary, Opening
<1> HIDE DEF u
<1>4. Lays(ctxs', u, e, u)
  BY <1>3 DEF Lays, Opening
<1>5. OnlyCalls(stack') /\ PendIn(stack') = {Len(stack')}
  BY PendOpen
<1>6. here' - 1 = Len(ctxs)
  BY <1>1
<1>7. Stands(ctxs', here', stack', u)
  BY <1>1, <1>5, <1>6 DEF Stands
<1>8. CondEmpty(ctxs', here', stack')
  BY <1>1 DEF CondEmpty
<1>9. ast \in Seq(AstItems)
  BY TreeFacts
<1> QED
  BY <1>1, <1>2, <1>3, <1>4, <1>5, <1>7, <1>8, <1>9, LayoutOne DEF u

LEMMA LayoutPlainLambda ==
  ASSUME TreeInv, NEW w, LayoutIn(ctxs, here, ast, stack, w), PendIn(stack) = {}, PlainLambdaShape
  PROVE  \E z : LayoutIn(ctxs', here', ast', stack', z)
<1> DEFINE u == w[Len(ast) + 1]
<1>1. Longer("lambda_body") /\ OpenContext /\ TwoItems("func", here, "body", here')
  BY DEF PlainLambdaShape
<1>2. /\ Laid(ctxs', ast, w) /\ LeftBehind(ctxs', ast, w, here') /\ FreshUses(ctxs', ast, w)
      /\ u \in Spots(ctxs') /\ u = Spot(Len(ctxs), here)
      /\ Len(ctxs) \in Nat /\ here \in 1 .. Len(ctxs) /\ Len(ctxs') = Len(ctxs) + 1 /\ here' = Len(ctxs) + 1
      /\ here' # Global
      /\ ParentIn(ctxs', here') = here /\ ctxs'[here'].vars = EmptyEnv
      /\ Spot(here', here') \in Spots(ctxs')
  BY <1>1, OpenFacts
<1>3. PICK e, b \in AstItems : e.k = "func" /\ b.k = "body" /\ b.at = here' /\ ast' = ast \o << e, b >>
  BY <1>1 DEF TwoItems
<1> HIDE DEF u
<1>4. /\ "func" \notin UseKinds \cup {"else", "end"} \cup Boundary \cup Opening \cup {"nobody"}
      /\ "body" \notin UseKinds \cup {"else", "end"} \cup Boundary \cup {"nobody"} /\ "body" \in Opening
  BY DEF UseKinds, Boundary, Opening
<1>5. Lays(ctxs', u, e, u)
  BY <1>3, <1>4 DEF Lays, Opening
<1> DEFINE v == Spot(here', here')
<1>6. u.m = Len(ctxs) /\ u.c = here
  BY <1>2 DEF Spot
<1>7. u.m + 1 \in 1 .. Len(ctxs')
  BY <1>2, <1>6
<1>8. u.m + 1 = here'
  BY <1>2, <1>6
<1>9. Enters(ctxs', u, u.c)
  BY <1>2, <1>6, <1>7, <1>8 DEF Enters
<1>10. Lays(ctxs', u, b, v)
  BY <1>3, <1>4, <1>8, <1>9 DEF Lays, Opening
<1>11. PendIn(stack') = {} /\ OnlyCalls(stack')
  BY <1>1, PendOpen DEF PendingOps
<1>12. Stands(ctxs', here', stack', v) /\ CondEmpty(ctxs', here', stack')
  BY <1>2, <1>11 DEF Stands, CondEmpty
<1>13. ast \in Seq(AstItems)
  BY TreeFacts
<1> HIDE DEF v
<1>14. v \in Spots(ctxs')
  BY <1>2 DEF v
<1>15. e.k \notin UseKinds \cup {"else", "end"} /\ b.k \notin UseKinds /\ b.k \notin {"else", "end"}
  BY <1>3, <1>4
<1> QED
  BY <1>2, <1>3, <1>5, <1>10, <1>11, <1>12, <1>13, <1>14, <1>15, LayoutTwo DEF u

\* The context whose body is to begin.
LEMMA PendingSpots ==
  ASSUME TreeInv, NEW w, LayoutIn(ctxs, here, ast, stack, w), TopOp \in PendingOps
  PROVE  LET u == w[Len(ast) + 1] IN
         /\ here \in 2 .. Len(ctxs) /\ here = Len(ctxs) /\ Len(ctxs) \in Nat
         /\ u \in Spots(ctxs) /\ u.m + 1 = here /\ u.c = ParentIn(ctxs, here) /\ Enters(ctxs, u, u.c)
         /\ Spot(here, here) \in Spots(ctxs)
         /\ PendIn(stack) = {Len(stack)}
<1> DEFINE u == w[Len(ast) + 1]
<1>1. /\ Len(ctxs) \in Nat /\ here \in 1 .. Len(ctxs) /\ TypeInv /\ ContextsInv(ctxs)
  BY TreeFacts
<1>2. PendIn(stack) = {Len(stack)}
  BY <1>1, PendTop DEF LayoutIn
<1>3. u \in Spots(ctxs) /\ here # Global /\ here = Len(ctxs) /\ u = Spot(here - 1, ParentIn(ctxs, here))
  BY <1>2, StandsAt
<1> HIDE DEF u
<1>4. u.m = here - 1 /\ u.c = ParentIn(ctxs, here)
  BY <1>3 DEF Spot
<1>5. u.m + 1 = here /\ here \in 2 .. Len(ctxs)
  BY <1>1, <1>3, <1>4 DEF Global
<1>6. Enters(ctxs, u, u.c)
  BY <1>1, <1>4, <1>5 DEF Enters
<1>7. u.m \in 1 .. Len(ctxs) /\ u.c \in 1 .. Len(ctxs) /\ Preorder(ctxs, u.m, u.c)
  BY <1>3, SpotType
<1>8. Preorder(ctxs, here, here)
  BY <1>1, <1>4, <1>5, <1>7, PreorderIn
<1>9. Spot(here, here) \in Spots(ctxs)
  BY <1>1, <1>8, SpotIs
<1> QED
  BY <1>1, <1>2, <1>3, <1>4, <1>5, <1>6, <1>9 DEF u

\* The beginning of the body of a condition or of a lambda with a parameter.
LEMMA LayoutBody ==
  ASSUME TreeInv, NEW w, LayoutIn(ctxs, here, ast, stack, w), TopOp \in PendingOps,
         NEW k \in {"then", "body"}, OneItem(k, here), NEW op \in BodyOps, Turned(op), SameTree
  PROVE  \E z : LayoutIn(ctxs', here', ast', stack', z)
<1> DEFINE u == w[Len(ast) + 1]  v == Spot(here, here)
<1>1. /\ here \in 2 .. Len(ctxs) /\ here = Len(ctxs) /\ Len(ctxs) \in Nat
      /\ u \in Spots(ctxs) /\ u.m + 1 = here /\ u.c = ParentIn(ctxs, here) /\ Enters(ctxs, u, u.c)
      /\ v \in Spots(ctxs)
      /\ PendIn(stack) = {Len(stack)}
  BY PendingSpots
<1> HIDE DEF u
<1>2. PICK e \in AstItems : e.k = k /\ e.at = here /\ ast' = ast \o << e >>
  BY DEF OneItem
<1>3. e.k \notin UseKinds \cup {"else", "end"} \cup Boundary \cup {"nobody"} \/ e.k = "then"
  BY <1>2 DEF UseKinds, Boundary
<1>4. e.k \notin UseKinds \cup {"else", "end", "next", "nobody"} /\ e.k \in {"then", "body"} /\ e.k \in Opening
  BY <1>2 DEF UseKinds, Opening
<1>5. e.k \notin Boundary
  BY <1>4 DEF Boundary
<1>6. Lays(ctxs, u, e, v)
  BY <1>1, <1>2, <1>4, <1>5 DEF Lays
<1>7. op \notin PendingOps
  BY DEF BodyOps, PendingOps
<1>8. PendIn(stack') = {} /\ OnlyCalls(stack')
  BY <1>1, <1>7, PendNone
<1>9. Stands(ctxs, here, stack', v) /\ CondEmpty(ctxs, here, stack')
  BY <1>1, <1>8 DEF Stands, CondEmpty
<1> HIDE DEF v
<1>10. \E z : LayoutIn(ctxs, here, ast \o << e >>, stack', z)
  BY <1>1, <1>4, <1>6, <1>8, <1>9, TreeFacts, LayoutOne DEF LayoutIn, u
<1> QED
  BY <1>2, <1>10 DEF SameTree

\* A condition without a body.
LEMMA LayoutEmptyThen ==
  ASSUME TreeInv, NEW w, LayoutIn(ctxs, here, ast, stack, w), EmptyThenShape
  PROVE  \E z : LayoutIn(ctxs', here', ast', stack', z)
<1> DEFINE u == w[Len(ast) + 1]  v == Spot(here, here)  p == ParentIn(ctxs, here)  y == Spot(here, p)
<1>1. TopOp \in PendingOps
  BY DEF EmptyThenShape, PendingOps
<1>2. /\ here \in 2 .. Len(ctxs) /\ here = Len(ctxs) /\ Len(ctxs) \in Nat
      /\ u \in Spots(ctxs) /\ u.m + 1 = here /\ u.c = p /\ Enters(ctxs, u, u.c)
      /\ v \in Spots(ctxs)
      /\ PendIn(stack) = {Len(stack)}
  BY <1>1, PendingSpots
<1> HIDE DEF u
<1>3. PICK e, b \in AstItems : e.k = "then" /\ e.at = here /\ b.k = "end" /\ b.at = here /\ ast' = ast \o << e, b >>
  BY DEF EmptyThenShape, TwoItems
<1>4. /\ "then" \notin UseKinds \cup Boundary /\ "then" \in Opening /\ "end" \notin UseKinds \cup Opening
  BY DEF UseKinds, Opening, Boundary
<1>5. Lays(ctxs, u, e, v)
  BY <1>2, <1>3, <1>4 DEF Lays
<1>6. v.m = here /\ v.c = here
  BY DEF Spot
<1>7. ContextsInv(ctxs) /\ ast \in Seq(AstItems) /\ Parent(here) = p
  BY TreeFacts
<1> HIDE DEF p
<1>8. p \in 1 .. Len(ctxs)
  BY <1>2, <1>7, ParentIsThere DEF p
<1>9. Preorder(ctxs, here, p)
  <2>1. Preorder(ctxs, here, here)
    BY <1>2, <1>6, SpotType
  <2> QED
    BY <1>2, <1>7, <2>1, PreorderOut DEF p
<1>10. y \in Spots(ctxs)
  BY <1>2, <1>8, <1>9, SpotIs
<1>11. Left(ctxs, v)
  BY <1>2, <1>6 DEF Left, Global
<1>12. Lays(ctxs, v, b, y)
  BY <1>3, <1>4, <1>6, <1>11 DEF Lays, p
<1>13. PendIn(stack') = {} /\ OnlyCalls(stack')
  BY <1>2, PendNone DEF EmptyThenShape
<1>14. here' = p /\ ctxs' = ctxs
  BY <1>7 DEF EmptyThenShape, CloseContext
<1>15. Stands(ctxs, p, stack', y) /\ CondEmpty(ctxs, p, stack')
  BY <1>2, <1>13 DEF Stands, CondEmpty
<1>16. LeftBehind(ctxs, ast, w, p)
  BY <1>2, <1>7, ClosedUp DEF LayoutIn, p
<1>17. ~On(ctxs, v.c, p)
  BY <1>2, <1>6, <1>7, NotOnParent DEF p
<1> HIDE DEF v, y
<1>18. e.k \notin UseKinds \cup {"else", "end"} /\ b.k \notin UseKinds
  BY <1>3, <1>4
<1>19. \E z : LayoutIn(ctxs, p, ast \o << e, b >>, stack', z)
  BY <1>2, <1>5, <1>7, <1>10, <1>12, <1>13, <1>15, <1>16, <1>17, <1>18, LayoutTwo DEF LayoutIn, u
<1> QED
  BY <1>3, <1>14, <1>19

\* A block in a body.
LEMMA BodySpots ==
  ASSUME TreeInv, NEW w, LayoutIn(ctxs, here, ast, stack, w), TopOp \in BodyOps
  PROVE  LET p == ParentIn(ctxs, here) IN
         /\ here \in 2 .. Len(ctxs) /\ Len(ctxs) \in Nat /\ p \in 1 .. Len(ctxs) /\ Parent(here) = p
         /\ w[Len(ast) + 1] = Spot(Len(ctxs), here) /\ w[Len(ast) + 1] \in Spots(ctxs)
         /\ Spot(Len(ctxs), p) \in Spots(ctxs)
         /\ LeftBehind(ctxs, ast, w, p) /\ ~On(ctxs, here, p)
         /\ PendIn(stack) = {}
<1> DEFINE u == w[Len(ast) + 1]  p == ParentIn(ctxs, here)
<1>1. /\ Len(ctxs) \in Nat /\ here \in 1 .. Len(ctxs) /\ TypeInv /\ ContextsInv(ctxs) /\ ParserInv /\ Parent(here) = p
  BY TreeFacts
<1>2. PendIn(stack) = {}
  BY <1>1, PendTop DEF LayoutIn
<1>3. u \in Spots(ctxs) /\ u = Spot(Len(ctxs), here)
  BY <1>2, StandsAt
<1>4. here \in 2 .. Len(ctxs)
  <2>1. here # Global
    BY <1>1, BlockParent DEF BlockOps
  <2> QED
    BY <1>1, <2>1 DEF Global
<1>5. p \in 1 .. Len(ctxs) /\ ~On(ctxs, here, p) /\ LeftBehind(ctxs, ast, w, p)
  BY <1>1, <1>4, ParentIsThere, NotOnParent, ClosedUp DEF LayoutIn
<1> HIDE DEF u
<1>6. Preorder(ctxs, Len(ctxs), here)
  <2>1. Preorder(ctxs, u.m, u.c)
    BY <1>3, SpotType
  <2> QED
    BY <1>3, <2>1 DEF Spot
<1>7. Preorder(ctxs, Len(ctxs), p)
  BY <1>1, <1>4, <1>6, PreorderOut
<1>8. Spot(Len(ctxs), p) \in Spots(ctxs)
  BY <1>1, <1>5, <1>7, SpotIs
<1> QED
  BY <1>1, <1>2, <1>3, <1>4, <1>5, <1>8 DEF u

LEMMA LayoutEnd ==
  ASSUME TreeInv, NEW w, LayoutIn(ctxs, here, ast, stack, w), EndShape
  PROVE  \E z : LayoutIn(ctxs', here', ast', stack', z)
<1> DEFINE u == w[Len(ast) + 1]  p == ParentIn(ctxs, here)  y == Spot(Len(ctxs), p)
<1>1. /\ here \in 2 .. Len(ctxs) /\ Len(ctxs) \in Nat /\ p \in 1 .. Len(ctxs) /\ Parent(here) = p
      /\ u = Spot(Len(ctxs), here) /\ u \in Spots(ctxs)
      /\ y \in Spots(ctxs)
      /\ LeftBehind(ctxs, ast, w, p) /\ ~On(ctxs, here, p)
      /\ PendIn(stack) = {}
  BY BodySpots DEF EndShape
<1> HIDE DEF u
<1>2. PICK e \in AstItems : e.k = "end" /\ e.at = here /\ ast' = ast \o << e >>
  BY DEF EndShape, OneItem
<1>3. "end" \notin UseKinds \cup Opening
  BY DEF UseKinds, Opening
<1>4. u.m = Len(ctxs) /\ u.c = here
  BY <1>1 DEF Spot
<1>5. Left(ctxs, u)
  BY <1>1, <1>4 DEF Left, Global
<1>6. Lays(ctxs, u, e, y)
  BY <1>2, <1>3, <1>4, <1>5 DEF Lays
<1>7. here' = p /\ ctxs' = ctxs
  BY <1>1 DEF EndShape, CloseContext
<1>8. PendIn(stack') = {} /\ OnlyCalls(stack')
  BY <1>1, PendNone DEF EndShape
<1>9. Stands(ctxs, p, stack', y) /\ CondEmpty(ctxs, p, stack')
  BY <1>1, <1>8 DEF Stands, CondEmpty
<1> HIDE DEF y, p
<1>10. \E z : LayoutIn(ctxs, p, ast \o << e >>, stack', z)
  BY <1>1, <1>2, <1>3, <1>4, <1>6, <1>8, <1>9, TreeFacts, LayoutOne DEF LayoutIn, u
<1> QED
  BY <1>2, <1>7, <1>10

LEMMA LayoutElse ==
  ASSUME TreeInv, NEW w, LayoutIn(ctxs, here, ast, stack, w), ElseShape
  PROVE  \E z : LayoutIn(ctxs', here', ast', stack', z)
<1> DEFINE u == w[Len(ast) + 1]  p == ParentIn(ctxs, here)  n == Len(ctxs) + 1  t == NewContext(ctxs, p)
           v == Spot(n, n)
<1>1. /\ here \in 2 .. Len(ctxs) /\ Len(ctxs) \in Nat /\ p \in 1 .. Len(ctxs) /\ Parent(here) = p
      /\ u = Spot(Len(ctxs), here) /\ u \in Spots(ctxs)
      /\ Spot(Len(ctxs), p) \in Spots(ctxs)
      /\ LeftBehind(ctxs, ast, w, p) /\ ~On(ctxs, here, p)
      /\ PendIn(stack) = {}
  BY BodySpots DEF ElseShape, BodyOps
<1>2. /\ ContextsInv(ctxs) /\ KidsInv(ctxs) /\ ast \in Seq(AstItems) /\ \A i \in 1 .. Len(ast) : ast[i].at \in 1 .. Len(ctxs)
  BY TreeFacts
<1>3. t = ctxs' /\ here' = n
  BY <1>1 DEF ElseShape
<1>4. PICK e \in AstItems : e.k = "else" /\ e.at = here /\ ast' = ast \o << e >>
  BY DEF ElseShape, OneItem
<1> HIDE DEF u, p
<1>5. Laid(t, ast, w) /\ LeftBehind(t, ast, w, n) /\ FreshUses(t, ast, w)
  BY <1>1, <1>2, LaidNew, ClosedNew, FreshNew DEF LayoutIn
<1>6. u \in Spots(t) /\ Spot(Len(ctxs), p) \in Spots(t)
  BY <1>1, <1>2, SpotsNew
<1>7. ContextsInv(t) /\ Len(t) = n
  BY <1>1, <1>2, NewContextTree
<1>8. n # Global /\ ParentIn(t, n) = p /\ ParentIn(t, here) = p
  BY <1>1, <1>2, NewContextKids, NewIsGrown DEF p
<1>9. ~On(t, here, n)
  <2>1. here # n
    BY <1>1
  <2> QED
    BY <1>1, <1>2, <2>1, OnNew
<1> HIDE DEF t
<1>10. Len(ctxs) \in 1 .. Len(t) /\ n \in 1 .. Len(t) /\ p \in 1 .. Len(t)
  BY <1>1, <1>7
<1>11. Preorder(t, Len(ctxs), p)
  <2> DEFINE y == Spot(Len(ctxs), p)
  <2>1. Preorder(t, y.m, y.c)
    BY <1>6, SpotType
  <2> QED
    BY <2>1 DEF Spot
<1>12. Preorder(t, n, n)
  BY <1>7, <1>8, <1>10, <1>11, PreorderIn
<1>13. v \in Spots(t)
  BY <1>10, <1>12, SpotIs
<1>14. u.m = Len(ctxs) /\ u.c = here
  BY <1>1 DEF Spot
<1>15. u.m + 1 = n /\ \A d \in u.m + 1 .. Len(t) : d = n
  BY <1>1, <1>7, <1>14
<1>16. Left(t, u)
  BY <1>1, <1>9, <1>14, <1>15 DEF Left, Global
<1>17. Enters(t, u, ParentIn(t, u.c))
  BY <1>8, <1>10, <1>14, <1>15 DEF Enters
<1>18. "else" \notin UseKinds /\ "else" \in Opening
  BY DEF UseKinds, Opening
<1>19. Lays(t, u, e, v)
  BY <1>4, <1>14, <1>15, <1>16, <1>17, <1>18 DEF Lays
<1>20. PendIn(stack') = {} /\ OnlyCalls(stack')
  <2>1. "if-else-body" \notin PendingOps
    BY DEF PendingOps
  <2> QED
    BY <1>1, <2>1, PendNone DEF ElseShape
<1>21. Stands(t, n, stack', v) /\ CondEmpty(t, n, stack')
  BY <1>7, <1>20 DEF Stands, CondEmpty
<1> HIDE DEF v, n
<1>22. \E z : LayoutIn(t, n, ast \o << e >>, stack', z)
  BY <1>2, <1>4, <1>5, <1>6, <1>9, <1>13, <1>14, <1>18, <1>19, <1>20, <1>21, LayoutOne DEF u
<1> QED
  BY <1>3, <1>4, <1>22

-----------------------------------------------------------------------------
(***************************************************************************)
(* The layout along the steps of the parser.  It is lost where an if or a  *)
(* lambda has no body, and where one stands in a condition; from then on   *)
(* the program is not one of those that the properties are about, at the   *)
(* latest when the condition ends.                                         *)
(***************************************************************************)
BlockKinds == {"if", "func"}

Hopeless ==
  \/ \E i \in 1 .. Len(ast) : ast[i].k = "nobody"
  \/ ~NoBlockInCondition
  \/ ph = "rejected"
  \/ ph = "parsed" /\ stack # << >>

SpoiledIn(st, a, f) ==
  \E i \in 1 .. Len(st) : st[i].op = "if-cond" /\ \E j \in 1 .. Len(a) : a[j].k \in BlockKinds /\ a[j].at = f[i]

\* *context is that of the condition that is pending.
AtHand(st, h, f) == \A i \in PendIn(st) : st[i].op = "if-cond" => f[i] = h

LayoutHolds(f) == AtHand(stack, here, f) /\ \E w : LayoutIn(ctxs, here, ast, stack, w)

LayInv == Hopeless \/ \E f : NestIn(stack, ctxs, here, f) /\ (SpoiledIn(stack, ast, f) \/ LayoutHolds(f))

LEMMA ListGrows ==
  ASSUME TreeInv, ParserNext
  PROVE  \E s \in Seq(AstItems) : ast' = ast \o s
<1>1. ParserInv /\ AstInv /\ ast \in Seq(AstItems)
  BY TreeFacts
<1>2. Quiet \/ Reject \/ BlockShapes \/ EndOfFile \/ InsideEnds
  BY <1>1, StepShapes
<1>3. ASSUME ast' = ast PROVE \E s \in Seq(AstItems) : ast' = ast \o s
  <2>1. << >> \in Seq(AstItems) /\ ast = ast \o << >>
    BY <1>1, EmptySeq, ConcatEmptySeq
  <2> QED
    BY <1>3, <2>1
<1>4. CASE Quiet
  BY <1>4 DEF Quiet
<1>5. CASE Reject \/ EndOfFile
  BY <1>3, <1>5 DEF Reject, EndOfFile
<1>6. CASE InsideEnds
  BY <1>6 DEF InsideEnds
<1>7. ASSUME NEW k, NEW c, OneItem(k, c) PROVE \E s \in Seq(AstItems) : ast' = ast \o s
  BY <1>7, Lists DEF OneItem
<1>8. ASSUME NEW k, NEW c, NEW l, NEW d, TwoItems(k, c, l, d) PROVE \E s \in Seq(AstItems) : ast' = ast \o s
  BY <1>8, Lists DEF TwoItems
<1>9. CASE BlockShapes
  <2>1. CASE IfShape \/ ThenShape \/ ElseShape \/ EndShape \/ LambdaShape \/ BodyShape \/ NoBodyShape
    BY <1>7, <2>1 DEF IfShape, ThenShape, ElseShape, EndShape, LambdaShape, BodyShape, NoBodyShape
  <2>2. CASE EmptyThenShape \/ PlainLambdaShape \/ EmptyLambdaShape
    BY <1>8, <2>2 DEF EmptyThenShape, PlainLambdaShape, EmptyLambdaShape
  <2> QED
    BY <1>9, <2>1, <2>2 DEF BlockShapes
<1> QED
  BY <1>2, <1>4, <1>5, <1>6, <1>9

\* What was listed stays.
LEMMA AstStays ==
  ASSUME TreeInv, NEW s \in Seq(AstItems), ast' = ast \o s
  PROVE  /\ Len(ast) \in Nat /\ Len(s) \in Nat /\ Len(ast') = Len(ast) + Len(s)
         /\ \A i \in 1 .. Len(ast) : i \in 1 .. Len(ast') /\ ast'[i] = ast[i]
         /\ \A i \in 1 .. Len(s) : Len(ast) + i \in 1 .. Len(ast') /\ ast'[Len(ast) + i] = s[i]
         /\ DOMAIN ast = 1 .. Len(ast) /\ DOMAIN ast' = 1 .. Len(ast')
<1>1. ast \in Seq(AstItems)
  BY TreeFacts
<1>2. /\ Len(ast) \in Nat /\ Len(s) \in Nat /\ Len(ast') = Len(ast) + Len(s) /\ ast' \in Seq(AstItems)
      /\ \A i \in 1 .. Len(ast) : ast'[i] = ast[i]
      /\ \A i \in 1 .. Len(s) : ast'[Len(ast) + i] = s[i]
  BY <1>1, ConcatProperties, LenProperties
<1> QED
  BY <1>1, <1>2, LenProperties

\* A then behind an if or a lambda at the same context.
LEMMA SpoiledThen ==
  ASSUME TreeInv, NEW s \in Seq(AstItems), ast' = ast \o s,
         NEW j \in 1 .. Len(ast), ast[j].k \in BlockKinds,
         NEW i \in 1 .. Len(s), s[i].k = "then", s[i].at = ast[j].at
  PROVE  ~NoBlockInCondition'
<1>1. /\ Len(ast) \in Nat /\ Len(s) \in Nat /\ j \in DOMAIN ast' /\ Len(ast) + i \in DOMAIN ast'
      /\ ast'[j] = ast[j] /\ ast'[Len(ast) + i] = s[i]
  BY AstStays
<1>2. j < Len(ast) + i
  BY <1>1
<1> DEFINE n == Len(ast) + i
<1> HIDE DEF n
<1>3. j \in DOMAIN ast' /\ n \in DOMAIN ast' /\ j < n /\ ast'[n].k = "then" /\ ast'[j].at = ast'[n].at /\ ast'[j].k \in {"if", "func"}
  BY <1>1, <1>2 DEF n, BlockKinds
<1> QED
  BY <1>3 DEF NoBlockInCondition

LEMMA SpoiledStep ==
  ASSUME TreeInv, NEW f, NestIn(stack, ctxs, here, f), SpoiledIn(stack, ast, f), NEW g, PendingKept(f, g),
         NEW s \in Seq(AstItems), ast' = ast \o s
  PROVE  Hopeless' \/ SpoiledIn(stack', ast', g)
<1>1. PICK i \in 1 .. Len(stack) : stack[i].op = "if-cond" /\ \E j \in 1 .. Len(ast) : ast[j].k \in BlockKinds /\ ast[j].at = f[i]
  BY DEF SpoiledIn
<1>2. PICK j \in 1 .. Len(ast) : ast[j].k \in BlockKinds /\ ast[j].at = f[i]
  BY <1>1
<1>3. CASE i \in 1 .. Len(stack') /\ stack'[i].op = "if-cond" /\ g[i] = f[i]
  <2>1. j \in 1 .. Len(ast') /\ ast'[j] = ast[j]
    BY AstStays
  <2> QED
    BY <1>2, <1>3, <2>1 DEF SpoiledIn
<1>4. CASE i = Len(stack) /\ (ThenShape \/ EmptyThenShape)
  <2>1. f[i] = here
    BY <1>4 DEF NestIn
  <2>2. ASSUME NEW r \in Seq(AstItems), ast' = ast \o r, Len(r) \in Nat \ {0}, r[1].k = "then", r[1].at = here PROVE Hopeless'
    <3>1. 1 \in 1 .. Len(r)
      BY <2>2
    <3>2. ~NoBlockInCondition'
      BY <1>2, <2>1, <2>2, <3>1, SpoiledThen
    <3> QED
      BY <3>2 DEF Hopeless
  <2>3. CASE ThenShape
    <3>1. PICK e \in AstItems : e.k = "then" /\ e.at = here /\ ast' = ast \o << e >>
      BY <2>3 DEF ThenShape, OneItem
    <3> DEFINE r == << e >>
    <3>2. r \in Seq(AstItems) /\ Len(r) = 1 /\ r[1] = e
      BY Lists
    <3>3. ast' = ast \o r
      BY <3>1
    <3> HIDE DEF r
    <3>4. Len(r) \in Nat \ {0}
      BY <3>2
    <3>5. r[1].k = "then" /\ r[1].at = here
      BY <3>1, <3>2
    <3>6. Hopeless'
      BY <2>2, <3>2, <3>3, <3>4, <3>5
    <3> QED
      BY <3>6
  <2>4. CASE EmptyThenShape
    <3>1. PICK e, b \in AstItems : e.k = "then" /\ e.at = here /\ ast' = ast \o << e, b >>
      BY <2>4 DEF EmptyThenShape, TwoItems
    <3> DEFINE r == << e, b >>
    <3>2. r \in Seq(AstItems) /\ Len(r) = 2 /\ r[1] = e
      BY Lists
    <3>3. ast' = ast \o r
      BY <3>1
    <3> HIDE DEF r
    <3>4. Len(r) \in Nat \ {0}
      BY <3>2
    <3>5. r[1].k = "then" /\ r[1].at = here
      BY <3>1, <3>2
    <3>6. Hopeless'
      BY <2>2, <3>2, <3>3, <3>4, <3>5
    <3> QED
      BY <3>6
  <2> QED
    BY <1>4, <2>3, <2>4
<1> QED
  BY <1>1, <1>3, <1>4 DEF PendingKept

LEMMA HopelessKept ==
  ASSUME TreeInv, Hopeless, ParserNext
  PROVE  Hopeless'
<1>1. ph \notin {"parsed", "rejected"}
  BY ParserIdle
<1>2. PICK s \in Seq(AstItems) : ast' = ast \o s
  BY ListGrows
<1>3. /\ \A i \in 1 .. Len(ast) : i \in 1 .. Len(ast') /\ ast'[i] = ast[i]
      /\ DOMAIN ast = 1 .. Len(ast) /\ DOMAIN ast' = 1 .. Len(ast')
  BY <1>2, AstStays
<1>4. CASE \E i \in 1 .. Len(ast) : ast[i].k = "nobody"
  BY <1>3, <1>4 DEF Hopeless
<1>5. CASE ~NoBlockInCondition
  BY <1>3, <1>5 DEF Hopeless, NoBlockInCondition
<1> QED
  BY <1>1, <1>4, <1>5 DEF Hopeless

LEMMA AtHandTop ==
  ASSUME NEW st, NEW t, NEW h, NEW f, NestIn(st, t, h, f), PendIn(st) \subseteq {Len(st)}
  PROVE  AtHand(st, h, f)
BY DEF NestIn, AtHand

\* What is pending stays, with its context, in quiet steps.
LEMMA AtHandQuiet ==
  ASSUME TreeInv, NEW f, AtHand(stack, here, f), OnlyCalls(stack), NEW g, PendingKept(f, g), Quiet
  PROVE  AtHand(stack', here', g)
<1>1. CallStack /\ here' = here
  BY DEF Quiet
<1>2. PendIn(stack') = PendIn(stack) /\ OnlyCalls(stack') /\ \A i \in PendIn(stack) : stack'[i] = stack[i]
  BY <1>1, PendQuiet, TreeFacts
<1>3. ASSUME NEW i \in PendIn(stack'), stack'[i].op = "if-cond" PROVE g[i] = here'
  <2>1. i \in PendIn(stack) /\ stack[i].op = "if-cond" /\ i \in 1 .. Len(stack) /\ i \in 1 .. Len(stack')
    BY <1>2, <1>3 DEF PendIn
  <2>2. f[i] = here
    BY <2>1 DEF AtHand
  <2>3. ~(i = Len(stack) /\ ThenShape)
    BY <1>3 DEF ThenShape, Turned
  <2>4. ~(i = Len(stack) /\ EmptyThenShape)
    <3>1. Len(stack') = Len(stack) - 1 /\ Len(stack) \in Nat => Len(stack) \notin 1 .. Len(stack')
      OBVIOUS
    <3> QED
      BY <2>1, <3>1 DEF EmptyThenShape, Shorter
  <2>5. g[i] = f[i]
    BY <2>1, <2>3, <2>4 DEF PendingKept
  <2> QED
    BY <1>1, <2>2, <2>5
<1> QED
  BY <1>3 DEF AtHand

\* A condition or a lambda in a condition.
LEMMA SpoiledOpens ==
  ASSUME TreeInv, NEW f, AtHand(stack, here, f), NEW g, PendingKept(f, g), PendIn(stack) # {},
         TopOp # "lambda_params", NEW op, Longer(op),
         NEW s \in Seq(AstItems), ast' = ast \o s, Len(s) # 0, s[1].k \in BlockKinds, s[1].at = here
  PROVE  SpoiledIn(stack', ast', g)
<1>1. ParserInv /\ AstInv
  BY TreeFacts
<1>2. PICK i \in PendIn(stack) : TRUE
  OBVIOUS
<1>3. i \in 1 .. Len(stack) /\ stack[i].op \in PendingOps
  BY <1>2 DEF PendIn
<1>4. stack[i].op = "if-cond"
  BY <1>1, <1>3, NoLambda DEF PendingOps
<1>5. f[i] = here
  BY <1>2, <1>4 DEF AtHand
<1>6. Len(stack) \in Nat /\ Len(stack') = Len(stack) + 1
  BY DEF Longer
<1>7. ~ThenShape /\ ~EmptyThenShape
  BY <1>6 DEF ThenShape, EmptyThenShape, Turned, Shorter
<1>8. i \in 1 .. Len(stack') /\ stack'[i].op = "if-cond" /\ g[i] = f[i]
  BY <1>3, <1>4, <1>7 DEF PendingKept
<1>9. Len(s) \in Nat
  BY LenProperties
<1>10. 1 \in 1 .. Len(s)
  BY <1>9
<1>11. Len(ast) + 1 \in 1 .. Len(ast') /\ ast'[Len(ast) + 1] = s[1]
  BY <1>10, AstStays
<1> QED
  BY <1>5, <1>8, <1>11 DEF SpoiledIn

\* The first item of a list.
LEMMA FirstOf ==
  /\ \A k, c : OneItem(k, c) => \E s \in Seq(AstItems) : ast' = ast \o s /\ Len(s) # 0 /\ s[1].k = k /\ s[1].at = c
  /\ \A k, c, l, d : TwoItems(k, c, l, d) =>
       \E s \in Seq(AstItems) : ast' = ast \o s /\ Len(s) # 0 /\ s[1].k = k /\ s[1].at = c
<1>1. ASSUME NEW k, NEW c, OneItem(k, c)
      PROVE  \E s \in Seq(AstItems) : ast' = ast \o s /\ Len(s) # 0 /\ s[1].k = k /\ s[1].at = c
  <2>1. PICK e \in AstItems : e.k = k /\ e.at = c /\ ast' = ast \o << e >>
    BY <1>1 DEF OneItem
  <2>2. << e >> \in Seq(AstItems) /\ Len(<< e >>) # 0 /\ << e >>[1] = e
    BY Lists
  <2> QED
    BY <2>1, <2>2
<1>2. ASSUME NEW k, NEW c, NEW l, NEW d, TwoItems(k, c, l, d)
      PROVE  \E s \in Seq(AstItems) : ast' = ast \o s /\ Len(s) # 0 /\ s[1].k = k /\ s[1].at = c
  <2>1. PICK e, b \in AstItems : e.k = k /\ e.at = c /\ ast' = ast \o << e, b >>
    BY <1>2 DEF TwoItems
  <2>2. << e, b >> \in Seq(AstItems) /\ Len(<< e, b >>) # 0 /\ << e, b >>[1] = e
    BY Lists
  <2> QED
    BY <2>1, <2>2
<1> QED
  BY <1>1, <1>2

\* Where a block begins.
LEMMA LayoutOpens ==
  ASSUME TreeInv, NEW f, LayoutHolds(f), NEW g, NestIn(stack', ctxs', here', g), PendingKept(f, g),
         IfShape \/ LambdaShape \/ PlainLambdaShape
  PROVE  SpoiledIn(stack', ast', g) \/ (AtHand(stack', here', g) /\ \E z : LayoutIn(ctxs', here', ast', stack', z))
<1>1. PICK w : LayoutIn(ctxs, here, ast, stack, w)
  BY DEF LayoutHolds
<1>2. PICK op : Longer(op)
  BY DEF IfShape, LambdaShape, PlainLambdaShape
<1>3. TopOp # "lambda_params" /\ OpenContext
  BY DEF IfShape, LambdaShape, PlainLambdaShape
<1>4. CASE PendIn(stack) # {}
  <2>1. PICK k \in BlockKinds : \E s \in Seq(AstItems) : ast' = ast \o s /\ Len(s) # 0 /\ s[1].k = k /\ s[1].at = here
    BY FirstOf DEF IfShape, LambdaShape, PlainLambdaShape, BlockKinds
  <2>2. AtHand(stack, here, f)
    BY DEF LayoutHolds
  <2> QED
    BY <1>2, <1>3, <1>4, <2>1, <2>2, SpoiledOpens
<1>5. CASE PendIn(stack) = {}
  <2>1. PendIn(stack') \subseteq {Len(stack')}
    BY <1>2, <1>5, PendOpen
  <2>2. AtHand(stack', here', g)
    BY <2>1, AtHandTop
  <2>3. CASE IfShape
    BY <1>1, <1>5, <2>2, <2>3, LayoutPends DEF IfShape, PendingOps
  <2>4. CASE LambdaShape
    BY <1>1, <1>5, <2>2, <2>4, LayoutPends DEF LambdaShape, PendingOps
  <2>5. CASE PlainLambdaShape
    BY <1>1, <1>5, <2>2, <2>5, LayoutPlainLambda
  <2> QED
    BY <2>3, <2>4, <2>5
<1> QED
  BY <1>4, <1>5

\* Where a body begins or ends.
LEMMA LayoutCloses ==
  ASSUME TreeInv, NEW f, LayoutHolds(f), NEW g, NestIn(stack', ctxs', here', g),
         ThenShape \/ BodyShape \/ EmptyThenShape \/ ElseShape \/ EndShape
  PROVE  AtHand(stack', here', g) /\ \E z : LayoutIn(ctxs', here', ast', stack', z)
<1>1. PICK w : LayoutIn(ctxs, here, ast, stack, w)
  BY DEF LayoutHolds
<1>2. OnlyCalls(stack) /\ TypeInv
  BY <1>1, TreeFacts DEF LayoutIn
<1>3. /\ TopOp \in BodyOps \cup PendingOps
      /\ Shorter \/ \E op \in BodyOps : Turned(op)
  BY DEF ThenShape, BodyShape, EmptyThenShape, ElseShape, EndShape, BodyOps, PendingOps
<1>4. PendIn(stack) \subseteq {Len(stack)}
  BY <1>2, <1>3, PendTop
<1>5. \A op \in BodyOps : op \notin PendingOps
  BY DEF BodyOps, PendingOps
<1>6. PendIn(stack') = {}
  BY <1>3, <1>4, <1>5, PendNone
<1>7. AtHand(stack', here', g)
  BY <1>6, AtHandTop
<1>8. CASE ThenShape
  <2>1. TopOp \in PendingOps /\ OneItem("then", here) /\ Turned("if-then-body") /\ "if-then-body" \in BodyOps /\ SameTree
    BY <1>8 DEF ThenShape, PendingOps, BodyOps
  <2> QED
    BY <1>1, <1>7, <2>1, LayoutBody
<1>9. CASE BodyShape
  <2>1. TopOp \in PendingOps /\ OneItem("body", here) /\ Turned("lambda_body") /\ "lambda_body" \in BodyOps /\ SameTree
    BY <1>9 DEF BodyShape, PendingOps, BodyOps
  <2> QED
    BY <1>1, <1>7, <2>1, LayoutBody
<1>10. CASE EmptyThenShape
  BY <1>1, <1>7, <1>10, LayoutEmptyThen
<1>11. CASE ElseShape
  BY <1>1, <1>7, <1>11, LayoutElse
<1>12. CASE EndShape
  BY <1>1, <1>7, <1>12, LayoutEnd
<1> QED
  BY <1>8, <1>9, <1>10, <1>11, <1>12

-----------------------------------------------------------------------------
LEMMA NoBodyHopeless ==
  ASSUME TreeInv, EmptyLambdaShape \/ NoBodyShape
  PROVE  Hopeless'
<1>1. ASSUME NEW s \in Seq(AstItems), ast' = ast \o s, NEW i \in 1 .. Len(s), s[i].k = "nobody" PROVE Hopeless'
  BY <1>1, AstStays DEF Hopeless
<1>2. CASE EmptyLambdaShape
  <2>1. PICK e, b \in AstItems : b.k = "nobody" /\ ast' = ast \o << e, b >>
    BY <1>2 DEF EmptyLambdaShape, TwoItems
  <2> DEFINE s == << e, b >>
  <2>2. s \in Seq(AstItems) /\ Len(s) = 2 /\ s[2] = b
    BY Lists
  <2>3. ast' = ast \o s
    BY <2>1
  <2> HIDE DEF s
  <2>4. 2 \in 1 .. Len(s)
    BY <2>2
  <2> QED
    BY <1>1, <2>1, <2>2, <2>3, <2>4
<1>3. CASE NoBodyShape
  <2>1. PICK e \in AstItems : e.k = "nobody" /\ ast' = ast \o << e >>
    BY <1>3 DEF NoBodyShape, OneItem
  <2> DEFINE s == << e >>
  <2>2. s \in Seq(AstItems) /\ Len(s) = 1 /\ s[1] = e
    BY Lists
  <2>3. ast' = ast \o s
    BY <2>1
  <2> HIDE DEF s
  <2>4. 1 \in 1 .. Len(s)
    BY <2>2
  <2> QED
    BY <1>1, <2>1, <2>2, <2>3, <2>4
<1> QED
  BY <1>2, <1>3

\* The end of the file where nothing is open.
LEMMA LayoutInside ==
  ASSUME TreeInv, NEW w, LayoutIn(ctxs, here, ast, stack, w), stack = << >>, NEW s \in Seq(AstItems), EndItems(s)
  PROVE  \E z : LayoutIn(ctxs, here, ast \o s, stack, z)
<1> DEFINE u == w[Len(ast) + 1]
<1>1. u \in Spots(ctxs)
  BY StandsAt
<1>2. ast \in Seq(AstItems)
  BY TreeFacts
<1>3. \A j \in 1 .. Len(s) : s[j].k = "null"
  BY DEF EndItems
<1> HIDE DEF u
<1>4. "null" \notin UseKinds \cup Opening \cup Boundary \cup {"nobody", "else", "end"}
  BY DEF UseKinds, Opening, Boundary
<1>5. ASSUME NEW j \in 1 .. Len(s) PROVE Link(u, s[j], u, LayMoves(ctxs))
  <2>1. s[j] \in AstItems
    BY ElementOfSeq
  <2>2. Lays(ctxs, u, s[j], u)
    BY <1>3, <1>4 DEF Lays, Opening
  <2> QED
    BY <1>1, <2>1, <2>2, LinkIs
<1>6. Stays(s, u, LayMoves(ctxs))
  BY <1>5 DEF Stays
<1>7. PICK v : Path(s, v, Spots(ctxs), LayMoves(ctxs)) /\ \A i \in 1 .. Len(s) + 1 : v[i] = u
  BY <1>1, <1>6, PathSame
<1>8. Len(s) \in Nat /\ 1 \in 1 .. Len(s) + 1 /\ Len(s) + 1 \in 1 .. Len(s) + 1
  BY LenProperties
<1>9. v[1] = w[Len(ast) + 1] /\ v[Len(s) + 1] = w[Len(ast) + 1]
  BY <1>7, <1>8 DEF u
<1>10. \A j \in 1 .. Len(s) : s[j].k \notin UseKinds \cup {"else", "end"}
  BY <1>3, <1>4
<1>11. /\ Laid(ctxs, ast, w) /\ LeftBehind(ctxs, ast, w, here) /\ FreshUses(ctxs, ast, w)
       /\ OnlyCalls(stack) /\ Stands(ctxs, here, stack, v[Len(s) + 1]) /\ CondEmpty(ctxs, here, stack)
  BY <1>9 DEF LayoutIn
<1> QED
  BY <1>2, <1>7, <1>9, <1>10, <1>11, LayoutMore

LEMMA LayInit ==
  ASSUME ParserInit
  PROVE  LayInv
<1> DEFINE f == [i \in 0 .. 0 |-> Global]  w == [i \in 1 .. 1 |-> Spot(1, Global)]
<1>1. /\ ctxs = << Context(<< Global >>) >> /\ here = Global /\ ast = << >> /\ stack = << >>
      /\ Len(stack) = 0 /\ Len(ast) = 0 /\ Len(ctxs) = 1 /\ Global = 1
  BY DEF ParserInit, DefaultContext, Global
<1>2. NestIn(stack, ctxs, here, f)
  BY <1>1 DEF NestIn
<1>3. PendIn(stack) = {}
  BY <1>1 DEF PendIn
<1>4. AtHand(stack, here, f) /\ OnlyCalls(stack) /\ CondEmpty(ctxs, here, stack)
  BY <1>3, NothingPends DEF AtHand
<1>5. Preorder(ctxs, 1, Global)
  BY <1>1 DEF Preorder
<1>6. Spot(1, Global) \in Spots(ctxs)
  BY <1>1, <1>5, SpotIs
<1>7. Len(ast) + 1 = 1 /\ w[1] = Spot(1, Global)
  BY <1>1
<1>8. w \in [1 .. Len(ast) + 1 -> Spots(ctxs)]
  BY <1>6, <1>7
<1>9. Laid(ctxs, ast, w)
  BY <1>1, <1>7, <1>8 DEF Laid, Path
<1>10. LeftBehind(ctxs, ast, w, here) /\ FreshUses(ctxs, ast, w)
  BY <1>1 DEF LeftBehind, FreshUses
<1>11. Stands(ctxs, here, stack, w[Len(ast) + 1])
  BY <1>1, <1>3, <1>7 DEF Stands
<1>12. LayoutIn(ctxs, here, ast, stack, w)
  BY <1>4, <1>9, <1>10, <1>11 DEF LayoutIn
<1> HIDE DEF f, w
<1>13. LayoutHolds(f)
  BY <1>4, <1>12 DEF LayoutHolds
<1> QED
  BY <1>2, <1>13 DEF LayInv

\* The steps that read on.
LEMMA LayReads ==
  ASSUME TreeInv, NEW f, NestIn(stack, ctxs, here, f), SpoiledIn(stack, ast, f) \/ LayoutHolds(f),
         Quiet \/ BlockShapes, ~EmptyLambdaShape, ~NoBodyShape, ParserNext
  PROVE  LayInv'
<1>1. PICK g : NestIn(stack', ctxs', here', g) /\ PendingKept(f, g)
  BY NestQuiet, NestBlocks DEF Follows
<1>2. PICK s \in Seq(AstItems) : ast' = ast \o s
  BY ListGrows
<1>3. CASE SpoiledIn(stack, ast, f)
  <2>1. Hopeless' \/ SpoiledIn(stack', ast', g)
    BY <1>1, <1>2, <1>3, SpoiledStep
  <2> QED
    BY <1>1, <2>1 DEF LayInv
<1>4. CASE LayoutHolds(f)
  <2>1. SpoiledIn(stack', ast', g) \/ (AtHand(stack', here', g) /\ \E z : LayoutIn(ctxs', here', ast', stack', z))
    <3>1. CASE Quiet
      <4>1. PICK w : LayoutIn(ctxs, here, ast, stack, w)
        BY <1>4 DEF LayoutHolds
      <4>2. AtHand(stack, here, f) /\ OnlyCalls(stack)
        BY <1>4, <4>1 DEF LayoutHolds, LayoutIn
      <4>3. AtHand(stack', here', g)
        BY <1>1, <3>1, <4>2, AtHandQuiet
      <4>4. \E z : LayoutIn(ctxs', here', ast', stack', z)
        BY <3>1, <4>1, LayoutQuiet
      <4> QED
        BY <4>3, <4>4
    <3>2. CASE IfShape \/ LambdaShape \/ PlainLambdaShape
      BY <1>1, <1>4, <3>2, LayoutOpens
    <3>3. CASE ThenShape \/ BodyShape \/ EmptyThenShape \/ ElseShape \/ EndShape
      BY <1>1, <1>4, <3>3, LayoutCloses
    <3> QED
      BY <3>1, <3>2, <3>3 DEF BlockShapes
  <2>2. \E h : NestIn(stack', ctxs', here', h) /\ (SpoiledIn(stack', ast', h)
               \/ (AtHand(stack', here', h) /\ \E z : LayoutIn(ctxs', here', ast', stack', z)))
    BY <1>1, <2>1
  <2> QED
    BY <2>2 DEF LayInv, LayoutHolds
<1> QED
  BY <1>3, <1>4

LEMMA LayParses ==
  ASSUME TreeInv, LayInv, ParserNext
  PROVE  LayInv'
<1>1. ParserInv /\ AstInv /\ TypeInv
  BY TreeFacts
<1>2. Quiet \/ Reject \/ BlockShapes \/ EndOfFile \/ InsideEnds
  BY <1>1, StepShapes
<1>3. CASE Hopeless
  BY <1>3, HopelessKept DEF LayInv
<1>4. ASSUME NEW f, NestIn(stack, ctxs, here, f), SpoiledIn(stack, ast, f) \/ LayoutHolds(f) PROVE LayInv'
  <2>1. CASE EmptyLambdaShape \/ NoBodyShape
    BY <2>1, NoBodyHopeless DEF LayInv
  <2>2. CASE Reject
    BY <2>2 DEF Reject, LayInv, Hopeless
  <2>3. CASE (Quiet \/ BlockShapes) /\ ~EmptyLambdaShape /\ ~NoBodyShape
    BY <1>4, <2>3, LayReads
  <2>4. CASE EndOfFile \/ InsideEnds
    <3>1. UNCHANGED << ctxs, here, stack >> /\ ph' = "parsed"
      BY <2>4 DEF EndOfFile, InsideEnds, EndOfFileInside
    <3>2. CASE stack # << >>
      BY <3>1, <3>2 DEF LayInv, Hopeless
    <3>3. CASE stack = << >>
      <4>1. Len(stack) = 0
        BY <3>3
      <4>2. LayoutHolds(f)
        BY <1>4, <4>1 DEF SpoiledIn
      <4>3. PICK w : LayoutIn(ctxs, here, ast, stack, w)
        BY <4>2 DEF LayoutHolds
      <4>4. \E z : LayoutIn(ctxs, here, ast', stack, z)
        <5>1. CASE EndOfFile
          BY <4>3, <5>1 DEF EndOfFile
        <5>2. CASE InsideEnds
          BY <3>3, <4>3, <5>2, LayoutInside DEF InsideEnds
        <5> QED
          BY <2>4, <5>1, <5>2
      <4>5. AtHand(stack, here, f)
        BY <4>2 DEF LayoutHolds
      <4>6. \E h : NestIn(stack', ctxs', here', h) /\ AtHand(stack', here', h) /\ \E z : LayoutIn(ctxs', here', ast', stack', z)
        BY <1>4, <3>1, <4>4, <4>5
      <4> QED
        BY <4>6 DEF LayInv, LayoutHolds
    <3> QED
      BY <3>2, <3>3
  <2> QED
    BY <1>2, <2>1, <2>2, <2>3, <2>4
<1> QED
  BY <1>3, <1>4 DEF LayInv

LEMMA LayStep ==
  ASSUME TreeInv, LayInv, [Next]_vars
  PROVE  LayInv'
<1>1. CASE ParserNext
  BY <1>1, LayParses
<1>2. CASE UNCHANGED parserVars
  BY <1>2 DEF parserVars, LayInv, Hopeless, LayoutHolds, NoBlockInCondition
<1> QED
  BY <1>1, <1>2, ParserSteps

\* A complete program is laid out.
Placed(t, a, w) == Laid(t, a, w) /\ FreshUses(t, a, w)

LEMMA PlacedWhenParsed ==
  ASSUME TreeInv, LayInv, ph = "parsed", Complete, NoBlockInCondition
  PROVE  here = Global /\ \E w : Placed(ctxs, ast, w)
<1>1. stack = << >> /\ Len(stack) = 0
  BY DEF Complete
<1>2. DOMAIN ast = 1 .. Len(ast)
  BY TreeFacts, LenProperties
<1>3. ~Hopeless
  BY <1>1, <1>2 DEF Complete, Hopeless
<1>4. PICK f : NestIn(stack, ctxs, here, f) /\ (SpoiledIn(stack, ast, f) \/ LayoutHolds(f))
  BY <1>3 DEF LayInv
<1>5. here = Global
  BY <1>1, <1>4 DEF NestIn
<1>6. LayoutHolds(f)
  BY <1>1, <1>4 DEF SpoiledIn
<1> QED
  BY <1>5, <1>6 DEF LayoutHolds, LayoutIn, Placed

-----------------------------------------------------------------------------
(***************************************************************************)
(* The walks.  x is the child of p that comes next, when the contexts up   *)
(* to n were entered; NULL if there is none.                               *)
(***************************************************************************)
NextKidIs(t, p, n, x) ==
  /\ x = NULL \/ (x \in 2 .. Len(t) /\ x > n /\ ParentIn(t, x) = p)
  /\ \A d \in 2 .. Len(t) : d > n /\ ParentIn(t, d) = p => x # NULL /\ x <= d

LEMMA FirstChildIs ==
  ASSUME TreeInv, NEW p \in 1 .. Len(ctxs)
  PROVE  NextKidIs(ctxs, p, p, FirstChild(p)) /\ FirstChild(p) \in Nat
<1> DEFINE kids == ctxs[p].kids
<1>1. /\ \A i \in 1 .. Len(kids) : kids[i] \in p + 1 .. Len(ctxs) /\ ParentIn(ctxs, kids[i]) = p
      /\ \A i, j \in 1 .. Len(kids) : i < j => kids[i] < kids[j]
      /\ \A d \in 2 .. Len(ctxs) : ParentIn(ctxs, d) = p => \E i \in 1 .. Len(kids) : kids[i] = d
  BY TreeFacts DEF KidsInv, KidsOf
<1>2. kids \in Seq(Nat) /\ Len(kids) \in Nat /\ Len(ctxs) \in Nat
  BY TreeFacts, ChainType, LenProperties
<1>3. FirstChild(p) = IF kids = << >> THEN NULL ELSE Head(kids)
  BY DEF FirstChild
<1> HIDE DEF kids
<1>4. CASE kids = << >>
  <2>1. Len(kids) = 0
    BY <1>4
  <2>2. \A d \in 2 .. Len(ctxs) : ParentIn(ctxs, d) # p
    BY <1>1, <2>1
  <2> QED
    BY <1>3, <1>4, <2>2 DEF NextKidIs, NULL
<1>5. CASE kids # << >>
  <2>1. Head(kids) = kids[1] /\ 1 \in 1 .. Len(kids)
    BY <1>2, <1>5
  <2>2. kids[1] \in p + 1 .. Len(ctxs) /\ ParentIn(ctxs, kids[1]) = p
    BY <1>1, <2>1
  <2>3. kids[1] \in 2 .. Len(ctxs) /\ kids[1] > p
    BY <1>2, <2>2
  <2>4. ASSUME NEW d \in 2 .. Len(ctxs), ParentIn(ctxs, d) = p PROVE kids[1] # NULL /\ kids[1] <= d
    <3>1. PICK i \in 1 .. Len(kids) : kids[i] = d
      BY <1>1, <2>4
    <3>2. i = 1 \/ 1 < i
      BY <1>2
    <3>3. i = 1 \/ kids[1] < d
      BY <1>1, <2>1, <3>1, <3>2
    <3> QED
      BY <1>2, <2>3, <3>1, <3>3 DEF NULL
  <2>5. FirstChild(p) = kids[1]
    BY <1>3, <1>5, <2>1
  <2> QED
    BY <1>2, <2>2, <2>3, <2>4, <2>5 DEF NextKidIs
<1> QED
  BY <1>4, <1>5

LEMMA NextChildIs ==
  ASSUME TreeInv, NEW c \in 2 .. Len(ctxs)
  PROVE  NextKidIs(ctxs, ParentIn(ctxs, c), c, NextChild(c)) /\ NextChild(c) \in Nat
<1> DEFINE p == ParentIn(ctxs, c)  kids == ctxs[p].kids
<1>1. ContextsInv(ctxs) /\ KidsInv(ctxs) /\ Len(ctxs) \in Nat
  BY TreeFacts
<1>2. p \in 1 .. Len(ctxs)
  BY <1>1, ParentIsThere
<1>3. Parent(c) = p
  BY DEF Parent, ParentIn, Chain
<1>5. kids \in Seq(Nat) /\ Len(kids) \in Nat /\ DOMAIN kids = 1 .. Len(kids)
  BY <1>1, <1>2, ChainType, LenProperties
<1>6. /\ \A j \in 1 .. Len(kids) : kids[j] \in p + 1 .. Len(ctxs) /\ ParentIn(ctxs, kids[j]) = p
      /\ \A j, k \in 1 .. Len(kids) : j < k => kids[j] < kids[k]
      /\ \A d \in 2 .. Len(ctxs) : ParentIn(ctxs, d) = p => \E j \in 1 .. Len(kids) : kids[j] = d
  BY <1>1, <1>2 DEF KidsInv, KidsOf
<1> HIDE DEF kids
<1>7. \E j \in DOMAIN kids : kids[j] = c
  BY <1>5, <1>6
<1>8. \E i \in 1 .. Len(kids) : kids[i] = c /\ NextChild(c) = IF i = Len(kids) THEN NULL ELSE kids[i + 1]
  <2> DEFINE i == CHOOSE j \in DOMAIN kids : kids[j] = c
  <2>1. i \in 1 .. Len(kids) /\ kids[i] = c
    BY <1>5, <1>7
  <2>2. NextChild(c) = IF i = Len(kids) THEN NULL ELSE kids[i + 1]
    BY <1>3 DEF NextChild, kids
  <2> QED
    BY <2>1, <2>2
<1>4. PICK i \in 1 .. Len(kids) : kids[i] = c /\ NextChild(c) = IF i = Len(kids) THEN NULL ELSE kids[i + 1]
  BY <1>8
<1>12. i \in 1 .. Len(kids) /\ Len(kids) \in Nat
  BY <1>4, <1>5
<1> HIDE DEF p
<1>9. ASSUME NEW d \in 2 .. Len(ctxs), d > c, ParentIn(ctxs, d) = p PROVE i # Len(kids) /\ kids[i + 1] <= d
  <2>1. PICK j \in 1 .. Len(kids) : kids[j] = d
    BY <1>6, <1>9
  <2>6. j \in 1 .. Len(kids)
    BY <2>1
  <2>2. j > i
    <3>1. j # i /\ ~(j < i)
      BY <1>1, <1>4, <1>6, <1>9, <2>1
    <3> QED
      BY <1>12, <2>6, <3>1
  <2>3. i + 1 \in 1 .. Len(kids) /\ i # Len(kids) /\ (j = i + 1 \/ i + 1 < j)
    BY <1>12, <2>2, <2>6
  <2>4. kids[i + 1] \in p + 1 .. Len(ctxs)
    BY <1>6, <2>3
  <2>5. j = i + 1 \/ kids[i + 1] < d
    BY <1>6, <2>1, <2>3
  <2> QED
    BY <1>1, <1>2, <2>1, <2>3, <2>4, <2>5
<1>10. CASE i = Len(kids)
  BY <1>4, <1>9, <1>10 DEF NextKidIs, NULL, p
<1>11. CASE i # Len(kids)
  <2>1. i + 1 \in 1 .. Len(kids) /\ i < i + 1
    BY <1>12, <1>11
  <2>2. kids[i + 1] \in p + 1 .. Len(ctxs) /\ ParentIn(ctxs, kids[i + 1]) = p /\ kids[i + 1] > c
    BY <1>4, <1>6, <2>1
  <2>3. kids[i + 1] \in 2 .. Len(ctxs) /\ kids[i + 1] \in Nat /\ kids[i + 1] # NULL
    BY <1>1, <1>2, <2>2 DEF NULL
  <2>4. NextChild(c) = kids[i + 1]
    BY <1>4, <1>11
  <2> QED
    BY <1>9, <2>2, <2>3, <2>4 DEF NextKidIs, p
<1> QED
  BY <1>10, <1>11 DEF p

\* A block is entered in the child that comes next.
LEMMA NextEnters ==
  ASSUME NEW t, Len(t) \in Nat, NEW u, u.m \in 1 .. Len(t), NEW p, Enters(t, u, p), NEW x, NextKidIs(t, p, u.m, x)
  PROVE  x # NULL /\ x = u.m + 1
<1>1. u.m \in 1 .. Len(t) /\ u.m + 1 \in 1 .. Len(t) /\ ParentIn(t, u.m + 1) = p
  BY DEF Enters
<1> DEFINE n == u.m + 1
<1>2. n \in 2 .. Len(t) /\ n > u.m
  BY <1>1
<1> HIDE DEF n
<1>3. x # NULL /\ x <= n
  BY <1>1, <1>2 DEF NextKidIs, n
<1>4. x \in 2 .. Len(t) /\ x > u.m
  BY <1>3 DEF NextKidIs
<1> QED
  BY <1>1, <1>3, <1>4 DEF n

\* Where a block is left all children of its context were entered.
LEMMA NextLeft ==
  ASSUME NEW t, ContextsInv(t), NEW u \in Spots(t), Left(t, u), NEW x, NextKidIs(t, u.c, u.m, x)
  PROVE  x = NULL
<1>1. u.m \in 1 .. Len(t) /\ u.c \in 1 .. Len(t) /\ Len(t) \in Nat
  BY SpotType, LenProperties DEF ContextsInv
<1>2. ASSUME x # NULL PROVE FALSE
  <2>1. x \in 2 .. Len(t) /\ x > u.m /\ ParentIn(t, x) = u.c
    BY <1>2 DEF NextKidIs
  <2>2. On(t, u.c, x)
    BY <1>1, <2>1, OnSelf, OnParent
  <2>3. x \in u.m + 1 .. Len(t)
    BY <1>1, <2>1
  <2> QED
    BY <2>2, <2>3 DEF Left
<1> QED
  BY <1>2

\* The child that comes behind a context that is left.
LEMMA NextOut ==
  ASSUME NEW t, ContextsInv(t), NEW u \in Spots(t), u.c # Global, NEW x, NextKidIs(t, ParentIn(t, u.c), u.c, x)
  PROVE  NextKidIs(t, ParentIn(t, u.c), u.m, x)
<1> DEFINE p == ParentIn(t, u.c)
<1>1. u.m \in 1 .. Len(t) /\ u.c \in 2 .. Len(t) /\ u.c <= u.m /\ Len(t) \in Nat /\ Preorder(t, u.m, u.c)
  BY SpotType, LenProperties DEF ContextsInv, Global
<1>2. u.c <= u.m \/ u.c > u.m
  BY <1>1
<1>3. On(t, u.c, u.c)
  BY <1>1, OnSelf
<1>4. ASSUME NEW d \in 2 .. Len(t), d > u.c, d <= u.m PROVE ParentIn(t, d) # p
  <2>1. d \in u.c .. u.m /\ d # u.c
    BY <1>1, <1>4
  <2>2. On(t, u.c, d)
    BY <1>1, <1>3, <2>1 DEF Preorder
  <2> QED
    BY <1>1, <2>1, <2>2, OnSibling
<1> HIDE DEF p
<1>5. x = NULL \/ (x \in 2 .. Len(t) /\ x > u.m /\ ParentIn(t, x) = p)
  BY <1>1, <1>4 DEF NextKidIs, p
<1>6. ASSUME NEW d \in 2 .. Len(t), d > u.m, ParentIn(t, d) = p PROVE x # NULL /\ x <= d
  <2>1. CASE d > u.c
    BY <1>6, <2>1 DEF NextKidIs, p
  <2>2. CASE d <= u.c
    BY <1>1, <1>6, <2>2 DEF NextKidIs, p
  <2> QED
    BY <1>1, <2>1, <2>2
<1> QED
  BY <1>5, <1>6 DEF NextKidIs, p

\* The chain of a context is that of its parent, and the context itself.
LEMMA ChainOfKid ==
  ASSUME NEW t, ContextsInv(t), NEW c \in 2 .. Len(t)
  PROVE  LET q == t[c].chain  r == t[ParentIn(t, c)].chain IN
         /\ Len(r) \in Nat \ {0} /\ Len(q) = Len(r) + 1 /\ q[Len(q)] = c /\ q[Len(r) + 1] = c
         /\ \A k \in 1 .. Len(r) : q[k] = r[k]
         /\ ParentIn(t, c) \in 1 .. Len(t)
<1> DEFINE q == t[c].chain  r == t[ParentIn(t, c)].chain
<1>1. Len(q) >= 2 /\ ParentIn(t, c) \in 1 .. Len(t) /\ r = SubSeq(q, 1, Len(q) - 1) /\ Len(r) = Len(q) - 1
  BY ParentIsThere
<1>2. Len(t) \in Nat /\ c \in 1 .. Len(t)
  BY LenProperties DEF ContextsInv
<1>3. q \in Seq(Nat) /\ Len(q) \in Nat
  BY <1>2, ChainType
<1>4. q[Len(q)] = c
  BY <1>2 DEF ContextsInv, ChainInv
<1> HIDE DEF q, r
<1>5. \A k \in 1 .. Len(r) : q[k] = r[k]
  BY <1>1, <1>3
<1>6. Len(r) \in Nat \ {0} /\ Len(q) = Len(r) + 1
  <2>1. Len(q) >= 2 /\ Len(r) = Len(q) - 1 /\ Len(q) \in Nat
    BY <1>1, <1>3
  <2> QED
    BY ONLY <2>1
<1> QED
  BY <1>1, <1>4, <1>5, <1>6 DEF q, r

(***************************************************************************)
(* The levels of the type checker are the contexts around the spot it has  *)
(* reached; the child that comes next is the one that is entered, and in   *)
(* the innermost the one that will be.                                     *)
(***************************************************************************)
Visits == [ctx : Nat, next : Nat]

Checks(ls, t, u) ==
  /\ ls \in Seq(Visits) /\ Len(ls) = Len(t[u.c].chain)
  /\ \A k \in 1 .. Len(ls) : ls[k].ctx = t[u.c].chain[k]
  /\ \A k \in 1 .. Len(ls) - 1 : ls[k].next = ls[k + 1].ctx
  /\ NextKidIs(t, u.c, u.m, ls[Len(ls)].next)

\* The level on top.
LEMMA ChecksTop ==
  ASSUME TreeInv, NEW u, u.c \in 1 .. Len(ctxs), NEW ls, Checks(ls, ctxs, u)
  PROVE  /\ Len(ls) \in Nat \ {0} /\ ls[Len(ls)].ctx = u.c
         /\ Last(ls) = ls[Len(ls)] /\ NextKidIs(ctxs, u.c, u.m, Last(ls).next)
<1>1. ContextsInv(ctxs)
  BY TreeFacts
<1> DEFINE q == ctxs[u.c].chain
<1>2. Len(q) > 0 /\ q[Len(q)] = u.c /\ Len(q) \in Nat
  BY <1>1, ChainType DEF ContextsInv, ChainInv
<1>3. Len(ls) = Len(q) /\ \A k \in 1 .. Len(ls) : ls[k].ctx = q[k]
  BY DEF Checks
<1> HIDE DEF q
<1>4. Len(ls) \in Nat \ {0} /\ Len(ls) \in 1 .. Len(ls)
  BY <1>2, <1>3
<1>5. ls[Len(ls)].ctx = u.c
  BY <1>2, <1>3, <1>4
<1> QED
  BY <1>4, <1>5 DEF Checks, Last

LEMMA ChecksEnter ==
  ASSUME TreeInv, NEW u, u.m \in 1 .. Len(ctxs), u.c \in 1 .. Len(ctxs), NEW ls, Checks(ls, ctxs, u), Enters(ctxs, u, u.c)
  PROVE  /\ Last(ls).next # NULL
         /\ Checks(Append(ls, Level(Last(ls).next)), ctxs, Spot(u.m + 1, u.m + 1))
<1> DEFINE n == u.m + 1  x == Last(ls).next  new == Append(ls, Level(x))
<1>1. ContextsInv(ctxs) /\ Len(ctxs) \in Nat
  BY TreeFacts
<1>2. Len(ls) \in Nat \ {0} /\ ls[Len(ls)].ctx = u.c /\ x = ls[Len(ls)].next /\ NextKidIs(ctxs, u.c, u.m, x)
  BY ChecksTop
<1>3. x # NULL /\ x = n
  BY <1>1, <1>2, NextEnters
<1>4. n \in 2 .. Len(ctxs) /\ n \in 1 .. Len(ctxs) /\ n \in Nat /\ ParentIn(ctxs, n) = u.c
  <2>1. n \in 1 .. Len(ctxs) /\ ParentIn(ctxs, n) = u.c
    BY DEF Enters
  <2> QED
    BY <1>1, <2>1
<1> HIDE DEF n, x
<1>5. Level(x) = [ctx |-> n, next |-> FirstChild(n)] /\ NextKidIs(ctxs, n, n, FirstChild(n)) /\ FirstChild(n) \in Nat
  BY <1>3, <1>4, FirstChildIs DEF Level
<1>6. Level(x) \in Visits
  BY <1>4, <1>5 DEF Visits
<1>7. /\ ls \in Seq(Visits) /\ Len(ls) = Len(ctxs[u.c].chain)
      /\ \A k \in 1 .. Len(ls) : ls[k].ctx = ctxs[u.c].chain[k]
      /\ \A k \in 1 .. Len(ls) - 1 : ls[k].next = ls[k + 1].ctx
  BY DEF Checks
<1>8. /\ new \in Seq(Visits) /\ Len(new) = Len(ls) + 1 /\ new[Len(ls) + 1] = Level(x)
      /\ \A k \in 1 .. Len(ls) : new[k] = ls[k]
  BY <1>6, <1>7, AppendProperties
<1> HIDE DEF new
<1> DEFINE q == ctxs[n].chain  r == ctxs[u.c].chain
<1>9. Len(q) = Len(r) + 1 /\ q[Len(r) + 1] = n /\ \A k \in 1 .. Len(r) : q[k] = r[k]
  BY <1>1, <1>4, ChainOfKid
<1> HIDE DEF q, r
<1>10. Len(new) = Len(q)
  BY <1>7, <1>8, <1>9 DEF r
<1>11. ASSUME NEW k \in 1 .. Len(new) PROVE new[k].ctx = q[k]
  <2>1. CASE k \in 1 .. Len(ls)
    BY <1>7, <1>8, <1>9, <2>1 DEF r
  <2>2. CASE k = Len(ls) + 1
    BY <1>5, <1>7, <1>8, <1>9, <2>2 DEF r
  <2> QED
    BY <1>2, <1>8, <2>1, <2>2
<1>12. ASSUME NEW k \in 1 .. Len(new) - 1 PROVE new[k].next = new[k + 1].ctx
  <2>1. CASE k \in 1 .. Len(ls) - 1
    <3>1. k \in 1 .. Len(ls) /\ k + 1 \in 1 .. Len(ls)
      BY <1>2, <2>1
    <3> QED
      BY <1>7, <1>8, <2>1, <3>1
  <2>2. CASE k = Len(ls)
    <3>1. Len(ls) \in 1 .. Len(ls)
      BY <1>2
    <3>2. new[k] = ls[Len(ls)] /\ new[k + 1] = Level(x)
      BY <1>8, <2>2, <3>1
    <3>3. new[k].next = x
      BY <1>2, <3>2
    <3>4. new[k + 1].ctx = n
      BY <1>5, <3>2
    <3> QED
      BY <1>3, <3>3, <3>4
  <2> QED
    BY <1>2, <1>8, <2>1, <2>2
<1>13. new[Len(new)].next = FirstChild(n)
  BY <1>5, <1>8
<1>14. Checks(new, ctxs, Spot(n, n))
  BY <1>5, <1>8, <1>10, <1>11, <1>12, <1>13 DEF Checks, Spot, q
<1> QED
  BY <1>3, <1>14 DEF new, n, x

LEMMA ChecksAdvance ==
  ASSUME TreeInv, NEW u \in Spots(ctxs), u.c # Global, Checks(levels, ctxs, u)
  PROVE  Checks(Advanced, ctxs, Spot(u.m, ParentIn(ctxs, u.c)))
<1> DEFINE p == ParentIn(ctxs, u.c)  q == ctxs[u.c].chain  r == ctxs[p].chain  n == Len(levels) - 1
           up == Front(levels)
<1>1. ContextsInv(ctxs) /\ Len(ctxs) \in Nat
  BY TreeFacts
<1>2. u.c \in 2 .. Len(ctxs) /\ u.c \in 1 .. Len(ctxs)
  BY <1>1, SpotType DEF Global
<1>3. Len(r) \in Nat \ {0} /\ Len(q) = Len(r) + 1 /\ (\A k \in 1 .. Len(r) : q[k] = r[k])
  BY <1>1, <1>2, ChainOfKid, SMTT(30)
<1>4. /\ levels \in Seq(Visits) /\ Len(levels) = Len(q)
      /\ \A k \in 1 .. Len(levels) : levels[k].ctx = q[k]
      /\ \A k \in 1 .. Len(levels) - 1 : levels[k].next = levels[k + 1].ctx
  BY DEF Checks
<1>5. levels[Len(levels)].ctx = u.c
  BY <1>2, ChecksTop
<1>6. NextKidIs(ctxs, p, u.c, NextChild(u.c)) /\ NextChild(u.c) \in Nat
  BY <1>2, NextChildIs
<1>7. NextKidIs(ctxs, p, u.m, NextChild(u.c))
  BY <1>1, <1>6, NextOut
<1> HIDE DEF q, r
<1>8. n = Len(r) /\ n \in Nat \ {0} /\ Len(levels) = n + 1 /\ n + 1 \in 1 .. n + 1 /\ n \in 1 .. n
  BY <1>3, <1>4
<1> HIDE DEF n
<1>9. up = SubSeq(levels, 1, n)
  BY DEF Front, n
<1>10. up \in Seq(Visits) /\ Len(up) = n /\ \A k \in 1 .. n : up[k] = levels[k]
  BY <1>4, <1>8, <1>9
<1> HIDE DEF up
<1>11. up[n] \in Visits /\ up[n].next = u.c
  <2>1. up[n] \in Visits
    BY <1>8, <1>10, ElementOfSeq
  <2>2. up[n] = levels[n] /\ levels[n].next = levels[n + 1].ctx
    BY <1>4, <1>8, <1>10
  <2> QED
    BY <1>5, <1>8, <2>1, <2>2
<1>12. Advanced = [up EXCEPT ![n].next = NextChild(up[n].next)]
  BY <1>10 DEF Advanced, up
<1> DEFINE y == [up[n] EXCEPT !.next = NextChild(u.c)]  z == [up EXCEPT ![n] = y]
<1>13. y \in Visits /\ y.ctx = up[n].ctx /\ y.next = NextChild(u.c)
  BY <1>6, <1>11 DEF Visits
<1>14. Advanced = z
  BY <1>11, <1>12
<1> HIDE DEF y
<1>15. z \in Seq(Visits) /\ Len(z) = n /\ z[n] = y /\ \A k \in 1 .. n : k # n => z[k] = up[k]
  BY <1>8, <1>10, <1>13, ExceptSeq
<1> HIDE DEF z
<1>16. ASSUME NEW k \in 1 .. n PROVE z[k].ctx = r[k]
  <2>1. z[k].ctx = up[k].ctx
    BY <1>13, <1>15
  <2>2. k \in 1 .. n + 1
    BY <1>8
  <2> QED
    BY <1>3, <1>4, <1>8, <1>10, <2>1, <2>2
<1>17. ASSUME NEW k \in 1 .. n - 1 PROVE z[k].next = z[k + 1].ctx
  <2>1. k \in 1 .. n /\ k # n /\ k + 1 \in 1 .. n /\ k \in 1 .. (n + 1) - 1
    BY <1>8
  <2>2. z[k] = levels[k] /\ z[k + 1].ctx = levels[k + 1].ctx
    <3>1. z[k] = levels[k]
      BY <1>10, <1>15, <2>1
    <3>2. z[k + 1].ctx = up[k + 1].ctx
      BY <1>13, <1>15, <2>1
    <3> QED
      BY <1>10, <2>1, <3>1, <3>2
  <2> QED
    BY <1>4, <1>8, <2>1, <2>2
<1>18. Checks(z, ctxs, Spot(u.m, p))
  BY <1>7, <1>8, <1>13, <1>15, <1>16, <1>17 DEF Checks, Spot, r
<1> QED
  BY <1>14, <1>18

LEMMA ChecksItem ==
  ASSUME TreeInv, Complete, NEW w, Laid(ctxs, ast, w), Checking, Checks(levels, ctxs, w[cpos]), CheckItem, cpos \in Nat
  PROVE  \/ verdict' = "type_error" /\ cpos' = cpos /\ levels' = levels
         \/ verdict' = "none" /\ cpos' = cpos + 1 /\ Checks(levels', ctxs, w[cpos + 1])
<1> DEFINE u == w[cpos]  v == w[cpos + 1]  e == ast[cpos]  p == ParentIn(ctxs, u.c)
<1>1. /\ ast \in Seq(AstItems) /\ Len(ast) \in Nat /\ ContextsInv(ctxs) /\ KidsInv(ctxs) /\ Len(ctxs) \in Nat
      /\ DOMAIN ast = 1 .. Len(ast)
  BY TreeFacts, LenProperties
<1>2. cpos \in 1 .. Len(ast) /\ verdict = "none"
  BY <1>1 DEF Checking
<1>3. cpos \in 1 .. Len(ast) + 1 /\ cpos + 1 \in 1 .. Len(ast) + 1
  BY <1>1, <1>2
<1>4. u \in Spots(ctxs) /\ v \in Spots(ctxs) /\ Lays(ctxs, u, e, v)
  <2>1. w \in [1 .. Len(ast) + 1 -> Spots(ctxs)] /\ \A i \in 1 .. Len(ast) : Lays(ctxs, w[i], ast[i], w[i + 1])
    BY <1>1, LaidLinks
  <2> QED
    BY <1>2, <1>3, <2>1
<1>5. Checks(levels, ctxs, u)
  OBVIOUS
<1>6. e.k # "nobody"
  BY <1>1, <1>2 DEF Complete
<1> HIDE DEF u, v
<1>7. u.m \in 1 .. Len(ctxs) /\ u.c \in 1 .. Len(ctxs)
  BY <1>4, SpotType
<1>8. CASE Fail("type_error")
  BY <1>8 DEF Fail
<1>9. CASE e.k \notin {"then", "else", "body", "end", "nobody"} /\ CheckMoves(levels)
  <2>1. v = u
    BY <1>4, <1>9 DEF Lays, Opening
  <2> QED
    BY <1>2, <1>5, <1>9, <2>1 DEF CheckMoves, v
<1>10. CASE e.k \in {"then", "body"} /\ Leaving(levels)
  <2>1. Enters(ctxs, u, u.c) /\ v = Spot(u.m + 1, u.m + 1)
    BY <1>4, <1>10 DEF Lays, Opening
  <2>2. Last(levels).next # NULL /\ Checks(Append(levels, Level(Last(levels).next)), ctxs, v)
    BY <1>5, <1>7, <2>1, ChecksEnter
  <2> QED
    BY <1>2, <1>10, <2>2 DEF Leaving, CheckMoves, v
<1>11. CASE e.k = "else" /\ Leaving(Advanced)
  <2>1. Left(ctxs, u) /\ Enters(ctxs, u, p) /\ v = Spot(u.m + 1, u.m + 1)
    BY <1>4, <1>11 DEF Lays, Opening
  <2>2. u.c # Global
    BY <2>1 DEF Left
  <2> DEFINE y == Spot(u.m, p)
  <2>3. Checks(Advanced, ctxs, y)
    BY <1>4, <1>5, <2>2, ChecksAdvance
  <2>4. y.m = u.m /\ y.c = p
    BY DEF Spot
  <2>5. Enters(ctxs, y, y.c)
    BY <2>1, <2>4 DEF Enters
  <2>6. p \in 1 .. Len(ctxs)
    <3>1. u.c \in 2 .. Len(ctxs)
      BY <1>1, <1>7, <2>2 DEF Global
    <3> QED
      BY <1>1, <3>1, ParentIsThere
  <2> HIDE DEF y, p
  <2>7. Last(Advanced).next # NULL /\ Checks(Append(Advanced, Level(Last(Advanced).next)), ctxs, Spot(y.m + 1, y.m + 1))
    BY <1>7, <2>3, <2>4, <2>5, <2>6, ChecksEnter
  <2> QED
    BY <1>2, <1>11, <2>1, <2>4, <2>7 DEF Leaving, CheckMoves, v
<1>12. CASE e.k = "end" /\ CheckMoves(Advanced)
  <2>1. Left(ctxs, u) /\ v = Spot(u.m, p)
    BY <1>4, <1>12 DEF Lays
  <2>2. u.c # Global
    BY <2>1 DEF Left
  <2>3. Checks(Advanced, ctxs, v)
    BY <1>4, <1>5, <2>1, <2>2, ChecksAdvance
  <2> QED
    BY <1>2, <1>12, <2>3 DEF CheckMoves, v
<1> QED
  BY <1>6, <1>8, <1>9, <1>10, <1>11, <1>12 DEF CheckItem

\* The walk begins at the global context.
LEMMA ChecksBegin ==
  ASSUME TreeInv, here = Global
  PROVE  Checks(<< Level(here) >>, ctxs, Spot(1, Global))
<1> DEFINE ls == << Level(here) >>
<1>1. ContextsInv(ctxs) /\ Global = 1 /\ here \in 1 .. Len(ctxs)
  BY TreeFacts DEF Global
<1>2. Len(ctxs[Global].chain) = 1 /\ Global \in 1 .. Len(ctxs)
  BY <1>1, OnGlobal
<1>3. ctxs[Global].chain[1] = Global
  BY <1>1, <1>2 DEF ContextsInv, ChainInv
<1>4. NextKidIs(ctxs, Global, Global, FirstChild(Global)) /\ FirstChild(Global) \in Nat
  BY <1>2, FirstChildIs
<1>5. Level(here) \in Visits /\ Level(here).ctx = Global /\ Level(here).next = FirstChild(Global)
  BY <1>1, <1>4 DEF Level, Visits
<1>6. ls \in Seq(Visits) /\ Len(ls) = 1 /\ ls[1] = Level(here)
  BY <1>5
<1> HIDE DEF ls
<1>7. /\ \A k \in 1 .. Len(ls) : ls[k].ctx = ctxs[Global].chain[k]
      /\ \A k \in 1 .. Len(ls) - 1 : ls[k].next = ls[k + 1].ctx
  BY <1>3, <1>5, <1>6
<1>8. NextKidIs(ctxs, Global, 1, ls[Len(ls)].next)
  BY <1>1, <1>4, <1>5, <1>6
<1> QED
  BY <1>2, <1>6, <1>7, <1>8 DEF Checks, Spot, ls

CheckWalk ==
  cpos \in 1 .. Len(ast) + 1 /\ Complete /\ NoBlockInCondition =>
    verdict # "crashed" /\ \E w : Placed(ctxs, ast, w) /\ Checks(levels, ctxs, w[cpos])

LEMMA CheckWalkStep ==
  ASSUME TreeInv, StageInv, LayInv, CheckWalk, [Next]_vars
  PROVE  CheckWalk'
<1>1. CASE Parse
  <2>1. cpos' = cpos /\ ph # "parsed"
    BY <1>1, ParserIdle DEF Parse, checkerVars
  <2>2. cpos = 0
    BY <2>1 DEF StageInv
  <2> QED
    BY <2>1, <2>2 DEF CheckWalk
<1>2. CASE Check
  <2>1. ph = "parsed" /\ UNCHANGED << ctxs, here, ast, stack >>
    BY <1>2 DEF Check, parserVars
  <2>2. Complete' = Complete /\ NoBlockInCondition' = NoBlockInCondition
    BY <2>1 DEF Complete, NoBlockInCondition
  <2>3. SUFFICES ASSUME cpos' \in 1 .. Len(ast) + 1, Complete, NoBlockInCondition
                 PROVE  verdict' # "crashed" /\ \E w : Placed(ctxs, ast, w) /\ Checks(levels', ctxs, w[cpos'])
    BY <2>1, <2>2 DEF CheckWalk
  <2>4. Len(ast) \in Nat /\ cpos \in Nat /\ verdict \in Verdicts
    BY TreeFacts DEF StageInv
  <2>5. CASE CheckBegins
    <3>1. here = Global /\ \E w : Placed(ctxs, ast, w)
      BY <2>1, <2>3, PlacedWhenParsed
    <3>2. PICK w : Placed(ctxs, ast, w)
      BY <3>1
    <3>3. w[1] = Spot(1, Global)
      BY <3>2 DEF Placed, Laid
    <3>4. Checks(<< Level(here) >>, ctxs, w[1])
      BY <3>1, <3>3, ChecksBegin
    <3>5. cpos' = 1 /\ levels' = << Level(here) >> /\ verdict' = "none"
      BY <2>5 DEF CheckBegins, StageInv
    <3>6. Checks(levels', ctxs, w[cpos'])
      BY <3>4, <3>5
    <3> QED
      BY <3>2, <3>5, <3>6
  <2>6. CASE CheckEnds
    <3>1. cpos \in 1 .. Len(ast) + 1
      BY <2>4, <2>6 DEF CheckEnds
    <3> QED
      BY <2>3, <2>6, <3>1 DEF CheckEnds, CheckWalk
  <2>7. CASE Checking /\ CheckItem
    <3>1. cpos \in 1 .. Len(ast) + 1
      BY <2>4, <2>7, TreeFacts, LenProperties DEF Checking
    <3>2. PICK w : Placed(ctxs, ast, w) /\ Checks(levels, ctxs, w[cpos])
      BY <2>3, <3>1 DEF CheckWalk
    <3>3. \/ verdict' = "type_error" /\ cpos' = cpos /\ levels' = levels
          \/ verdict' = "none" /\ cpos' = cpos + 1 /\ Checks(levels', ctxs, w[cpos + 1])
      BY <2>3, <2>4, <2>7, <3>2, ChecksItem DEF Placed
    <3>4. Checks(levels', ctxs, w[cpos'])
      BY <3>2, <3>3
    <3> QED
      BY <3>2, <3>3, <3>4
  <2> QED
    BY <1>2, <2>5, <2>6, <2>7, CheckerSteps DEF Check
<1>3. CASE UNCHANGED << parserVars, checkerVars >>
  BY <1>3 DEF parserVars, checkerVars, CheckWalk, Complete, NoBlockInCondition
<1> QED
  BY <1>1, <1>2, <1>3 DEF Next, Generate, Stopped, vars

LEMMA WalkChecks ==
  ASSUME TreeInv, StageInv, CheckWalk
  PROVE  CheckedInOwnContext
<1> SUFFICES ASSUME Complete, NoBlockInCondition
             PROVE  /\ verdict # "crashed"
                    /\ Checking /\ ast[cpos].k \in Boundary => Scope = ast[cpos].at
                    /\ Checking /\ ast[cpos].k \in Boundary \ {"next"} => Last(levels).next = NULL
  BY DEF CheckedInOwnContext
<1>1. verdict # "crashed"
  <2>1. cpos = 0 \/ cpos \in 1 .. Len(ast) + 1
    BY TreeFacts DEF StageInv
  <2> QED
    BY <2>1 DEF CheckWalk, StageInv
<1>2. ASSUME Checking, ast[cpos].k \in Boundary
      PROVE  Scope = ast[cpos].at /\ (ast[cpos].k \in Boundary \ {"next"} => Last(levels).next = NULL)
  <2>1. cpos \in 1 .. Len(ast) /\ cpos \in 1 .. Len(ast) + 1 /\ ast \in Seq(AstItems) /\ ContextsInv(ctxs)
    BY <1>2, TreeFacts, LenProperties DEF Checking
  <2>2. PICK w : Placed(ctxs, ast, w) /\ Checks(levels, ctxs, w[cpos])
    BY <2>1 DEF CheckWalk
  <2> DEFINE u == w[cpos]
  <2>3. u \in Spots(ctxs) /\ Lays(ctxs, u, ast[cpos], w[cpos + 1])
    BY <2>1, <2>2, LaidLinks DEF Placed
  <2> HIDE DEF u
  <2>4. u.c \in 1 .. Len(ctxs)
    BY <2>3, SpotType
  <2>5. levels[Len(levels)].ctx = u.c /\ Last(levels) = levels[Len(levels)] /\ NextKidIs(ctxs, u.c, u.m, Last(levels).next)
    BY <2>2, <2>4, ChecksTop DEF u
  <2>6. Scope = ast[cpos].at
    BY <1>2, <2>3, <2>5 DEF Scope, Lays
  <2>7. ASSUME ast[cpos].k \in {"else", "end"} PROVE Last(levels).next = NULL
    <3>1. Left(ctxs, u)
      BY <2>3, <2>7 DEF Lays
    <3> QED
      BY <2>1, <2>3, <2>5, <3>1, NextLeft
  <2> QED
    BY <2>6, <2>7 DEF Boundary
<1> QED
  BY <1>1, <1>2

\* In programs of every size, however conditions and lambdas are nested: the
\* type checker, which only knows the order in which the contexts were created,
\* checks every statement list in the context it was parsed in and finds as many
\* contexts as there are blocks, unless a block stands in a condition or has no
\* body (parser.c and type_check.c).
THEOREM CompilerChecks == Spec => []CheckedInOwnContext
<1> DEFINE Inv == TreeInv /\ StageInv /\ LayInv /\ CheckWalk
<1>1. Init => Inv
  <2> SUFFICES ASSUME Init PROVE Inv
    OBVIOUS
  <2>1. LayInv
    BY LayInit DEF Init
  <2>2. CheckWalk
    BY DEF Init, CheckerInit, CheckWalk
  <2> QED
    BY <2>1, <2>2, TreeInvInit
<1>2. Inv /\ [Next]_vars => Inv'
  <2> SUFFICES ASSUME Inv, [Next]_vars PROVE Inv'
    OBVIOUS
  <2>1. TreeInv' /\ StageInv'
    BY TreeStageStep
  <2>2. LayInv'
    BY LayStep
  <2>3. CheckWalk'
    BY CheckWalkStep
  <2> QED
    BY <2>1, <2>2, <2>3
<1>3. Inv => CheckedInOwnContext
  BY WalkChecks
<1> QED
  BY <1>1, <1>2, <1>3, PTL DEF Spec

(***************************************************************************)
(* The levels of the code generator are the contexts around the spot it    *)
(* has reached; each holds the child that comes behind the one that was    *)
(* entered.                                                                *)
(***************************************************************************)
Gens(ls, t, u) ==
  /\ Len(ls) = Len(t[u.c].chain)
  /\ \A k \in 1 .. Len(ls) : ls[k].ctx = t[u.c].chain[k]
  /\ \A k \in 1 .. Len(ls) - 1 : NextKidIs(t, ls[k].ctx, ls[k + 1].ctx, ls[k].next)
  /\ NextKidIs(t, u.c, u.m, ls[Len(ls)].next)

\* The level on top.
LEMMA GensTop ==
  ASSUME TreeInv, NEW u, u.c \in 1 .. Len(ctxs), NEW ls, Gens(ls, ctxs, u)
  PROVE  Len(ls) \in Nat \ {0} /\ ls[Len(ls)].ctx = u.c /\ NextKidIs(ctxs, u.c, u.m, ls[Len(ls)].next)
<1>1. ContextsInv(ctxs)
  BY TreeFacts
<1> DEFINE q == ctxs[u.c].chain
<1>2. Len(q) > 0 /\ q[Len(q)] = u.c /\ Len(q) \in Nat
  BY <1>1, ChainType DEF ContextsInv, ChainInv
<1>3. Len(ls) = Len(q) /\ \A k \in 1 .. Len(ls) : ls[k].ctx = q[k]
  BY DEF Gens
<1> HIDE DEF q
<1>4. Len(ls) \in Nat \ {0} /\ Len(ls) \in 1 .. Len(ls)
  BY <1>2, <1>3
<1>5. ls[Len(ls)].ctx = u.c
  BY <1>2, <1>3, <1>4
<1> QED
  BY <1>4, <1>5 DEF Gens

LEMMA AppendAny ==
  ASSUME NEW S, NEW s \in Seq(S), NEW e
  PROVE  /\ Len(Append(s, e)) = Len(s) + 1 /\ Append(s, e)[Len(s) + 1] = e
         /\ \A k \in 1 .. Len(s) : Append(s, e)[k] = s[k]
<1> DEFINE T == S \cup {e}
<1>1. s \in Seq(T) /\ e \in T
  <2>1. Len(s) \in Nat /\ s = [k \in 1 .. Len(s) |-> s[k]] /\ \A k \in 1 .. Len(s) : s[k] \in S
    BY LenProperties, ElementOfSeq
  <2> QED
    BY <2>1, IsASeq
<1> HIDE DEF T
<1> QED
  BY <1>1, AppendProperties

\* What entering the next child context leaves.
LEMMA BlockEntered ==
  ASSUME NEW C, NEW ls \in LevelsOf(C), Len(ls) # 0, ls[Len(ls)].next # NULL, NEW labels, NEW fn
  PROVE  LET new == EnterBlock(ls, labels, fn)
             n   == Len(ls)
         IN  /\ Len(new) = n + 1 /\ n \in Nat \ {0}
             /\ new[n + 1].ctx = ls[n].next /\ new[n + 1].next = FirstChild(ls[n].next)
             /\ new[n].ctx = ls[n].ctx /\ new[n].next = NextChild(ls[n].next)
             /\ \A k \in 1 .. n - 1 : new[k] = ls[k]
<1> DEFINE Rec == [ctx : C, next : C, target : Nat, labels : Seq(Marks), fn : BOOLEAN]
           n   == Len(ls)
           x   == ls[n].next
           y   == [ls[n] EXCEPT !.next = NextChild(x)]
           up  == [ls EXCEPT ![n] = y]
           top == GenLevel(x, FirstChild(x), labels, fn)
<1>1. ls \in Seq(Rec)
  BY DEF LevelsOf
<1>2. n \in Nat \ {0} /\ n \in 1 .. n
  BY <1>1, LenProperties
<1>3. ls[n] \in Rec
  BY <1>1, <1>2, ElementOfSeq
<1>4. y.next = NextChild(x) /\ y.ctx = ls[n].ctx
  BY <1>3
<1>5. EnterBlock(ls, labels, fn) = Append(up, top)
  BY DEF EnterBlock
<1>6. top.ctx = x /\ top.next = FirstChild(x)
  BY DEF GenLevel
<1> HIDE DEF Rec, x, y, top
<1> DEFINE S == Rec \cup {y}
<1>7. ls \in Seq(S)
  <2>1. ls = [k \in 1 .. n |-> ls[k]] /\ \A k \in 1 .. n : ls[k] \in Rec
    BY <1>1, LenProperties, ElementOfSeq
  <2> QED
    BY <1>2, <2>1, IsASeq
<1>8. y \in S
  OBVIOUS
<1> HIDE DEF S
<1>9. up \in Seq(S) /\ Len(up) = n /\ up[n] = y /\ \A k \in 1 .. n : k # n => up[k] = ls[k]
  BY <1>2, <1>7, <1>8, ExceptSeq
<1> HIDE DEF up
<1> DEFINE new == Append(up, top)
<1>10. Len(new) = n + 1 /\ new[n + 1] = top /\ \A k \in 1 .. n : new[k] = up[k]
  BY <1>9, AppendAny
<1> HIDE DEF new
<1>11. new[n] = y
  BY <1>2, <1>9, <1>10
<1>12. \A k \in 1 .. n - 1 : new[k] = ls[k]
  <2>1. \A k \in 1 .. n - 1 : k \in 1 .. n /\ k # n
    BY <1>2
  <2> QED
    BY <1>9, <1>10, <2>1
<1> QED
  BY <1>2, <1>4, <1>5, <1>6, <1>10, <1>11, <1>12 DEF new, x

LEMMA GensEnter ==
  ASSUME TreeInv, NEW u, u.m \in 1 .. Len(ctxs), u.c \in 1 .. Len(ctxs),
         NEW C, NEW ls \in LevelsOf(C), Gens(ls, ctxs, u), Enters(ctxs, u, u.c), NEW labels, NEW fn
  PROVE  Gens(EnterBlock(ls, labels, fn), ctxs, Spot(u.m + 1, u.m + 1))
<1> DEFINE n == u.m + 1  l == Len(ls)  x == ls[l].next  new == EnterBlock(ls, labels, fn)
<1>1. ContextsInv(ctxs) /\ Len(ctxs) \in Nat
  BY TreeFacts
<1>2. l \in Nat \ {0} /\ ls[l].ctx = u.c /\ NextKidIs(ctxs, u.c, u.m, x)
  BY GensTop
<1>3. x # NULL /\ x = n
  BY <1>1, <1>2, NextEnters
<1>4. n \in 2 .. Len(ctxs) /\ n \in 1 .. Len(ctxs) /\ n \in Nat /\ ParentIn(ctxs, n) = u.c
  <2>1. n \in 1 .. Len(ctxs) /\ ParentIn(ctxs, n) = u.c
    BY DEF Enters
  <2> QED
    BY <1>1, <2>1
<1>5. NextKidIs(ctxs, n, n, FirstChild(n)) /\ NextKidIs(ctxs, u.c, n, NextChild(n))
  <2>1. NextKidIs(ctxs, ParentIn(ctxs, n), n, NextChild(n))
    BY <1>4, NextChildIs
  <2> QED
    BY <1>4, <2>1, FirstChildIs
<1>6. /\ Len(new) = l + 1 /\ new[l + 1].ctx = x /\ new[l + 1].next = FirstChild(x)
      /\ new[l].ctx = ls[l].ctx /\ new[l].next = NextChild(x)
      /\ \A k \in 1 .. l - 1 : new[k] = ls[k]
  BY <1>2, <1>3, BlockEntered
<1> HIDE DEF n
<1> DEFINE q == ctxs[n].chain  r == ctxs[u.c].chain
<1>7. /\ l = Len(r)
      /\ \A k \in 1 .. l : ls[k].ctx = r[k]
      /\ \A k \in 1 .. l - 1 : NextKidIs(ctxs, ls[k].ctx, ls[k + 1].ctx, ls[k].next)
  BY DEF Gens
<1>8. Len(q) = Len(r) + 1 /\ q[Len(r) + 1] = n /\ \A k \in 1 .. Len(r) : q[k] = r[k]
  BY <1>1, <1>4, ChainOfKid, SMTT(30)
<1> HIDE DEF l, x, new, q, r
<1>9. Len(new) = Len(q)
  BY <1>6, <1>7, <1>8
<1>10. \A k \in 1 .. l : new[k].ctx = ls[k].ctx
  <2>1. \A k \in 1 .. l : k = l \/ k \in 1 .. l - 1
    BY <1>2
  <2> QED
    BY <1>6, <2>1
<1>11. ASSUME NEW k \in 1 .. Len(new) PROVE new[k].ctx = q[k]
  <2>1. CASE k \in 1 .. l
    BY <1>7, <1>8, <1>10, <2>1
  <2>2. CASE k = l + 1
    BY <1>3, <1>6, <1>7, <1>8, <2>2
  <2> QED
    BY <1>2, <1>6, <2>1, <2>2
<1>12. ASSUME NEW k \in 1 .. Len(new) - 1 PROVE NextKidIs(ctxs, new[k].ctx, new[k + 1].ctx, new[k].next)
  <2>1. CASE k \in 1 .. l - 1
    <3>1. k \in 1 .. l /\ k + 1 \in 1 .. l
      BY <1>2, <2>1
    <3>2. new[k].ctx = ls[k].ctx /\ new[k + 1].ctx = ls[k + 1].ctx /\ new[k].next = ls[k].next
      BY <1>6, <1>10, <2>1, <3>1
    <3> QED
      BY <1>7, <2>1, <3>2
  <2>2. CASE k = l
    BY <1>2, <1>3, <1>5, <1>6, <2>2
  <2> QED
    BY <1>2, <1>6, <2>1, <2>2
<1>13. new[Len(new)].next = FirstChild(n)
  BY <1>3, <1>6
<1>14. Gens(new, ctxs, Spot(n, n))
  BY <1>5, <1>9, <1>11, <1>12, <1>13 DEF Gens, Spot, q
<1> QED
  BY <1>14 DEF new, n

\* Leaving a block.
LEMMA GensBelow ==
  ASSUME TreeInv, NEW u \in Spots(ctxs), u.c # Global, NEW C, glevels \in LevelsOf(C), Gens(glevels, ctxs, u)
  PROVE  Below \in LevelsOf(C) /\ Gens(Below, ctxs, Spot(u.m, ParentIn(ctxs, u.c)))
<1> DEFINE Rec == [ctx : C, next : C, target : Nat, labels : Seq(Marks), fn : BOOLEAN]
           p == ParentIn(ctxs, u.c)  q == ctxs[u.c].chain  r == ctxs[p].chain  n == Len(glevels) - 1
<1>1. ContextsInv(ctxs) /\ Len(ctxs) \in Nat
  BY TreeFacts
<1>2. u.c \in 2 .. Len(ctxs) /\ u.c \in 1 .. Len(ctxs)
  BY <1>1, SpotType DEF Global
<1>3. Len(r) \in Nat \ {0} /\ Len(q) = Len(r) + 1 /\ (\A k \in 1 .. Len(r) : q[k] = r[k])
  BY <1>1, <1>2, ChainOfKid, SMTT(30)
<1>4. /\ Len(glevels) = Len(q)
      /\ \A k \in 1 .. Len(glevels) : glevels[k].ctx = q[k]
      /\ \A k \in 1 .. Len(glevels) - 1 : NextKidIs(ctxs, glevels[k].ctx, glevels[k + 1].ctx, glevels[k].next)
  BY DEF Gens
<1>5. glevels[Len(glevels)].ctx = u.c
  BY <1>2, GensTop
<1>6. glevels \in Seq(Rec)
  BY DEF LevelsOf
<1> HIDE DEF Rec
<1> HIDE DEF q, r
<1>7. n = Len(r) /\ n \in Nat \ {0} /\ Len(glevels) = n + 1 /\ n \in 1 .. n
  BY <1>3, <1>4
<1>8. Below = SubSeq(glevels, 1, n)
  BY DEF Below
<1> HIDE DEF n
<1>9. Below \in Seq(Rec) /\ Len(Below) = n /\ \A k \in 1 .. n : Below[k] = glevels[k]
  BY <1>6, <1>7, <1>8
<1>10. Below \in LevelsOf(C)
  BY <1>9 DEF LevelsOf, Rec
<1>11. \A k \in 1 .. n : k \in 1 .. n + 1
  BY <1>7
<1>12. \A k \in 1 .. n : Below[k].ctx = r[k]
  BY <1>3, <1>4, <1>7, <1>9, <1>11
<1>13. ASSUME NEW k \in 1 .. n - 1 PROVE NextKidIs(ctxs, Below[k].ctx, Below[k + 1].ctx, Below[k].next)
  <2>1. k \in 1 .. n /\ k + 1 \in 1 .. n /\ k \in 1 .. n + 1 - 1
    BY <1>7
  <2> QED
    BY <1>4, <1>7, <1>9, <2>1
<1>14. NextKidIs(ctxs, p, u.m, Below[n].next)
  <2>1. n \in 1 .. Len(glevels) - 1
    BY <1>7
  <2>2. NextKidIs(ctxs, glevels[n].ctx, u.c, glevels[n].next)
    BY <1>4, <1>5, <1>7, <2>1
  <2>3. glevels[n].ctx = p
    <3>1. r[n] = p
      <4>1. p \in 1 .. Len(ctxs)
        BY <1>1, <1>2, ParentIsThere
      <4> HIDE DEF p
      <4>2. r[Len(r)] = p
        BY <1>1, <4>1 DEF ContextsInv, ChainInv, r
      <4> QED
        BY <1>7, <4>2
    <3> QED
      BY <1>7, <1>9, <1>12, <3>1
  <2> HIDE DEF p
  <2>4. NextKidIs(ctxs, p, u.m, glevels[n].next)
    BY <1>1, <2>2, <2>3, NextOut DEF p
  <2> QED
    BY <1>7, <1>9, <2>4
<1>15. Gens(Below, ctxs, Spot(u.m, p))
  BY <1>7, <1>9, <1>12, <1>13, <1>14 DEF Gens, Spot, r
<1> QED
  BY <1>10, <1>15

LEMMA GensItem ==
  ASSUME TreeInv, Complete, NEW w, Laid(ctxs, ast, w), gpos \in 1 .. Len(ast), GenItem,
         NEW C, glevels \in LevelsOf(C), Gens(glevels, ctxs, w[gpos])
  PROVE  Gens(glevels', ctxs, w[gpos + 1])
<1> DEFINE u == w[gpos]  v == w[gpos + 1]  e == ast[gpos]  p == ParentIn(ctxs, u.c)
<1>1. /\ ast \in Seq(AstItems) /\ Len(ast) \in Nat /\ ContextsInv(ctxs) /\ Len(ctxs) \in Nat
      /\ DOMAIN ast = 1 .. Len(ast)
  BY TreeFacts, LenProperties
<1>2. u \in Spots(ctxs) /\ Lays(ctxs, u, e, v)
  <2>1. w \in [1 .. Len(ast) + 1 -> Spots(ctxs)] /\ \A i \in 1 .. Len(ast) : Lays(ctxs, w[i], ast[i], w[i + 1])
    BY <1>1, LaidLinks
  <2>2. gpos \in 1 .. Len(ast) + 1
    BY <1>1
  <2> QED
    BY <2>1, <2>2
<1>3. Gens(glevels, ctxs, u)
  OBVIOUS
<1> HIDE DEF u, v
<1>4. u.m \in 1 .. Len(ctxs) /\ u.c \in 1 .. Len(ctxs)
  BY <1>2, SpotType
<1>5. Len(glevels) \in Nat \ {0}
  BY <1>3, <1>4, GensTop
<1>6. CASE /\ e.k \notin {"then", "else", "body", "end", "nobody"}
           /\ glevels' = glevels \/ \E t \in {gpos, NoTarget} : glevels' = [glevels EXCEPT ![Len(glevels)].target = t]
  <2>1. v = u
    BY <1>2, <1>6 DEF Lays, Opening
  <2>2. CASE glevels' = glevels
    BY <1>3, <2>1, <2>2 DEF v
  <2>3. CASE \E t \in {gpos, NoTarget} : glevels' = [glevels EXCEPT ![Len(glevels)].target = t]
    <3>1. PICK t : glevels' = [glevels EXCEPT ![Len(glevels)].target = t]
      BY <2>3
    <3> DEFINE n == Len(glevels)  ls == [glevels EXCEPT ![n].target = t]
    <3>2. /\ glevels = [k \in 1 .. n |-> glevels[k]]
          /\ \A k \in 1 .. n : glevels[k] \in [ctx : C, next : C, target : Nat, labels : Seq(Marks), fn : BOOLEAN]
      BY LenProperties, LevelFields DEF LevelsOf
    <3> HIDE DEF n
    <3>3. ls = [k \in 1 .. n |-> IF k = n THEN [glevels[k] EXCEPT !.target = t] ELSE glevels[k]]
      BY <3>2
    <3> HIDE DEF ls
    <3>4. \A k \in 1 .. n : ls[k].ctx = glevels[k].ctx /\ ls[k].next = glevels[k].next
      BY <3>2, <3>3
    <3>5. Len(ls) = n
      BY <1>5, <3>3, LenProperties DEF n
    <3>6. n \in 1 .. n /\ \A k \in 1 .. n - 1 : k \in 1 .. n /\ k + 1 \in 1 .. n
      BY <1>5 DEF n
    <3>7. Gens(ls, ctxs, u)
      BY <1>3, <3>4, <3>5, <3>6 DEF Gens, n
    <3> QED
      BY <2>1, <3>1, <3>7 DEF v, ls, n
  <2> QED
    BY <1>6, <2>2, <2>3
<1>7. CASE e.k \in {"then", "body"} /\ \E labels, fn : glevels' = EnterBlock(glevels, labels, fn)
  <2>1. Enters(ctxs, u, u.c) /\ v = Spot(u.m + 1, u.m + 1)
    BY <1>2, <1>7 DEF Lays, Opening
  <2>2. PICK labels, fn : glevels' = EnterBlock(glevels, labels, fn)
    BY <1>7
  <2>3. Gens(EnterBlock(glevels, labels, fn), ctxs, v)
    BY <1>3, <1>4, <2>1, GensEnter
  <2> QED
    BY <2>2, <2>3 DEF v
<1>8. CASE e.k = "else" /\ \E labels, fn : glevels' = EnterBlock(Below, labels, fn)
  <2>1. Left(ctxs, u) /\ Enters(ctxs, u, p) /\ v = Spot(u.m + 1, u.m + 1)
    BY <1>2, <1>8 DEF Lays, Opening
  <2>2. u.c # Global
    BY <2>1 DEF Left
  <2> DEFINE y == Spot(u.m, p)
  <2>3. Below \in LevelsOf(C) /\ Gens(Below, ctxs, y)
    BY <1>2, <1>3, <2>2, GensBelow
  <2>4. y.m = u.m /\ y.c = p
    BY DEF Spot
  <2>5. Enters(ctxs, y, y.c)
    BY <2>1, <2>4 DEF Enters
  <2>6. p \in 1 .. Len(ctxs)
    <3>1. u.c \in 2 .. Len(ctxs)
      BY <1>1, <1>4, <2>2 DEF Global
    <3> QED
      BY <1>1, <3>1, ParentIsThere
  <2> HIDE DEF y, p
  <2>7. PICK labels, fn : glevels' = EnterBlock(Below, labels, fn)
    BY <1>8
  <2>8. Gens(EnterBlock(Below, labels, fn), ctxs, Spot(y.m + 1, y.m + 1))
    BY <1>4, <2>3, <2>4, <2>5, <2>6, GensEnter
  <2> QED
    BY <2>1, <2>4, <2>7, <2>8 DEF v
<1>9. CASE e.k = "end" /\ glevels' = Below
  <2>1. Left(ctxs, u) /\ v = Spot(u.m, p)
    BY <1>2, <1>9 DEF Lays
  <2>2. u.c # Global
    BY <2>1 DEF Left
  <2>3. Gens(Below, ctxs, v)
    BY <1>2, <1>3, <2>1, <2>2, GensBelow
  <2> QED
    BY <1>9, <2>3 DEF v
<1> QED
  BY <1>6, <1>7, <1>8, <1>9 DEF GenItem

\* The walk begins at the global context.
LEMMA GensBegin ==
  ASSUME TreeInv, here = Global
  PROVE  Gens(<< GenLevel(here, FirstChild(here), << >>, FALSE) >>, ctxs, Spot(1, Global))
<1> DEFINE e == GenLevel(here, FirstChild(here), << >>, FALSE)  ls == << e >>
<1>1. ContextsInv(ctxs) /\ Global = 1
  BY TreeFacts DEF Global
<1>2. Len(ctxs[Global].chain) = 1 /\ Global \in 1 .. Len(ctxs)
  BY <1>1, OnGlobal
<1>3. ctxs[Global].chain[1] = Global
  BY <1>1, <1>2 DEF ContextsInv, ChainInv
<1>4. NextKidIs(ctxs, Global, Global, FirstChild(Global))
  BY <1>2, FirstChildIs
<1>5. e.ctx = Global /\ e.next = FirstChild(Global)
  BY DEF GenLevel
<1> HIDE DEF e
<1>6. Len(ls) = 1 /\ ls[1] = e
  OBVIOUS
<1> HIDE DEF ls
<1>7. /\ \A k \in 1 .. Len(ls) : ls[k].ctx = ctxs[Global].chain[k]
      /\ \A k \in 1 .. Len(ls) - 1 : NextKidIs(ctxs, ls[k].ctx, ls[k + 1].ctx, ls[k].next)
  <2>1. \A k \in 1 .. Len(ls) : k = 1
    BY <1>6
  <2>2. 1 .. Len(ls) - 1 = {}
    BY <1>6
  <2> QED
    BY <1>3, <1>5, <1>6, <2>1, <2>2
<1>8. NextKidIs(ctxs, Global, 1, ls[Len(ls)].next)
  BY <1>1, <1>4, <1>5, <1>6
<1>9. Gens(ls, ctxs, Spot(1, Global))
  BY <1>2, <1>6, <1>7, <1>8 DEF Gens, Spot
<1> QED
  BY <1>9 DEF ls, e

GenWalk ==
  gpos \in 1 .. Len(ast) + 1 /\ Complete /\ NoBlockInCondition =>
    \E w : Placed(ctxs, ast, w) /\ Gens(glevels, ctxs, w[gpos])

LEMMA GenWalkStep ==
  ASSUME TreeInv, StageInv, LayInv, RingInv, GenWalk, [Next]_vars
  PROVE  GenWalk'
<1>1. CASE Parse
  <2>1. gpos' = gpos /\ ph # "parsed"
    BY <1>1, ParserIdle DEF Parse, genVars
  <2>2. gpos = 0
    BY <2>1 DEF StageInv
  <2> QED
    BY <2>1, <2>2 DEF GenWalk
<1>2. CASE Generate
  <2>1. ph = "parsed" /\ UNCHANGED << ctxs, here, ast, stack >>
    BY <1>2 DEF Generate, parserVars, StageInv
  <2>2. Complete' = Complete /\ NoBlockInCondition' = NoBlockInCondition
    BY <2>1 DEF Complete, NoBlockInCondition
  <2>3. SUFFICES ASSUME gpos' \in 1 .. Len(ast) + 1, Complete, NoBlockInCondition
                 PROVE  \E w : Placed(ctxs, ast, w) /\ Gens(glevels', ctxs, w[gpos'])
    BY <2>1, <2>2 DEF GenWalk
  <2>4. Len(ast) \in Nat /\ gpos \in Nat /\ DOMAIN ast = 1 .. Len(ast)
    BY TreeFacts, LenProperties DEF StageInv
  <2>5. CASE GenBegins
    <3>1. here = Global /\ \E w : Placed(ctxs, ast, w)
      BY <2>1, <2>3, PlacedWhenParsed
    <3>2. PICK w : Placed(ctxs, ast, w)
      BY <3>1
    <3>3. w[1] = Spot(1, Global)
      BY <3>2 DEF Placed, Laid
    <3> DEFINE ls == << GenLevel(here, FirstChild(here), << >>, FALSE) >>
    <3>4. Gens(ls, ctxs, w[1])
      BY <3>1, <3>3, GensBegin
    <3>5. gpos' = 1 /\ glevels' = ls
      BY <2>5 DEF GenBegins
    <3> HIDE DEF ls
    <3>6. Gens(glevels', ctxs, w[gpos'])
      BY <3>4, <3>5
    <3> QED
      BY <3>2, <3>6
  <2>6. CASE GenEnds
    BY <2>3, <2>4, <2>6 DEF GenEnds
  <2>7. CASE GenStops
    BY <2>3, <2>7 DEF GenStops, GenWalk
  <2>8. CASE GenMoves
    <3>1. gpos \in 1 .. Len(ast) /\ gpos \in 1 .. Len(ast) + 1 /\ gpos' = gpos + 1 /\ GenItem
      BY <2>4, <2>8 DEF GenMoves
    <3>2. PICK w : Placed(ctxs, ast, w) /\ Gens(glevels, ctxs, w[gpos])
      BY <2>3, <3>1 DEF GenWalk
    <3>3. PICK C : glevels \in LevelsOf(C)
      BY DEF RingInv
    <3>4. Gens(glevels', ctxs, w[gpos + 1])
      BY <2>3, <3>1, <3>2, <3>3, GensItem DEF Placed
    <3> QED
      BY <3>1, <3>2, <3>4
  <2> QED
    BY <1>2, <2>5, <2>6, <2>7, <2>8, GenSteps DEF Generate
<1>3. CASE UNCHANGED << parserVars, genVars >>
  BY <1>3 DEF parserVars, genVars, GenWalk, Complete, NoBlockInCondition
<1> QED
  BY <1>1, <1>2, <1>3 DEF Next, Check, Stopped, vars

LEMMA WalkGenerates ==
  ASSUME TreeInv, GenWalk
  PROVE  GeneratedInOwnContext
<1> SUFFICES ASSUME Complete, NoBlockInCondition, gpos \in DOMAIN ast, ast[gpos].k \in Boundary
             PROVE  Here.ctx = ast[gpos].at /\ (ast[gpos].k \in Boundary \ {"next"} => Here.next = NULL)
  BY DEF GeneratedInOwnContext
<1>1. gpos \in 1 .. Len(ast) /\ gpos \in 1 .. Len(ast) + 1 /\ ast \in Seq(AstItems) /\ ContextsInv(ctxs)
  BY TreeFacts, LenProperties
<1>2. PICK w : Placed(ctxs, ast, w) /\ Gens(glevels, ctxs, w[gpos])
  BY <1>1 DEF GenWalk
<1> DEFINE u == w[gpos]
<1>3. u \in Spots(ctxs) /\ Lays(ctxs, u, ast[gpos], w[gpos + 1])
  BY <1>1, <1>2, LaidLinks DEF Placed
<1> HIDE DEF u
<1>4. u.c \in 1 .. Len(ctxs)
  BY <1>3, SpotType
<1>5. Here.ctx = u.c /\ NextKidIs(ctxs, u.c, u.m, Here.next)
  BY <1>2, <1>4, GensTop DEF Here, u
<1>6. Here.ctx = ast[gpos].at
  BY <1>3, <1>5 DEF Lays, Boundary
<1>7. ASSUME ast[gpos].k \in {"else", "end"} PROVE Here.next = NULL
  <2>1. Left(ctxs, u)
    BY <1>3, <1>7 DEF Lays
  <2> QED
    BY <1>1, <1>3, <1>5, <2>1, NextLeft
<1> QED
  BY <1>6, <1>7 DEF Boundary

\* In programs of every size: the code generator, which takes the contexts in
\* the order in which they were created as well, generates every statement list
\* in the context it was parsed in, and no context is left over when a block
\* ends, unless a block stands in a condition or has no body (parser.c and
\* code_gen.c).
THEOREM CompilerGenerates == Spec => []GeneratedInOwnContext
<1> DEFINE Inv == TreeInv /\ StageInv /\ LayInv /\ LabelInv /\ GenWalk
<1>1. Init => Inv
  <2> SUFFICES ASSUME Init PROVE Inv
    OBVIOUS
  <2>1. LayInv
    BY LayInit DEF Init
  <2>2. GenWalk
    BY DEF Init, GenInit, GenWalk
  <2> QED
    BY <2>1, <2>2, TreeInvInit, LabelInit
<1>2. Inv /\ [Next]_vars => Inv'
  <2> SUFFICES ASSUME Inv, [Next]_vars PROVE Inv'
    OBVIOUS
  <2>1. TreeInv' /\ StageInv'
    BY TreeStageStep
  <2>2. LayInv'
    BY LayStep
  <2>3. LabelInv'
    BY LabelStep
  <2>4. GenWalk'
    BY GenWalkStep DEF LabelInv
  <2> QED
    BY <2>1, <2>2, <2>3, <2>4
<1>3. Inv => GeneratedInOwnContext
  BY WalkGenerates
<1> QED
  BY <1>1, <1>2, <1>3, PTL DEF Spec

-----------------------------------------------------------------------------
(***************************************************************************)
(* The variables of the contexts are those of the declarations of the AST, *)
(* each once; and a name that was looked up as item i had its meaning      *)
(* then: in a context around it, and in the contexts further in it was     *)
(* declared later or not at all.                                           *)
(***************************************************************************)
DeclaredAt(a, c, v) ==
  v.val.d \in 1 .. Len(a) /\ a[v.val.d].k \in {"decl", "param"} /\ a[v.val.d].x = v.id /\ a[v.val.d].at = c

Once(env) == \A b, d \in 1 .. Len(env) : env[b].id = env[d].id => b = d

Variables(t, a) ==
  \A c \in 1 .. Len(t) : Once(t[c].vars) /\ \A b \in 1 .. Len(t[c].vars) : DeclaredAt(a, c, t[c].vars[b])

EarlierIn(env, e, i) == \E b \in 1 .. Len(env) : env[b].id = e.x /\ env[b].val = e.means /\ env[b].val.d < i

LaterIn(env, e, i) == \A b \in 1 .. Len(env) : env[b].id = e.x => env[b].val.d > i

FoundOn(t, chain, e, i) ==
  \E p \in 1 .. Len(chain) : /\ EarlierIn(t[chain[p]].vars, e, i)
                             /\ \A q \in p + 1 .. Len(chain) : LaterIn(t[chain[q]].vars, e, i)

FoundAt(t, e, i) == FoundOn(t, t[e.at].chain, e, i)

UsesFound(t, a) == \A i \in 1 .. Len(a) : a[i].k \in UseKinds => FoundAt(t, a[i], i)

NamesInv == Variables(ctxs, ast) /\ UsesFound(ctxs, ast)

\* Variables are added behind the others, by declarations behind item n.
EnvGrows(old, new, n) ==
  /\ Len(old) \in Nat /\ Len(new) \in Nat /\ Len(old) <= Len(new)
  /\ \A b \in 1 .. Len(old) : new[b] = old[b]
  /\ \A b \in 1 .. Len(new) : b > Len(old) => new[b].val.d \in Nat /\ new[b].val.d > n

VarsGrow(t, y, n) ==
  \A c \in 1 .. Len(t) : y[c].chain = t[c].chain /\ EnvGrows(t[c].vars, y[c].vars, n)

LEMMA FoundGrows ==
  ASSUME NEW t, ContextsInv(t), NEW y, NEW n \in Nat, VarsGrow(t, y, n),
         NEW e, e.at \in 1 .. Len(t), NEW i \in 1 .. n, FoundAt(t, e, i)
  PROVE  FoundAt(y, e, i)
<1> DEFINE chain == t[e.at].chain
<1>1. y[e.at].chain = chain
  BY DEF VarsGrow
<1>2. \A k \in 1 .. Len(chain) : chain[k] \in 1 .. Len(t)
  BY DEF ContextsInv, ChainInv
<1>3. Len(chain) \in Nat
  BY ChainType
<1>4. FoundOn(t, chain, e, i)
  BY DEF FoundAt
<1> HIDE DEF chain
<1>5. PICK p \in 1 .. Len(chain) : /\ EarlierIn(t[chain[p]].vars, e, i)
                                   /\ \A q \in p + 1 .. Len(chain) : LaterIn(t[chain[q]].vars, e, i)
  BY <1>4 DEF FoundOn
<1>6. EarlierIn(y[chain[p]].vars, e, i)
  <2> DEFINE old == t[chain[p]].vars  new == y[chain[p]].vars
  <2>1. EnvGrows(old, new, n)
    BY <1>2, <1>5 DEF VarsGrow
  <2>2. EarlierIn(old, e, i)
    BY <1>5
  <2> HIDE DEF old, new
  <2>3. PICK b \in 1 .. Len(old) : old[b].id = e.x /\ old[b].val = e.means /\ old[b].val.d < i
    BY <2>2 DEF EarlierIn
  <2>4. b \in 1 .. Len(new) /\ new[b] = old[b]
    BY <2>1, <2>3 DEF EnvGrows
  <2>5. EarlierIn(new, e, i)
    BY <2>3, <2>4 DEF EarlierIn
  <2> QED
    BY <2>5 DEF new
<1>7. ASSUME NEW q \in p + 1 .. Len(chain) PROVE LaterIn(y[chain[q]].vars, e, i)
  <2> DEFINE old == t[chain[q]].vars  new == y[chain[q]].vars
  <2>1. q \in 1 .. Len(chain)
    BY <1>3, <1>5
  <2>2. EnvGrows(old, new, n)
    BY <1>2, <2>1 DEF VarsGrow
  <2>3. LaterIn(old, e, i)
    BY <1>5
  <2> HIDE DEF old, new
  <2>4. ASSUME NEW b \in 1 .. Len(new), new[b].id = e.x PROVE new[b].val.d > i
    <3>1. CASE b \in 1 .. Len(old)
      BY <2>2, <2>3, <2>4, <3>1 DEF EnvGrows, LaterIn
    <3>2. CASE b \notin 1 .. Len(old)
      <4>1. Len(old) \in Nat /\ Len(new) \in Nat
        BY <2>2 DEF EnvGrows
      <4>2. b > Len(old)
        BY <3>2, <4>1
      <4>3. new[b].val.d \in Nat /\ new[b].val.d > n
        BY <2>2, <4>2 DEF EnvGrows
      <4> QED
        BY <4>3
    <3> QED
      BY <3>1, <3>2
  <2>5. LaterIn(new, e, i)
    BY <2>4 DEF LaterIn
  <2> QED
    BY <2>5 DEF new
<1>8. FoundOn(y, chain, e, i)
  BY <1>5, <1>6, <1>7 DEF FoundOn
<1> QED
  BY <1>1, <1>8 DEF FoundAt

\* Items are added.
LEMMA UsesMore ==
  ASSUME NEW t, ContextsInv(t), NEW a \in Seq(AstItems), UsesFound(t, a), \A i \in 1 .. Len(a) : a[i].at \in 1 .. Len(t),
         NEW y, VarsGrow(t, y, Len(a)),
         NEW s \in Seq(AstItems), \A j \in 1 .. Len(s) : s[j].k \in UseKinds => FoundAt(y, s[j], Len(a) + j)
  PROVE  UsesFound(y, a \o s)
<1> DEFINE z == a \o s
<1>1. /\ Len(a) \in Nat /\ Len(s) \in Nat /\ Len(z) = Len(a) + Len(s)
      /\ \A i \in 1 .. Len(a) : z[i] = a[i]
      /\ \A i \in 1 .. Len(s) : z[Len(a) + i] = s[i]
  BY ConcatProperties, LenProperties
<1> HIDE DEF z
<1>2. ASSUME NEW i \in 1 .. Len(z), z[i].k \in UseKinds PROVE FoundAt(y, z[i], i)
  <2>1. CASE i \in 1 .. Len(a)
    <3>1. z[i] = a[i] /\ FoundAt(t, a[i], i)
      BY <1>1, <1>2, <2>1 DEF UsesFound
    <3>2. FoundAt(y, a[i], i)
      BY <1>1, <2>1, <3>1, FoundGrows
    <3> QED
      BY <3>1, <3>2
  <2>2. CASE i \notin 1 .. Len(a)
    <3> DEFINE j == i - Len(a)
    <3>1. j \in 1 .. Len(s) /\ Len(a) + j = i
      BY <1>1, <2>2
    <3> HIDE DEF j
    <3>2. z[i] = s[j]
      BY <1>1, <3>1
    <3> QED
      BY <1>2, <3>1, <3>2
  <2> QED
    BY <2>1, <2>2
<1>3. UsesFound(y, z)
  BY <1>2 DEF UsesFound
<1> QED
  BY <1>3 DEF z

LEMMA DeclaredMore ==
  ASSUME NEW a \in Seq(AstItems), NEW s \in Seq(AstItems), NEW c, NEW v, DeclaredAt(a, c, v)
  PROVE  DeclaredAt(a \o s, c, v)
<1> DEFINE z == a \o s
<1>1. /\ Len(a) \in Nat /\ Len(s) \in Nat /\ Len(z) = Len(a) + Len(s)
      /\ \A i \in 1 .. Len(a) : z[i] = a[i]
  BY ConcatProperties, LenProperties
<1> HIDE DEF z
<1>2. v.val.d \in 1 .. Len(z)
  BY <1>1 DEF DeclaredAt
<1>3. DeclaredAt(z, c, v)
  BY <1>1, <1>2 DEF DeclaredAt
<1> QED
  BY <1>3 DEF z

LEMMA VarsSame ==
  ASSUME NEW t, ContextsInv(t), NEW n \in Nat
  PROVE  VarsGrow(t, t, n)
<1>1. \A c \in 1 .. Len(t) : EnvGrows(t[c].vars, t[c].vars, n)
  <2> TAKE c \in 1 .. Len(t)
  <2> DEFINE env == t[c].vars
  <2>1. Len(env) \in Nat
    BY ChainType, LenProperties
  <2> HIDE DEF env
  <2>2. EnvGrows(env, env, n)
    BY <2>1 DEF EnvGrows
  <2> QED
    BY <2>2 DEF env
<1> QED
  BY <1>1 DEF VarsGrow

LEMMA VarsNew ==
  ASSUME NEW t, ContextsInv(t), NEW p \in 1 .. Len(t), NEW n \in Nat
  PROVE  /\ VarsGrow(t, NewContext(t, p), n)
         /\ \A a : Variables(t, a) => Variables(NewContext(t, p), a)
<1> DEFINE y == NewContext(t, p)
<1>1. /\ Len(t) \in Nat /\ Len(y) = Len(t) + 1
      /\ \A c \in 1 .. Len(t) : y[c].chain = t[c].chain /\ y[c].vars = t[c].vars
  BY NewContextTree, LenProperties DEF ContextsInv
<1>2. y[Len(t) + 1].vars = << >>
  BY NewContextScopes DEF EmptyEnv
<1> HIDE DEF y
<1>3. VarsGrow(t, t, n)
  BY VarsSame
<1>4. VarsGrow(t, y, n)
  BY <1>1, <1>3 DEF VarsGrow
<1>5. ASSUME NEW a, Variables(t, a) PROVE Variables(y, a)
  <2> SUFFICES ASSUME NEW c \in 1 .. Len(y)
               PROVE  Once(y[c].vars) /\ \A b \in 1 .. Len(y[c].vars) : DeclaredAt(a, c, y[c].vars[b])
    BY DEF Variables
  <2>1. CASE c \in 1 .. Len(t)
    BY <1>1, <1>5, <2>1 DEF Variables
  <2>2. CASE c \notin 1 .. Len(t)
    <3>1. c = Len(t) + 1
      BY <1>1, <2>2
    <3>2. Len(y[c].vars) = 0
      BY <1>2, <3>1
    <3>3. 1 .. Len(y[c].vars) = {}
      BY <3>2
    <3> QED
      BY <3>3 DEF Once
  <2> QED
    BY <2>1, <2>2
<1> QED
  BY <1>4, <1>5 DEF y

LEMMA VariablesMore ==
  ASSUME NEW t, NEW a \in Seq(AstItems), NEW s \in Seq(AstItems), Variables(t, a)
  PROVE  Variables(t, a \o s)
BY DeclaredMore DEF Variables

\* A declaration: its variable is added to *context.
LEMMA VarsDeclared ==
  ASSUME TreeInv, NEW x \in Names, NEW ty \in Types, ~IsBound(Vars(here), x), NewMeaning(ty) \in Meanings,
         ctxs' = BoundThere(ctxs, here, x, NewMeaning(ty))
  PROVE  /\ VarsGrow(ctxs, ctxs', Len(ast)) /\ Len(ctxs') = Len(ctxs)
         /\ \A c \in 1 .. Len(ctxs) : c # here => ctxs'[c].vars = ctxs[c].vars
         /\ Len(ctxs[here].vars) \in Nat
         /\ Len(ctxs'[here].vars) = Len(ctxs[here].vars) + 1
         /\ ctxs'[here].vars[Len(ctxs[here].vars) + 1] = Binding(x, NewMeaning(ty))
         /\ \A b \in 1 .. Len(ctxs[here].vars) : ctxs'[here].vars[b] = ctxs[here].vars[b] /\ ctxs[here].vars[b].id # x
<1> DEFINE m == NewMeaning(ty)  y == ctxs'
<1>1. /\ Len(ctxs) \in Nat /\ here \in 1 .. Len(ctxs) /\ ContextsInv(ctxs) /\ KidsInv(ctxs) /\ Len(ast) \in Nat
  BY TreeFacts
<1>2. m \in Meanings /\ m.d = Len(ast) + 1
  BY DEF NewMeaning, Meaning
<1>3. ~IsBound(ctxs[here].vars, x)
  BY DEF Vars
<1>9. y = BoundThere(ctxs, here, x, m)
  OBVIOUS
<1> HIDE DEF m, y
<1>4. /\ Len(y) = Len(ctxs) /\ \A d \in 1 .. Len(ctxs) : y[d].chain = ctxs[d].chain
      /\ Len(ctxs[here].vars) \in Nat /\ Len(y[here].vars) = Len(ctxs[here].vars) + 1
      /\ \A b \in 1 .. Len(ctxs[here].vars) : y[here].vars[b] = ctxs[here].vars[b]
      /\ y[here].vars[Len(ctxs[here].vars) + 1] = Binding(x, m)
      /\ \A d \in 1 .. Len(ctxs) : d # here => y[d].vars = ctxs[d].vars
  <2> DEFINE z == BoundThere(ctxs, here, x, m)
  <2>1. /\ Len(z) = Len(ctxs) /\ \A d \in 1 .. Len(ctxs) : z[d].chain = ctxs[d].chain
        /\ Len(ctxs[here].vars) \in Nat /\ Len(z[here].vars) = Len(ctxs[here].vars) + 1
        /\ \A b \in 1 .. Len(ctxs[here].vars) : z[here].vars[b] = ctxs[here].vars[b]
        /\ z[here].vars[Len(ctxs[here].vars) + 1] = Binding(x, m)
        /\ \A d \in 1 .. Len(ctxs) : d # here => z[d].vars = ctxs[d].vars
    BY <1>1, <1>2, <1>3, BoundBindings
  <2>2. y = z
    BY <1>9
  <2> HIDE DEF z
  <2> QED
    BY <2>1, <2>2
<1>5. Binding(x, m).val.d = Len(ast) + 1
  BY <1>2 DEF Binding
<1>6. ASSUME NEW c \in 1 .. Len(ctxs) PROVE EnvGrows(ctxs[c].vars, y[c].vars, Len(ast))
  <2>1. CASE c = here
    <3> DEFINE old == ctxs[here].vars  new == y[here].vars
    <3>1. /\ Len(old) \in Nat /\ Len(new) = Len(old) + 1 /\ new[Len(old) + 1].val.d = Len(ast) + 1
          /\ \A b \in 1 .. Len(old) : new[b] = old[b]
      BY <1>4, <1>5
    <3> HIDE DEF old, new
    <3>2. \A b \in 1 .. Len(new) : b > Len(old) => b = Len(old) + 1
      BY <3>1
    <3>3. EnvGrows(old, new, Len(ast))
      BY <1>1, <3>1, <3>2 DEF EnvGrows
    <3> QED
      BY <2>1, <3>3 DEF old, new
  <2>2. CASE c # here
    <3>1. y[c].vars = ctxs[c].vars
      BY <1>4, <2>2
    <3>2. EnvGrows(ctxs[c].vars, ctxs[c].vars, Len(ast))
      BY <1>1, VarsSame DEF VarsGrow
    <3> QED
      BY <3>1, <3>2
  <2> QED
    BY <2>1, <2>2
<1>7. VarsGrow(ctxs, y, Len(ast))
  BY <1>4, <1>6 DEF VarsGrow
<1>8. \A b \in 1 .. Len(ctxs[here].vars) : ctxs[here].vars[b].id # x
  <2>1. DOMAIN ctxs[here].vars = 1 .. Len(ctxs[here].vars)
    BY <1>1, ChainType, LenProperties
  <2> QED
    BY <1>3, <2>1 DEF IsBound, Bound
<1> QED
  BY <1>4, <1>7, <1>8 DEF y, m

LEMMA NamesDeclared ==
  ASSUME TreeInv, NamesInv, NEW s \in Seq(AstItems), ast' = ast \o s, QuietItems(s), NEW x \in Names, NEW ty \in Types,
         ctxs' = BoundThere(ctxs, here, x, NewMeaning(ty)), OneDeclared(s, x, ty)
  PROVE  NamesInv'
<1> DEFINE m == NewMeaning(ty)  old == ctxs[here].vars  new == ctxs'[here].vars  n == Len(ast) + 1
<1>1. /\ Len(ctxs) \in Nat /\ here \in 1 .. Len(ctxs) /\ ContextsInv(ctxs) /\ ast \in Seq(AstItems)
      /\ Len(ast) \in Nat /\ \A i \in 1 .. Len(ast) : ast[i].at \in 1 .. Len(ctxs)
  BY TreeFacts
<1>2. ~IsBound(Vars(here), x) /\ m \in Meanings /\ m.d = n
  BY DEF OneDeclared, NewMeaning, Meaning
<1>3. /\ VarsGrow(ctxs, ctxs', Len(ast)) /\ Len(ctxs') = Len(ctxs)
      /\ \A c \in 1 .. Len(ctxs) : c # here => ctxs'[c].vars = ctxs[c].vars
      /\ Len(old) \in Nat
      /\ Len(new) = Len(old) + 1
      /\ new[Len(old) + 1] = Binding(x, m)
      /\ \A b \in 1 .. Len(old) : new[b] = old[b] /\ old[b].id # x
  <2>1. ~IsBound(Vars(here), x) /\ NewMeaning(ty) \in Meanings
    BY <1>2
  <2> HIDE DEF m, n
  <2> QED
    BY <2>1, VarsDeclared DEF m
<1>4. /\ Len(s) \in Nat /\ Len(s) > 0 /\ s[1].k \in {"decl", "param"}
      /\ \A j \in 1 .. Len(s) : /\ j > 1 => s[j].k \in {"next", "set"}
                                /\ s[j].k # "next" => s[j].x = x /\ s[j].means = m
      /\ \A j \in 1 .. Len(s) : s[j].k # "ret" => s[j].at = here
  BY LenProperties DEF OneDeclared, QuietItems
<1> HIDE DEF m, old, new
<1>5. Binding(x, m).id = x /\ Binding(x, m).val = m
  BY DEF Binding
<1>6. DeclaredAt(ast', here, Binding(x, m))
  <2>1. n \in 1 .. Len(ast') /\ ast'[n] = s[1] /\ 1 \in 1 .. Len(s)
    BY <1>1, <1>4, AstStays
  <2>2. ast'[n].k \in {"decl", "param"} /\ ast'[n].x = x /\ ast'[n].at = here
    BY <1>4, <2>1
  <2> HIDE DEF n
  <2> QED
    BY <1>2, <1>5, <2>1, <2>2 DEF DeclaredAt
<1>7. Variables(ctxs, ast')
  BY <1>1, VariablesMore DEF NamesInv
<1>8. ASSUME NEW c \in 1 .. Len(ctxs)
      PROVE  Once(ctxs'[c].vars) /\ \A b \in 1 .. Len(ctxs'[c].vars) : DeclaredAt(ast', c, ctxs'[c].vars[b])
  <2>1. Once(ctxs[c].vars) /\ \A b \in 1 .. Len(ctxs[c].vars) : DeclaredAt(ast', c, ctxs[c].vars[b])
    BY <1>7 DEF Variables
  <2>2. CASE c # here
    BY <1>3, <2>1, <2>2
  <2>3. CASE c = here
    <3>1. Once(old) /\ \A b \in 1 .. Len(old) : DeclaredAt(ast', here, old[b])
      BY <2>1, <2>3 DEF old
    <3>2. \A b \in 1 .. Len(new) : b \in 1 .. Len(old) \/ b = Len(old) + 1
      BY <1>3
    <3>3. \A b \in 1 .. Len(new) : DeclaredAt(ast', here, new[b])
      BY <1>3, <1>6, <3>1, <3>2
    <3>4. Once(new)
      <4> SUFFICES ASSUME NEW b \in 1 .. Len(new), NEW d \in 1 .. Len(new), new[b].id = new[d].id PROVE b = d
        BY DEF Once
      <4>1. CASE b \in 1 .. Len(old) /\ d \in 1 .. Len(old)
        BY <1>3, <3>1, <4>1 DEF Once
      <4>2. CASE b = Len(old) + 1 \/ d = Len(old) + 1
        BY <1>3, <1>5, <3>2, <4>2
      <4> QED
        BY <3>2, <4>1, <4>2
    <3> QED
      BY <2>3, <3>3, <3>4 DEF new
  <2> QED
    BY <2>2, <2>3
<1>9. Variables(ctxs', ast')
  BY <1>3, <1>8 DEF Variables
<1>10. ASSUME NEW j \in 1 .. Len(s), s[j].k \in UseKinds PROVE FoundAt(ctxs', s[j], Len(ast) + j)
  <2> DEFINE chain == ctxs'[here].chain
  <2>1. j # 1
    BY <1>4, <1>10 DEF UseKinds
  <2>2. s[j].x = x /\ s[j].means = m /\ s[j].at = here
    BY <1>4, <1>10 DEF UseKinds
  <2>3. Len(ast) + 1 < Len(ast) + j
    BY <1>1, <1>4, <2>1
  <2>4. EarlierIn(new, s[j], Len(ast) + j)
    <3>1. Len(old) + 1 \in 1 .. Len(new)
      BY <1>3
    <3> QED
      BY <1>2, <1>3, <1>5, <2>2, <2>3, <3>1 DEF EarlierIn
  <2>5. chain = ctxs[here].chain
    BY <1>1, <1>3 DEF VarsGrow
  <2>6. Len(chain) \in Nat \ {0} /\ chain[Len(chain)] = here
    BY <1>1, <2>5, ChainType DEF ContextsInv, ChainInv
  <2> HIDE DEF chain
  <2>7. Len(chain) \in 1 .. Len(chain) /\ \A q \in Len(chain) + 1 .. Len(chain) : FALSE
    BY <2>6
  <2>8. FoundOn(ctxs', chain, s[j], Len(ast) + j)
    BY <2>4, <2>6, <2>7 DEF FoundOn, new
  <2> QED
    BY <2>2, <2>8 DEF FoundAt, chain
<1>11. UsesFound(ctxs', ast')
  BY <1>1, <1>3, <1>10, UsesMore DEF NamesInv
<1> QED
  BY <1>9, <1>11 DEF NamesInv

\* Looking up a name gives the innermost declaration there is.
LEMMA NamesLookedUp ==
  ASSUME TreeInv, NamesInv, NEW s \in Seq(AstItems), ast' = ast \o s, QuietItems(s), NoneDeclared(s), ctxs' = ctxs
  PROVE  NamesInv'
<1>1. /\ Len(ctxs) \in Nat /\ here \in 1 .. Len(ctxs) /\ ContextsInv(ctxs) /\ ast \in Seq(AstItems)
      /\ Len(ast) \in Nat /\ \A i \in 1 .. Len(ast) : ast[i].at \in 1 .. Len(ctxs)
  BY TreeFacts
<1>2. Variables(ctxs', ast')
  BY <1>1, VariablesMore DEF NamesInv
<1>3. ASSUME NEW j \in 1 .. Len(s), s[j].k \in UseKinds PROVE FoundAt(ctxs, s[j], Len(ast) + j)
  <2> DEFINE e == s[j]  i == Len(ast) + j  chain == ctxs[here].chain
  <2>1. e.at = here /\ Visible(here, e.x) /\ e.means = GetVar(here, e.x)
    BY <1>3 DEF QuietItems, NoneDeclared, UseKinds
  <2>2. i > Len(ast) /\ i \in Nat
    BY <1>1, LenProperties
  <2>3. \A k \in 1 .. Len(chain) : chain[k] \in 1 .. Len(ctxs)
    BY <1>1 DEF ContextsInv, ChainInv
  <2>4. PICK p \in 1 .. Len(chain) :
           /\ \E b \in 1 .. Len(ctxs[chain[p]].vars) :
                ctxs[chain[p]].vars[b].id = e.x /\ e.means = ctxs[chain[p]].vars[b].val
           /\ \A q \in p + 1 .. Len(chain) : ~IsBound(ctxs[chain[q]].vars, e.x)
    <3>1. \E p \in 1 .. Len(Chain(here)) :
            /\ \E b \in 1 .. Len(Vars(Chain(here)[p])) :
                 Vars(Chain(here)[p])[b].id = e.x /\ GetVar(here, e.x) = Vars(Chain(here)[p])[b].val
            /\ \A q \in p + 1 .. Len(Chain(here)) : ~IsBound(Vars(Chain(here)[q]), e.x)
      BY <1>1, <2>1, Finds
    <3> HIDE DEF e
    <3> QED
      BY <2>1, <3>1 DEF Chain, Vars
  <2> HIDE DEF e, i, chain
  <2>5. EarlierIn(ctxs[chain[p]].vars, e, i)
    <3> DEFINE c == chain[p]  env == ctxs[c].vars
    <3>1. PICK b \in 1 .. Len(env) : env[b].id = e.x /\ e.means = env[b].val
      BY <2>4
    <3>2. c \in 1 .. Len(ctxs)
      BY <2>3, <2>4
    <3>3. env[b].val.d \in 1 .. Len(ast)
      BY <3>1, <3>2 DEF NamesInv, Variables, DeclaredAt
    <3> HIDE DEF env
    <3>4. env[b].val.d < i
      BY <1>1, <2>2, <3>3, SMTT(30)
    <3>5. EarlierIn(env, e, i)
      BY <3>1, <3>4 DEF EarlierIn
    <3> QED
      BY <3>5 DEF env
  <2>6. ASSUME NEW q \in p + 1 .. Len(chain) PROVE LaterIn(ctxs[chain[q]].vars, e, i)
    <3>1. q \in 1 .. Len(chain)
      <4>1. Len(chain) \in Nat
        BY <1>1, ChainType DEF chain
      <4> QED
        BY <2>4, <4>1
    <3>2. DOMAIN ctxs[chain[q]].vars = 1 .. Len(ctxs[chain[q]].vars)
      BY <1>1, <2>3, <3>1, ChainType, LenProperties
    <3> QED
      BY <2>4, <3>2 DEF LaterIn, IsBound, Bound
  <2>7. FoundOn(ctxs, chain, e, i)
    BY <2>4, <2>5, <2>6 DEF FoundOn
  <2> QED
    BY <2>1, <2>7 DEF FoundAt, chain, e, i
<1>4. VarsGrow(ctxs, ctxs', Len(ast))
  BY <1>1, VarsSame
<1>5. UsesFound(ctxs', ast')
  BY <1>1, <1>3, <1>4, UsesMore DEF NamesInv
<1> QED
  BY <1>2, <1>5 DEF NamesInv

\* Opening or leaving a context, or nothing but items of other kinds.
LEMMA NamesOthers ==
  ASSUME TreeInv, NamesInv, NEW s \in Seq(AstItems), ast' = ast \o s, \A j \in 1 .. Len(s) : s[j].k \notin UseKinds,
         ctxs' = ctxs \/ \E p \in 1 .. Len(ctxs) : ctxs' = NewContext(ctxs, p)
  PROVE  NamesInv'
<1>1. /\ ContextsInv(ctxs) /\ ast \in Seq(AstItems)
      /\ Len(ast) \in Nat /\ \A i \in 1 .. Len(ast) : ast[i].at \in 1 .. Len(ctxs)
  BY TreeFacts
<1>2. Variables(ctxs, ast')
  BY <1>1, VariablesMore DEF NamesInv
<1>3. VarsGrow(ctxs, ctxs', Len(ast)) /\ Variables(ctxs', ast')
  <2>1. CASE ctxs' = ctxs
    BY <1>1, <1>2, <2>1, VarsSame
  <2>2. CASE \E p \in 1 .. Len(ctxs) : ctxs' = NewContext(ctxs, p)
    BY <1>1, <1>2, <2>2, VarsNew
  <2> QED
    BY <2>1, <2>2
<1>4. UsesFound(ctxs', ast')
  BY <1>1, <1>3, UsesMore DEF NamesInv
<1> QED
  BY <1>3, <1>4 DEF NamesInv

LEMMA NamesBlocks ==
  ASSUME TreeInv, NamesInv, BlockShapes
  PROVE  NamesInv'
<1>1. ParserInv /\ here \in 1 .. Len(ctxs)
  BY TreeFacts
<1>2. ctxs' = ctxs \/ \E p \in 1 .. Len(ctxs) : ctxs' = NewContext(ctxs, p)
  <2>1. CASE ElseShape
    <3>1. TopOp \in BlockOps
      BY <2>1 DEF ElseShape, BlockOps, BodyOps
    <3> QED
      BY <1>1, <2>1, <3>1, BlockParent DEF ElseShape
  <2>2. CASE IfShape \/ PlainLambdaShape \/ LambdaShape
    BY <1>1, <2>2 DEF IfShape, PlainLambdaShape, LambdaShape, OpenContext
  <2>3. CASE ThenShape \/ EmptyThenShape \/ EndShape \/ EmptyLambdaShape \/ BodyShape \/ NoBodyShape
    BY <2>3 DEF ThenShape, EmptyThenShape, EndShape, EmptyLambdaShape, BodyShape, NoBodyShape, SameTree, CloseContext
  <2> QED
    BY <2>1, <2>2, <2>3 DEF BlockShapes
<1> DEFINE K == {"if", "then", "else", "end", "func", "body", "nobody"}
<1>3. \A k \in K : k \notin UseKinds
  BY DEF UseKinds
<1>4. \/ \E k \in K : \E c : OneItem(k, c)
      \/ \E k, l \in K : \E c, d : TwoItems(k, c, l, d)
  <2>1. CASE IfShape \/ ThenShape \/ ElseShape \/ EndShape \/ LambdaShape \/ BodyShape \/ NoBodyShape
    BY <2>1 DEF IfShape, ThenShape, ElseShape, EndShape, LambdaShape, BodyShape, NoBodyShape
  <2>2. CASE EmptyThenShape \/ PlainLambdaShape \/ EmptyLambdaShape
    BY <2>2 DEF EmptyThenShape, PlainLambdaShape, EmptyLambdaShape
  <2> QED
    BY <2>1, <2>2 DEF BlockShapes
<1> HIDE DEF K
<1>5. \E s \in Seq(AstItems) : ast' = ast \o s /\ \A j \in 1 .. Len(s) : s[j].k \notin UseKinds
  <2>1. CASE \E k \in K : \E c : OneItem(k, c)
    <3>1. PICK k \in K : \E c : OneItem(k, c)
      BY <2>1
    <3>2. PICK e \in AstItems : e.k = k /\ ast' = ast \o << e >>
      BY <3>1 DEF OneItem
    <3>3. << e >> \in Seq(AstItems) /\ Len(<< e >>) = 1 /\ << e >>[1] = e
      BY <3>2, Lists
    <3>4. \A j \in 1 .. 1 : j = 1
      OBVIOUS
    <3> QED
      BY <1>3, <3>1, <3>2, <3>3, <3>4
  <2>2. CASE \E k, l \in K : \E c, d : TwoItems(k, c, l, d)
    <3>1. PICK k \in K, l \in K : \E c, d : TwoItems(k, c, l, d)
      BY <2>2
    <3>2. PICK e \in AstItems, b \in AstItems : e.k = k /\ b.k = l /\ ast' = ast \o << e, b >>
      BY <3>1 DEF TwoItems
    <3>3. << e, b >> \in Seq(AstItems) /\ Len(<< e, b >>) = 2 /\ << e, b >>[1] = e /\ << e, b >>[2] = b
      BY <3>2, Lists
    <3>4. \A j \in 1 .. 2 : j = 1 \/ j = 2
      OBVIOUS
    <3> QED
      BY <1>3, <3>1, <3>2, <3>3, <3>4
  <2> QED
    BY <1>4, <2>1, <2>2
<1> QED
  BY <1>2, <1>5, NamesOthers

LEMMA NamesStep ==
  ASSUME TreeInv, NamesInv, [Next]_vars
  PROVE  NamesInv'
<1>1. CASE UNCHANGED << ctxs, ast >>
  BY <1>1 DEF NamesInv
<1>2. CASE ParserNext
  <2>1. ParserInv /\ AstInv
    BY DEF TreeInv
  <2>2. CASE Quiet
    <3>1. PICK s \in Seq(AstItems) :
            /\ ast' = ast \o s
            /\ QuietItems(s)
            /\ \/ ctxs' = ctxs /\ NoneDeclared(s)
               \/ \E x \in Names, ty \in Types : ctxs' = BoundThere(ctxs, here, x, NewMeaning(ty)) /\ OneDeclared(s, x, ty)
      BY <2>2 DEF Quiet
    <3>2. CASE ctxs' = ctxs /\ NoneDeclared(s)
      BY <3>1, <3>2, NamesLookedUp
    <3>3. CASE \E x \in Names, ty \in Types : ctxs' = BoundThere(ctxs, here, x, NewMeaning(ty)) /\ OneDeclared(s, x, ty)
      BY <3>1, <3>3, NamesDeclared
    <3> QED
      BY <3>1, <3>2, <3>3
  <2>3. CASE Reject \/ EndOfFile
    BY <1>1, <2>3 DEF Reject, EndOfFile
  <2>4. CASE BlockShapes
    BY <2>4, NamesBlocks
  <2>5. CASE InsideEnds
    <3>1. PICK s \in Seq(AstItems) : ast' = ast \o s /\ EndItems(s)
      BY <2>5 DEF InsideEnds
    <3>2. \A j \in 1 .. Len(s) : s[j].k \notin UseKinds
      BY <3>1 DEF EndItems, UseKinds
    <3>3. ctxs' = ctxs
      BY <2>5 DEF InsideEnds, EndOfFileInside
    <3> QED
      BY <3>1, <3>2, <3>3, NamesOthers
  <2> QED
    BY <1>2, <2>1, <2>2, <2>3, <2>4, <2>5, StepShapes
<1> QED
  BY <1>1, <1>2, ParserSteps DEF parserVars

LEMMA NamesInit ==
  ASSUME Init
  PROVE  NamesInv
<1>1. ctxs = << Context(<< Global >>) >> /\ ast = << >>
  BY DEF Init, ParserInit, DefaultContext
<1>2. Len(ast) = 0 /\ Len(ctxs) = 1 /\ ctxs[1].vars = << >>
  BY <1>1 DEF Context, EmptyEnv
<1>3. Variables(ctxs, ast)
  <2>1. Len(ctxs[1].vars) = 0 /\ \A c \in 1 .. Len(ctxs) : c = 1
    BY <1>2
  <2>2. \A c \in 1 .. Len(ctxs) : 1 .. Len(ctxs[c].vars) = {}
    BY <2>1
  <2> QED
    BY <2>2 DEF Variables, Once
<1>4. UsesFound(ctxs, ast)
  <2>1. 1 .. Len(ast) = {}
    BY <1>2
  <2> QED
    BY <2>1 DEF UsesFound
<1> QED
  BY <1>3, <1>4 DEF NamesInv

\* What get_env finds when a name is bound once.
LEMMA OnceFound ==
  ASSUME NEW env \in Seq(Bindings), Once(env), NEW b \in 1 .. Len(env)
  PROVE  IsBound(env, env[b].id) /\ GetEnv(env, env[b].id) = env[b].val
<1> DEFINE x == env[b].id
<1>1. DOMAIN env = 1 .. Len(env)
  BY LenProperties
<1>2. IsBound(env, x)
  BY <1>1 DEF IsBound, Bound
<1>3. First(Bound(env, x)) \in Bound(env, x)
  BY <1>2, FirstBound
<1>4. First(Bound(env, x)) = b
  BY <1>1, <1>3 DEF Bound, Once
<1> QED
  BY <1>2, <1>4 DEF GetEnv

\* What parser_get_var finds: the innermost context that binds the name.
LEMMA InnermostFound ==
  ASSUME ContextsInv(ctxs), NEW c \in 1 .. Len(ctxs), NEW x, NEW p \in 1 .. Len(Chain(c)), IsBound(Vars(Chain(c)[p]), x),
         \A q \in p + 1 .. Len(Chain(c)) : ~IsBound(Vars(Chain(c)[q]), x)
  PROVE  Visible(c, x) /\ GetVar(c, x) = GetEnv(Vars(Chain(c)[p]), x)
<1> DEFINE B == BoundIn(c, x)
           P(i) == i \in B /\ \A j \in B : j <= i
<1>1. DOMAIN Chain(c) = 1 .. Len(Chain(c)) /\ Len(Chain(c)) \in Nat
  BY ChainType DEF Chain
<1>2. p \in B
  BY <1>1 DEF BoundIn
<1>3. \A j \in B : j \in 1 .. Len(Chain(c)) /\ IsBound(Vars(Chain(c)[j]), x)
  BY <1>1 DEF BoundIn
<1> HIDE DEF B
<1>4. \A j \in B : j <= p
  <2> SUFFICES ASSUME NEW j \in B, ~(j <= p) PROVE FALSE
    OBVIOUS
  <2>1. j \in 1 .. Len(Chain(c)) /\ IsBound(Vars(Chain(c)[j]), x)
    BY <1>3
  <2>2. j \in p + 1 .. Len(Chain(c))
    BY <1>1, <2>1
  <2> QED
    BY <2>1, <2>2
<1>5. \A i : P(i) => i = p
  <2> SUFFICES ASSUME NEW i, P(i) PROVE i = p
    OBVIOUS
  <2>1. i <= p /\ p <= i /\ i \in 1 .. Len(Chain(c))
    BY <1>2, <1>3, <1>4
  <2> QED
    BY <1>1, <2>1
<1>6. (CHOOSE i \in B : \A j \in B : j <= i) = p
  <2>1. P(CHOOSE i : P(i))
    BY <1>2, <1>4
  <2> QED
    BY <1>5, <2>1
<1> QED
  BY <1>2, <1>6 DEF Visible, GetVar, B

\* Without late declarations, a name is bound nowhere further in than where it
\* was found.
LEMMA NotFurtherIn ==
  ASSUME TreeInv, NamesInv, NoLateDeclaration, NEW i \in 1 .. Len(ast), ast[i].k \in UseKinds,
         NEW c \in 1 .. Len(ctxs), Around(c, ast[i].at), LaterIn(Vars(c), ast[i], i)
  PROVE  ~IsBound(Vars(c), ast[i].x)
<1>1. ContextsInv(ctxs) /\ Len(ast) \in Nat /\ ast \in Seq(AstItems) /\ DOMAIN ast = 1 .. Len(ast)
  BY TreeFacts, LenProperties
<1> SUFFICES ASSUME IsBound(Vars(c), ast[i].x) PROVE FALSE
  OBVIOUS
<1>2. DOMAIN Vars(c) = 1 .. Len(Vars(c))
  BY <1>1, ChainType, LenProperties DEF Vars
<1>3. PICK b \in 1 .. Len(Vars(c)) : Vars(c)[b].id = ast[i].x
  BY <1>2 DEF IsBound, Bound
<1> DEFINE d == Vars(c)[b].val.d
<1>4. d > i
  BY <1>3 DEF LaterIn
<1>5. d \in 1 .. Len(ast) /\ ast[d].k \in {"decl", "param"} /\ ast[d].x = ast[i].x /\ ast[d].at = c
  BY <1>3 DEF NamesInv, Variables, DeclaredAt, Vars
<1> HIDE DEF d
<1>6. i \in Uses /\ d \in Declarations
  BY <1>1, <1>5 DEF Uses, Declarations, UseKinds
<1>7. i < d
  BY <1>1, <1>4, <1>5
<1> QED
  BY <1>5, <1>6, <1>7 DEF NoLateDeclaration

LEMMA LongerChain ==
  ASSUME ContextsInv(ctxs), NEW d \in 2 .. Len(ctxs), NEW c, ParentIn(ctxs, d) = c
  PROVE  /\ Len(Chain(c)) \in Nat \ {0} /\ Len(Chain(d)) = Len(Chain(c)) + 1
         /\ Chain(d)[Len(Chain(c)) + 1] = d
         /\ \A k \in 1 .. Len(Chain(c)) : Chain(d)[k] = Chain(c)[k]
<1> DEFINE q == ctxs[d].chain  r == ctxs[ParentIn(ctxs, d)].chain
<1>1. Len(r) \in Nat \ {0} /\ Len(q) = Len(r) + 1 /\ q[Len(r) + 1] = d /\ \A k \in 1 .. Len(r) : q[k] = r[k]
  BY ChainOfKid
<1> QED
  BY <1>1 DEF Chain

\* Looked up where it was parsed, or in the context around that if nothing was
\* declared there then, a name has its meaning.
LEMMA FoundAgain ==
  ASSUME TreeInv, NamesInv, NoLateDeclaration, NEW i \in 1 .. Len(ast), ast[i].k \in UseKinds, NEW c \in 1 .. Len(ctxs),
         \/ c = ast[i].at
         \/ /\ ast[i].at \in 2 .. Len(ctxs) /\ ParentIn(ctxs, ast[i].at) = c
            /\ \A b \in 1 .. Len(ctxs[ast[i].at].vars) : ctxs[ast[i].at].vars[b].val.d > i
  PROVE  Visible(c, ast[i].x) /\ GetVar(c, ast[i].x) = ast[i].means
<1> DEFINE e == ast[i]  long == ctxs[e.at].chain  chain == Chain(c)
<1>1. ContextsInv(ctxs) /\ Len(ast) \in Nat /\ Len(ctxs) \in Nat /\ e.at \in 1 .. Len(ctxs)
  BY TreeFacts
<1>2. PICK p \in 1 .. Len(long) : /\ EarlierIn(ctxs[long[p]].vars, e, i)
                                  /\ \A q \in p + 1 .. Len(long) : LaterIn(ctxs[long[q]].vars, e, i)
  BY DEF NamesInv, UsesFound, FoundAt, FoundOn
<1>3. /\ Len(long) \in Nat /\ DOMAIN long = 1 .. Len(long) /\ \A k \in 1 .. Len(long) : long[k] \in 1 .. Len(ctxs)
  BY <1>1, ChainType DEF ContextsInv, ChainInv
<1> HIDE DEF long, chain
<1>4. ASSUME NEW q \in p + 1 .. Len(long) PROVE ~IsBound(ctxs[long[q]].vars, e.x)
  <2>1. q \in 1 .. Len(long) /\ long[q] \in 1 .. Len(ctxs)
    BY <1>2, <1>3
  <2>2. Around(long[q], e.at)
    BY <1>3, <2>1 DEF Around, Chain, long
  <2>3. LaterIn(ctxs[long[q]].vars, e, i)
    BY <1>2
  <2> QED
    BY <2>1, <2>2, <2>3, NotFurtherIn DEF Vars
<1>5. /\ p \in 1 .. Len(chain) /\ Len(chain) <= Len(long) /\ Len(chain) \in Nat
      /\ \A k \in 1 .. Len(chain) : chain[k] = long[k]
  <2>1. CASE c = e.at
    <3>1. chain = long
      BY <2>1 DEF Chain, long, chain
    <3> QED
      BY <1>2, <1>3, <3>1
  <2>2. CASE /\ e.at \in 2 .. Len(ctxs) /\ ParentIn(ctxs, e.at) = c
             /\ \A b \in 1 .. Len(ctxs[e.at].vars) : ctxs[e.at].vars[b].val.d > i
    <3>1. Len(chain) \in Nat \ {0} /\ Len(long) = Len(chain) + 1 /\ long[Len(chain) + 1] = e.at
          /\ \A k \in 1 .. Len(chain) : long[k] = chain[k]
      <4>1. e.at \in 2 .. Len(ctxs) /\ ParentIn(ctxs, e.at) = c
        BY <2>2
      <4>2. /\ Len(Chain(c)) \in Nat \ {0} /\ Len(Chain(e.at)) = Len(Chain(c)) + 1
            /\ Chain(e.at)[Len(Chain(c)) + 1] = e.at
            /\ \A k \in 1 .. Len(Chain(c)) : Chain(e.at)[k] = Chain(c)[k]
        <5>1. \A d \in 2 .. Len(ctxs) : ParentIn(ctxs, d) = c =>
                /\ Len(Chain(c)) \in Nat \ {0} /\ Len(Chain(d)) = Len(Chain(c)) + 1
                /\ Chain(d)[Len(Chain(c)) + 1] = d
                /\ \A k \in 1 .. Len(Chain(c)) : Chain(d)[k] = Chain(c)[k]
          BY <1>1, LongerChain
        <5> HIDE DEF e
        <5> QED
          BY <4>1, <5>1
      <4>3. long = Chain(e.at)
        BY DEF long, Chain
      <4> QED
        BY <4>2, <4>3 DEF chain
    <3>2. p # Len(chain) + 1
      <4> SUFFICES ASSUME p = Len(chain) + 1 PROVE FALSE
        OBVIOUS
      <4>1. long[p] = e.at
        BY <3>1
      <4> DEFINE env == ctxs[e.at].vars
      <4>2. EarlierIn(env, e, i)
        BY <1>2, <4>1
      <4>3. PICK b \in 1 .. Len(env) : env[b].val.d < i
        BY <4>2 DEF EarlierIn
      <4>4. env[b].val.d > i
        BY <2>2, <4>3
      <4>5. env[b].val.d \in 1 .. Len(ast)
        BY <1>1, <4>3 DEF NamesInv, Variables, DeclaredAt
      <4> HIDE DEF env
      <4> QED
        BY <1>1, <4>3, <4>4, <4>5
    <3> QED
      BY <1>2, <1>3, <3>1, <3>2, SMTT(30)
  <2> QED
    BY <2>1, <2>2
<1>6. chain[p] = long[p] /\ chain[p] \in 1 .. Len(ctxs)
  BY <1>2, <1>3, <1>5
<1>7. \A q \in p + 1 .. Len(chain) : ~IsBound(Vars(chain[q]), e.x)
  <2> TAKE q \in p + 1 .. Len(chain)
  <2>1. q \in p + 1 .. Len(long) /\ q \in 1 .. Len(chain)
    BY <1>2, <1>3, <1>5
  <2> QED
    BY <1>4, <1>5, <2>1 DEF Vars
<1>8. IsBound(Vars(chain[p]), e.x) /\ GetEnv(Vars(chain[p]), e.x) = e.means
  <2> DEFINE env == Vars(chain[p])
  <2>1. PICK b \in 1 .. Len(env) : env[b].id = e.x /\ env[b].val = e.means
    BY <1>2, <1>6 DEF EarlierIn, Vars
  <2>2. env \in Seq(Bindings)
    BY <1>1, <1>6, ChainType DEF Vars
  <2>3. Once(env)
    BY <1>6 DEF NamesInv, Variables, Vars
  <2> HIDE DEF env
  <2>4. IsBound(env, env[b].id) /\ GetEnv(env, env[b].id) = env[b].val
    BY <2>1, <2>2, <2>3, OnceFound
  <2> QED
    BY <2>1, <2>4 DEF env
<1> QED
  BY <1>1, <1>5, <1>7, <1>8, InnermostFound DEF chain

LEMMA NamesChecked ==
  ASSUME TreeInv, StageInv, NamesInv, CheckWalk
  PROVE  CheckedAsParsed
<1> SUFFICES ASSUME Complete, NoBlockInCondition, NoLateDeclaration, Checking, cpos \in Uses
             PROVE  Visible(Scope, ast[cpos].x) /\ GetVar(Scope, ast[cpos].x) = ast[cpos].means
  BY DEF CheckedAsParsed
<1>1. cpos \in 1 .. Len(ast) /\ cpos \in 1 .. Len(ast) + 1 /\ ast \in Seq(AstItems) /\ ContextsInv(ctxs) /\ Len(ctxs) \in Nat
  BY TreeFacts, LenProperties DEF Checking
<1>2. ast[cpos].k \in UseKinds
  BY DEF Uses, UseKinds
<1>3. PICK w : Placed(ctxs, ast, w) /\ Checks(levels, ctxs, w[cpos])
  BY <1>1 DEF CheckWalk
<1> DEFINE u == w[cpos]
<1>4. u \in Spots(ctxs) /\ Lays(ctxs, u, ast[cpos], w[cpos + 1])
  BY <1>1, <1>3, LaidLinks DEF Placed
<1>5. ast[cpos].at # u.c => \A b \in 1 .. Len(ctxs[ast[cpos].at].vars) : ctxs[ast[cpos].at].vars[b].val.d > cpos
  BY <1>1, <1>2, <1>3 DEF Placed, FreshUses
<1>6. Checks(levels, ctxs, u)
  BY <1>3
<1> HIDE DEF u
<1>7. u.c \in 1 .. Len(ctxs) /\ u.m \in 1 .. Len(ctxs) /\ u.c <= u.m
  BY <1>4, SpotType
<1>8. Scope = u.c
  BY <1>6, <1>7, ChecksTop DEF Scope
<1>9. ast[cpos].at = u.c \/ (Enters(ctxs, u, u.c) /\ ast[cpos].at = u.m + 1)
  BY <1>2, <1>4 DEF Lays
<1>10. CASE ast[cpos].at = u.c
  BY <1>1, <1>2, <1>7, <1>8, <1>10, FoundAgain
<1>11. CASE Enters(ctxs, u, u.c) /\ ast[cpos].at = u.m + 1
  <2>1. ast[cpos].at \in 2 .. Len(ctxs) /\ ParentIn(ctxs, ast[cpos].at) = u.c /\ ast[cpos].at # u.c
    BY <1>1, <1>7, <1>11 DEF Enters
  <2> QED
    BY <1>1, <1>2, <1>5, <1>7, <1>8, <2>1, FoundAgain
<1> QED
  BY <1>9, <1>10, <1>11

\* In programs of every size, over all names: the type checker looks every name
\* up in the environments of the whole program, and finds the declaration the
\* parser found when it knew only what stands before, as long as no name is
\* declared in a scope after it was used there with another meaning, no block
\* stands in a condition and every block has a body (parser_get_var and the
\* loops over temp_ctx).
THEOREM CompilerNames == Spec => []CheckedAsParsed
<1> DEFINE Inv == TreeInv /\ StageInv /\ LayInv /\ CheckWalk /\ NamesInv
<1>1. Init => Inv
  <2> SUFFICES ASSUME Init PROVE Inv
    OBVIOUS
  <2>1. LayInv
    BY LayInit DEF Init
  <2>2. CheckWalk
    BY DEF Init, CheckerInit, CheckWalk
  <2> QED
    BY <2>1, <2>2, TreeInvInit, NamesInit
<1>2. Inv /\ [Next]_vars => Inv'
  <2> SUFFICES ASSUME Inv, [Next]_vars PROVE Inv'
    OBVIOUS
  <2>1. TreeInv' /\ StageInv'
    BY TreeStageStep
  <2>2. LayInv'
    BY LayStep
  <2>3. CheckWalk'
    BY CheckWalkStep
  <2>4. NamesInv'
    BY NamesStep
  <2> QED
    BY <2>1, <2>2, <2>3, <2>4
<1>3. Inv => CheckedAsParsed
  BY NamesChecked
<1> QED
  BY <1>1, <1>2, <1>3, PTL DEF Spec
=============================================================================
