------------------------- MODULE BlockParserProofs -------------------------
(***************************************************************************)
(* The parser keeps its scopes on a stack, for programs of every size over *)
(* every set of names: ScopesAreATable, and with it StackMatchesContext.   *)
(* Neither is inductive.  A context keeps its chain of parents for good,   *)
(* but only *context is compared with the parsing stack, so the proof      *)
(* needs to know that the chains of the contexts on a chain are its        *)
(* beginnings (ContextsInv), and that the stack is as deep as the chain    *)
(* unless a lambda `( ) { }` lost it (DepthInv).                           *)
(***************************************************************************)
EXTENDS BlockParser, FiniteSetTheorems, SequenceTheorems, WellFoundedInduction, TLAPS

-----------------------------------------------------------------------------
(* Least and greatest elements. *)

\* A nonempty set of natural numbers has a least element.
LEMMA Least ==
  ASSUME NEW S, S \subseteq Nat, S # {}
  PROVE  \E i \in S : \A j \in S : i <= j
<1>1. \E i \in S : \A j \in S : << j, i >> \notin OpToRel(<, Nat)
  BY NatLessThanWellFounded, WFMin, Zenon
<1>2. ASSUME NEW i \in Nat, NEW j \in Nat, j < i
      PROVE  << j, i >> \in OpToRel(<, Nat)
  BY <1>2 DEF OpToRel
<1>3. \A i, j \in S : i \in Nat /\ j \in Nat
  OBVIOUS
<1>4. PICK i \in S : \A j \in S : << j, i >> \notin OpToRel(<, Nat)
  BY <1>1
<1>5. \A j \in S : ~(j < i)
  BY <1>2, <1>3, <1>4, Zenon
<1> QED
  BY <1>3, <1>5

\* A nonempty set of numbers up to n has a greatest element.
LEMMA Greatest ==
  ASSUME NEW n \in Nat, NEW S, S \subseteq 1 .. n, S # {}
  PROVE  \E i \in S : \A j \in S : j <= i
<1> DEFINE T == {j \in Nat : \A i \in S : i <= j}
<1>1. n \in T
  OBVIOUS
<1>2. PICK m \in T : \A j \in T : m <= j
  BY <1>1, Least
<1>3. CASE m \in S
  BY <1>3
<1>4. CASE m \notin S
  <2>1. \A i \in S : i \in 1 .. n /\ i < m
    BY <1>4
  <2>2. PICK i \in S : TRUE
    OBVIOUS
  <2>3. m - 1 \in Nat /\ \A j \in S : j <= m - 1
    BY <2>1, <2>2
  <2> QED
    BY <1>2, <2>3
<1> QED
  BY <1>3, <1>4

-----------------------------------------------------------------------------
(* Environments: set_env of a name that is not bound. *)

Bindings == [id : Names, val : Meanings]

\* A name that is bound is bound at the place get_env takes its value from.
LEMMA FirstBound ==
  ASSUME NEW env \in Seq(Bindings), NEW x, IsBound(env, x)
  PROVE  First(Bound(env, x)) \in Bound(env, x)
<1>1. Bound(env, x) \subseteq Nat /\ Bound(env, x) # {}
  BY LenProperties DEF IsBound, Bound
<1>2. \E i \in Bound(env, x) : \A j \in Bound(env, x) : i <= j
  BY <1>1, Least
<1> QED
  BY <1>2 DEF First

\* A name that is not bound is added with its value, and no other name changes.
LEMMA SetEnvFresh ==
  ASSUME NEW env \in Seq(Bindings), NEW x \in Names, NEW m \in Meanings, ~IsBound(env, x)
  PROVE  /\ SetEnv(env, x, m) \in Seq(Bindings)
         /\ NamesOf(SetEnv(env, x, m)) = NamesOf(env) \cup {x}
         /\ x \notin NamesOf(env)
         /\ GetEnv(SetEnv(env, x, m), x) = m
         /\ \A n \in NamesOf(env) : GetEnv(SetEnv(env, x, m), n) = GetEnv(env, n)
<1> DEFINE new == Append(env, Binding(x, m))
<1>1. SetEnv(env, x, m) = new
  BY DEF SetEnv, IsBound
<1>2. Binding(x, m) \in Bindings
  BY DEF Binding, Bindings
<1>3. /\ new \in Seq(Bindings) /\ Len(new) = Len(env) + 1 /\ Len(env) \in Nat
      /\ DOMAIN env = 1 .. Len(env) /\ DOMAIN new = 1 .. Len(env) + 1
      /\ \A i \in 1 .. Len(env) : new[i] = env[i]
      /\ new[Len(env) + 1] = Binding(x, m)
  BY <1>2, AppendProperties, LenProperties
<1> HIDE DEF new
<1>4. \A i \in 1 .. Len(env) : env[i].id # x
  BY <1>3 DEF IsBound, Bound
<1>5. NamesOf(new) = NamesOf(env) \cup {x} /\ x \notin NamesOf(env)
  BY <1>3, <1>4 DEF NamesOf, Binding
<1>6. GetEnv(new, x) = m
  <2>1. Bound(new, x) = {Len(env) + 1}
    BY <1>3, <1>4 DEF Bound, Binding
  <2>2. First({Len(env) + 1}) = Len(env) + 1
    BY <1>3 DEF First
  <2> QED
    BY <1>3, <2>1, <2>2 DEF GetEnv, Binding
<1>7. ASSUME NEW n \in NamesOf(env)
      PROVE  GetEnv(new, n) = GetEnv(env, n)
  <2>1. IsBound(env, n) /\ n # x
    BY <1>5 DEF NamesOf, IsBound, Bound
  <2>2. Bound(new, n) = Bound(env, n)
    BY <1>3, <2>1 DEF Bound, Binding
  <2>3. First(Bound(env, n)) \in 1 .. Len(env)
    BY <1>3, <2>1, FirstBound DEF Bound
  <2> QED
    BY <1>3, <2>2, <2>3 DEF GetEnv
<1> QED
  BY <1>1, <1>3, <1>5, <1>6, <1>7

-----------------------------------------------------------------------------
(***************************************************************************)
(* The tree of contexts, for any tree t, so that a lemma can speak of the  *)
(* tree before a step and of the one after it.                             *)
(***************************************************************************)
Node == [chain : Seq(Nat), kids : Seq(Nat), vars : Seq(Bindings)]

\* A context is the last one of its chain, which begins at the global context,
\* and the chains of the contexts on it are its beginnings.
ChainInv(t, c) ==
  LET chain == t[c].chain IN
  /\ Len(chain) > 0 /\ chain[1] = Global /\ chain[Len(chain)] = c
  /\ \A i \in 1 .. Len(chain) : /\ chain[i] \in 1 .. Len(t)
                                /\ t[chain[i]].chain = SubSeq(chain, 1, i)

ContextsInv(t) ==
  /\ t \in Seq(Node) /\ Len(t) > 0
  /\ \A c \in 1 .. Len(t) : ChainInv(t, c)

\* The variables of context c, and the scopes around it.
ScopeIn(t, c)  == [x \in NamesOf(t[c].vars) |-> GetEnv(t[c].vars, x)]
Scopes(t, c) == [i \in DOMAIN t[c].chain |-> ScopeIn(t, t[c].chain[i])]

\* What is known of the fields of a context.
LEMMA ChainType ==
  ASSUME NEW t, ContextsInv(t), NEW c \in 1 .. Len(t)
  PROVE  /\ t[c] \in Node
         /\ t[c].chain \in Seq(Nat) /\ t[c].kids \in Seq(Nat) /\ t[c].vars \in Seq(Bindings)
         /\ Len(t[c].chain) \in Nat /\ DOMAIN t[c].chain = 1 .. Len(t[c].chain)
<1>1. t[c] \in Node
  BY ElementOfSeq DEF ContextsInv
<1> QED
  BY <1>1, LenProperties DEF Node

\* A new context, with what is around it in the scopes around its parent.
LEMMA NewContextTree ==
  ASSUME NEW t, ContextsInv(t), NEW p \in 1 .. Len(t)
  PROVE  /\ ContextsInv(NewContext(t, p)) /\ Len(NewContext(t, p)) = Len(t) + 1
         /\ NewContext(t, p)[Len(t) + 1] = Context(Append(t[p].chain, Len(t) + 1))
         /\ \A c \in 1 .. Len(t) : /\ NewContext(t, p)[c].chain = t[c].chain
                                   /\ NewContext(t, p)[c].vars = t[c].vars
<1> DEFINE n   == Len(t) + 1
           mid == [t EXCEPT ![p].kids = Append(@, n)]
           new == Context(Append(t[p].chain, n))
           u   == NewContext(t, p)
<1>1. t \in Seq(Node) /\ Len(t) \in Nat /\ DOMAIN t = 1 .. Len(t) /\ n \in Nat
  BY LenProperties DEF ContextsInv
<1>2. /\ t[p].chain \in Seq(Nat) /\ t[p].kids \in Seq(Nat) /\ t[p].vars \in Seq(Bindings)
      /\ Len(t[p].chain) \in Nat /\ DOMAIN t[p].chain = 1 .. Len(t[p].chain)
  BY ChainType
<1>3. mid \in Seq(Node) /\ Len(mid) = Len(t)
  <2>1. [t[p] EXCEPT !.kids = Append(@, n)] \in Node
    <3>1. Append(t[p].kids, n) \in Seq(Nat)
      BY <1>1, <1>2, AppendProperties
    <3>2. t[p] \in Node
      BY ChainType
    <3> QED
      BY <3>1, <3>2 DEF Node
  <2>2. mid = [t EXCEPT ![p] = [t[p] EXCEPT !.kids = Append(@, n)]]
    OBVIOUS
  <2> QED
    BY <1>1, <2>1, <2>2, ExceptSeq
<1>4. \A c \in 1 .. Len(t) : mid[c].chain = t[c].chain /\ mid[c].vars = t[c].vars
  <2>1. t[p] \in Node
    BY ChainType
  <2> QED
    BY <1>1, <2>1 DEF Node
<1>5. new \in Node /\ new.chain = Append(t[p].chain, n)
  BY <1>1, <1>2, AppendProperties, EmptySeq DEF Context, Node, EmptyEnv
<1>6. u = Append(mid, new)
  BY DEF NewContext
<1> HIDE DEF mid, new, u
<1>7. /\ u \in Seq(Node) /\ Len(u) = n
      /\ \A c \in 1 .. Len(t) : u[c] = mid[c]
      /\ u[n] = new
  BY <1>3, <1>5, <1>6, AppendProperties
<1>8. \A c \in 1 .. Len(t) : u[c].chain = t[c].chain /\ u[c].vars = t[c].vars
  BY <1>4, <1>7
<1>9. ASSUME NEW c \in 1 .. Len(t)
      PROVE  ChainInv(u, c)
  <2> DEFINE q == t[c].chain
  <2>1. ChainInv(t, c)
    BY DEF ContextsInv
  <2>2. u[c].chain = q /\ 1 .. Len(t) \subseteq 1 .. Len(u)
    BY <1>1, <1>7, <1>8
  <2>3. ASSUME NEW i \in 1 .. Len(q)
        PROVE  q[i] \in 1 .. Len(u) /\ u[q[i]].chain = SubSeq(q, 1, i)
    <3>1. q[i] \in 1 .. Len(t) /\ t[q[i]].chain = SubSeq(q, 1, i)
      BY <2>1 DEF ChainInv
    <3> QED
      BY <1>8, <2>2, <3>1
  <2>4. Len(q) > 0 /\ q[1] = Global /\ q[Len(q)] = c
    BY <2>1 DEF ChainInv
  <2> HIDE DEF q
  <2> QED
    BY <2>2, <2>3, <2>4 DEF ChainInv
<1>10. ChainInv(u, n)
  <2> DEFINE q == t[p].chain
             r == u[n].chain
  <2>1. /\ r \in Seq(Nat) /\ Len(r) = Len(q) + 1
        /\ \A i \in 1 .. Len(q) : r[i] = q[i]
        /\ r[Len(q) + 1] = n
    <3>1. r = Append(q, n) /\ q \in Seq(Nat)
      BY <1>2, <1>5, <1>7
    <3> QED
      BY <1>1, <3>1, AppendProperties
  <2>2. ChainInv(t, p)
    BY DEF ContextsInv
  <2>3. Len(q) > 0 /\ q[1] = Global
    BY <2>2 DEF ChainInv
  <2> HIDE DEF q, r
  <2>4. ASSUME NEW i \in 1 .. Len(q)
        PROVE  r[i] \in 1 .. Len(u) /\ u[r[i]].chain = SubSeq(r, 1, i)
    <3>1. q[i] \in 1 .. Len(t) /\ t[q[i]].chain = SubSeq(q, 1, i)
      BY <2>2 DEF ChainInv, q
    <3>2. SubSeq(r, 1, i) = SubSeq(q, 1, i)
      BY <1>2, <2>1 DEF q
    <3> QED
      BY <1>1, <1>7, <1>8, <2>1, <3>1, <3>2
  <2>5. u[n].chain = SubSeq(r, 1, Len(q) + 1)
    BY <2>1, SubSeqFull DEF r
  <2>6. \A i \in 1 .. Len(r) : r[i] \in 1 .. Len(u) /\ u[r[i]].chain = SubSeq(r, 1, i)
    <3>1. Len(q) \in Nat
      BY <1>2 DEF q
    <3> QED
      BY <1>1, <1>7, <2>1, <2>4, <2>5, <3>1
  <2>7. Len(r) > 0 /\ r[1] = Global /\ r[Len(r)] = n
    <3>1. Len(q) \in Nat
      BY <1>2 DEF q
    <3> QED
      BY <2>1, <2>3, <3>1
  <2> QED
    BY <2>6, <2>7 DEF ChainInv, r
<1>11. ContextsInv(u)
  BY <1>1, <1>7, <1>9, <1>10 DEF ContextsInv
<1> QED
  BY <1>7, <1>8, <1>11 DEF u, new

Empty == [x \in {} |-> Undeclared]

\* The scopes of the contexts of t are in t still, and the new one is inside
\* those of its parent.
LEMMA NewContextScopes ==
  ASSUME NEW t, ContextsInv(t), NEW p \in 1 .. Len(t)
  PROVE  /\ Scopes(NewContext(t, p), Len(t) + 1) = Append(Scopes(t, p), Empty)
         /\ Len(NewContext(t, p)[Len(t) + 1].chain) = Len(t[p].chain) + 1
         /\ NewContext(t, p)[Len(t) + 1].vars = EmptyEnv
<1> DEFINE n == Len(t) + 1
           u == NewContext(t, p)
           q == t[p].chain
           r == u[n].chain
<1>1. Len(t) \in Nat /\ q \in Seq(Nat) /\ Len(q) \in Nat /\ DOMAIN q = 1 .. Len(q)
  BY ChainType, LenProperties DEF ContextsInv
<1>2. /\ u[n] = Context(Append(q, n))
      /\ \A c \in 1 .. Len(t) : u[c].vars = t[c].vars
  BY NewContextTree
<1>3. r = Append(q, n) /\ u[n].vars = EmptyEnv
  BY <1>2 DEF Context
<1>4. /\ Len(r) = Len(q) + 1 /\ DOMAIN r = 1 .. Len(q) + 1
      /\ \A i \in 1 .. Len(q) : r[i] = q[i]
      /\ r[Len(q) + 1] = n
  BY <1>1, <1>3, AppendProperties, LenProperties
<1>5. \A i \in 1 .. Len(q) : q[i] \in 1 .. Len(t)
  BY DEF ContextsInv, ChainInv
<1> HIDE DEF u, q, r
<1>6. \A i \in 1 .. Len(q) : ScopeIn(u, r[i]) = ScopeIn(t, q[i])
  BY <1>2, <1>4, <1>5 DEF ScopeIn
<1>7. ScopeIn(u, r[Len(q) + 1]) = Empty
  <2>1. NamesOf(u[n].vars) = {}
    BY <1>3 DEF NamesOf, EmptyEnv
  <2> QED
    BY <1>4, <2>1, Zenon DEF ScopeIn, Empty
<1>8. Scopes(u, n) = Append(Scopes(t, p), Empty)
  <2>1. Scopes(u, n) = [i \in 1 .. Len(q) + 1 |-> ScopeIn(u, r[i])]
    BY <1>4 DEF Scopes, r
  <2>2. Scopes(t, p) = [i \in 1 .. Len(q) |-> ScopeIn(t, q[i])]
    BY <1>1 DEF Scopes, q
  <2>3. Append([i \in 1 .. Len(q) |-> ScopeIn(t, q[i])], Empty)
          = [i \in 1 .. Len(q) + 1 |-> ScopeIn(u, r[i])]
    BY <1>1, <1>6, <1>7
  <2> QED
    BY <2>1, <2>2, <2>3
<1> QED
  BY <1>3, <1>4, <1>8 DEF u, q, r

\* The parent of a context, and the scopes around it.
LEMMA ParentScopes ==
  ASSUME NEW t, ContextsInv(t), NEW c \in 1 .. Len(t), Len(t[c].chain) > 1
  PROVE  LET p == t[c].chain[Len(t[c].chain) - 1] IN
         /\ c # Global /\ p \in 1 .. Len(t)
         /\ Len(t[p].chain) = Len(t[c].chain) - 1
         /\ Scopes(t, p) = SubSeq(Scopes(t, c), 1, Len(t[c].chain) - 1)
<1> DEFINE q == t[c].chain
           p == q[Len(q) - 1]
<1>1. q \in Seq(Nat) /\ Len(q) \in Nat /\ DOMAIN q = 1 .. Len(q)
  BY ChainType
<1>2. ChainInv(t, c)
  BY DEF ContextsInv
<1>3. Len(q) - 1 \in 1 .. Len(q) /\ 1 \in 1 .. Len(q)
  BY <1>1
<1>4. p \in 1 .. Len(t) /\ t[p].chain = SubSeq(q, 1, Len(q) - 1)
  BY <1>2, <1>3 DEF ChainInv
<1>5. q[1] = Global /\ t[q[1]].chain = SubSeq(q, 1, 1)
  BY <1>2, <1>3 DEF ChainInv
<1> HIDE DEF q
<1>6. Len(SubSeq(q, 1, 1)) = 1
  BY <1>1, <1>3
<1>7. ASSUME c = Global
      PROVE  FALSE
  <2>1. t[q[1]].chain = t[c].chain
    BY <1>5, <1>7, Zenon
  <2>2. q = SubSeq(q, 1, 1)
    BY <1>5, <2>1 DEF q
  <2>3. Len(q) = 1
    BY <1>6, <2>2, Zenon
  <2>4. Len(q) > 1
    BY DEF q
  <2> QED
    BY <2>3, <2>4
<1>8. /\ Len(t[p].chain) = Len(q) - 1 /\ DOMAIN t[p].chain = 1 .. Len(q) - 1
      /\ \A i \in 1 .. Len(q) - 1 : t[p].chain[i] = q[i]
  BY <1>1, <1>3, <1>4
<1>9. Scopes(t, p) = SubSeq(Scopes(t, c), 1, Len(q) - 1)
  <2>1. Scopes(t, p) = [i \in 1 .. Len(q) - 1 |-> ScopeIn(t, q[i])]
    BY <1>8 DEF Scopes
  <2>2. Scopes(t, c) = [i \in 1 .. Len(q) |-> ScopeIn(t, q[i])]
    BY <1>1 DEF Scopes, q
  <2>3. SubSeq([i \in 1 .. Len(q) |-> ScopeIn(t, q[i])], 1, Len(q) - 1)
          = [i \in 1 .. Len(q) - 1 |-> ScopeIn(t, q[i])]
    BY <1>1, <1>3
  <2> QED
    BY <2>1, <2>2, <2>3
<1> QED
  BY <1>4, <1>7, <1>8, <1>9 DEF q

\* The name x declared in context c, and in a scope.
BoundThere(t, c, x, m) == [t EXCEPT ![c].vars = SetEnv(@, x, m)]
WithName(scope, x, m) == [n \in DOMAIN scope \cup {x} |-> IF n = x THEN m ELSE scope[n]]

\* A name that is not bound in a context is declared there: nothing changes but
\* the innermost scope.
LEMMA DeclaredTree ==
  ASSUME NEW t, ContextsInv(t), NEW c \in 1 .. Len(t),
         NEW x \in Names, NEW m \in Meanings, ~IsBound(t[c].vars, x)
  PROVE  /\ ContextsInv(BoundThere(t, c, x, m)) /\ Len(BoundThere(t, c, x, m)) = Len(t)
         /\ BoundThere(t, c, x, m)[c].chain = t[c].chain
         /\ x \notin DOMAIN ScopeIn(t, c)
         /\ Scopes(t, c)[Len(t[c].chain)] = ScopeIn(t, c)
         /\ Scopes(BoundThere(t, c, x, m), c)
              = Append(SubSeq(Scopes(t, c), 1, Len(t[c].chain) - 1), WithName(ScopeIn(t, c), x, m))
<1> DEFINE new == SetEnv(t[c].vars, x, m)
           u   == BoundThere(t, c, x, m)
           old == ScopeIn(t, c)
           q   == t[c].chain
<1>1. /\ t \in Seq(Node) /\ Len(t) \in Nat /\ DOMAIN t = 1 .. Len(t) /\ t[c] \in Node
      /\ q \in Seq(Nat) /\ Len(q) \in Nat /\ DOMAIN q = 1 .. Len(q)
  BY ChainType, LenProperties DEF ContextsInv
<1>2. /\ new \in Seq(Bindings)
      /\ NamesOf(new) = NamesOf(t[c].vars) \cup {x} /\ x \notin NamesOf(t[c].vars)
      /\ GetEnv(new, x) = m
      /\ \A n \in NamesOf(t[c].vars) : GetEnv(new, n) = GetEnv(t[c].vars, n)
  BY ChainType, SetEnvFresh
<1> HIDE DEF new
<1>3. u = [t EXCEPT ![c] = [t[c] EXCEPT !.vars = new]] /\ [t[c] EXCEPT !.vars = new] \in Node
  BY <1>1, <1>2 DEF Node, new, BoundThere
<1>4. u \in Seq(Node) /\ Len(u) = Len(t)
  BY <1>1, <1>3, ExceptSeq
<1>5. /\ \A d \in 1 .. Len(t) : u[d].chain = t[d].chain
      /\ \A d \in 1 .. Len(t) : d # c => u[d].vars = t[d].vars
      /\ u[c].vars = new
  BY <1>1, <1>3 DEF Node
<1> HIDE DEF u
<1>6. ASSUME NEW d \in 1 .. Len(t)
      PROVE  ChainInv(u, d)
  <2>1. ChainInv(t, d)
    BY DEF ContextsInv
  <2> QED
    BY <1>4, <1>5, <2>1, Zenon DEF ChainInv
<1>7. ContextsInv(u)
  BY <1>4, <1>6 DEF ContextsInv
<1>8. ChainInv(t, c)
  BY DEF ContextsInv
<1>9. Len(q) > 0 /\ q[Len(q)] = c
  BY <1>8 DEF ChainInv
<1>10. ASSUME NEW i \in 1 .. Len(q) - 1
       PROVE  q[i] # c /\ q[i] \in 1 .. Len(t)
  <2>1. i \in 1 .. Len(q)
    BY <1>1
  <2>2. t[q[i]].chain = SubSeq(q, 1, i) /\ q[i] \in 1 .. Len(t)
    BY <1>8, <2>1 DEF ChainInv
  <2>3. Len(SubSeq(q, 1, i)) = i
    BY <1>1, <2>1
  <2> QED
    BY <1>1, <2>2, <2>3
<1>11. ScopeIn(u, c) = WithName(old, x, m) /\ x \notin DOMAIN old
  BY <1>2, <1>5 DEF ScopeIn, WithName
<1>12. \A i \in 1 .. Len(q) - 1 : ScopeIn(u, q[i]) = ScopeIn(t, q[i])
  BY <1>5, <1>10 DEF ScopeIn
<1> DEFINE fresh == WithName(old, x, m)
<1>13. Scopes(t, c) = [i \in 1 .. Len(q) |-> ScopeIn(t, q[i])]
  BY <1>1 DEF Scopes
<1>14. Scopes(u, c) = [i \in 1 .. Len(q) |-> ScopeIn(u, q[i])]
  BY <1>1, <1>5 DEF Scopes
<1>15. ScopeIn(u, c) = fresh
  BY <1>11
<1> HIDE DEF fresh, old, q
<1>16. SubSeq([i \in 1 .. Len(q) |-> ScopeIn(t, q[i])], 1, Len(q) - 1)
         = [i \in 1 .. Len(q) - 1 |-> ScopeIn(t, q[i])]
  BY <1>1, <1>9 DEF q
<1>17. Append([i \in 1 .. Len(q) - 1 |-> ScopeIn(t, q[i])], fresh)
         = [i \in 1 .. Len(q) |-> ScopeIn(u, q[i])]
  <2>1. Len(q) \in Nat /\ Len(q) > 0 /\ q[Len(q)] = c
    BY <1>1, <1>9 DEF q
  <2> QED
    BY <1>12, <1>15, <2>1
<1>18. Scopes(t, c)[Len(q)] = old
  BY <1>1, <1>9, <1>13 DEF old, q
<1> QED
  BY <1>4, <1>5, <1>7, <1>11, <1>13, <1>14, <1>16, <1>17, <1>18 DEF u, old, fresh, q

-----------------------------------------------------------------------------
(* The invariant. *)

Entries == [op : StackOps, from : Nat]

IsSequence(s) == \E S : s \in Seq(S)

TypeInv == /\ ContextsInv(ctxs) /\ here \in 1 .. Len(ctxs)
           /\ stack \in Seq(Entries)
           /\ IsSequence(ast)

DepthInv == /\ Depth >= 1 + Cardinality(BlockEntries)
            /\ ~Unstacked => Depth = 1 + Cardinality(BlockEntries)

\* While its parameter is read, a lambda has declared nothing.
ParamInv == ph = "param" => /\ Len(ast) <= MaxItems
                            /\ Vars(here) = EmptyEnv
                            /\ TopOp = "lambda_params"

ParserInv == TypeInv /\ DepthInv /\ ParamInv

-----------------------------------------------------------------------------
(* What a step does to the parsing stack and to the AST. *)

SameBlocks == stack' \in Seq(Entries) /\ BlockEntries' = BlockEntries

PushedBlock == /\ stack' \in Seq(Entries)
               /\ \E i : i \notin BlockEntries /\ BlockEntries' = BlockEntries \cup {i}

PoppedBlock == /\ stack' \in Seq(Entries)
               /\ \E i \in BlockEntries : BlockEntries' = BlockEntries \ {i}

AstGrows == /\ IsSequence(ast')
            /\ \A i \in 1 .. Len(ast) : i \in 1 .. Len(ast') /\ ast'[i] = ast[i]

\* A stack has finitely many entries of blocks.
LEMMA BlocksFinite ==
  ASSUME NEW s \in Seq(Entries)
  PROVE  IsFiniteSet({i \in DOMAIN s : s[i].op \in BlockOps})
<1>1. Len(s) \in Nat /\ DOMAIN s = 1 .. Len(s)
  BY LenProperties
<1>2. IsFiniteSet(1 .. Len(s))
  BY <1>1, FS_Interval
<1> QED
  BY <1>1, <1>2, FS_Subset

\* So has the parsing stack.
LEMMA BlockEntriesFinite ==
  ASSUME TypeInv
  PROVE  IsFiniteSet(BlockEntries) /\ Cardinality(BlockEntries) \in Nat
<1>1. IsFiniteSet(BlockEntries)
  BY BlocksFinite DEF TypeInv, BlockEntries
<1> QED
  BY <1>1, FS_CardinalityType

\* An entry that opens a context is pushed.
LEMMA PushBlock ==
  ASSUME TypeInv, NEW op \in BlockOps, stack' = Append(stack, Entry(op))
  PROVE  PushedBlock
<1>1. Len(ast) \in Nat
  BY LenProperties DEF TypeInv, IsSequence
<1>2. Entry(op) \in Entries /\ Entry(op).op = op
  BY <1>1 DEF Entry, Entries, StackOps
<1>3. stack \in Seq(Entries) /\ Len(stack) \in Nat /\ DOMAIN stack = 1 .. Len(stack)
  BY LenProperties DEF TypeInv
<1>4. /\ stack' \in Seq(Entries) /\ DOMAIN stack' = 1 .. Len(stack) + 1
      /\ \A i \in 1 .. Len(stack) : stack'[i] = stack[i]
      /\ stack'[Len(stack) + 1] = Entry(op)
  BY <1>2, <1>3, AppendProperties, LenProperties
<1>5. Len(stack) + 1 \notin BlockEntries /\ BlockEntries' = BlockEntries \cup {Len(stack) + 1}
  BY <1>2, <1>3, <1>4 DEF BlockEntries
<1> QED
  BY <1>4, <1>5 DEF PushedBlock

\* The entry of a call opens none.
LEMMA PushCall ==
  ASSUME TypeInv, stack' = Append(stack, Entry("func_call"))
  PROVE  SameBlocks
<1>1. Len(ast) \in Nat
  BY LenProperties DEF TypeInv, IsSequence
<1>2. Entry("func_call") \in Entries /\ Entry("func_call").op \notin BlockOps
  BY <1>1 DEF Entry, Entries, StackOps, BlockOps, BodyOps
<1>3. stack \in Seq(Entries) /\ Len(stack) \in Nat /\ DOMAIN stack = 1 .. Len(stack)
  BY LenProperties DEF TypeInv
<1>4. /\ stack' \in Seq(Entries) /\ DOMAIN stack' = 1 .. Len(stack) + 1
      /\ \A i \in 1 .. Len(stack) : stack'[i] = stack[i]
      /\ stack'[Len(stack) + 1] = Entry("func_call")
  BY <1>2, <1>3, AppendProperties, LenProperties
<1>5. BlockEntries' = BlockEntries
  BY <1>2, <1>3, <1>4 DEF BlockEntries
<1> QED
  BY <1>4, <1>5 DEF SameBlocks

\* The top of a stack that is not empty.
LEMMA TopEntry ==
  ASSUME TypeInv, TopOp # "none"
  PROVE  /\ stack \in Seq(Entries) /\ Len(stack) \in Nat \ {0} /\ DOMAIN stack = 1 .. Len(stack)
         /\ TopOp = stack[Len(stack)].op
<1> QED
  BY EmptySeq, LenProperties DEF TypeInv, TopOp, Top

\* The entry on top becomes one of another part of the same construct.
LEMMA BecomeBlock ==
  ASSUME TypeInv, TopOp \in BlockOps, NEW op \in BlockOps, Become(op)
  PROVE  SameBlocks
<1>1. /\ stack \in Seq(Entries) /\ Len(stack) \in Nat \ {0} /\ DOMAIN stack = 1 .. Len(stack)
      /\ TopOp = stack[Len(stack)].op
  BY TopEntry DEF BlockOps, BodyOps
<1>2. [stack[Len(stack)] EXCEPT !.op = op] \in Entries
  <2>1. stack[Len(stack)] \in Entries
    BY <1>1, ElementOfSeq
  <2> QED
    BY <2>1 DEF Entries, StackOps
<1>3. stack' = [stack EXCEPT ![Len(stack)] = [stack[Len(stack)] EXCEPT !.op = op]]
  BY DEF Become
<1>4. /\ stack' \in Seq(Entries) /\ DOMAIN stack' = 1 .. Len(stack)
      /\ \A i \in 1 .. Len(stack) : i # Len(stack) => stack'[i] = stack[i]
      /\ stack'[Len(stack)].op = op
  <2>1. stack[Len(stack)] \in Entries
    BY <1>1, ElementOfSeq
  <2> QED
    BY <1>1, <1>2, <1>3, <2>1, ExceptSeq, LenProperties DEF Entries
<1>5. \A i \in 1 .. Len(stack) : stack'[i].op \in BlockOps <=> stack[i].op \in BlockOps
  BY <1>1, <1>4
<1>6. BlockEntries' = BlockEntries
  BY <1>1, <1>4, <1>5 DEF BlockEntries
<1> QED
  BY <1>4, <1>6 DEF SameBlocks

\* The entry on top is popped.
LEMMA PopEntry ==
  ASSUME TypeInv, TopOp # "none", Pop
  PROVE  /\ TopOp \in BlockOps => PoppedBlock
         /\ TopOp = "func_call" => SameBlocks
<1>1. /\ stack \in Seq(Entries) /\ Len(stack) \in Nat \ {0} /\ DOMAIN stack = 1 .. Len(stack)
      /\ TopOp = stack[Len(stack)].op
  BY TopEntry
<1>2. /\ stack' \in Seq(Entries) /\ DOMAIN stack' = 1 .. Len(stack) - 1
      /\ \A i \in 1 .. Len(stack) - 1 : stack'[i] = stack[i]
  BY <1>1 DEF Pop, Outer
<1>3. TopOp \in BlockOps => /\ Len(stack) \in BlockEntries
                            /\ BlockEntries' = BlockEntries \ {Len(stack)}
  BY <1>1, <1>2 DEF BlockEntries
<1>4. ASSUME TopOp = "func_call"
      PROVE  BlockEntries' = BlockEntries
  <2>1. stack[Len(stack)].op \notin BlockOps
    BY <1>1, <1>4 DEF BlockOps, BodyOps
  <2>2. \A i \in 1 .. Len(stack) : stack[i].op \in BlockOps => i \in 1 .. Len(stack) - 1
    BY <1>1, <2>1
  <2> QED
    BY <1>1, <1>2, <2>2 DEF BlockEntries
<1> QED
  BY <1>2, <1>3, <1>4 DEF PoppedBlock, SameBlocks

\* Items are added to the AST.
LEMMA AstAppended ==
  ASSUME IsSequence(ast), NEW items, IsSequence(items), ast' = ast \o items
  PROVE  AstGrows
<1>1. PICK S : ast \in Seq(S)
  BY DEF IsSequence
<1>2. PICK T : items \in Seq(T)
  BY DEF IsSequence
<1>3. ast \in Seq(S \cup T) /\ items \in Seq(S \cup T)
  BY <1>1, <1>2, SeqMonotonic
<1>4. /\ ast' \in Seq(S \cup T) /\ Len(ast') = Len(ast) + Len(items)
      /\ Len(ast) \in Nat /\ Len(items) \in Nat
      /\ \A i \in 1 .. Len(ast) : ast'[i] = ast[i]
  BY <1>3, ConcatProperties, LenProperties
<1> QED
  BY <1>4 DEF AstGrows, IsSequence

\* One item is added to the AST.
LEMMA AstAdded ==
  ASSUME IsSequence(ast), NEW item, Add(item)
  PROVE  AstGrows /\ Len(ast) \in Nat /\ Len(ast') = Len(ast) + 1
<1>1. PICK S : ast \in Seq(S)
  BY DEF IsSequence
<1>2. ast \in Seq(S \cup {item}) /\ item \in S \cup {item}
  BY <1>1, SeqMonotonic
<1>3. /\ ast' \in Seq(S \cup {item}) /\ Len(ast') = Len(ast) + 1
      /\ Len(ast) \in Nat
      /\ \A i \in 1 .. Len(ast) : ast'[i] = ast[i]
  BY <1>2, AppendProperties, LenProperties DEF Add
<1> QED
  BY <1>3 DEF AstGrows, IsSequence

\* A name is added, behind the index of an array or not.
LEMMA AstNamed ==
  ASSUME IsSequence(ast), NEW subscript \in Subscripts, NEW item,
         ast' = ast \o subscript \o << item >>
  PROVE  AstGrows
<1>1. PICK S : ast \in Seq(S)
  BY DEF IsSequence
<1> DEFINE T == S \cup {item} \cup {Item("index", n, here, Undeclared) : n \in Indices}
<1>2. ast \in Seq(T)
  BY <1>1, SeqMonotonic
<1>3. subscript \in Seq(T)
  <2>1. CASE subscript = << >>
    BY <2>1, EmptySeq
  <2>2. CASE \E n \in Indices : subscript = << Item("index", n, here, Undeclared) >>
    <3>1. PICK a \in T : subscript = << a >>
      BY <2>2
    <3> HIDE DEF T
    <3> QED
      BY <3>1
  <2> QED
    BY <2>1, <2>2 DEF Subscripts
<1>4. << item >> \in Seq(T)
  <2>1. item \in T
    OBVIOUS
  <2> HIDE DEF T
  <2> QED
    BY <2>1
<1> HIDE DEF T
<1>5. /\ subscript \o << item >> \in Seq(T)
      /\ ast \o (subscript \o << item >>) = (ast \o subscript) \o << item >>
  BY <1>2, <1>3, <1>4, ConcatProperties, ConcatAssociative
<1>6. ast' = ast \o (subscript \o << item >>) /\ IsSequence(subscript \o << item >>)
  BY <1>5 DEF IsSequence
<1> QED
  BY <1>6, AstAppended

\* The AST is left alone.
LEMMA AstSame ==
  ASSUME IsSequence(ast), ast' = ast
  PROVE  AstGrows
<1> QED
  BY DEF AstGrows

\* A `( ) { }` stays in the AST.
LEMMA UnstackedStays ==
  ASSUME IsSequence(ast), AstGrows, Unstacked
  PROVE  Unstacked'
<1>1. Len(ast) \in Nat /\ Len(ast') \in Nat
  BY LenProperties DEF AstGrows, IsSequence
<1>2. PICK i \in 1 .. Len(ast) - 1 : ast[i].k = "func" /\ ast[i + 1].k = "nobody"
  BY DEF Unstacked
<1>3. i \in 1 .. Len(ast) /\ i + 1 \in 1 .. Len(ast)
  BY <1>1, <1>2
<1>4. /\ i + 1 \in 1 .. Len(ast') /\ i \in 1 .. Len(ast') - 1
      /\ ast'[i] = ast[i] /\ ast'[i + 1] = ast[i + 1]
  BY <1>1, <1>3 DEF AstGrows
<1> QED
  BY <1>2, <1>4 DEF Unstacked

-----------------------------------------------------------------------------
(***************************************************************************)
(* What a step does to the contexts and to the stack together: every       *)
(* action of the parser does one of these (ActionEffect), and each of them *)
(* is a step of the table of scopes and keeps TypeInv and DepthInv.        *)
(***************************************************************************)
Kept == here' = here /\ ctxs' = ctxs

Idle      == Kept /\ found' = found /\ SameBlocks
LookedUp  == /\ Kept /\ SameBlocks
             /\ \E x \in Names : Visible(here, x) /\ found' = GetVar(here, x)
StackLost == Kept /\ found' = found /\ stack' = << >> /\ Unstacked'
Declares  == /\ found' = found /\ here' = here /\ SameBlocks
             /\ \E x \in Names, m \in Meanings :
                  /\ ~IsBound(Vars(here), x)
                  /\ ctxs' = [ctxs EXCEPT ![here].vars = SetEnv(@, x, m)]
Opened    == OpenContext /\ found' = found /\ PushedBlock
Closed    == CloseContext /\ found' = found /\ PoppedBlock
Reopened  == /\ ctxs' = NewContext(ctxs, Parent(here)) /\ here' = Len(ctxs) + 1
             /\ found' = found /\ SameBlocks /\ BlockEntries # {}

Effect == Idle \/ LookedUp \/ StackLost \/ Declares \/ Opened \/ Closed \/ Reopened

\* What a lemma about an effect shows.
Simulates == /\ (ContextsInv(ctxs) /\ here \in 1 .. Len(ctxs))'
             /\ DepthInv'
             /\ [Table!Next]_(Table!table)

\* The open scopes, now and after a step.
LEMMA OpenScopesAre ==
  /\ OpenScopes = Scopes(ctxs, here)
  /\ OpenScopes' = Scopes(ctxs', here')
  BY DEF OpenScopes, Scopes, ScopeOf, ScopeIn, Chain, Vars

\* There are as many open scopes as contexts on the chain.
LEMMA ScopesType ==
  ASSUME TypeInv
  PROVE  /\ Depth \in Nat \ {0} /\ DOMAIN Chain(here) = 1 .. Depth
         /\ DOMAIN OpenScopes = 1 .. Depth /\ Len(OpenScopes) = Depth
<1>1. DOMAIN Chain(here) = 1 .. Depth /\ Depth \in Nat
  BY ChainType DEF TypeInv, Chain, Depth
<1>2. Depth > 0
  BY DEF TypeInv, ContextsInv, ChainInv, Depth, Chain
<1>3. OpenScopes = [i \in 1 .. Depth |-> ScopeOf(Chain(here)[i])]
  BY <1>1 DEF OpenScopes
<1> QED
  BY <1>1, <1>2, <1>3

\* Nothing is opened or closed.
LEMMA KeptDepth ==
  ASSUME ParserInv, AstGrows, here' = here, Chain(here)' = Chain(here), SameBlocks
  PROVE  DepthInv'
<1>1. Depth' = Depth /\ BlockEntries' = BlockEntries
  BY DEF Depth, SameBlocks
<1>2. Unstacked => Unstacked'
  BY UnstackedStays DEF ParserInv, TypeInv
<1> QED
  BY <1>1, <1>2 DEF ParserInv, DepthInv

\* Contexts and stack are left alone: the table stutters.
LEMMA IdleStep ==
  ASSUME ParserInv, AstGrows, Idle
  PROVE  Simulates
<1>1. DepthInv'
  BY KeptDepth DEF Idle, Kept, Chain
<1>2. OpenScopes' = OpenScopes
  BY OpenScopesAre DEF Idle, Kept
<1> QED
  BY <1>1, <1>2 DEF Simulates, Idle, Kept, ParserInv, TypeInv, Table!table

\* The innermost context that binds x is the innermost scope that declares it.
LEMMA VisibleIsDeclared ==
  ASSUME TypeInv, NEW x \in Names, Visible(here, x)
  PROVE  /\ Table!Declaring(x) # {}
         /\ OpenScopes[Table!Innermost(x)][x] = GetVar(here, x)
<1> DEFINE S == BoundIn(here, x)
<1>1. S \subseteq 1 .. Depth /\ S # {}
  BY ScopesType DEF BoundIn, Visible
<1>2. \A i \in 1 .. Depth : OpenScopes[i] = ScopeOf(Chain(here)[i])
  BY ScopesType DEF OpenScopes
<1>3. \A c : IsBound(Vars(c), x) <=> x \in DOMAIN ScopeOf(c)
  BY DEF IsBound, Bound, ScopeOf, NamesOf
<1>4. Table!Declaring(x) = S
  BY <1>2, <1>3, ScopesType DEF Table!Declaring, BoundIn
<1> DEFINE top == CHOOSE i \in S : \A j \in S : j <= i
<1>5. \E i \in S : \A j \in S : j <= i
  BY <1>1, ScopesType, Greatest
<1>6. top \in S
  BY <1>5
<1>7. Table!Innermost(x) = top
  BY <1>4 DEF Table!Innermost
<1>8. GetVar(here, x) = GetEnv(Vars(Chain(here)[top]), x)
  BY DEF GetVar
<1> HIDE DEF top, S
<1>9. ScopeOf(Chain(here)[top])[x] = GetEnv(Vars(Chain(here)[top]), x)
  <2>1. x \in DOMAIN ScopeOf(Chain(here)[top])
    BY <1>3, <1>6 DEF S, BoundIn
  <2> QED
    BY <2>1 DEF ScopeOf
<1> QED
  BY <1>1, <1>2, <1>4, <1>6, <1>7, <1>8, <1>9

\* A lookup of the parser is one of the table.
LEMMA LookedUpStep ==
  ASSUME ParserInv, AstGrows, LookedUp
  PROVE  Simulates
<1>1. DepthInv'
  BY KeptDepth DEF LookedUp, Kept, Chain
<1>2. OpenScopes' = OpenScopes
  BY OpenScopesAre DEF LookedUp, Kept
<1>3. PICK x \in Names : Visible(here, x) /\ found' = GetVar(here, x)
  BY DEF LookedUp
<1>4. Table!Lookup
  BY <1>2, <1>3, VisibleIsDeclared DEF Table!Lookup, ParserInv
<1> QED
  BY <1>1, <1>4 DEF Simulates, LookedUp, Kept, ParserInv, TypeInv, Table!Next

\* A lambda `( ) { }` empties the stack and leaves the contexts: the table
\* stutters, and the chain is deeper than the stack from now on.
LEMMA StackLostStep ==
  ASSUME ParserInv, AstGrows, StackLost
  PROVE  Simulates
<1>1. BlockEntries' = {}
  BY DEF StackLost, BlockEntries
<1>2. Depth' = Depth /\ Depth \in Nat \ {0}
  BY ScopesType DEF StackLost, Kept, Depth, Chain, ParserInv
<1>3. DepthInv'
  BY <1>1, <1>2, FS_EmptySet DEF DepthInv, StackLost
<1>4. OpenScopes' = OpenScopes
  BY OpenScopesAre DEF StackLost, Kept
<1> QED
  BY <1>3, <1>4 DEF Simulates, StackLost, Kept, ParserInv, TypeInv, Table!table

\* A declaration of the parser is one of the table.
LEMMA DeclaresStep ==
  ASSUME ParserInv, AstGrows, Declares
  PROVE  Simulates
<1>1. PICK x \in Names, m \in Meanings :
        /\ ~IsBound(Vars(here), x)
        /\ ctxs' = [ctxs EXCEPT ![here].vars = SetEnv(@, x, m)]
  BY DEF Declares
<1> DEFINE old == ScopeIn(ctxs, here)
<1>2. /\ ContextsInv(ctxs') /\ Len(ctxs') = Len(ctxs) /\ ctxs'[here].chain = ctxs[here].chain
      /\ x \notin DOMAIN old
      /\ Scopes(ctxs, here)[Len(ctxs[here].chain)] = old
      /\ Scopes(ctxs', here)
           = Append(SubSeq(Scopes(ctxs, here), 1, Len(ctxs[here].chain) - 1), WithName(old, x, m))
  <2>1. ContextsInv(ctxs) /\ here \in 1 .. Len(ctxs) /\ ~IsBound(ctxs[here].vars, x)
    BY <1>1 DEF ParserInv, TypeInv, Vars
  <2>2. ctxs' = BoundThere(ctxs, here, x, m)
    BY <1>1 DEF BoundThere
  <2> QED
    BY <2>1, <2>2, DeclaredTree
<1>3. DepthInv'
  BY <1>2, KeptDepth DEF Declares, Chain
<1>4. Len(OpenScopes) = Len(ctxs[here].chain)
  BY ScopesType DEF ParserInv, Depth, Chain
<1>5. OpenScopes[Len(OpenScopes)] = old
  BY <1>2, <1>4, OpenScopesAre
<1> HIDE DEF old
<1>6. OpenScopes' = Append(SubSeq(OpenScopes, 1, Len(OpenScopes) - 1), WithName(old, x, m))
  BY <1>2, <1>4, OpenScopesAre DEF Declares
<1>7. Table!Declare
  <2>1. x \in Names \ DOMAIN old /\ found' = found
    BY <1>2 DEF Declares
  <2> QED
    BY <1>5, <1>6, <2>1, Zenon DEF Table!Declare, Table!Current, Table!Outer, WithName
<1> QED
  BY <1>2, <1>3, <1>7 DEF Simulates, Declares, ParserInv, TypeInv, Table!Next

\* A new context is a new scope.
LEMMA OpenedStep ==
  ASSUME ParserInv, AstGrows, Opened
  PROVE  Simulates
<1>1. ContextsInv(ctxs) /\ here \in 1 .. Len(ctxs) /\ Len(ctxs) \in Nat
  BY LenProperties DEF ParserInv, TypeInv, ContextsInv
<1>2. /\ ctxs' = NewContext(ctxs, here) /\ here' = Len(ctxs) + 1
      /\ ContextsInv(ctxs') /\ Len(ctxs') = Len(ctxs) + 1
      /\ Scopes(ctxs', here') = Append(Scopes(ctxs, here), Empty)
      /\ Len(ctxs'[here'].chain) = Len(ctxs[here].chain) + 1
  BY <1>1, NewContextTree, NewContextScopes DEF Opened, OpenContext
<1>3. Depth' = Depth + 1
  BY <1>2 DEF Depth, Chain
<1>4. Cardinality(BlockEntries') = Cardinality(BlockEntries) + 1
  BY BlockEntriesFinite, FS_AddElement DEF Opened, PushedBlock, ParserInv
<1>5. DepthInv'
  <2>1. Unstacked => Unstacked'
    BY UnstackedStays DEF ParserInv, TypeInv
  <2>2. Depth \in Nat /\ Cardinality(BlockEntries) \in Nat
    BY ScopesType, BlockEntriesFinite DEF ParserInv
  <2> QED
    BY <1>3, <1>4, <2>1, <2>2 DEF ParserInv, DepthInv
<1>6. Table!Open
  BY <1>2, OpenScopesAre DEF Table!Open, Table!NoNames, Empty, Opened
<1> QED
  BY <1>1, <1>2, <1>5, <1>6 DEF Simulates, Table!Next

\* There is a parent where a block is open, and the scopes around it.
LEMMA BlockHasParent ==
  ASSUME ParserInv, BlockEntries # {}
  PROVE  /\ Depth > 1 /\ Parent(here) \in 1 .. Len(ctxs)
         /\ Len(ctxs[Parent(here)].chain) = Depth - 1
         /\ Scopes(ctxs, Parent(here)) = SubSeq(OpenScopes, 1, Len(OpenScopes) - 1)
<1>1. Cardinality(BlockEntries) \in Nat \ {0}
  BY BlockEntriesFinite, FS_EmptySet DEF ParserInv
<1>2. Depth > 1 /\ Depth = Len(ctxs[here].chain) /\ Depth = Len(OpenScopes)
  BY <1>1, ScopesType DEF ParserInv, DepthInv, Depth, Chain
<1>3. Parent(here) = ctxs[here].chain[Len(ctxs[here].chain) - 1]
  BY <1>2, ParentScopes DEF Parent, Chain, ParserInv, TypeInv
<1> QED
  BY <1>2, <1>3, ParentScopes, OpenScopesAre DEF ParserInv, TypeInv

\* Going back to the parent closes the innermost scope.
LEMMA ClosedStep ==
  ASSUME ParserInv, AstGrows, Closed
  PROVE  Simulates
<1>1. BlockEntries # {}
  BY DEF Closed, PoppedBlock
<1>2. ctxs' = ctxs /\ here' = Parent(here)
  BY DEF Closed, CloseContext
<1>3. Depth' = Depth - 1 /\ here' \in 1 .. Len(ctxs')
  BY <1>1, <1>2, BlockHasParent DEF Depth, Chain
<1>4. Cardinality(BlockEntries') = Cardinality(BlockEntries) - 1
  BY BlockEntriesFinite, FS_RemoveElement DEF Closed, PoppedBlock, ParserInv
<1>5. DepthInv'
  <2>1. Unstacked => Unstacked'
    BY UnstackedStays DEF ParserInv, TypeInv
  <2>2. Depth \in Nat /\ Cardinality(BlockEntries) \in Nat
    BY ScopesType, BlockEntriesFinite DEF ParserInv
  <2> QED
    BY <1>3, <1>4, <2>1, <2>2 DEF ParserInv, DepthInv
<1>6. Len(OpenScopes) > 1
  BY <1>1, BlockHasParent, ScopesType DEF ParserInv
<1>7. Table!Close
  BY <1>1, <1>2, <1>6, BlockHasParent, OpenScopesAre DEF Table!Close, Table!Outer, Closed
<1> QED
  BY <1>2, <1>3, <1>5, <1>7 DEF Simulates, Table!Next, ParserInv, TypeInv

\* `else`: a scope is closed and another one opened.
LEMMA ReopenedStep ==
  ASSUME ParserInv, AstGrows, Reopened
  PROVE  Simulates
<1>1. /\ Depth > 1 /\ Depth \in Nat /\ Parent(here) \in 1 .. Len(ctxs)
      /\ Len(ctxs[Parent(here)].chain) = Depth - 1
      /\ Scopes(ctxs, Parent(here)) = SubSeq(OpenScopes, 1, Len(OpenScopes) - 1)
      /\ Len(OpenScopes) = Depth
  BY BlockHasParent, ScopesType DEF Reopened, ParserInv
<1>2. ContextsInv(ctxs) /\ Len(ctxs) \in Nat
  BY LenProperties DEF ParserInv, TypeInv, ContextsInv
<1>3. /\ ContextsInv(ctxs') /\ Len(ctxs') = Len(ctxs) + 1 /\ here' = Len(ctxs) + 1
      /\ Scopes(ctxs', here') = Append(Scopes(ctxs, Parent(here)), Empty)
      /\ Len(ctxs'[here'].chain) = Len(ctxs[Parent(here)].chain) + 1
  BY <1>1, <1>2, NewContextTree, NewContextScopes DEF Reopened
<1>4. Depth' = Depth
  BY <1>1, <1>3 DEF Depth, Chain
<1>5. DepthInv'
  <2>1. Unstacked => Unstacked'
    BY UnstackedStays DEF ParserInv, TypeInv
  <2> QED
    BY <1>4, <2>1 DEF ParserInv, DepthInv, Reopened, SameBlocks
<1>6. Table!Reopen
  BY <1>1, <1>3, OpenScopesAre DEF Table!Reopen, Table!Outer, Table!NoNames, Empty, Reopened
<1> QED
  BY <1>2, <1>3, <1>5, <1>6 DEF Simulates, Table!Next

\* Every effect is a step of the table and keeps the invariant.
LEMMA EffectStep ==
  ASSUME ParserInv, AstGrows, Effect
  PROVE  Simulates
<1> QED
  BY IdleStep, LookedUpStep, StackLostStep, DeclaresStep, OpenedStep, ClosedStep, ReopenedStep DEF Effect

-----------------------------------------------------------------------------
(* The actions. *)

ActionOK == AstGrows /\ Effect /\ ParamInv'

\* ParamInv says something of one phase only.
LEMMA NotParam ==
  ASSUME ph' # "param"
  PROVE  ParamInv'
<1> QED
  BY DEF ParamInv

\* The stack is left alone.
LEMMA SameStack ==
  ASSUME TypeInv, stack' = stack
  PROVE  SameBlocks
<1> QED
  BY DEF SameBlocks, BlockEntries, TypeInv

\* The lists of items that are added.
LEMMA Pairs ==
  /\ \A a : IsSequence(<< a >>)
  /\ \A a, b : IsSequence(<< a, b >>)
  /\ \A a, b, c : IsSequence(<< a, b, c >>)
<1>1. ASSUME NEW a, NEW b, NEW c
      PROVE  /\ << a >> \in Seq({a, b, c}) /\ << a, b >> \in Seq({a, b, c})
             /\ << a, b, c >> \in Seq({a, b, c})
  OBVIOUS
<1> QED
  BY <1>1 DEF IsSequence

\* A step that only adds items to the AST.
LEMMA JustAdds ==
  ASSUME TypeInv, AstGrows, ph' # "param", UNCHANGED << ctxs, here, stack, found >>
  PROVE  ActionOK
<1>1. Idle
  BY SameStack DEF Idle, Kept
<1> QED
  BY <1>1, NotParam DEF ActionOK, Effect

\* print_error.
LEMMA Rejects ==
  ASSUME TypeInv, Reject
  PROVE  ActionOK
<1>1. AstGrows
  BY AstSame DEF Reject, TypeInv
<1> QED
  BY <1>1, JustAdds DEF Reject

\* Literals, prefixes, operators, separators and the end of the file add to the AST
\* at most.
LEMMA OperandsOK ==
  ASSUME ParserInv, ParseInt \/ ParsePrefix \/ ParseInfix \/ NextArg \/ NextStatement \/ EndOfFile
  PROVE  ActionOK
<1>1. TypeInv /\ IsSequence(ast)
  BY DEF ParserInv, TypeInv
<1>2. AstGrows
  BY <1>1, AstAdded, AstSame DEF ParseInt, ParsePrefix, ParseInfix, NextArg, NextStatement, EndOfFile
<1>3. ph' # "param" /\ UNCHANGED << ctxs, here, stack, found >>
  BY DEF ParseInt, AfterOperand, ParsePrefix, ParseInfix, NextArg, NextStatement, EndOfFile
<1> QED
  BY <1>1, <1>2, <1>3, JustAdds

\* A name that is visible is looked up, and the stack keeps its blocks.
LEMMA LooksUp ==
  ASSUME TypeInv, AstGrows, ph' # "param", UNCHANGED << ctxs, here >>, SameBlocks,
         NEW x \in Names, Visible(here, x), found' = GetVar(here, x)
  PROVE  ActionOK
<1>1. LookedUp
  BY DEF LookedUp, Kept
<1> QED
  BY <1>1, NotParam DEF ActionOK, Effect

\* A variable or an element, alone or as the target of an assignment.
LEMMA ParseVarOK ==
  ASSUME ParserInv, ParseVar \/ ParseAssign
  PROVE  ActionOK
<1>1. TypeInv /\ IsSequence(ast)
  BY DEF ParserInv, TypeInv
<1>2. PICK x \in Names, subscript \in Subscripts, item \in {"use", "set"},
           next \in {"after", "closed", "operand"} :
        Lookup(x, subscript, item, next) /\ stack' = stack
  BY DEF ParseVar, ParseAssign, AfterOperand
<1>3. CASE Visible(here, x)
  <2>1. AstGrows
    BY <1>1, <1>2, <1>3, AstNamed DEF Lookup
  <2> QED
    BY <1>1, <1>2, <1>3, <2>1, LooksUp, SameStack DEF Lookup
<1>4. CASE ~Visible(here, x)
  BY <1>1, <1>2, <1>4, Rejects DEF Lookup
<1> QED
  BY <1>3, <1>4

\* A call with an argument.
LEMMA BeginCallOK ==
  ASSUME ParserInv, BeginCall
  PROVE  ActionOK
<1>1. TypeInv /\ IsSequence(ast)
  BY DEF ParserInv, TypeInv
<1>2. PICK x \in Names :
        /\ Lookup(x, << >>, "call", "operand")
        /\ IF Visible(here, x) THEN stack' = Append(stack, Entry("func_call")) ELSE UNCHANGED stack
  BY DEF BeginCall
<1>3. CASE Visible(here, x)
  <2>1. AstGrows
    <3>1. << >> \in Subscripts
      BY DEF Subscripts
    <3> QED
      BY <1>1, <1>2, <1>3, <3>1, AstNamed DEF Lookup
  <2>2. SameBlocks
    BY <1>1, <1>2, <1>3, PushCall
  <2> QED
    BY <1>1, <1>2, <1>3, <2>1, <2>2, LooksUp DEF Lookup
<1>4. CASE ~Visible(here, x)
  BY <1>1, <1>2, <1>4, Rejects DEF Lookup
<1> QED
  BY <1>3, <1>4

\* A call without arguments.
LEMMA ParseEmptyCallOK ==
  ASSUME ParserInv, ParseEmptyCall
  PROVE  ActionOK
<1>1. TypeInv /\ IsSequence(ast)
  BY DEF ParserInv, TypeInv
<1>2. PICK x \in Names :
        IF Visible(here, x)
        THEN /\ found' = GetVar(here, x)
             /\ ast' = ast \o << Item("call", x, here, GetVar(here, x)),
                                 Item("ret", x, here, GetVar(here, x)) >>
             /\ ph' = "after"
             /\ UNCHANGED << ctxs, here, stack >>
        ELSE Reject
  BY DEF ParseEmptyCall
<1>3. CASE Visible(here, x)
  <2>1. AstGrows
    BY <1>1, <1>2, <1>3, AstAppended, Pairs
  <2> QED
    BY <1>1, <1>2, <1>3, <2>1, LooksUp, SameStack
<1>4. CASE ~Visible(here, x)
  BY <1>1, <1>2, <1>4, Rejects
<1> QED
  BY <1>3, <1>4

\* Within the bound a new declaration has a meaning the table knows.
LEMMA NewMeaningType ==
  ASSUME TypeInv, Len(ast) <= MaxItems, NEW ty \in Types
  PROVE  NewMeaning(ty) \in Meanings
<1>1. Len(ast) \in Nat
  BY LenProperties DEF TypeInv, IsSequence
<1> QED
  BY <1>1, ContextsAssumption DEF NewMeaning, Meaning, Meanings

\* A declaration, with or without a value.
LEMMA DeclareOK ==
  ASSUME ParserInv, Declare
  PROVE  ActionOK
<1>1. TypeInv /\ IsSequence(ast)
  BY DEF ParserInv, TypeInv
<1>2. PICK x \in Names, ty \in Types :
        /\ Room("decl")
        /\ IF IsBound(Vars(here), x)
           THEN Reject
           ELSE /\ Declared(x, ty)
                /\ \/ /\ Add(Item("decl", x, here, NewMeaning(ty)))
                      /\ ph' = "closed"
                   \/ /\ ast' = ast \o << Item("decl", x, here, NewMeaning(ty)),
                                          Plain("next"),
                                          Item("set", x, here, NewMeaning(ty)) >>
                      /\ ph' = "operand"
                /\ UNCHANGED << here, stack, found >>
  BY DEF Declare
<1>3. CASE IsBound(Vars(here), x)
  BY <1>1, <1>2, <1>3, Rejects
<1>4. CASE ~IsBound(Vars(here), x)
  <2>1. AstGrows
    BY <1>1, <1>2, <1>4, AstAdded, AstAppended, Pairs
  <2>2. NewMeaning(ty) \in Meanings
    <3>1. Len(ast) \in Nat
      BY LenProperties, <1>1 DEF IsSequence
    <3>2. Len(ast) <= MaxItems
      BY <1>2, <3>1, ContextsAssumption DEF Room
    <3> QED
      BY <1>1, <3>2, NewMeaningType
  <2>3. Declares
    BY <1>1, <1>2, <1>4, <2>2, SameStack DEF Declares, Declared
  <2>4. ph' # "param"
    BY <1>2, <1>4
  <2> QED
    BY <2>1, <2>3, <2>4, NotParam DEF ActionOK, Effect
<1> QED
  BY <1>3, <1>4

\* A block is open if its entry is on top.
LEMMA BlocksOpen ==
  ASSUME TypeInv, TopOp \in BlockOps
  PROVE  BlockEntries # {} /\ TopOp # "none"
<1>1. TopOp # "none"
  BY DEF BlockOps, BodyOps
<1> QED
  BY <1>1, TopEntry DEF BlockEntries

\* `if`, and a lambda without parameters.
LEMMA BeginBlockOK ==
  ASSUME ParserInv, BeginIf \/ BeginPlainLambda
  PROVE  ActionOK
<1>1. TypeInv /\ IsSequence(ast)
  BY DEF ParserInv, TypeInv
<1>2. AstGrows
  BY <1>1, AstAdded, AstAppended, Pairs DEF BeginIf, BeginPlainLambda
<1>3. Opened
  <2>1. "if-cond" \in BlockOps /\ "lambda_body" \in BlockOps
    BY DEF BlockOps, BodyOps
  <2> QED
    BY <1>1, <2>1, PushBlock DEF BeginIf, BeginPlainLambda, Opened
<1> QED
  BY <1>2, <1>3, NotParam DEF ActionOK, Effect, BeginIf, BeginPlainLambda

\* The context of the parameters is new, and the lambda is within the bound.
LEMMA BeginLambdaOK ==
  ASSUME ParserInv, BeginLambda
  PROVE  ActionOK
<1>1. TypeInv /\ IsSequence(ast) /\ Len(ast) < MaxItems /\ Len(ast) \in Nat
  BY LenProperties DEF ParserInv, TypeInv, BeginLambda, Room, IsSequence
<1>2. AstGrows /\ Len(ast') = Len(ast) + 1
  BY <1>1, AstAdded DEF BeginLambda
<1>3. Opened
  <2>1. "lambda_params" \in BlockOps
    BY DEF BlockOps
  <2> QED
    BY <1>1, <2>1, PushBlock DEF BeginLambda, Opened
<1>4. Vars(here)' = EmptyEnv
  BY <1>1, NewContextScopes DEF BeginLambda, OpenContext, Vars, TypeInv
<1>5. TopOp' = "lambda_params"
  <2>1. Entry("lambda_params") \in Entries /\ Entry("lambda_params").op = "lambda_params"
    BY <1>1 DEF Entry, Entries, StackOps, BlockOps
  <2>2. stack \in Seq(Entries) /\ stack' = Append(stack, Entry("lambda_params"))
    BY <1>1 DEF TypeInv, BeginLambda
  <2>3. stack' # << >> /\ stack'[Len(stack')] = Entry("lambda_params")
    BY <2>1, <2>2, AppendProperties
  <2> QED
    BY <2>1, <2>3 DEF TopOp, Top
<1>6. ParamInv'
  BY <1>1, <1>2, <1>4, <1>5, ContextsAssumption DEF ParamInv
<1> QED
  BY <1>2, <1>3, <1>6 DEF ActionOK, Effect

\* The parameter is declared in the new context.
LEMMA ParseParamOK ==
  ASSUME ParserInv, ParseParam
  PROVE  ActionOK
<1>1. TypeInv /\ IsSequence(ast) /\ ph = "param"
  BY DEF ParserInv, TypeInv, ParseParam
<1>2. Len(ast) <= MaxItems /\ Vars(here) = EmptyEnv /\ TopOp = "lambda_params"
  BY <1>1 DEF ParserInv, ParamInv
<1>3. PICK x \in Names :
        /\ Declared(x, IntType)
        /\ Add(Item("param", x, here, NewMeaning(IntType)))
        /\ ph' = "closed"
        /\ UNCHANGED << here, stack, found >>
  BY DEF ParseParam
<1>4. AstGrows
  BY <1>1, <1>3, AstAdded
<1>5. NewMeaning(IntType) \in Meanings
  BY <1>1, <1>2, NewMeaningType, ContextsAssumption
<1>6. ~IsBound(Vars(here), x)
  BY <1>2 DEF IsBound, Bound, EmptyEnv
<1>7. SameBlocks
  BY <1>1, <1>3, SameStack
<1>8. Declares
  BY <1>3, <1>5, <1>6, <1>7 DEF Declares, Declared
<1> QED
  BY <1>3, <1>4, <1>8, NotParam DEF ActionOK, Effect

\* The body of a lambda with parameters is in their context.
LEMMA BeginLambdaBodyOK ==
  ASSUME ParserInv, BeginLambdaBody
  PROVE  ActionOK
<1>1. TypeInv /\ IsSequence(ast)
  BY DEF ParserInv, TypeInv
<1>2. AstGrows
  BY <1>1, AstAdded DEF BeginLambdaBody
<1>3. SameBlocks
  BY <1>1, BecomeBlock DEF BeginLambdaBody, BlockOps, BodyOps
<1>4. Idle
  BY <1>3 DEF Idle, Kept, BeginLambdaBody
<1> QED
  BY <1>2, <1>4, NotParam DEF ActionOK, Effect, BeginLambdaBody

\* The body of the condition is in the context of the condition.
LEMMA BeginThenOK ==
  ASSUME ParserInv, BeginThen
  PROVE  ActionOK
<1>1. TypeInv /\ IsSequence(ast)
  BY DEF ParserInv, TypeInv
<1>2. AstGrows
  BY <1>1, AstAdded DEF BeginThen
<1>3. SameBlocks
  BY <1>1, BecomeBlock DEF BeginThen, BlockOps, BodyOps
<1>4. Idle
  BY <1>3 DEF Idle, Kept, BeginThen
<1> QED
  BY <1>2, <1>4, NotParam DEF ActionOK, Effect, BeginThen

\* `} else {`.
LEMMA BeginElseOK ==
  ASSUME ParserInv, BeginElse
  PROVE  ActionOK
<1>1. TypeInv /\ IsSequence(ast)
  BY DEF ParserInv, TypeInv
<1>2. AstGrows
  BY <1>1, AstAdded DEF BeginElse
<1>3. TopOp \in BlockOps /\ "if-else-body" \in BlockOps
  BY DEF BeginElse, BlockOps, BodyOps
<1>4. SameBlocks /\ BlockEntries # {}
  BY <1>1, <1>3, BecomeBlock, BlocksOpen DEF BeginElse
<1>5. Reopened
  BY <1>4 DEF Reopened, BeginElse
<1> QED
  BY <1>2, <1>5, NotParam DEF ActionOK, Effect, BeginElse

\* `}` at the end of a body, or `{ }`.
LEMMA EndBlockOK ==
  ASSUME ParserInv, EmptyThen \/ EmptyLambdaBody \/ EndBlock
  PROVE  ActionOK
<1>1. TypeInv /\ IsSequence(ast)
  BY DEF ParserInv, TypeInv
<1>2. AstGrows
  BY <1>1, AstAdded, AstAppended, Pairs DEF EmptyThen, EmptyLambdaBody, EndBlock
<1>3. TopOp \in BlockOps
  BY DEF EmptyThen, EmptyLambdaBody, EndBlock, BlockOps
<1>4. PoppedBlock
  BY <1>1, <1>3, BlocksOpen, PopEntry DEF EmptyThen, EmptyLambdaBody, EndBlock
<1>5. Closed
  BY <1>4 DEF Closed, EmptyThen, EmptyLambdaBody, EndBlock
<1> QED
  BY <1>2, <1>5, NotParam DEF ActionOK, Effect, EmptyThen, EmptyLambdaBody, EndBlock

\* A lambda `( ) { }`.
LEMMA EmptyLambdaOK ==
  ASSUME ParserInv, EmptyLambda
  PROVE  ActionOK
<1> DEFINE items == << Plain("func"), Plain("nobody") >>
<1>1. IsSequence(ast) /\ IsSequence(items) /\ ast' = ast \o items
  BY Pairs DEF ParserInv, TypeInv, EmptyLambda
<1>2. AstGrows
  BY <1>1, AstAppended
<1>3. Unstacked'
  <2>1. PICK S : ast \in Seq(S)
    BY <1>1 DEF IsSequence
  <2>2. /\ ast \in Seq(S \cup {Plain("func"), Plain("nobody")})
        /\ items \in Seq(S \cup {Plain("func"), Plain("nobody")}) /\ Len(items) = 2
    BY <2>1, SeqMonotonic
  <2>3. /\ Len(ast) \in Nat /\ Len(ast') = Len(ast) + 2
        /\ ast'[Len(ast) + 1] = items[1] /\ ast'[Len(ast) + 2] = items[2]
    BY <1>1, <2>2, ConcatProperties, LenProperties
  <2>4. items[1].k = "func" /\ items[2].k = "nobody"
    BY DEF Plain, Item
  <2>5. /\ Len(ast) + 1 \in 1 .. Len(ast') - 1 /\ (Len(ast) + 1) + 1 = Len(ast) + 2
        /\ ast'[Len(ast) + 1].k = "func" /\ ast'[Len(ast) + 2].k = "nobody"
    BY <2>3, <2>4
  <2> QED
    BY <2>5 DEF Unstacked
<1>4. StackLost
  BY <1>3 DEF StackLost, Kept, EmptyLambda
<1> QED
  BY <1>2, <1>4, NotParam DEF ActionOK, Effect, EmptyLambda

\* `)`.
LEMMA EndCallOK ==
  ASSUME ParserInv, EndCall
  PROVE  ActionOK
<1>1. TypeInv /\ IsSequence(ast)
  BY DEF ParserInv, TypeInv
<1>2. PICK item : Add(item)
  BY DEF EndCall
<1>3. AstGrows
  BY <1>1, <1>2, AstAdded
<1>4. SameBlocks
  BY <1>1, PopEntry DEF EndCall
<1>5. Idle
  BY <1>4 DEF Idle, Kept, EndCall
<1> QED
  BY <1>3, <1>5, NotParam DEF ActionOK, Effect, EndCall

\* The end of the file where something is open.
LEMMA EndOfFileInsideOK ==
  ASSUME ParserInv, EndOfFileInside
  PROVE  ActionOK
<1> DEFINE hole   == IF ph = "param" THEN << >> ELSE << Plain("null") >>
           closes == [i \in DOMAIN stack |-> Closing(stack[Len(stack) + 1 - i])]
<1>1. TypeInv /\ IsSequence(ast)
  BY DEF ParserInv, TypeInv
<1>2. DOMAIN stack = 1 .. Len(stack) /\ Len(stack) \in Nat
  BY <1>1, LenProperties DEF TypeInv
<1>3. PICK S : ast \in Seq(S)
  BY <1>1 DEF IsSequence
<1> DEFINE T == S \cup {Plain("null")} \cup {closes[i] : i \in 1 .. Len(stack)}
<1>4. ast \in Seq(T)
  BY <1>3, SeqMonotonic
<1>5. hole \in Seq(T)
  <2>1. Plain("null") \in T
    OBVIOUS
  <2> HIDE DEF T
  <2>2. << >> \in Seq(T) /\ << Plain("null") >> \in Seq(T)
    BY <2>1, EmptySeq
  <2> QED
    BY <2>2
<1>6. closes \in Seq(T)
  BY <1>2
<1> HIDE DEF T, closes, hole
<1>7. hole \o closes \in Seq(T) /\ ast \o (hole \o closes) = (ast \o hole) \o closes
  BY <1>4, <1>5, <1>6, ConcatProperties, ConcatAssociative
<1>8. ast' = ast \o (hole \o closes)
  BY <1>7 DEF EndOfFileInside, hole, closes
<1>9. IsSequence(hole \o closes)
  BY <1>7 DEF IsSequence
<1>10. AstGrows
  BY <1>1, <1>8, <1>9, AstAppended
<1> QED
  BY <1>1, <1>10, JustAdds DEF EndOfFileInside

\* Every action has one of the effects.
LEMMA NextOK ==
  ASSUME ParserInv, ParserNext
  PROVE  ActionOK
<1>1. CASE ParseInt \/ ParsePrefix \/ ParseInfix \/ NextArg \/ NextStatement \/ EndOfFile
  BY <1>1, OperandsOK
<1>2. CASE ParseVar \/ ParseAssign
  BY <1>2, ParseVarOK
<1>3. CASE BeginCall
  BY <1>3, BeginCallOK
<1>4. CASE ParseEmptyCall
  BY <1>4, ParseEmptyCallOK
<1>5. CASE Declare
  BY <1>5, DeclareOK
<1>6. CASE BeginIf \/ BeginPlainLambda
  BY <1>6, BeginBlockOK
<1>7. CASE BeginThen
  BY <1>7, BeginThenOK
<1>8. CASE EmptyThen \/ EmptyLambdaBody \/ EndBlock
  BY <1>8, EndBlockOK
<1>9. CASE BeginElse
  BY <1>9, BeginElseOK
<1>10. CASE EmptyLambda
  BY <1>10, EmptyLambdaOK
<1>11. CASE BeginLambda
  BY <1>11, BeginLambdaOK
<1>12. CASE ParseParam
  BY <1>12, ParseParamOK
<1>13. CASE EndCall
  BY <1>13, EndCallOK
<1>14. CASE EndOfFileInside
  BY <1>14, EndOfFileInsideOK
<1>15. CASE BeginLambdaBody
  BY <1>15, BeginLambdaBodyOK
<1> QED
  BY <1>1, <1>2, <1>3, <1>4, <1>5, <1>6, <1>7, <1>8, <1>9, <1>10, <1>11, <1>12, <1>13, <1>14, <1>15
     DEF ParserNext

-----------------------------------------------------------------------------
(* The theorems. *)

\* The program starts in the global context, with one empty scope.
LEMMA ParserInvInit ==
  ASSUME ParserInit
  PROVE  ParserInv /\ Table!Init
<1> DEFINE c == Context(<< Global >>)
<1>1. c \in Node /\ c.chain = << 1 >> /\ c.vars = EmptyEnv
  <2>1. << 1 >> \in Seq(Nat) /\ << >> \in Seq(Nat) /\ << >> \in Seq(Bindings)
    BY EmptySeq
  <2> QED
    BY <2>1 DEF Context, Node, EmptyEnv, Global
<1> HIDE DEF c
<1>2. /\ ctxs = << c >> /\ here = 1 /\ stack = << >> /\ ast = << >> /\ ph = "statement"
      /\ found = Undeclared
  BY DEF ParserInit, DefaultContext, Global, c
<1>3. ctxs \in Seq(Node) /\ Len(ctxs) = 1 /\ ctxs[1] = c
  BY <1>1, <1>2
<1>4. ChainInv(ctxs, 1)
  <2>1. << 1 >> = SubSeq(<< 1 >>, 1, 1)
    OBVIOUS
  <2>2. Len(<< 1 >>) = 1 /\ << 1 >>[1] = 1
    OBVIOUS
  <2>3. \A i \in 1 .. 1 : i = 1
    OBVIOUS
  <2>4. ctxs[1].chain = << 1 >>
    BY <1>1, <1>3
  <2>5. ASSUME NEW i \in 1 .. 1
        PROVE  << 1 >>[i] \in 1 .. Len(ctxs) /\ ctxs[<< 1 >>[i]].chain = SubSeq(<< 1 >>, 1, i)
    <3>1. i = 1
      BY <2>3
    <3> QED
      BY <1>3, <2>1, <2>2, <2>4, <3>1
  <2> DEFINE q == ctxs[1].chain
  <2>6. /\ Len(q) = 1 /\ q[1] = 1
        /\ \A i \in 1 .. 1 : q[i] \in 1 .. Len(ctxs) /\ ctxs[q[i]].chain = SubSeq(q, 1, i)
    BY <2>2, <2>4, <2>5
  <2> HIDE DEF q
  <2>7. /\ Len(q) > 0 /\ q[1] = 1 /\ q[Len(q)] = 1
        /\ \A i \in 1 .. Len(q) : q[i] \in 1 .. Len(ctxs) /\ ctxs[q[i]].chain = SubSeq(q, 1, i)
    BY <2>6
  <2> QED
    BY <2>7 DEF ChainInv, Global, q
<1>5. TypeInv
  <2>1. stack \in Seq(Entries) /\ IsSequence(ast)
    BY <1>2, EmptySeq DEF IsSequence
  <2> QED
    BY <1>2, <1>3, <1>4, <2>1 DEF TypeInv, ContextsInv
<1>6. Depth = 1 /\ BlockEntries = {}
  BY <1>1, <1>2, <1>3 DEF Depth, Chain, BlockEntries
<1>7. ParserInv
  BY <1>2, <1>5, <1>6, FS_EmptySet DEF ParserInv, DepthInv, ParamInv
<1>8. OpenScopes = << Empty >>
  <2>1. Chain(here) = << 1 >> /\ Vars(1) = EmptyEnv
    BY <1>1, <1>2, <1>3 DEF Chain, Vars
  <2>2. ScopeOf(1) = Empty
    <3>1. NamesOf(EmptyEnv) = {}
      BY DEF NamesOf, EmptyEnv
    <3> QED
      BY <2>1, <3>1, Zenon DEF ScopeOf, Empty
  <2>3. OpenScopes = [i \in 1 .. 1 |-> Empty]
    BY <2>1, <2>2 DEF OpenScopes
  <2> QED
    BY <2>3
<1> QED
  BY <1>2, <1>7, <1>8 DEF Table!Init, Table!NoNames, Empty

\* The invariant is inductive, and every step is one of the table or a stutter.
LEMMA ParserInvStep ==
  ASSUME ParserInv, [ParserNext]_parserVars
  PROVE  ParserInv' /\ [Table!Next]_(Table!table)
<1>1. CASE ParserNext
  <2>1. AstGrows /\ Effect /\ ParamInv'
    BY <1>1, NextOK DEF ActionOK
  <2>2. Simulates
    BY <2>1, EffectStep
  <2>3. stack' \in Seq(Entries)
    BY <2>1, EmptySeq
       DEF Effect, Idle, LookedUp, StackLost, Declares, Opened, Closed, Reopened,
           SameBlocks, PushedBlock, PoppedBlock
  <2>4. TypeInv'
    BY <2>1, <2>2, <2>3 DEF TypeInv, Simulates, AstGrows
  <2> QED
    BY <2>1, <2>2, <2>4 DEF ParserInv, Simulates
<1>2. CASE UNCHANGED parserVars
  <2>1. UNCHANGED << ctxs, here, ast, stack, ph, found >>
    BY <1>2 DEF parserVars
  <2>2. TypeInv' /\ DepthInv' /\ ParamInv'
    BY <2>1 DEF ParserInv, TypeInv, DepthInv, ParamInv, Depth, Chain, Vars, Unstacked,
                BlockEntries, TopOp, Top
  <2>3. UNCHANGED Table!table
    BY <2>1, OpenScopesAre DEF Table!table
  <2> QED
    BY <2>2, <2>3 DEF ParserInv
<1> QED
  BY <1>1, <1>2

\* For programs of every size over all names, *context is as deep as the parsing
\* stack says as long as no lambda is `( ) { }`: the two are opened and closed
\* in the same places of parse_tokens and stack_operator_continue.
THEOREM StackCorrect == ParserSpec => []StackMatchesContext
<1>1. ParserInit => ParserInv
  BY ParserInvInit
<1>2. ParserInv /\ [ParserNext]_parserVars => ParserInv'
  BY ParserInvStep
<1>3. ParserInv => StackMatchesContext
  BY DEF ParserInv, DepthInv, StackMatchesContext
<1> QED
  BY <1>1, <1>2, <1>3, PTL DEF ParserSpec

\* The contexts of the parser implement nested scopes: create_parsing_context,
\* (*context)->parent_ctx, set_env and parser_get_var do what ScopeTable says, in
\* programs of every size, also after errors and at the end of the file.
THEOREM ScopesRefined == ParserSpec => ScopesAreATable
<1>1. ParserInit => ParserInv /\ Table!Init
  BY ParserInvInit
<1>2. ParserInv /\ [ParserNext]_parserVars => ParserInv' /\ [Table!Next]_(Table!table)
  BY ParserInvStep
<1> QED
  BY <1>1, <1>2, PTL DEF ParserSpec, ScopesAreATable, Table!Spec
=============================================================================
