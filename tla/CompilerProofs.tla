--------------------------- MODULE CompilerProofs ---------------------------
(***************************************************************************)
(* Theorems about the three passes together, for programs of every size,   *)
(* over every set of names and types.  The parser leaves an AST whose      *)
(* blocks are nested (AstInv, WordInvOf) and a tree of contexts whose      *)
(* lists of children are complete and in order (KidsInv); the type checker *)
(* and the code generator find their way by that (WalkProofs).             *)
(***************************************************************************)
EXTENDS Compiler, BlockParserProofs

-----------------------------------------------------------------------------
(* Labels. *)

\* The digits of a number exist: Digits satisfies its recursive definition.
\* The functions of its equation on 0 .. m exist for every m and agree.
LEMMA DigitsEquation ==
  \A n \in Nat : Digits[n] = IF n < 10 THEN 1 ELSE 1 + Digits[n \div 10]
<1> DEFINE Eq(g, m) == [n \in 0 .. m |-> IF n < 10 THEN 1 ELSE 1 + g[n \div 10]]
           Bad == {m \in Nat : ~\E g : g = Eq(g, m)}
           G(m) == CHOOSE g : g = Eq(g, m)
           D == [n \in Nat |-> G(n)[n]]
<1>1. Bad = {}
  <2> SUFFICES ASSUME Bad # {} PROVE FALSE
    OBVIOUS
  <2>1. PICK m \in Bad : \A k \in Bad : m <= k
    <3>1. Bad \in SUBSET Nat
      OBVIOUS
    <3> HIDE DEF Bad
    <3> QED
      BY <3>1, Least
  <2>2. m \in Nat /\ ~\E g : g = Eq(g, m)
    OBVIOUS
  <2>3. CASE m = 0
    <3> DEFINE g == [n \in 0 .. 0 |-> 1]
    <3>1. g = Eq(g, 0)
      OBVIOUS
    <3> QED
      BY <2>2, <2>3, <3>1
  <2>4. CASE m # 0
    <3>1. m - 1 \in Nat /\ m - 1 \notin Bad
      BY <2>1, <2>2, <2>4
    <3>2. PICK g : g = Eq(g, m - 1)
      BY <3>1
    <3> DEFINE h == [n \in 0 .. m |-> IF n = m THEN (IF m < 10 THEN 1 ELSE 1 + g[m \div 10]) ELSE g[n]]
    <3>3. \A n \in 0 .. m : h[n] = IF n < 10 THEN 1 ELSE 1 + h[n \div 10]
      <4> TAKE n \in 0 .. m
      <4>1. n >= 10 => n \div 10 \in 0 .. m /\ n \div 10 # m /\ n \div 10 \in 0 .. m - 1
        BY <2>2
      <4>2. n # m => n \in 0 .. m - 1 /\ g[n] = IF n < 10 THEN 1 ELSE 1 + g[n \div 10]
        BY <2>2, <3>2
      <4>3. CASE n = m
        BY <2>2, <4>1, <4>3
      <4>4. CASE n # m
        BY <2>2, <4>1, <4>2, <4>4
      <4> QED
        BY <4>3, <4>4
    <3>4. h = [n \in 0 .. m |-> h[n]]
      OBVIOUS
    <3> HIDE DEF h
    <3>5. h = Eq(h, m)
      BY <3>3, <3>4
    <3> QED
      BY <2>2, <3>5
  <2> QED
    BY <2>3, <2>4
<1>2. \A m \in Nat : G(m) = Eq(G(m), m)
  <2> TAKE m \in Nat
  <2>1. \E g : g = Eq(g, m)
    BY <1>1
  <2> HIDE DEF Eq
  <2> QED
    BY <2>1
<1> HIDE DEF G
<1>3. \A m, n \in Nat : n <= m => G(m)[n] = IF n < 10 THEN 1 ELSE 1 + G(m)[n \div 10]
  <2> TAKE m, n \in Nat
  <2>1. G(m) = Eq(G(m), m)
    BY <1>2
  <2> QED
    BY <2>1
<1>4. \A n \in Nat : \A m \in Nat : n <= m => G(m)[n] = G(n)[n]
  <2> DEFINE Off == {n \in Nat : \E m \in Nat : n <= m /\ G(m)[n] # G(n)[n]}
  <2> SUFFICES ASSUME Off # {} PROVE FALSE
    OBVIOUS
  <2>1. PICK n \in Off : \A k \in Off : n <= k
    <3>1. Off \in SUBSET Nat
      OBVIOUS
    <3> HIDE DEF Off
    <3> QED
      BY <3>1, Least
  <2>2. n \in Nat
    OBVIOUS
  <2>3. PICK m \in Nat : n <= m /\ G(m)[n] # G(n)[n]
    OBVIOUS
  <2>4. n >= 10
    BY <1>3, <2>2, <2>3
  <2> DEFINE k == n \div 10
  <2>5. k \in Nat /\ k < n /\ k <= m
    BY <2>2, <2>3, <2>4
  <2>6. k \notin Off
    BY <2>1, <2>2, <2>5
  <2> HIDE DEF k
  <2>7. G(m)[k] = G(n)[k]
    BY <2>2, <2>5, <2>6
  <2>8. G(m)[n] = 1 + G(m)[k] /\ G(n)[n] = 1 + G(n)[k]
    BY <1>3, <2>2, <2>3, <2>4 DEF k
  <2> QED
    BY <2>3, <2>7, <2>8
<1>5. D = [n \in Nat |-> IF n < 10 THEN 1 ELSE 1 + D[n \div 10]]
  <2>1. \A n \in Nat : D[n] = IF n < 10 THEN 1 ELSE 1 + D[n \div 10]
    <3> TAKE n \in Nat
    <3>1. CASE n < 10
      BY <1>3, <3>1
    <3>2. CASE n >= 10
      <4>1. n \div 10 \in Nat /\ n \div 10 <= n
        BY <3>2
      <4>2. G(n)[n] = 1 + G(n)[n \div 10]
        BY <1>3, <3>2
      <4>3. G(n)[n \div 10] = G(n \div 10)[n \div 10]
        BY <1>4, <4>1
      <4> QED
        BY <3>2, <4>1, <4>2, <4>3
    <3> QED
      BY <3>1, <3>2
  <2>2. D = [n \in Nat |-> D[n]]
    OBVIOUS
  <2> HIDE DEF D
  <2> QED
    BY <2>1, <2>2
<1>6. Digits = [n \in Nat |-> IF n < 10 THEN 1 ELSE 1 + Digits[n \div 10]]
  <2>1. \E g : g = [n \in Nat |-> IF n < 10 THEN 1 ELSE 1 + g[n \div 10]]
    <3> HIDE DEF D
    <3> QED
      BY <1>5
  <2> QED
    BY <2>1 DEF Digits
<1> QED
  BY <1>6

\* A larger number has no fewer digits.
LEMMA DigitsGrow ==
  \A n \in Nat : Digits[n] \in Nat /\ Digits[n] >= 1 /\ \A m \in 0 .. n : Digits[m] <= Digits[n]
<1> DEFINE Ok(n) == Digits[n] \in Nat /\ Digits[n] >= 1 /\ \A m \in 0 .. n : Digits[m] <= Digits[n]
           Bad == {n \in Nat : ~Ok(n)}
<1> SUFFICES ASSUME Bad # {} PROVE FALSE
  OBVIOUS
<1>1. PICK n \in Bad : \A k \in Bad : n <= k
  <2>1. Bad \in SUBSET Nat
    OBVIOUS
  <2> HIDE DEF Bad
  <2> QED
    BY <2>1, Least
<1>2. n \in Nat /\ ~Ok(n)
  OBVIOUS
<1>3. \A k \in Nat : k < n => Ok(k)
  BY <1>1, <1>2
<1>4. CASE n < 10
  BY <1>2, <1>4, DigitsEquation
<1>5. CASE n >= 10
  <2>1. n \div 10 \in Nat /\ n \div 10 < n /\ Digits[n] = 1 + Digits[n \div 10]
    BY <1>2, <1>5, DigitsEquation
  <2>2. Ok(n \div 10)
    BY <1>3, <2>1
  <2>3. \A m \in 0 .. n : Digits[m] <= Digits[n]
    <3> TAKE m \in 0 .. n
    <3>1. CASE m < 10
      BY <2>1, <2>2, <3>1, DigitsEquation
    <3>2. CASE m >= 10
      <4>1. m \div 10 \in 0 .. n \div 10 /\ Digits[m] = 1 + Digits[m \div 10]
        <5>1. m \in Nat /\ m <= n
          BY <1>2
        <5> QED
          BY <1>2, <3>2, <5>1, DigitsEquation
      <4>2. Digits[m \div 10] <= Digits[n \div 10]
        BY <2>2, <4>1
      <4>3. m \div 10 < n /\ m \div 10 \in Nat
        BY <2>1, <4>1
      <4>4. Digits[m \div 10] \in Nat
        BY <1>3, <4>3
      <4> QED
        BY <2>1, <2>2, <4>1, <4>2, <4>4
    <3> QED
      BY <1>2, <3>1, <3>2
  <2> QED
    BY <1>2, <2>1, <2>2, <2>3
<1> QED
  BY <1>2, <1>4, <1>5

LEMMA WidthGrows ==
  \A n \in Nat : Width(n) \in Nat /\ Width(n) >= 4 /\ Width(n) <= Width(n + 1)
<1> TAKE n \in Nat
<1>1. n + 1 \in Nat /\ n \in 0 .. n + 1
  OBVIOUS
<1>2. Digits[n] \in Nat /\ Digits[n] >= 1 /\ Digits[n + 1] \in Nat /\ Digits[n] <= Digits[n + 1]
  BY <1>1, DigitsGrow
<1> QED
  BY <1>2 DEF Width

LEMMA Products ==
  ASSUME NEW k \in Nat, NEW v \in Nat, NEW w \in Nat, v <= w
  PROVE  k * v \in Nat /\ k * w \in Nat /\ k * v <= k * w /\ (k + 1) * w = k * w + w
  BY SMT

RingOK(r) ==
  /\ r.cnt \in Nat /\ r.idx \in Nat
  /\ r.arr = [i \in 0 .. LabelArrSize - 1 |-> r.arr[i]]

\* What was written since l, with l itself and one text that did not fit, is
\* more than the array holds.
Gone(r, l) == (r.cnt - l.n + 1) * Width(r.cnt) > LabelArrSize

\* Since l was written the array was filled only behind it.
FilledBehind(r, l) == l.ptr + Width(l.n) <= r.idx /\ r.idx <= l.ptr + (r.cnt - l.n) * Width(r.cnt)

\* It was filled to its end and then from its beginning, not as far as l.
FilledAround(r, l) == r.idx <= l.ptr /\ r.idx + LabelArrSize < l.ptr + (r.cnt - l.n + 1) * Width(r.cnt)

LabelOK(r, l) ==
  /\ l.n \in Nat /\ l.ptr \in Nat /\ l.n < r.cnt
  /\ \/ Gone(r, l)
     \/ /\ l.ptr + Width(l.n) <= LabelArrSize
        /\ Intact(r, l)
        /\ FilledBehind(r, l) \/ FilledAround(r, l)

\* The state after gen_label.
LEMMA GenLabelRing ==
  ASSUME NEW r, RingOK(r)
  PROVE  LET g == GenLabel(r) IN
         /\ RingOK(g.ring) /\ g.ring.cnt = r.cnt + 1 /\ g.label.n = r.cnt
         /\ g.ring.idx = g.label.ptr + Width(r.cnt)
         /\ g.label.ptr = IF r.idx + Width(r.cnt) <= LabelArrSize THEN r.idx ELSE 0
         /\ \A i \in 0 .. LabelArrSize - 1 :
              LET near(p) == p <= i /\ i < p + Width(r.cnt) IN
              g.ring.arr[i] = IF near(g.label.ptr) \/ near(r.idx) THEN r.cnt ELSE r.arr[i]
<1> DEFINE g == GenLabel(r)
           arr == Written(r.arr, r.idx, r.cnt)
           ptr == IF r.idx + Width(r.cnt) <= LabelArrSize THEN r.idx ELSE 0
<1>1. /\ g.ring.cnt = r.cnt + 1 /\ g.label.n = r.cnt /\ g.label.ptr = ptr
      /\ g.ring.idx = ptr + Width(r.cnt) /\ g.ring.arr = Written(arr, ptr, r.cnt)
  BY DEF GenLabel, Label
<1>2. r.cnt \in Nat /\ r.idx \in Nat /\ DOMAIN r.arr = 0 .. LabelArrSize - 1 /\ Width(r.cnt) \in Nat
      /\ LabelArrSize \in Nat
  BY WidthGrows, LabelsAssumption DEF RingOK
<1>3. arr = [i \in 0 .. LabelArrSize - 1 |-> IF r.idx <= i /\ i < r.idx + Width(r.cnt) THEN r.cnt ELSE r.arr[i]]
  BY <1>2 DEF Written
<1>4. DOMAIN arr = 0 .. LabelArrSize - 1
  BY <1>3
<1> HIDE DEF arr, g
<1>5. g.ring.arr = [i \in 0 .. LabelArrSize - 1 |-> IF ptr <= i /\ i < ptr + Width(r.cnt) THEN r.cnt ELSE arr[i]]
  BY <1>1, <1>4 DEF Written
<1>6. \A i \in 0 .. LabelArrSize - 1 :
        LET near(p) == p <= i /\ i < p + Width(r.cnt) IN
        g.ring.arr[i] = IF near(ptr) \/ near(r.idx) THEN r.cnt ELSE r.arr[i]
  BY <1>3, <1>5
<1>7. g.ring.arr = [i \in 0 .. LabelArrSize - 1 |-> g.ring.arr[i]]
  BY <1>5
<1>8. RingOK(g.ring)
  BY <1>1, <1>2, <1>7 DEF RingOK
<1> QED
  BY <1>1, <1>6, <1>8 DEF g

\* A label that was generated before.
LEMMA OldLabel ==
  ASSUME NEW r, RingOK(r), NEW l, LabelOK(r, l)
  PROVE  LabelOK(GenLabel(r).ring, l)
<1> DEFINE s == GenLabel(r).ring
           p == GenLabel(r).label.ptr
           S == LabelArrSize
           k == r.cnt - l.n
           v == Width(r.cnt)
           w == Width(s.cnt)
<1>1. /\ RingOK(s) /\ s.cnt = r.cnt + 1 /\ s.idx = p + v
      /\ p = IF r.idx + v <= S THEN r.idx ELSE 0
      /\ \A i \in 0 .. S - 1 :
           LET near(q) == q <= i /\ i < q + v IN
           s.arr[i] = IF near(p) \/ near(r.idx) THEN r.cnt ELSE r.arr[i]
  BY GenLabelRing
<1> SUFFICES LabelOK(s, l)
  OBVIOUS
<1>2. /\ r.cnt \in Nat /\ r.idx \in Nat /\ S \in Nat
      /\ l.n \in Nat /\ l.ptr \in Nat /\ l.n < r.cnt /\ k \in Nat /\ k >= 1
  BY LabelsAssumption DEF RingOK, LabelOK
<1>3. v \in Nat /\ v >= 4 /\ w \in Nat /\ v <= w /\ Width(l.n) \in Nat /\ Width(l.n) >= 4
  BY <1>1, <1>2, WidthGrows
<1>4. s.cnt - l.n = k + 1 /\ s.cnt - l.n + 1 = k + 1 + 1 /\ l.n < s.cnt
  BY <1>1, <1>2
<1> HIDE DEF v, w, k, p, s
<1>5. /\ k * v \in Nat /\ (k + 1) * v = k * v + v /\ (k + 1 + 1) * v = k * v + v + v
      /\ k * v + v <= (k + 1) * w /\ k * v + v + v <= (k + 1 + 1) * w
      /\ (k + 1) * w \in Nat /\ (k + 1 + 1) * w \in Nat
  <2>1. k + 1 \in Nat /\ k + 1 + 1 \in Nat
    BY <1>2
  <2>2. k * v \in Nat /\ (k + 1) * v = k * v + v
    BY <1>2, <1>3, Products
  <2>3. (k + 1 + 1) * v = (k + 1) * v + v /\ (k + 1) * v <= (k + 1) * w /\ (k + 1) * w \in Nat
    BY <1>3, <2>1, Products
  <2>4. (k + 1 + 1) * v <= (k + 1 + 1) * w /\ (k + 1 + 1) * w \in Nat
    BY <1>3, <2>1, Products
  <2> QED
    BY <2>2, <2>3, <2>4
<1> DEFINE kv == k * v
           w1 == (k + 1) * w
           w2 == (k + 1 + 1) * w
<1>6. /\ Gone(s, l) <=> w2 > S
      /\ FilledBehind(s, l) <=> l.ptr + Width(l.n) <= s.idx /\ s.idx <= l.ptr + w1
      /\ FilledAround(s, l) <=> s.idx <= l.ptr /\ s.idx + S < l.ptr + w2
  BY <1>4 DEF Gone, FilledBehind, FilledAround, w
<1>7. /\ Gone(r, l) <=> kv + v > S
      /\ FilledBehind(r, l) <=> l.ptr + Width(l.n) <= r.idx /\ r.idx <= l.ptr + kv
      /\ FilledAround(r, l) <=> r.idx <= l.ptr /\ r.idx + S < l.ptr + kv + v
  <2>1. (r.cnt - l.n + 1) * Width(r.cnt) = kv + v /\ (r.cnt - l.n) * Width(r.cnt) = kv
    BY <1>5 DEF k, v
  <2>2. l.ptr + (kv + v) = l.ptr + kv + v
    BY <1>2, <1>3, <1>5
  <2> QED
    BY <2>1, <2>2 DEF Gone, FilledBehind, FilledAround
<1>8. kv \in Nat /\ w1 \in Nat /\ w2 \in Nat /\ kv + v <= w1 /\ kv + v + v <= w2
  BY <1>5
<1> HIDE DEF kv, w1, w2
<1>9. CASE Gone(r, l)
  <2>1. Gone(s, l)
    BY <1>2, <1>3, <1>6, <1>7, <1>8, <1>9
  <2> QED
    BY <1>2, <1>4, <2>1 DEF LabelOK
<1>10. CASE ~Gone(r, l)
  <2>1. l.ptr + Width(l.n) <= S /\ Intact(r, l)
    BY <1>10 DEF LabelOK
  <2>2. ASSUME \A i \in l.ptr .. l.ptr + Width(l.n) - 1 : ~(p <= i /\ i < p + v) /\ ~(r.idx <= i /\ i < r.idx + v)
        PROVE  Intact(s, l)
    <3> SUFFICES ASSUME NEW i \in l.ptr .. l.ptr + Width(l.n) - 1 PROVE s.arr[i] = l.n
      BY DEF Intact
    <3>1. i \in 0 .. S - 1
      BY <1>2, <1>3, <2>1
    <3> QED
      BY <1>1, <2>1, <2>2, <3>1 DEF Intact
  <2>3. CASE FilledBehind(r, l) /\ r.idx + v <= S
    <3>1. p = r.idx /\ s.idx = r.idx + v
      BY <1>1, <2>3
    <3>2. FilledBehind(s, l)
      BY <1>2, <1>3, <1>6, <1>7, <1>8, <2>3, <3>1
    <3>3. Intact(s, l)
      BY <1>2, <1>3, <1>7, <2>2, <2>3, <3>1
    <3> QED
      BY <1>2, <1>4, <2>1, <3>2, <3>3 DEF LabelOK
  <2>4. CASE FilledBehind(r, l) /\ r.idx + v > S
    <3>1. p = 0 /\ s.idx = v
      BY <1>1, <1>2, <1>3, <2>4
    <3>2. CASE v <= l.ptr
      <4>1. FilledAround(s, l)
        BY <1>2, <1>3, <1>6, <1>7, <1>8, <2>4, <3>1, <3>2
      <4>2. Intact(s, l)
        BY <1>2, <1>3, <1>7, <2>2, <2>4, <3>1, <3>2
      <4> QED
        BY <1>2, <1>4, <2>1, <4>1, <4>2 DEF LabelOK
    <3>3. CASE v > l.ptr
      <4>1. Gone(s, l)
        BY <1>2, <1>3, <1>6, <1>7, <1>8, <2>4, <3>3
      <4> QED
        BY <1>2, <1>4, <4>1 DEF LabelOK
    <3> QED
      BY <1>2, <1>3, <3>2, <3>3
  <2>5. CASE FilledAround(r, l) /\ r.idx + v <= l.ptr
    <3>1. p = r.idx /\ s.idx = r.idx + v
      BY <1>1, <1>2, <1>3, <2>1, <2>5
    <3>2. FilledAround(s, l)
      BY <1>2, <1>3, <1>6, <1>7, <1>8, <2>5, <3>1
    <3>3. Intact(s, l)
      BY <1>2, <1>3, <2>2, <2>5, <3>1
    <3> QED
      BY <1>2, <1>4, <2>1, <3>2, <3>3 DEF LabelOK
  <2>6. CASE FilledAround(r, l) /\ r.idx + v > l.ptr
    <3>1. Gone(s, l)
      BY <1>2, <1>3, <1>6, <1>7, <1>8, <2>6
    <3> QED
      BY <1>2, <1>4, <3>1 DEF LabelOK
  <2>7. FilledBehind(r, l) \/ FilledAround(r, l)
    BY <1>10 DEF LabelOK
  <2> QED
    BY <1>2, <1>3, <2>3, <2>4, <2>5, <2>6, <2>7
<1> QED
  BY <1>9, <1>10

\* The label that is generated.
LEMMA NewLabel ==
  ASSUME NEW r, RingOK(r)
  PROVE  LabelOK(GenLabel(r).ring, GenLabel(r).label)
<1> DEFINE s == GenLabel(r).ring
           l == GenLabel(r).label
           S == LabelArrSize
           v == Width(r.cnt)
           w == Width(s.cnt)
<1>1. /\ RingOK(s) /\ s.cnt = r.cnt + 1 /\ l.n = r.cnt /\ s.idx = l.ptr + v
      /\ l.ptr = IF r.idx + v <= S THEN r.idx ELSE 0
      /\ \A i \in 0 .. S - 1 :
           LET near(q) == q <= i /\ i < q + v IN
           s.arr[i] = IF near(l.ptr) \/ near(r.idx) THEN r.cnt ELSE r.arr[i]
  BY GenLabelRing
<1>2. r.cnt \in Nat /\ r.idx \in Nat /\ S \in Nat
  BY LabelsAssumption DEF RingOK
<1>3. v \in Nat /\ v >= 4 /\ w \in Nat /\ v <= w /\ l.ptr \in Nat
  BY <1>1, <1>2, WidthGrows
<1>4. s.cnt - l.n = 1 /\ s.cnt - l.n + 1 = 2 /\ l.n \in Nat /\ l.n < s.cnt
  BY <1>1, <1>2
<1>5. /\ Gone(s, l) <=> 2 * w > S
      /\ FilledBehind(s, l) <=> l.ptr + v <= s.idx /\ s.idx <= l.ptr + 1 * w
  <2>1. Width(l.n) = v
    BY <1>1
  <2> QED
    BY <1>4, <2>1 DEF Gone, FilledBehind
<1>6. l.ptr + Width(l.n) <= S => Intact(s, l)
  <2> SUFFICES ASSUME l.ptr + Width(l.n) <= S, NEW i \in l.ptr .. l.ptr + Width(l.n) - 1 PROVE s.arr[i] = l.n
    BY DEF Intact
  <2>1. i \in 0 .. S - 1 /\ l.ptr <= i /\ i < l.ptr + v
    BY <1>1, <1>2, <1>3
  <2> HIDE DEF s, l, v
  <2> QED
    BY <1>1, <2>1
<1> HIDE DEF s, l, v, w
<1>7. CASE v > S
  <2>1. Gone(s, l)
    BY <1>2, <1>3, <1>5, <1>7
  <2> QED
    BY <1>3, <1>4, <2>1 DEF LabelOK, s, l
<1>8. CASE v <= S
  <2>1. l.ptr + v <= S /\ Width(l.n) = v
    BY <1>1, <1>2, <1>3, <1>8 DEF v
  <2>2. FilledBehind(s, l)
    BY <1>1, <1>2, <1>3, <1>5
  <2> QED
    BY <1>3, <1>4, <1>6, <2>1, <2>2 DEF LabelOK, s, l
<1> QED
  BY <1>2, <1>3, <1>7, <1>8

-----------------------------------------------------------------------------
Marks == [n : Nat, ptr : Nat]

LevelsOf(C) == Seq([ctx : C, next : C, target : Nat, labels : Seq(Marks), fn : BOOLEAN])

RingInv ==
  /\ RingOK(ring)
  /\ gpos \in Nat
  /\ \E C : glevels \in LevelsOf(C)
  /\ \A i \in 1 .. Len(glevels) : \A j \in 1 .. Len(glevels[i].labels) : LabelOK(ring, glevels[i].labels[j])

\* The labels of ls are those of levels of glevels, or of labels.
From(ls, labels) ==
  \A i \in 1 .. Len(ls) :
    \/ ls[i].labels = labels
    \/ \E h \in 1 .. Len(glevels) : ls[i].labels = glevels[h].labels

LEMMA LevelFields ==
  ASSUME NEW C, NEW ls \in LevelsOf(C), NEW i \in 1 .. Len(ls)
  PROVE  /\ ls[i] \in [ctx : C, next : C, target : Nat, labels : Seq(Marks), fn : BOOLEAN]
         /\ ls[i].labels \in Seq(Marks)
<1> DEFINE Rec == [ctx : C, next : C, target : Nat, labels : Seq(Marks), fn : BOOLEAN]
<1>1. ls[i] \in Rec
  <2> HIDE DEF Rec
  <2>1. ls \in Seq(Rec)
    BY DEF LevelsOf, Rec
  <2> QED
    BY <2>1, ElementOfSeq
<1> QED
  BY <1>1

LEMMA Pushed ==
  ASSUME NEW C, NEW ls \in LevelsOf(C), NEW labels \in Seq(Marks), NEW fn \in BOOLEAN, From(ls, labels)
  PROVE  /\ \E D : EnterBlock(ls, labels, fn) \in LevelsOf(D)
         /\ From(EnterBlock(ls, labels, fn), labels)
         /\ Len(EnterBlock(ls, labels, fn)) = Len(ls) + 1
         /\ EnterBlock(ls, labels, fn)[Len(ls) + 1].labels = labels
         /\ \A i \in 1 .. Len(ls) : EnterBlock(ls, labels, fn)[i].labels = ls[i].labels
<1> DEFINE up == ls[Len(ls)]
           first == FirstChild(up.next)
           nxt == NextChild(up.next)
           D == C \cup {up.ctx, NULL, up.next, first, nxt}
           mid == [ls EXCEPT ![Len(ls)].next = nxt]
           Rec == [ctx : D, next : D, target : Nat, labels : Seq(Marks), fn : BOOLEAN]
<1> HIDE DEF first, nxt
<1>1. Len(ls) \in Nat /\ ls = [i \in 1 .. Len(ls) |-> ls[i]]
  BY LenProperties DEF LevelsOf
<1>2. \A i \in 1 .. Len(ls) : ls[i] \in [ctx : C, next : C, target : Nat, labels : Seq(Marks), fn : BOOLEAN]
  BY LevelFields
<1>3. ls \in Seq(Rec)
  <2>1. \A i \in 1 .. Len(ls) : ls[i] \in Rec
    BY <1>2
  <2> HIDE DEF Rec
  <2> QED
    BY <1>1, <2>1, IsASeq
<1>4. mid \in Seq(Rec) /\ Len(mid) = Len(ls) /\ \A i \in 1 .. Len(ls) : mid[i].labels = ls[i].labels
  <2>1. mid = [i \in 1 .. Len(ls) |-> IF i = Len(ls) THEN [ls[i] EXCEPT !.next = nxt] ELSE ls[i]]
    BY <1>1
  <2> HIDE DEF mid
  <2>2. \A i \in 1 .. Len(ls) : mid[i] \in Rec /\ mid[i].labels = ls[i].labels
    BY <1>2, <2>1
  <2> HIDE DEF Rec
  <2>3. mid \in Seq(Rec)
    BY <1>1, <2>1, <2>2, IsASeq
  <2>4. Len(mid) = Len(ls)
    BY <1>1, <2>1, <2>3, LenProperties
  <2> QED
    BY <2>2, <2>3, <2>4
<1> DEFINE new == IF up.next = NULL THEN GenLevel(up.ctx, NULL, labels, fn)
                                    ELSE GenLevel(up.next, first, labels, fn)
           base == IF up.next = NULL THEN ls ELSE mid
<1>5. new \in Rec /\ new.labels = labels
  BY DEF GenLevel, NoTarget
<1>6. EnterBlock(ls, labels, fn) = Append(base, new)
  BY DEF EnterBlock, first, nxt
<1>7. base \in Seq(Rec) /\ Len(base) = Len(ls) /\ \A i \in 1 .. Len(ls) : base[i].labels = ls[i].labels
  BY <1>3, <1>4
<1> HIDE DEF base, new, Rec, mid
<1>8. /\ Append(base, new) \in Seq(Rec)
      /\ Len(Append(base, new)) = Len(ls) + 1
      /\ \A i \in 1 .. Len(ls) : Append(base, new)[i] = base[i]
      /\ Append(base, new)[Len(ls) + 1] = new
  BY <1>5, <1>7, AppendProperties
<1>9. EnterBlock(ls, labels, fn) \in LevelsOf(D)
  BY <1>6, <1>8 DEF LevelsOf, Rec
<1>10. From(EnterBlock(ls, labels, fn), labels)
  <2> SUFFICES ASSUME NEW i \in 1 .. Len(Append(base, new))
               PROVE  \/ Append(base, new)[i].labels = labels
                      \/ \E h \in 1 .. Len(glevels) : Append(base, new)[i].labels = glevels[h].labels
    BY <1>6 DEF From
  <2>1. CASE i = Len(ls) + 1
    BY <1>5, <1>8, <2>1
  <2>2. CASE i \in 1 .. Len(ls)
    <3>1. Append(base, new)[i].labels = ls[i].labels
      BY <1>7, <1>8, <2>2
    <3> QED
      BY <2>2, <3>1 DEF From
  <2> QED
    BY <1>1, <1>8, <2>1, <2>2
<1>11. /\ Len(EnterBlock(ls, labels, fn)) = Len(ls) + 1
       /\ EnterBlock(ls, labels, fn)[Len(ls) + 1].labels = labels
       /\ \A i \in 1 .. Len(ls) : EnterBlock(ls, labels, fn)[i].labels = ls[i].labels
  BY <1>5, <1>6, <1>7, <1>8
<1> HIDE DEF D
<1> QED
  BY <1>9, <1>10, <1>11

-----------------------------------------------------------------------------
(* The AST. *)

AstMeanings == Meanings \cup {Undeclared, Meaning(Fun0, 0), Meaning(Fun1, 0)}

AstNames == Names \cup Nat \cup {""}

LEMMA EmptyName == "" \in AstNames
  BY Zenon DEF AstNames

LEMMA NameNames == \A x \in Names : x \in AstNames
  BY Zenon DEF AstNames

LEMMA IndexNames == \A x \in Nat : x \in AstNames
  BY Zenon DEF AstNames

AstItems == [k : ItemKinds, x : AstNames, at : Nat, means : AstMeanings]

LambdaInv ==
  \A i \in 1 .. Len(stack) :
    stack[i].op = "lambda_params" => i = Len(stack) /\ ph \in {"param", "closed", "parsed"}

AstInv ==
  /\ ast \in Seq(AstItems)
  /\ \A i \in 1 .. Len(ast) : ast[i].at \in 1 .. Len(ctxs)
  /\ \A i \in 1 .. Len(stack) : stack[i].from \in 1 .. Len(ast)
  /\ LambdaInv
  /\ ph \in Phases
  /\ ph = "statement" => TopOp \in BodyOps \cup {"none"}

\* What a lookup finds: the innermost context of the chain that binds the name.
LEMMA Finds ==
  ASSUME ContextsInv(ctxs), NEW c \in 1 .. Len(ctxs), NEW x, Visible(c, x)
  PROVE  \E p \in 1 .. Len(Chain(c)) :
           /\ \E b \in 1 .. Len(Vars(Chain(c)[p])) :
                Vars(Chain(c)[p])[b].id = x /\ GetVar(c, x) = Vars(Chain(c)[p])[b].val
           /\ \A q \in p + 1 .. Len(Chain(c)) : ~IsBound(Vars(Chain(c)[q]), x)
<1> DEFINE S == BoundIn(c, x)
           p == CHOOSE i \in S : \A j \in S : j <= i
<1>1. /\ Chain(c) \in Seq(Nat) /\ Len(Chain(c)) \in Nat /\ DOMAIN Chain(c) = 1 .. Len(Chain(c))
      /\ \A i \in 1 .. Len(Chain(c)) : Chain(c)[i] \in 1 .. Len(ctxs)
  BY ChainType DEF ContextsInv, ChainInv, Chain
<1>2. S \subseteq 1 .. Len(Chain(c)) /\ S # {}
  BY <1>1 DEF BoundIn, Visible
<1>3. p \in S /\ \A j \in S : j <= p
  <2>1. \E i \in S : \A j \in S : j <= i
    BY <1>1, <1>2, Greatest
  <2> HIDE DEF S
  <2> QED
    BY <2>1
<1>4. GetVar(c, x) = GetEnv(Vars(Chain(c)[p]), x)
  BY DEF GetVar
<1> HIDE DEF p
<1> DEFINE env == Vars(Chain(c)[p])
<1>5. p \in 1 .. Len(Chain(c)) /\ IsBound(env, x)
  BY <1>2, <1>3 DEF BoundIn
<1>6. env \in Seq(Bindings) /\ DOMAIN env = 1 .. Len(env) /\ Len(env) \in Nat
  <2>1. Chain(c)[p] \in 1 .. Len(ctxs)
    BY <1>1, <1>5
  <2> QED
    BY <2>1, ChainType, LenProperties DEF Vars
<1>7. First(Bound(env, x)) \in Bound(env, x)
  BY <1>5, <1>6, FirstBound
<1>8. First(Bound(env, x)) \in 1 .. Len(env) /\ env[First(Bound(env, x))].id = x
  BY <1>6, <1>7 DEF Bound
<1>9. GetVar(c, x) = env[First(Bound(env, x))].val
  BY <1>4 DEF GetEnv
<1>10. \A q \in p + 1 .. Len(Chain(c)) : ~IsBound(Vars(Chain(c)[q]), x)
  <2> TAKE q \in p + 1 .. Len(Chain(c))
  <2>1. q \in 1 .. Len(Chain(c)) /\ ~(q <= p)
    BY <1>1, <1>5
  <2> QED
    BY <1>1, <1>3, <2>1 DEF BoundIn
<1> QED
  BY <1>5, <1>8, <1>9, <1>10

\* What is found is the meaning of a declaration.
LEMMA FoundType ==
  ASSUME ContextsInv(ctxs), NEW c \in 1 .. Len(ctxs), NEW x, Visible(c, x)
  PROVE  GetVar(c, x) \in Meanings
<1>1. PICK p \in 1 .. Len(Chain(c)) :
        \E b \in 1 .. Len(Vars(Chain(c)[p])) : GetVar(c, x) = Vars(Chain(c)[p])[b].val
  BY Finds
<1>2. PICK b \in 1 .. Len(Vars(Chain(c)[p])) : GetVar(c, x) = Vars(Chain(c)[p])[b].val
  BY <1>1
<1>3. Chain(c)[p] \in 1 .. Len(ctxs)
  BY DEF ContextsInv, ChainInv, Chain
<1>4. Vars(Chain(c)[p]) \in Seq(Bindings)
  BY <1>3, ChainType DEF Vars
<1>5. Vars(Chain(c)[p])[b] \in Bindings
  BY <1>4, ElementOfSeq
<1> QED
  BY <1>2, <1>5 DEF Bindings

-----------------------------------------------------------------------------
(***************************************************************************)
(* Steps that open and close no block.                                     *)
(***************************************************************************)
Opening == {"then", "else", "body"}
UseKinds == {"use", "set", "call"}
QuietKinds == {"int", "use", "op", "addr", "deref", "index", "set", "decl", "param", "call", "arg", "ret", "next"}

QuietItems(s) ==
  \A j \in 1 .. Len(s) :
    /\ s[j].k \in QuietKinds /\ s[j].at \in 1 .. Len(ctxs)
    /\ s[j].k # "ret" => s[j].at = here
    /\ s[j].k = "next" => TopOp \in BodyOps \cup {"none"}

\* Nothing is declared, and names are looked up.
NoneDeclared(s) ==
  /\ TopOp # "lambda_params"
  /\ \A j \in 1 .. Len(s) : /\ s[j].k \notin {"decl", "param"}
                            /\ s[j].k \in UseKinds => Visible(here, s[j].x) /\ s[j].means = GetVar(here, s[j].x)

\* One name is declared; it may be assigned to at once.
OneDeclared(s, x, ty) ==
  /\ ~IsBound(Vars(here), x) /\ NewMeaning(ty) \in Meanings
  /\ ph = "statement" \/ (ph = "param" /\ TopOp = "lambda_params")
  /\ Len(s) > 0 /\ s[1].k \in {"decl", "param"} /\ (ph = "param" => Len(s) = 1)
  /\ \A j \in 1 .. Len(s) : /\ j > 1 => s[j].k \in {"next", "set"}
                            /\ s[j].k # "next" => s[j].x = x /\ s[j].means = NewMeaning(ty)

CallStack ==
  \/ stack' = stack
  \/ stack' = Append(stack, Entry("func_call")) /\ TopOp # "lambda_params"
  \/ TopOp = "func_call" /\ stack' = Outer

Quiet ==
  /\ here' = here
  /\ CallStack
  /\ ph' \in Phases /\ ph' \notin {"param", "parsed", "rejected"}
  /\ ph' = "statement" => stack' = stack /\ TopOp \in BodyOps \cup {"none"}
  /\ TopOp = "lambda_params" => ph' = "closed"
  /\ \E s \in Seq(AstItems) :
       /\ ast' = ast \o s /\ Len(s) > 0
       /\ QuietItems(s)
       /\ \/ ctxs' = ctxs /\ NoneDeclared(s)
          \/ \E x \in Names, ty \in Types : ctxs' = BoundThere(ctxs, here, x, NewMeaning(ty)) /\ OneDeclared(s, x, ty)

\* Lists of items.
LEMMA Lists ==
  /\ \A a \in AstItems : << a >> \in Seq(AstItems) /\ Len(<< a >>) = 1 /\ << a >>[1] = a
  /\ \A a, b \in AstItems : /\ << a, b >> \in Seq(AstItems) /\ Len(<< a, b >>) = 2
                            /\ << a, b >>[1] = a /\ << a, b >>[2] = b
  /\ \A a, b, c \in AstItems : /\ << a, b, c >> \in Seq(AstItems) /\ Len(<< a, b, c >>) = 3
                               /\ << a, b, c >>[1] = a /\ << a, b, c >>[2] = b /\ << a, b, c >>[3] = c
  OBVIOUS

\* The kinds, one by one: ItemKinds is not expanded where items are.
LEMMA KindsHave ==
  /\ "use" \in ItemKinds /\ "set" \in ItemKinds /\ "call" \in ItemKinds /\ "ret" \in ItemKinds
  /\ "decl" \in ItemKinds /\ "param" \in ItemKinds /\ "next" \in ItemKinds /\ "index" \in ItemKinds
  /\ "body" \in ItemKinds /\ "null" \in ItemKinds /\ "if" \in ItemKinds /\ "then" \in ItemKinds
  /\ "else" \in ItemKinds /\ "func" \in ItemKinds /\ "nobody" \in ItemKinds /\ "end" \in ItemKinds
  /\ \A k \in {"use", "set", "call"} : k \in ItemKinds
  /\ \A k \in {"decl", "param"} : k \in ItemKinds
  BY DEF ItemKinds

\* What makes a quiet step.
LEMMA QuietNone ==
  ASSUME here' = here, CallStack, ph' \in Phases \ {"param", "parsed", "rejected"},
         ph' = "statement" => stack' = stack /\ TopOp \in BodyOps \cup {"none"},
         TopOp # "lambda_params",
         NEW s \in Seq(AstItems), ast' = ast \o s, Len(s) > 0, QuietItems(s),
         ctxs' = ctxs, NoneDeclared(s)
  PROVE  Quiet
<1>1. \E r \in Seq(AstItems) :
       /\ ast' = ast \o r /\ Len(r) > 0
       /\ QuietItems(r)
       /\ ctxs' = ctxs /\ NoneDeclared(r)
  OBVIOUS
<1> QED
  BY <1>1 DEF Quiet

LEMMA QuietOne ==
  ASSUME here' = here, stack' = stack, ph' \in {"closed", "operand"},
         TopOp = "lambda_params" => ph' = "closed",
         NEW s \in Seq(AstItems), ast' = ast \o s, QuietItems(s),
         NEW x \in Names, NEW ty \in Types,
         ctxs' = BoundThere(ctxs, here, x, NewMeaning(ty)), OneDeclared(s, x, ty)
  PROVE  Quiet
<1>1. Len(s) > 0
  BY DEF OneDeclared
<1>2. \E r \in Seq(AstItems) :
       /\ ast' = ast \o r /\ Len(r) > 0
       /\ QuietItems(r)
       /\ \E y \in Names, t \in Types : ctxs' = BoundThere(ctxs, here, y, NewMeaning(t)) /\ OneDeclared(r, y, t)
  BY <1>1
<1>3. ph' \in Phases /\ ph' \notin {"param", "parsed", "rejected", "statement"}
  BY DEF Phases
<1>4. CallStack
  BY DEF CallStack
<1> QED
  BY <1>2, <1>3, <1>4 DEF Quiet

LEMMA AddIsConcat ==
  ASSUME ast \in Seq(AstItems), NEW a \in AstItems, Add(a)
  PROVE  ast' = ast \o << a >>
  BY DEF Add

\* Nodes without a name.
LEMMA PlainItem ==
  ASSUME TypeInv, NEW k \in ItemKinds
  PROVE  Plain(k) \in AstItems /\ Plain(k).k = k /\ Plain(k).at = here /\ Plain(k).means = Undeclared
<1>1. here \in Nat
  BY LenProperties DEF TypeInv, ContextsInv
<1> QED
  BY <1>1, EmptyName DEF Plain, Item, AstItems, AstMeanings

LEMMA NamedItem ==
  ASSUME TypeInv, NEW k \in ItemKinds, NEW x \in AstNames, NEW m \in AstMeanings, NEW c \in 1 .. Len(ctxs)
  PROVE  /\ Item(k, x, c, m) \in AstItems /\ Item(k, x, c, m).k = k /\ Item(k, x, c, m).at = c
         /\ Item(k, x, c, m).x = x /\ Item(k, x, c, m).means = m
<1>1. c \in Nat
  BY LenProperties DEF TypeInv, ContextsInv
<1> QED
  BY <1>1 DEF Item, AstItems

LEMMA NotLambda ==
  ASSUME ParserInv, AstInv, ph \notin {"param", "closed", "parsed"}
  PROVE  TopOp # "lambda_params"
<1> SUFFICES ASSUME TopOp = "lambda_params" PROVE FALSE
  OBVIOUS
<1>1. stack \in Seq(Entries) /\ Len(stack) \in Nat \ {0} /\ TopOp = stack[Len(stack)].op
  BY TopEntry DEF ParserInv
<1> QED
  BY <1>1 DEF AstInv, LambdaInv

\* A step that adds one item without a name.
LEMMA QuietPlain ==
  ASSUME ParserInv, AstInv, NEW k \in QuietKinds \ {"decl", "param", "use", "set", "call"}, Add(Plain(k)),
         UNCHANGED << ctxs, here, stack >>, TopOp # "lambda_params",
         ph' \in {"after", "closed", "target", "prefixed", "operand", "statement"},
         k = "next" \/ ph' = "statement" => TopOp \in BodyOps \cup {"none"}
  PROVE  Quiet
<1>1. TypeInv
  BY DEF ParserInv
<1>2. k \in ItemKinds
  BY DEF QuietKinds, ItemKinds
<1>3. Plain(k) \in AstItems /\ Plain(k).k = k /\ Plain(k).at = here
  BY <1>1, <1>2, PlainItem
<1> DEFINE s == << Plain(k) >>
<1>4. s \in Seq(AstItems) /\ Len(s) = 1 /\ s[1] = Plain(k)
  BY <1>3, Lists
<1>5. ast' = ast \o s
  BY <1>3, AddIsConcat DEF AstInv
<1> HIDE DEF s
<1>6. QuietItems(s) /\ NoneDeclared(s)
  BY <1>1, <1>3, <1>4 DEF QuietItems, NoneDeclared, TypeInv, UseKinds
<1>7. ph' \in Phases /\ ph' \notin {"param", "parsed", "rejected"}
  BY DEF Phases
<1>8. CallStack
  BY DEF CallStack
<1>9. Len(s) > 0 /\ here' = here /\ ctxs' = ctxs /\ (ph' = "statement" => stack' = stack)
  BY <1>4
<1> QED
  BY <1>4, <1>5, <1>6, <1>7, <1>8, <1>9, QuietNone

\* Looking up a name whose item comes last.
LEMMA QuietNames ==
  ASSUME ParserInv, AstInv, NEW x \in Names, NEW k \in UseKinds, Visible(here, x),
         NEW r \in Seq(AstItems), \A j \in 1 .. Len(r) : r[j].k = "index" /\ r[j].at = here,
         ast' = ast \o r \o << Item(k, x, here, GetVar(here, x)) >>,
         UNCHANGED << ctxs, here >>, TopOp # "lambda_params",
         stack' \in {stack, Append(stack, Entry("func_call"))},
         ph' \in {"after", "closed", "operand"}
  PROVE  Quiet
<1> DEFINE e == Item(k, x, here, GetVar(here, x))
           s == r \o << e >>
<1>1. TypeInv
  BY DEF ParserInv
<1>2. GetVar(here, x) \in AstMeanings
  BY <1>1, FoundType DEF TypeInv, AstMeanings
<1>3. e \in AstItems /\ e.k = k /\ e.at = here /\ e.x = x /\ e.means = GetVar(here, x)
  BY <1>1, <1>2, NamedItem, NameNames, KindsHave DEF UseKinds, TypeInv
<1> HIDE DEF e
<1>4. << e >> \in Seq(AstItems) /\ Len(<< e >>) = 1 /\ << e >>[1] = e
  BY <1>3, Lists
<1>5. /\ s \in Seq(AstItems) /\ Len(s) = Len(r) + 1 /\ Len(r) \in Nat
      /\ \A j \in 1 .. Len(r) : s[j] = r[j]
      /\ s[Len(r) + 1] = e
  BY <1>4, ConcatProperties, LenProperties
<1>6. ast' = ast \o s
  BY <1>4, ConcatAssociative DEF AstInv, e
<1> HIDE DEF s
<1>7. \A j \in 1 .. Len(s) : \/ s[j].k = "index" /\ s[j].at = here
                             \/ s[j] = e
  BY <1>5, SMTT(30)
<1>8. QuietItems(s) /\ NoneDeclared(s)
  BY <1>1, <1>3, <1>7 DEF QuietItems, NoneDeclared, TypeInv, UseKinds, QuietKinds
<1>9. ph' \in Phases /\ ph' \notin {"param", "parsed", "rejected", "statement"}
  BY DEF Phases
<1>10. CallStack
  BY DEF CallStack
<1>11. Len(s) > 0 /\ here' = here /\ ctxs' = ctxs
  BY <1>5
<1> QED
  BY <1>5, <1>6, <1>8, <1>9, <1>10, <1>11, QuietNone

LEMMA SubscriptItems ==
  ASSUME TypeInv, NEW r \in Subscripts
  PROVE  r \in Seq(AstItems) /\ \A j \in 1 .. Len(r) : r[j].k = "index" /\ r[j].at = here
<1>1. CASE r = << >>
  BY <1>1, EmptySeq
<1>2. CASE \E n \in Indices : r = << Item("index", n, here, Undeclared) >>
  <2>1. PICK n \in Indices : r = << Item("index", n, here, Undeclared) >>
    BY <1>2
  <2>2. n \in Nat
    BY ContextsAssumption DEF Indices
  <2> DEFINE e == Item("index", n, here, Undeclared)
  <2>3. e \in AstItems /\ e.k = "index" /\ e.at = here
    <3>1. Undeclared \in AstMeanings
      BY DEF AstMeanings
    <3>2. here \in 1 .. Len(ctxs)
      BY DEF TypeInv
    <3>3. n \in AstNames
      BY <2>2, IndexNames
    <3> QED
      BY <3>1, <3>2, <3>3, NamedItem, KindsHave
  <2> HIDE DEF e
  <2>4. r \in Seq(AstItems) /\ Len(r) = 1 /\ r[1] = e
    BY <2>1, <2>3, Lists DEF e
  <2> QED
    BY <2>3, <2>4
<1> QED
  BY <1>1, <1>2 DEF Subscripts

\* A declaration and what follows it.
LEMMA QuietDecl ==
  ASSUME ParserInv, AstInv, NEW x \in Names, NEW ty \in Types, NEW k \in {"decl", "param"},
         ~IsBound(Vars(here), x), Len(ast) <= MaxItems, Declared(x, ty),
         \/ Add(Item(k, x, here, NewMeaning(ty))) /\ ph' = "closed"
         \/ /\ ast' = ast \o << Item(k, x, here, NewMeaning(ty)), Plain("next"),
                                Item("set", x, here, NewMeaning(ty)) >>
            /\ ph' = "operand" /\ ph = "statement",
         UNCHANGED << here, stack >>,
         ph = "statement" \/ (ph = "param" /\ TopOp = "lambda_params")
  PROVE  Quiet
<1> DEFINE d == Item(k, x, here, NewMeaning(ty))
           n == Plain("next")
           e == Item("set", x, here, NewMeaning(ty))
<1>1. TypeInv /\ here \in 1 .. Len(ctxs)
  BY DEF ParserInv, TypeInv
<1>2. NewMeaning(ty) \in Meanings /\ NewMeaning(ty) \in AstMeanings
  BY <1>1, NewMeaningType DEF AstMeanings
<1>3. d \in AstItems /\ d.k = k /\ d.at = here /\ d.x = x /\ d.means = NewMeaning(ty)
  BY <1>1, <1>2, NamedItem, NameNames, KindsHave
<1>4. e \in AstItems /\ e.k = "set" /\ e.at = here /\ e.x = x /\ e.means = NewMeaning(ty)
  BY <1>1, <1>2, NamedItem, NameNames, KindsHave
<1>5. n \in AstItems /\ n.k = "next" /\ n.at = here
  BY <1>1, PlainItem, KindsHave
<1>6. ctxs' = BoundThere(ctxs, here, x, NewMeaning(ty))
  BY DEF Declared, BoundThere
<1>7. ph = "statement" => TopOp \in BodyOps \cup {"none"}
  BY DEF AstInv
<1>8. ph' \in Phases /\ ph' \notin {"param", "parsed", "rejected", "statement"}
  BY DEF Phases
<1>9. TopOp = "lambda_params" => ph' = "closed"
  BY <1>7 DEF BodyOps
<1>10. CASE Add(d) /\ ph' = "closed"
  <2> DEFINE s == << d >>
  <2> HIDE DEF d
  <2>1. s \in Seq(AstItems) /\ Len(s) = 1 /\ s[1] = d /\ ast' = ast \o s
    BY <1>3, <1>10, Lists, AddIsConcat DEF AstInv
  <2> HIDE DEF s
  <2>2. QuietItems(s)
    BY <1>1, <1>3, <2>1 DEF QuietItems, QuietKinds
  <2>3. OneDeclared(s, x, ty)
    BY <1>2, <1>3, <1>6, <2>1 DEF OneDeclared
  <2> QED
    BY <1>6, <1>9, <1>10, <2>1, <2>2, <2>3, QuietOne
<1>11. CASE ast' = ast \o << d, n, e >> /\ ph' = "operand" /\ ph = "statement"
  <2> DEFINE s == << d, n, e >>
  <2> HIDE DEF d, n, e
  <2>1. s \in Seq(AstItems) /\ Len(s) = 3 /\ s[1] = d /\ s[2] = n /\ s[3] = e /\ ast' = ast \o s
    BY <1>3, <1>4, <1>5, <1>11, Lists
  <2> HIDE DEF s
  <2>2. \A j \in 1 .. Len(s) : (j = 1 /\ s[j] = d) \/ (j = 2 /\ s[j] = n) \/ (j = 3 /\ s[j] = e)
    BY <2>1
  <2>3. QuietItems(s)
    BY <1>1, <1>3, <1>4, <1>5, <1>7, <1>11, <2>2 DEF QuietItems, QuietKinds
  <2>4. OneDeclared(s, x, ty)
    <3>1. \A j \in 1 .. Len(s) : /\ j > 1 => s[j].k \in {"next", "set"}
                                 /\ s[j].k # "next" => s[j].x = x /\ s[j].means = NewMeaning(ty)
      BY <1>3, <1>4, <1>5, <2>2
    <3> QED
      BY <1>2, <1>3, <1>6, <1>11, <2>1, <3>1 DEF OneDeclared
  <2> QED
    BY <1>6, <1>9, <1>11, <2>1, <2>3, <2>4, QuietOne
<1> QED
  BY <1>10, <1>11 DEF d, n, e

\* Every action that opens and closes no block is one of these or an error.
LEMMA QuietActions ==
  ASSUME ParserInv, AstInv,
         \/ ParseInt \/ ParsePrefix \/ ParseVar \/ ParseAssign \/ BeginCall \/ ParseEmptyCall
         \/ Declare \/ ParseParam \/ ParseInfix \/ NextArg \/ EndCall \/ NextStatement
  PROVE  Quiet \/ Reject
<1>1. TypeInv /\ ast \in Seq(AstItems) /\ Len(ast) \in Nat /\ here \in 1 .. Len(ctxs)
  BY LenProperties DEF ParserInv, TypeInv, AstInv
<1>2. ph \notin {"param", "closed", "parsed"} => TopOp # "lambda_params"
  BY NotLambda
<1>3. CASE ParseInt
  <2>1. ph \notin {"param", "closed", "parsed"}
    BY <1>3 DEF ParseInt, AtOperand, Prefixed
  <2> QED
    BY <1>2, <1>3, <2>1, QuietPlain DEF ParseInt, AfterOperand, QuietKinds
<1>4. CASE ParsePrefix
  <2>1. ph \notin {"param", "closed", "parsed"}
    BY <1>4 DEF ParsePrefix, AtOperand, Prefixed
  <2> QED
    BY <1>2, <1>4, <2>1, QuietPlain DEF ParsePrefix, QuietKinds
<1>5. CASE ParseVar \/ ParseAssign
  <2>1. ph \notin {"param", "closed", "parsed"}
    BY <1>5 DEF ParseVar, ParseAssign, AtOperand, Prefixed
  <2>2. PICK x \in Names, subscript \in Subscripts, item \in {"use", "set"},
             next \in {"after", "closed", "operand"} :
          Lookup(x, subscript, item, next) /\ stack' = stack
    BY <1>5 DEF ParseVar, ParseAssign, AfterOperand
  <2>3. CASE Visible(here, x)
    <3>1. item \in UseKinds
      BY DEF UseKinds
    <3> QED
      BY <1>1, <1>2, <2>1, <2>2, <2>3, <3>1, SubscriptItems, QuietNames DEF Lookup
  <2> QED
    BY <2>2, <2>3 DEF Lookup
<1>6. CASE BeginCall
  <2>1. ph \notin {"param", "closed", "parsed"}
    BY <1>6 DEF BeginCall, AtOperand
  <2>2. PICK x \in Names :
          /\ Lookup(x, << >>, "call", "operand")
          /\ IF Visible(here, x) THEN stack' = Append(stack, Entry("func_call")) ELSE UNCHANGED stack
    BY <1>6 DEF BeginCall
  <2>3. CASE Visible(here, x)
    <3>1. << >> \in Subscripts /\ "call" \in UseKinds
      BY DEF UseKinds, Subscripts
    <3> QED
      BY <1>1, <1>2, <2>1, <2>2, <2>3, <3>1, SubscriptItems, QuietNames DEF Lookup
  <2> QED
    BY <2>2, <2>3 DEF Lookup
<1>7. CASE ParseEmptyCall
  <2>1. ph \notin {"param", "closed", "parsed"}
    BY <1>7 DEF ParseEmptyCall, AtOperand
  <2>2. PICK x \in Names :
        IF Visible(here, x)
        THEN /\ found' = GetVar(here, x)
             /\ ast' = ast \o << Item("call", x, here, GetVar(here, x)),
                                 Item("ret", x, here, GetVar(here, x)) >>
             /\ ph' = "after"
             /\ UNCHANGED << ctxs, here, stack >>
        ELSE Reject
    BY <1>7 DEF ParseEmptyCall
  <2>3. CASE Visible(here, x)
    <3> DEFINE a == Item("call", x, here, GetVar(here, x))
               b == Item("ret", x, here, GetVar(here, x))
               s == << a, b >>
    <3>1. GetVar(here, x) \in AstMeanings
      BY <1>1, <2>3, FoundType DEF TypeInv, AstMeanings
    <3>2. /\ a \in AstItems /\ a.k = "call" /\ a.at = here /\ a.x = x /\ a.means = GetVar(here, x)
          /\ b \in AstItems /\ b.k = "ret" /\ b.at = here
      BY <1>1, <3>1, NamedItem, NameNames, KindsHave
    <3> HIDE DEF a, b
    <3>3. s \in Seq(AstItems) /\ Len(s) = 2 /\ s[1] = a /\ s[2] = b
      BY <3>2, Lists
    <3>4. ast' = ast \o s /\ ph' = "after" /\ UNCHANGED << ctxs, here, stack >>
      BY <2>2, <2>3 DEF a, b
    <3> HIDE DEF s
    <3>5. \A j \in 1 .. Len(s) : s[j] = a \/ s[j] = b
      BY <3>3
    <3>6. QuietItems(s) /\ NoneDeclared(s)
      BY <1>1, <1>2, <2>1, <2>3, <3>2, <3>4, <3>5 DEF QuietItems, NoneDeclared, UseKinds, QuietKinds
    <3>7. CallStack /\ ph' \in Phases \ {"param", "parsed", "rejected"} /\ ph' # "statement" /\ Len(s) > 0
      BY <3>3, <3>4 DEF CallStack, Phases
    <3> QED
      BY <1>2, <2>1, <3>3, <3>4, <3>6, <3>7, QuietNone
  <2> QED
    BY <2>2, <2>3
<1>8. CASE Declare
  <2>1. PICK x \in Names, ty \in Types :
        /\ ph = "statement" /\ Room("decl")
        /\ IF IsBound(Vars(here), x)
           THEN Reject
           ELSE /\ Declared(x, ty)
                /\ \/ /\ Add(Item("decl", x, here, NewMeaning(ty)))
                      /\ ph' = "closed"
                   \/ /\ ast' = ast \o << Item("decl", x, here, NewMeaning(ty)),
                                          Plain("next"),
                                          Item("set", x, here, NewMeaning(ty)) >>
                      /\ ph' = "operand"
                /\ UNCHANGED << here, stack, found >>
    BY <1>8 DEF Declare
  <2>2. Len(ast) <= MaxItems
    BY <1>1, <2>1, ContextsAssumption DEF Room
  <2> QED
    BY <2>1, <2>2, QuietDecl
<1>9. CASE ParseParam
  <2>1. PICK x \in Names :
        /\ ph = "param"
        /\ Declared(x, IntType)
        /\ Add(Item("param", x, here, NewMeaning(IntType)))
        /\ ph' = "closed"
        /\ UNCHANGED << here, stack, found >>
    BY <1>9 DEF ParseParam
  <2>2. Len(ast) <= MaxItems /\ Vars(here) = EmptyEnv /\ TopOp = "lambda_params"
    BY <2>1 DEF ParserInv, ParamInv
  <2>3. ~IsBound(Vars(here), x) /\ IntType \in Types
    BY <2>2, ContextsAssumption DEF IsBound, Bound, EmptyEnv
  <2> QED
    BY <2>1, <2>2, <2>3, QuietDecl
<1>10. CASE ParseInfix
  <2>1. ph \notin {"param", "closed", "parsed"}
    BY <1>10 DEF ParseInfix
  <2> QED
    BY <1>2, <1>10, <2>1, QuietPlain DEF ParseInfix, QuietKinds
<1>11. CASE NextArg
  BY <1>11, QuietPlain DEF NextArg, QuietKinds
<1>12. CASE EndCall
  <2>1. /\ stack \in Seq(Entries) /\ Len(stack) \in Nat \ {0} /\ TopOp = "func_call"
    BY <1>1, <1>12, TopEntry DEF EndCall
  <2> DEFINE c == ast[Top.from]
             e == Item("ret", c.x, c.at, c.means)
             s == << e >>
  <2>2. Top.from \in 1 .. Len(ast)
    BY <2>1 DEF AstInv, Top
  <2>3. c \in AstItems /\ c.at \in 1 .. Len(ctxs)
    BY <1>1, <2>2, ElementOfSeq DEF AstInv
  <2>4. c.x \in AstNames /\ c.means \in AstMeanings
    BY <2>3 DEF AstItems
  <2>5. Add(e) /\ stack' = Outer /\ ph' = "after" /\ UNCHANGED << ctxs, here >>
    BY <1>12 DEF EndCall, Pop
  <2> HIDE DEF c
  <2>6. e \in AstItems /\ e.k = "ret" /\ e.at \in 1 .. Len(ctxs)
    BY <1>1, <2>3, <2>4, NamedItem, NameNames, KindsHave
  <2> HIDE DEF e
  <2>7. s \in Seq(AstItems) /\ Len(s) = 1 /\ s[1] = e /\ ast' = ast \o s
    BY <1>1, <2>5, <2>6, Lists, AddIsConcat
  <2> HIDE DEF s
  <2>8. \A j \in 1 .. Len(s) : s[j].k = "ret" /\ s[j].at \in 1 .. Len(ctxs)
    BY <2>6, <2>7
  <2>9. QuietItems(s) /\ NoneDeclared(s)
    BY <2>1, <2>5, <2>8 DEF QuietItems, NoneDeclared, UseKinds, QuietKinds
  <2>10. CallStack /\ ph' \in Phases \ {"param", "parsed", "rejected"} /\ ph' # "statement" /\ Len(s) > 0
    BY <2>1, <2>5, <2>7 DEF CallStack, Phases
  <2> QED
    BY <1>12, <2>1, <2>5, <2>7, <2>9, <2>10, QuietNone DEF EndCall
<1>13. CASE NextStatement
  BY <1>13, QuietPlain DEF NextStatement, QuietKinds, BodyOps
<1> QED
  BY <1>3, <1>4, <1>5, <1>6, <1>7, <1>8, <1>9, <1>10, <1>11, <1>12, <1>13

-----------------------------------------------------------------------------
(* The parsing stack after a step. *)

Shorter == /\ Len(stack) \in Nat \ {0} /\ Len(stack') = Len(stack) - 1
           /\ \A i \in 1 .. Len(stack) - 1 : stack'[i] = stack[i]

Longer(op) == /\ Len(stack) \in Nat /\ Len(stack') = Len(stack) + 1
              /\ \A i \in 1 .. Len(stack) : stack'[i] = stack[i]
              /\ stack'[Len(stack) + 1].op = op /\ stack'[Len(stack) + 1].from = Len(ast) + 1

Turned(op) == /\ Len(stack) \in Nat \ {0} /\ Len(stack') = Len(stack)
              /\ \A i \in 1 .. Len(stack) - 1 : stack'[i] = stack[i]
              /\ stack'[Len(stack)].op = op /\ stack'[Len(stack)].from = stack[Len(stack)].from

LEMMA PopShape ==
  ASSUME TypeInv, TopOp # "none", stack' = Outer
  PROVE  Shorter /\ TopOp = stack[Len(stack)].op
<1>1. /\ stack \in Seq(Entries) /\ Len(stack) \in Nat \ {0} /\ DOMAIN stack = 1 .. Len(stack)
      /\ TopOp = stack[Len(stack)].op
  BY TopEntry
<1>2. /\ Len(stack') = Len(stack) - 1
      /\ \A i \in 1 .. Len(stack) - 1 : stack'[i] = stack[i]
  BY <1>1 DEF Outer
<1> QED
  BY <1>1, <1>2 DEF Shorter

LEMMA PushShape ==
  ASSUME TypeInv, NEW op \in StackOps, stack' = Append(stack, Entry(op))
  PROVE  Longer(op)
<1>1. Len(ast) \in Nat
  BY LenProperties DEF TypeInv, IsSequence
<1>2. Entry(op) \in Entries /\ Entry(op).op = op /\ Entry(op).from = Len(ast) + 1
  BY <1>1 DEF Entry, Entries
<1>3. stack \in Seq(Entries) /\ Len(stack) \in Nat
  BY LenProperties DEF TypeInv
<1>4. /\ Len(stack') = Len(stack) + 1
      /\ \A i \in 1 .. Len(stack) : stack'[i] = stack[i]
      /\ stack'[Len(stack) + 1] = Entry(op)
  BY <1>2, <1>3, AppendProperties, LenProperties
<1> QED
  BY <1>2, <1>3, <1>4 DEF Longer

LEMMA TurnShape ==
  ASSUME TypeInv, TopOp # "none", NEW op \in StackOps, Become(op)
  PROVE  Turned(op) /\ TopOp = stack[Len(stack)].op
<1>1. /\ stack \in Seq(Entries) /\ Len(stack) \in Nat \ {0} /\ DOMAIN stack = 1 .. Len(stack)
      /\ TopOp = stack[Len(stack)].op
  BY TopEntry
<1>2. stack[Len(stack)] \in Entries
  BY <1>1, ElementOfSeq
<1>3. [stack[Len(stack)] EXCEPT !.op = op] \in Entries
  BY <1>2 DEF Entries
<1>4. stack' = [stack EXCEPT ![Len(stack)] = [stack[Len(stack)] EXCEPT !.op = op]]
  BY DEF Become
<1>5. /\ stack' \in Seq(Entries) /\ Len(stack') = Len(stack)
      /\ \A i \in 1 .. Len(stack) : i # Len(stack) => stack'[i] = stack[i]
      /\ stack'[Len(stack)].op = op /\ stack'[Len(stack)].from = stack[Len(stack)].from
  BY <1>1, <1>2, <1>3, <1>4, ExceptSeq, LenProperties DEF Entries
<1>6. \A i \in 1 .. Len(stack) - 1 : i \in 1 .. Len(stack) /\ i # Len(stack)
  <2>1. Len(stack) \in Nat
    BY <1>1
  <2> QED
    BY <2>1
<1> QED
  BY <1>1, <1>5, <1>6 DEF Turned

\* The operations of the stack entries, first and last.
LEMMA TopIs ==
  ASSUME TypeInv
  PROVE  /\ stack \in Seq(Entries) /\ Len(stack) \in Nat /\ DOMAIN stack = 1 .. Len(stack)
         /\ stack = << >> <=> Len(stack) = 0
         /\ Len(stack) = 0 => TopOp = "none"
         /\ Len(stack) # 0 => TopOp = stack[Len(stack)].op
         /\ \A i \in 1 .. Len(stack) : stack[i].op \in StackOps
<1>1. stack \in Seq(Entries) /\ Len(stack) \in Nat /\ DOMAIN stack = 1 .. Len(stack)
  BY LenProperties DEF TypeInv
<1>2. \A i \in 1 .. Len(stack) : stack[i] \in Entries
  BY <1>1, ElementOfSeq
<1>3. stack = << >> <=> Len(stack) = 0
  BY <1>1, EmptySeq
<1> QED
  BY <1>1, <1>2, <1>3 DEF Entries, TopOp, Top

LEMMA NoLambda ==
  ASSUME ParserInv, AstInv, TopOp # "lambda_params"
  PROVE  \A i \in 1 .. Len(stack) : stack[i].op # "lambda_params"
<1>1. TypeInv
  BY DEF ParserInv
<1>2. /\ Len(stack) \in Nat /\ Len(stack) # 0 => TopOp = stack[Len(stack)].op
  BY <1>1, TopIs
<1>3. LambdaInv
  BY DEF AstInv
<1>4. SUFFICES ASSUME NEW i \in 1 .. Len(stack), stack[i].op = "lambda_params" PROVE FALSE
  OBVIOUS
<1>5. i = Len(stack) /\ Len(stack) # 0
  BY <1>2, <1>3, <1>4 DEF LambdaInv
<1> QED
  BY <1>2, <1>4, <1>5

-----------------------------------------------------------------------------
(* AstInv is kept. *)

Reaching == \A i \in 1 .. Len(stack') : stack'[i].from \in 1 .. Len(ast) + 1

LEMMA AstInvKept ==
  ASSUME ParserInv, ParserInv', AstInv, NEW s \in Seq(AstItems), ast' = ast \o s, Len(s) # 0,
         \A j \in 1 .. Len(s) : s[j].at \in 1 .. Len(ctxs'),
         Len(ctxs) <= Len(ctxs'),
         Reaching, LambdaInv', ph' \in Phases, ph' = "statement" => TopOp' \in BodyOps \cup {"none"}
  PROVE  AstInv'
<1>1. /\ ast' \in Seq(AstItems) /\ Len(ast') = Len(ast) + Len(s) /\ Len(ast) \in Nat /\ Len(s) \in Nat
      /\ \A i \in 1 .. Len(ast) : ast'[i] = ast[i]
      /\ \A j \in 1 .. Len(s) : ast'[Len(ast) + j] = s[j]
  BY ConcatProperties, LenProperties DEF AstInv
<1>2. Len(ctxs) \in Nat /\ Len(ctxs') \in Nat
  BY LenProperties DEF ParserInv, TypeInv, ContextsInv
<1>3. \A i \in 1 .. Len(ast') : ast'[i].at \in 1 .. Len(ctxs')
  <2> TAKE i \in 1 .. Len(ast')
  <2>1. CASE i \in 1 .. Len(ast)
    BY <1>1, <1>2, <2>1 DEF AstInv
  <2>2. CASE i \notin 1 .. Len(ast)
    <3>1. i - Len(ast) \in 1 .. Len(s) /\ Len(ast) + (i - Len(ast)) = i
      BY <1>1, <2>2
    <3> QED
      BY <1>1, <3>1
  <2> QED
    BY <2>1, <2>2
<1>4. \A i \in 1 .. Len(stack') : stack'[i].from \in 1 .. Len(ast')
  BY <1>1 DEF Reaching
<1>5. \A i \in 1 .. Len(ast) : ast'[i] = ast[i]
  BY <1>1
<1> QED
  BY <1>1, <1>3, <1>4 DEF AstInv

\* A step of the tree of contexts.
LEMMA TreeSizes ==
  ASSUME ParserInv
  PROVE  /\ Len(ctxs) \in Nat /\ here \in 1 .. Len(ctxs)
         /\ OpenContext => Len(ctxs') = Len(ctxs) + 1 /\ here' = Len(ctxs) + 1
         /\ \A p \in 1 .. Len(ctxs) : ctxs' = NewContext(ctxs, p) => Len(ctxs') = Len(ctxs) + 1
         /\ \A x \in Names, m \in Meanings :
              ctxs' = BoundThere(ctxs, here, x, m) /\ ~IsBound(Vars(here), x) => Len(ctxs') = Len(ctxs)
<1>1. ContextsInv(ctxs) /\ here \in 1 .. Len(ctxs) /\ Len(ctxs) \in Nat /\ ctxs \in Seq(Node)
  BY LenProperties DEF ParserInv, TypeInv, ContextsInv
<1>2. \A p \in 1 .. Len(ctxs) : Len(NewContext(ctxs, p)) = Len(ctxs) + 1
  BY <1>1, NewContextTree
<1>3. \A x \in Names, m \in Meanings :
        ~IsBound(Vars(here), x) => Len(BoundThere(ctxs, here, x, m)) = Len(ctxs)
  BY <1>1, DeclaredTree DEF Vars
<1> QED
  BY <1>1, <1>2, <1>3 DEF OpenContext

\* Below a block *context has a parent.
LEMMA BlockParent ==
  ASSUME ParserInv, TopOp \in BlockOps
  PROVE  Parent(here) \in 1 .. Len(ctxs) /\ here # Global
<1>1. TypeInv /\ BlockEntries # {}
  BY BlocksOpen DEF ParserInv
<1>2. Parent(here) \in 1 .. Len(ctxs) /\ Depth > 1
  BY <1>1, BlockHasParent
<1> QED
  BY <1>2, TreeSizes DEF Parent, NULL

LEMMA QuietAst ==
  ASSUME ParserInv, ParserInv', AstInv, Quiet
  PROVE  AstInv'
<1>1. TypeInv /\ TypeInv' /\ Len(ast) \in Nat
  BY LenProperties DEF ParserInv, AstInv
<1>2. PICK s \in Seq(AstItems) :
       /\ ast' = ast \o s /\ Len(s) > 0
       /\ QuietItems(s)
       /\ \/ ctxs' = ctxs /\ NoneDeclared(s)
          \/ \E x \in Names, ty \in Types : ctxs' = BoundThere(ctxs, here, x, NewMeaning(ty)) /\ OneDeclared(s, x, ty)
  BY DEF Quiet
<1>3. Len(ctxs') = Len(ctxs) /\ Len(ctxs) \in Nat
  BY <1>2, TreeSizes DEF OneDeclared
<1>4. Len(s) \in Nat
  BY LenProperties
<1>5. \A i \in 1 .. Len(stack) : stack[i].from \in 1 .. Len(ast)
  BY DEF AstInv
<1>6. ph' \in Phases /\ ph' \notin {"param", "parsed", "rejected"}
  BY DEF Quiet
<1>7. \A j \in 1 .. Len(s) : s[j].at \in 1 .. Len(ctxs')
  BY <1>2, <1>3 DEF QuietItems
<1>8. CASE stack' = stack
  <2>1. TopOp' = TopOp
    BY <1>8 DEF TopOp, Top
  <2>2. ph' = "statement" => TopOp' \in BodyOps \cup {"none"}
    BY <2>1 DEF Quiet
  <2>3. Reaching
    BY <1>1, <1>5, <1>8 DEF Reaching
  <2>4. LambdaInv'
    <3>1. CASE TopOp = "lambda_params"
      <4>1. ph' = "closed"
        BY <3>1 DEF Quiet
      <4> QED
        BY <1>8, <4>1 DEF AstInv, LambdaInv
    <3>2. CASE TopOp # "lambda_params"
      BY <1>8, <3>2, NoLambda DEF LambdaInv
    <3> QED
      BY <3>1, <3>2
  <2>5. ast' = ast \o s /\ Len(ctxs) <= Len(ctxs') /\ ph' \in Phases
    BY <1>2, <1>3, <1>6
  <2> QED
    BY <1>2, <1>7, <2>2, <2>3, <2>4, <2>5, AstInvKept
<1>9. CASE stack' = Append(stack, Entry("func_call")) /\ TopOp # "lambda_params"
  <2>1. Longer("func_call")
    BY <1>1, <1>9, PushShape DEF StackOps
  <2>2. Reaching
    <3>1. stack'[Len(stack) + 1].from \in 1 .. Len(ast) + 1
      BY <1>1, <2>1 DEF Longer
    <3>2. \A i \in 1 .. Len(stack) : stack'[i].from \in 1 .. Len(ast) + 1
      BY <1>1, <1>5, <2>1 DEF Longer
    <3>3. \A i \in 1 .. Len(stack') : i \in 1 .. Len(stack) \/ i = Len(stack) + 1
      BY <2>1 DEF Longer
    <3> QED
      BY <3>1, <3>2, <3>3 DEF Reaching
  <2>3. LambdaInv'
    <3>1. \A i \in 1 .. Len(stack') : stack'[i].op # "lambda_params"
      BY <1>9, <2>1, NoLambda DEF Longer
    <3> QED
      BY <3>1 DEF LambdaInv
  <2>4. stack' # stack
    BY <2>1 DEF Longer
  <2>5. ph' # "statement"
    BY <2>4 DEF Quiet
  <2>6. /\ ast' = ast \o s /\ Len(ctxs) <= Len(ctxs') /\ ph' \in Phases /\ Len(s) # 0
        /\ (ph' = "statement" => TopOp' \in BodyOps \cup {"none"})
    BY <1>2, <1>3, <1>4, <1>6, <2>5
  <2> QED
    BY <1>7, <2>2, <2>3, <2>6, AstInvKept, SMTT(30)
<1>10. CASE TopOp = "func_call" /\ stack' = Outer
  <2>1. Shorter
    BY <1>1, <1>10, PopShape
  <2>2. Reaching
    <3>1. \A i \in 1 .. Len(stack') : i \in 1 .. Len(stack) /\ stack'[i] = stack[i]
      BY <1>1, <2>1 DEF Shorter
    <3> QED
      BY <1>5, <3>1 DEF Reaching
  <2>3. LambdaInv'
    <3>1. \A i \in 1 .. Len(stack') : stack'[i].op # "lambda_params"
      BY <1>10, <2>1, NoLambda DEF Shorter
    <3> QED
      BY <3>1 DEF LambdaInv
  <2>4. stack' # stack
    BY <2>1 DEF Shorter
  <2>5. ph' # "statement"
    BY <2>4 DEF Quiet
  <2>6. /\ ast' = ast \o s /\ Len(ctxs) <= Len(ctxs') /\ ph' \in Phases /\ Len(s) # 0
        /\ (ph' = "statement" => TopOp' \in BodyOps \cup {"none"})
    BY <1>2, <1>3, <1>4, <1>6, <2>5
  <2> QED
    BY <1>7, <2>2, <2>3, <2>6, AstInvKept, SMTT(30)
<1> QED
  BY <1>8, <1>9, <1>10 DEF Quiet, CallStack

\* The other actions.
LEMMA BlockAst ==
  ASSUME ParserInv, ParserInv', AstInv,
         \/ BeginIf \/ BeginThen \/ EmptyThen \/ BeginElse \/ EndBlock
         \/ BeginPlainLambda \/ EmptyLambda \/ BeginLambda \/ BeginLambdaBody \/ EmptyLambdaBody
  PROVE  AstInv'
<1>1. TypeInv /\ TypeInv' /\ Len(ast) \in Nat /\ ast \in Seq(AstItems)
  BY LenProperties DEF ParserInv, AstInv
<1>2. \A k \in ItemKinds : Plain(k) \in AstItems /\ Plain(k).at = here
  BY <1>1, PlainItem
<1>3. Len(ctxs) \in Nat /\ here \in 1 .. Len(ctxs)
  BY TreeSizes
<1>4. \A i \in 1 .. Len(stack) : stack[i].from \in 1 .. Len(ast)
  BY DEF AstInv
<1>5. ph \notin {"param", "closed", "parsed"} => TopOp # "lambda_params"
  BY NotLambda
<1>6. TopOp # "lambda_params" => \A i \in 1 .. Len(stack) : stack[i].op # "lambda_params"
  BY NoLambda
<1>7. \A i \in 1 .. Len(stack) : stack[i].op = "lambda_params" => i = Len(stack)
  BY DEF AstInv, LambdaInv
<1>8. ASSUME NEW op, Longer(op) PROVE Reaching
  <2>1. stack'[Len(stack) + 1].from \in 1 .. Len(ast) + 1
    BY <1>1, <1>8 DEF Longer
  <2>2. \A i \in 1 .. Len(stack) : stack'[i].from \in 1 .. Len(ast) + 1
    BY <1>1, <1>4, <1>8 DEF Longer
  <2>3. \A i \in 1 .. Len(stack') : i \in 1 .. Len(stack) \/ i = Len(stack) + 1
    BY <1>8 DEF Longer
  <2> QED
    BY <2>1, <2>2, <2>3 DEF Reaching
<1>9. ASSUME Shorter PROVE Reaching
  <2>1. \A i \in 1 .. Len(stack') : i \in 1 .. Len(stack) /\ stack'[i] = stack[i]
    BY <1>1, <1>9 DEF Shorter
  <2> QED
    BY <1>1, <1>4, <2>1 DEF Reaching
<1>10. ASSUME NEW op, Turned(op) PROVE Reaching
  <2>1. \A i \in 1 .. Len(stack) : stack'[i].from = stack[i].from
    <3> TAKE i \in 1 .. Len(stack)
    <3>1. Len(stack) \in Nat
      BY <1>10 DEF Turned
    <3>2. i \in 1 .. Len(stack) - 1 \/ i = Len(stack)
      BY <3>1
    <3> QED
      BY <1>10, <3>2 DEF Turned
  <2>2. \A i \in 1 .. Len(stack) : stack[i].from \in 1 .. Len(ast) + 1
    BY <1>1, <1>4
  <2> QED
    BY <1>10, <2>1, <2>2 DEF Turned, Reaching
<1>11. ASSUME NEW op, Longer(op), TopOp # "lambda_params", op # "lambda_params" PROVE LambdaInv'
  <2>1. \A i \in 1 .. Len(stack') : i \in 1 .. Len(stack) \/ i = Len(stack) + 1
    BY <1>11 DEF Longer
  <2>2. \A i \in 1 .. Len(stack') : stack'[i].op # "lambda_params"
    BY <1>6, <1>11, <2>1 DEF Longer
  <2> QED
    BY <2>2 DEF LambdaInv
<1>12. ASSUME Shorter PROVE LambdaInv'
  <2>1. \A i \in 1 .. Len(stack) - 1 : i \in 1 .. Len(stack) /\ i # Len(stack)
    <3>1. Len(stack) \in Nat
      BY <1>12 DEF Shorter
    <3> QED
      BY <3>1
  <2>2. \A i \in 1 .. Len(stack') : stack'[i].op # "lambda_params"
    BY <1>7, <1>12, <2>1 DEF Shorter
  <2> QED
    BY <2>2 DEF LambdaInv
<1>13. ASSUME NEW op, Turned(op), op # "lambda_params" PROVE LambdaInv'
  <2>1. \A i \in 1 .. Len(stack) : i # Len(stack) => i \in 1 .. Len(stack) - 1
    <3>1. Len(stack) \in Nat
      BY <1>13 DEF Turned
    <3> QED
      BY <3>1
  <2>2. \A i \in 1 .. Len(stack') : stack'[i].op # "lambda_params"
    BY <1>7, <1>13, <2>1 DEF Turned
  <2> QED
    BY <2>2 DEF LambdaInv
<1>14. ASSUME NEW op, Longer(op) \/ Turned(op), op \in StackOps PROVE TopOp' = op
  <2>1. Len(stack') \in Nat \ {0} /\ stack'[Len(stack')].op = op
    BY <1>14 DEF Longer, Turned
  <2>2. stack' # << >>
    BY <2>1, EmptySeq
  <2> QED
    BY <2>1, <2>2 DEF TopOp, Top
<1>15. \A k \in ItemKinds : Add(Plain(k)) =>
          \E s \in Seq(AstItems) : ast' = ast \o s /\ Len(s) # 0 /\ \A j \in 1 .. Len(s) : s[j].at = here
  <2> TAKE k \in ItemKinds
  <2> HAVE Add(Plain(k))
  <2> DEFINE a == Plain(k)
             s == << a >>
  <2>1. a \in AstItems /\ a.at = here /\ Add(a)
    BY <1>2
  <2> HIDE DEF a
  <2>2. s \in Seq(AstItems) /\ Len(s) = 1 /\ s[1] = a /\ ast' = ast \o s
    BY <1>1, <2>1, Lists, AddIsConcat
  <2> HIDE DEF s
  <2>3. \A j \in 1 .. Len(s) : s[j].at = here
    BY <2>1, <2>2
  <2>4. Len(s) # 0
    BY <2>2
  <2> QED
    BY <2>2, <2>3, <2>4
<1>16. \A k, l \in ItemKinds : ast' = ast \o << Plain(k), Plain(l) >> =>
          \E s \in Seq(AstItems) : ast' = ast \o s /\ Len(s) # 0 /\ \A j \in 1 .. Len(s) : s[j].at = here
  <2> TAKE k, l \in ItemKinds
  <2> HAVE ast' = ast \o << Plain(k), Plain(l) >>
  <2> DEFINE a == Plain(k)
             b == Plain(l)
             s == << a, b >>
  <2>1. a \in AstItems /\ a.at = here /\ b \in AstItems /\ b.at = here /\ ast' = ast \o s
    BY <1>2
  <2> HIDE DEF a, b
  <2>2. s \in Seq(AstItems) /\ Len(s) = 2 /\ s[1] = a /\ s[2] = b
    BY <2>1, Lists
  <2> HIDE DEF s
  <2>3. \A j \in 1 .. Len(s) : j = 1 \/ j = 2
    BY <2>2
  <2>4. \A j \in 1 .. Len(s) : s[j].at = here
    BY <2>1, <2>2, <2>3
  <2>5. Len(s) # 0
    BY <2>2
  <2> QED
    BY <2>1, <2>2, <2>4, <2>5
<1>18. CASE BeginIf
  <2>1. PICK s \in Seq(AstItems) : ast' = ast \o s /\ Len(s) # 0 /\ \A j \in 1 .. Len(s) : s[j].at = here
    BY <1>15, <1>18, KindsHave DEF BeginIf
  <2>2. Longer("if-cond") /\ ph \notin {"param", "closed", "parsed"}
    BY <1>1, <1>18, PushShape DEF BeginIf, StackOps, BlockOps, AtOperand
  <2>3. Len(ctxs') = Len(ctxs) + 1
    BY <1>18, TreeSizes DEF BeginIf
  <2>4. \A j \in 1 .. Len(s) : s[j].at \in 1 .. Len(ctxs')
    BY <1>3, <2>1, <2>3
  <2>5. LambdaInv' /\ Reaching
    BY <1>5, <1>8, <1>11, <2>2
  <2>6. ph' \in Phases /\ ph' # "statement"
    BY <1>18 DEF BeginIf, Phases
  <2> QED
    BY <1>3, <2>1, <2>3, <2>4, <2>5, <2>6, AstInvKept, SMTT(30)
<1>19. CASE BeginThen
  <2>1. PICK s \in Seq(AstItems) : ast' = ast \o s /\ Len(s) # 0 /\ \A j \in 1 .. Len(s) : s[j].at = here
    BY <1>15, <1>19, KindsHave DEF BeginThen
  <2>2. Turned("if-then-body") /\ ctxs' = ctxs
    BY <1>1, <1>19, TurnShape DEF BeginThen, StackOps, BlockOps, BodyOps
  <2>3. LambdaInv' /\ Reaching
    BY <1>10, <1>13, <2>2
  <2>4. TopOp' = "if-then-body"
    BY <1>14, <2>2 DEF StackOps, BlockOps, BodyOps
  <2>5. ph' \in Phases /\ TopOp' \in BodyOps
    BY <1>19, <2>4 DEF BeginThen, Phases, BodyOps
  <2> QED
    BY <1>3, <2>1, <2>2, <2>3, <2>5, AstInvKept, SMTT(30)
<1>20. CASE EmptyThen
  <2>1. PICK s \in Seq(AstItems) : ast' = ast \o s /\ Len(s) # 0 /\ \A j \in 1 .. Len(s) : s[j].at = here
    BY <1>16, <1>20, KindsHave DEF EmptyThen
  <2>2. Shorter /\ ctxs' = ctxs
    BY <1>1, <1>20, PopShape DEF EmptyThen, CloseContext, Pop
  <2>3. LambdaInv' /\ Reaching
    BY <1>9, <1>12, <2>2
  <2>4. ph' \in Phases /\ ph' # "statement"
    BY <1>20 DEF EmptyThen, Phases
  <2> QED
    BY <1>3, <2>1, <2>2, <2>3, <2>4, AstInvKept, SMTT(30)
<1>21. CASE BeginElse
  <2>1. PICK s \in Seq(AstItems) : ast' = ast \o s /\ Len(s) # 0 /\ \A j \in 1 .. Len(s) : s[j].at = here
    BY <1>15, <1>21, KindsHave DEF BeginElse
  <2>2. Turned("if-else-body")
    BY <1>1, <1>21, TurnShape DEF BeginElse, StackOps, BlockOps, BodyOps
  <2>3. LambdaInv' /\ Reaching
    BY <1>10, <1>13, <2>2
  <2>4. TopOp' = "if-else-body"
    BY <1>14, <2>2 DEF StackOps, BlockOps, BodyOps
  <2>5. ph' \in Phases /\ TopOp' \in BodyOps
    BY <1>21, <2>4 DEF BeginElse, Phases, BodyOps
  <2>6. Len(ctxs') = Len(ctxs) + 1
    <3>1. TopOp \in BlockOps
      BY <1>21 DEF BeginElse, BlockOps, BodyOps
    <3>2. Parent(here) \in 1 .. Len(ctxs)
      BY <3>1, BlockParent
    <3> QED
      BY <1>21, <3>2, TreeSizes DEF BeginElse
  <2>7. \A j \in 1 .. Len(s) : s[j].at \in 1 .. Len(ctxs')
    BY <1>3, <2>1, <2>6
  <2> QED
    BY <1>3, <2>1, <2>3, <2>5, <2>6, <2>7, AstInvKept
<1>22. CASE EndBlock
  <2>1. PICK s \in Seq(AstItems) : ast' = ast \o s /\ Len(s) # 0 /\ \A j \in 1 .. Len(s) : s[j].at = here
    BY <1>15, <1>22, KindsHave DEF EndBlock
  <2>2. Shorter /\ ctxs' = ctxs
    BY <1>1, <1>22, PopShape DEF EndBlock, CloseContext, Pop, BodyOps
  <2>3. LambdaInv' /\ Reaching
    BY <1>9, <1>12, <2>2
  <2>4. ph' \in Phases /\ ph' # "statement"
    BY <1>22 DEF EndBlock, Phases
  <2> QED
    BY <1>3, <2>1, <2>2, <2>3, <2>4, AstInvKept, SMTT(30)
<1>23. CASE BeginPlainLambda
  <2> DEFINE a == Plain("func")
             b == Item("body", "", here', Meaning(Fun0, 0))
             s == << a, b >>
  <2>1. Len(ctxs') = Len(ctxs) + 1 /\ here' = Len(ctxs) + 1
    BY <1>23, TreeSizes DEF BeginPlainLambda
  <2>2. b \in AstItems /\ b.at = here' /\ a \in AstItems /\ a.at = here
    <3>1. here' \in Nat
      BY <1>3, <2>1
    <3>2. Meaning(Fun0, 0) \in AstMeanings /\ "" \in AstNames /\ "body" \in ItemKinds
      BY EmptyName, KindsHave DEF AstMeanings
    <3> QED
      BY <1>2, <3>1, <3>2, KindsHave DEF Item, AstItems
  <2>3. ast' = ast \o s
    BY <1>23 DEF BeginPlainLambda
  <2> HIDE DEF a, b
  <2>4. s \in Seq(AstItems) /\ Len(s) = 2 /\ s[1] = a /\ s[2] = b
    BY <2>2, Lists
  <2> HIDE DEF s
  <2>5. \A j \in 1 .. Len(s) : s[j] = a \/ s[j] = b
    BY <2>4
  <2>6. \A j \in 1 .. Len(s) : s[j].at \in 1 .. Len(ctxs')
    BY <1>3, <2>1, <2>2, <2>5
  <2>7. Longer("lambda_body") /\ ph \notin {"param", "closed", "parsed"}
    BY <1>1, <1>23, PushShape DEF BeginPlainLambda, StackOps, BlockOps, BodyOps, AtOperand
  <2>8. LambdaInv' /\ Reaching
    BY <1>5, <1>8, <1>11, <2>7
  <2>9. TopOp' = "lambda_body"
    BY <1>14, <2>7 DEF StackOps, BlockOps, BodyOps
  <2>10. ph' \in Phases /\ TopOp' \in BodyOps
    BY <1>23, <2>9 DEF BeginPlainLambda, Phases, BodyOps
  <2>11. Len(s) # 0 /\ Len(ctxs) <= Len(ctxs')
    BY <1>3, <2>1, <2>4
  <2> QED
    BY <2>3, <2>4, <2>6, <2>8, <2>10, <2>11, AstInvKept
<1>24. CASE EmptyLambda
  <2>1. PICK s \in Seq(AstItems) : ast' = ast \o s /\ Len(s) # 0 /\ \A j \in 1 .. Len(s) : s[j].at = here
    BY <1>16, <1>24, KindsHave DEF EmptyLambda
  <2>2. stack' = << >> /\ ctxs' = ctxs
    BY <1>24 DEF EmptyLambda
  <2>3. Len(stack') = 0
    BY <2>2, EmptySeq
  <2>4. LambdaInv' /\ Reaching
    BY <2>3 DEF LambdaInv, Reaching
  <2>5. ph' \in Phases /\ ph' # "statement"
    BY <1>24 DEF EmptyLambda, Phases
  <2> QED
    BY <1>3, <2>1, <2>2, <2>4, <2>5, AstInvKept, SMTT(30)
<1>25. CASE BeginLambda
  <2>1. PICK s \in Seq(AstItems) : ast' = ast \o s /\ Len(s) # 0 /\ \A j \in 1 .. Len(s) : s[j].at = here
    BY <1>15, <1>25, KindsHave DEF BeginLambda
  <2>2. Longer("lambda_params") /\ ph \notin {"param", "closed", "parsed"}
    BY <1>1, <1>25, PushShape DEF BeginLambda, StackOps, BlockOps, AtOperand
  <2>3. Len(ctxs') = Len(ctxs) + 1
    BY <1>25, TreeSizes DEF BeginLambda
  <2>4. \A j \in 1 .. Len(s) : s[j].at \in 1 .. Len(ctxs')
    BY <1>3, <2>1, <2>3
  <2>5. Reaching
    BY <1>8, <2>2
  <2>6. ph' = "param"
    BY <1>25 DEF BeginLambda
  <2>7. LambdaInv'
    <3>1. \A i \in 1 .. Len(stack') : i \in 1 .. Len(stack) \/ i = Len(stack')
      BY <2>2 DEF Longer
    <3>2. \A i \in 1 .. Len(stack) : stack'[i].op # "lambda_params"
      BY <1>5, <1>6, <2>2 DEF Longer
    <3> QED
      BY <2>6, <3>1, <3>2 DEF LambdaInv
  <2>8. ph' \in Phases /\ ph' # "statement"
    BY <2>6 DEF Phases
  <2> QED
    BY <1>3, <2>1, <2>3, <2>4, <2>5, <2>7, <2>8, AstInvKept, SMTT(30)
<1>26. CASE BeginLambdaBody
  <2> DEFINE e == Item("body", "", here, Meaning(Fun1, 0))
             s == << e >>
  <2>1. Meaning(Fun1, 0) \in AstMeanings /\ "" \in AstNames /\ "body" \in ItemKinds
    BY EmptyName, KindsHave DEF AstMeanings
  <2>10. here \in Nat
    BY <1>3
  <2>2. e \in AstItems /\ e.at = here
    BY <2>1, <2>10 DEF Item, AstItems
  <2>3. Add(e) /\ ctxs' = ctxs
    BY <1>26 DEF BeginLambdaBody
  <2> HIDE DEF e
  <2>4. s \in Seq(AstItems) /\ Len(s) = 1 /\ s[1] = e /\ ast' = ast \o s
    BY <1>1, <2>2, <2>3, Lists, AddIsConcat
  <2> HIDE DEF s
  <2>5. \A j \in 1 .. Len(s) : s[j].at \in 1 .. Len(ctxs')
    BY <1>3, <2>2, <2>3, <2>4
  <2>6. Turned("lambda_body")
    BY <1>1, <1>26, TurnShape DEF BeginLambdaBody, StackOps, BlockOps, BodyOps
  <2>7. LambdaInv' /\ Reaching
    BY <1>10, <1>13, <2>6
  <2>8. TopOp' = "lambda_body"
    BY <1>14, <2>6 DEF StackOps, BlockOps, BodyOps
  <2>9. ph' \in Phases /\ TopOp' \in BodyOps
    BY <1>26, <2>8 DEF BeginLambdaBody, Phases, BodyOps
  <2>11. Len(s) # 0 /\ Len(ctxs) <= Len(ctxs')
    BY <1>3, <2>3, <2>4
  <2> QED
    BY <2>4, <2>5, <2>7, <2>9, <2>11, AstInvKept
<1>27. CASE EmptyLambdaBody
  <2>1. PICK s \in Seq(AstItems) : ast' = ast \o s /\ Len(s) # 0 /\ \A j \in 1 .. Len(s) : s[j].at = here
    BY <1>15, <1>27, KindsHave DEF EmptyLambdaBody
  <2>2. Shorter /\ ctxs' = ctxs
    BY <1>1, <1>27, PopShape DEF EmptyLambdaBody, CloseContext, Pop
  <2>3. LambdaInv' /\ Reaching
    BY <1>9, <1>12, <2>2
  <2>4. ph' \in Phases /\ ph' # "statement"
    BY <1>27 DEF EmptyLambdaBody, Phases
  <2> QED
    BY <1>3, <2>1, <2>2, <2>3, <2>4, AstInvKept, SMTT(30)
<1> QED
  BY <1>18, <1>19, <1>20, <1>21, <1>22, <1>23, <1>24, <1>25, <1>26, <1>27

\* The end of the file where something is open: what is listed then.
EndItems(s) ==
  /\ \A j \in 1 .. Len(s) : s[j].at \in 1 .. Len(ctxs) /\ s[j].k \in {"null", "end", "ret", "nobody"}
  /\ stack = << >> => \A j \in 1 .. Len(s) : s[j].k = "null" /\ s[j].at = here
  /\ \E h \in {0, 1} :
       /\ Len(s) = h + Len(stack)
       /\ \A j \in 1 .. h : s[j].k = "null"
       /\ \A j \in 1 .. Len(stack) : s[h + j].k = "end" <=> stack[Len(stack) + 1 - j].op \in BodyOps

LEMMA InsideEnd ==
  ASSUME ParserInv, AstInv, EndOfFileInside
  PROVE  \E s \in Seq(AstItems) : ast' = ast \o s /\ Len(s) # 0 /\ EndItems(s)
<1>1. TypeInv /\ ast \in Seq(AstItems) /\ Len(ast) \in Nat /\ here \in 1 .. Len(ctxs)
  BY LenProperties DEF ParserInv, TypeInv, AstInv
<1> DEFINE hole   == IF ph = "param" THEN << >> ELSE << Plain("null") >>
           closes == [i \in DOMAIN stack |-> Closing(stack[Len(stack) + 1 - i])]
<1>2. stack \in Seq(Entries) /\ Len(stack) \in Nat /\ DOMAIN stack = 1 .. Len(stack)
  BY <1>1, TopIs
<1>3. ASSUME NEW e \in Entries, e.from \in 1 .. Len(ast)
      PROVE  /\ Closing(e) \in AstItems /\ Closing(e).at \in 1 .. Len(ctxs)
             /\ Closing(e).k \in {"end", "ret", "nobody"}
             /\ Closing(e).k = "end" <=> e.op \in BodyOps
  <2>1. \A k \in ItemKinds : Plain(k) \in AstItems /\ Plain(k).k = k /\ Plain(k).at = here
    BY <1>1, PlainItem
  <2>2. CASE e.op \in BodyOps
    <3>1. e.op # "func_call"
      BY <2>2 DEF BodyOps
    <3>2. Closing(e) = Plain("end")
      BY <2>2, <3>1 DEF Closing
    <3> QED
      BY <1>1, <2>1, <2>2, <3>2, KindsHave
  <2>3. CASE e.op = "func_call"
    <3> DEFINE c == ast[e.from]
    <3>1. c \in AstItems /\ c.at \in 1 .. Len(ctxs)
      BY <1>1, <1>3, ElementOfSeq DEF AstInv
    <3>2. c.x \in AstNames /\ c.means \in AstMeanings
      BY <3>1 DEF AstItems
    <3>3. Closing(e) = Item("ret", c.x, c.at, c.means)
      BY <2>3 DEF Closing, BodyOps
    <3> HIDE DEF c
    <3> QED
      BY <1>1, <2>3, <3>1, <3>2, <3>3, NamedItem, KindsHave DEF BodyOps
  <2>4. CASE e.op \notin BodyOps /\ e.op # "func_call"
    <3>1. Closing(e) = Plain("nobody")
      BY <2>4 DEF Closing
    <3> QED
      BY <1>1, <2>1, <2>4, <3>1, KindsHave
  <2> QED
    BY <2>2, <2>3, <2>4
<1>4. \A i \in 1 .. Len(stack) : LET e == stack[Len(stack) + 1 - i] IN e \in Entries /\ e.from \in 1 .. Len(ast)
  <2> TAKE i \in 1 .. Len(stack)
  <2>1. Len(stack) + 1 - i \in 1 .. Len(stack)
    BY <1>2
  <2> QED
    BY <1>2, <2>1, ElementOfSeq DEF AstInv
<1>5. /\ hole \in Seq(AstItems) /\ Len(hole) \in Nat
      /\ \A j \in 1 .. Len(hole) : hole[j].k = "null" /\ hole[j].at = here
  <2> DEFINE a == Plain("null")
  <2>1. a \in AstItems /\ a.k = "null" /\ a.at = here
    BY <1>1, PlainItem, KindsHave
  <2>2. hole = << >> \/ hole = << a >>
    OBVIOUS
  <2> HIDE DEF a, hole
  <2>3. CASE hole = << >>
    BY <2>3, EmptySeq
  <2>4. CASE hole = << a >>
    <3>1. hole \in Seq(AstItems) /\ Len(hole) = 1 /\ hole[1] = a
      BY <2>1, <2>4, Lists
    <3>2. \A j \in 1 .. Len(hole) : hole[j] = a
      BY <3>1
    <3> QED
      BY <2>1, <3>1, <3>2
  <2> QED
    BY <2>2, <2>3, <2>4
<1>6. /\ closes \in Seq(AstItems) /\ Len(closes) = Len(stack)
      /\ \A j \in 1 .. Len(closes) : closes[j].at \in 1 .. Len(ctxs) /\ closes[j].k \in {"end", "ret", "nobody"}
  <2>1. \A j \in 1 .. Len(stack) : /\ closes[j] \in AstItems /\ closes[j].at \in 1 .. Len(ctxs)
                                   /\ closes[j].k \in {"end", "ret", "nobody"}
    BY <1>2, <1>3, <1>4
  <2>2. closes = [i \in 1 .. Len(stack) |-> closes[i]]
    BY <1>2
  <2> HIDE DEF closes
  <2>3. closes \in [1 .. Len(stack) -> AstItems]
    BY <2>1, <2>2
  <2>4. closes \in Seq(AstItems) /\ Len(closes) = Len(stack)
    BY <1>2, <2>3
  <2> QED
    BY <2>1, <2>4
<1>17. Len(hole) \in {0, 1}
  OBVIOUS
<1>18. \A j \in 1 .. Len(stack) : closes[j].k = "end" <=> stack[Len(stack) + 1 - j].op \in BodyOps
  BY <1>2, <1>3, <1>4
<1>7. ast' = (ast \o hole) \o closes
  BY DEF EndOfFileInside
<1> HIDE DEF hole, closes
<1> DEFINE s == hole \o closes
<1>8. s \in Seq(AstItems) /\ ast' = ast \o s /\ Len(s) = Len(hole) + Len(closes)
  <2>1. ast \o s = (ast \o hole) \o closes
    BY <1>1, <1>5, <1>6, ConcatAssociative, SMTT(30)
  <2> QED
    BY <1>5, <1>6, <1>7, <2>1, ConcatProperties
<1>9. \A j \in 1 .. Len(s) : \/ j \in 1 .. Len(hole) /\ s[j] = hole[j]
                             \/ j - Len(hole) \in 1 .. Len(closes) /\ s[j] = closes[j - Len(hole)]
  BY <1>5, <1>6, ConcatProperties, LenProperties
<1>10. stack = << >> => Len(closes) = 0
  BY <1>6, EmptySeq
<1>13. Len(hole) # 0 \/ Len(closes) # 0
  <2>1. CASE ph = "param"
    <3>1. TopOp # "none"
      BY <2>1 DEF ParserInv, ParamInv
    <3> QED
      BY <1>1, <1>6, <3>1, TopIs
  <2>2. CASE ph # "param"
    BY <1>5, <2>2 DEF hole
  <2> QED
    BY <2>1, <2>2
<1>14. Len(s) # 0
  BY <1>5, <1>6, <1>2, <1>8, <1>13
<1> HIDE DEF s
<1>15. \A j \in 1 .. Len(s) : s[j].at \in 1 .. Len(ctxs) /\ s[j].k \in {"null", "end", "ret", "nobody"}
  BY <1>1, <1>5, <1>6, <1>9
<1>12. stack = << >> => \A j \in 1 .. Len(s) : s[j].k = "null" /\ s[j].at = here
  <2> HAVE stack = << >>
  <2>1. \A j : j \notin 1 .. Len(closes)
    BY <1>10
  <2> QED
    BY <1>5, <1>9, <2>1
<1>16. /\ Len(s) = Len(hole) + Len(stack)
       /\ \A j \in 1 .. Len(hole) : s[j].k = "null"
       /\ \A j \in 1 .. Len(stack) : s[Len(hole) + j].k = "end" <=> stack[Len(stack) + 1 - j].op \in BodyOps
  <2>1. \A j \in 1 .. Len(hole) : s[j] = hole[j]
    BY <1>5, <1>6, ConcatProperties DEF s
  <2>2. \A j \in 1 .. Len(closes) : s[Len(hole) + j] = closes[j]
    BY <1>5, <1>6, ConcatProperties DEF s
  <2>3. Len(s) = Len(hole) + Len(stack)
    BY <1>6, <1>8
  <2>4. \A j \in 1 .. Len(hole) : s[j].k = "null"
    BY <1>5, <2>1
  <2>5. \A j \in 1 .. Len(stack) : s[Len(hole) + j].k = "end" <=> stack[Len(stack) + 1 - j].op \in BodyOps
    <3> TAKE j \in 1 .. Len(stack)
    <3>1. s[Len(hole) + j] = closes[j]
      BY <1>6, <2>2
    <3> QED
      BY <1>18, <3>1
  <2> QED
    BY <2>3, <2>4, <2>5
<1> HIDE DEF s
<1> QED
  BY <1>8, <1>15, <1>12, <1>14, <1>16, <1>17 DEF EndItems

\* AstInv is an invariant of the parser.
LEMMA AstInvInit ==
  ASSUME ParserInit
  PROVE  AstInv
<1>1. ast = << >> /\ stack = << >> /\ ph = "statement"
  BY DEF ParserInit
<1>2. ast \in Seq(AstItems) /\ Len(ast) = 0 /\ Len(stack) = 0
  BY <1>1, EmptySeq
<1>3. TopOp = "none"
  BY <1>1 DEF TopOp
<1> QED
  BY <1>1, <1>2, <1>3 DEF AstInv, LambdaInv, Phases

LEMMA AstInvStep ==
  ASSUME ParserInv, ParserInv', AstInv, [ParserNext]_parserVars
  PROVE  AstInv'
<1>1. Len(ctxs) \in Nat /\ Len(ast) \in Nat /\ ast \in Seq(AstItems)
  BY LenProperties DEF ParserInv, TypeInv, ContextsInv, AstInv
<1>2. ASSUME UNCHANGED << ctxs, ast, stack >>, ph' \in {"parsed", "rejected"}, ph' = "parsed" \/ TopOp # "lambda_params"
      PROVE  AstInv'
  <2>1. LambdaInv'
    <3>1. CASE TopOp = "lambda_params"
      BY <1>2, <3>1 DEF AstInv, LambdaInv
    <3>2. CASE TopOp # "lambda_params"
      BY <1>2, <3>2, NoLambda DEF LambdaInv
    <3> QED
      BY <3>1, <3>2
  <2>2. ph' \in Phases /\ ph' # "statement"
    BY <1>2 DEF Phases
  <2> QED
    BY <1>2, <2>1, <2>2 DEF AstInv
<1>3. CASE UNCHANGED parserVars
  <2>1. UNCHANGED << ctxs, here, ast, stack, ph, found >>
    BY <1>3 DEF parserVars
  <2> QED
    BY <2>1 DEF AstInv, LambdaInv, TopOp, Top
<1>4. CASE \/ ParseInt \/ ParsePrefix \/ ParseVar \/ ParseAssign \/ BeginCall \/ ParseEmptyCall
           \/ Declare \/ ParseParam \/ ParseInfix \/ NextArg \/ EndCall \/ NextStatement
  <2>1. CASE Quiet
    BY <2>1, QuietAst
  <2>2. CASE Reject
    <3>1. TopOp # "lambda_params"
      <4>1. ph \notin {"param", "closed", "parsed"} \/ ph' # "rejected" \/ TopOp # "lambda_params"
        BY <1>4 DEF ParseInt, ParsePrefix, ParseVar, ParseAssign, BeginCall, ParseEmptyCall, Declare, ParseParam,
                    ParseInfix, NextArg, EndCall, NextStatement, AtOperand, Prefixed, BodyOps
      <4> QED
        BY <2>2, <4>1, NotLambda DEF Reject
    <3> QED
      BY <1>2, <2>2, <3>1 DEF Reject
  <2> QED
    BY <1>4, <2>1, <2>2, QuietActions
<1>5. CASE \/ BeginIf \/ BeginThen \/ EmptyThen \/ BeginElse \/ EndBlock
           \/ BeginPlainLambda \/ EmptyLambda \/ BeginLambda \/ BeginLambdaBody \/ EmptyLambdaBody
  BY <1>5, BlockAst
<1>6. CASE EndOfFile
  BY <1>2, <1>6 DEF EndOfFile
<1>7. CASE EndOfFileInside
  <2>1. PICK s \in Seq(AstItems) : ast' = ast \o s /\ Len(s) # 0 /\ EndItems(s)
    BY <1>7, InsideEnd
  <2>2. UNCHANGED << ctxs, here, stack >> /\ ph' = "parsed"
    BY <1>7 DEF EndOfFileInside
  <2>3. \A j \in 1 .. Len(s) : s[j].at \in 1 .. Len(ctxs')
    BY <2>1, <2>2 DEF EndItems
  <2>4. Reaching
    BY <1>1, <2>2 DEF Reaching, AstInv
  <2>5. LambdaInv'
    BY <2>2 DEF AstInv, LambdaInv
  <2>6. Len(ctxs) <= Len(ctxs') /\ ph' \in Phases /\ ph' # "statement"
    BY <1>1, <2>2 DEF Phases
  <2> QED
    BY <2>1, <2>2, <2>3, <2>4, <2>5, <2>6, AstInvKept
<1> QED
  BY <1>3, <1>4, <1>5, <1>6, <1>7 DEF ParserNext

-----------------------------------------------------------------------------
(***************************************************************************)
(* The children of contexts: they are listed in the order in which they    *)
(* were created, and every context is listed at its parent.                *)
(***************************************************************************)
ParentIn(t, c) == IF c = Global THEN NULL ELSE t[c].chain[Len(t[c].chain) - 1]

KidsOf(t, p, kids) ==
  /\ \A i \in 1 .. Len(kids) : kids[i] \in p + 1 .. Len(t) /\ ParentIn(t, kids[i]) = p
  /\ \A i, j \in 1 .. Len(kids) : i < j => kids[i] < kids[j]
  /\ \A d \in 2 .. Len(t) : ParentIn(t, d) = p => \E i \in 1 .. Len(kids) : kids[i] = d

KidsInv(t) == \A p \in 1 .. Len(t) : KidsOf(t, p, t[p].kids)

\* The parent of a context is there, and older.
LEMMA ParentIsThere ==
  ASSUME NEW t, ContextsInv(t), NEW c \in 2 .. Len(t)
  PROVE  /\ Len(t[c].chain) >= 2 /\ ParentIn(t, c) \in 1 .. Len(t)
         /\ t[ParentIn(t, c)].chain = SubSeq(t[c].chain, 1, Len(t[c].chain) - 1)
         /\ Len(t[ParentIn(t, c)].chain) = Len(t[c].chain) - 1
<1> DEFINE q == t[c].chain
<1>1. Len(t) \in Nat /\ c \in 1 .. Len(t) /\ c # 1
  BY LenProperties DEF ContextsInv
<1>2. ChainInv(t, c) /\ q \in Seq(Nat) /\ Len(q) \in Nat
  BY <1>1, ChainType DEF ContextsInv
<1>3. Len(q) > 0 /\ q[1] = 1 /\ q[Len(q)] = c
  BY <1>2 DEF ChainInv, Global
<1>4. Len(q) >= 2
  BY <1>1, <1>2, <1>3
<1>5. Len(q) - 1 \in 1 .. Len(q) /\ ParentIn(t, c) = q[Len(q) - 1]
  BY <1>1, <1>2, <1>4 DEF ParentIn, Global
<1>6. q[Len(q) - 1] \in 1 .. Len(t) /\ t[q[Len(q) - 1]].chain = SubSeq(q, 1, Len(q) - 1)
  BY <1>2, <1>5 DEF ChainInv
<1>7. Len(SubSeq(q, 1, Len(q) - 1)) = Len(q) - 1
  BY <1>2, <1>4
<1> QED
  BY <1>4, <1>5, <1>6, <1>7

LEMMA NewContextKids ==
  ASSUME NEW t, ContextsInv(t), KidsInv(t), NEW p \in 1 .. Len(t)
  PROVE  /\ KidsInv(NewContext(t, p))
         /\ ParentIn(NewContext(t, p), Len(t) + 1) = p
         /\ \A c \in 1 .. Len(t) : ParentIn(NewContext(t, p), c) = ParentIn(t, c)
<1> DEFINE n   == Len(t) + 1
           mid == [t EXCEPT ![p].kids = Append(@, n)]
           new == Context(Append(t[p].chain, n))
           u   == NewContext(t, p)
<1>1. t \in Seq(Node) /\ Len(t) \in Nat \ {0} /\ DOMAIN t = 1 .. Len(t) /\ n \in Nat \ {0, 1}
  BY LenProperties DEF ContextsInv
<1>2. /\ t[p].chain \in Seq(Nat) /\ t[p].kids \in Seq(Nat) /\ t[p] \in Node
      /\ Len(t[p].chain) \in Nat \ {0} /\ t[p].chain[Len(t[p].chain)] = p
  <2>1. ChainInv(t, p)
    BY DEF ContextsInv
  <2> QED
    BY <2>1, ChainType DEF ChainInv
<1>3. mid \in Seq(Node) /\ Len(mid) = Len(t) /\ mid[p] = [t[p] EXCEPT !.kids = Append(@, n)]
      /\ \A c \in 1 .. Len(t) : c # p => mid[c] = t[c]
  <2>1. [t[p] EXCEPT !.kids = Append(@, n)] \in Node
    <3>1. Append(t[p].kids, n) \in Seq(Nat)
      BY <1>1, <1>2, AppendProperties
    <3> QED
      BY <1>2, <3>1 DEF Node
  <2>2. mid = [t EXCEPT ![p] = [t[p] EXCEPT !.kids = Append(@, n)]]
    OBVIOUS
  <2> QED
    BY <1>1, <2>1, <2>2, ExceptSeq
<1>4. mid[p].kids = Append(t[p].kids, n)
  BY <1>2, <1>3 DEF Node
<1>5. u = Append(mid, new)
  BY DEF NewContext
<1>6. new \in Node /\ new.kids = << >> /\ new.chain = Append(t[p].chain, n)
  BY <1>1, <1>2, AppendProperties, EmptySeq DEF Context, Node, EmptyEnv
<1> HIDE DEF mid, new, u
<1>7. Len(u) = n /\ u[n] = new /\ \A c \in 1 .. Len(t) : u[c] = mid[c]
  BY <1>1, <1>3, <1>5, <1>6, AppendProperties
<1>8. ContextsInv(u) /\ \A c \in 1 .. Len(t) : u[c].chain = t[c].chain
  BY NewContextTree DEF u
<1>9. \A c \in 1 .. Len(t) : ParentIn(u, c) = ParentIn(t, c)
  BY <1>8 DEF ParentIn
<1>10. ParentIn(u, n) = p
  <2> DEFINE q == t[p].chain
  <2>1. q \in Seq(Nat) /\ Len(q) \in Nat \ {0} /\ q[Len(q)] = p
    BY <1>2
  <2>2. u[n].chain = Append(q, n)
    BY <1>6, <1>7
  <2> HIDE DEF q
  <2>3. Len(Append(q, n)) = Len(q) + 1 /\ Append(q, n)[Len(q)] = q[Len(q)]
    BY <1>1, <2>1, AppendProperties
  <2>4. Len(q) + 1 - 1 = Len(q)
    BY <2>1
  <2>5. n # 1
    BY <1>1
  <2> HIDE DEF n
  <2>6. ParentIn(u, n) = u[n].chain[Len(u[n].chain) - 1]
    BY <2>5 DEF ParentIn, Global
  <2>7. Len(u[n].chain) - 1 = Len(q)
    <3>1. Len(u[n].chain) = Len(q) + 1
      BY <2>2, <2>3, Zenon
    <3> QED
      BY <2>4, <3>1
  <2>8. u[n].chain[Len(q)] = p
    BY <2>1, <2>2, <2>3
  <2> QED
    BY <2>6, <2>7, <2>8
<1>11. ASSUME NEW c \in 1 .. Len(t), c # p
       PROVE  KidsOf(u, c, u[c].kids)
  <2> DEFINE ks == t[c].kids
  <2>1. KidsOf(t, c, ks) /\ u[c].kids = ks /\ ks \in Seq(Nat)
    BY <1>3, <1>7, <1>11, ChainType DEF KidsInv
  <2> HIDE DEF ks
  <2>2. Len(ks) \in Nat
    BY <2>1, LenProperties
  <2>3. \A i \in 1 .. Len(ks) : ks[i] \in c + 1 .. Len(t) /\ ks[i] \in 1 .. Len(t) /\ ParentIn(t, ks[i]) = c
    <3>1. \A d \in c + 1 .. Len(t) : d \in 1 .. Len(t)
      BY <1>1
    <3> QED
      BY <2>1, <3>1 DEF KidsOf
  <2>4. \A i \in 1 .. Len(ks) : ks[i] \in c + 1 .. Len(u) /\ ParentIn(u, ks[i]) = c
    BY <1>1, <1>7, <1>9, <2>3
  <2>5. ASSUME NEW d \in 2 .. Len(u), ParentIn(u, d) = c PROVE \E i \in 1 .. Len(ks) : ks[i] = d
    <3>1. d # n
      BY <1>10, <1>11, <2>5
    <3>2. d \in 2 .. Len(t) /\ d \in 1 .. Len(t)
      BY <1>1, <1>7, <3>1
    <3>3. ParentIn(t, d) = c
      BY <1>9, <2>5, <3>2
    <3> QED
      BY <2>1, <3>2, <3>3 DEF KidsOf
  <2> QED
    BY <2>1, <2>4, <2>5 DEF KidsOf
<1>12. KidsOf(u, p, u[p].kids)
  <2> DEFINE ks == t[p].kids
             kn == u[p].kids
  <2>1. KidsOf(t, p, ks) /\ kn = Append(ks, n) /\ ks \in Seq(Nat)
    BY <1>2, <1>4, <1>7 DEF KidsInv
  <2> HIDE DEF ks, kn
  <2>2. /\ Len(ks) \in Nat /\ Len(kn) = Len(ks) + 1 /\ kn[Len(ks) + 1] = n
        /\ \A i \in 1 .. Len(ks) : kn[i] = ks[i]
    BY <1>1, <2>1, LenProperties, AppendProperties
  <2>3. \A i \in 1 .. Len(ks) : ks[i] \in p + 1 .. Len(t) /\ ks[i] \in 1 .. Len(t) /\ ParentIn(t, ks[i]) = p
    <3>1. \A d \in p + 1 .. Len(t) : d \in 1 .. Len(t)
      BY <1>1
    <3> QED
      BY <2>1, <3>1 DEF KidsOf
  <2>4. \A i \in 1 .. Len(kn) : i \in 1 .. Len(ks) \/ i = Len(ks) + 1
    BY <2>2
  <2>5. ASSUME NEW i \in 1 .. Len(kn) PROVE kn[i] \in p + 1 .. Len(u) /\ ParentIn(u, kn[i]) = p
    <3>1. CASE i \in 1 .. Len(ks)
      BY <1>1, <1>7, <1>9, <2>2, <2>3, <3>1
    <3>2. CASE i = Len(ks) + 1
      BY <1>1, <1>7, <1>10, <2>2, <3>2
    <3> QED
      BY <2>4, <3>1, <3>2
  <2>6. ASSUME NEW i \in 1 .. Len(kn), NEW j \in 1 .. Len(kn), i < j PROVE kn[i] < kn[j]
    <3>1. i \in 1 .. Len(ks)
      BY <2>2, <2>6
    <3>2. CASE j \in 1 .. Len(ks)
      BY <2>1, <2>2, <2>6, <3>1, <3>2 DEF KidsOf
    <3>3. CASE j = Len(ks) + 1
      <4>1. kn[i] = ks[i] /\ kn[j] = n /\ ks[i] \in 1 .. Len(t)
        BY <2>2, <2>3, <3>1, <3>3
      <4> QED
        BY <1>1, <4>1
    <3> QED
      BY <2>4, <3>2, <3>3
  <2>7. ASSUME NEW d \in 2 .. Len(u), ParentIn(u, d) = p PROVE \E i \in 1 .. Len(kn) : kn[i] = d
    <3>1. CASE d = n
      <4>1. Len(ks) + 1 \in 1 .. Len(kn)
        BY <2>2
      <4> QED
        BY <2>2, <3>1, <4>1
    <3>2. CASE d # n
      <4>1. d \in 2 .. Len(t) /\ d \in 1 .. Len(t)
        BY <1>1, <1>7, <3>2
      <4>2. ParentIn(t, d) = p
        BY <1>9, <2>7, <4>1
      <4>3. PICK i \in 1 .. Len(ks) : ks[i] = d
        BY <2>1, <4>1, <4>2 DEF KidsOf
      <4>4. i \in 1 .. Len(kn) /\ kn[i] = d
        BY <2>2, <4>3
      <4> QED
        BY <4>4
    <3> QED
      BY <3>1, <3>2
  <2> QED
    BY <2>5, <2>6, <2>7 DEF KidsOf, kn
<1>13. KidsOf(u, n, u[n].kids)
  <2>1. u[n].kids = << >> /\ Len(<< >>) = 0
    BY <1>6, <1>7
  <2>2. ASSUME NEW d \in 2 .. Len(u) PROVE ParentIn(u, d) # n
    <3>1. CASE d = n
      BY <1>1, <1>10, <3>1
    <3>2. CASE d # n
      <4>1. d \in 2 .. Len(t) /\ d \in 1 .. Len(t)
        BY <1>1, <1>7, <3>2
      <4>2. ParentIn(t, d) \in 1 .. Len(t)
        BY <4>1, ParentIsThere
      <4> QED
        BY <1>1, <1>9, <4>1, <4>2
    <3> QED
      BY <3>1, <3>2
  <2> QED
    BY <2>1, <2>2 DEF KidsOf
<1>14. \A c \in 1 .. Len(u) : c \in 1 .. Len(t) \/ c = n
  BY <1>1, <1>7
<1>15. KidsInv(u)
  BY <1>11, <1>12, <1>13, <1>14 DEF KidsInv
<1> QED
  BY <1>9, <1>10, <1>15 DEF u, n

LEMMA DeclaredKids ==
  ASSUME NEW t, ContextsInv(t), KidsInv(t), NEW c \in 1 .. Len(t),
         NEW x \in Names, NEW m \in Meanings, ~IsBound(t[c].vars, x)
  PROVE  /\ KidsInv(BoundThere(t, c, x, m))
         /\ \A d \in 1 .. Len(t) : /\ ParentIn(BoundThere(t, c, x, m), d) = ParentIn(t, d)
                                   /\ BoundThere(t, c, x, m)[d].chain = t[d].chain
                                   /\ BoundThere(t, c, x, m)[d].kids = t[d].kids
                                   /\ d # c => BoundThere(t, c, x, m)[d] = t[d]
         /\ BoundThere(t, c, x, m)[c].vars = SetEnv(t[c].vars, x, m)
<1> DEFINE u == BoundThere(t, c, x, m)
           v == SetEnv(t[c].vars, x, m)
<1>1. t \in Seq(Node) /\ Len(t) \in Nat \ {0} /\ DOMAIN t = 1 .. Len(t) /\ t[c] \in Node
  BY ChainType, LenProperties DEF ContextsInv
<1>2. Len(u) = Len(t)
  BY DeclaredTree
<1>3. u = [t EXCEPT ![c] = [t[c] EXCEPT !.vars = v]]
  BY DEF BoundThere
<1> HIDE DEF u, v
<1>4. \A d \in 1 .. Len(t) : d # c => u[d] = t[d]
  BY <1>1, <1>3
<1>5. u[c].chain = t[c].chain /\ u[c].kids = t[c].kids /\ u[c].vars = v
  BY <1>1, <1>3 DEF Node
<1>6. \A d \in 1 .. Len(t) : u[d].chain = t[d].chain /\ u[d].kids = t[d].kids
  BY <1>4, <1>5
<1>7. \A d \in 1 .. Len(t) : ParentIn(u, d) = ParentIn(t, d)
  BY <1>6 DEF ParentIn
<1>8. ASSUME NEW p \in 1 .. Len(t) PROVE KidsOf(u, p, u[p].kids)
  <2> DEFINE ks == t[p].kids
  <2>1. KidsOf(t, p, ks) /\ u[p].kids = ks
    BY <1>6 DEF KidsInv
  <2> HIDE DEF ks
  <2>2. \A d \in p + 1 .. Len(t) : d \in 1 .. Len(t)
    BY <1>1
  <2>3. \A d \in 2 .. Len(t) : d \in 1 .. Len(t)
    BY <1>1
  <2> QED
    BY <1>2, <1>7, <2>1, <2>2, <2>3 DEF KidsOf
<1>9. KidsInv(u)
  BY <1>2, <1>8 DEF KidsInv
<1> QED
  BY <1>4, <1>5, <1>6, <1>7, <1>9 DEF u, v

LEMMA KidsInit ==
  ASSUME ParserInit
  PROVE  KidsInv(ctxs)
<1>1. Len(ctxs) = 1 /\ ctxs[1].kids = << >>
  BY DEF ParserInit, DefaultContext, Context
<1>2. Len(<< >>) = 0
  OBVIOUS
<1> QED
  BY <1>1, <1>2 DEF KidsInv, KidsOf

\* What a step does to the tree.
LEMMA TreeSteps ==
  ASSUME ParserInv, ParserNext
  PROVE  \/ ctxs' = ctxs
         \/ \E p \in 1 .. Len(ctxs) : ctxs' = NewContext(ctxs, p)
         \/ \E x \in Names, m \in Meanings : ~IsBound(ctxs[here].vars, x) /\ ctxs' = BoundThere(ctxs, here, x, m)
<1>1. Effect
  BY NextOK DEF ActionOK
<1>2. here \in 1 .. Len(ctxs)
  BY DEF ParserInv, TypeInv
<1>3. CASE Idle \/ LookedUp \/ StackLost \/ Closed
  BY <1>3 DEF Idle, LookedUp, StackLost, Closed, Kept, CloseContext
<1>4. CASE Declares
  BY <1>4 DEF Declares, BoundThere, Vars
<1>5. CASE Opened
  BY <1>2, <1>5 DEF Opened, OpenContext
<1>6. CASE Reopened
  BY <1>6, BlockHasParent DEF Reopened
<1> QED
  BY <1>1, <1>3, <1>4, <1>5, <1>6 DEF Effect

LEMMA KidsStep ==
  ASSUME ParserInv, KidsInv(ctxs), [ParserNext]_parserVars
  PROVE  KidsInv(ctxs)'
<1>1. ContextsInv(ctxs) /\ here \in 1 .. Len(ctxs)
  BY DEF ParserInv, TypeInv
<1>2. KidsInv(ctxs')
  <2>1. CASE UNCHANGED parserVars
    BY <2>1 DEF parserVars
  <2>2. CASE ParserNext
    BY <1>1, <2>2, TreeSteps, NewContextKids, DeclaredKids
  <2> QED
    BY <2>1, <2>2
<1> QED
  BY <1>2 DEF KidsInv, KidsOf, ParentIn

-----------------------------------------------------------------------------
(* What the steps of the passes do to their stacks of levels. *)

CheckMoves(ls) == cpos' = cpos + 1 /\ levels' = ls /\ verdict' = verdict

Leaving(ls) == IF Last(ls).next = NULL THEN Fail("crashed") ELSE CheckMoves(Append(ls, Level(Last(ls).next)))

CheckBegins == cpos = 0 /\ cpos' = 1 /\ levels' = << Level(here) >> /\ verdict' = verdict

CheckEnds == /\ cpos = Len(ast) + 1 /\ verdict = "none"
             /\ UNCHANGED << cpos, levels >> /\ verdict' \in {"accepted", "type_error"}

CheckItem ==
  \/ Fail("type_error")
  \/ ast[cpos].k \notin {"then", "else", "body", "end", "nobody"} /\ CheckMoves(levels)
  \/ ast[cpos].k \in {"then", "body"} /\ Leaving(levels)
  \/ ast[cpos].k = "else" /\ Leaving(Advanced)
  \/ ast[cpos].k = "end" /\ CheckMoves(Advanced)
  \/ ast[cpos].k = "nobody" /\ Fail("crashed")

LEMMA CheckerSteps ==
  ASSUME CheckerNext
  PROVE  CheckBegins \/ CheckEnds \/ (Checking /\ CheckItem)
<1>1. ASSUME NEW ls, NEW fs, NEW T, Operand(ls, fs, T) PROVE Fail("type_error") \/ CheckMoves(ls)
  BY <1>1 DEF Operand, Go, CheckMoves
<1>2. ASSUME NEW ls, NEW fs, Go(ls, fs) PROVE CheckMoves(ls)
  BY <1>2 DEF Go, CheckMoves
<1>3. ASSUME NEW ls, NEW fs, Enter(ls, fs) PROVE Leaving(ls)
  BY <1>2, <1>3 DEF Enter, Leaving
<1>4. CASE BeginCheck
  BY <1>4 DEF BeginCheck, CheckBegins
<1>5. CASE EndCheck
  BY <1>5 DEF EndCheck, CheckEnds, StatementEnd, Compare, Fail
<1>6. CASE CheckInt
  BY <1>1, <1>6 DEF CheckInt, At, CheckItem
<1>7. CASE CheckNull
  BY <1>1, <1>7 DEF CheckNull, At, CheckItem
<1>8. CASE CheckPrefix
  BY <1>2, <1>8 DEF CheckPrefix, At, CheckItem
<1>9. CASE CheckVar
  BY <1>1, <1>9 DEF CheckVar, At, CheckItem
<1>10. CASE CheckOperator
  BY <1>2, <1>10 DEF CheckOperator, At, CheckItem
<1>11. CASE CheckAssign
  BY <1>2, <1>11 DEF CheckAssign, At, CheckItem
<1>12. CASE CheckNothing
  BY <1>2, <1>12 DEF CheckNothing, At, CheckItem
<1>13. CASE CheckCall
  BY <1>2, <1>13 DEF CheckCall, At, CheckItem
<1>14. CASE CheckSecondArg
  BY <1>14 DEF CheckSecondArg, At, CheckItem
<1>15. CASE CheckRet
  BY <1>1, <1>15 DEF CheckRet, At, CheckItem
<1>16. CASE CheckIf
  BY <1>2, <1>16 DEF CheckIf, At, CheckItem
<1>17. CASE CheckThen
  BY <1>3, <1>17 DEF CheckThen, At, CheckItem
<1>18. CASE CheckElse
  BY <1>3, <1>18 DEF CheckElse, At, CheckItem, BlockEnd, StatementEnd, Compare
<1>19. CASE CheckBody
  BY <1>3, <1>19 DEF CheckBody, At, CheckItem
<1>20. CASE CheckNoBody
  BY <1>20 DEF CheckNoBody, At, CheckItem
<1>21. CASE CheckEnd
  BY <1>1, <1>21 DEF CheckEnd, At, CheckItem, BlockEnd, StatementEnd, Compare
<1>22. CASE CheckNext
  BY <1>2, <1>22 DEF CheckNext, At, CheckItem, StatementEnd, Compare
<1> QED
  BY <1>4, <1>5, <1>6, <1>7, <1>8, <1>9, <1>10, <1>11, <1>12, <1>13, <1>14, <1>15, <1>16, <1>17, <1>18, <1>19,
     <1>20, <1>21, <1>22 DEF CheckerNext

GenBegins == /\ gpos = 0 /\ gpos' = 1 /\ UNCHANGED << ring, failed >>
             /\ glevels' = << GenLevel(here, FirstChild(here), << >>, FALSE) >>

GenEnds == gpos = Len(ast) + 1 /\ gpos' = Len(ast) + 2 /\ UNCHANGED << glevels, ring, failed >>

GenStops == failed' = TRUE /\ UNCHANGED << gpos, glevels, ring >>

GenItem ==
  LET k  == ast[gpos].k
      g1 == GenLabel(ring)
      g2 == GenLabel(g1.ring)
  IN
  \/ /\ k \notin {"then", "else", "body", "end", "nobody"} /\ ring' = ring
     /\ glevels' = glevels \/ \E t \in {gpos, NoTarget} : glevels' = [glevels EXCEPT ![Len(glevels)].target = t]
  \/ /\ k = "body" /\ ring' = g1.ring
     /\ glevels' = EnterBlock(glevels, << g1.label >>, TRUE)
  \/ /\ k = "then" /\ ring' = g2.ring
     /\ glevels' = EnterBlock(glevels, << g1.label, g2.label >>, FALSE)
  \/ /\ k = "else" /\ ring' = ring
     /\ glevels' = EnterBlock(Below, Tail(Here.labels), FALSE)
  \/ k = "end" /\ ring' = ring /\ glevels' = Below

GenMoves == gpos \in DOMAIN ast /\ gpos' = gpos + 1 /\ failed' = failed /\ GenItem

LEMMA GenSteps ==
  ASSUME GenNextStep
  PROVE  GenBegins \/ GenEnds \/ GenStops \/ GenMoves
<1>1. CASE BeginGen
  BY <1>1 DEF BeginGen, GenBegins
<1>2. CASE GenOther
  BY <1>2 DEF GenOther, GenAt, GoOn, GenMoves, GenItem
<1>3. CASE GenVar
  BY <1>3 DEF GenVar, GenAt, GoOn, GiveUp, GenMoves, GenItem, GenStops
<1>4. CASE GenAssign
  BY <1>4 DEF GenAssign, GenAt, GoOn, GenMoves, GenItem
<1>5. CASE GenDeclare
  BY <1>5 DEF GenDeclare, GenAt, GoOn, GenMoves, GenItem, GenStops
<1>6. CASE GenBody
  BY <1>6 DEF GenBody, GenAt, GoOn, GenMoves, GenItem
<1>7. CASE GenThen
  BY <1>7 DEF GenThen, GenAt, GoOn, GenMoves, GenItem
<1>8. CASE GenElse
  BY <1>8 DEF GenElse, GenAt, GoOn, GiveUp, GenMoves, GenItem, GenStops
<1>9. CASE GenEnd
  BY <1>9 DEF GenEnd, GenAt, GoOn, GiveUp, GenMoves, GenItem, GenStops
<1>10. CASE GenNext
  BY <1>10 DEF GenNext, GenAt, GoOn, GiveUp, GenMoves, GenItem, GenStops
<1>11. CASE EndGen
  <2>1. CASE StoreOk
    <3>1. gpos' = gpos + 1 /\ gpos = Len(ast) + 1 /\ UNCHANGED << glevels, ring, failed >>
      BY <1>11, <2>1 DEF EndGen, GoOn
    <3>2. gpos' = Len(ast) + 1 + 1
      BY <3>1
    <3> QED
      BY <3>1, <3>2 DEF GenEnds
  <2>2. CASE ~StoreOk
    BY <1>11, <2>2 DEF EndGen, GiveUp, GenStops
  <2> QED
    BY <2>1, <2>2
<1> QED
  BY <1>1, <1>2, <1>3, <1>4, <1>5, <1>6, <1>7, <1>8, <1>9, <1>10, <1>11 DEF GenNextStep

-----------------------------------------------------------------------------
(***************************************************************************)
(* The passes run one after the other.                                     *)
(***************************************************************************)
StageInv ==
  /\ verdict \in Verdicts /\ failed \in BOOLEAN
  /\ cpos \in 0 .. Len(ast) + 1 /\ gpos \in 0 .. Len(ast) + 2
  /\ cpos = 0 => verdict = "none"
  /\ cpos # 0 => ph = "parsed"
  /\ verdict = "accepted" => cpos = Len(ast) + 1
  /\ gpos # 0 => verdict = "accepted"

\* Once the file is read, the parser is done.
LEMMA ParserIdle ==
  ASSUME ph \in {"parsed", "rejected"}
  PROVE  ~ParserNext
  BY DEF ParserNext, ParseInt, ParsePrefix, ParseVar, ParseAssign, BeginCall, ParseEmptyCall, Declare, BeginIf,
         BeginThen, EmptyThen, BeginElse, EndBlock, BeginPlainLambda, EmptyLambda, BeginLambda, ParseParam,
         BeginLambdaBody, EmptyLambdaBody, ParseInfix, NextArg, EndCall, NextStatement, EndOfFile,
         EndOfFileInside, AtOperand, Prefixed, Finished

LEMMA StageStep ==
  ASSUME StageInv, Len(ast) \in Nat, Len(ast') \in Nat, [Next]_vars
  PROVE  StageInv'
<1>1. CASE Parse
  <2>1. ph # "parsed" /\ UNCHANGED << cpos, verdict, gpos, failed >>
    BY <1>1, ParserIdle DEF Parse, checkerVars, genVars
  <2>2. cpos = 0 /\ gpos = 0 /\ verdict = "none"
    BY <2>1 DEF StageInv
  <2>3. 0 \in 0 .. Len(ast') + 1 /\ 0 \in 0 .. Len(ast') + 2
    OBVIOUS
  <2> QED
    BY <2>1, <2>2, <2>3 DEF StageInv
<1>2. CASE Check
  <2>1. /\ ph = "parsed" /\ UNCHANGED << ph, ast, gpos, failed >>
        /\ CheckBegins \/ CheckEnds \/ (Checking /\ CheckItem)
    BY <1>2, CheckerSteps DEF Check, parserVars, genVars
  <2>2. CASE CheckBegins
    BY <2>1, <2>2 DEF StageInv, CheckBegins, Verdicts
  <2>3. CASE CheckEnds
    BY <2>1, <2>3 DEF StageInv, CheckEnds, Verdicts
  <2>4. CASE Checking /\ CheckItem
    <3>1. cpos \in 1 .. Len(ast) /\ verdict = "none" /\ gpos = 0
      BY <2>4 DEF Checking, StageInv
    <3>2. \/ verdict' \in {"type_error", "crashed"} /\ cpos' = cpos
          \/ verdict' = verdict /\ cpos' = cpos + 1
      BY <2>4 DEF CheckItem, Fail, CheckMoves, Leaving
    <3> QED
      BY <2>1, <3>1, <3>2 DEF StageInv, Verdicts
  <2> QED
    BY <2>1, <2>2, <2>3, <2>4
<1>3. CASE Generate
  <2>1. /\ verdict = "accepted" /\ UNCHANGED << ph, ast, cpos, verdict >>
        /\ GenBegins \/ GenEnds \/ GenStops \/ GenMoves
    BY <1>3, GenSteps DEF Generate, parserVars, checkerVars
  <2>2. failed' \in BOOLEAN
    BY <2>1 DEF StageInv, GenBegins, GenEnds, GenStops, GenMoves
  <2>3. gpos' \in 0 .. Len(ast) + 2
    <3>1. CASE GenMoves
      <4>1. gpos \in 1 .. Len(ast)
        BY <3>1 DEF GenMoves, StageInv
      <4> QED
        BY <3>1, <4>1 DEF GenMoves
    <3>2. CASE GenBegins
      <4>1. gpos' = 1
        BY <3>2 DEF GenBegins
      <4> QED
        BY <4>1
    <3>3. CASE GenEnds
      <4>1. gpos' = Len(ast) + 2
        BY <3>3 DEF GenEnds
      <4> QED
        BY <4>1
    <3>4. CASE GenStops
      BY <3>4 DEF GenStops, StageInv
    <3> QED
      BY <2>1, <3>1, <3>2, <3>3, <3>4
  <2> QED
    BY <2>1, <2>2, <2>3 DEF StageInv
<1>4. CASE UNCHANGED vars
  BY <1>4 DEF vars, parserVars, checkerVars, genVars, StageInv
<1> QED
  BY <1>1, <1>2, <1>3, <1>4 DEF Next, Stopped

-----------------------------------------------------------------------------
(* The invariants of the parser, along the whole compiler. *)

TreeInv == ParserInv /\ AstInv /\ KidsInv(ctxs)

\* Only the parser changes what it leaves.
LEMMA ParserSteps ==
  ASSUME [Next]_vars
  PROVE  [ParserNext]_parserVars
  BY DEF Next, Parse, Check, Generate, Stopped, vars

LEMMA TreeInvInit ==
  ASSUME Init
  PROVE  TreeInv /\ StageInv
<1>1. ParserInv /\ AstInv /\ KidsInv(ctxs) /\ Len(ast) = 0
  BY ParserInvInit, AstInvInit, KidsInit, EmptySeq DEF Init, ParserInit
<1>2. cpos = 0 /\ gpos = 0 /\ verdict = "none" /\ failed = FALSE
  BY DEF Init, CheckerInit, GenInit
<1>3. cpos \in 0 .. Len(ast) + 1 /\ gpos \in 0 .. Len(ast) + 2
  BY <1>1, <1>2
<1>4. StageInv
  BY <1>2, <1>3 DEF StageInv, Verdicts
<1> QED
  BY <1>1, <1>4 DEF TreeInv

LEMMA TreeInvStep ==
  ASSUME TreeInv, [Next]_vars
  PROVE  TreeInv'
<1>1. ParserInv' /\ KidsInv(ctxs)'
  BY ParserSteps, ParserInvStep, KidsStep DEF TreeInv
<1> QED
  BY <1>1, ParserSteps, AstInvStep DEF TreeInv

LEMMA TreeStageStep ==
  ASSUME TreeInv, StageInv, [Next]_vars
  PROVE  TreeInv' /\ StageInv'
<1>1. TreeInv' /\ ast \in Seq(AstItems) /\ ast' \in Seq(AstItems)
  BY TreeInvStep DEF TreeInv, AstInv
<1>2. Len(ast) \in Nat /\ Len(ast') \in Nat
  BY <1>1, LenProperties
<1> QED
  BY <1>1, <1>2, StageStep

LEMMA TypesFollow ==
  ASSUME TreeInv, StageInv
  PROVE  TypeOK
<1>1. /\ ParserInv /\ AstInv /\ KidsInv(ctxs) /\ TypeInv /\ ContextsInv(ctxs)
      /\ DOMAIN ctxs = 1 .. Len(ctxs) /\ Len(ctxs) \in Nat
      /\ DOMAIN ast = 1 .. Len(ast) /\ ast \in Seq(AstItems)
      /\ DOMAIN stack = 1 .. Len(stack)
  BY LenProperties DEF TreeInv, ParserInv, TypeInv, ContextsInv, AstInv
<1>2. ASSUME NEW c \in DOMAIN ctxs
      PROVE  ctxs[c].chain \in Seq(DOMAIN ctxs) /\ ctxs[c].kids \in Seq(DOMAIN ctxs)
  <2> DEFINE q == ctxs[c].chain
             ks == ctxs[c].kids
             D == DOMAIN ctxs
  <2>1. q \in Seq(Nat) /\ ks \in Seq(Nat) /\ ChainInv(ctxs, c) /\ KidsOf(ctxs, c, ks) /\ c \in 1 .. Len(ctxs)
    BY <1>1, ChainType DEF ContextsInv, KidsInv
  <2>2. \A i \in 1 .. Len(q) : q[i] \in D
    BY <1>1, <2>1 DEF ChainInv
  <2>3. \A i \in 1 .. Len(ks) : ks[i] \in D
    <3>1. \A d \in c + 1 .. Len(ctxs) : d \in D
      BY <1>1, <2>1
    <3> HIDE DEF D, ks
    <3> QED
      BY <2>1, <3>1 DEF KidsOf
  <2> HIDE DEF q, ks, D
  <2>4. q = [i \in 1 .. Len(q) |-> q[i]] /\ Len(q) \in Nat /\ ks = [i \in 1 .. Len(ks) |-> ks[i]] /\ Len(ks) \in Nat
    BY <2>1, LenProperties
  <2>5. q \in Seq(D) /\ ks \in Seq(D)
    BY <2>2, <2>3, <2>4, IsASeq
  <2> QED
    BY <2>5 DEF q, ks, D
<1>3. here \in DOMAIN ctxs
  BY <1>1 DEF TypeInv
<1>4. \A i \in DOMAIN ast : ast[i].k \in ItemKinds /\ ast[i].at \in DOMAIN ctxs
  <2>1. \A i \in 1 .. Len(ast) : ast[i] \in AstItems
    BY <1>1, ElementOfSeq
  <2> QED
    BY <1>1, <2>1 DEF AstInv, AstItems
<1>5. \A i \in DOMAIN stack : stack[i].op \in StackOps
  BY <1>1, TopIs
<1> QED
  BY <1>1, <1>2, <1>3, <1>4, <1>5 DEF TypeOK, StageInv, AstInv

\* In programs of every size, over all names and types, the tree of contexts and
\* the AST stay well-formed, and the three passes of main.c keep to their order.
THEOREM CompilerTypes == Spec => []TypeOK
<1>1. Init => TreeInv /\ StageInv
  BY TreeInvInit
<1>2. TreeInv /\ StageInv /\ [Next]_vars => TreeInv' /\ StageInv'
  BY TreeStageStep
<1>3. TreeInv /\ StageInv => TypeOK
  BY TypesFollow
<1> QED
  BY <1>1, <1>2, <1>3, PTL DEF Spec

-----------------------------------------------------------------------------
(***************************************************************************)
(* The steps that open or close something, by what they do to the AST, the *)
(* parsing stack and *context.                                             *)
(***************************************************************************)
OneItem(k, c) == \E e \in AstItems : e.k = k /\ e.at = c /\ ast' = ast \o << e >>

TwoItems(k, c, l, d) ==
  \E e, b \in AstItems : e.k = k /\ e.at = c /\ b.k = l /\ b.at = d /\ ast' = ast \o << e, b >>

SameTree == ctxs' = ctxs /\ here' = here

IfShape == OneItem("if", here) /\ Longer("if-cond") /\ OpenContext /\ ph' = "operand" /\ TopOp # "lambda_params"
ThenShape == OneItem("then", here) /\ TopOp = "if-cond" /\ Turned("if-then-body") /\ SameTree /\ ph' = "statement"
EmptyThenShape == TwoItems("then", here, "end", here) /\ TopOp = "if-cond" /\ Shorter /\ CloseContext /\ ph' = "closed"
ElseShape == /\ OneItem("else", here) /\ TopOp = "if-then-body" /\ Turned("if-else-body") /\ ph' = "statement"
             /\ ctxs' = NewContext(ctxs, Parent(here)) /\ here' = Len(ctxs) + 1
EndShape == OneItem("end", here) /\ TopOp \in BodyOps /\ Shorter /\ CloseContext /\ ph' = "closed"
PlainLambdaShape == /\ TwoItems("func", here, "body", here') /\ Longer("lambda_body") /\ OpenContext
                    /\ ph' = "statement" /\ TopOp # "lambda_params"
EmptyLambdaShape == TwoItems("func", here, "nobody", here) /\ stack' = << >> /\ SameTree /\ ph' = "closed"
LambdaShape == OneItem("func", here) /\ Longer("lambda_params") /\ OpenContext /\ ph' = "param" /\ TopOp # "lambda_params"
BodyShape == OneItem("body", here) /\ TopOp = "lambda_params" /\ Turned("lambda_body") /\ SameTree /\ ph' = "statement"
NoBodyShape == OneItem("nobody", here) /\ TopOp = "lambda_params" /\ Shorter /\ CloseContext /\ ph' = "closed"

BlockShapes == \/ IfShape \/ ThenShape \/ EmptyThenShape \/ ElseShape \/ EndShape
               \/ PlainLambdaShape \/ EmptyLambdaShape \/ LambdaShape \/ BodyShape \/ NoBodyShape

LEMMA BlockSteps ==
  ASSUME ParserInv, AstInv,
         \/ BeginIf \/ BeginThen \/ EmptyThen \/ BeginElse \/ EndBlock
         \/ BeginPlainLambda \/ EmptyLambda \/ BeginLambda \/ BeginLambdaBody \/ EmptyLambdaBody
  PROVE  BlockShapes
<1>1. TypeInv /\ ast \in Seq(AstItems) /\ here \in 1 .. Len(ctxs) /\ here \in Nat /\ Len(ctxs) \in Nat
  BY LenProperties DEF ParserInv, TypeInv, ContextsInv, AstInv
<1>2. \A k \in ItemKinds : Plain(k) \in AstItems /\ Plain(k).k = k /\ Plain(k).at = here
  BY <1>1, PlainItem
<1>3. \A k \in ItemKinds : Add(Plain(k)) => OneItem(k, here)
  <2> TAKE k \in ItemKinds
  <2> HAVE Add(Plain(k))
  <2> DEFINE a == Plain(k)
  <2>1. a \in AstItems /\ a.k = k /\ a.at = here /\ Add(a)
    BY <1>2
  <2> HIDE DEF a
  <2>2. ast' = ast \o << a >>
    BY <1>1, <2>1, AddIsConcat
  <2> QED
    BY <2>1, <2>2 DEF OneItem
<1>4. \A k, l \in ItemKinds : ast' = ast \o << Plain(k), Plain(l) >> => TwoItems(k, here, l, here)
  BY <1>2 DEF TwoItems
<1>5. ph \notin {"param", "closed", "parsed"} => TopOp # "lambda_params"
  BY NotLambda
<1>6. \A m \in {Meaning(Fun0, 0), Meaning(Fun1, 0)} : \A c \in Nat :
        LET b == Item("body", "", c, m) IN b \in AstItems /\ b.k = "body" /\ b.at = c
  <2>1. \A m \in {Meaning(Fun0, 0), Meaning(Fun1, 0)} : m \in AstMeanings
    BY DEF AstMeanings
  <2> QED
    BY <2>1, EmptyName, KindsHave DEF Item, AstItems
<1>7. CASE BeginIf
  <2>1. OneItem("if", here)
    BY <1>3, <1>7, KindsHave DEF BeginIf
  <2>2. Longer("if-cond") /\ ph \notin {"param", "closed", "parsed"}
    BY <1>1, <1>7, PushShape DEF BeginIf, StackOps, BlockOps, AtOperand
  <2> QED
    BY <1>5, <1>7, <2>1, <2>2 DEF BeginIf, IfShape, BlockShapes
<1>8. CASE BeginThen
  <2>1. OneItem("then", here)
    BY <1>3, <1>8, KindsHave DEF BeginThen
  <2>2. Turned("if-then-body")
    BY <1>1, <1>8, TurnShape DEF BeginThen, StackOps, BlockOps, BodyOps
  <2> QED
    BY <1>8, <2>1, <2>2 DEF BeginThen, ThenShape, BlockShapes, SameTree
<1>9. CASE EmptyThen
  <2>1. TwoItems("then", here, "end", here)
    BY <1>4, <1>9, KindsHave DEF EmptyThen
  <2>2. Shorter
    BY <1>1, <1>9, PopShape DEF EmptyThen, Pop
  <2> QED
    BY <1>9, <2>1, <2>2 DEF EmptyThen, EmptyThenShape, BlockShapes
<1>10. CASE BeginElse
  <2>1. OneItem("else", here)
    BY <1>3, <1>10, KindsHave DEF BeginElse
  <2>2. Turned("if-else-body")
    BY <1>1, <1>10, TurnShape DEF BeginElse, StackOps, BlockOps, BodyOps
  <2> QED
    BY <1>10, <2>1, <2>2 DEF BeginElse, ElseShape, BlockShapes
<1>11. CASE EndBlock
  <2>1. OneItem("end", here)
    BY <1>3, <1>11, KindsHave DEF EndBlock
  <2>2. Shorter
    BY <1>1, <1>11, PopShape DEF EndBlock, Pop, BodyOps
  <2> QED
    BY <1>11, <2>1, <2>2 DEF EndBlock, EndShape, BlockShapes
<1>12. CASE BeginPlainLambda
  <2> DEFINE a == Plain("func")
             b == Item("body", "", here', Meaning(Fun0, 0))
  <2>1. here' = Len(ctxs) + 1 /\ here' \in Nat /\ OpenContext
    <3>1. OpenContext
      BY <1>12 DEF BeginPlainLambda
    <3>2. here' = Len(ctxs) + 1
      BY <3>1 DEF OpenContext
    <3>3. Len(ctxs) + 1 \in Nat
      BY <1>1
    <3> QED
      BY <3>1, <3>2, <3>3
  <2>2. ast' = ast \o << a, b >>
    BY <1>12 DEF BeginPlainLambda
  <2>3. a \in AstItems /\ a.k = "func" /\ a.at = here
    BY <1>2, KindsHave
  <2>4. b \in AstItems /\ b.k = "body" /\ b.at = here'
    BY <1>6, <2>1
  <2> HIDE DEF a, b
  <2>5. TwoItems("func", here, "body", here')
    BY <2>2, <2>3, <2>4 DEF TwoItems
  <2>6. Longer("lambda_body") /\ ph \notin {"param", "closed", "parsed"}
    BY <1>1, <1>12, PushShape DEF BeginPlainLambda, StackOps, BlockOps, BodyOps, AtOperand
  <2> QED
    BY <1>5, <1>12, <2>1, <2>5, <2>6 DEF BeginPlainLambda, PlainLambdaShape, BlockShapes
<1>13. CASE EmptyLambda
  <2>1. TwoItems("func", here, "nobody", here)
    BY <1>4, <1>13, KindsHave DEF EmptyLambda
  <2> QED
    BY <1>13, <2>1 DEF EmptyLambda, EmptyLambdaShape, BlockShapes, SameTree
<1>14. CASE BeginLambda
  <2>1. OneItem("func", here)
    BY <1>3, <1>14, KindsHave DEF BeginLambda
  <2>2. Longer("lambda_params") /\ ph \notin {"param", "closed", "parsed"}
    BY <1>1, <1>14, PushShape DEF BeginLambda, StackOps, BlockOps, AtOperand
  <2> QED
    BY <1>5, <1>14, <2>1, <2>2 DEF BeginLambda, LambdaShape, BlockShapes
<1>15. CASE BeginLambdaBody
  <2> DEFINE b == Item("body", "", here, Meaning(Fun1, 0))
  <2>1. Add(b)
    BY <1>15 DEF BeginLambdaBody
  <2>2. b \in AstItems /\ b.k = "body" /\ b.at = here
    BY <1>1, <1>6
  <2> HIDE DEF b
  <2>3. OneItem("body", here)
    BY <1>1, <2>1, <2>2, AddIsConcat DEF OneItem
  <2>4. Turned("lambda_body")
    BY <1>1, <1>15, TurnShape DEF BeginLambdaBody, StackOps, BlockOps, BodyOps
  <2> QED
    BY <1>15, <2>3, <2>4 DEF BeginLambdaBody, BodyShape, BlockShapes, SameTree
<1>16. CASE EmptyLambdaBody
  <2>1. OneItem("nobody", here)
    BY <1>3, <1>16, KindsHave DEF EmptyLambdaBody
  <2>2. Shorter
    BY <1>1, <1>16, PopShape DEF EmptyLambdaBody, Pop
  <2> QED
    BY <1>16, <2>1, <2>2 DEF EmptyLambdaBody, NoBodyShape, BlockShapes
<1> QED
  BY <1>7, <1>8, <1>9, <1>10, <1>11, <1>12, <1>13, <1>14, <1>15, <1>16

\* Every step of the parser.
InsideEnds == /\ \E s \in Seq(AstItems) : ast' = ast \o s /\ Len(s) # 0 /\ EndItems(s)
              /\ EndOfFileInside

LEMMA StepShapes ==
  ASSUME ParserInv, AstInv, ParserNext
  PROVE  Quiet \/ Reject \/ BlockShapes \/ EndOfFile \/ InsideEnds
<1>1. CASE \/ ParseInt \/ ParsePrefix \/ ParseVar \/ ParseAssign \/ BeginCall \/ ParseEmptyCall
           \/ Declare \/ ParseParam \/ ParseInfix \/ NextArg \/ EndCall \/ NextStatement
  BY <1>1, QuietActions
<1>2. CASE \/ BeginIf \/ BeginThen \/ EmptyThen \/ BeginElse \/ EndBlock
           \/ BeginPlainLambda \/ EmptyLambda \/ BeginLambda \/ BeginLambdaBody \/ EmptyLambdaBody
  BY <1>2, BlockSteps
<1>3. CASE EndOfFileInside
  BY <1>3, InsideEnd DEF InsideEnds
<1> QED
  BY <1>1, <1>2, <1>3 DEF ParserNext

-----------------------------------------------------------------------------
(***************************************************************************)
(* A path along a list of items: something in S for every place before,    *)
(* between and behind the items, one and the next related by R.            *)
(***************************************************************************)
Link(u, e, v, R) == << u, e, v >> \in R

Path(a, w, S, R) ==
  /\ w \in [1 .. Len(a) + 1 -> S]
  /\ \A i \in 1 .. Len(a) : Link(w[i], a[i], w[i + 1], R)

LEMMA PathJoin ==
  ASSUME NEW a \in Seq(AstItems), NEW s \in Seq(AstItems), NEW S, NEW R, NEW w, NEW v,
         Path(a, w, S, R), Path(s, v, S, R), v[1] = w[Len(a) + 1]
  PROVE  \E z : /\ Path(a \o s, z, S, R)
                /\ \A i \in 1 .. Len(a) + 1 : z[i] = w[i]
                /\ \A i \in 1 .. Len(s) + 1 : z[Len(a) + i] = v[i]
<1> DEFINE b == a \o s
           z == [i \in 1 .. Len(b) + 1 |-> IF i <= Len(a) THEN w[i] ELSE v[i - Len(a)]]
<1>1. /\ Len(a) \in Nat /\ Len(s) \in Nat /\ Len(b) = Len(a) + Len(s) /\ Len(b) \in Nat
      /\ \A i \in 1 .. Len(a) : b[i] = a[i]
      /\ \A i \in 1 .. Len(s) : b[Len(a) + i] = s[i]
  BY ConcatProperties, LenProperties
<1>2. /\ w \in [1 .. Len(a) + 1 -> S] /\ v \in [1 .. Len(s) + 1 -> S]
      /\ \A i \in 1 .. Len(a) : Link(w[i], a[i], w[i + 1], R)
      /\ \A i \in 1 .. Len(s) : Link(v[i], s[i], v[i + 1], R)
  BY DEF Path
<1> HIDE DEF b
<1>3. \A i \in 1 .. Len(a) + 1 : z[i] = w[i]
  <2> TAKE i \in 1 .. Len(a) + 1
  <2>1. i \in 1 .. Len(b) + 1
    BY <1>1
  <2>2. CASE i <= Len(a)
    BY <2>1, <2>2
  <2>3. CASE ~(i <= Len(a))
    <3>1. i = Len(a) + 1 /\ i - Len(a) = 1
      BY <1>1, <2>3
    <3> QED
      BY <2>1, <2>3, <3>1
  <2> QED
    BY <2>2, <2>3
<1>4. \A i \in 1 .. Len(s) + 1 : z[Len(a) + i] = v[i]
  <2> TAKE i \in 1 .. Len(s) + 1
  <2>1. Len(a) + i \in 1 .. Len(b) + 1 /\ ~(Len(a) + i <= Len(a)) /\ Len(a) + i - Len(a) = i
    BY <1>1
  <2> QED
    BY <2>1
<1>5. z \in [1 .. Len(b) + 1 -> S]
  <2> SUFFICES ASSUME NEW i \in 1 .. Len(b) + 1 PROVE z[i] \in S
    OBVIOUS
  <2>1. CASE i \in 1 .. Len(a) + 1
    BY <1>2, <1>3, <2>1
  <2>2. CASE i \notin 1 .. Len(a) + 1
    <3>1. i - Len(a) \in 1 .. Len(s) + 1 /\ Len(a) + (i - Len(a)) = i
      BY <1>1, <2>2
    <3> QED
      BY <1>2, <1>4, <3>1
  <2> QED
    BY <2>1, <2>2
<1> HIDE DEF z
<1>6. ASSUME NEW i \in 1 .. Len(b) PROVE Link(z[i], b[i], z[i + 1], R)
  <2>1. CASE i \in 1 .. Len(a)
    <3>1. i \in 1 .. Len(a) + 1 /\ i + 1 \in 1 .. Len(a) + 1
      BY <1>1, <2>1
    <3> QED
      BY <1>1, <1>2, <1>3, <2>1, <3>1
  <2>2. CASE i \notin 1 .. Len(a)
    <3> DEFINE j == i - Len(a)
    <3>1. j \in 1 .. Len(s) /\ j \in 1 .. Len(s) + 1 /\ j + 1 \in 1 .. Len(s) + 1
          /\ Len(a) + j = i /\ Len(a) + (j + 1) = i + 1
      BY <1>1, <2>2
    <3> HIDE DEF j
    <3>2. z[i] = v[j] /\ z[i + 1] = v[j + 1] /\ b[i] = s[j]
      BY <1>1, <1>4, <3>1
    <3> QED
      BY <1>2, <3>1, <3>2
  <2> QED
    BY <2>1, <2>2
<1> QED
  BY <1>3, <1>4, <1>5, <1>6 DEF Path, b

\* Items at which the path stays where it is.
Stays(s, u, R) == \A j \in 1 .. Len(s) : Link(u, s[j], u, R)

LEMMA PathSame ==
  ASSUME NEW s \in Seq(AstItems), NEW S, NEW R, NEW u \in S, Stays(s, u, R)
  PROVE  \E v : Path(s, v, S, R) /\ \A i \in 1 .. Len(s) + 1 : v[i] = u
<1> DEFINE v == [i \in 1 .. Len(s) + 1 |-> u]
<1>1. Len(s) \in Nat
  BY LenProperties
<1>2. v \in [1 .. Len(s) + 1 -> S] /\ \A i \in 1 .. Len(s) + 1 : v[i] = u
  OBVIOUS
<1> HIDE DEF v
<1>3. \A i \in 1 .. Len(s) : v[i] = u /\ v[i + 1] = u
  BY <1>1, <1>2
<1>4. \A i \in 1 .. Len(s) : Link(v[i], s[i], v[i + 1], R)
  BY <1>3 DEF Stays
<1> QED
  BY <1>2, <1>4 DEF Path

LEMMA PathOne ==
  ASSUME NEW e, NEW S, NEW R, NEW u \in S, NEW v \in S, Link(u, e, v, R)
  PROVE  \E z : Path(<< e >>, z, S, R) /\ z[1] = u /\ z[2] = v
<1> DEFINE s == << e >>
           z == [i \in 1 .. 2 |-> IF i = 1 THEN u ELSE v]
<1>1. Len(s) = 1 /\ s[1] = e
  OBVIOUS
<1>2. z \in [1 .. 2 -> S] /\ z[1] = u /\ z[2] = v
  OBVIOUS
<1> HIDE DEF s, z
<1>3. \A i \in 1 .. 1 : Link(z[i], s[i], z[i + 1], R)
  <2>1. \A i \in 1 .. 1 : i = 1
    OBVIOUS
  <2> QED
    BY <1>1, <1>2, <2>1
<1>4. Path(s, z, S, R)
  BY <1>1, <1>2, <1>3 DEF Path
<1> QED
  BY <1>2, <1>4 DEF s

LEMMA PathTwo ==
  ASSUME NEW e, NEW b, NEW S, NEW R, NEW u \in S, NEW v \in S, NEW y \in S, Link(u, e, v, R), Link(v, b, y, R)
  PROVE  \E z : Path(<< e, b >>, z, S, R) /\ z[1] = u /\ z[2] = v /\ z[3] = y
<1> DEFINE s == << e, b >>
           z == [i \in 1 .. 3 |-> IF i = 1 THEN u ELSE IF i = 2 THEN v ELSE y]
<1>1. Len(s) = 2 /\ s[1] = e /\ s[2] = b
  OBVIOUS
<1>2. z \in [1 .. 3 -> S] /\ z[1] = u /\ z[2] = v /\ z[3] = y
  OBVIOUS
<1> HIDE DEF s, z
<1>3. \A i \in 1 .. 2 : Link(z[i], s[i], z[i + 1], R)
  <2>1. \A i \in 1 .. 2 : i = 1 \/ i = 2
    OBVIOUS
  <2> QED
    BY <1>1, <1>2, <2>1
<1>4. Path(s, z, S, R)
  BY <1>1, <1>2, <1>3 DEF Path
<1> QED
  BY <1>2, <1>4 DEF s

-----------------------------------------------------------------------------
(***************************************************************************)
(* The blocks that are open at an item of the AST: w[i] lists, outermost   *)
(* first, the items that opened those around item i.                       *)
(***************************************************************************)
Shut(u) == SubSeq(u, 1, Len(u) - 1)

WordStep(u, k, v) ==
  /\ k \in {"then", "body"} => v = Append(u, k)
  /\ k = "else" => u # << >> /\ u[Len(u)] = "then" /\ v = Append(Shut(u), "else")
  /\ k = "end" => u # << >> /\ v = Shut(u)
  /\ k \notin {"then", "else", "body", "end"} => v = u

Words(a, w) ==
  /\ w \in [1 .. Len(a) + 1 -> Seq(Opening)]
  /\ \A i \in 1 .. Len(a) : WordStep(w[i], a[i].k, w[i + 1])

WordMoves == {e \in Seq(Opening) \X AstItems \X Seq(Opening) : WordStep(e[1], e[2].k, e[3])}

LEMMA WordsPath ==
  ASSUME NEW a \in Seq(AstItems), NEW w
  PROVE  Words(a, w) <=> Path(a, w, Seq(Opening), WordMoves)
<1>1. \A i \in 1 .. Len(a) : a[i] \in AstItems /\ i \in 1 .. Len(a) + 1 /\ i + 1 \in 1 .. Len(a) + 1
  BY ElementOfSeq, LenProperties
<1>2. ASSUME w \in [1 .. Len(a) + 1 -> Seq(Opening)]
      PROVE  \A i \in 1 .. Len(a) : WordStep(w[i], a[i].k, w[i + 1]) <=> Link(w[i], a[i], w[i + 1], WordMoves)
  <2> TAKE i \in 1 .. Len(a)
  <2>1. a[i] \in AstItems /\ w[i] \in Seq(Opening) /\ w[i + 1] \in Seq(Opening)
    BY <1>1, <1>2
  <2> QED
    BY <2>1 DEF Link, WordMoves
<1> QED
  BY <1>2 DEF Words, Path

LEMMA WordsJoin ==
  ASSUME NEW a \in Seq(AstItems), NEW s \in Seq(AstItems), NEW w, NEW v,
         Words(a, w), Words(s, v), v[1] = w[Len(a) + 1]
  PROVE  \E z : Words(a \o s, z) /\ z[1] = w[1] /\ z[Len(a \o s) + 1] = v[Len(s) + 1]
<1> DEFINE S == Seq(Opening)
<1>1. a \o s \in Seq(AstItems) /\ Len(a) \in Nat /\ Len(s) \in Nat /\ Len(a \o s) = Len(a) + Len(s)
  BY ConcatProperties, LenProperties
<1>2. Path(a, w, S, WordMoves) /\ Path(s, v, S, WordMoves)
  BY WordsPath
<1> HIDE DEF S
<1>4. PICK z : /\ Path(a \o s, z, S, WordMoves)
               /\ \A i \in 1 .. Len(a) + 1 : z[i] = w[i]
               /\ \A i \in 1 .. Len(s) + 1 : z[Len(a) + i] = v[i]
  BY <1>2, PathJoin
<1>3. 1 \in 1 .. Len(a) + 1 /\ Len(s) + 1 \in 1 .. Len(s) + 1 /\ Len(a) + (Len(s) + 1) = Len(a \o s) + 1
  BY <1>1
<1>5. Words(a \o s, z)
  BY <1>1, <1>4, WordsPath DEF S
<1> QED
  BY <1>1, <1>3, <1>4, <1>5

LEMMA WordsSame ==
  ASSUME NEW s \in Seq(AstItems), NEW u \in Seq(Opening),
         \A j \in 1 .. Len(s) : s[j].k \notin {"then", "else", "body", "end"}
  PROVE  \E v : Words(s, v) /\ v[1] = u /\ v[Len(s) + 1] = u
<1> DEFINE S == Seq(Opening)
<1>1. Stays(s, u, WordMoves)
  BY ElementOfSeq DEF Stays, Link, WordMoves, WordStep
<1>2. u \in S
  OBVIOUS
<1> HIDE DEF S
<1>3. PICK v : Path(s, v, S, WordMoves) /\ \A i \in 1 .. Len(s) + 1 : v[i] = u
  BY <1>1, <1>2, PathSame
<1>4. 1 \in 1 .. Len(s) + 1 /\ Len(s) + 1 \in 1 .. Len(s) + 1
  BY LenProperties
<1>5. Words(s, v)
  BY <1>3, WordsPath DEF S
<1> QED
  BY <1>3, <1>4, <1>5

LEMMA WordsOne ==
  ASSUME NEW e \in AstItems, NEW u \in Seq(Opening), NEW v \in Seq(Opening), WordStep(u, e.k, v)
  PROVE  \E z : Words(<< e >>, z) /\ z[1] = u /\ z[Len(<< e >>) + 1] = v
<1> DEFINE S == Seq(Opening)
           s == << e >>
<1>1. Link(u, e, v, WordMoves) /\ u \in S /\ v \in S
  BY DEF Link, WordMoves
<1>2. s \in Seq(AstItems) /\ Len(s) + 1 = 2
  BY Lists
<1> HIDE DEF S
<1>3. PICK z : Path(s, z, S, WordMoves) /\ z[1] = u /\ z[2] = v
  BY <1>1, PathOne
<1> HIDE DEF s
<1>4. Words(s, z)
  BY <1>2, <1>3, WordsPath DEF S
<1> QED
  BY <1>2, <1>3, <1>4 DEF s

LEMMA WordsTwo ==
  ASSUME NEW e \in AstItems, NEW b \in AstItems, NEW u \in Seq(Opening), NEW v \in Seq(Opening), NEW y \in Seq(Opening),
         WordStep(u, e.k, v), WordStep(v, b.k, y)
  PROVE  \E z : Words(<< e, b >>, z) /\ z[1] = u /\ z[Len(<< e, b >>) + 1] = y
<1> DEFINE S == Seq(Opening)
           s == << e, b >>
<1>1. Link(u, e, v, WordMoves) /\ Link(v, b, y, WordMoves) /\ u \in S /\ v \in S /\ y \in S
  BY DEF Link, WordMoves
<1>2. s \in Seq(AstItems) /\ Len(s) + 1 = 3
  BY Lists
<1> HIDE DEF S
<1>3. PICK z : Path(s, z, S, WordMoves) /\ z[1] = u /\ z[2] = v /\ z[3] = y
  BY <1>1, PathTwo
<1> HIDE DEF s
<1>4. Words(s, z)
  BY <1>2, <1>3, WordsPath DEF S
<1> QED
  BY <1>2, <1>3, <1>4 DEF s

LEMMA ShutAppended ==
  ASSUME NEW u \in Seq(Opening), NEW k \in Opening
  PROVE  /\ Append(u, k) \in Seq(Opening) /\ Append(u, k) # << >>
         /\ Shut(Append(u, k)) = u /\ Append(u, k)[Len(Append(u, k))] = k
<1> DEFINE v == Append(u, k)
<1>1. /\ v \in Seq(Opening) /\ Len(v) = Len(u) + 1 /\ v[Len(u) + 1] = k /\ Len(u) \in Nat
      /\ \A i \in 1 .. Len(u) : v[i] = u[i]
  BY AppendProperties, LenProperties
<1> HIDE DEF v
<1>2. v # << >>
  BY <1>1, EmptySeq
<1>3. Len(v) - 1 = Len(u) /\ Len(u) <= Len(v)
  BY <1>1
<1>4. SubSeq(v, 1, Len(u)) = u
  <2> DEFINE b == SubSeq(v, 1, Len(u))
  <2>1. b \in Seq(Opening) /\ Len(b) = Len(u) /\ \A i \in 1 .. Len(u) : b[i] = v[i]
    BY <1>1, <1>3
  <2> HIDE DEF b
  <2> QED
    BY <1>1, <2>1, SeqEqual
<1> QED
  BY <1>1, <1>2, <1>3, <1>4 DEF v, Shut

LEMMA ShutType ==
  ASSUME NEW u \in Seq(Opening), u # << >>
  PROVE  Shut(u) \in Seq(Opening) /\ Len(Shut(u)) = Len(u) - 1 /\ \A i \in 1 .. Len(u) - 1 : Shut(u)[i] = u[i]
<1> DEFINE n == Len(u) - 1
           b == SubSeq(u, 1, n)
<1>1. Len(u) \in Nat \ {0}
  BY EmptySeq, LenProperties
<1>2. n \in Nat /\ n <= Len(u)
  BY <1>1
<1> HIDE DEF n
<1>3. b \in Seq(Opening) /\ Len(b) = n /\ \A i \in 1 .. n : b[i] = u[i]
  BY <1>1, <1>2
<1> QED
  BY <1>3 DEF Shut, n

-----------------------------------------------------------------------------
(* The blocks that the parsing stack holds open; there may be more below. *)

WordOf(op) == IF op = "if-then-body" THEN "then" ELSE IF op = "if-else-body" THEN "else" ELSE "body"

Under(op, u) == IF op \in BodyOps THEN Append(u, WordOf(op)) ELSE u

HeldIn(st, u, g) ==
  /\ g \in [0 .. Len(st) -> Seq(Opening)] /\ g[Len(st)] = u
  /\ \A i \in 1 .. Len(st) : g[i] = Under(st[i].op, g[i - 1])

LEMMA WordOfType == \A op : WordOf(op) \in Opening
  BY DEF WordOf, Opening

LEMMA UnderType ==
  ASSUME NEW op, NEW u \in Seq(Opening)
  PROVE  Under(op, u) \in Seq(Opening)
  BY WordOfType, ShutAppended DEF Under

LEMMA HeldLonger ==
  ASSUME NEW op, Longer(op), NEW u \in Seq(Opening), NEW g, HeldIn(stack, u, g)
  PROVE  \E h : HeldIn(stack', Under(op, u), h)
<1> DEFINE n == Len(stack)
           h == [i \in 0 .. n + 1 |-> IF i <= n THEN g[i] ELSE Under(op, u)]
<1>1. /\ n \in Nat /\ Len(stack') = n + 1 /\ stack'[n + 1].op = op
      /\ \A i \in 1 .. n : stack'[i] = stack[i]
  BY DEF Longer
<1>2. /\ g \in [0 .. n -> Seq(Opening)] /\ g[n] = u
      /\ \A i \in 1 .. n : g[i] = Under(stack[i].op, g[i - 1])
  BY DEF HeldIn
<1>3. Under(op, u) \in Seq(Opening)
  BY UnderType
<1> HIDE DEF n
<1>4. h[n + 1] = Under(op, u) /\ \A i \in 0 .. n : h[i] = g[i]
  BY <1>1
<1>5. h \in [0 .. n + 1 -> Seq(Opening)]
  BY <1>1, <1>2, <1>3
<1> HIDE DEF h
<1>6. ASSUME NEW i \in 1 .. n + 1 PROVE h[i] = Under(stack'[i].op, h[i - 1])
  <2>1. CASE i \in 1 .. n
    <3>1. i \in 0 .. n /\ i - 1 \in 0 .. n
      BY <1>1, <2>1
    <3> QED
      BY <1>1, <1>2, <1>4, <2>1, <3>1
  <2>2. CASE i = n + 1
    <3>1. i - 1 = n /\ n \in 0 .. n
      BY <1>1, <2>2
    <3> QED
      BY <1>1, <1>2, <1>4, <2>2, <3>1
  <2> QED
    BY <1>1, <2>1, <2>2
<1> QED
  BY <1>1, <1>4, <1>5, <1>6 DEF HeldIn

\* What is below the entry on top.
LEMMA HeldBelow ==
  ASSUME Len(stack) \in Nat \ {0}, NEW u, NEW g, HeldIn(stack, u, g)
  PROVE  g[Len(stack) - 1] \in Seq(Opening) /\ u = Under(stack[Len(stack)].op, g[Len(stack) - 1])
<1>1. Len(stack) - 1 \in 0 .. Len(stack) /\ Len(stack) \in 1 .. Len(stack)
  OBVIOUS
<1> QED
  BY <1>1 DEF HeldIn

LEMMA HeldShorter ==
  ASSUME Shorter, NEW u, NEW g, HeldIn(stack, u, g)
  PROVE  \E h : HeldIn(stack', g[Len(stack) - 1], h)
<1> DEFINE n == Len(stack) - 1
           h == [i \in 0 .. n |-> g[i]]
<1>1. /\ n \in Nat /\ Len(stack) = n + 1 /\ Len(stack') = n
      /\ \A i \in 1 .. n : stack'[i] = stack[i]
  BY DEF Shorter
<1>2. /\ g \in [0 .. n + 1 -> Seq(Opening)]
      /\ \A i \in 1 .. n + 1 : g[i] = Under(stack[i].op, g[i - 1])
  BY <1>1 DEF HeldIn
<1> HIDE DEF n
<1>3. h \in [0 .. n -> Seq(Opening)] /\ \A i \in 0 .. n : h[i] = g[i]
  BY <1>1, <1>2
<1> HIDE DEF h
<1>4. ASSUME NEW i \in 1 .. n PROVE h[i] = Under(stack'[i].op, h[i - 1])
  <2>1. i \in 0 .. n /\ i - 1 \in 0 .. n /\ i \in 1 .. n + 1
    BY <1>1
  <2> QED
    BY <1>1, <1>2, <1>3, <2>1
<1>5. h[n] = g[n]
  BY <1>1, <1>3
<1> QED
  BY <1>1, <1>3, <1>4, <1>5 DEF HeldIn, n

LEMMA HeldTurned ==
  ASSUME NEW op, Turned(op), NEW u, NEW g, HeldIn(stack, u, g)
  PROVE  \E h : HeldIn(stack', Under(op, g[Len(stack) - 1]), h)
<1> DEFINE n == Len(stack) - 1
           h == [i \in 0 .. n + 1 |-> IF i <= n THEN g[i] ELSE Under(op, g[n])]
<1>1. /\ n \in Nat /\ Len(stack) = n + 1 /\ Len(stack') = n + 1 /\ stack'[n + 1].op = op
      /\ \A i \in 1 .. n : stack'[i] = stack[i]
  BY DEF Turned
<1>2. /\ g \in [0 .. n + 1 -> Seq(Opening)]
      /\ \A i \in 1 .. n + 1 : g[i] = Under(stack[i].op, g[i - 1])
  BY <1>1 DEF HeldIn
<1> HIDE DEF n
<1>3. Under(op, g[n]) \in Seq(Opening)
  BY <1>1, <1>2, UnderType
<1>4. h[n + 1] = Under(op, g[n]) /\ \A i \in 0 .. n : h[i] = g[i]
  BY <1>1
<1>5. h \in [0 .. n + 1 -> Seq(Opening)]
  BY <1>1, <1>2, <1>3
<1> HIDE DEF h
<1>6. ASSUME NEW i \in 1 .. n + 1 PROVE h[i] = Under(stack'[i].op, h[i - 1])
  <2>1. CASE i \in 1 .. n
    <3>1. i \in 0 .. n /\ i - 1 \in 0 .. n
      BY <1>1, <2>1
    <3> QED
      BY <1>1, <1>2, <1>4, <2>1, <3>1
  <2>2. CASE i = n + 1
    <3>1. i - 1 = n /\ n \in 0 .. n
      BY <1>1, <2>2
    <3> QED
      BY <1>1, <1>4, <2>2, <3>1
  <2> QED
    BY <1>1, <2>1, <2>2
<1> QED
  BY <1>1, <1>4, <1>5, <1>6 DEF HeldIn, n

-----------------------------------------------------------------------------
(* The open blocks along the steps of the parser. *)

WordInvOf(w) ==
  /\ Words(ast, w) /\ w[1] = << >>
  /\ ph \notin {"parsed", "rejected"} => \E g : HeldIn(stack, w[Len(ast) + 1], g)

LEMMA WordsQuiet ==
  ASSUME NEW s \in Seq(AstItems), ast \in Seq(AstItems), ast' = ast \o s, NEW w, Words(ast, w), NEW u,
         \E v : Words(s, v) /\ v[1] = w[Len(ast) + 1] /\ v[Len(s) + 1] = u,
         \E h : HeldIn(stack', u, h)
  PROVE  \E z : Words(ast', z) /\ z[1] = w[1] /\ \E h : HeldIn(stack', z[Len(ast') + 1], h)
<1>1. PICK v : Words(s, v) /\ v[1] = w[Len(ast) + 1] /\ v[Len(s) + 1] = u
  OBVIOUS
<1>2. PICK z : Words(ast \o s, z) /\ z[1] = w[1] /\ z[Len(ast \o s) + 1] = v[Len(s) + 1]
  BY <1>1, WordsJoin
<1>3. Words(ast', z) /\ z[1] = w[1] /\ z[Len(ast') + 1] = u
  BY <1>1, <1>2
<1> QED
  BY <1>3

LEMMA WordsShapes ==
  ASSUME TreeInv, NEW w, Words(ast, w), NEW g, HeldIn(stack, w[Len(ast) + 1], g), Quiet \/ BlockShapes
  PROVE  \E z : Words(ast', z) /\ z[1] = w[1] /\ \E h : HeldIn(stack', z[Len(ast') + 1], h)
<1> DEFINE u == w[Len(ast) + 1]
<1>1. ast \in Seq(AstItems) /\ Len(ast) \in Nat /\ TypeInv
  BY LenProperties DEF TreeInv, AstInv, ParserInv
<1>2. u \in Seq(Opening)
  BY <1>1 DEF Words
<1>3. Len(stack) \in Nat /\ Len(stack) # 0 => TopOp = stack[Len(stack)].op
  BY <1>1, TopIs
<1>4. HeldIn(stack, u, g)
  OBVIOUS
<1> HIDE DEF u
<1>5. ASSUME Len(stack) \in Nat \ {0}
      PROVE  /\ g[Len(stack) - 1] \in Seq(Opening) /\ u = Under(TopOp, g[Len(stack) - 1])
  BY <1>3, <1>4, <1>5, HeldBelow
<1>6. ASSUME NEW k, NEW c, OneItem(k, c), NEW v \in Seq(Opening), WordStep(u, k, v), \E h : HeldIn(stack', v, h)
      PROVE  \E z : Words(ast', z) /\ z[1] = w[1] /\ \E h : HeldIn(stack', z[Len(ast') + 1], h)
  <2>1. PICK e \in AstItems : e.k = k /\ ast' = ast \o << e >>
    BY <1>6 DEF OneItem
  <2> DEFINE s == << e >>
  <2>2. s \in Seq(AstItems) /\ ast' = ast \o s
    BY <2>1, Lists
  <2>3. \E z : Words(s, z) /\ z[1] = u /\ z[Len(s) + 1] = v
    BY <1>2, <1>6, <2>1, WordsOne
  <2> HIDE DEF s
  <2> QED
    BY <1>1, <1>6, <2>2, <2>3, WordsQuiet DEF u
<1>7. ASSUME NEW k, NEW c, NEW l, NEW d, TwoItems(k, c, l, d),
             NEW v \in Seq(Opening), NEW y \in Seq(Opening), WordStep(u, k, v), WordStep(v, l, y),
             \E h : HeldIn(stack', y, h)
      PROVE  \E z : Words(ast', z) /\ z[1] = w[1] /\ \E h : HeldIn(stack', z[Len(ast') + 1], h)
  <2>1. PICK e \in AstItems, b \in AstItems : e.k = k /\ b.k = l /\ ast' = ast \o << e, b >>
    BY <1>7 DEF TwoItems
  <2> DEFINE s == << e, b >>
  <2>2. s \in Seq(AstItems) /\ ast' = ast \o s
    BY <2>1, Lists
  <2>3. \E z : Words(s, z) /\ z[1] = u /\ z[Len(s) + 1] = y
    BY <1>2, <1>7, <2>1, WordsTwo
  <2> HIDE DEF s
  <2> QED
    BY <1>1, <1>7, <2>2, <2>3, WordsQuiet DEF u
<1>8. CASE Quiet
  <2>1. PICK s \in Seq(AstItems) : ast' = ast \o s /\ QuietItems(s)
    BY <1>8 DEF Quiet
  <2>2. \A j \in 1 .. Len(s) : s[j].k \notin {"then", "else", "body", "end"}
    BY <2>1 DEF QuietItems, QuietKinds
  <2>3. \E v : Words(s, v) /\ v[1] = u /\ v[Len(s) + 1] = u
    BY <1>2, <2>2, WordsSame
  <2>4. \E h : HeldIn(stack', u, h)
    <3>1. CASE stack' = stack
      BY <1>4, <3>1
    <3>2. CASE stack' = Append(stack, Entry("func_call"))
      <4>1. Longer("func_call")
        BY <1>1, <3>2, PushShape DEF StackOps
      <4>2. Under("func_call", u) = u
        BY DEF Under, BodyOps
      <4> QED
        BY <1>2, <1>4, <4>1, <4>2, HeldLonger
    <3>3. CASE TopOp = "func_call" /\ stack' = Outer
      <4>1. Shorter
        BY <1>1, <3>3, PopShape
      <4>2. g[Len(stack) - 1] = u
        BY <1>5, <3>3, <4>1 DEF Shorter, Under, BodyOps
      <4> QED
        BY <1>4, <4>1, <4>2, HeldShorter
    <3> QED
      BY <1>8, <3>1, <3>2, <3>3 DEF Quiet, CallStack
  <2> QED
    BY <1>1, <2>1, <2>3, <2>4, WordsQuiet DEF u
<1> DEFINE v == g[Len(stack) - 1]
<1>9. ASSUME Turned("if-then-body") \/ Turned("if-else-body") \/ Turned("lambda_body") \/ Shorter
      PROVE  v \in Seq(Opening) /\ u = Under(TopOp, v)
  BY <1>5, <1>9 DEF Turned, Shorter
<1>10. ASSUME Shorter PROVE \E h : HeldIn(stack', v, h)
  BY <1>4, <1>10, HeldShorter
<1>11. ASSUME NEW op, Turned(op) PROVE \E h : HeldIn(stack', Under(op, v), h)
  BY <1>4, <1>11, HeldTurned
<1>12. ASSUME NEW op, Longer(op) PROVE \E h : HeldIn(stack', Under(op, u), h)
  BY <1>2, <1>4, <1>12, HeldLonger
<1> HIDE DEF v
<1>13. CASE IfShape
  <2>1. Under("if-cond", u) = u
    BY DEF Under, BodyOps
  <2>2. WordStep(u, "if", u)
    BY DEF WordStep
  <2> QED
    BY <1>2, <1>6, <1>12, <1>13, <2>1, <2>2 DEF IfShape
<1>14. CASE ThenShape
  <2>1. v \in Seq(Opening) /\ u = v
    BY <1>9, <1>14 DEF ThenShape, Under, BodyOps
  <2>2. Under("if-then-body", v) = Append(v, "then")
    BY DEF Under, BodyOps, WordOf
  <2>3. WordStep(u, "then", Append(v, "then")) /\ Append(v, "then") \in Seq(Opening)
    BY <2>1, ShutAppended DEF WordStep, Opening
  <2> QED
    BY <1>6, <1>11, <1>14, <2>2, <2>3 DEF ThenShape
<1>15. CASE EmptyThenShape
  <2>1. v \in Seq(Opening) /\ u = v
    BY <1>9, <1>15 DEF EmptyThenShape, Under, BodyOps
  <2>2. /\ WordStep(u, "then", Append(v, "then")) /\ Append(v, "then") \in Seq(Opening)
        /\ WordStep(Append(v, "then"), "end", v)
    BY <2>1, ShutAppended DEF WordStep, Opening
  <2> QED
    BY <1>7, <1>10, <1>15, <2>1, <2>2 DEF EmptyThenShape
<1>16. CASE ElseShape
  <2>1. v \in Seq(Opening) /\ u = Append(v, "then")
    BY <1>9, <1>16 DEF ElseShape, Under, BodyOps, WordOf
  <2>2. Under("if-else-body", v) = Append(v, "else")
    BY DEF Under, BodyOps, WordOf
  <2>3. WordStep(u, "else", Append(v, "else")) /\ Append(v, "else") \in Seq(Opening)
    BY <2>1, ShutAppended DEF WordStep, Opening
  <2> QED
    BY <1>6, <1>11, <1>16, <2>2, <2>3 DEF ElseShape
<1>17. CASE EndShape
  <2>1. v \in Seq(Opening) /\ u = Append(v, WordOf(TopOp))
    BY <1>9, <1>17 DEF EndShape, Under
  <2>2. WordStep(u, "end", v)
    BY <2>1, WordOfType, ShutAppended DEF WordStep
  <2> QED
    BY <1>6, <1>10, <1>17, <2>1, <2>2 DEF EndShape
<1>18. CASE PlainLambdaShape
  <2>1. Under("lambda_body", u) = Append(u, "body")
    BY DEF Under, BodyOps, WordOf
  <2>2. WordStep(u, "func", u) /\ WordStep(u, "body", Append(u, "body")) /\ Append(u, "body") \in Seq(Opening)
    BY <1>2, ShutAppended DEF WordStep, Opening
  <2> QED
    BY <1>2, <1>7, <1>12, <1>18, <2>1, <2>2 DEF PlainLambdaShape
<1>19. CASE EmptyLambdaShape
  <2>1. WordStep(u, "func", u) /\ WordStep(u, "nobody", u)
    BY DEF WordStep
  <2>2. stack' = << >> /\ Len(stack') = 0
    BY <1>19, EmptySeq DEF EmptyLambdaShape
  <2> DEFINE h == [i \in 0 .. 0 |-> u]
  <2>3. h \in [0 .. 0 -> Seq(Opening)] /\ h[0] = u
    BY <1>2
  <2> HIDE DEF h
  <2>4. HeldIn(stack', u, h)
    BY <2>2, <2>3 DEF HeldIn
  <2> QED
    BY <1>2, <1>7, <1>19, <2>1, <2>4 DEF EmptyLambdaShape
<1>20. CASE LambdaShape
  <2>1. Under("lambda_params", u) = u
    BY DEF Under, BodyOps
  <2>2. WordStep(u, "func", u)
    BY DEF WordStep
  <2> QED
    BY <1>2, <1>6, <1>12, <1>20, <2>1, <2>2 DEF LambdaShape
<1>21. CASE BodyShape
  <2>1. v \in Seq(Opening) /\ u = v
    BY <1>9, <1>21 DEF BodyShape, Under, BodyOps
  <2>2. Under("lambda_body", v) = Append(v, "body")
    BY DEF Under, BodyOps, WordOf
  <2>3. WordStep(u, "body", Append(v, "body")) /\ Append(v, "body") \in Seq(Opening)
    BY <2>1, ShutAppended DEF WordStep, Opening
  <2> QED
    BY <1>6, <1>11, <1>21, <2>2, <2>3 DEF BodyShape
<1>22. CASE NoBodyShape
  <2>1. v \in Seq(Opening) /\ u = v
    BY <1>9, <1>22 DEF NoBodyShape, Under, BodyOps
  <2>2. WordStep(u, "nobody", v)
    BY <2>1 DEF WordStep
  <2> QED
    BY <1>6, <1>10, <1>22, <2>1, <2>2 DEF NoBodyShape
<1> QED
  BY <1>8, <1>13, <1>14, <1>15, <1>16, <1>17, <1>18, <1>19, <1>20, <1>21, <1>22 DEF BlockShapes

LEMMA WordsInside ==
  ASSUME TreeInv, NEW w, Words(ast, w), NEW g, HeldIn(stack, w[Len(ast) + 1], g), NEW s \in Seq(AstItems), EndItems(s)
  PROVE  \E z : Words(ast \o s, z) /\ z[1] = w[1]
<1> DEFINE u == w[Len(ast) + 1]
           n == Len(stack)
<1>1. ast \in Seq(AstItems) /\ Len(ast) \in Nat /\ n \in Nat
  BY LenProperties, TopIs DEF TreeInv, AstInv, ParserInv
<1>2. /\ g \in [0 .. n -> Seq(Opening)] /\ g[n] = u
      /\ \A i \in 1 .. n : g[i] = Under(stack[i].op, g[i - 1])
  BY DEF HeldIn
<1>3. PICK h \in {0, 1} :
        /\ Len(s) = h + n
        /\ \A j \in 1 .. h : s[j].k = "null"
        /\ \A j \in 1 .. n : s[h + j].k = "end" <=> stack[n + 1 - j].op \in BodyOps
  BY DEF EndItems
<1>4. \A j \in 1 .. Len(s) : s[j].k \in {"null", "end", "ret", "nobody"}
  BY DEF EndItems
<1> HIDE DEF u, n
<1> DEFINE v == [i \in 1 .. h + n + 1 |-> IF i <= h THEN u ELSE g[n + h + 1 - i]]
<1>5. n \in 0 .. n /\ u \in Seq(Opening)
  BY <1>1, <1>2
<1>6. \A i \in 1 .. h : v[i] = u /\ v[i + 1] = u
  <2> TAKE i \in 1 .. h
  <2>1. h = 1 /\ i = 1 /\ i + 1 = 2 /\ n + h + 1 - 2 = n /\ 2 \in 1 .. h + n + 1 /\ 1 \in 1 .. h + n + 1
    BY <1>1
  <2> QED
    BY <1>2, <2>1
<1>7. \A j \in 0 .. n : h + j + 1 \in 1 .. h + n + 1 /\ v[h + j + 1] = g[n - j] /\ n - j \in 0 .. n
  <2> TAKE j \in 0 .. n
  <2>1. h + j + 1 \in 1 .. h + n + 1 /\ ~(h + j + 1 <= h) /\ n + h + 1 - (h + j + 1) = n - j /\ n - j \in 0 .. n
    BY <1>1
  <2> QED
    BY <2>1
<1>8. v \in [1 .. Len(s) + 1 -> Seq(Opening)]
  <2> SUFFICES ASSUME NEW i \in 1 .. h + n + 1 PROVE v[i] \in Seq(Opening)
    BY <1>3
  <2>1. CASE i <= h
    BY <1>5, <2>1
  <2>2. CASE ~(i <= h)
    <3>1. i - h - 1 \in 0 .. n /\ h + (i - h - 1) + 1 = i
      BY <1>1, <2>2
    <3>2. v[i] = g[n - (i - h - 1)] /\ n - (i - h - 1) \in 0 .. n
      BY <1>7, <3>1
    <3> QED
      BY <1>2, <3>2
  <2> QED
    BY <2>1, <2>2
<1>9. v[1] = u
  <2>1. CASE h = 1
    BY <1>6, <2>1
  <2>2. CASE h = 0
    <3>1. 0 \in 0 .. n /\ h + 0 + 1 = 1 /\ n - 0 = n
      BY <1>1, <2>2
    <3> QED
      BY <1>2, <1>7, <3>1
  <2> QED
    BY <2>1, <2>2
<1> HIDE DEF v
<1>10. ASSUME NEW i \in 1 .. Len(s) PROVE WordStep(v[i], s[i].k, v[i + 1])
  <2>1. CASE i \in 1 .. h
    BY <1>3, <1>6, <2>1 DEF WordStep
  <2>2. CASE i \notin 1 .. h
    <3> DEFINE j == i - h
               m == n + 1 - j
    <3>1. /\ j \in 1 .. n /\ j \in 0 .. n /\ j - 1 \in 0 .. n /\ h + j = i /\ h + (j - 1) + 1 = i /\ h + j + 1 = i + 1
          /\ m \in 1 .. n /\ n - (j - 1) = m /\ m - 1 = n - j /\ m = n + 1 - j
      BY <1>1, <1>3, <2>2
    <3> HIDE DEF j, m
    <3>2. v[i] = g[m] /\ v[i + 1] = g[n - j] /\ n - j \in 0 .. n
      BY <1>7, <3>1
    <3>3. g[m] = Under(stack[m].op, g[n - j]) /\ g[n - j] \in Seq(Opening)
      <4>1. g[n - j] \in Seq(Opening)
        BY <1>2, <3>2
      <4>2. g[m] = Under(stack[m].op, g[m - 1])
        BY <1>2, <3>1
      <4> QED
        BY <3>1, <4>1, <4>2
    <3>4. s[i].k = "end" <=> stack[m].op \in BodyOps
      BY <1>3, <3>1
    <3>5. CASE s[i].k = "end"
      <4>1. v[i] = Append(v[i + 1], WordOf(stack[m].op)) /\ v[i + 1] \in Seq(Opening)
        BY <3>2, <3>3, <3>4, <3>5 DEF Under
      <4>2. v[i] # << >> /\ Shut(v[i]) = v[i + 1]
        BY <4>1, WordOfType, ShutAppended
      <4> QED
        BY <3>5, <4>2 DEF WordStep
    <3>6. CASE s[i].k # "end"
      <4>1. v[i] = v[i + 1]
        BY <3>2, <3>3, <3>4, <3>6 DEF Under
      <4>2. s[i].k \notin {"then", "else", "body", "end"}
        BY <1>4, <3>6
      <4> QED
        BY <4>1, <4>2 DEF WordStep
    <3> QED
      BY <3>5, <3>6
  <2> QED
    BY <2>1, <2>2
<1>11. Words(s, v)
  BY <1>8, <1>10 DEF Words
<1> QED
  BY <1>1, <1>9, <1>11, WordsJoin DEF u

LEMMA WordsStep ==
  ASSUME TreeInv, ParserNext, NEW w, WordInvOf(w)
  PROVE  \E z : Words(ast', z) /\ z[1] = w[1] /\ (ph' \notin {"parsed", "rejected"} => \E h : HeldIn(stack', z[Len(ast') + 1], h))
<1>1. ph \notin {"parsed", "rejected"}
  BY ParserIdle
<1>2. PICK g : HeldIn(stack, w[Len(ast) + 1], g)
  BY <1>1 DEF WordInvOf
<1>3. Words(ast, w)
  BY DEF WordInvOf
<1>4. CASE Quiet \/ BlockShapes
  BY <1>2, <1>3, <1>4, WordsShapes
<1>5. CASE Reject
  BY <1>3, <1>5 DEF Reject
<1>6. CASE EndOfFile
  BY <1>3, <1>6 DEF EndOfFile
<1>7. CASE InsideEnds
  <2>1. PICK s \in Seq(AstItems) : ast' = ast \o s /\ EndItems(s)
    BY <1>7 DEF InsideEnds
  <2>2. ph' = "parsed"
    BY <1>7 DEF InsideEnds, EndOfFileInside
  <2> QED
    BY <1>2, <1>3, <2>1, <2>2, WordsInside
<1> QED
  BY <1>4, <1>5, <1>6, <1>7, StepShapes DEF TreeInv

-----------------------------------------------------------------------------
(***************************************************************************)
(* The labels of the levels.  A level on top of the first belongs to an    *)
(* open block; that of a then keeps two labels, as the else takes one.     *)
(***************************************************************************)
Matches(u) ==
  /\ Len(glevels) = 1 + Len(u)
  /\ \A i \in 1 .. Len(u) : u[i] = "then" => Len(glevels[i + 1].labels) = 2

LabelInv ==
  /\ RingInv
  /\ \E w : WordInvOf(w) /\ (gpos \in 1 .. Len(ast) + 1 => Matches(w[gpos]))

Fine(r, labels) == \A j \in 1 .. Len(labels) : LabelOK(r, labels[j])

LEMMA FineFrom ==
  ASSUME NEW r, NEW ls, NEW labels, From(ls, labels), Fine(r, labels),
         \A h \in 1 .. Len(glevels) : Fine(r, glevels[h].labels)
  PROVE  \A i \in 1 .. Len(ls) : Fine(r, ls[i].labels)
  BY DEF From

LEMMA FineLater ==
  ASSUME NEW r, RingOK(r), NEW labels, Fine(r, labels)
  PROVE  Fine(GenLabel(r).ring, labels)
  BY OldLabel DEF Fine

LEMMA NewMark ==
  ASSUME NEW r, RingOK(r)
  PROVE  /\ RingOK(GenLabel(r).ring) /\ GenLabel(r).label \in Marks
         /\ << GenLabel(r).label >> \in Seq(Marks) /\ Fine(GenLabel(r).ring, << GenLabel(r).label >>)
<1> DEFINE l == GenLabel(r).label
           s == GenLabel(r).ring
           ptr == IF r.idx + Width(r.cnt) <= LabelArrSize THEN r.idx ELSE 0
<1>1. l = [n |-> r.cnt, ptr |-> ptr] /\ ptr \in Nat /\ r.cnt \in Nat
  BY DEF GenLabel, Label, RingOK
<1>2. l \in Marks
  <2> HIDE DEF l, ptr
  <2> QED
    BY <1>1 DEF Marks
<1>3. RingOK(s) /\ LabelOK(s, l)
  BY GenLabelRing, NewLabel
<1> HIDE DEF l, s, ptr
<1>4. << l >> \in Seq(Marks)
  BY <1>2
<1>5. Fine(s, << l >>)
  BY <1>3 DEF Fine
<1> QED
  BY <1>2, <1>3, <1>4, <1>5 DEF l, s

LEMMA TwoMarks ==
  ASSUME NEW r, RingOK(r)
  PROVE  LET g == GenLabel(r)
             h == GenLabel(g.ring)
             labels == << g.label, h.label >>
         IN  RingOK(h.ring) /\ labels \in Seq(Marks) /\ Len(labels) = 2 /\ Fine(h.ring, labels)
<1> DEFINE g == GenLabel(r)
           h == GenLabel(g.ring)
           a == g.label
           b == h.label
<1>1. RingOK(g.ring) /\ a \in Marks /\ Fine(g.ring, << a >>)
  BY NewMark
<1>2. RingOK(h.ring) /\ b \in Marks /\ Fine(h.ring, << b >>)
  BY <1>1, NewMark
<1>3. Fine(h.ring, << a >>)
  BY <1>1, FineLater
<1> HIDE DEF g, h, a, b
<1>4. LabelOK(h.ring, a) /\ LabelOK(h.ring, b)
  <2>1. << a >>[1] = a /\ << b >>[1] = b /\ 1 \in 1 .. Len(<< a >>) /\ 1 \in 1 .. Len(<< b >>)
    OBVIOUS
  <2> QED
    BY <1>2, <1>3, <2>1 DEF Fine
<1> DEFINE labels == << a, b >>
<1>5. labels \in Seq(Marks) /\ Len(labels) = 2 /\ labels[1] = a /\ labels[2] = b
  BY <1>1, <1>2
<1> HIDE DEF labels
<1>6. Fine(h.ring, labels)
  <2>1. \A j \in 1 .. 2 : j = 1 \/ j = 2
    OBVIOUS
  <2> QED
    BY <1>4, <1>5, <2>1 DEF Fine
<1> QED
  BY <1>2, <1>5, <1>6 DEF labels, a, b, g, h

LEMMA TailOfTwo ==
  ASSUME NEW S, NEW q \in Seq(S), Len(q) = 2
  PROVE  Tail(q) \in Seq(S) /\ Len(Tail(q)) = 1 /\ Tail(q)[1] = q[2]
<1>1. q # << >>
  <2>1. Len(q) # 0
    OBVIOUS
  <2> QED
    BY <2>1, EmptySeq
<1>2. /\ Tail(q) \in Seq(S) /\ Len(Tail(q)) = Len(q) - 1
      /\ \A i \in 1 .. Len(Tail(q)) : Tail(q)[i] = q[i + 1]
  BY <1>1, HeadTailProperties
<1>3. Len(Tail(q)) = 1 /\ 1 \in 1 .. 1
  BY <1>2
<1> QED
  BY <1>2, <1>3

LEMMA LabelInit ==
  ASSUME Init
  PROVE  LabelInv
<1>1. ring = NoLabels /\ glevels = << >> /\ gpos = 0 /\ ast = << >> /\ stack = << >>
  BY DEF Init, GenInit, ParserInit
<1>2. RingOK(ring)
  BY <1>1 DEF RingOK, NoLabels
<1>3. glevels \in LevelsOf({}) /\ Len(glevels) = 0
  BY <1>1, EmptySeq DEF LevelsOf
<1>4. RingInv
  BY <1>1, <1>2, <1>3 DEF RingInv
<1> DEFINE w == [i \in 1 .. 1 |-> << >>]
           g == [i \in 0 .. 0 |-> << >>]
<1>5. << >> \in Seq(Opening)
  BY EmptySeq
<1>6. Len(ast) = 0 /\ Len(stack) = 0
  BY <1>1, EmptySeq
<1>7. w \in [1 .. 1 -> Seq(Opening)] /\ w[1] = << >> /\ g \in [0 .. 0 -> Seq(Opening)] /\ g[0] = << >>
  BY <1>5
<1> HIDE DEF w, g
<1>8. Words(ast, w)
  BY <1>6, <1>7 DEF Words
<1>9. HeldIn(stack, w[Len(ast) + 1], g)
  BY <1>6, <1>7 DEF HeldIn
<1>10. WordInvOf(w)
  BY <1>7, <1>8, <1>9 DEF WordInvOf
<1> QED
  BY <1>1, <1>4, <1>10 DEF LabelInv

\* What a step of the generator does to the levels and the labels.
LEMMA LabelGen ==
  ASSUME RingInv, NEW u \in Seq(Opening), NEW v \in Seq(Opening), Matches(u), GenItem,
         gpos \in 1 .. Len(ast), WordStep(u, ast[gpos].k, v)
  PROVE  /\ RingOK(ring') /\ \E C : glevels' \in LevelsOf(C)
         /\ \A i \in 1 .. Len(glevels') : Fine(ring', glevels'[i].labels)
         /\ Len(glevels') = 1 + Len(v)
         /\ \A i \in 1 .. Len(v) : v[i] = "then" => Len(glevels'[i + 1].labels) = 2
<1> DEFINE k == ast[gpos].k
           n == Len(u)
<1>1. PICK C : glevels \in LevelsOf(C)
  BY DEF RingInv
<1>2. /\ RingOK(ring) /\ gpos \in Nat /\ n \in Nat /\ Len(glevels) = n + 1
      /\ \A i \in 1 .. Len(glevels) : Fine(ring, glevels[i].labels)
      /\ \A i \in 1 .. n : u[i] = "then" => Len(glevels[i + 1].labels) = 2
  <2>1. n \in Nat
    BY LenProperties
  <2>2. Len(glevels) = n + 1
    BY <2>1 DEF Matches
  <2> QED
    BY <2>1, <2>2 DEF RingInv, Fine, Matches
<1>3. \A i \in 1 .. Len(glevels) : glevels[i].labels \in Seq(Marks)
  BY <1>1, LevelFields
<1>4. WordStep(u, k, v)
  OBVIOUS
<1>5. From(glevels, << >>)
  BY DEF From
<1> HIDE DEF k, n
<1>6. CASE k \notin {"then", "else", "body", "end", "nobody"}
  <2>1. v = u
    BY <1>4, <1>6 DEF WordStep
  <2>2. ring' = ring
    BY <1>6 DEF GenItem, k
  <2>3. CASE glevels' = glevels
    BY <1>1, <1>2, <2>1, <2>2, <2>3 DEF n
  <2>4. CASE \E t \in {gpos, NoTarget} : glevels' = [glevels EXCEPT ![Len(glevels)].target = t]
    <3>1. PICK t \in Nat : glevels' = [glevels EXCEPT ![Len(glevels)].target = t]
      BY <1>2, <2>4 DEF NoTarget
    <3> DEFINE Rec == [ctx : C, next : C, target : Nat, labels : Seq(Marks), fn : BOOLEAN]
               ls == [glevels EXCEPT ![Len(glevels)].target = t]
    <3>2. glevels = [i \in 1 .. n + 1 |-> glevels[i]]
      BY <1>1, <1>2, LenProperties DEF LevelsOf
    <3>3. ls = [i \in 1 .. n + 1 |-> IF i = n + 1 THEN [glevels[i] EXCEPT !.target = t] ELSE glevels[i]]
      BY <1>2, <3>2
    <3>4. \A i \in 1 .. n + 1 : glevels[i] \in Rec
      BY <1>1, <1>2, LevelFields
    <3> HIDE DEF ls
    <3>5. \A i \in 1 .. n + 1 : ls[i] \in Rec /\ ls[i].labels = glevels[i].labels
      BY <3>3, <3>4
    <3> HIDE DEF Rec
    <3>6. ls \in Seq(Rec) /\ Len(ls) = n + 1
      <4>1. n + 1 \in Nat
        BY <1>2
      <4>2. ls \in Seq(Rec)
        <5>1. ls = [i \in 1 .. n + 1 |-> ls[i]]
          BY <3>3
        <5> QED
          BY <3>5, <4>1, <5>1, IsASeq
      <4> QED
        BY <3>3, <4>1, <4>2, LenProperties
    <3>7. glevels' \in LevelsOf(C)
      BY <3>1, <3>6 DEF ls, Rec, LevelsOf
    <3>8. glevels' = ls
      BY <3>1 DEF ls
    <3>9. \A i \in 1 .. n : i + 1 \in 1 .. n + 1
      BY <1>2
    <3>10. \A i \in 1 .. Len(glevels') : Fine(ring', glevels'[i].labels)
      BY <1>2, <2>2, <3>5, <3>6, <3>8
    <3>11. Len(glevels') = 1 + n
      BY <1>2, <3>6, <3>8
    <3>12. \A i \in 1 .. n : u[i] = "then" => Len(glevels'[i + 1].labels) = 2
      BY <1>2, <3>5, <3>8, <3>9
    <3> QED
      BY <1>2, <2>1, <2>2, <3>7, <3>10, <3>11, <3>12 DEF n
  <2> QED
    BY <1>6, <2>3, <2>4 DEF GenItem, k
<1>7. ASSUME NEW labels \in Seq(Marks), NEW fn \in BOOLEAN, NEW c \in Opening, glevels' = EnterBlock(glevels, labels, fn),
             v = Append(u, c), c = "then" => Len(labels) = 2,
             RingOK(ring'), Fine(ring', labels), \A i \in 1 .. Len(glevels) : Fine(ring', glevels[i].labels)
      PROVE  /\ \E D : glevels' \in LevelsOf(D)
             /\ \A i \in 1 .. Len(glevels') : Fine(ring', glevels'[i].labels)
             /\ Len(glevels') = 1 + Len(v)
             /\ \A i \in 1 .. Len(v) : v[i] = "then" => Len(glevels'[i + 1].labels) = 2
  <2>1. From(glevels, labels)
    BY DEF From
  <2>2. /\ \E D : glevels' \in LevelsOf(D)
        /\ From(glevels', labels)
        /\ Len(glevels') = n + 1 + 1
        /\ glevels'[n + 1 + 1].labels = labels
        /\ \A i \in 1 .. n + 1 : glevels'[i].labels = glevels[i].labels
    <3> DEFINE ls == EnterBlock(glevels, labels, fn)
    <3>1. /\ \E D : ls \in LevelsOf(D)
          /\ From(ls, labels)
          /\ Len(ls) = Len(glevels) + 1
          /\ ls[Len(glevels) + 1].labels = labels
          /\ \A i \in 1 .. Len(glevels) : ls[i].labels = glevels[i].labels
      BY <1>1, <2>1, Pushed
    <3> HIDE DEF ls
    <3> QED
      BY <1>2, <1>7, <3>1 DEF ls
  <2>3. Len(v) = n + 1 /\ v[n + 1] = c /\ \A i \in 1 .. n : v[i] = u[i]
    BY <1>7, AppendProperties DEF n
  <2>4. \A i \in 1 .. Len(glevels') : Fine(ring', glevels'[i].labels)
    BY <1>7, <2>2, FineFrom
  <2>5. ASSUME NEW i \in 1 .. n + 1, v[i] = "then" PROVE Len(glevels'[i + 1].labels) = 2
    <3>1. CASE i = n + 1
      BY <1>7, <2>2, <2>3, <2>5, <3>1
    <3>2. CASE i # n + 1
      <4>1. i \in 1 .. n /\ i + 1 \in 1 .. n + 1
        BY <1>2, <3>2
      <4> QED
        BY <1>2, <2>2, <2>3, <2>5, <4>1
    <3> QED
      BY <3>1, <3>2
  <2> QED
    BY <1>2, <2>2, <2>3, <2>4, <2>5
<1>8. CASE k = "body"
  <2> DEFINE g == GenLabel(ring)
             labels == << g.label >>
  <2>1. ring' = g.ring /\ glevels' = EnterBlock(glevels, labels, TRUE)
    BY <1>8 DEF GenItem, k
  <2>2. v = Append(u, "body") /\ "body" \in Opening
    BY <1>4, <1>8 DEF WordStep, Opening
  <2>3. RingOK(g.ring) /\ labels \in Seq(Marks) /\ Fine(g.ring, labels)
    BY <1>2, NewMark
  <2>4. \A i \in 1 .. Len(glevels) : Fine(g.ring, glevels[i].labels)
    BY <1>2, FineLater
  <2> HIDE DEF g, labels
  <2> QED
    BY <1>7, <2>1, <2>2, <2>3, <2>4
<1>9. CASE k = "then"
  <2> DEFINE g == GenLabel(ring)
             h == GenLabel(g.ring)
             labels == << g.label, h.label >>
  <2>1. ring' = h.ring /\ glevels' = EnterBlock(glevels, labels, FALSE)
    BY <1>9 DEF GenItem, k
  <2>2. v = Append(u, "then") /\ "then" \in Opening
    BY <1>4, <1>9 DEF WordStep, Opening
  <2>3. RingOK(h.ring) /\ labels \in Seq(Marks) /\ Len(labels) = 2 /\ Fine(h.ring, labels) /\ RingOK(g.ring)
    BY <1>2, TwoMarks, NewMark
  <2>4. \A i \in 1 .. Len(glevels) : Fine(h.ring, glevels[i].labels)
    BY <1>2, <2>3, FineLater
  <2> HIDE DEF g, h, labels
  <2> QED
    BY <1>7, <2>1, <2>2, <2>3, <2>4
<1>10. ASSUME u # << >>, ring' = ring
       PROVE  /\ Below \in LevelsOf(C) /\ Len(Below) = n /\ \A i \in 1 .. n : Below[i].labels = glevels[i].labels
              /\ Shut(u) \in Seq(Opening) /\ Len(Shut(u)) = n - 1 /\ n - 1 \in Nat /\ \A i \in 1 .. n - 1 : Shut(u)[i] = u[i]
  <2>1. n \in Nat \ {0}
    BY <1>2, <1>10, EmptySeq DEF n
  <2>2. Len(glevels) - 1 = n
    BY <1>2
  <2> DEFINE Rec == [ctx : C, next : C, target : Nat, labels : Seq(Marks), fn : BOOLEAN]
  <2>3. glevels \in Seq(Rec)
    BY <1>1 DEF LevelsOf
  <2> HIDE DEF Rec
  <2> DEFINE b == SubSeq(glevels, 1, n)
  <2>4. b \in Seq(Rec) /\ Len(b) = n /\ \A i \in 1 .. n : b[i] = glevels[i]
    <3>1. n <= Len(glevels)
      BY <1>2
    <3> QED
      BY <2>1, <2>3, <3>1
  <2>5. Below = b
    BY <2>2 DEF Below
  <2>6. Below \in LevelsOf(C)
    BY <2>4, <2>5 DEF Rec, LevelsOf
  <2> HIDE DEF b
  <2>7. Shut(u) \in Seq(Opening) /\ Len(Shut(u)) = n - 1 /\ \A i \in 1 .. n - 1 : Shut(u)[i] = u[i]
    BY <1>10, ShutType DEF n
  <2> QED
    BY <2>1, <2>4, <2>5, <2>6, <2>7
<1>11. CASE k = "end"
  <2>1. ring' = ring /\ glevels' = Below
    BY <1>11 DEF GenItem, k
  <2>2. u # << >> /\ v = Shut(u)
    BY <1>4, <1>11 DEF WordStep
  <2>3. /\ Below \in LevelsOf(C) /\ Len(Below) = n /\ \A i \in 1 .. n : Below[i].labels = glevels[i].labels
        /\ Len(v) = n - 1 /\ n - 1 \in Nat /\ \A i \in 1 .. n - 1 : v[i] = u[i]
    BY <1>10, <2>1, <2>2
  <2>4. Len(Below) = 1 + Len(v)
    BY <1>2, <2>3
  <2>5. \A i \in 1 .. n : i \in 1 .. Len(glevels)
    BY <1>2
  <2>6. \A i \in 1 .. Len(Below) : Fine(ring, Below[i].labels)
    BY <1>2, <2>3, <2>5
  <2>7. ASSUME NEW i \in 1 .. n - 1, v[i] = "then" PROVE Len(Below[i + 1].labels) = 2
    <3>1. i \in 1 .. n /\ i + 1 \in 1 .. n
      BY <2>3
    <3> QED
      BY <1>2, <2>3, <2>7, <3>1
  <2> QED
    BY <1>2, <2>1, <2>3, <2>4, <2>6, <2>7
<1>12. CASE k = "else"
  <2> DEFINE labels == Tail(Here.labels)
  <2>1. ring' = ring /\ glevels' = EnterBlock(Below, labels, FALSE)
    BY <1>12 DEF GenItem, k
  <2>2. u # << >> /\ u[n] = "then" /\ v = Append(Shut(u), "else")
    BY <1>4, <1>12 DEF WordStep, n
  <2>3. /\ Below \in LevelsOf(C) /\ Len(Below) = n /\ \A i \in 1 .. n : Below[i].labels = glevels[i].labels
        /\ Shut(u) \in Seq(Opening) /\ Len(Shut(u)) = n - 1 /\ n - 1 \in Nat /\ \A i \in 1 .. n - 1 : Shut(u)[i] = u[i]
    BY <1>10, <2>1, <2>2
  <2>4. Here.labels \in Seq(Marks) /\ Len(Here.labels) = 2 /\ Fine(ring, Here.labels)
    <3>1. n + 1 \in 1 .. n + 1 /\ n \in 1 .. n
      BY <1>2, <2>3
    <3> QED
      BY <1>2, <1>3, <2>2, <3>1 DEF Here
  <2>5. labels \in Seq(Marks) /\ Len(labels) = 1 /\ labels[1] = Here.labels[2]
    BY <2>4, TailOfTwo
  <2>6. Fine(ring, labels)
    BY <2>4, <2>5 DEF Fine
  <2> HIDE DEF labels
  <2>7. From(Below, labels)
    <3>1. \A i \in 1 .. n : i \in 1 .. Len(glevels)
      BY <1>2
    <3> QED
      BY <2>3, <3>1 DEF From
  <2>8. /\ \E D : glevels' \in LevelsOf(D)
        /\ From(glevels', labels)
        /\ Len(glevels') = n + 1
        /\ \A i \in 1 .. n : glevels'[i].labels = Below[i].labels
    <3> DEFINE ls == EnterBlock(Below, labels, FALSE)
    <3>1. /\ \E D : ls \in LevelsOf(D)
          /\ From(ls, labels)
          /\ Len(ls) = Len(Below) + 1
          /\ \A i \in 1 .. Len(Below) : ls[i].labels = Below[i].labels
      BY <2>3, <2>5, <2>7, Pushed
    <3> HIDE DEF ls
    <3> QED
      BY <2>1, <2>3, <3>1 DEF ls
  <2>9. \A i \in 1 .. Len(glevels') : Fine(ring, glevels'[i].labels)
    BY <1>2, <2>6, <2>8, FineFrom
  <2>10. Len(v) = n /\ v[n] = "else" /\ \A i \in 1 .. n - 1 : v[i] = u[i]
    <3>1. "else" \in Opening
      BY DEF Opening
    <3>2. /\ Len(v) = Len(Shut(u)) + 1 /\ v[Len(Shut(u)) + 1] = "else"
          /\ \A i \in 1 .. Len(Shut(u)) : v[i] = Shut(u)[i]
      BY <2>2, <2>3, <3>1, AppendProperties
    <3>3. n - 1 + 1 = n
      BY <1>2
    <3> QED
      BY <2>3, <3>2, <3>3
  <2>11. ASSUME NEW i \in 1 .. n, v[i] = "then" PROVE Len(glevels'[i + 1].labels) = 2
    <3>1. i # n
      BY <2>10, <2>11
    <3>2. i \in 1 .. n - 1 /\ i + 1 \in 1 .. n
      BY <1>2, <3>1
    <3> QED
      BY <1>2, <2>3, <2>8, <2>10, <2>11, <3>2
  <2>12. Len(glevels') = 1 + Len(v)
    BY <1>2, <2>8, <2>10
  <2> QED
    BY <1>2, <2>1, <2>8, <2>9, <2>10, <2>11, <2>12
<1>13. k # "nobody"
  BY DEF GenItem, k
<1>14. RingOK(ring')
  BY <1>2, <1>6, <1>8, <1>9, <1>11, <1>12, <1>13, NewMark, TwoMarks DEF GenItem, k
<1> QED
  BY <1>6, <1>8, <1>9, <1>11, <1>12, <1>13, <1>14

LEMMA LabelStep ==
  ASSUME TreeInv, StageInv, LabelInv, [Next]_vars
  PROVE  LabelInv'
<1>1. RingInv
  BY DEF LabelInv
<1>2. PICK w : WordInvOf(w) /\ (gpos \in 1 .. Len(ast) + 1 => Matches(w[gpos]))
  BY DEF LabelInv
<1>3. ast \in Seq(AstItems) /\ Len(ast) \in Nat
  BY LenProperties DEF TreeInv, AstInv
<1>4. CASE UNCHANGED vars
  BY <1>1, <1>2, <1>4 DEF vars, parserVars, checkerVars, genVars, LabelInv, RingInv, WordInvOf, Matches
<1>5. CASE Parse
  <2>1. ph # "parsed" /\ UNCHANGED genVars /\ ParserNext
    BY <1>5, ParserIdle DEF Parse
  <2>2. gpos = 0 /\ gpos' = 0 /\ glevels' = glevels /\ ring' = ring
    BY <2>1 DEF StageInv, genVars
  <2>3. RingInv'
    BY <1>1, <2>2 DEF RingInv
  <2>4. PICK z : /\ Words(ast', z) /\ z[1] = w[1]
                 /\ ph' \notin {"parsed", "rejected"} => \E h : HeldIn(stack', z[Len(ast') + 1], h)
    BY <1>2, <2>1, WordsStep
  <2>5. z[1] = << >>
    BY <1>2, <2>4 DEF WordInvOf
  <2>6. WordInvOf(z)'
    BY <2>4, <2>5 DEF WordInvOf
  <2>7. gpos' \notin 1 .. Len(ast') + 1
    BY <2>2
  <2> QED
    BY <2>3, <2>6, <2>7 DEF LabelInv
<1>6. CASE Check
  <2>1. UNCHANGED << ph, ast, stack, gpos, glevels, ring >>
    BY <1>6 DEF Check, parserVars, genVars
  <2> QED
    BY <1>1, <1>2, <2>1 DEF LabelInv, RingInv, WordInvOf, Matches
<1>7. CASE Generate
  <2>1. /\ UNCHANGED << ph, ast, stack >> /\ ph = "parsed"
        /\ GenBegins \/ GenEnds \/ GenStops \/ GenMoves
    BY <1>7, GenSteps DEF Generate, parserVars, StageInv
  <2>2. Words(ast, w) /\ w[1] = << >>
    BY <1>2 DEF WordInvOf
  <2>3. WordInvOf(w)'
    BY <2>1, <2>2 DEF WordInvOf
  <2>4. CASE GenStops
    BY <1>1, <1>2, <2>1, <2>3, <2>4 DEF LabelInv, RingInv, Matches, GenStops
  <2>5. CASE GenEnds
    <3>1. gpos' = Len(ast) + 2 /\ glevels' = glevels /\ ring' = ring
      BY <2>5 DEF GenEnds
    <3>2. gpos' \in Nat /\ gpos' \notin 1 .. Len(ast') + 1
      BY <1>3, <2>1, <3>1
    <3> QED
      BY <1>1, <2>3, <3>1, <3>2 DEF LabelInv, RingInv
  <2>6. CASE GenBegins
    <3> DEFINE l == GenLevel(here, FirstChild(here), << >>, FALSE)
               C == {here, FirstChild(here)}
               Rec == [ctx : C, next : C, target : Nat, labels : Seq(Marks), fn : BOOLEAN]
    <3>1. gpos' = 1 /\ ring' = ring /\ glevels' = << l >>
      BY <2>6 DEF GenBegins
    <3>2. << >> \in Seq(Marks) /\ Len(<< >>) = 0
      BY EmptySeq
    <3>3. l \in Rec /\ l.labels = << >>
      BY <3>2 DEF GenLevel, NoTarget
    <3> HIDE DEF l, Rec
    <3>4. glevels' \in Seq(Rec) /\ Len(glevels') = 1 /\ glevels'[1] = l
      BY <3>1, <3>3
    <3>5. glevels' \in LevelsOf(C)
      BY <3>4 DEF LevelsOf, Rec
    <3>6. RingInv'
      BY <1>1, <3>1, <3>2, <3>3, <3>4, <3>5 DEF RingInv
    <3>7. Matches(w[1])'
      BY <2>2, <3>2, <3>4 DEF Matches
    <3> QED
      BY <2>3, <3>1, <3>6, <3>7 DEF LabelInv
  <2>7. CASE GenMoves
    <3>1. gpos \in 1 .. Len(ast) /\ gpos' = gpos + 1 /\ GenItem
      BY <1>3, <2>7, LenProperties DEF GenMoves
    <3>2. gpos \in 1 .. Len(ast) + 1 /\ gpos + 1 \in 1 .. Len(ast) + 1 /\ gpos + 1 \in Nat
      BY <1>3, <3>1
    <3>3. w[gpos] \in Seq(Opening) /\ w[gpos + 1] \in Seq(Opening) /\ WordStep(w[gpos], ast[gpos].k, w[gpos + 1])
      BY <2>2, <3>1, <3>2 DEF Words
    <3>4. Matches(w[gpos])
      BY <1>2, <3>2
    <3> DEFINE u == w[gpos]
               v == w[gpos + 1]
    <3>5. /\ u \in Seq(Opening) /\ v \in Seq(Opening) /\ Matches(u) /\ WordStep(u, ast[gpos].k, v)
          /\ v = w[gpos']
      BY <3>1, <3>3, <3>4
    <3> HIDE DEF u, v
    <3>6. /\ RingOK(ring') /\ \E C : glevels' \in LevelsOf(C)
          /\ \A i \in 1 .. Len(glevels') : Fine(ring', glevels'[i].labels)
          /\ Len(glevels') = 1 + Len(v)
          /\ \A i \in 1 .. Len(v) : v[i] = "then" => Len(glevels'[i + 1].labels) = 2
      BY <1>1, <3>1, <3>5, LabelGen
    <3>7. RingInv'
      BY <3>1, <3>2, <3>6 DEF RingInv, Fine
    <3>8. Matches(w[gpos])'
      BY <3>5, <3>6 DEF Matches
    <3> QED
      BY <2>3, <3>7, <3>8 DEF LabelInv
  <2> QED
    BY <2>1, <2>4, <2>5, <2>6, <2>7
<1> QED
  BY <1>4, <1>5, <1>6, <1>7 DEF Next, Stopped

LEMMA LabelsKept ==
  ASSUME RingInv
  PROVE  HeldLabelsIntact
<1>1. PICK C : glevels \in LevelsOf(C)
  BY DEF RingInv
<1> SUFFICES ASSUME NEW i \in DOMAIN glevels, NEW j \in DOMAIN glevels[i].labels,
                    Recent(ring, glevels[i].labels[j])
             PROVE  Intact(ring, glevels[i].labels[j])
  BY DEF HeldLabelsIntact
<1>2. i \in 1 .. Len(glevels)
  BY <1>1, LenProperties DEF LevelsOf
<1>3. j \in 1 .. Len(glevels[i].labels)
  BY <1>1, <1>2, LevelFields, LenProperties
<1> DEFINE l == glevels[i].labels[j]
           a == ring.cnt - l.n + 1
           p == a * Width(ring.cnt)
<1>4. LabelOK(ring, l) /\ RingOK(ring)
  BY <1>2, <1>3 DEF RingInv
<1>5. a \in Nat /\ Width(ring.cnt) \in Nat
  <2> HIDE DEF l
  <2>1. ring.cnt \in Nat /\ l.n \in Nat /\ l.n < ring.cnt
    BY <1>4 DEF LabelOK, RingOK
  <2> QED
    BY <2>1, WidthGrows
<1>6. p \in Nat /\ LabelArrSize \in Nat
  BY <1>5, Products, LabelsAssumption
<1>7. p <= LabelArrSize
  BY DEF Recent
<1>8. ~Gone(ring, l)
  <2>1. Gone(ring, l) <=> p > LabelArrSize
    BY DEF Gone
  <2> HIDE DEF p
  <2> QED
    BY <1>6, <1>7, <2>1
<1> HIDE DEF l
<1> QED
  BY <1>4, <1>8 DEF LabelOK, l

\* In programs of every size, however the conditions and functions are nested:
\* the labels that are still to be printed read as they were generated, as long
\* as the array has room for those generated since.
THEOREM CompilerLabels == Spec => []HeldLabelsIntact
<1>1. Init => TreeInv /\ StageInv /\ LabelInv
  BY TreeInvInit, LabelInit
<1>2. TreeInv /\ StageInv /\ LabelInv /\ [Next]_vars => TreeInv' /\ StageInv' /\ LabelInv'
  BY TreeStageStep, LabelStep
<1>3. LabelInv => HeldLabelsIntact
  BY LabelsKept DEF LabelInv
<1> QED
  BY <1>1, <1>2, <1>3, PTL DEF Spec
=============================================================================
