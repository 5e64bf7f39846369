---------------------------- MODULE LexerProofs ----------------------------
EXTENDS Lexer, SequenceTheorems, WellFoundedInduction, TLAPS

-----------------------------------------------------------------------------
(* The buffer and the searches in it. *)

\* A set of numbers has a least element: induction, without an operator parameter.
LEMMA LeastElement ==
  ASSUME NEW S \in SUBSET Nat, S # {}
  PROVE  \E m \in S : \A k \in S : m <= k
<1>1. \E m \in S : \A k \in S : ~(<< k, m >> \in OpToRel(<, Nat))
  BY NatLessThanWellFounded, WFMin
<1>2. PICK m \in S : \A k \in S : ~(<< k, m >> \in OpToRel(<, Nat))
  BY <1>1
<1>3. \A k \in S : ~(k < m)
  BY <1>2 DEF OpToRel
<1>4. \A k \in S : k \in Nat
  OBVIOUS
<1> QED
  BY <1>3, <1>4

\* A buffer: characters, and a NUL at its end.
Buffer(d) ==
  /\ d \in Seq(Chars \cup {NUL})
  /\ Len(d) >= 1 /\ d[Len(d)] = NUL

LEMMA FirstInFinds ==
  ASSUME NEW d, Buffer(d), NEW i \in 1 .. Len(d), NEW cs
  PROVE  LET j == FirstIn(d, i, cs)
         IN  /\ j \in i .. Len(d) /\ d[j] \in cs \cup {NUL}
             /\ \A k \in i .. j - 1 : d[k] \notin cs \cup {NUL}
<1> DEFINE S == {j \in i .. Len(d) : d[j] \in cs \cup {NUL}}
<1>1. Len(d) \in Nat /\ Len(d) \in i .. Len(d) /\ d[Len(d)] = NUL
  BY DEF Buffer
<1>2. S \in SUBSET Nat /\ Len(d) \in S
  BY <1>1
<1>3. PICK m \in S : \A k \in S : m <= k
  BY <1>2, LeastElement
<1>4. /\ m \in i .. Len(d) /\ d[m] \in cs \cup {NUL}
      /\ \A k \in i .. m - 1 : d[k] \notin cs \cup {NUL}
  <2>1. ASSUME NEW k \in i .. m - 1
        PROVE  k \in i .. Len(d) /\ ~(m <= k)
    BY <1>1, <1>3, <2>1
  <2> QED
    BY <1>3, <2>1
<1> QED
  BY <1>4 DEF FirstIn

LEMMA PastWhitespaceFinds ==
  ASSUME NEW d, Buffer(d), NEW i \in 1 .. Len(d)
  PROVE  LET j == PastWhitespace(d, i)
         IN  /\ j \in i .. Len(d) /\ d[j] \notin Whitespace
             /\ \A k \in i .. j - 1 : d[k] \in Whitespace
<1> DEFINE j == PastWhitespace(d, i)
<1>1. /\ j \in i .. Len(d) /\ d[j] \in (Chars \ Whitespace) \cup {NUL}
      /\ \A k \in i .. j - 1 : d[k] \notin (Chars \ Whitespace) \cup {NUL}
  BY FirstInFinds DEF PastWhitespace
<1> HIDE DEF j
<1>2. NUL \notin Whitespace
  BY LexerAssumption DEF Chars
<1>3. \A k \in i .. j - 1 : d[k] \in Chars \cup {NUL}
  <2>1. \A k \in i .. j - 1 : k \in 1 .. Len(d)
    BY <1>1 DEF Buffer
  <2> QED
    BY <2>1 DEF Buffer
<1>4. /\ j \in i .. Len(d) /\ d[j] \notin Whitespace
      /\ \A k \in i .. j - 1 : d[k] \in Whitespace
  BY <1>1, <1>2, <1>3
<1> QED
  BY <1>4 DEF j

-----------------------------------------------------------------------------
(***************************************************************************)
(* The loop of lex_token over white space and comments.                    *)
(***************************************************************************)

\* It goes on further right.
LEMMA SkipTurnMovesOn ==
  ASSUME NEW d, Buffer(d), NEW k \in 1 .. Len(d), NEW f, NEW g,
         \A n \in k + 1 .. Len(d) : f[n] = g[n]
  PROVE  SkipTurn(d, f, k) = SkipTurn(d, g, k)
<1> DEFINE j == PastWhitespace(d, k)
           n == FirstIn(d, j, {Newline})
<1>1. j \in k .. Len(d)
  BY PastWhitespaceFinds
<1> HIDE DEF j
<1>2. j \in 1 .. Len(d) /\ Len(d) \in Nat
  BY <1>1 DEF Buffer
<1>3. n \in j .. Len(d) /\ d[n] \in {Newline, NUL}
  BY <1>2, FirstInFinds
<1> HIDE DEF n
<1>4. d[j] \in Comment => n # j
  BY <1>3, LexerAssumption DEF Chars
<1>5. d[j] \in Comment => f[n] = g[n]
  <2> HAVE d[j] \in Comment
  <2>1. n \in k + 1 .. Len(d)
    BY <1>1, <1>2, <1>3, <1>4
  <2> QED
    BY <2>1
<1> QED
  BY <1>5 DEF SkipTurn, j, n

LEMMA LoopDefined ==
  ASSUME NEW d, Buffer(d)
  PROVE  \E f : f = [k \in 1 .. Len(d) |-> SkipTurn(d, f, k)]
<1> DEFINE L == Len(d)
           Upto(f, m) == \A k \in L - m + 1 .. L : f[k] = SkipTurn(d, f, k)
           S == {m \in 0 .. L : ~ \E f : Upto(f, m)}
<1>1. L \in Nat
  BY DEF Buffer
<1> HIDE DEF L
<1>2. S = {}
  <2> SUFFICES ASSUME S # {} PROVE FALSE
    OBVIOUS
  <2>1. S \in SUBSET Nat
    OBVIOUS
  <2>2. PICK m \in S : \A k \in S : m <= k
    BY <2>1, LeastElement
  <2>3. m \in 0 .. L /\ ~ \E f : Upto(f, m)
    OBVIOUS
  <2>4. m # 0
    <3>1. \A f : Upto(f, 0)
      BY <1>1
    <3> QED
      BY <2>3, <3>1
  <2>5. m - 1 \in 0 .. L /\ m - 1 \notin S
    BY <1>1, <2>2, <2>3, <2>4
  <2>6. PICK f : Upto(f, m - 1)
    BY <2>5
  <2> DEFINE h == L - m + 1
             g == [k \in 1 .. L |-> IF k = h THEN SkipTurn(d, f, k) ELSE f[k]]
  <2>7. h \in 1 .. L /\ L - (m - 1) + 1 = h + 1
    BY <1>1, <2>3, <2>4
  <2>8. \A k \in h + 1 .. L : g[k] = f[k]
    BY <1>1, <2>7
  <2>9. \A k \in h .. L : SkipTurn(d, g, k) = SkipTurn(d, f, k)
    <3> TAKE k \in h .. L
    <3>1. k \in 1 .. Len(d) /\ \A n \in k + 1 .. Len(d) : n \in h + 1 .. L
      BY <1>1, <2>7 DEF L
    <3>2. \A n \in k + 1 .. Len(d) : g[n] = f[n]
      BY <2>8, <3>1
    <3> HIDE DEF g
    <3> QED
      BY <3>1, <3>2, SkipTurnMovesOn
  <2>10. Upto(g, m)
    <3> SUFFICES ASSUME NEW k \in h .. L PROVE g[k] = SkipTurn(d, g, k)
      OBVIOUS
    <3>1. g[k] = SkipTurn(d, f, k)
      <4>1. CASE k = h
        BY <2>7, <4>1
      <4>2. CASE k # h
        <5>1. k \in h + 1 .. L
          BY <1>1, <2>7, <4>2
        <5> QED
          BY <2>6, <2>7, <2>8, <5>1
      <4> QED
        BY <4>1, <4>2
    <3> QED
      BY <2>9, <3>1
  <2> QED
    BY <2>3, <2>10
<1>3. PICK f : Upto(f, L)
  BY <1>1, <1>2
<1> DEFINE g == [k \in 1 .. L |-> f[k]]
<1>4. L - L + 1 = 1
  BY <1>1
<1>5. ASSUME NEW k \in 1 .. L
      PROVE  f[k] = SkipTurn(d, g, k)
  <2>1. \A n \in k + 1 .. Len(d) : f[n] = g[n]
    BY <1>1 DEF L
  <2>2. k \in 1 .. Len(d)
    BY DEF L
  <2> HIDE DEF g
  <2>3. SkipTurn(d, f, k) = SkipTurn(d, g, k)
    BY <2>1, <2>2, SkipTurnMovesOn
  <2> QED
    BY <1>3, <1>4, <2>3
<1>6. g = [k \in 1 .. L |-> SkipTurn(d, g, k)]
  BY <1>5
<1> QED
  BY <1>6 DEF L

\* TokenStart is one turn of the loop and then the rest of it.
LEMMA TokenStartTurn ==
  ASSUME NEW d, Buffer(d), NEW i \in 1 .. Len(d)
  PROVE  LET j == PastWhitespace(d, i)
             n == FirstIn(d, j, {Newline})
         IN  TokenStart(d, i) = CASE d[j] \notin Comment -> j
                                  [] d[j] \in Comment /\ d[n] # NUL -> TokenStart(d, n)
                                  [] OTHER -> 0
<1> DEFINE start == CHOOSE f : f = [k \in 1 .. Len(d) |-> SkipTurn(d, f, k)]
<1>1. start = [k \in 1 .. Len(d) |-> SkipTurn(d, start, k)]
  BY LoopDefined
<1>2. \A k : TokenStart(d, k) = start[k]
  BY DEF TokenStart
<1> HIDE DEF start
<1>3. start[i] = SkipTurn(d, start, i)
  BY <1>1
<1> QED
  BY <1>2, <1>3 DEF SkipTurn

\* White space and comments of a buffer (Blank is this of the file).
BlankIn(d, i, j) ==
  \A p \in i .. j - 1 :
    \/ d[p] \in Whitespace
    \/ \E c \in i .. p : /\ d[c] \in Comment
                         /\ c = i \/ d[c - 1] \in Whitespace
                         /\ \A q \in c .. p : d[q] # Newline

\* Every comment of the range ends in it.
LinesEnd(d, i, j) ==
  \A p \in i .. j - 1 : d[p] \in Whitespace \/ \E n \in p .. j - 1 : d[n] = Newline

\* What lex_token finds: the next character that is in no blank, or a comment
\* that the end of the buffer ends.
StartFound(d, i, s) ==
  /\ s # 0 => /\ s \in i .. Len(d) /\ d[s] \notin Whitespace \cup Comment
              /\ BlankIn(d, i, s) /\ LinesEnd(d, i, s)
  /\ s = 0 => \E c \in i .. Len(d) : /\ d[c] \in Comment
                                     /\ \A q \in c .. Len(d) : d[q] # Newline

LEMMA StartFoundTurn ==
  ASSUME NEW d, Buffer(d), NEW i \in 1 .. Len(d), \A k \in i .. Len(d) - 1 : d[k] # NUL,
         \A n \in i + 1 .. Len(d) : StartFound(d, n, TokenStart(d, n))
  PROVE  StartFound(d, i, TokenStart(d, i))
<1> DEFINE L == Len(d)
           j == PastWhitespace(d, i)
           n == FirstIn(d, j, {Newline})
           s == TokenStart(d, i)
<1>1. L \in Nat /\ d[L] = NUL
  BY DEF Buffer
<1>2. /\ NUL \notin Whitespace \cup Comment
      /\ Newline \notin Comment /\ Newline # NUL /\ Newline \in Whitespace
  BY LexerAssumption DEF Chars
<1>3. /\ j \in i .. L /\ d[j] \notin Whitespace
      /\ \A k \in i .. j - 1 : d[k] \in Whitespace
  BY PastWhitespaceFinds
<1>4. s = CASE d[j] \notin Comment -> j
            [] d[j] \in Comment /\ d[n] # NUL -> TokenStart(d, n)
            [] OTHER -> 0
  BY TokenStartTurn
<1> HIDE DEF j, s
<1>5. j \in 1 .. Len(d)
  BY <1>1, <1>3
<1>6. /\ n \in j .. L /\ d[n] \in {Newline, NUL}
      /\ \A k \in j .. n - 1 : d[k] \notin {Newline, NUL}
  BY <1>5, FirstInFinds
<1> HIDE DEF n
<1>7. CASE d[j] \notin Comment
  <2>1. s = j
    BY <1>4, <1>7
  <2>2. BlankIn(d, i, s) /\ LinesEnd(d, i, s)
    BY <1>3, <2>1 DEF BlankIn, LinesEnd
  <2> QED
    BY <1>1, <1>3, <1>7, <2>1, <2>2 DEF StartFound, s
<1>8. CASE d[j] \in Comment /\ d[n] # NUL
  <2>1. s = TokenStart(d, n) /\ d[n] = Newline /\ n # j
    BY <1>2, <1>4, <1>6, <1>8
  <2>2. n \in i + 1 .. L
    BY <1>1, <1>3, <1>6, <2>1
  <2>3. StartFound(d, n, s)
    BY <2>1, <2>2
  <2>4. CASE s = 0
    <3>1. PICK c \in n .. L : d[c] \in Comment /\ \A q \in c .. L : d[q] # Newline
      BY <2>3, <2>4 DEF StartFound
    <3>2. c \in i .. L
      BY <1>1, <2>2, <3>1
    <3> QED
      BY <2>4, <3>1, <3>2 DEF StartFound, s
  <2>5. CASE s # 0
    <3>1. /\ s \in n .. L /\ d[s] \notin Whitespace \cup Comment
          /\ BlankIn(d, n, s) /\ LinesEnd(d, n, s)
      BY <2>3, <2>5 DEF StartFound
    <3>2. s \in i .. L /\ n <= s - 1
      <4>1. s # n
        BY <1>2, <2>1, <3>1
      <4> QED
        BY <1>1, <2>2, <3>1, <4>1
    <3>3. BlankIn(d, i, s)
      <4> SUFFICES ASSUME NEW p \in i .. s - 1, d[p] \notin Whitespace
                   PROVE  \E c \in i .. p : /\ d[c] \in Comment
                                            /\ c = i \/ d[c - 1] \in Whitespace
                                            /\ \A q \in c .. p : d[q] # Newline
        BY DEF BlankIn
      <4>1. CASE p < n
        <5>1. p >= j
          BY <1>1, <1>3, <3>2
        <5>2. j \in i .. p /\ \A q \in j .. p : q \in j .. n - 1
          BY <1>1, <1>3, <1>6, <3>2, <4>1, <5>1
        <5>3. j = i \/ j - 1 \in i .. j - 1
          BY <1>1, <1>3
        <5> QED
          BY <1>3, <1>6, <1>8, <5>2, <5>3
      <4>2. CASE p >= n
        <5>1. p \in n .. s - 1
          BY <3>2, <4>2
        <5>2. PICK c \in n .. p : /\ d[c] \in Comment
                                  /\ c = n \/ d[c - 1] \in Whitespace
                                  /\ \A q \in c .. p : d[q] # Newline
          BY <3>1, <5>1 DEF BlankIn
        <5>3. c # n
          BY <1>2, <2>1, <5>2
        <5>4. c \in i .. p
          BY <1>1, <2>2, <5>2
        <5> QED
          BY <5>2, <5>3, <5>4
      <4> QED
        BY <1>1, <2>2, <3>2, <4>1, <4>2
    <3>4. LinesEnd(d, i, s)
      <4> SUFFICES ASSUME NEW p \in i .. s - 1
                   PROVE  d[p] \in Whitespace \/ \E m \in p .. s - 1 : d[m] = Newline
        BY DEF LinesEnd
      <4>1. CASE p < n
        <5>1. n \in p .. s - 1
          BY <1>1, <2>2, <3>2, <4>1
        <5> QED
          BY <2>1, <5>1
      <4>2. CASE p >= n
        <5>1. p \in n .. s - 1
          BY <3>2, <4>2
        <5> QED
          BY <3>1, <5>1 DEF LinesEnd
      <4> QED
        BY <1>1, <2>2, <3>2, <4>1, <4>2
    <3> QED
      BY <2>5, <3>1, <3>2, <3>3, <3>4 DEF StartFound, s
  <2> QED
    BY <2>4, <2>5
<1>9. CASE d[j] \in Comment /\ d[n] = NUL
  <2>1. s = 0
    BY <1>4, <1>9
  <2>2. n = L
    BY <1>1, <1>3, <1>6, <1>9
  <2>3. j \in i .. L /\ \A q \in j .. L : d[q] # Newline
    BY <1>1, <1>2, <1>3, <1>6, <1>9, <2>2
  <2> QED
    BY <1>9, <2>1, <2>3 DEF StartFound, s
<1> QED
  BY <1>7, <1>8, <1>9

LEMMA TokenStartFinds ==
  ASSUME NEW d, Buffer(d), NEW i \in 1 .. Len(d), \A k \in i .. Len(d) - 1 : d[k] # NUL
  PROVE  StartFound(d, i, TokenStart(d, i))
<1> DEFINE L == Len(d)
           Fine(k) == StartFound(d, k, TokenStart(d, k))
           S == {m \in 0 .. L - i : ~Fine(L - m)}
<1>1. L \in Nat
  BY DEF Buffer
<1> HIDE DEF L, Fine
<1>2. S = {}
  <2> SUFFICES ASSUME S # {} PROVE FALSE
    OBVIOUS
  <2>1. S \in SUBSET Nat
    OBVIOUS
  <2>2. PICK m \in S : \A k \in S : m <= k
    BY <2>1, LeastElement
  <2>3. m \in 0 .. L - i /\ ~Fine(L - m)
    OBVIOUS
  <2> DEFINE h == L - m
  <2>4. h \in i .. L /\ h \in 1 .. L
    BY <1>1, <2>3 DEF L
  <2>5. ASSUME NEW n \in h + 1 .. L PROVE Fine(n)
    <3>1. L - n \in 0 .. L - i /\ ~(m <= L - n) /\ L - (L - n) = n
      BY <1>1, <2>3, <2>4
    <3>2. L - n \notin S
      BY <2>2, <3>1
    <3> QED
      BY <3>1, <3>2
  <2>6. \A k \in h .. Len(d) - 1 : d[k] # NUL
    BY <1>1, <2>4 DEF L
  <2> HIDE DEF h
  <2>7. Fine(h)
    BY <2>4, <2>5, <2>6, StartFoundTurn DEF Fine, L
  <2> QED
    BY <2>3, <2>7 DEF h
<1>3. L - i \in 0 .. L - i /\ L - (L - i) = i
  BY <1>1 DEF L
<1>4. Fine(i)
  BY <1>2, <1>3
<1> QED
  BY <1>4 DEF Fine
-----------------------------------------------------------------------------
(***************************************************************************)
(* The invariant.                                                          *)
(***************************************************************************)

\* While the parser runs, the lexer stands behind the current token, or behind
\* the white space at the beginning of the file.
Standing ==
  Lexing => IF tok = NoToken THEN prev = NoToken /\ \A p \in 1 .. pos - 1 : file[p] \in Whitespace
                             ELSE pos = EndOf(tok)

\* The buffer ends in a NUL, and what is still to be lexed is the file.
Unread == data[Len(data)] = NUL /\ \A p \in pos .. Len(file) : data[p] = file[p]

LexInv ==
  /\ TypeOK
  /\ Standing
  /\ Unread
  /\ NothingSkipped
  /\ TokensAreWords
  /\ OnlyLastTokenOverwritten
  /\ CrashesOnlyAtComments

LEMMA InvBuffer ==
  ASSUME LexInv
  PROVE  /\ Buffer(data) /\ Len(data) = Len(file) + 1 /\ Len(file) \in Nat
         /\ pos \in 1 .. Len(data)
         /\ \A p \in 1 .. Len(file) : file[p] \in Chars /\ file[p] # NUL
         /\ \A p \in pos .. Len(data) - 1 : data[p] = file[p] /\ data[p] # NUL
<1>1. /\ file \in Seq(Chars)
      /\ data \in Seq(Chars \cup {NUL}) /\ Len(data) = Len(file) + 1
      /\ pos \in 1 .. Len(data) /\ data[Len(data)] = NUL
      /\ \A p \in pos .. Len(file) : data[p] = file[p]
  BY DEF LexInv, TypeOK, Unread
<1>2. Len(file) \in Nat /\ \A p \in 1 .. Len(file) : file[p] \in Chars
  BY <1>1
<1>3. NUL \notin Chars
  BY LexerAssumption
<1>4. Len(data) - 1 = Len(file)
  BY <1>1, <1>2
<1>5. \A p \in pos .. Len(data) - 1 : p \in 1 .. Len(file)
  BY <1>1, <1>2
<1> QED
  BY <1>1, <1>2, <1>3, <1>4, <1>5 DEF Buffer

LEMMA BlankInFile ==
  ASSUME NEW d, NEW i \in Nat, NEW j \in Nat, BlankIn(d, i, j),
         \A p \in i .. j - 1 : d[p] = file[p]
  PROVE  Blank(i, j)
<1> SUFFICES ASSUME NEW p \in i .. j - 1, file[p] \notin Whitespace
             PROVE  \E c \in i .. p : /\ file[c] \in Comment
                                      /\ c = i \/ file[c - 1] \in Whitespace
                                      /\ \A q \in c .. p : file[q] # Newline
  BY DEF Blank
<1>1. PICK c \in i .. p : /\ d[c] \in Comment
                          /\ c = i \/ d[c - 1] \in Whitespace
                          /\ \A q \in c .. p : d[q] # Newline
  BY DEF BlankIn
<1>2. c \in i .. j - 1 /\ \A q \in c .. p : q \in i .. j - 1
  OBVIOUS
<1>3. c = i \/ c - 1 \in i .. j - 1
  OBVIOUS
<1> QED
  BY <1>1, <1>2, <1>3

\* White space before a blank is part of it.
LEMMA BlankFromStart ==
  ASSUME NEW i \in Nat, i >= 1, NEW j \in Nat, Blank(i, j), \A p \in 1 .. i - 1 : file[p] \in Whitespace
  PROVE  Blank(1, j)
<1> SUFFICES ASSUME NEW p \in 1 .. j - 1, file[p] \notin Whitespace
             PROVE  \E c \in 1 .. p : /\ file[c] \in Comment
                                      /\ c = 1 \/ file[c - 1] \in Whitespace
                                      /\ \A q \in c .. p : file[q] # Newline
  BY DEF Blank
<1>1. p \in i .. j - 1
  OBVIOUS
<1>2. PICK c \in i .. p : /\ file[c] \in Comment
                          /\ c = i \/ file[c - 1] \in Whitespace
                          /\ \A q \in c .. p : file[q] # Newline
  BY <1>1 DEF Blank
<1>3. c \in 1 .. p /\ (c = i => c = 1 \/ c - 1 \in 1 .. i - 1)
  OBVIOUS
<1> QED
  BY <1>2, <1>3

\* Where the next token begins, and what is before it.
LEMMA NextFound ==
  ASSUME LexInv
  PROVE  /\ NextAt # 0 =>
              /\ NextAt \in pos .. Len(data) /\ data[NextAt] \notin Whitespace \cup Comment
              /\ LinesEnd(data, pos, NextAt)
              /\ data[NextAt] = NUL <=> NextAt = Len(data)
              /\ Blank(pos, NextAt)
              /\ Lexing /\ tok = NoToken => Blank(1, NextAt)
         /\ NextAt = 0 => \E c \in DOMAIN file : /\ file[c] \in Comment
                                                 /\ \A q \in c .. Len(file) : file[q] # Newline
<1> DEFINE s == NextAt
<1>1. /\ Buffer(data) /\ Len(data) = Len(file) + 1 /\ Len(file) \in Nat
      /\ pos \in 1 .. Len(data)
      /\ \A p \in pos .. Len(data) - 1 : data[p] = file[p] /\ data[p] # NUL
  BY InvBuffer
<1>2. StartFound(data, pos, s)
  BY <1>1, TokenStartFinds DEF NextAt
<1> HIDE DEF s
<1>3. ASSUME s # 0
      PROVE  /\ s \in pos .. Len(data) /\ data[s] \notin Whitespace \cup Comment
             /\ LinesEnd(data, pos, s) /\ BlankIn(data, pos, s)
  BY <1>2, <1>3 DEF StartFound
<1>4. ASSUME s # 0
      PROVE  data[s] = NUL <=> s = Len(data)
  <2>1. s = Len(data) \/ s \in pos .. Len(data) - 1
    BY <1>1, <1>3, <1>4
  <2> QED
    BY <1>1, <2>1 DEF Buffer
<1>5. ASSUME s # 0
      PROVE  Blank(pos, s)
  <2>1. pos \in Nat /\ s \in Nat /\ \A p \in pos .. s - 1 : p \in pos .. Len(data) - 1
    BY <1>1, <1>3, <1>5
  <2> QED
    BY <1>1, <1>3, <1>5, <2>1, BlankInFile
<1>6. ASSUME s # 0, Lexing, tok = NoToken
      PROVE  Blank(1, s)
  <2>1. pos \in Nat /\ pos >= 1 /\ s \in Nat
    BY <1>1, <1>3, <1>6
  <2>2. \A p \in 1 .. pos - 1 : file[p] \in Whitespace
    BY <1>6 DEF LexInv, Standing
  <2> QED
    BY <1>5, <1>6, <2>1, <2>2, BlankFromStart
<1>7. ASSUME s = 0
      PROVE  \E c \in DOMAIN file : /\ file[c] \in Comment
                                    /\ \A q \in c .. Len(file) : file[q] # Newline
  <2>1. PICK c \in pos .. Len(data) : /\ data[c] \in Comment
                                      /\ \A q \in c .. Len(data) : data[q] # Newline
    BY <1>2, <1>7 DEF StartFound
  <2>2. c # Len(data)
    BY <1>1, <2>1, LexerAssumption DEF Buffer, Chars
  <2>3. /\ c \in pos .. Len(data) - 1 /\ c \in 1 .. Len(file)
        /\ \A q \in c .. Len(file) : q \in pos .. Len(data) - 1 /\ q \in c .. Len(data)
    BY <1>1, <2>1, <2>2
  <2>4. DOMAIN file = 1 .. Len(file)
    BY DEF LexInv, TypeOK
  <2> QED
    BY <1>1, <2>1, <2>3, <2>4
<1> QED
  BY <1>3, <1>4, <1>5, <1>6, <1>7 DEF s

\* A token is left only while the buffer is as it was read.
LEMMA Untouched ==
  ASSUME LexInv, MoreTokens
  PROVE  \A p \in 1 .. Len(file) : data[p] = file[p]
<1> SUFFICES ASSUME NEW p \in 1 .. Len(file), data[p] # file[p]
             PROVE  FALSE
  OBVIOUS
<1> DEFINE s == NextAt
<1>1. /\ Len(data) = Len(file) + 1 /\ Len(file) \in Nat
      /\ pos \in 1 .. Len(data)
      /\ \A k \in pos .. Len(data) - 1 : data[k] = file[k] /\ data[k] # NUL
  BY InvBuffer
<1>2. DOMAIN file = 1 .. Len(file)
  BY DEF LexInv, TypeOK
<1>3. p = tok.start /\ Blank(EndOf(tok), Len(data))
  BY <1>2 DEF LexInv, OnlyLastTokenOverwritten
<1>4. tok # NoToken /\ pos = EndOf(tok)
  <2>1. tok # NoToken
    BY <1>3 DEF NoToken, Token
  <2> QED
    BY <2>1 DEF LexInv, Standing, MoreTokens
<1>5. /\ s \in pos .. Len(data) /\ data[s] \notin Whitespace \cup Comment
      /\ LinesEnd(data, pos, s) /\ s # Len(data)
  BY NextFound DEF MoreTokens
<1> HIDE DEF s
<1>6. s \in pos .. Len(data) - 1 /\ data[s] = file[s]
  BY <1>1, <1>5
<1>7. PICK c \in pos .. s : file[c] \in Comment /\ \A q \in c .. s : file[q] # Newline
  BY <1>3, <1>4, <1>5, <1>6 DEF Blank
<1>8. c \in pos .. s - 1 /\ \A q \in c .. s - 1 : q \in pos .. Len(data) - 1
  <2>1. c # s
    BY <1>5, <1>6, <1>7
  <2> QED
    BY <1>1, <1>6, <1>7, <2>1
<1>9. c \in pos .. Len(data) - 1 /\ \A q \in c .. s - 1 : q \in c .. s
  BY <1>1, <1>6, <1>8
<1>10. data[c] \notin Whitespace
  BY <1>1, <1>7, <1>9, LexerAssumption
<1>11. PICK n \in c .. s - 1 : data[n] = Newline
  BY <1>5, <1>8, <1>10 DEF LinesEnd
<1> QED
  BY <1>1, <1>7, <1>8, <1>9, <1>11

-----------------------------------------------------------------------------
(* The steps. *)

\* A token where the next one begins, in the buffer and a word of it.
NextToken(t) ==
  /\ t \in [start : Nat, len : Nat]
  /\ t.start = NextAt /\ EndOf(t) \in t.start + 1 .. Len(data)
  /\ \A p \in t.start .. EndOf(t) - 1 : data[p] \notin Whitespace
  /\ \/ Text(data, t) \in Operators
     \/ t.len = 1 /\ data[t.start] \in Delims
     \/ /\ \A p \in t.start .. EndOf(t) - 1 : data[p] \notin Delims
        /\ data[EndOf(t)] \in Delims \cup {NUL}

\* The text of a token, character by character.
LEMMA TextIs ==
  ASSUME NEW S, NEW d \in Seq(S), NEW t \in [start : Nat, len : Nat],
         t.start >= 1, EndOf(t) <= Len(d) + 1
  PROVE  /\ Text(d, t) \in Seq(S) /\ Len(Text(d, t)) = t.len
         /\ \A i \in 1 .. t.len : Text(d, t)[i] = d[t.start + i - 1]
<1>1. t.start \in 1 .. Len(d) + 1 /\ EndOf(t) - 1 \in t.start - 1 .. Len(d)
      /\ EndOf(t) - 1 - t.start + 1 = t.len /\ Len(d) \in Nat /\ t.len \in Nat
  BY DEF EndOf
<1> DEFINE b == EndOf(t) - 1
<1> HIDE DEF b
<1>2. /\ SubSeq(d, t.start, b) \in Seq(S)
      /\ Len(SubSeq(d, t.start, b)) = IF t.start <= b THEN b - t.start + 1 ELSE 0
      /\ \A i \in 1 .. b - t.start + 1 : SubSeq(d, t.start, b)[i] = d[t.start + i - 1]
  BY <1>1, SubSeqProperties DEF b
<1> QED
  BY <1>1, <1>2 DEF Text, b

LEMMA TakeWord ==
  ASSUME LexInv, MoreTokens, NEW t, NextToken(t), tok' = t, UNCHANGED file
  PROVE  TokensAreWords'
<1> DEFINE n == Len(file)
           a == t.start
           b == EndOf(t)
           text == Text(file, t)
<1>1. /\ file \in Seq(Chars) /\ n \in Nat /\ data \in Seq(Chars \cup {NUL}) /\ Len(data) = n + 1
      /\ pos \in 1 .. Len(data)
  BY InvBuffer DEF LexInv, TypeOK
<1>2. \A p \in 1 .. n : data[p] = file[p] /\ file[p] # NUL
  BY InvBuffer, Untouched
<1>3. a \in pos .. Len(data)
  BY NextFound DEF MoreTokens, NextToken
<1>4. a \in 1 .. n /\ b \in a + 1 .. n + 1 /\ b - 1 \in a .. n /\ b = a + t.len /\ t.len \in Nat
  BY <1>1, <1>3 DEF NextToken, EndOf
<1>0. t \in [start : Nat, len : Nat] /\ t.start >= 1
      /\ EndOf(t) <= Len(data) + 1 /\ EndOf(t) <= Len(file) + 1
  BY <1>1, <1>4 DEF NextToken
<1>5. text = Text(data, t)
  <2>1. /\ text \in Seq(Chars \cup {NUL}) /\ Len(text) = t.len
        /\ \A i \in 1 .. t.len : text[i] = file[a + i - 1]
    <3>1. file \in Seq(Chars \cup {NUL})
      BY <1>1
    <3> QED
      BY <1>0, <3>1, TextIs
  <2>2. /\ Text(data, t) \in Seq(Chars \cup {NUL}) /\ Len(Text(data, t)) = t.len
        /\ \A i \in 1 .. t.len : Text(data, t)[i] = data[a + i - 1]
    BY <1>0, <1>1, TextIs
  <2>3. \A i \in 1 .. t.len : a + i - 1 \in 1 .. n
    BY <1>1, <1>4
  <2> HIDE DEF text
  <2>4. \A i \in 1 .. t.len : text[i] = Text(data, t)[i]
    BY <1>2, <2>1, <2>2, <2>3
  <2> QED
    BY <2>1, <2>2, <2>4, SeqEqual
<1>6. DOMAIN text = 1 .. t.len /\ Len(text) = t.len
      /\ \A i \in 1 .. t.len : text[i] = file[a + i - 1] /\ a + i - 1 \in a .. b - 1
                               /\ a + i - 1 \in 1 .. n
  <2>1. /\ text \in Seq(Chars) /\ Len(text) = t.len
        /\ \A i \in 1 .. t.len : text[i] = file[a + i - 1]
    BY <1>0, <1>1, TextIs
  <2>2. \A i \in 1 .. t.len : a + i - 1 \in a .. b - 1 /\ a + i - 1 \in 1 .. n
    BY <1>1, <1>4
  <2> HIDE DEF text
  <2> QED
    BY <2>1, <2>2
<1>7. \A i \in DOMAIN text : text[i] \notin Whitespace
  BY <1>2, <1>6 DEF NextToken
<1>8. \/ text \in Operators
      \/ Len(text) = 1 /\ text[1] \in Delims
      \/ /\ \A i \in DOMAIN text : text[i] \notin Delims
         /\ b <= n => file[b] \in Delims
  <2>1. CASE Text(data, t) \in Operators
    BY <1>5, <2>1
  <2>2. CASE t.len = 1 /\ data[a] \in Delims
    <3>1. text[1] = file[a + 1 - 1] /\ a + 1 - 1 = a
      BY <1>4, <1>6, <2>2
    <3> QED
      BY <1>2, <1>4, <1>6, <2>2, <3>1
  <2>3. CASE /\ \A p \in a .. b - 1 : data[p] \notin Delims
             /\ data[b] \in Delims \cup {NUL}
    <3>1. b <= n => b \in 1 .. n
      BY <1>1, <1>4
    <3> QED
      BY <1>2, <1>6, <2>3, <3>1
  <2> QED
    BY <2>1, <2>2, <2>3 DEF NextToken
<1> HIDE DEF text
<1>9. TokensAreWords' <=> (t # NoToken =>
        /\ \A i \in DOMAIN text : text[i] \notin Whitespace
        /\ \/ text \in Operators
           \/ Len(text) = 1 /\ text[1] \in Delims
           \/ /\ \A i \in DOMAIN text : text[i] \notin Delims
              /\ b <= n => file[b] \in Delims)
  BY DEF TokensAreWords, text
<1> QED
  BY <1>7, <1>8, <1>9

LEMMA TakeStep ==
  ASSUME LexInv, MoreTokens, NEW t, NextToken(t), Take(t), UNCHANGED << file, data, status >>
  PROVE  LexInv'
<1>1. /\ Len(data) = Len(file) + 1 /\ Len(file) \in Nat /\ pos \in 1 .. Len(data)
  BY InvBuffer
<1>2. t.start \in pos .. Len(data) /\ Blank(pos, t.start) /\ (tok = NoToken => Blank(1, t.start))
  BY NextFound DEF MoreTokens, NextToken
<1>3. /\ pos' = EndOf(t) /\ tok' = t /\ prev' = tok
      /\ file' = file /\ data' = data /\ status' = status
  BY DEF Take
<1>4. EndOf(t) \in t.start + 1 .. Len(data) /\ t # NoToken
  BY <1>1, <1>2 DEF NextToken, NoToken, Token
<1>5. status = "lexing" /\ (tok # NoToken => pos = EndOf(tok))
  BY DEF LexInv, Standing, MoreTokens, Lexing
<1>6. TypeOK'
  <2>1. tok # NoToken => tok.start \in 1 .. pos - 1 /\ EndOf(tok) \in tok.start + 1 .. pos
    BY DEF LexInv, TypeOK
  <2>2. tok # NoToken => tok.start \in 1 .. EndOf(t) - 1 /\ EndOf(tok) \in tok.start + 1 .. EndOf(t)
    BY <1>1, <1>2, <1>4, <2>1
  <2>3. t.start \in 1 .. EndOf(t) - 1 /\ EndOf(t) \in t.start + 1 .. EndOf(t) /\ EndOf(t) \in 1 .. Len(data)
    BY <1>1, <1>2, <1>4
  <2>4. EndOf(t)' = EndOf(t') /\ EndOf(tok)' = EndOf(tok')
    BY DEF EndOf
  <2>5. \A u \in {t, tok} \ {NoToken} : u.start \in 1 .. EndOf(t) - 1 /\ EndOf(u) \in u.start + 1 .. EndOf(t)
    BY <2>2, <2>3
  <2> QED
    BY <1>3, <2>3, <2>5 DEF TypeOK, LexInv, EndOf
<1>7. Standing'
  BY <1>3, <1>4 DEF Standing, Lexing, EndOf
<1>8. Unread'
  <2>1. \A p \in EndOf(t) .. Len(file) : p \in pos .. Len(file)
    BY <1>1, <1>2, <1>4
  <2> QED
    BY <1>3, <2>1 DEF Unread, LexInv
<1>9. NothingSkipped'
  <2>1. CASE tok = NoToken
    BY <1>1, <1>2, <1>3, <2>1 DEF NothingSkipped, Blank
  <2>2. CASE tok # NoToken
    BY <1>1, <1>2, <1>3, <1>5, <2>2 DEF NothingSkipped, Blank, EndOf
  <2> QED
    BY <2>1, <2>2
<1>10. TokensAreWords'
  BY <1>3, TakeWord
<1>11. OnlyLastTokenOverwritten'
  <2>1. DOMAIN file = 1 .. Len(file)
    BY DEF LexInv, TypeOK
  <2> QED
    BY <1>3, <2>1, Untouched DEF OnlyLastTokenOverwritten
<1>12. CrashesOnlyAtComments'
  BY <1>3, <1>5 DEF CrashesOnlyAtComments
<1> QED
  BY <1>6, <1>7, <1>8, <1>9, <1>10, <1>11, <1>12 DEF LexInv

\* The words lex_token gives.
LEMMA TokenAtNext ==
  ASSUME LexInv, MoreTokens
  PROVE  NextToken(TokenAt(data, NextAt))
<1> DEFINE s == NextAt
           b == FirstIn(data, s, Delims)
           t == TokenAt(data, s)
<1>1. /\ Buffer(data) /\ Len(data) = Len(file) + 1 /\ Len(file) \in Nat /\ pos \in 1 .. Len(data)
  BY InvBuffer
<1>2. /\ s \in pos .. Len(data) /\ data[s] \notin Whitespace /\ s # Len(data) /\ data[s] # NUL
  BY NextFound DEF MoreTokens
<1> HIDE DEF s
<1>3. s \in 1 .. Len(data) /\ s \in Nat
  BY <1>1, <1>2
<1>4. /\ b \in s .. Len(data) /\ data[b] \in Delims \cup {NUL}
      /\ \A k \in s .. b - 1 : data[k] \notin Delims \cup {NUL}
  BY <1>1, <1>3, FirstInFinds
<1>5. t = Token(s, IF b - s = 0 THEN 1 ELSE b - s)
  BY DEF TokenAt
<1> HIDE DEF b, t
<1>6. CASE b = s
  <2>1. t = [start |-> s, len |-> 1] /\ EndOf(t) = s + 1
    BY <1>3, <1>5, <1>6 DEF Token, EndOf
  <2>2. data[s] \in Delims
    BY <1>2, <1>4, <1>6
  <2>3. EndOf(t) \in s + 1 .. Len(data) /\ \A p \in s .. EndOf(t) - 1 : p = s
    BY <1>1, <1>2, <1>3, <2>1
  <2> QED
    BY <1>2, <1>3, <2>1, <2>2, <2>3 DEF NextToken, s, t
<1>7. CASE b # s
  <2>1. b - s \in Nat /\ b \in s + 1 .. Len(data)
    BY <1>1, <1>3, <1>4, <1>7
  <2>2. t = [start |-> s, len |-> b - s] /\ EndOf(t) = b
    BY <1>3, <1>5, <1>7, <2>1 DEF Token, EndOf
  <2> QED
    BY <1>3, <1>4, <2>1, <2>2, LexerAssumption DEF NextToken, s, t
<1> QED
  BY <1>6, <1>7 DEF s, t

\* The words the lookup of parse_binary_infix_op takes.
LEMMA ExtendedNext ==
  ASSUME LexInv, MoreTokens, Text(data, Extended(data, TokenAt(data, NextAt))) \in Operators
  PROVE  NextToken(Extended(data, TokenAt(data, NextAt)))
<1> DEFINE t == TokenAt(data, NextAt)
           u == Extended(data, t)
           e == EndOf(t)
           cs == (Chars \ Delims) \cup Whitespace
           stop == FirstIn(data, e, cs)
<1>1. /\ Buffer(data) /\ Len(data) = Len(file) + 1 /\ Len(file) \in Nat /\ pos \in 1 .. Len(data)
  BY InvBuffer
<1>2. NextAt \in pos .. Len(data)
  BY NextFound DEF MoreTokens
<1>3. NextToken(t)
  BY TokenAtNext
<1> HIDE DEF t
<1>4. /\ t.start = NextAt /\ t.start \in Nat /\ t.start >= 1
      /\ e \in t.start + 1 .. Len(data) /\ e \in 1 .. Len(data)
      /\ \A p \in t.start .. e - 1 : data[p] \notin Whitespace
  BY <1>1, <1>2, <1>3 DEF NextToken
<1> HIDE DEF e
<1>5. /\ stop \in e .. Len(data)
      /\ \A k \in e .. stop - 1 : data[k] \notin cs \cup {NUL}
  BY <1>1, <1>4, FirstInFinds
<1>6. u = Token(t.start, stop - t.start)
  BY DEF Extended, e
<1> HIDE DEF stop, u
<1>7. stop - t.start \in Nat /\ stop \in t.start + 1 .. Len(data)
  BY <1>1, <1>4, <1>5
<1>8. u = [start |-> t.start, len |-> stop - t.start] /\ EndOf(u) = stop
  BY <1>4, <1>6, <1>7 DEF Token, EndOf
<1>9. \A p \in t.start .. stop - 1 : data[p] \notin Whitespace
  <2> TAKE p \in t.start .. stop - 1
  <2>1. p \in t.start .. e - 1 \/ p \in e .. stop - 1
    BY <1>4, <1>5
  <2> QED
    BY <1>4, <1>5, <2>1
<1> QED
  BY <1>4, <1>7, <1>8, <1>9 DEF NextToken, u, t

\* The NUL over the current token at the end of the file.
LEMMA EndDataStep ==
  ASSUME LexInv, AtEnd, Given, EndData, UNCHANGED << file, tok, prev >>,
         \/ pos' = pos /\ status' = status
         \/ pos' = NextAt /\ status' = "ended"
  PROVE  LexInv'
<1>1. /\ Len(data) = Len(file) + 1 /\ Len(file) \in Nat /\ pos \in 1 .. Len(data)
      /\ data[Len(data)] = NUL /\ data \in Seq(Chars \cup {NUL})
      /\ \A p \in pos .. Len(file) : data[p] = file[p]
      /\ DOMAIN file = 1 .. Len(file)
  BY InvBuffer DEF Buffer, LexInv, TypeOK, Unread
<1>2. NextAt = Len(data) /\ Blank(pos, Len(data))
  BY NextFound DEF AtEnd
<1>3. status = "lexing" /\ tok # NoToken /\ pos = EndOf(tok)
  BY DEF LexInv, Standing, AtEnd, Lexing, Given
<1>4. /\ tok.start \in 1 .. pos - 1 /\ EndOf(tok) \in tok.start + 1 .. pos
      /\ prev # NoToken => prev.start \in 1 .. pos - 1 /\ EndOf(prev) \in prev.start + 1 .. pos
  BY <1>3 DEF LexInv, TypeOK
<1>5. /\ data' = [data EXCEPT ![tok.start] = NUL] /\ file' = file /\ tok' = tok /\ prev' = prev
  BY DEF EndData
<1>6. /\ data' \in Seq(Chars \cup {NUL}) /\ Len(data') = Len(data)
      /\ \A p \in 1 .. Len(data) : p # tok.start => data'[p] = data[p]
  BY <1>1, <1>4, <1>5
<1>7. pos' \in pos .. Len(data)
  BY <1>1, <1>2
<1>8. TypeOK'
  <2>1. \A t \in {tok, prev} \ {NoToken} : t.start \in 1 .. pos' - 1 /\ EndOf(t) \in t.start + 1 .. pos'
    BY <1>1, <1>4, <1>7
  <2>2. pos' \in 1 .. Len(data)
    BY <1>1, <1>7
  <2>3. status' \in {"lexing", "ended", "crashed"}
    BY <1>3
  <2>4. file \in Seq(Chars)
    BY DEF LexInv, TypeOK
  <2> QED
    BY <1>1, <1>5, <1>6, <2>1, <2>2, <2>3, <2>4 DEF TypeOK, EndOf
<1>9. Standing'
  BY <1>3, <1>5 DEF Standing, Lexing, EndOf
<1>10. Unread'
  <2>1. Len(data) # tok.start /\ \A p \in pos' .. Len(file) : p \in pos .. Len(file) /\ p # tok.start
                                                              /\ p \in 1 .. Len(data)
    BY <1>1, <1>4, <1>7
  <2>2. Len(data) \in 1 .. Len(data)
    BY <1>1
  <2> QED
    BY <1>1, <1>5, <1>6, <2>1, <2>2 DEF Unread
<1>11. NothingSkipped' /\ TokensAreWords'
  BY <1>5 DEF LexInv, NothingSkipped, TokensAreWords, Blank, Text, EndOf
<1>12. OnlyLastTokenOverwritten'
  <2>1. \A p \in 1 .. Len(file) : p \in 1 .. Len(data)
    BY <1>1
  <2>2. \A i \in DOMAIN file : data'[i] # file[i] =>
          i = tok.start \/ data[i] # file[i]
    BY <1>1, <1>6, <2>1
  <2>3. \A i \in DOMAIN file : data'[i] # file[i] => i = tok.start /\ Blank(EndOf(tok), Len(data))
    BY <1>2, <1>3, <2>2 DEF LexInv, OnlyLastTokenOverwritten
  <2> QED
    BY <1>5, <1>6, <2>3 DEF OnlyLastTokenOverwritten, Blank, EndOf
<1>13. CrashesOnlyAtComments'
  BY <1>3 DEF CrashesOnlyAtComments
<1> QED
  BY <1>8, <1>9, <1>10, <1>11, <1>12, <1>13 DEF LexInv

\* A step that leaves the lexer alone.
LEMMA LeaveStep ==
  ASSUME LexInv, UNCHANGED << file, data, pos, tok, prev >>, status' \in {status, "ended", "crashed"},
         CrashesOnlyAtComments'
  PROVE  LexInv'
<1>1. TypeOK'
  BY DEF LexInv, TypeOK, EndOf
<1>2. Standing' /\ Unread'
  <2>1. Lexing' => Lexing
    BY DEF Lexing
  <2> QED
    BY <2>1 DEF LexInv, Standing, Unread, EndOf
<1>3. NothingSkipped' /\ TokensAreWords'
  BY DEF LexInv, NothingSkipped, TokensAreWords, Blank, Text, EndOf
<1>4. OnlyLastTokenOverwritten'
  BY DEF LexInv, OnlyLastTokenOverwritten, Blank, EndOf
<1> QED
  BY <1>1, <1>2, <1>3, <1>4 DEF LexInv

LEMMA Unchanged ==
  ASSUME LexInv, UNCHANGED << file, data, pos, tok, prev >>, status' \in {status, "ended"}
  PROVE  LexInv'
<1>1. CrashesOnlyAtComments'
  BY DEF LexInv, CrashesOnlyAtComments, Blank
<1> QED
  BY <1>1, LeaveStep

LEMMA LexNullStep ==
  ASSUME LexInv, LexNull
  PROVE  LexInv'
<1>1. UNCHANGED << file, data, pos, tok, prev >> /\ status' = "crashed" /\ Lexing
  BY DEF LexNull
<1>2. CrashesOnlyAtComments'
  <2>1. CASE NextAt = 0
    BY <1>1, <2>1, NextFound DEF CrashesOnlyAtComments
  <2>2. CASE NextAt # 0 /\ AtEnd /\ ~Given
    <3>1. Blank(1, Len(data))
      BY <1>1, <2>2, NextFound DEF AtEnd, Given
    <3> QED
      BY <1>1, <3>1 DEF CrashesOnlyAtComments, Blank
  <2> QED
    BY <2>1, <2>2 DEF LexNull, AtEnd
<1> QED
  BY <1>1, <1>2, LeaveStep

LEMMA LexInvNext ==
  ASSUME LexInv, [Next]_vars
  PROVE  LexInv'
<1>1. CASE LexToken
  BY <1>1, TokenAtNext, TakeStep DEF LexToken
<1>2. CASE LexEndOfFile
  BY <1>2, EndDataStep DEF LexEndOfFile
<1>3. CASE LexNull
  BY <1>3, LexNullStep
<1>4. CASE CheckNextToken
  <2> DEFINE t == TokenAt(data, NextAt)
  <2>1. MoreTokens /\ UNCHANGED << file, data, status >> /\ (Take(t) \/ Leave)
    BY <1>4 DEF CheckNextToken
  <2>2. NextToken(t)
    BY <2>1, TokenAtNext
  <2> HIDE DEF t
  <2>3. CASE Take(t)
    BY <2>1, <2>2, <2>3, TakeStep
  <2>4. CASE Leave
    BY <2>1, <2>4, Unchanged DEF Leave
  <2> QED
    BY <2>1, <2>3, <2>4
<1>5. CASE CheckOperator
  <2> DEFINE t == Extended(data, TokenAt(data, NextAt))
  <2>1. /\ MoreTokens /\ UNCHANGED << file, data, status >>
        /\ IF Text(data, t) \in Operators THEN Take(t) ELSE Leave
    BY <1>5 DEF CheckOperator
  <2>2. Text(data, t) \in Operators => NextToken(t)
    BY <2>1, ExtendedNext
  <2> HIDE DEF t
  <2>3. CASE Text(data, t) \in Operators
    BY <2>1, <2>2, <2>3, TakeStep
  <2>4. CASE Text(data, t) \notin Operators
    BY <2>1, <2>4, Unchanged DEF Leave
  <2> QED
    BY <2>3, <2>4
<1>6. CASE CheckAtEnd
  BY <1>6, EndDataStep DEF CheckAtEnd, Leave
<1>7. CASE EndOfProgram
  BY <1>7, Unchanged DEF EndOfProgram
<1>8. CASE UNCHANGED vars
  BY <1>8, Unchanged DEF vars
<1> QED
  BY <1>1, <1>2, <1>3, <1>4, <1>5, <1>6, <1>7, <1>8 DEF Next, Lex, Stopped

LEMMA LexInvInit ==
  ASSUME Init
  PROVE  LexInv
<1>1. PICK n \in 0 .. MaxLen : file \in [1 .. n -> Chars]
  BY DEF Init
<1>2. n \in Nat /\ file \in Seq(Chars) /\ Len(file) = n
  BY <1>1, LexerAssumption
<1>3. data = Append(file, NUL) /\ file \in Seq(Chars \cup {NUL})
  BY <1>2 DEF Init
<1>4. /\ data \in Seq(Chars \cup {NUL}) /\ Len(data) = n + 1 /\ data[n + 1] = NUL
      /\ \A p \in 1 .. n : data[p] = file[p]
  BY <1>2, <1>3
<1>5. Buffer(data) /\ 1 \in 1 .. Len(data)
  BY <1>2, <1>4 DEF Buffer
<1>6. pos \in 1 .. Len(data) /\ \A k \in 1 .. pos - 1 : data[k] \in Whitespace
  BY <1>5, PastWhitespaceFinds DEF Init
<1>7. \A k \in 1 .. pos - 1 : k \in 1 .. n
  BY <1>2, <1>4, <1>6
<1>8. tok = NoToken /\ prev = NoToken /\ status \in {"ended", "lexing"} /\ NoToken.start = 0
  BY DEF Init, NoToken, Token
<1>9. Standing /\ Unread
  <2>1. \A p \in pos .. Len(file) : p \in 1 .. n
    BY <1>2, <1>4, <1>6
  <2> QED
    BY <1>2, <1>4, <1>6, <1>7, <1>8, <2>1 DEF Standing, Unread
<1>10. TypeOK
  BY <1>2, <1>4, <1>6, <1>8 DEF TypeOK
<1>11. NothingSkipped /\ TokensAreWords /\ CrashesOnlyAtComments
  BY <1>8 DEF NothingSkipped, TokensAreWords, CrashesOnlyAtComments
<1>12. OnlyLastTokenOverwritten
  BY <1>2, <1>4 DEF OnlyLastTokenOverwritten
<1> QED
  BY <1>9, <1>10, <1>11, <1>12 DEF LexInv

\* The lexer's own invariant: the parser stands behind the current token, and
\* what it has not lexed yet is the file as it was read.
THEOREM LexerInvariant == Spec => []LexInv
BY LexInvInit, LexInvNext, PTL DEF Spec

\* The position and the tokens stay in the buffer, before its NUL.
THEOREM LexerTypes == Spec => []TypeOK
<1>1. LexInv => TypeOK
  BY DEF LexInv
<1> QED
  BY <1>1, LexerInvariant, PTL

\* For every file, set of delimiters and order of takes and lookaheads: no
\* character is skipped and none is in two tokens.
THEOREM EveryCharacterLexed == Spec => []NothingSkipped
<1>1. LexInv => NothingSkipped
  BY DEF LexInv
<1> QED
  BY <1>1, LexerInvariant, PTL

\* Every token taken is a delimiter, an operator or a whole word.
THEOREM WholeWords == Spec => []TokensAreWords
<1>1. LexInv => TokensAreWords
  BY DEF LexInv
<1> QED
  BY <1>1, LexerInvariant, PTL

\* The NUL the lexer writes at the end of the file destroys nothing that is
\* still to be lexed.
THEOREM OverwritesLastTokenOnly == Spec => []OnlyLastTokenOverwritten
<1>1. LexInv => OnlyLastTokenOverwritten
  BY DEF LexInv
<1> QED
  BY <1>1, LexerInvariant, PTL

\* The lexer dereferences NULL for an empty file of blanks and for a comment
\* without an end of line, and for nothing else.
THEOREM CrashCases == Spec => []CrashesOnlyAtComments
<1>1. LexInv => CrashesOnlyAtComments
  BY DEF LexInv
<1> QED
  BY <1>1, LexerInvariant, PTL
=============================================================================
