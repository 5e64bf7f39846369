------------------------------- MODULE Lexer -------------------------------
(***************************************************************************)
(* lexer.c on the buffer of the source file, and the ways in which         *)
(* parser.c uses it: a token is taken, the next one is compared with an    *)
(* expected one and taken if it is that, or it is extended over the        *)
(* delimiters behind it and taken if that makes an operator.  What the     *)
(* parser asks for next is left open.                                      *)
(***************************************************************************)
EXTENDS Naturals, Sequences, FiniteSets

CONSTANTS
  Delims,      \* DELIMS, white space included
  Whitespace,  \* WHITESPACE
  Comment,     \* COMMENTS_DELIMS
  Others,      \* all other characters, those of COMMENTS_DELIMS included
  Expected,    \* texts check_next_token is called with
  Operators,   \* the names of the operators
  MaxLen       \* bound: length of the file

VARIABLES
  file,    \* history: the file as it was read
  data,    \* the buffer with its contents and a terminating NUL
  pos,     \* file_data: the index of the next character
  tok,     \* curr_token
  prev,    \* history: the token before the current one
  status   \* of lex_and_parse

vars == << file, data, pos, tok, prev, status >>

NUL     == "NUL"
Newline == "eol"
Chars   == Delims \cup Others

ASSUME LexerAssumption ==
  /\ Whitespace \subseteq Delims /\ Newline \in Whitespace
  /\ Delims \cap Others = {} /\ Comment \subseteq Others /\ NUL \notin Chars
  /\ MaxLen \in Nat

-----------------------------------------------------------------------------
Token(start, length) == [start |-> start, len |-> length]
NoToken     == Token(0, 0)
EndOf(t)    == t.start + t.len
Text(d, t)  == SubSeq(d, t.start, EndOf(t) - 1)

\* The first index from i on with a character of cs.  The NUL is found if none is.
FirstIn(d, i, cs) ==
  CHOOSE j \in i .. Len(d) : /\ d[j] \in cs \cup {NUL}
                             /\ \A k \in i .. j - 1 : d[k] \notin cs \cup {NUL}

\* strspn over WHITESPACE.
PastWhitespace(d, i) == FirstIn(d, i, Chars \ Whitespace)

\* Seeded fault (see README.md): a comment must be followed by another line.
SkipTurnNeedsLine(d, start, k) ==
  LET j == PastWhitespace(d, k)
      n == FirstIn(d, j, {Newline})
  IN  CASE d[j] \notin Comment -> j
        [] d[j] \in Comment /\ n < Len(d) - 1 -> start[n]
        [] OTHER -> 0

\* One turn of the loop over white space and comments, at k, where start is
\* what the loop finds from the line behind the comment on.
SkipTurn(d, start, k) ==
  LET j == PastWhitespace(d, k)
      n == FirstIn(d, j, {Newline})
  IN  CASE d[j] \notin Comment -> j
        [] d[j] \in Comment /\ d[n] # NUL -> start[n]
        [] OTHER -> 0

\* The beginning of the next token; 0, the dereference of NULL, when a comment
\* has no end of line.
TokenStart(d, i) ==
  LET start[k \in 1 .. Len(d)] == SkipTurn(d, start, k) IN start[i]

\* Seeded fault: a token ends at white space only.
TokenAtToBlank(d, j) == Token(j, FirstIn(d, j, Whitespace) - j)

\* Seeded fault: a delimiter is a token of no characters.
TokenAtEmpty(d, j) == Token(j, FirstIn(d, j, Delims) - j)

\* A delimiter is a token; other characters are one up to the next delimiter.
TokenAt(d, j) ==
  LET begin == FirstIn(d, j, Delims) - j IN Token(j, IF begin = 0 THEN 1 ELSE begin)

-----------------------------------------------------------------------------
(***************************************************************************)
(* lex_token at the end of the file writes a NUL over the first character  *)
(* of the current token: parse_tokens takes that for the end of the file.  *)
(* Every use of the lexer begins with a lex_token, of the state or of a    *)
(* copy of it, and the copies share the buffer and the current token.      *)
(***************************************************************************)
Lexing == status = "lexing"
NextAt == TokenStart(data, pos)

MoreTokens == Lexing /\ NextAt # 0 /\ data[NextAt] # NUL
AtEnd      == Lexing /\ NextAt # 0 /\ data[NextAt] = NUL
Given      == tok # NoToken

Take(t) == pos' = EndOf(t) /\ tok' = t /\ prev' = tok
Leave   == UNCHANGED << pos, tok, prev >>

\* Seeded fault: the NUL is written where the lexing stands.
EndDataAtPos == data' = [data EXCEPT ![pos] = NUL]

EndData == data' = [data EXCEPT ![tok.start] = NUL]

\* The lex_token at the beginning of the loop of parse_tokens, and at the
\* places where any token may follow.
LexToken ==
  /\ MoreTokens
  /\ Take(TokenAt(data, NextAt))
  /\ UNCHANGED << file, data, status >>

\* The same at the end of the file: parse_tokens and lex_and_parse are done.
LexEndOfFile ==
  /\ AtEnd /\ Given
  /\ EndData /\ pos' = NextAt /\ status' = "ended"
  /\ UNCHANGED << file, tok, prev >>

\* There is no end of line, or no token to overwrite.
LexNull ==
  /\ Lexing
  /\ NextAt = 0 \/ (AtEnd /\ ~Given)
  /\ status' = "crashed"
  /\ UNCHANGED << file, data, pos, tok, prev >>

\* Seeded fault: only the token is restored when it is not the expected one.
CheckNextTokenMovesOn ==
  \E text \in Expected :
    /\ MoreTokens /\ Given
    /\ LET t == TokenAt(data, NextAt) IN
       IF Text(data, t) = text THEN Take(t) ELSE pos' = EndOf(t) /\ UNCHANGED << tok, prev >>
    /\ UNCHANGED << file, data, status >>

\* check_next_token: the token is taken if it is the expected one.
CheckNextToken ==
  \E text \in Expected :
    /\ MoreTokens /\ Given
    /\ LET t == TokenAt(data, NextAt) IN IF Text(data, t) = text THEN Take(t) ELSE Leave
    /\ UNCHANGED << file, data, status >>

\* The loop over token_end: the token and the delimiters right behind it.
Extended(d, t) ==
  LET stop == FirstIn(d, EndOf(t), (Chars \ Delims) \cup Whitespace)
  IN  Token(t.start, stop - t.start)

\* The lookup of parse_binary_infix_op.
CheckOperator ==
  /\ MoreTokens /\ Given
  /\ LET t == Extended(data, TokenAt(data, NextAt))
     IN  IF Text(data, t) \in Operators THEN Take(t) ELSE Leave
  /\ UNCHANGED << file, data, status >>

\* Either of them at the end of the file.
CheckAtEnd ==
  /\ AtEnd /\ Given
  /\ EndData
  /\ Leave
  /\ UNCHANGED << file, status >>

\* parse_tokens returns after a statement, and the loop of lex_and_parse ends.
EndOfProgram ==
  /\ Lexing /\ Given
  /\ data[pos] = NUL
  /\ status' = "ended"
  /\ UNCHANGED << file, data, pos, tok, prev >>

Stopped == ~Lexing /\ UNCHANGED vars

-----------------------------------------------------------------------------
\* lex_and_parse: white space is skipped, and an empty program is not parsed.
Init ==
  /\ \E n \in 0 .. MaxLen : file \in [1 .. n -> Chars]
  /\ data = Append(file, NUL)
  /\ pos = PastWhitespace(data, 1)
  /\ tok = NoToken /\ prev = NoToken
  /\ status = IF data[pos] = NUL THEN "ended" ELSE "lexing"

Lex  == LexToken \/ LexEndOfFile \/ LexNull
Next == Lex \/ CheckNextToken \/ CheckOperator \/ CheckAtEnd \/ EndOfProgram \/ Stopped

\* Between two turns of its loop, which begins with a lex_token, parse_tokens
\* asks a limited number of times what follows.
Spec == Init /\ [][Next]_vars /\ WF_vars(Lex)

-----------------------------------------------------------------------------
\* Every position and every token is in the buffer, before its NUL.
TypeOK ==
  /\ file \in Seq(Chars)
  /\ data \in Seq(Chars \cup {NUL}) /\ Len(data) = Len(file) + 1
  /\ pos \in 1 .. Len(data)
  /\ \A t \in {tok, prev} \ {NoToken} : t.start \in 1 .. pos - 1 /\ EndOf(t) \in t.start + 1 .. pos
  /\ status \in {"lexing", "ended", "crashed"}

(***************************************************************************)
(* White space and comments, which begin where a token could begin and end *)
(* with the line.                                                          *)
(***************************************************************************)
Blank(i, j) ==
  \A p \in i .. j - 1 :
    \/ file[p] \in Whitespace
    \/ \E c \in i .. p : /\ file[c] \in Comment
                         /\ c = i \/ file[c - 1] \in Whitespace
                         /\ \A q \in c .. p : file[q] # Newline

(***************************************************************************)
(* However taking tokens, looking ahead and looking for operators follow   *)
(* one another, no character of the program is skipped and none is in two  *)
(* tokens: from one token to the next there are only blanks (lex_token,    *)
(* check_next_token, parser.c:158-187).                                    *)
(***************************************************************************)
NothingSkipped ==
  tok # NoToken =>
    LET from == IF prev = NoToken THEN 1 ELSE EndOf(prev)
    IN  from <= tok.start /\ Blank(from, tok.start)

(***************************************************************************)
(* A token is one delimiter, or an operator, or a word: characters up to   *)
(* the next delimiter, and none of it is white space.                      *)
(***************************************************************************)
TokensAreWords ==
  tok # NoToken =>
    LET text == Text(file, tok) IN
    /\ \A i \in DOMAIN text : text[i] \notin Whitespace
    /\ \/ text \in Operators
       \/ Len(text) = 1 /\ text[1] \in Delims
       \/ /\ \A i \in DOMAIN text : text[i] \notin Delims
          /\ EndOf(tok) <= Len(file) => file[EndOf(tok)] \in Delims

(***************************************************************************)
(* The buffer is overwritten at the end of the file only: nowhere but in   *)
(* the current token, and only if nothing but blanks follows that.  All    *)
(* that is still to be lexed is as it was read (lexer.c:65-66, 83-90).     *)
(***************************************************************************)
OnlyLastTokenOverwritten ==
  \A i \in DOMAIN file :
    data[i] # file[i] => i = tok.start /\ Blank(EndOf(tok), Len(data))

(***************************************************************************)
(* The lexer dereferences NULL in two cases only: there is no token in the *)
(* file, or its last line ends in a comment and has no end of line         *)
(* (lexer.c:54-57, 66).                                                    *)
(***************************************************************************)
CrashesOnlyAtComments ==
  status = "crashed" =>
    \/ Blank(1, Len(data))
    \/ \E c \in DOMAIN file : file[c] \in Comment /\ \A q \in c .. Len(file) : file[q] # Newline

(***************************************************************************)
(* The parser gets to the end of every file: each lex_token takes at least *)
(* one character, also when the token is a delimiter (lexer.c:62).         *)
(***************************************************************************)
Termination == <>~Lexing
=============================================================================
