------------------------------ MODULE MCLexer ------------------------------
EXTENDS Lexer

\* A bracket and a word: the punctuation the parser expects, and `else`.
MCExpected == {<< "(" >>, << "a", "a" >>}

\* Two operators of which one is the beginning of the other, as `<` and `<<` are.
MCOperators == {<< "<" >>, << "<", "<" >>}
=============================================================================
