----------------------------- MODULE MCCodeGen -----------------------------
EXTENDS CodeGen

MCParams == << "p", "q", "r", "s" >>
=============================================================================
