----------------------------- MODULE Operators -----------------------------
(***************************************************************************)
(* The binary operators of the language: the table that                    *)
(* create_default_parsing_context of parser.c fills with ast_add_binary_ops *)
(* and that the parser, the type checker and the code generator share.     *)
(***************************************************************************)
EXTENDS Naturals

BinaryOps == {"==", "<", ">", "<<", ">>", "+", "-", "*", "/", "%"}

\* The precedence each operator is added with.
Precedence == [op \in BinaryOps |->
                 CASE op \in {"==", "<", ">"} -> 3
                   [] op \in {"<<", ">>"}     -> 4
                   [] op \in {"+", "-"}       -> 5
                   [] op \in {"*", "/", "%"}  -> 10]
=============================================================================
