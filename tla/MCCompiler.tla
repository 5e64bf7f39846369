----------------------------- MODULE MCCompiler -----------------------------
EXTENDS Compiler, TLC

\* Variables and functions.
MCCallTypes == {IntType, Fun0, Fun1}

\* Variables, pointers to them, arrays, and an array with a pointer level.
MCStorageTypes == {IntType, Type("int", 1), Type("array", 0), Type("array", 1)}

MCIntType == {IntType}

\* Names are only compared.
MCSymmetry == Permutations(Names)

\* Bound: the items of a program that has pointers or arrays.
MCTypedItems == 10

MCIsTyped(item) == \/ item.k \in {"addr", "deref", "index"}
                   \/ item.means.ty \notin {NoType, IntType, Fun0, Fun1}

MCBound == (\E i \in DOMAIN ast : MCIsTyped(ast[i])) => Len(ast) <= MCTypedItems
=============================================================================
