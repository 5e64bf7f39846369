----------------------------- MODULE ScopeTable -----------------------------
(***************************************************************************)
(* What nested scopes promise, whatever keeps them: a stack of tables, the *)
(* innermost last, in which a name means what the innermost table that     *)
(* declares it says.  ROAD_MAP.md:34-44 asks for "scoped identifier        *)
(* definitions", and ROAD_MAP.md:70-73 for a context that remembers its    *)
(* parent, "which will allow for parsing function bodies, and then         *)
(* returning back to where we left off".  BlockParser implements this      *)
(* specification.                                                          *)
(***************************************************************************)
EXTENDS Naturals, Sequences

CONSTANTS
  Names,     \* what can be declared
  Meanings,  \* what a name can be declared as
  Nothing    \* the result of a lookup before the first one

VARIABLES
  scopes,  \* the open scopes, innermost last: functions from names to meanings
  found    \* what the last lookup gave

table == << scopes, found >>

NoNames  == [x \in {} |-> Nothing]
Current  == scopes[Len(scopes)]
Outer    == SubSeq(scopes, 1, Len(scopes) - 1)

\* The open scopes that declare x.
Declaring(x) == {i \in DOMAIN scopes : x \in DOMAIN scopes[i]}

Innermost(x) == CHOOSE i \in Declaring(x) : \A j \in Declaring(x) : j <= i

Init == scopes = << NoNames >> /\ found = Nothing

Open == scopes' = Append(scopes, NoNames) /\ UNCHANGED found

\* The outermost scope is never closed.
Close == Len(scopes) > 1 /\ scopes' = Outer /\ UNCHANGED found

\* One scope ends where the next one begins.
Reopen == Len(scopes) > 1 /\ scopes' = Append(Outer, NoNames) /\ UNCHANGED found

\* A name is declared at most once in a scope.
Declare ==
  /\ \E x \in Names \ DOMAIN Current, meaning \in Meanings :
       scopes' = Append(Outer, [n \in DOMAIN Current \cup {x} |->
                                  IF n = x THEN meaning ELSE Current[n]])
  /\ UNCHANGED found

Lookup ==
  /\ \E x \in Names : /\ Declaring(x) # {}
                      /\ found' = scopes[Innermost(x)][x]
  /\ UNCHANGED scopes

Next == Open \/ Close \/ Reopen \/ Declare \/ Lookup

Spec == Init /\ [][Next]_table
=============================================================================
