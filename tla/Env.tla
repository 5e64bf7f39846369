-------------------------------- MODULE Env --------------------------------
(***************************************************************************)
(* The identifier environments of env_funcs.c: a singly linked list of     *)
(* bindings, searched from its head.  Every scope of the compiler (types,  *)
(* variables, functions, operators, and the stack offsets of a code        *)
(* generation context) is such a list.  Here a list is a sequence of       *)
(* records [id, val].                                                      *)
(***************************************************************************)
EXTENDS Naturals, Sequences

EmptyEnv == << >>

Binding(id, val) == [id |-> id, val |-> val]

\* The positions of env bound to id.
Bound(env, id) == {i \in DOMAIN env : env[i].id = id}

First(S) == CHOOSE i \in S : \A j \in S : i <= j

(***************************************************************************)
(* set_env.  The loop that looks for an existing binding runs while        *)
(* temp->next_id_bind is not NULL, so it never compares the last binding:  *)
(* any other binding of id is overwritten in place, and an id that is      *)
(* unbound, or bound only by the last binding, is appended.                *)
(***************************************************************************)
SetEnv(env, id, val) ==
  LET seen == {i \in Bound(env, id) : i < Len(env)}
  IN  IF seen = {} THEN Append(env, Binding(id, val))
                   ELSE [env EXCEPT ![First(seen)].val = val]

(***************************************************************************)
(* get_env and get_env_from_sym: whether id is bound (their *stat), and    *)
(* the value of its first binding.                                         *)
(***************************************************************************)
IsBound(env, id) == Bound(env, id) # {}

GetEnv(env, id) == env[First(Bound(env, id))].val
=============================================================================
