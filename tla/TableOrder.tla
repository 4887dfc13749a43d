----------------------------- MODULE TableOrder -----------------------------
(***************************************************************************)
(* What topological_order promises its callers, without saying how: one    *)
(* answer, chosen among the valid orders of the tables, that never changes *)
(* once given.  DependencyOrder is shown to implement this specification;  *)
(* the modules that call topological_order and drop_order rely on it       *)
(* alone.                                                                  *)
(***************************************************************************)
EXTENDS ForeignKeyGraph

VARIABLES
  fk,       \* the foreign keys of the Database
  answered, \* has topological_order returned?
  answer    \* what it returned, << >> before

vars == <<fk, answered, answer>>

Init ==
  /\ fk \in ForeignKeys
  /\ ~answered
  /\ answer = << >>

Answer ==
  /\ ~answered
  /\ answered'
  /\ ValidOrder(fk, answer')
  /\ UNCHANGED fk

Spec == Init /\ [][Answer]_vars
=============================================================================
