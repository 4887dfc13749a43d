-------------------------- MODULE MCDependencyOrder --------------------------
(* Three tables and one that a filter removed.                             *)
EXTENDS DependencyOrder

CONSTANTS a, b, c, ghost

ThreeTables == <<a, b, c>>
=============================================================================
