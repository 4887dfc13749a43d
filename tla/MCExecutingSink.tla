-------------------------- MODULE MCExecutingSink ---------------------------
EXTENDS ExecutingSink

(* A statement in one chunk and the newline after it, and a CREATE TABLE   *)
(* in three.                                                               *)
Plain == <<<<"sql", "end", "blank">>, <<"blank">>>>
Table == <<<<"sql", "blank">>, <<"sql">>, <<"blank", "end", "blank">>>>

PlainAndTable == {Plain, Table}
=============================================================================
