----------------------------- MODULE AtomicLoad -----------------------------
(***************************************************************************)
(* What a load promises about the target, whoever executes the script and  *)
(* however it fails: the statements of the script run one after the other  *)
(* on a working copy that nobody else sees, each accepted by the server,   *)
(* and the database others see changes only when all of them have run, to  *)
(* what they made of it.  MigrateDatabase and DumpReplay implement it.     *)
(***************************************************************************)
EXTENDS Naturals

CONSTANTS
  Accepts(_, _), \* does a server with this database accept this statement?
  After(_, _)    \* the database after an accepted statement

VARIABLES
  script,   \* the statements to run, fixed
  position, \* the next statement
  working,  \* the database as the session sees it
  durable   \* the database as others see it

vars == <<script, position, working, durable>>

Init ==
  /\ position = 1
  /\ working = durable

Run ==
  /\ position \in DOMAIN script
  /\ Accepts(working, script[position])
  /\ working' = After(working, script[position])
  /\ position' = position + 1
  /\ UNCHANGED <<script, durable>>

Publish ==
  /\ position \notin DOMAIN script
  /\ durable' = working
  /\ UNCHANGED <<script, position, working>>

Next == Run \/ Publish

Spec == Init /\ [][Next]_vars
=============================================================================
