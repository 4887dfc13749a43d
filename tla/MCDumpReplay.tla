---------------------------- MODULE MCDumpReplay ----------------------------
(* Dumps and replays of SmallDatabases.                                    *)
EXTENDS DumpReplayProofs, SmallDatabases
=============================================================================
