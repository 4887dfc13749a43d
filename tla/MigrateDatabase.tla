-------------------------- MODULE MigrateDatabase ---------------------------
(***************************************************************************)
(* "db2sql migrate": Cli._execute_migrate (interface/cli/runner.py) enters *)
(* the target writer (infrastructure/writer), then an ExecutingSink, and   *)
(* runs MigrateDatabaseUseCase, which executes the script statement by     *)
(* statement; the context managers are left in the reverse order, with or  *)
(* without an exception, and the exception gives the exit code.            *)
(*                                                                         *)
(* Every step may fail: the connection, the reading of the source, the     *)
(* statements (refused, or lost with the connection), the COMMIT of which  *)
(* nobody can tell whether the server did it, and SIGINT or SIGTERM, which *)
(* raise SystemExit wherever the program is.                               *)
(***************************************************************************)
EXTENDS SqlScript

CONSTANTS
  Modes,        \* the --on-existing values considered
  Transactions, \* the --transaction values considered
  Graphs,       \* the foreign keys the source may have
  Targets(_)    \* the states the target may be in before, given those keys

ASSUME MigrationAssumption ==
  /\ Modes \subseteq {"fail", "drop", "truncate"}
  /\ Transactions \subseteq BOOLEAN
  /\ Graphs \subseteq ForeignKeys
  /\ \A refs \in Graphs : \A db \in Targets(refs) : IsDatabase(db)

VARIABLES
  job,      \* what this run is given: the request, the source and the target
  script,   \* what it has to execute: topological_order and the source decide
  stage,    \* where the program is
  raised,   \* the exception leaving the with blocks
  position, \* the next statement of script
  partial,  \* ExecutingSink._buffer holds the first lines of a CREATE TABLE
  depth,    \* transactions open on the connection: the driver's, then BEGIN's
  working,  \* the database as the writer's connection sees it
  durable   \* the database as others see it

vars == <<job, script, stage, raised, position, partial, depth, working, durable>>

Data == [Tables -> UNION {Read(t) : t \in Tables}]

Orders == [1..Len(Source) -> Tables]

(* The request, and what the source and topological_order will answer.     *)
Init ==
  /\ \E mode \in Modes, transaction \in Transactions, refs \in Graphs,
        data \in Data, order \in Orders :
       /\ \A t \in Tables : data[t] \in Read(t)
       /\ ValidOrder(refs, order)
       /\ \E before \in Targets(refs) :
            job = [mode |-> mode, transaction |-> transaction, refs |-> refs,
                   data |-> data, order |-> order, before |-> before]
  /\ script = Script(job.mode, job.refs, job.order, BulkLoads(job.data))
  /\ stage = "start"
  /\ raised = "nothing"
  /\ position = 1
  /\ partial = FALSE
  /\ depth = 0
  /\ working = job.before
  /\ durable = job.before

-----------------------------------------------------------------------------
(* writer.__enter__: the session statements make the driver open a         *)
(* transaction.                                                            *)
Connect ==
  /\ stage = "start"
  /\ stage' = "connected"
  /\ depth' = 1
  /\ UNCHANGED <<job, script, raised, position, partial, working, durable>>

(* The connection or a session statement fails: TargetWriterError out of   *)
(* __enter__, so that __exit__ does not run.                               *)
ConnectFails ==
  /\ stage = "start"
  /\ stage' = "unreachable"
  /\ raised' = "TargetWriterError"
  /\ UNCHANGED <<job, script, position, partial, depth, working, durable>>

Collect ==
  /\ stage = "connected"
  /\ stage' = "collected"
  /\ UNCHANGED <<job, script, raised, position, partial, depth, working, durable>>

Leave(exception) ==
  /\ stage' = "leaving sink"
  /\ raised' = exception

(* collect_metadata wraps what it raises, the probes of the views do not.  *)
CollectFails ==
  /\ stage = "connected"
  /\ \E exception \in {"SourceReaderError", "other"} : Leave(exception)
  /\ UNCHANGED <<job, script, position, partial, depth, working, durable>>

(* emit_prologue: a BEGIN inside the driver's transaction nests on SQL     *)
(* Server and is only a warning on PostgreSQL.                             *)
Prologue ==
  /\ stage = "collected"
  /\ stage' = "emitting"
  /\ depth' = IF job.transaction /\ Target = "mssql" THEN depth + 1 ELSE depth
  /\ UNCHANGED <<job, script, raised, position, partial, working, durable>>

PrologueFails ==
  /\ stage = "collected"
  /\ job.transaction
  /\ Leave("TargetWriterError")
  /\ UNCHANGED <<job, script, position, partial, depth, working, durable>>

Emitting == stage = "emitting" /\ position \in DOMAIN script

Statement == script[position]

(* emit_tables writes a CREATE TABLE in three pieces; the sink keeps the   *)
(* first two until the semicolon of the third.                             *)
WritePartOfTable ==
  /\ Emitting
  /\ Statement.kind = "create"
  /\ ~partial
  /\ partial' = TRUE
  /\ UNCHANGED <<job, script, stage, raised, position, depth, working, durable>>

Complete == Statement.kind = "create" => partial

(* execute_ddl, or bulk_load.                                              *)
Execute ==
  /\ Emitting
  /\ Complete
  /\ Accepts(working, Statement)
  /\ working' = After(working, Statement)
  /\ position' = position + 1
  /\ partial' = FALSE
  /\ UNCHANGED <<job, script, stage, raised, depth, durable>>

(* The server refuses the statement, or it fails for a reason of its own;  *)
(* the sink has taken the statement out of its buffer before.              *)
ExecuteFails ==
  /\ Emitting
  /\ Complete
  /\ Statement.kind # "nothing"
  /\ Leave("TargetWriterError")
  /\ partial' = FALSE
  /\ UNCHANGED <<job, script, position, depth, working, durable>>

(* A row cannot be read: raised as it is through bulk_load on PostgreSQL   *)
(* (a reader that connects on the first row wraps only that), as a failed  *)
(* INSERT on SQL Server.                                                   *)
ReadFails ==
  /\ Emitting
  /\ Statement.kind \in {"load", "nothing"}
  /\ IF Target = "mssql"
     THEN Leave("TargetWriterError")
     ELSE \E exception \in {"SourceReaderError", "other"} : Leave(exception)
  /\ UNCHANGED <<job, script, position, partial, depth, working, durable>>

(* A faulty epilogue, emitted once more each time it is asked for.         *)
EpilogueRepeated ==
  /\ stage = "emitting"
  /\ position \notin DOMAIN script
  /\ depth' = IF job.transaction THEN depth - 1 ELSE depth
  /\ durable' = IF depth' = 0 THEN working ELSE durable
  /\ UNCHANGED <<job, script, stage, raised, position, partial, working>>

(* emit_epilogue: the COMMIT publishes on PostgreSQL, on SQL Server it     *)
(* only ends the inner transaction.                                        *)
Epilogue ==
  /\ stage = "emitting"
  /\ position \notin DOMAIN script
  /\ stage' = "leaving sink"
  /\ depth' = IF job.transaction THEN depth - 1 ELSE depth
  /\ durable' = IF depth' = 0 THEN working ELSE durable
  /\ UNCHANGED <<job, script, raised, position, partial, working>>

(* COMMIT raises, before or after the server has done it.                  *)
EpilogueFails ==
  /\ stage = "emitting"
  /\ position \notin DOMAIN script
  /\ job.transaction
  /\ Leave("TargetWriterError")
  /\ durable' \in IF depth = 1 THEN {durable, working} ELSE {durable}
  /\ UNCHANGED <<job, script, position, partial, depth, working>>

(* ExecutingSink.__exit__ executes what its buffer holds, on an exception  *)
(* too: the piece of a CREATE TABLE is refused, and that error takes the   *)
(* place of the one that was leaving.                                      *)
LeaveSink ==
  /\ stage = "leaving sink"
  /\ stage' = "leaving writer"
  /\ raised' = IF partial THEN "TargetWriterError" ELSE raised
  /\ partial' = FALSE
  /\ UNCHANGED <<job, script, position, depth, working, durable>>

(* A faulty __exit__ that commits whatever happened.                       *)
LeaveWriterCommitting ==
  /\ stage = "leaving writer"
  /\ stage' = "ended"
  /\ depth' = 0
  /\ durable' = IF depth > 0 THEN working ELSE durable
  /\ UNCHANGED <<job, script, raised, position, partial, working>>

(* writer.__exit__: commit without an exception, else rollback.            *)
LeaveWriter ==
  /\ stage = "leaving writer"
  /\ stage' = "ended"
  /\ depth' = 0
  /\ durable' = IF raised = "nothing" /\ depth > 0 THEN working ELSE durable
  /\ UNCHANGED <<job, script, raised, position, partial, working>>

(* commit or rollback raises; a failed commit may have been done.          *)
LeaveWriterFails ==
  /\ stage = "leaving writer"
  /\ stage' = "ended"
  /\ raised' = "other"
  /\ depth' = 0
  /\ durable' \in IF raised = "nothing" /\ depth > 0 THEN {durable, working} ELSE {durable}
  /\ UNCHANGED <<job, script, position, partial, working>>

(* SIGINT or SIGTERM: the handler raises SystemExit in whatever runs, and  *)
(* a COMMIT under way may be done all the same.                            *)
InterruptBody ==
  /\ stage \in {"connected", "collected", "emitting"}
  /\ Leave("SystemExit")
  /\ durable' \in IF /\ stage = "emitting" /\ position \notin DOMAIN script
                     /\ job.transaction /\ depth = 1
                  THEN {durable, working} ELSE {durable}
  /\ UNCHANGED <<job, script, position, partial, depth, working>>

InterruptSink ==
  /\ stage = "leaving sink"
  /\ stage' = "leaving writer"
  /\ raised' = "SystemExit"
  /\ partial' = FALSE
  /\ UNCHANGED <<job, script, position, depth, working, durable>>

(* Outside the body of the writer's with block: nothing is left to run.    *)
InterruptWriter ==
  /\ stage \in {"start", "leaving writer"}
  /\ stage' = "ended"
  /\ raised' = "SystemExit"
  /\ depth' = 0
  /\ durable' \in IF stage = "leaving writer" /\ raised = "nothing" /\ depth > 0
                  THEN {durable, working} ELSE {durable}
  /\ UNCHANGED <<job, script, position, partial, working>>

Ended == stage \in {"ended", "unreachable"}

Finished == Ended /\ UNCHANGED vars

Next ==
  \/ Connect \/ ConnectFails
  \/ Collect \/ CollectFails
  \/ Prologue \/ PrologueFails
  \/ WritePartOfTable
  \/ Execute \/ ExecuteFails
  \/ ReadFails
  \/ Epilogue \/ EpilogueFails
  \/ LeaveSink
  \/ LeaveWriter \/ LeaveWriterFails
  \/ InterruptBody \/ InterruptSink \/ InterruptWriter
  \/ Finished

Spec == Init /\ [][Next]_vars

(* Cli.exit_code_from.                                                     *)
ExitCode ==
  CASE raised = "nothing" -> 0
    [] raised \in {"SourceReaderError", "TargetWriterError"} -> 1
    [] raised = "SystemExit" -> 7
    [] raised = "other" -> 6

-----------------------------------------------------------------------------
TypeOK ==
  /\ job.mode \in Modes /\ job.transaction \in Transactions /\ job.refs \in Graphs
  /\ job.data \in Data /\ job.order \in Orders
  /\ \A db \in {job.before, working, durable} : IsDatabase(db)
  /\ stage \in {"start", "connected", "collected", "emitting", "leaving sink",
                "leaving writer", "ended", "unreachable"}
  /\ raised \in {"nothing", "SourceReaderError", "TargetWriterError", "SystemExit", "other"}
  /\ position \in 1..(Len(script) + 1)
  /\ partial \in BOOLEAN
  /\ depth \in 0..2

(* When the whole script has run, the target holds what was read from the  *)
(* source, foreign keys and indexes included, and nothing else of it has   *)
(* changed.  This takes names that the emitter leaves as they are.         *)
FaithfulCopy ==
  (KeepsNames /\ position \notin DOMAIN script) =>
    Faithful(job.before, working, job.mode, job.refs, job.data)

(* Where the source, the mode and the target fit together (Supported), the *)
(* server refuses no statement that TargetDatabase tells apart: not a DROP *)
(* because of the foreign keys left by an earlier load, not a row or a     *)
(* foreign key because of the order they come in, not a DBCC CHECKIDENT of *)
(* a table without an identity column.                                     *)
SupportedLoadsAreNeverRefused ==
  (Emitting /\ KeepsNames /\ Supported(job.before, job.mode, job.refs, job.data))
  => Accepts(working, Statement)

(* However the migration fails, the target is what it was or what the      *)
(* whole script made of it; and exit code 0 means the latter.              *)
AllOrNothing ==
  /\ durable # job.before => position \notin DOMAIN script /\ durable = working
  /\ (Ended /\ ExitCode = 0) => position \notin DOMAIN script /\ durable = working

(* "The state produced in the target DB is equivalent to what psql -f      *)
(* dump.sql would have produced" (docstring of migrate_database.py): the   *)
(* script completes where the script of the dump would, with its outcome,  *)
(* and is refused only where that one is.                                  *)
EquivalentToReplay ==
  LET dump == Script(job.mode, job.refs, job.order, EmitData(job.data, "copy"))
      replayed == Outcome(job.before, dump)
  IN  /\ position \notin DOMAIN script => replayed = {working}
      /\ (Emitting /\ ~Accepts(working, Statement)) => replayed = {}

(* The migration implements the abstract AtomicLoad.                       *)
Atomic == INSTANCE AtomicLoad

ImplementsAtomicLoad == Atomic!Spec
=============================================================================
