----------------------------- MODULE DumpReplay -----------------------------
(***************************************************************************)
(* "db2sql dump -f dump.sql", then "psql -f dump.sql" on the target: the   *)
(* dump of DumpDatabaseUseCase, with its transaction, is written statement *)
(* by statement and may be cut anywhere by an exception, a signal or a     *)
(* full disk; psql replays what the file holds in one session.             *)
(*                                                                         *)
(* The sink keeps a prefix of what the emitter wrote (StreamSink, and      *)
(* RotatingFileSink as its module shows), and the parts of a split dump    *)
(* are one script when they are concatenated.  psql is outside the         *)
(* repository: after an error inside a transaction the server rejects      *)
(* every statement and turns COMMIT into a rollback; when the session ends *)
(* without a COMMIT the server rolls back.                                 *)
(***************************************************************************)
EXTENDS SqlScript

CONSTANTS
  Modes,     \* the --on-existing values considered
  Formats,   \* the --data-format values considered
  Graphs,    \* the foreign keys the source may have
  Targets(_) \* the states the target may be in before, given those keys

ASSUME DumpAssumption ==
  /\ Modes \subseteq {"fail", "drop", "truncate"}
  /\ Graphs \subseteq ForeignKeys
  /\ \A refs \in Graphs : \A db \in Targets(refs) : IsDatabase(db)

VARIABLES
  job,      \* the request, the source and the target
  script,   \* the statements of a complete dump between BEGIN and COMMIT
  stage,    \* "dumping", "dumped", "replaying", "ended"
  dumped,   \* how many statements of script the file holds
  torn,     \* the file ends with a piece of the next statement
  whole,    \* the file ends with the COMMIT
  position, \* the next statement psql sends
  aborted,  \* a statement has failed: the server rejects the others
  working,  \* the database as the session of psql sees it
  durable   \* the database as others see it

vars == <<job, script, stage, dumped, torn, whole, position, aborted, working, durable>>

Data == [Tables -> UNION {Read(t) : t \in Tables}]

Orders == [1..Len(Source) -> Tables]

Init ==
  /\ \E mode \in Modes, format \in Formats, refs \in Graphs, data \in Data, order \in Orders :
       /\ \A t \in Tables : data[t] \in Read(t)
       /\ ValidOrder(refs, order)
       /\ \E before \in Targets(refs) :
            job = [mode |-> mode, format |-> format, refs |-> refs,
                   data |-> data, order |-> order, before |-> before]
  /\ script = Script(job.mode, job.refs, job.order, EmitData(job.data, job.format))
  /\ stage = "dumping"
  /\ dumped = 0
  /\ torn = FALSE
  /\ whole = FALSE
  /\ position = 1
  /\ aborted = FALSE
  /\ working = job.before
  /\ durable = job.before

-----------------------------------------------------------------------------
(* The next statement of _emit reaches the sink.                           *)
DumpStatement ==
  /\ stage = "dumping"
  /\ dumped + 1 \in DOMAIN script
  /\ dumped' = dumped + 1
  /\ UNCHANGED <<job, script, stage, torn, whole, position, aborted, working, durable>>

(* emit_epilogue, and the sink is closed.                                  *)
DumpEnds ==
  /\ stage = "dumping"
  /\ dumped + 1 \notin DOMAIN script
  /\ stage' = "dumped"
  /\ whole' = TRUE
  /\ UNCHANGED <<job, script, dumped, torn, position, aborted, working, durable>>

(* Statements the emitter writes in several pieces.                        *)
Tearable(s) == s.kind = "create" \/ (s.kind = "load" /\ job.format = "copy")

(* A faulty _emit that emits the epilogue in a finally clause.             *)
DumpCutWithEpilogue ==
  /\ stage = "dumping"
  /\ stage' = "dumped"
  /\ whole' = TRUE
  /\ UNCHANGED <<job, script, dumped, torn, position, aborted, working, durable>>

(* An exception leaves execute: the sink closes on what it was given,      *)
(* which may end inside a CREATE TABLE or a COPY block.                    *)
DumpCut ==
  /\ stage = "dumping"
  /\ stage' = "dumped"
  /\ torn' \in IF dumped + 1 \in DOMAIN script /\ Tearable(script[dumped + 1])
               THEN BOOLEAN ELSE {FALSE}
  /\ UNCHANGED <<job, script, dumped, whole, position, aborted, working, durable>>

-----------------------------------------------------------------------------
ReplayStarts ==
  /\ stage = "dumped"
  /\ stage' = "replaying"
  /\ UNCHANGED <<job, script, dumped, torn, whole, position, aborted, working, durable>>

Replaying == stage = "replaying" /\ ~aborted /\ position <= dumped

ReplayStatement ==
  /\ Replaying
  /\ Accepts(working, script[position])
  /\ working' = After(working, script[position])
  /\ position' = position + 1
  /\ UNCHANGED <<job, script, stage, dumped, torn, whole, aborted, durable>>

(* Refused, or failing for a reason of the server's.                       *)
ReplayFails ==
  /\ Replaying
  /\ aborted' = TRUE
  /\ UNCHANGED <<job, script, stage, dumped, torn, whole, position, working, durable>>

(* What is left of a torn statement is an error, or a COPY that ends with  *)
(* the file; in either case the session ends next.                         *)
ReplayTornStatement ==
  /\ stage = "replaying"
  /\ ~aborted /\ position > dumped /\ torn
  /\ aborted' = TRUE
  /\ UNCHANGED <<job, script, stage, dumped, torn, whole, position, working, durable>>

AtEnd == stage = "replaying" /\ (aborted \/ (position > dumped /\ ~torn))

(* COMMIT, or the end of the file without one.                             *)
ReplayEnds ==
  /\ AtEnd
  /\ stage' = "ended"
  /\ durable' = IF whole /\ ~aborted THEN working ELSE durable
  /\ UNCHANGED <<job, script, dumped, torn, whole, position, aborted, working>>

(* psql or its connection dies, perhaps while the COMMIT is under way.     *)
ReplayDies ==
  /\ stage = "replaying"
  /\ stage' = "ended"
  /\ durable' \in IF AtEnd /\ whole /\ ~aborted THEN {durable, working} ELSE {durable}
  /\ UNCHANGED <<job, script, dumped, torn, whole, position, aborted, working>>

Finished == stage = "ended" /\ UNCHANGED vars

Next ==
  \/ DumpStatement
  \/ DumpEnds
  \/ DumpCut
  \/ ReplayStarts
  \/ ReplayStatement
  \/ ReplayFails
  \/ ReplayTornStatement
  \/ ReplayEnds
  \/ ReplayDies
  \/ Finished

Spec == Init /\ [][Next]_vars

-----------------------------------------------------------------------------
(* A replay that completes leaves the target with what the dump read from  *)
(* the source, and the rest of it as it was, also when the emitter changes *)
(* the names of the tables.                                                *)
FaithfulReplay ==
  (EmittedNamesDiffer /\ position \notin DOMAIN script) =>
    Faithful(job.before, working, job.mode, job.refs, job.data)

(* Where the source, the mode and the target fit together (Supported), the *)
(* server refuses no statement of the dump that TargetDatabase tells apart.*)
SupportedReplaysAreNeverRefused ==
  (Replaying /\ EmittedNamesDiffer /\ Supported(job.before, job.mode, job.refs, job.data))
  => Accepts(working, script[position])

(* A replay changes the target only as a whole: neither a dump that was    *)
(* cut short nor an error half-way leaves anything behind.                 *)
Atomic == INSTANCE AtomicLoad

ImplementsAtomicLoad == Atomic!Spec
=============================================================================
