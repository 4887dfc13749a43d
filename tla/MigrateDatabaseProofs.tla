----------------------- MODULE MigrateDatabaseProofs ------------------------
(***************************************************************************)
(* A migration is atomic: the proofs that MigrateDatabase keeps            *)
(* AllOrNothing and implements AtomicLoad.  They look into no definition   *)
(* of SqlScript or TargetDatabase, so that they hold for any script and    *)
(* any server.                                                             *)
(*                                                                         *)
(* A migration is faithful, refused by no target that its mode is meant    *)
(* for, and does what a dump would have done: these proofs rest on what    *)
(* SqlScriptProofs shows of scripts.                                       *)
(***************************************************************************)
EXTENDS MigrateDatabase, SqlScriptProofs

ScriptHasRun == position \notin DOMAIN script

Published == ScriptHasRun /\ durable = working

(* The with blocks are being left, and no exception is on its way.         *)
LeavingCleanly == stage \in {"leaving sink", "leaving writer"} /\ raised = "nothing"

Exceptions == {"nothing", "SourceReaderError", "TargetWriterError", "SystemExit", "other"}

(* What relates the place the program is at to the transactions that are   *)
(* open: a COMMIT is only ever sent by a program that has run the script.  *)
IInv ==
  /\ raised \in Exceptions
  /\ durable = job.before \/ Published
  /\ stage \in {"start", "connected", "collected", "emitting"} =>
       raised = "nothing" /\ durable = job.before
  /\ stage \in {"connected", "collected"} => depth = 1
  /\ stage = "emitting" => depth \in {1, 2}
  /\ LeavingCleanly => ScriptHasRun /\ depth \in {0, 1, 2} /\ (depth = 0 => durable = working)
  /\ (stage = "ended" /\ raised = "nothing") => Published
  /\ stage = "unreachable" => raised # "nothing"

(* The program starts with nothing done.                                   *)
LEMMA Initially == Init => IInv
  BY DEF Init, IInv, Exceptions, LeavingCleanly

(* No step of the program breaks the invariant.                            *)
LEMMA Inductive == IInv /\ [Next]_vars => IInv'
<1> SUFFICES ASSUME IInv, [Next]_vars PROVE IInv'
  OBVIOUS
<1> USE DEF IInv, Published, ScriptHasRun, LeavingCleanly, Exceptions
<1>1. CASE Connect
  BY <1>1 DEF Connect
<1>2. CASE ConnectFails
  BY <1>2 DEF ConnectFails
<1>3. CASE Collect
  BY <1>3 DEF Collect
<1>4. CASE CollectFails
  BY <1>4 DEF CollectFails, Leave
<1>5. CASE Prologue
  BY <1>5 DEF Prologue
<1>6. CASE PrologueFails
  BY <1>6 DEF PrologueFails, Leave
<1>7. CASE WritePartOfTable
  BY <1>7 DEF WritePartOfTable
<1>8. CASE Execute
  BY <1>8 DEF Execute, Emitting
<1>9. CASE ExecuteFails
  BY <1>9 DEF ExecuteFails, Emitting, Leave
<1>10. CASE ReadFails
  BY <1>10 DEF ReadFails, Emitting, Leave
<1>11. CASE Epilogue
  <2>1. /\ raised = "nothing" /\ durable = job.before
        /\ depth' \in {0, 1, 2}
    <3>1. stage = "emitting" /\ (depth' = depth - 1 \/ depth' = depth)
      BY <1>11 DEF Epilogue
    <3>2. depth \in {1, 2} /\ raised = "nothing" /\ durable = job.before
      BY <3>1
    <3> HIDE DEF IInv
    <3> QED
      BY <3>1, <3>2
  <2>2. UNCHANGED <<job, script, raised, position, working>> /\ stage' = "leaving sink"
    BY <1>11 DEF Epilogue
  <2>3. durable' = IF depth' = 0 THEN working ELSE durable
    BY <1>11 DEF Epilogue
  <2>4. ScriptHasRun'
    BY <1>11 DEF Epilogue
  <2> QED
    BY <2>1, <2>2, <2>3, <2>4
<1>12. CASE EpilogueFails
  BY <1>12 DEF EpilogueFails, Leave
<1>13. CASE LeaveSink
  BY <1>13 DEF LeaveSink
<1>14. CASE LeaveWriter
  <2>1. CASE raised = "nothing"
    <3>1. ScriptHasRun /\ durable' = working
      <4>1. /\ stage = "leaving writer"
            /\ durable' = IF depth > 0 THEN working ELSE durable
        BY <1>14, <2>1 DEF LeaveWriter
      <4>2. depth \in {0, 1, 2} /\ (depth = 0 => durable = working) /\ ScriptHasRun
        BY <2>1, <4>1
      <4> HIDE DEF IInv
      <4>3. CASE depth = 0
        BY <4>1, <4>2, <4>3
      <4>4. CASE depth # 0
        <5>1. depth > 0
          BY <4>2, <4>4
        <5> QED
          BY <4>1, <4>2, <5>1
      <4> QED
        BY <4>3, <4>4
    <3> QED
      BY <1>14, <2>1, <3>1 DEF LeaveWriter
  <2>2. CASE raised # "nothing"
    <3>1. durable' = durable
      BY <1>14, <2>2 DEF LeaveWriter
    <3> QED
      BY <1>14, <2>2, <3>1 DEF LeaveWriter
  <2> QED
    BY <2>1, <2>2
<1>15. CASE LeaveWriterFails
  BY <1>15 DEF LeaveWriterFails
<1>16. CASE InterruptBody
  BY <1>16 DEF InterruptBody, Leave
<1>17. CASE InterruptSink
  BY <1>17 DEF InterruptSink
<1>18. CASE InterruptWriter
  BY <1>18 DEF InterruptWriter
<1>19. CASE UNCHANGED vars
  BY <1>19 DEF vars
<1> QED
  BY <1>1, <1>2, <1>3, <1>4, <1>5, <1>6, <1>7, <1>8, <1>9, <1>10, <1>11, <1>12, <1>13,
     <1>14, <1>15, <1>16, <1>17, <1>18, <1>19 DEF Next, Finished

(* The invariant holds in every state of every migration.                  *)
LEMMA Invariance == Spec => []IInv
<1>1. Init => IInv
  BY Initially
<1>2. IInv /\ [Next]_vars => IInv'
  BY Inductive
<1> QED
  BY <1>1, <1>2, PTL DEF Spec

(* However a migration fails, the target is as before or as the whole      *)
(* script made it, and exit code 0 means the latter (runner.py and the     *)
(* __exit__ methods of the writers).                                       *)
THEOREM AtomicMigration == Spec => []AllOrNothing
<1>1. IInv => AllOrNothing
  <2> SUFFICES ASSUME IInv PROVE AllOrNothing
    OBVIOUS
  <2>1. Ended /\ ExitCode = 0 => stage = "ended" /\ raised = "nothing"
    BY DEF IInv, Exceptions, Ended, ExitCode
  <2> QED
    BY <2>1 DEF IInv, AllOrNothing, Published, ScriptHasRun
<1> QED
  BY <1>1, Invariance, PTL

(* The migration implements AtomicLoad: each of its steps runs the next    *)
(* statement, publishes the outcome of the whole script, or is not seen    *)
(* from outside.                                                           *)
THEOREM Implementation == Spec => ImplementsAtomicLoad
<1>1. Init => Atomic!Init
  BY DEF Init, Atomic!Init
<1>2. IInv /\ [Next]_vars => [Atomic!Next]_Atomic!vars
  <2> SUFFICES ASSUME IInv, [Next]_vars
               PROVE  Atomic!Run \/ Atomic!Publish \/ UNCHANGED Atomic!vars
    BY DEF Atomic!Next
  <2> USE DEF Atomic!vars, Atomic!Publish, ScriptHasRun, Published
  <2>1. CASE Execute
    BY <2>1 DEF Execute, Emitting, Statement, Atomic!Run
  <2>2. CASE Epilogue
    BY <2>2 DEF Epilogue
  <2>3. CASE EpilogueFails
    BY <2>3 DEF EpilogueFails
  <2>4. CASE LeaveWriter
    BY <2>4 DEF LeaveWriter, IInv, LeavingCleanly
  <2>5. CASE LeaveWriterFails
    BY <2>5 DEF LeaveWriterFails, IInv, LeavingCleanly
  <2>6. CASE InterruptWriter
    BY <2>6 DEF InterruptWriter, IInv, LeavingCleanly
  <2>7. CASE Connect \/ ConnectFails \/ Collect \/ CollectFails \/ Prologue \/ PrologueFails
    BY <2>7 DEF Connect, ConnectFails, Collect, CollectFails, Prologue, PrologueFails
  <2>8. CASE WritePartOfTable \/ ExecuteFails \/ ReadFails
    BY <2>8 DEF WritePartOfTable, ExecuteFails, ReadFails
  <2>9. CASE LeaveSink \/ InterruptBody \/ InterruptSink \/ UNCHANGED vars
    BY <2>9 DEF LeaveSink, InterruptBody, InterruptSink, vars
  <2> QED
    BY <2>1, <2>2, <2>3, <2>4, <2>5, <2>6, <2>7, <2>8, <2>9 DEF Next, Finished
<1> QED
  BY <1>1, <1>2, Invariance, PTL DEF Spec, ImplementsAtomicLoad, Atomic!Spec

-----------------------------------------------------------------------------
(* What a run is given.                                                    *)
IsJob(j) ==
  /\ j.mode \in Modes /\ j.transaction \in Transactions /\ j.refs \in Graphs
  /\ j.data \in Data /\ j.order \in Orders
  /\ \A t \in Tables : j.data[t] \in Read(t)
  /\ ValidOrder(j.refs, j.order)
  /\ j.before \in Targets(j.refs)

ExecutedStatements == {script[i] : i \in 1..(position - 1)}

(* The writer's connection sees what the statements executed so far make   *)
(* of the target.                                                          *)
LoadInv ==
  /\ IsJob(job)
  /\ script = Script(job.mode, job.refs, job.order, BulkLoads(job.data))
  /\ position \in 1..(Len(script) + 1)
  /\ IsDatabase(working)
  /\ KeepsNames => Effect(job.before, ExecutedStatements, working)

(* Where the program is.                                                   *)
ProgramInv ==
  /\ stage \in {"start", "connected", "collected", "emitting", "leaving sink",
                "leaving writer", "ended", "unreachable"}
  /\ partial \in BOOLEAN
  /\ depth \in {0, 1, 2}

(* A job is one that the lemmas about scripts speak of.                    *)
LEMMA JobFacts ==
  ASSUME NEW j, IsJob(j)
  PROVE  /\ IsMode(j.mode)
         /\ IsDatabase(j.before)
         /\ IsLoading(BulkLoads(j.data))
         /\ KeepsNames => LoadsData(j.refs, BulkLoads(j.data), j.data)
         /\ IsScript(Script(j.mode, j.refs, j.order, BulkLoads(j.data)))
         /\ \A s \in Statements(Script(j.mode, j.refs, j.order, BulkLoads(j.data))) : s.kind \in Kinds
<1>1. IsMode(j.mode)
  BY MigrationAssumption DEF IsJob, IsMode
<1>2. IsDatabase(j.before)
  BY MigrationAssumption DEF IsJob
<1>3. \A t \in Tables : j.data[t] \in Read(t)
  BY DEF IsJob
<1>4. IsLoading(BulkLoads(j.data)) /\ (KeepsNames => LoadsData(j.refs, BulkLoads(j.data), j.data))
  BY <1>3, BulkLoading
<1>5. ValidOrder(j.refs, j.order)
  BY DEF IsJob
<1> QED
  BY <1>1, <1>2, <1>4, <1>5, WholeScript

(* The next statement is one of the script.                                *)
LEMMA NextOfScript ==
  ASSUME LoadInv
  PROVE  /\ DOMAIN script = 1..Len(script)
         /\ Len(script) \in Nat
         /\ Emitting => position \in 1..Len(script) /\ Statement.kind \in Kinds
<1>1. IsScript(script) /\ \A s \in Statements(script) : s.kind \in Kinds
  BY JobFacts DEF LoadInv
<1>2. DOMAIN script = 1..Len(script) /\ Len(script) \in Nat
  BY <1>1 DEF IsScript
<1>3. \A i \in 1..Len(script) : script[i] \in Statements(script)
  BY DEF Statements
<1> QED
  BY <1>1, <1>2, <1>3 DEF Emitting, Statement

(* A migration starts with the target as it is.                            *)
LEMMA LoadInitially == Init => LoadInv /\ ProgramInv
<1> SUFFICES ASSUME Init PROVE LoadInv /\ ProgramInv
  OBVIOUS
<1>1. IsJob(job)
  BY DEF Init, IsJob
<1>2. IsDatabase(job.before) /\ working = job.before /\ position = 1
  BY <1>1, JobFacts DEF Init
<1>3. script = Script(job.mode, job.refs, job.order, BulkLoads(job.data))
  BY DEF Init
<1>4. Len(script) \in Nat
  BY <1>1, <1>3, JobFacts DEF IsScript
<1>5. ExecutedStatements = {}
  BY <1>2 DEF ExecutedStatements
<1>6. Effect(job.before, ExecutedStatements, working)
  BY <1>2, <1>5, NoEffect
<1>7. LoadInv
  BY <1>1, <1>2, <1>3, <1>4, <1>6 DEF LoadInv
<1>8. ProgramInv
  BY DEF Init, ProgramInv
<1> QED
  BY <1>7, <1>8

(* A statement that was executed.                                          *)
LEMMA ExecuteKeeps ==
  ASSUME LoadInv, Execute
  PROVE  LoadInv'
<1>1. /\ Emitting /\ Accepts(working, Statement)
      /\ working' = After(working, Statement) /\ position' = position + 1
      /\ job' = job /\ script' = script
  BY DEF Execute
<1>2. position \in 1..Len(script) /\ Statement.kind \in Kinds /\ Len(script) \in Nat
  BY <1>1, NextOfScript
<1>3. IsDatabase(working')
  BY <1>1, <1>2, StaysDatabase DEF LoadInv
<1>4. position' \in 1..(Len(script') + 1)
  BY <1>1, <1>2
<1>5. ASSUME KeepsNames
      PROVE  Effect(job.before, {script[i] : i \in 1..((position + 1) - 1)}, After(working, Statement))
  <2> DEFINE mode == job.mode
             refs == job.refs
             order == job.order
             data == job.data
             loads == BulkLoads(data)
             before == job.before
  <2>1. IsDatabase(before) /\ IsLoading(loads) /\ LoadsData(refs, loads, data)
    BY <1>5, JobFacts DEF LoadInv
  <2>2. ValidOrder(refs, order) /\ EmittedNamesDiffer /\ IsDatabase(working)
    BY <1>5 DEF LoadInv, IsJob, KeepsNames
  <2>3. script = Script(mode, refs, order, loads)
    BY DEF LoadInv
  <2>4. Effect(before, {script[i] : i \in 1..(position - 1)}, working)
    BY <1>5 DEF LoadInv, ExecutedStatements
  <2>5. Accepts(working, script[position])
    BY <1>1 DEF Statement
  <2> HIDE DEF mode, refs, order, data, loads, before
  <2>6. Effect(before, {script[i] : i \in 1..((position + 1) - 1)}, After(working, script[position]))
    BY <1>2, <2>1, <2>2, <2>3, <2>4, <2>5, NextEffect
  <2> QED
    BY <2>6 DEF Statement, before
<1>6. KeepsNames' = KeepsNames
  BY DEF KeepsNames, EmittedNamesDiffer
<1>7. ExecutedStatements' = {script[i] : i \in 1..((position + 1) - 1)}
  BY <1>1 DEF ExecutedStatements
<1> QED
  BY <1>1, <1>3, <1>4, <1>5, <1>6, <1>7 DEF LoadInv

(* No other step changes what the connection sees.                         *)
LEMMA OtherSteps ==
  ASSUME [Next]_vars
  PROVE  Execute \/ UNCHANGED <<job, script, position, working>>
<1>1. CASE Connect \/ ConnectFails \/ Collect \/ CollectFails \/ Prologue \/ PrologueFails
  BY <1>1 DEF Connect, ConnectFails, Collect, CollectFails, Prologue, PrologueFails
<1>2. CASE WritePartOfTable \/ ExecuteFails \/ ReadFails \/ Epilogue \/ EpilogueFails
  BY <1>2 DEF WritePartOfTable, ExecuteFails, ReadFails, Epilogue, EpilogueFails
<1>3. CASE LeaveSink \/ LeaveWriter \/ LeaveWriterFails
  BY <1>3 DEF LeaveSink, LeaveWriter, LeaveWriterFails
<1>4. CASE InterruptBody \/ InterruptSink \/ InterruptWriter \/ UNCHANGED vars
  BY <1>4 DEF InterruptBody, InterruptSink, InterruptWriter, vars
<1> QED
  BY <1>1, <1>2, <1>3, <1>4 DEF Next, Finished

(* The invariant goes on to hold.                                          *)
LEMMA LoadInductive == LoadInv /\ [Next]_vars => LoadInv'
<1> SUFFICES ASSUME LoadInv, [Next]_vars PROVE LoadInv'
  OBVIOUS
<1>1. CASE UNCHANGED <<job, script, position, working>>
  BY <1>1 DEF LoadInv, ExecutedStatements
<1> QED
  BY <1>1, OtherSteps, ExecuteKeeps

(* The program stays where a program can be.                               *)
LEMMA ProgramInductive == IInv /\ ProgramInv /\ [Next]_vars => ProgramInv'
<1> SUFFICES ASSUME IInv, ProgramInv, [Next]_vars PROVE ProgramInv'
  OBVIOUS
<1> USE DEF ProgramInv
<1>1. CASE Connect \/ ConnectFails \/ Collect \/ CollectFails
  BY <1>1 DEF Connect, ConnectFails, Collect, CollectFails, Leave
<1>2. CASE Prologue
  <2>1. depth = 1
    BY <1>2 DEF Prologue, IInv
  <2> QED
    BY <1>2, <2>1 DEF Prologue
<1>3. CASE PrologueFails \/ WritePartOfTable \/ Execute \/ ExecuteFails \/ ReadFails
  BY <1>3 DEF PrologueFails, WritePartOfTable, Execute, ExecuteFails, ReadFails, Leave
<1>4. CASE Epilogue
  <2>1. depth \in {1, 2} /\ (depth' = depth - 1 \/ depth' = depth)
    BY <1>4 DEF Epilogue, IInv
  <2>2. depth' \in {0, 1, 2}
    <3> HIDE DEF ProgramInv
    <3> QED
      BY <2>1
  <2> QED
    BY <1>4, <2>2 DEF Epilogue
<1>5. CASE EpilogueFails \/ LeaveSink \/ LeaveWriter \/ LeaveWriterFails
  BY <1>5 DEF EpilogueFails, LeaveSink, LeaveWriter, LeaveWriterFails, Leave
<1>6. CASE InterruptBody \/ InterruptSink \/ InterruptWriter \/ UNCHANGED vars
  BY <1>6 DEF InterruptBody, InterruptSink, InterruptWriter, Leave, vars
<1> QED
  BY <1>1, <1>2, <1>3, <1>4, <1>5, <1>6 DEF Next, Finished

(* The invariants hold in every state of every migration.                  *)
LEMMA LoadInvariance == Spec => [](IInv /\ LoadInv /\ ProgramInv)
<1>1. Init => LoadInv /\ ProgramInv
  BY LoadInitially
<1>2. LoadInv /\ [Next]_vars => LoadInv'
  BY LoadInductive
<1>3. IInv /\ ProgramInv /\ [Next]_vars => ProgramInv'
  BY ProgramInductive
<1> QED
  BY <1>1, <1>2, <1>3, Invariance, PTL DEF Spec

(* Every variable keeps its type; the three databases stay consistent      *)
(* whatever statements fail.                                               *)
THEOREM TypeCorrect == Spec => []TypeOK
<1>1. IInv /\ LoadInv /\ ProgramInv => TypeOK
  <2> SUFFICES ASSUME IInv, LoadInv, ProgramInv PROVE TypeOK
    OBVIOUS
  <2>1. IsDatabase(job.before) /\ IsDatabase(working)
    BY JobFacts DEF LoadInv
  <2>2. durable = job.before \/ durable = working
    BY DEF IInv, Published
  <2>3. depth \in 0..2
    <3>1. depth \in {0, 1, 2}
      BY DEF ProgramInv
    <3> QED
      BY <3>1
  <2>4. IsJob(job) /\ position \in 1..(Len(script) + 1)
    BY DEF LoadInv
  <2>5. /\ raised \in {"nothing", "SourceReaderError", "TargetWriterError", "SystemExit", "other"}
        /\ partial \in BOOLEAN
        /\ stage \in {"start", "connected", "collected", "emitting", "leaving sink",
                      "leaving writer", "ended", "unreachable"}
    BY DEF IInv, Exceptions, ProgramInv
  <2>6. \A db \in {job.before, working, durable} : IsDatabase(db)
    BY <2>1, <2>2
  <2> QED
    BY <2>3, <2>4, <2>5, <2>6, Zenon DEF TypeOK, IsJob
<1> QED
  BY <1>1, LoadInvariance, PTL

(* When MigrateDatabaseUseCase has executed its script, the target holds   *)
(* the rows, keys and indexes of the source, and keeps everything else,    *)
(* whatever the source, the order of its tables, the mode and the target.  *)
THEOREM FaithfulMigration == Spec => []FaithfulCopy
<1>1. LoadInv => FaithfulCopy
  <2> SUFFICES ASSUME LoadInv, KeepsNames, position \notin DOMAIN script
               PROVE  Faithful(job.before, working, job.mode, job.refs, job.data)
    BY DEF FaithfulCopy
  <2> DEFINE mode == job.mode
             refs == job.refs
             order == job.order
             data == job.data
             loads == BulkLoads(data)
             before == job.before
  <2>1. IsDatabase(before) /\ IsLoading(loads) /\ LoadsData(refs, loads, data)
    BY JobFacts DEF LoadInv
  <2>2. ValidOrder(refs, order) /\ EmittedNamesDiffer
    BY DEF LoadInv, IsJob, KeepsNames
  <2>3. script = Script(mode, refs, order, loads)
    BY DEF LoadInv
  <2>4. Effect(before, {script[i] : i \in 1..(position - 1)}, working)
    BY DEF LoadInv, ExecutedStatements
  <2>5. position - 1 = Len(script)
    BY NextOfScript DEF LoadInv
  <2> HIDE DEF mode, refs, order, data, loads, before
  <2>6. Faithful(before, working, mode, refs, data)
    BY <2>1, <2>2, <2>3, <2>4, <2>5, WholeEffect
  <2> QED
    BY <2>6 DEF before, mode, refs, data
<1> QED
  BY <1>1, LoadInvariance, PTL

(* Where the source, the mode and the target fit together (Supported: in   *)
(* particular every foreign key references a primary key of comparable     *)
(* types, and no row goes to an identity column of SQL Server), the server *)
(* refuses no statement of a migration that TargetDatabase tells apart:    *)
(* drop_order and topological_order, the keys coming after the data, and   *)
(* DBCC CHECKIDENT are right for every graph of foreign keys.  Refusals    *)
(* over other definitions and values of columns are not excluded.          *)
THEOREM SupportedMigration == Spec => []SupportedLoadsAreNeverRefused
<1>1. LoadInv => SupportedLoadsAreNeverRefused
  <2> SUFFICES ASSUME LoadInv, Emitting, KeepsNames,
                      Supported(job.before, job.mode, job.refs, job.data)
               PROVE  Accepts(working, Statement)
    BY DEF SupportedLoadsAreNeverRefused
  <2> DEFINE mode == job.mode
             refs == job.refs
             order == job.order
             data == job.data
             loads == BulkLoads(data)
             before == job.before
  <2>1. /\ IsMode(mode) /\ IsDatabase(before)
        /\ IsLoading(loads) /\ LoadsData(refs, loads, data)
    BY JobFacts DEF LoadInv
  <2>2. ValidOrder(refs, order) /\ EmittedNamesDiffer
    BY DEF LoadInv, IsJob, KeepsNames
  <2>3. script = Script(mode, refs, order, loads)
    BY DEF LoadInv
  <2>4. Effect(before, {script[i] : i \in 1..(position - 1)}, working)
    BY DEF LoadInv, ExecutedStatements
  <2>5. position \in 1..Len(script)
    BY NextOfScript
  <2>6. Supported(before, mode, refs, data)
    OBVIOUS
  <2> HIDE DEF mode, refs, order, data, loads, before
  <2>7. Accepts(working, script[position])
    BY <2>1, <2>2, <2>3, <2>4, <2>5, <2>6, NextAccepted
  <2> QED
    BY <2>7 DEF Statement
<1> QED
  BY <1>1, LoadInvariance, PTL

(* The connection sees what the statements before position leave of the    *)
(* target, when they are run one after the other.                          *)
CourseInv == Leaves(job.before, SubSeq(script, 1, position - 1), working)

(* The statement that is executed is the next of the script.               *)
LEMMA CourseInductive == LoadInv /\ CourseInv /\ [Next]_vars => CourseInv'
<1> SUFFICES ASSUME LoadInv, CourseInv, [Next]_vars PROVE CourseInv'
  OBVIOUS
<1>1. CASE Execute
  <2>1. IsScript(script)
    BY JobFacts DEF LoadInv
  <2>2. position \in 1..Len(script)
    BY <1>1, NextOfScript DEF Execute
  <2>3. Accepts(working, script[position])
    BY <1>1 DEF Execute, Statement
  <2>4. Leaves(job.before, SubSeq(script, 1, position - 1), working)
    BY DEF CourseInv
  <2>5. Leaves(job.before, SubSeq(script, 1, position), After(working, script[position]))
    BY <2>1, <2>2, <2>3, <2>4, NextOutcome
  <2>6. (position + 1) - 1 = position
    BY <2>2
  <2>7. /\ job' = job /\ script' = script /\ position' = position + 1
        /\ working' = After(working, script[position])
    BY <1>1 DEF Execute, Statement
  <2> QED
    BY <2>5, <2>6, <2>7 DEF CourseInv
<1>2. CASE UNCHANGED <<job, script, position, working>>
  BY <1>2 DEF CourseInv
<1> QED
  BY <1>1, <1>2, OtherSteps

(* Before the first statement the connection sees the target as it is.     *)
LEMMA CourseInitially == Init => CourseInv
<1> SUFFICES ASSUME Init PROVE CourseInv
  OBVIOUS
<1>1. working = job.before /\ position = 1
  BY DEF Init
<1>2. SubSeq(script, 1, 0) = << >>
  BY SubSeqEmpty
<1>3. Outcome(job.before, SubSeq(script, 1, 0)) = {job.before}
  BY <1>2, ShortOutcomes
<1> QED
  BY <1>1, <1>3 DEF CourseInv, Leaves

(* "Equivalent to what psql -f dump.sql would have produced" (docstring of *)
(* migrate_database.py), for every source and target, where no table       *)
(* changes its name on the way: a migration that has run its script leaves *)
(* the target of the dump's script, and is refused only where that one is. *)
THEOREM EquivalentMigration ==
  ASSUME KeepsNames
  PROVE  Spec => []EquivalentToReplay
<1>1. LoadInv /\ CourseInv => EquivalentToReplay
  <2> SUFFICES ASSUME LoadInv, CourseInv PROVE EquivalentToReplay
    OBVIOUS
  <2> DEFINE before == job.before
             dump == Script(job.mode, job.refs, job.order, EmitData(job.data, "copy"))
  <2>1. IsScript(script) /\ IsDatabase(before) /\ IsJob(job)
    BY JobFacts DEF LoadInv
  <2>2. Outcome(before, script) = Outcome(before, dump)
    BY <2>1, SameOutcome DEF LoadInv, IsJob
  <2>3. Leaves(before, SubSeq(script, 1, position - 1), working)
    BY DEF CourseInv
  <2> HIDE DEF before, dump
  <2>4. ASSUME position \notin DOMAIN script PROVE Outcome(before, script) = {working}
    <3>1. position - 1 = Len(script)
      BY <2>4, NextOfScript DEF LoadInv
    <3>2. SubSeq(script, 1, Len(script)) = script
      BY <2>1, SubSeqFull DEF IsScript
    <3> QED
      BY <2>3, <3>1, <3>2 DEF Leaves
  <2>5. ASSUME Emitting, ~Accepts(working, Statement) PROVE Outcome(before, script) = {}
    <3>1. position \in 1..Len(script)
      BY <2>5, NextOfScript
    <3> QED
      BY <2>1, <2>3, <2>5, <3>1, NextOutcome DEF Statement
  <2> QED
    BY <2>2, <2>4, <2>5 DEF EquivalentToReplay, before, dump
<1> QED
  BY <1>1, CourseInitially, CourseInductive, LoadInvariance, PTL DEF Spec
=============================================================================
