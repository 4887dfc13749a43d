-------------------------- MODULE DumpReplayProofs --------------------------
(***************************************************************************)
(* The replay of a dump is atomic, however short the dump was cut: the     *)
(* proof that DumpReplay implements AtomicLoad, for any script and any     *)
(* server.                                                                 *)
(*                                                                         *)
(* A complete replay is faithful, and meets no error on the targets its    *)
(* mode is meant for: these proofs rest on what SqlScriptProofs shows of   *)
(* scripts.                                                                *)
(***************************************************************************)
EXTENDS DumpReplay, SqlScriptProofs

(* psql only sends statements of the script, and a file that ends with the *)
(* COMMIT holds them all.                                                  *)
IInv ==
  /\ dumped \in Nat
  /\ 1..dumped \subseteq DOMAIN script
  /\ position \in 1..(dumped + 1)
  /\ stage = "dumping" => position = 1 /\ ~whole
  /\ whole => dumped + 1 \notin DOMAIN script

(* An empty file.                                                          *)
LEMMA Initially == Init => IInv
  BY DEF Init, IInv

(* No step of the dump or of psql breaks the invariant.                    *)
LEMMA Inductive == IInv /\ [Next]_vars => IInv'
<1> SUFFICES ASSUME IInv, [Next]_vars PROVE IInv'
  OBVIOUS
<1> USE DEF IInv
<1>1. CASE DumpStatement
  <2>1. /\ stage = "dumping" /\ dumped + 1 \in DOMAIN script /\ dumped' = dumped + 1
        /\ UNCHANGED <<script, stage, whole, position>>
    BY <1>1 DEF DumpStatement
  <2>2. 1..dumped' \subseteq DOMAIN script
    <3>1. \A i \in 1..(dumped + 1) : i \in 1..dumped \/ i = dumped + 1
      OBVIOUS
    <3> QED
      BY <2>1, <3>1
  <2> QED
    BY <2>1, <2>2
<1>2. CASE DumpEnds
  BY <1>2 DEF DumpEnds
<1>3. CASE DumpCut
  BY <1>3 DEF DumpCut
<1>4. CASE ReplayStarts
  BY <1>4 DEF ReplayStarts
<1>5. CASE ReplayStatement
  <2>1. /\ stage = "replaying" /\ position <= dumped /\ position' = position + 1
        /\ UNCHANGED <<script, stage, dumped, whole>>
    BY <1>5 DEF ReplayStatement, Replaying
  <2> QED
    BY <2>1
<1>6. CASE ReplayFails \/ ReplayTornStatement
  BY <1>6 DEF ReplayFails, ReplayTornStatement
<1>7. CASE ReplayEnds
  BY <1>7 DEF ReplayEnds
<1>8. CASE ReplayDies
  BY <1>8 DEF ReplayDies
<1>9. CASE UNCHANGED vars
  BY <1>9 DEF vars
<1> QED
  BY <1>1, <1>2, <1>3, <1>4, <1>5, <1>6, <1>7, <1>8, <1>9 DEF Next, Finished

(* The invariant holds throughout.                                         *)
LEMMA Invariance == Spec => []IInv
<1>1. Init => IInv
  BY Initially
<1>2. IInv /\ [Next]_vars => IInv'
  BY Inductive
<1> QED
  BY <1>1, <1>2, PTL DEF Spec

(* Where a COMMIT takes effect, every statement of the script has run.     *)
LEMMA CommitEndsTheScript ==
  ASSUME IInv, AtEnd, whole, ~aborted
  PROVE  position \notin DOMAIN script
<1>1. position > dumped /\ position \in 1..(dumped + 1) /\ dumped \in Nat
  BY DEF AtEnd, IInv
<1>2. position = dumped + 1
  BY <1>1
<1> QED
  BY <1>2 DEF IInv

(* A dump and its replay implement AtomicLoad: a dump that was cut short,  *)
(* or a replay that met an error, leaves the target as it was.             *)
THEOREM Implementation == Spec => ImplementsAtomicLoad
<1>1. Init => Atomic!Init
  BY DEF Init, Atomic!Init
<1>2. IInv /\ [Next]_vars => [Atomic!Next]_Atomic!vars
  <2> SUFFICES ASSUME IInv, [Next]_vars
               PROVE  Atomic!Run \/ Atomic!Publish \/ UNCHANGED Atomic!vars
    BY DEF Atomic!Next
  <2> USE DEF Atomic!vars
  <2>1. CASE ReplayStatement
    <3>1. position \in DOMAIN script
      BY <2>1 DEF ReplayStatement, Replaying, IInv
    <3> QED
      BY <2>1, <3>1 DEF ReplayStatement, Atomic!Run
  <2>2. CASE ReplayEnds
    BY <2>2, CommitEndsTheScript DEF ReplayEnds, Atomic!Publish
  <2>3. CASE ReplayDies
    BY <2>3, CommitEndsTheScript DEF ReplayDies, Atomic!Publish
  <2>4. CASE DumpStatement \/ DumpEnds \/ DumpCut \/ ReplayStarts
    BY <2>4 DEF DumpStatement, DumpEnds, DumpCut, ReplayStarts
  <2>5. CASE ReplayFails \/ ReplayTornStatement \/ UNCHANGED vars
    BY <2>5 DEF ReplayFails, ReplayTornStatement, vars
  <2> QED
    BY <2>1, <2>2, <2>3, <2>4, <2>5 DEF Next, Finished
<1> QED
  BY <1>1, <1>2, Invariance, PTL DEF Spec, ImplementsAtomicLoad, Atomic!Spec

-----------------------------------------------------------------------------
(* What a dump and its replay are given.                                   *)
IsJob(j) ==
  /\ j.mode \in Modes /\ j.format \in Formats /\ j.refs \in Graphs
  /\ \A t \in Tables : j.data[t] \in Read(t)
  /\ ValidOrder(j.refs, j.order)
  /\ j.before \in Targets(j.refs)

DumpOf(j) == Script(j.mode, j.refs, j.order, EmitData(j.data, j.format))

ReplayedStatements == {script[i] : i \in 1..(position - 1)}

(* The session of psql sees what the statements replayed so far make of    *)
(* the target.                                                             *)
ReplayInv ==
  /\ IsJob(job)
  /\ script = DumpOf(job)
  /\ IsDatabase(working)
  /\ EmittedNamesDiffer => Effect(job.before, ReplayedStatements, working)

(* A job is one that the lemmas about scripts speak of.                    *)
LEMMA JobFacts ==
  ASSUME NEW j, IsJob(j)
  PROVE  /\ IsMode(j.mode)
         /\ IsDatabase(j.before)
         /\ IsLoading(EmitData(j.data, j.format))
         /\ EmittedNamesDiffer => LoadsData(j.refs, EmitData(j.data, j.format), j.data)
         /\ IsScript(DumpOf(j))
         /\ \A s \in Statements(DumpOf(j)) : s.kind \in Kinds
<1>1. IsMode(j.mode)
  BY DumpAssumption DEF IsJob, IsMode
<1>2. IsDatabase(j.before)
  BY DumpAssumption DEF IsJob
<1>3. \A t \in Tables : j.data[t] \in Read(t)
  BY DEF IsJob
<1>4. /\ IsLoading(EmitData(j.data, j.format))
      /\ EmittedNamesDiffer => LoadsData(j.refs, EmitData(j.data, j.format), j.data)
  BY <1>3, DumpLoading
<1>5. ValidOrder(j.refs, j.order)
  BY DEF IsJob
<1> QED
  BY <1>1, <1>2, <1>4, <1>5, WholeScript DEF DumpOf

(* The next statement is one of the script.                                *)
LEMMA NextOfScript ==
  ASSUME IInv, ReplayInv
  PROVE  /\ DOMAIN script = 1..Len(script)
         /\ Len(script) \in Nat
         /\ position <= dumped => position \in 1..Len(script) /\ script[position].kind \in Kinds
         /\ position \notin DOMAIN script => position - 1 = Len(script)
<1>1. IsScript(script) /\ \A s \in Statements(script) : s.kind \in Kinds
  BY JobFacts DEF ReplayInv
<1>2. DOMAIN script = 1..Len(script) /\ Len(script) \in Nat
  BY <1>1 DEF IsScript
<1>3. \A i \in 1..Len(script) : script[i] \in Statements(script)
  BY DEF Statements
<1>4. dumped \in Nat /\ 1..dumped \subseteq 1..Len(script) /\ position \in 1..(dumped + 1)
  BY <1>2 DEF IInv
<1>5. dumped <= Len(script)
  BY <1>2, <1>4
<1> QED
  BY <1>1, <1>2, <1>3, <1>4, <1>5

(* A replay starts with the target as it is.                               *)
LEMMA ReplayInitially == Init => ReplayInv
<1> SUFFICES ASSUME Init PROVE ReplayInv
  OBVIOUS
<1>1. IsJob(job)
  BY DEF Init, IsJob
<1>2. IsDatabase(job.before) /\ working = job.before /\ position = 1
  BY <1>1, JobFacts DEF Init
<1>3. script = DumpOf(job)
  BY DEF Init, DumpOf
<1>4. ReplayedStatements = {}
  BY <1>2 DEF ReplayedStatements
<1>5. Effect(job.before, ReplayedStatements, working)
  BY <1>2, <1>4, NoEffect
<1> QED
  BY <1>1, <1>2, <1>3, <1>5 DEF ReplayInv

(* A statement that the server has accepted.                               *)
LEMMA ReplayKeeps ==
  ASSUME IInv, ReplayInv, ReplayStatement
  PROVE  ReplayInv'
<1>1. /\ position <= dumped /\ Accepts(working, script[position])
      /\ working' = After(working, script[position]) /\ position' = position + 1
      /\ job' = job /\ script' = script
  BY DEF ReplayStatement, Replaying
<1>2. position \in 1..Len(script) /\ script[position].kind \in Kinds /\ Len(script) \in Nat
  BY <1>1, NextOfScript
<1>3. IsDatabase(working')
  BY <1>1, <1>2, StaysDatabase DEF ReplayInv
<1>4. ASSUME EmittedNamesDiffer
      PROVE  Effect(job.before, {script[i] : i \in 1..((position + 1) - 1)},
                    After(working, script[position]))
  <2> DEFINE mode == job.mode
             refs == job.refs
             order == job.order
             data == job.data
             loads == EmitData(data, job.format)
             before == job.before
  <2>1. IsDatabase(before) /\ IsLoading(loads) /\ LoadsData(refs, loads, data)
    BY <1>4, JobFacts DEF ReplayInv
  <2>2. ValidOrder(refs, order) /\ IsDatabase(working)
    BY DEF ReplayInv, IsJob
  <2>3. script = Script(mode, refs, order, loads)
    BY DEF ReplayInv, DumpOf
  <2>4. Effect(before, {script[i] : i \in 1..(position - 1)}, working)
    BY <1>4 DEF ReplayInv, ReplayedStatements
  <2> HIDE DEF mode, refs, order, data, loads, before
  <2>5. Effect(before, {script[i] : i \in 1..((position + 1) - 1)}, After(working, script[position]))
    BY <1>1, <1>2, <1>4, <2>1, <2>2, <2>3, <2>4, NextEffect
  <2> QED
    BY <2>5 DEF before
<1>5. EmittedNamesDiffer' = EmittedNamesDiffer
  BY DEF EmittedNamesDiffer
<1>6. ReplayedStatements' = {script[i] : i \in 1..((position + 1) - 1)}
  BY <1>1 DEF ReplayedStatements
<1> QED
  BY <1>1, <1>3, <1>4, <1>5, <1>6 DEF ReplayInv

(* No other step changes what the session sees.                            *)
LEMMA ReplayInductive == IInv /\ ReplayInv /\ [Next]_vars => ReplayInv'
<1> SUFFICES ASSUME IInv, ReplayInv, [Next]_vars PROVE ReplayInv'
  OBVIOUS
<1>1. ReplayStatement \/ UNCHANGED <<job, script, position, working>>
  <2>1. CASE DumpStatement \/ DumpEnds \/ DumpCut \/ ReplayStarts
    BY <2>1 DEF DumpStatement, DumpEnds, DumpCut, ReplayStarts
  <2>2. CASE ReplayFails \/ ReplayTornStatement \/ ReplayEnds \/ ReplayDies \/ UNCHANGED vars
    BY <2>2 DEF ReplayFails, ReplayTornStatement, ReplayEnds, ReplayDies, vars
  <2> QED
    BY <2>1, <2>2 DEF Next, Finished
<1>2. CASE UNCHANGED <<job, script, position, working>>
  BY <1>2 DEF ReplayInv, ReplayedStatements
<1> QED
  BY <1>1, <1>2, ReplayKeeps

(* Both invariants hold throughout.                                        *)
LEMMA ReplayInvariance == Spec => [](IInv /\ ReplayInv)
<1>1. Init => ReplayInv
  BY ReplayInitially
<1>2. IInv /\ ReplayInv /\ [Next]_vars => ReplayInv'
  BY ReplayInductive
<1> QED
  BY <1>1, <1>2, Invariance, PTL DEF Spec

(* A replay that completes leaves the target with what the dump read from  *)
(* the source, whatever the format of the data and the names the emitter   *)
(* gives the tables.                                                       *)
THEOREM FaithfulDump == Spec => []FaithfulReplay
<1>1. IInv /\ ReplayInv => FaithfulReplay
  <2> SUFFICES ASSUME IInv, ReplayInv, EmittedNamesDiffer, position \notin DOMAIN script
               PROVE  Faithful(job.before, working, job.mode, job.refs, job.data)
    BY DEF FaithfulReplay
  <2> DEFINE mode == job.mode
             refs == job.refs
             order == job.order
             data == job.data
             loads == EmitData(data, job.format)
             before == job.before
  <2>1. IsDatabase(before) /\ IsLoading(loads) /\ LoadsData(refs, loads, data)
    BY JobFacts DEF ReplayInv
  <2>2. ValidOrder(refs, order)
    BY DEF ReplayInv, IsJob
  <2>3. script = Script(mode, refs, order, loads)
    BY DEF ReplayInv, DumpOf
  <2>4. Effect(before, {script[i] : i \in 1..(position - 1)}, working)
    BY DEF ReplayInv, ReplayedStatements
  <2>5. position - 1 = Len(script)
    BY NextOfScript
  <2> HIDE DEF mode, refs, order, data, loads, before
  <2>6. Faithful(before, working, mode, refs, data)
    BY <2>1, <2>2, <2>3, <2>4, <2>5, WholeEffect
  <2> QED
    BY <2>6 DEF before, mode, refs, data
<1> QED
  BY <1>1, ReplayInvariance, PTL

(* Where the source, the mode and the target fit together (Supported: in   *)
(* particular every foreign key references a primary key of comparable     *)
(* types, and no row goes to an identity column of SQL Server), the server *)
(* refuses no statement of the dump that TargetDatabase tells apart.       *)
(* Refusals over other definitions and values of columns are not excluded. *)
THEOREM SupportedDump == Spec => []SupportedReplaysAreNeverRefused
<1>1. IInv /\ ReplayInv => SupportedReplaysAreNeverRefused
  <2> SUFFICES ASSUME IInv, ReplayInv, Replaying, EmittedNamesDiffer,
                      Supported(job.before, job.mode, job.refs, job.data)
               PROVE  Accepts(working, script[position])
    BY DEF SupportedReplaysAreNeverRefused
  <2> DEFINE mode == job.mode
             refs == job.refs
             order == job.order
             data == job.data
             loads == EmitData(data, job.format)
             before == job.before
  <2>1. /\ IsMode(mode) /\ IsDatabase(before)
        /\ IsLoading(loads) /\ LoadsData(refs, loads, data)
    BY JobFacts DEF ReplayInv
  <2>2. ValidOrder(refs, order)
    BY DEF ReplayInv, IsJob
  <2>3. script = Script(mode, refs, order, loads)
    BY DEF ReplayInv, DumpOf
  <2>4. Effect(before, {script[i] : i \in 1..(position - 1)}, working)
    BY DEF ReplayInv, ReplayedStatements
  <2>5. position \in 1..Len(script)
    BY NextOfScript DEF Replaying
  <2>6. Supported(before, mode, refs, data)
    OBVIOUS
  <2> HIDE DEF mode, refs, order, data, loads, before
  <2>7. Accepts(working, script[position])
    BY <2>1, <2>2, <2>3, <2>4, <2>5, <2>6, NextAccepted
  <2> QED
    BY <2>7
<1> QED
  BY <1>1, ReplayInvariance, PTL
=============================================================================
