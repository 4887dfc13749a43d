----------------------------- MODULE SqlScript ------------------------------
(***************************************************************************)
(* The statements that DumpDatabaseUseCase._emit and                       *)
(* MigrateDatabaseUseCase._emit_and_load produce for a Database, between   *)
(* the transaction's prologue and epilogue: one operator for each emit_*   *)
(* method of the emitters, and one for each of the two ways to load rows.  *)
(***************************************************************************)
EXTENDS ForeignKeyGraph, TargetDatabase, FiniteSets, SequencesExt

CONSTANTS
  EmittedName, \* the name an emitter gives a table: mapped schema, normalised case
  RawName,     \* the name of the table in the source
  IndexName,   \* the name of the index of a table
  SourceRows,  \* the rows of a table in the source
  Limit,       \* the row limit of a table: 0 skips it, -1 is no limit
  Identities,  \* the tables with an identity column in the source
  PrimaryKeyed \* the pairs <<t, p>> where what t references of p is the emitted
               \* PRIMARY KEY of p, with types the server compares

ASSUME ScriptAssumption ==
  /\ EmittedName \in [Tables -> STRING \X STRING]
  /\ RawName \in [Tables -> STRING \X STRING]
  /\ IndexName \in [Tables -> STRING]
  /\ \A t \in Tables : IsFiniteSet(SourceRows[t]) /\ Limit[t] \in Int
  /\ Identities \subseteq Tables
  /\ PrimaryKeyed \subseteq Tables \X Tables

(* What the SELECT of each table may return: LIMIT comes without ORDER BY. *)
Read(t) ==
  {rows \in SUBSET SourceRows[t] :
     IF Limit[t] >= 0 /\ Limit[t] < Cardinality(SourceRows[t])
     THEN Cardinality(rows) = Limit[t]
     ELSE rows = SourceRows[t]}

ForEach(tables, Statement(_)) == [i \in 1..Len(tables) |-> Statement(tables[i])]

ForEachTable(Statement(_)) == ForEach(Source, Statement)

-----------------------------------------------------------------------------
(* emit_schemas: CREATE SCHEMA IF NOT EXISTS, once for each target schema; *)
(* a schema without tables does not survive filter_database.               *)
EmitSchemas ==
  ForEach(SetToSeq({EmittedName[t][1] : t \in Tables}), CreateSchema)

(* A faulty emit_drops that follows topological_order.                     *)
DropsInLoadOrder(order) == ForEach(order, LAMBDA t : DropTable(EmittedName[t]))

(* emit_drops: DROP TABLE IF EXISTS in drop_order.                         *)
EmitDrops(order) == ForEach(Reverse(order), LAMBDA t : DropTable(EmittedName[t]))

(* A faulty emit_truncates that reseeds every table.                       *)
ReseedsEveryTable(order) ==
  IF Target = "mssql"
  THEN FlattenSeq(ForEach(Reverse(order), LAMBDA t :
         <<Truncate({EmittedName[t]}), Reseed(EmittedName[t])>>))
  ELSE IF order = << >> THEN << >>
  ELSE <<Truncate({EmittedName[t] : t \in Tables})>>

(* emit_truncates: one statement for all tables on PostgreSQL; on SQL      *)
(* Server one for each table in drop_order, and DBCC CHECKIDENT after it   *)
(* for a table with an identity column in the source.                      *)
EmitTruncates(order) ==
  IF Target = "mssql"
  THEN FlattenSeq(ForEach(Reverse(order), LAMBDA t :
         <<Truncate({EmittedName[t]})>>
         \o (IF t \in Identities THEN <<Reseed(EmittedName[t])>> ELSE << >>)))
  ELSE IF order = << >> THEN << >>
  ELSE <<Truncate({EmittedName[t] : t \in Tables})>>

(* A faulty emit_tables that declares identity columns as plain ones.      *)
PlainTables == ForEachTable(LAMBDA t : CreateTable(EmittedName[t], FALSE))

(* emit_tables declares a PRIMARY KEY, and nothing else that a foreign key *)
(* could reference: unique columns of the source get a plain index.        *)
EmitTables == ForEachTable(LAMBDA t : CreateTable(EmittedName[t], t \in Identities))

(* ALTER TABLE ... ADD FOREIGN KEY of the table t, referencing p.          *)
ForeignKey(t, p) == AddKey(EmittedName[t], EmittedName[p], <<t, p>> \in PrimaryKeyed)

(* A faulty emit_foreign_keys that skips what topological_order skips.     *)
EmitForeignKeysToOthers(refs) ==
  FlattenSeq(ForEachTable(LAMBDA t :
    ForEach(SetToSeq((refs[t] \cap Tables) \ {t}), LAMBDA p : ForeignKey(t, p))))

(* emit_foreign_keys skips the references to tables not in the Database.   *)
EmitForeignKeys(refs) ==
  FlattenSeq(ForEachTable(LAMBDA t :
    ForEach(SetToSeq(refs[t] \cap Tables), LAMBDA p : ForeignKey(t, p))))

EmitIndexes == ForEachTable(LAMBDA t : CreateIndex(EmittedName[t], IndexName[t]))

(* Both ways to load rows pass over the tables whose limit is 0.           *)
Skipped(t) == Limit[t] = 0

ForEachSelected(Statements(_)) ==
  FlattenSeq(ForEachTable(LAMBDA t : IF Skipped(t) THEN << >> ELSE Statements(t)))

(* A faulty _load_data that does not pass the limit on to the reader.      *)
BulkLoadsUnlimited(data) ==
  ForEachSelected(LAMBDA t :
    IF SourceRows[t] = {} THEN <<LoadNothing(RawName[t])>> ELSE <<Load(RawName[t], SourceRows[t])>>)

(* _load_data: bulk_load is called with the source's names, and sends      *)
(* nothing when there is no row.                                           *)
BulkLoads(data) ==
  ForEachSelected(LAMBDA t :
    IF data[t] = {} THEN <<LoadNothing(RawName[t])>> ELSE <<Load(RawName[t], data[t])>>)

(* _emit_data: emit_data_copy writes a block even for an empty table,      *)
(* emit_data_insert (and emit_data_copy on SQL Server) a statement a row.  *)
EmitData(data, format) ==
  ForEachSelected(LAMBDA t :
    IF format = "copy" /\ Target = "postgres"
    THEN <<Load(EmittedName[t], data[t])>>
    ELSE ForEach(SetToSeq(data[t]), LAMBDA r : Load(EmittedName[t], {r})))

(* A faulty order: the foreign keys before the data.                       *)
KeysBeforeData(mode, refs, order, loads) ==
  IF mode = "truncate"
  THEN EmitTruncates(order) \o loads
  ELSE EmitSchemas
       \o (IF mode = "drop" THEN EmitDrops(order) ELSE << >>)
       \o EmitTables \o EmitForeignKeys(refs) \o loads \o EmitIndexes

(* _emit and _emit_and_load, the rows being loaded by loads.               *)
Script(mode, refs, order, loads) ==
  IF mode = "truncate"
  THEN EmitTruncates(order) \o loads
  ELSE EmitSchemas
       \o (IF mode = "drop" THEN EmitDrops(order) ELSE << >>)
       \o EmitTables \o loads \o EmitForeignKeys(refs) \o EmitIndexes

-----------------------------------------------------------------------------
(* What the properties of MigrateDatabase and DumpReplay compare.          *)

Managed == {EmittedName[t] : t \in Tables}

Keys(refs) ==
  UNION {{<<EmittedName[t], EmittedName[p]>> : p \in refs[t] \cap Tables} : t \in Tables}

(* The target holds what was read from the source, and apart from that it  *)
(* is what it was before.                                                  *)
Faithful(before, db, mode, refs, data) ==
  /\ Existing(db) = Existing(before) \cup Managed
  /\ \A t \in Tables : db.rows[EmittedName[t]] = data[t]
  /\ \A n \in Existing(before) \ Managed : db.rows[n] = before.rows[n]
  /\ IF mode = "truncate"
     THEN /\ db.keys = before.keys
          /\ db.indexes = before.indexes
          /\ db.identity = before.identity
     ELSE /\ db.keys = Keys(refs) \cup {key \in before.keys : key[1] \notin Managed}
          /\ db.indexes = {<<EmittedName[t], IndexName[t]>> : t \in Tables}
                            \cup {index \in before.indexes : index[1] \notin Managed}
          /\ db.identity = {EmittedName[t] : t \in Identities} \cup (before.identity \ Managed)

(* The rows read are a consistent part of the source for these keys.       *)
ClosedUnder(keys, data) ==
  \A t, p \in Tables : <<EmittedName[t], EmittedName[p]>> \in keys => data[t] \subseteq data[p]

(* No two tables get the same name on the target.                          *)
EmittedNamesDiffer ==
  \A t, u \in Tables : EmittedName[t] = EmittedName[u] => t = u

(* Besides, no table changes its name on the way.                          *)
KeepsNames == EmittedNamesDiffer /\ RawName = EmittedName

(* Indexes of one schema have names of their own, on the target too.       *)
IndexesDiffer(before) ==
  /\ \A t, u \in Tables :
       (IndexName[t] = IndexName[u] /\ EmittedName[t][1] = EmittedName[u][1]) => t = u
  /\ \A index \in before.indexes : \A t \in Tables :
       index[2] = IndexName[t] => index[1] = EmittedName[t]

(* The database a script leaves, or none if a statement of it is refused.  *)
Outcome(before, script) ==
  LET after[i \in 0..Len(script)] ==
        IF i = 0
        THEN {before}
        ELSE {After(db, script[i]) : db \in {d \in after[i - 1] : Accepts(d, script[i])}}
  IN  after[Len(script)]

(* The targets each mode is meant for.                                     *)
MeantFor(before, mode, refs) ==
  CASE mode = "fail" -> Existing(before) \cap Managed = {}
    [] mode = "drop" ->
         /\ Blocked(refs) = {}
         /\ {key \in before.keys : key[2] \in Managed} \subseteq Keys(refs)
    [] mode = "truncate" ->
         /\ Managed \subseteq Existing(before)
         /\ \A key \in before.keys : key[1] \in Managed <=> key[2] \in Managed

(* Every foreign key to be added references the primary key of its parent. *)
KeysFit(mode, refs) ==
  mode # "truncate" =>
    \A t \in Tables : \A p \in refs[t] \cap Tables : <<t, p>> \in PrimaryKeyed

(* What SQL Server needs of identity columns: no row goes to a table that  *)
(* has one, and a table to be reseeded has one.                            *)
IdentitiesFit(before, mode, data) ==
  Target = "mssql" =>
    IF mode = "truncate"
    THEN /\ \A t \in Tables : EmittedName[t] \in before.identity => data[t] = {}
         /\ \A t \in Identities : EmittedName[t] \in before.identity
    ELSE \A t \in Identities : data[t] = {}

(* What TRUNCATE mode needs besides: the source lists parents first, and   *)
(* SQL Server truncates no table that another one references.              *)
LoadsParentsFirst(before) ==
  /\ \A i, j \in 1..Len(Source) :
       <<EmittedName[Source[i]], EmittedName[Source[j]]>> \in before.keys => j <= i
  /\ Target = "mssql" =>
       \A key \in before.keys : key[1] \in Managed => key[1] = key[2]

(* The sources, modes and targets that fit together.                       *)
Supported(before, mode, refs, data) ==
  /\ IndexesDiffer(before)
  /\ MeantFor(before, mode, refs)
  /\ mode = "truncate" => LoadsParentsFirst(before)
  /\ ClosedUnder(Keys(refs) \cup before.keys, data)
  /\ KeysFit(mode, refs)
  /\ IdentitiesFit(before, mode, data)
=============================================================================
