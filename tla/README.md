# db2sql in TLA+

db2sql reads a source database (PostgreSQL, SQL Server, MySQL, Oracle, SQLite)
and either writes a SQL script for a target dialect (`db2sql dump`) or builds
the target directly (`db2sql migrate`).  It is a sequential command line
program.  What makes it hard is not threads but

* the order of the statements: any graph of foreign keys, with cycles, self
  references and references to filtered tables, on targets that already hold
  something;
* failure at every step: the source, the target, the disk, SIGINT and SIGTERM
  (which raise `SystemExit` wherever the program happens to be), and the
  `__exit__` methods that run on the way out;
* the two paths (script and live load) that are documented to give the same
  result.

The modules here describe those parts of `src/db2sql`, TLC checks them on small
instances and TLAPS proves the central properties for every instance.

## 1. Inventory

Paths are relative to `src/db2sql`.

| Component | Code | State | Operations | Correct when |
|---|---|---|---|---|
| Domain model | `domain/model` | `Database` → `Schema` → `Table` → `Column`, `ForeignKey`, in dictionary order | add and look up | a name means one table; foreign keys keep their columns together |
| Dependency order | `domain/policy/dependency_order.py` | `incoming`, `outgoing`, `ready`, `ordered` of one call | `topological_order`, `drop_order` | every table once; parents before children wherever some order allows it; cycles last |
| Filter | `domain/policy/filter.py` | the Database it returns | `filter_database` | keeps what the rules select, and no empty schema |
| Emitters | `infrastructure/emit` | schema mapping, case | `emit_*` | the script is accepted and builds what the source holds |
| Sinks | `infrastructure/output` | buffer, current file, sizes | `write`, `boundary`, `__enter__`, `__exit__` | what reaches the output is a prefix of what was emitted, all of it after a clean close, cut only where a client can resume |
| Target writers | `infrastructure/writer` | engine, connection, its transaction | `__enter__`, `execute_ddl`, `bulk_load`, `__exit__` | all or nothing |
| Use cases | `application/use_cases` | the request | `execute` | right order; the same target by either path |
| Source readers | `infrastructure/persistence` | a session | `collect_metadata`, `iter_rows`, `describe_query`, `iter_query_rows` | the Database they answer is the catalogue's |
| Configuration | `infrastructure/config`, `infrastructure/url.py` | an immutable `AppConfig` | load, merge, validate, map to requests | documented precedence; nothing dropped silently |
| Plugins | `infrastructure/plugins/registry.py` | a cache of factories | register, discover, get | the first registration wins; unknown names are reported |
| Command line | `interface/cli` | the logger, the options | parse, dispatch, `exit_code_from`, `validate`, `init` | the documented exit code |

How they interact: `Cli._execute_migrate` enters the writer, then the sink, and
calls the use case; the use case asks the reader for a `Database`, filters it,
adds the views, and calls the emitter's `emit_*` methods in a fixed order; the
emitter calls `topological_order` and writes text to the sink; the
`ExecutingSink` cuts the text into statements and calls the writer, which the
use case also calls itself to load rows.  `dump` has the same shape with a file
sink and no writer; a client such as psql runs the script later.  Exceptions
leave through the sink's and the writer's `__exit__` and become an exit code in
`exit_code_from`.

The hazards of this code, each with its line and the properties aimed at it, are
in `PROJECT.json`.

## 2. Modules

| Module | Models | Composes |
|---|---|---|
| `ForeignKeyGraph` | tables in source order, the tables each references, and what a valid order of them is | |
| `TableOrder` | abstract: one valid order, answered once | `ForeignKeyGraph` |
| `DependencyOrder` | `topological_order`, one action per iteration of each loop; `drop_order` | refines `TableOrder` |
| `ForeignKeyTypes` | the alignment of foreign key columns in the PostgreSQL emitter, one action per call of `_key_type` | |
| `OutputSink` | abstract: what the port promises the emitter | |
| `RotatingFileSink` | the sink of `dump --split-size`, with failing opens and writes | refines `OutputSink` |
| `ExecutingSink` | the sink of `migrate`: chunks to statements | refines `OutputSink` |
| `TargetDatabase` | external: which statements PostgreSQL and SQL Server accept, and their effect | |
| `SqlScript` | the statements of a dump or a migration, one operator for each `emit_*`, `_emit_data` and `bulk_load` | `ForeignKeyGraph`, `TargetDatabase` |
| `AtomicLoad` | abstract: a script runs on a private copy that is published whole or not at all | |
| `CatalogueRows`, `PostgresReader`, `MySQLReader`, `MSSQLReader`, `OracleReader`, `SQLiteReader` | what a source holds, and the rows that the catalogue queries of each dialect answer | |
| `SourceDatabase` | `collect_metadata` of any reader, then `filter_database`, then `materialize_views`, while another session may alter the source | the five readers |
| `Settings` | where a setting comes from: flags before and after the command, environment, file, default; what is refused | |
| `InitWizard` | the questions of `db2sql init` and the file made of the answers | `Settings` |
| `CommandLine` | a process of the command after another: parse, load, dispatch, work, exit code | `InitWizard` |
| `MigrateDatabase` | `db2sql migrate`: with blocks, transaction, failures, signals, exit code | `SqlScript`, refines `AtomicLoad` |
| `DumpReplay` | `db2sql dump`, cut anywhere, then `psql -f` | `SqlScript`, refines `AtomicLoad` |
| `*Proofs` | the theorems of the module they extend (`ForeignKeyProofs`: of `DependencyOrder` and `ForeignKeyTypes`); `SqlScriptProofs` has the lemmas that `MigrateDatabaseProofs` and `DumpReplayProofs` share | |
| `MC*`, `SmallDatabases` | the values of the constants for TLC | |

Operators whose comment begins "A faulty ..." are the mistakes that the
properties are known to detect; no specification uses them.

### Correspondence with the code

**DependencyOrder.**  `incoming`, `outgoing`, `ready`, `ordered` and `placed` are
the function's variables.  `Scan` is one step of the comprehension on line 50,
`Place` the head of the `while` loop, `Visit` one iteration of the loop on line
56, `AppendRest` one of the last.  The loop on line 56 runs over a Python set of
tuples of strings, whose order depends on the hash seed of the process: `Visit`
takes any child left.  `Blocked` is the reference definition of the tables no
order can serve: the largest set in which every table references another.

**ForeignKeyTypes.**  `emit_tables` asks `_aligned_type` for each column in turn:
`Keep` returns at once, `Ask` calls `_key_type`, `Follow` is its recursive call and
`Settle` its end with the comparison.  Types are their short spellings, an identity
column is numeric and stores an integer or a bigint.  The specification is called
`AlignSpec`, its invariant of types `AlignTypeOK`, so that `ForeignKeyProofs` can extend
this module and `DependencyOrder`.

**RotatingFileSink.**  A chunk is its size and whether it leaves a statement
open.  `disk` logs which chunk went to which part and where it ends there.
`boundary` is `AppendAtBoundary` or `RotateAtBoundary`; each way it can fail is
an action (`RotateFails`: the old part cannot be closed, or is closed and the next
cannot be opened, so `__exit__` meets its assertion or a closed stream;
`InterruptRotation`: a signal between `_rotate` and the flush; `FlushFails`: the
buffer is emptied and the write fails after some of it).  What is written to the
stream counts as delivered: the buffering of the stream, and what a failing
`close` loses of it, are left out.

**ExecutingSink.**  Text is tokens: some SQL, the semicolon that ends a
statement, one inside a literal, white space; the sink takes either semicolon for
the end of a statement (`IsSemicolon`).  `write` is `Write` (append, cut, keep the
remainder) and one `ExecutePiece` or `ExecutePieceFails` for each piece, one with
nothing to execute being passed over; `InterruptWrite` is a signal between the append and the cut.  `Exit`
is `flush`, which runs on an exception too.

**SqlScript and TargetDatabase.**  A statement is a record; `Script` is the
sequence that `_emit` and `_emit_and_load` share.  A row is a number: row *r* of
a table references row *r* of each of its parents, so that a foreign key holds
when the child's rows are among the parent's.  Every table has a primary key and
one index.  Of columns the model keeps two things: the tables with an identity
column (`Identities`; on SQL Server `IDENTITY(1,1)` refuses explicit values and
`DBCC CHECKIDENT` wants one, on PostgreSQL it is a serial, which minds neither), and
whether what a foreign key references is a primary key that the emitter declares, with a type
the server compares (`PrimaryKeyed`).  Views to materialize are tables of the Database.  `EmittedName` is
the name the emitter gives a table and `RawName` the name it has in the source,
which is the one `bulk_load` uses.

**MigrateDatabase.**  `Init` chooses the request, the foreign keys, the rows read
(a `LIMIT` has no `ORDER BY`), the order `topological_order` will answer (any
valid one; `DependencyOrder` implements that) and the state of the target.
`stage` is the place in `_execute_migrate`.  `partial` says that the sink's buffer
holds the first chunks of a `CREATE TABLE`, the only statement written in several
pieces.  `depth` counts open transactions: the driver opens one with the first
session statement, so the emitter's `BEGIN` is only a warning on PostgreSQL but
nests on SQL Server, and the emitter's `COMMIT` publishes on the first and only
decrements the count on the second.  `working` is the database as the connection
sees it, `durable` as others do.  A COMMIT that raises may or may not have been
done, and a signal may arrive at any stage.  `bulk_load` is one step: its batches
are in one transaction, and a failure of one of them is a failure of the step.

**SourceDatabase.**  A reader is the list of queries it asks, in its order
(`todo`), and what each query answers from the catalogue: the rows of
`KEY_COLUMN_USAGE` and its like, written as the joins that the SQL makes.  One
`Read...` action is one query and the loop over its rows; rows that the query does
not sort arrive in any order, rows with an `ORDER BY` in any order that it allows.
SQLite asks the last three queries for one table after another, so `todo` is
filled in again when the tables are known.  `AlterSource` lets another session drop
or add a column or a table, with its keys, between any two queries: nothing in the readers
holds a transaction that would prevent that.  `QueryFails` is any error of the
driver; the Oracle reader alone goes on, without identity columns, when their query
is refused.  `Filter` is
`filter_database`, and `MaterializeView` one turn of `materialize_views`, both on
the Database that was just read.

**CommandLine.**  A command line is the flags before the command, the flags after
it, the switches, and which of them are spelt in a way that only argparse
understands (`abbreviated`: `--source-d URL`, or `-WP 5432`), since the scan for
contradictions looks at the tokens (`FlagUsed`); `Parsed` is what argparse makes of them with its two parsers
(the root's defaults come from the environment, those of the subparsers are
suppressed), `Loaded` what `load_config` makes of a file, `Merged` what
`merge_cli_overrides` puts on top.  `stage` is the place in `main`: the
refusals of the parser, of the file, of the registry and of the request are actions of
their own in the order of the code, so that what was touched before each is part of
the state (`source`, `output`, `target`).  The work of a dump or a migration is
one step that succeeds or raises what the other modules say it raises.  `Exit` is `exit_code_from`;
`Interrupt` is the `sys.exit` of the signal handler, `InterruptExit` the same after
the `try` of `main`, where nothing turns it into code 7.  The wizard is a queue
of questions: an answer may put questions in front of the others, and a question
that is repeated stays.  `Again` runs the dump that follows an accepted
`validate` or a written configuration, with the same flags and environment.

**DumpReplay.**  `DumpCut` ends the file after any statement or inside one that
is written in several pieces.  The replay actions model psql, which is outside
the repository.

## 3. Runs

| Run | Question | Bounds |
|---|---|---|
| `order` | is the answer complete, valid, terminating, an implementation of `TableOrder`? | all 4096 graphs over three tables and a missing one: a cycle with a table downstream of it or apart from it, a diamond's two paths, self references |
| `rotation` | are the parts the dump, cut at boundaries and within the limit? | limit 3, chunks of 0, 1, 2 and 4 bytes (below, at and above the limit alone and together), five chunks, so three parts |
| `sink` | are exactly the emitted statements executed, and nothing after an error? | four statements, in one or three chunks, without a semicolon but at their ends |
| `key_types` | are foreign key columns given types that can be compared, and only where needed? does the walk end? | three columns, so chains of two references and cycles of three; integer and numeric are comparable one way, text with neither |
| `migrate_postgres` | is a migration atomic, accepted where it should be, and faithful? | three tables, all 512 graphs, three modes, four kinds of target |
| `migrate_mssql` | the same, without a transaction too, and equivalent to the replay of a dump; do `IDENTITY` and `DBCC CHECKIDENT` fit together? | three tables and one filtered, all 64 graphs over two of them, a limit of one row, a foreign key to a unique column, a table with an identity column and therefore empty; on the target any of three tables and of four foreign keys, or identity columns in any table |
| `migrate_renamed` | is a migration under a schema mapping equivalent to the replay? (violated) | two tables |
| `replay` | does a dump, however short it was cut, replay atomically and faithfully? | two tables under a schema mapping, both formats, a limit, four kinds of target |
| `source_database` | does the Database say what the source declares, whatever the order of the rows? does it hang together when the source changes? is each table loaded from one place? | three tables in two schemas, two of one name; keys of one and two columns; constraints of one name; a foreign key to a unique index; five dialects, one alteration, one failing query, three filters, two lists of two views |
| `source_foreign_keys` | are PostgreSQL's foreign keys read as declared? (violated) | the same catalogues, none altered |
| `command_line` | are refusals in time, are exit codes true, where do settings come from, why may a dump of what was accepted be refused? | any two settings over environment, files and command line (a contradiction needs two, an override two), spelt out or abbreviated, every command, two invocations, one repetition in the wizard, every failure and signal |
| `settings_environment` | does the file win over the environment? (violated) | the same |

Three tables are enough for the order of statements: a refusal involves a
statement and the two ends of one foreign key, and a third table makes chains,
cycles and a bystander.  Two rows are enough because statements treat rows as
sets: "all", "some" and "none" differ with two.

`SupportedLoadsAreNeverRefused` and `SupportedReplaysAreNeverRefused` say that the
server refuses no statement of a script for what `TargetDatabase` knows of it: the
order, names, keys, identity columns and rows.  Refusals over other definitions and
values of columns (a type or a default that the target does not have, a value too
long) are outside the model.  The preconditions (`Supported`) are findings of the
model:

* the target suits the mode (`MeantFor`): in drop mode there is no cycle of
  foreign keys between distinct tables, and the target has no foreign keys into the
  managed tables other than the source's;
* the indexes have names of their own (`IndexesDiffer`);
* the rows read are closed under the foreign keys (`ClosedUnder`; a row limit may
  break that);
* TRUNCATE mode has a source that lists parents first and, on SQL Server, no
  foreign key between the tables (`LoadsParentsFirst`);
* every foreign key to be added references the primary key of its table, with types
  the server compares (`KeysFit`): `emit_tables` declares nothing else that could be
  referenced, and a chain of references may leave a key with another type
  (`ForeignKeyTypes`);
* on SQL Server no row goes to a table with an identity column, and a table that
  is reseeded has one (`IdentitiesFit`).

The last two exclude many real sources.  On SQL Server a table with an identity
column and rows cannot be loaded at all, and on both servers a foreign key to
columns that are only unique stops the script (see the findings below).

Deadlock is checked in every run: each specification ends in an action that
stutters when the program has ended.

`FaithfulMetadata` has preconditions too (`Tellable`): no column is in a primary
key and in a unique constraint, constraints have names of their own (two primary
keys may share one, since the rows of both say the same of their columns), and per
dialect what its queries cannot tell: PostgreSQL, SQL Server and Oracle pair the
columns of a foreign key with those of the referenced key in the key's own order,
PostgreSQL does not order the columns of an index, PostgreSQL and SQL Server lose a
foreign key that references a unique index instead of a constraint (`Referencing`),
MySQL takes the referenced table to be in the same schema.
`ForeignKeysHaveTheirColumns` and `TypeOK` have none, and hold while the source
changes.

The violation runs show where the program and its documents disagree; each is a
finding in `PROJECT.json`:

* `migrate_renamed`: rows are loaded under the source's names;
* `source_foreign_keys`: PostgreSQL's foreign keys are paired by name and position
  alone;
* `settings_environment`: a variable overrides the file.

Read off the models without a run of their own:

* docs/cli.rst:170-174 says that a DSN beside a discrete flag is rejected before
  connecting; abbreviated or strung together, the flag is not noticed
  (parser.py:82-84 says so) and the DSN is used, in the runs of `command_line`
  too (`FlagUsed`; `ContradictionsTouchNothing` is restricted to flags spelt out);
* a semicolon in the default of a column (`DEFAULT 'a;b'`, which `column_definition`
  copies) cuts its `CREATE TABLE` in two, though the docstring of
  `_split_statements` (executing_sink.py:76-77) says that no literal has one.
  `ExecutesWholeStatements` and `NothingFollowsAnError` fail for such a statement
  (`literal` in `Token`): the first piece is refused, and the flush of `__exit__`
  executes the rest;
* with `--no-transaction` nothing is committed before the end, against
  docs/cli.rst:755-758, since the driver opens a transaction all the same
  (`depth`, writer.py:68);
* a foreign key to columns that are only unique in the source is refused by either
  server, after all of the data was loaded: `emit_tables` declares the primary key,
  and the unique columns get a plain index, later (`KeysFit`, postgres/emitter.py:410);
* SQL Server refuses the rows of a table with an identity column, since neither the
  emitter nor the writer sends `SET IDENTITY_INSERT` (`OwnValues`,
  mssql/emitter.py:179 and 387, mssql/writer.py:95);
* `DBCC CHECKIDENT` is sent for the source's identity columns, and is refused where
  the table on the target has none (`IdentitiesFit`, mssql/emitter.py:291);
* `--transaction-mode per_table` commits nothing after each table, against
  docs/cli.rst:748-750 and docs/configuration.rst:230-233: the option is parsed
  (parser.py:724), mapped (mapper.py:70) and stored (migrate_request.py:37), and nothing
  reads it.  So `MigrateDatabase` has no such mode, and `AllOrNothing` holds in either;
* the order of statements differs from one process to the next (`Visit` takes
  any child), though the comment in `emit_truncates` calls it stable;
* after an exception inside a block, `__exit__` writes the unfinished block to the
  last part, which the docstring of `RotatingFileSink` excludes;
* a block longer than `--split-size` gives a part longer than it, against
  docs/configuration.rst (`LimitAtBoundaries` states what does hold);
* the parts of an earlier, longer dump stay on disk and match the glob of
  docs/cli.rst;
* SQL Server refuses to truncate a table that a foreign key references, so that
  TRUNCATE mode cannot work there on tables with foreign keys
  (`LoadsParentsFirst`);
* errors of the source driver while rows are iterated, and of COMMIT, reach
  `exit_code_from` as they are: exit code 6, not the documented 1; an unreachable
  target gives 1, not the documented 5 (`ExitCode`, `ConnectFails`);
* fail mode does not look at the target: only a table of the same name stops it
  (`MeantFor`), while docs/cli.rst says it aborts if the target is not empty;
* `dump` accepts `on_existing: truncate`, which the docstring of `OnExisting` says
  it rejects (`Script`);
* the end of a chain of references decides the type of a foreign key column, so
  that a key in the middle may have another type than the column that references it, which
  PostgreSQL then refuses (`Settle`, emitter.py:271);
* TRUNCATE mode loads in source order, children before parents where the source
  lists them so, though docs/cli.rst:235-239 offers it for refreshing
  (`LoadsParentsFirst`, migrate_database.py:69).

Of the readers, each of which is a conjunct of `Tellable` or a line of a
reader's module:

* a column in a primary key and in a unique constraint keeps the kind of the row
  that arrives last;
* PostgreSQL does not order the columns of an index, and lists foreign key columns
  under the kind of another table's key of the same name;
* MySQL ignores the schema of the referenced table, and the included columns of an
  index of SQL Server become key columns;
* SQLite gives a foreign key without named columns the referenced column `None`,
  and reads a unique index, which the other readers skip, as a plain one;
* an Oracle source whose identity query is refused is read without identities;
* PostgreSQL and SQL Server lose a foreign key that references a unique index which is no
  constraint (`Referencing`);
* `add_index` does not look at the columns, so that an altered source or a view export may
  leave an index on a column that is not there.

Of the command line:

* `-i public,sales` is one schema of that name, while a file's list is split at commas
  (`Flattened`);
* a DSN of another dialect than the driver's gives code 1 after the output was
  truncated, not the documented 5 up front (`SourceMismatch`); a source that
  cannot be reached also gives 1, and an output that cannot be written 6
  (`ExitCode`);
* a file that is no YAML or JSON gives 6, since the parser's error is not a
  `ConfigError` (`LoadError`);
* `validate` accepts any `transaction_mode`, and a `split_size` without an
  `output_file`; `migrate` and `dump` then give 6 (`MigrateError`, `DumpError`);
  its dry run does not look at views.  `DumpRefusesOnlyWhatValidateIgnores` says that
  for a dump these two (`split_size`, and a DSN of another dialect) are all there is; a
  usage error of argparse looks like a signal there (both are `SystemExit`);
* `--on-existing` before `migrate` sets the option of `dump` only, and `--help`
  gives 7.

### Fairness

Only `DependencyOrder` and `ForeignKeyTypes` have a liveness property
(`Termination`, `AlignmentEnds`), under weak fairness of the next-state relation: the functions are sequential, wait for
nothing and are only assumed not to be suspended for ever.  The other modules state no liveness: a server or a disk
may take any time, and nothing in the code bounds it.

## 4. Proofs

| Theorem | For every |
|---|---|
| `ForeignKeyProofs`: `TypeCorrect`, `EveryTableIsAnsweredOnce`, `ParentsComeFirst`, `CyclesComeLast`, `ChildrenAreDroppedFirst`, `Implementation` | list of tables, graph and visiting order |
| `RotatingFileSinkProofs`: `TypeCorrect`, `DumpIsNotCorrupted`, `PartsAreCutAtBoundaries`, `PartsKeepTheLimit`, `RotationIsNeeded`, `Implementation` | limit, chunk sizes and number of chunks |
| `ForeignKeyProofs`: `AlignmentIsTyped`, `PlainKeys`, `NoNeedlessChange` | columns, types, references |
| `ExecutingSinkProofs`: `WholeStatements`, `ErrorsAreLast`, `Implementation` | statements, chunks they come in and number of them, under the hypothesis that no literal or name has a semicolon, which nothing in the code enforces |
| `MigrateDatabaseProofs`: `TypeCorrect`, `AtomicMigration`, `FaithfulMigration`, `SupportedMigration`, `EquivalentMigration`, `Implementation` | source, graph of foreign keys, names, limits, server, mode and target |
| `DumpReplayProofs`: `FaithfulDump`, `SupportedDump`, `Implementation` | the same, and format |
| `SourceDatabaseProofs`: `TypeCorrect`, `WholeForeignKeys`, `OneSource`, `ReadsWhatIsDeclared` | catalogue of each dialect, alteration of it, filter, list of exports |
| `CommandLineProofs`: `TypeCorrect`, `RefusalsTouchNothing`, `SuccessIsTrue`, `ContradictionsAreHarmless`, `LastWordCounts`, `RefusalsOfTheAccepted` | environment, files, command line, answers to the wizard, sequence of commands |

### Assumptions

They are those on the constants, and TLC evaluates each on the instances of the
runs.

* `DependencyOrder`, `RotatingFileSink`, `ForeignKeyTypes`: the tables of `Source` are
  distinct and not in `Absent`; the limit is positive and sizes are natural
  numbers; a column is listed once, is not among the missing ones, and "none" is
  neither a column nor a type.
* `TargetAssumption`, `ScriptAssumption`: the target is PostgreSQL or SQL Server; names
  are pairs of strings, every table has finitely many rows, a limit is an integer.
* `MigrationAssumption`, `DumpAssumption`: a target that the program may find is a
  database (`IsDatabase`): its tables are in schemas that exist, its keys, indexes and
  identity columns are of tables that exist.  A server keeps that true of itself.
* `CatalogueAssumption`: so does the catalogue of a source (`IsCatalogue`): it is
  finite, keys have columns, and those of keys and identities are columns of
  their tables.  Another session takes a catalogue to a catalogue.
* `ReferencesAssumption`: what a server keeps true of its foreign keys and indexes
  (`KeepsReferences`): they and the identities are of tables that exist, a foreign key has as many
  columns as it references, in its own table, and names are unique within a table.  Only
  `ReadsWhatIsDeclared` uses it, and only of the catalogue that was there at the start.
* `NoneAssumption`, `RegistryAssumption`, `StartsAssumption`: `None` is no command,
  exception or exit code; the registry knows its own names; a process has a list of
  flags, and only `validate` names a file.
* `EmitterAssumption`: a statement is a sequence of chunks, a chunk a sequence of tokens.

The theorems of `ExecutingSinkProofs` have the hypothesis `NoLiteralSemicolons`: a
statement ends with its only semicolon, but for white space.  It is what the docstring of
`_split_statements` claims, and the statements of the run `sink` satisfy it; a
column whose default has a semicolon does not, and section 3 says what
happens then.  So the three theorems are about migrations of sources without such
defaults and names, not about every migration.

`SupportedMigration` and `SupportedDump` have the hypothesis `Supported` (section 3).
`ContradictionsAreHarmless` has the hypothesis that no flag of the command line is
abbreviated.

### Arguments

*Order.*  That parents come first is not inductive.  `IInv` relates the edges left
to what was placed (an edge is discarded exactly when its parent is placed and it
was visited), the queue to the edges (a table is queued or placed once all its
parents are), the answer to the queue, and, in the last loop, the tail of the answer
to the source order.  When the queue is empty each table left still has a parent
left, so the rest is a self-supporting set, hence in `Blocked`; conversely no
member of a self-supporting set was ever placed.  That gives `ValidOrder`, from
which the properties and the refinement follow.

*Types.*  What PostgreSQL accepts is reflexive and transitive (a lemma), so that in
a source whose types are comparable the key the walk has reached always accepts the
column it started from; `IInv` carries that along the chain.

*Rotation.*  `IInv` says that the log and the buffer concatenate to what was
accepted until a failure, that sizes are the sums the code keeps, that
`currentSize` is the end of the last chunk of the current part, and then the three
properties, which are inductive on top of that.

*The sink of migrate.*  `IInv` says where in a statement the sink is (`InStep`): the
statement is open in the buffer, with no semicolon yet, or it is the one piece to execute, or it has been
executed and white space is left; and it accounts for every token written
(`Accounts`): the executed text, the piece and the buffer make up the accepted text, and
after an exception a lost rest follows them.  A statement that failed was the only
piece, so the buffer is blank and `__exit__` has nothing to flush (`Errors`); this is
why nothing follows an error, and it needs the hypothesis, since after a second piece
or a cut literal the buffer would hold text.  That stripping and flattening take
concatenations apart is proved from the definition of `FlattenSeq` by induction over a
set of numbers, and `CutNone` and `CutOne` say what `Pieces` and `Remainder` make of a text with
no semicolon and with one.

*Migration and replay: atomicity.*  `IInv` relates the place the program is at, the
exception on its way and the open transactions: a program that is still emitting
has published nothing, and one that leaves its with blocks without an exception has
run the whole script.  This part expands no definition of `SqlScript` or
`TargetDatabase`: atomicity depends neither on the statements nor on the server's
rules for them.

*Migration and replay: what the script does.*  `SqlScriptProofs` avoids folding over
the script.  A statement belongs to a stage (schemas, drops, tables, loads, keys,
indexes), a script is its set of statements with what must hold of any two of which
one comes before the other (`MayPrecede`: the stages in order, a child dropped before its parent,
a parent loaded before its child where the target has a key), and `Effect` says
what a database is after a set of statements, in terms of the database before and
of that set alone.  One more statement takes the effect of a set to that of the set with it
(a lemma for each kind), so that "the working copy is the effect of the
statements before `position`" is an invariant.  The effect of the whole script is `Faithful`;
and what `Accepts` asks of the next statement follows from what came before it and
what `MeantFor`, `LoadsParentsFirst`, `ClosedUnder` and `IndexesDiffer` say of the target.  That the
concatenations in `Script` have these statements in that order is proved by
induction over the numbers, as a statement about sets of them.

*Migration and replay: the same outcome.*  `EquivalentMigration` does follow the scripts
statement by statement, because a refusal of one must be one of the other.
`Continued` takes the outcome of a concatenation apart, so that only the loads have
to be compared, and only from databases that the statements before them leave
(`Loadable`: the tables are there, and their rows satisfy their keys).  From such a
database, rows one by one are accepted when all of them at once are (`OneRowMore`,
`RowByRow`), and an empty COPY block does what sending nothing does (`NoRows`);
`SameLoads` adds the tables up.  `CourseInv` ties the working copy to the outcome of the
statements before `position`.  The hypothesis `KeepsNames` is needed: where a name
is mapped or folded, `bulk_load` looks for the source's name.

*Source.*  That a key has its columns is not inductive, since `ReadColumns` replaces
columns.  `Ahead` says of every query still to be asked that what it replaces is
empty or not yet referred to; it holds because the rest of `todo` is in order
(`InOrder`: the tables before all else, the columns of a table before its keys and indexes,
and SQLite asks no table twice), which is proved of each reader's list and of
the queries that SQLite asks per table.  `Selected` says when the tables are those in scope,
provided the source has not changed: not before "tables" was answered, which needs
"schemas" to have been asked first where a reader asks for it.  `Exported`
counts the views.  `DistinctNames` is an induction along the list of answers of
a view.

*Source: what is read is what is declared.*  `Truthful` says, while the source has not changed,
that all the Database holds is declared (`Sound`), and that what the answer to a query
tells of a table is either in the Database or still to be asked (`Told`, `Pending`): no later answer
takes back what was told, and at the end nothing is left to ask.  The
one answer that may be missing, Oracle's identity columns, is the last one (`IdentityLast`),
so that its failure leaves nothing else untold.  That an answer tells what it should
is proved of each reader's join: under `Tellable` the rows of one name are those of one
constraint, numbered from 1; any arrangement of a finite set of rows by their numbers
puts the n-th row in the n-th place (`InTurn`), so that the columns taken from
it are the declared ones, whatever order the rows arrived in.

*Command line.*  `Pristine` says that nothing is touched before the stages of
work, and that an exception or a code that blames the configuration only comes
from before them; `ByCommand` says how far each command can come, and with what
done.  Both are inductive together with `SuccessMeansDone`.  `Checked` (what is
past parsing was not refused) is a second invariant, from which it follows that
a contradiction never leaves the first stage.  That a dump
refuses of what was accepted only what `validate` does not look at relates two
processes: `Trusted` says that the next one is started with the same flags and
environment and finds the same file, `Sound` that the file and the flags pass every
other test that a dump makes, and `AnswersOK` that a file in the making is made of
answers the wizard has let pass.

`DefaultSettings` is written as a function on `SettingNames` because the operators
`@@` and `:>` have no definition that the prover knows.

### Model-checked only

* `Termination` of `DependencyOrder` and `AlignmentEnds` of `ForeignKeyTypes`: liveness
  is out of the prover's reach.
* `EquivalentToReplay` is proved under `KeepsNames`; that it fails without is the
  finding of `migrate_renamed`, which TLC shows.

Every invariant and every refinement that a passing run checks is stated by a
theorem; the properties of the violation runs have none.

## 5. Not modelled, and the plan

Not modelled: types, defaults, lengths and value formats of columns, quoting and
the regular expressions of identifiers, help texts, the discovery of entry points,
what is logged and in which colours, options that are not valid
Unicode (the final validation of `merge_cli_overrides` refuses them, before anything is touched), the installer, the examples and the Docker
files.  `PROJECT.json` says for each component what is left out.  Hazards without a
property (serial sequences after explicit values, index names, a dump file
truncated before the source is reached, ...) are listed there with the reason.

The order so far put first what every other part relies on: the order of tables,
the sinks, the script and its two executions, then where the Database comes from
and how the command is driven.  Left, in this order:

1. `WriterBulkLoad`: the batches of the SQL Server writer; they concatenate to the
   rows, each within the limit.
2. In `DumpReplay`: replay without a transaction, and the truncation of the old
   file before the source is read.
3. The parts of the SQL Server emitter that have no counterpart on PostgreSQL
   (the translation of defaults, `CREATE SCHEMA` in a batch of its own).
