--------------------------- MODULE SourceDatabase ---------------------------
(***************************************************************************)
(* How the Database that a dump or a migration works on comes about: the   *)
(* reader of one of five dialects asks the catalogue of the source query   *)
(* by query (collect_metadata), filter_database keeps what the rules       *)
(* select, and materialize_views adds a table for each exported query.     *)
(*                                                                         *)
(* Nothing locks the source: another session may change its tables between *)
(* two queries.                                                            *)
(***************************************************************************)
EXTENDS CatalogueRows, FiniteSets

CONSTANTS
  Home,           \* the schema that MySQL, SQLite and options.owner read
  Catalogues(_),  \* the catalogues that a source of a dialect may have
  Alterations(_, _), \* the catalogues that another session may change one to
  Rules,          \* the filter rules of the configuration
  Views,          \* the lists of view exports of the configuration
  MaxAlterations  \* how often other sessions change the source

Postgres == INSTANCE PostgresReader
MySQL    == INSTANCE MySQLReader
MSSQL    == INSTANCE MSSQLReader
Oracle   == INSTANCE OracleReader
SQLite   == INSTANCE SQLiteReader

Dialects == {"postgres", "mysql", "mssql", "oracle", "sqlite"}

ASSUME CatalogueAssumption ==
  /\ MaxAlterations \in Nat
  /\ \A of \in Dialects : \A c \in Catalogues(of) :
       IsCatalogue(c) /\ Alterations(of, c) \subseteq Catalogues(of)
  /\ \A list \in Views :
       /\ list \in Seq(Elements(list))
       /\ \A view \in Elements(list) : view.answers \in Seq(STRING)

ASSUME ReferencesAssumption ==
  \A of \in Dialects : \A c \in Catalogues(of) : KeepsReferences(c)

VARIABLES
  dialect,     \* the dialect of the source
  owner,       \* options.owner is set (Oracle)
  catalogue,   \* what the source holds now
  alterations, \* how often it has changed
  rules,       \* the filter
  views,       \* the view exports of the configuration
  added,       \* how many of them have been materialized
  todo,        \* the queries the reader has still to ask
  stage,       \* "reading", "filtering", "views", "done", or the error
  complete,    \* FALSE when the Oracle reader went on without an answer
  database     \* the Database so far

request == <<dialect, owner, rules, views>>

source == <<catalogue, alterations>>

vars == <<request, source, added, todo, stage, complete, database>>

Queries ==
  CASE dialect = "postgres" -> Postgres!Queries
    [] dialect = "mysql"    -> MySQL!Queries
    [] dialect = "mssql"    -> MSSQL!Queries
    [] dialect = "oracle"   -> Oracle!Queries
    [] dialect = "sqlite"   -> SQLite!Queries

KeyRows(c) ==
  CASE dialect = "postgres" -> Postgres!KeyRows(c)
    [] dialect = "mysql"    -> MySQL!KeyRows(c)
    [] dialect = "mssql"    -> MSSQL!KeyRows(c)
    [] dialect = "oracle"   -> Oracle!KeyRows(c)
    [] dialect = "sqlite"   -> SQLite!KeyRows(c)

ForeignKeyRows(c) ==
  CASE dialect = "postgres" -> Postgres!ForeignKeyRows(c)
    [] dialect = "mysql"    -> MySQL!ForeignKeyRows(c)
    [] dialect = "mssql"    -> MSSQL!ForeignKeyRows(c)
    [] dialect = "oracle"   -> Oracle!ForeignKeyRows(c)
    [] dialect = "sqlite"   -> SQLite!ForeignKeyRows(c)

IndexRows(c) ==
  CASE dialect = "postgres" -> Postgres!IndexRows(c)
    [] dialect = "mysql"    -> MySQL!IndexRows(c)
    [] dialect = "mssql"    -> MSSQL!IndexRows(c)
    [] dialect = "oracle"   -> Oracle!IndexRows(c)
    [] dialect = "sqlite"   -> SQLite!IndexRows(c)

IdentityOfColumns(c) ==
  CASE dialect = "postgres" -> Postgres!IdentityOfColumns(c)
    [] dialect = "mysql"    -> MySQL!IdentityOfColumns(c)
    [] dialect = "mssql"    -> MSSQL!IdentityOfColumns(c)
    [] dialect = "oracle"   -> Oracle!IdentityOfColumns(c)
    [] dialect = "sqlite"   -> SQLite!IdentityOfColumns(c)

IdentityRows(c) ==
  CASE dialect = "mssql"  -> MSSQL!IdentityRows(c)
    [] dialect = "oracle" -> Oracle!IdentityRows(c)

(* The schemas that the queries are restricted to.                         *)
Schemas(c) ==
  CASE dialect \in {"mysql", "sqlite"} -> {Home}
    [] dialect = "oracle"              -> Oracle!SchemaFilter(owner, c)
    [] OTHER                           -> {table.schema : table \in DOMAIN c.columns}

EmptyDatabase ==
  [schemas |-> {}, columns |-> <<>>, constraint |-> <<>>, foreignKeys |-> {},
   indexes |-> {}, identity |-> {}, queries |-> <<>>]

Tables == DOMAIN database.columns

HasColumn(table, column) ==
  table \in Tables /\ column \in Elements(database.columns[table])

Init ==
  /\ dialect \in Dialects
  /\ owner \in (IF dialect = "oracle" THEN BOOLEAN ELSE {FALSE})
  /\ catalogue \in Catalogues(dialect)
  /\ alterations = 0
  /\ rules \in Rules
  /\ views \in Views
  /\ added = 0
  /\ todo = [i \in 1..Len(Queries) |-> [query |-> Queries[i], of |-> {}]]
  /\ stage = "reading"
  /\ complete = TRUE
  /\ database = EmptyDatabase

-----------------------------------------------------------------------------
(* collect_metadata: the next query is answered, and its rows entered.     *)
Asks(query) == stage = "reading" /\ todo # <<>> /\ Head(todo).query = query

(* The tables whose rows the query answers: SQLite is asked one by one.    *)
Asked(table) == Head(todo).of \in {{}, {table}}

Answered(new) ==
  /\ database' = new
  /\ todo' = Tail(todo)
  /\ stage' = IF Len(todo) = 1 THEN "filtering" ELSE "reading"
  /\ UNCHANGED <<request, source, added, complete>>

ReadSchemas ==
  /\ Asks("schemas")
  /\ Answered([database EXCEPT !.schemas = Schemas(catalogue)])

(* What SQLite is asked of one table after another.                        *)
QueriesAbout(tables) ==
  [i \in 1..(3 * Len(tables)) |->
     [query |-> SQLite!QueriesOfTable[((i - 1) % 3) + 1], of |-> {tables[((i - 1) \div 3) + 1]}]]

(* A table whose schema is not in the Database is dropped (add_table);     *)
(* PostgreSQL adds the schemas with the tables, MySQL and SQLite their own.*)
ReadTables ==
  /\ Asks("tables")
  /\ LET own == IF dialect = "postgres" THEN Schemas(catalogue)
                ELSE IF dialect \in {"mysql", "sqlite"} THEN {Home} ELSE {}
         schemas == database.schemas \cup own
         listed == {table \in DOMAIN catalogue.columns :
                      table.schema \in Schemas(catalogue) \cap schemas}
     IN \E order \in (IF dialect = "sqlite" THEN SetToSeqs(listed) ELSE {<<>>}) :
          /\ database' = [database EXCEPT !.schemas = schemas,
                                          !.columns = [table \in listed |-> <<>>]]
          /\ todo' = IF dialect # "sqlite" THEN Tail(todo) ELSE QueriesAbout(order)
          /\ stage' = IF todo' = <<>> THEN "filtering" ELSE "reading"
  /\ UNCHANGED <<request, source, added, complete>>

(* The kinds of key that some row gives a column.                          *)
Kinds(rows, place) ==
  {row.kind : row \in {row \in rows : <<row.table, row.column>> = place}}

(* Rows of keys arrive in any order, and the last one of a column stands.  *)
Constrained(base, rows) ==
  LET places == {place \in {<<row.table, row.column>> : row \in rows} :
                   HasColumn(place[1], place[2]) /\ Asked(place[1])}
  IN {new \in [places \cup DOMAIN base -> {"PRIMARY KEY", "UNIQUE"}] :
        \A place \in DOMAIN new :
          new[place] \in IF place \in places THEN Kinds(rows, place) ELSE {base[place]}}

(* Tables that are not in the Database are passed over.  table_info tells  *)
(* SQLite the primary key at the same time.                                *)
ReadColumns ==
  /\ Asks("columns")
  /\ LET known == {table \in Tables \cap DOMAIN catalogue.columns : Asked(table)}
         columns == [table \in Tables |->
                       IF table \in known THEN catalogue.columns[table]
                       ELSE database.columns[table]]
         keys == IF dialect # "sqlite" THEN {}
                 ELSE {row \in KeyRows(catalogue) : row.table \in known}
     IN Answered([database EXCEPT
                    !.columns = columns,
                    !.constraint = [place \in DOMAIN @ \cup {<<row.table, row.column>> : row \in keys} |->
                                      IF place \in DOMAIN @ THEN @[place] ELSE "PRIMARY KEY"],
                    !.identity = @ \cup {place \in IdentityOfColumns(catalogue) :
                                           place[1] \in known}])

ReadComputedColumns ==
  /\ Asks("computed columns")
  /\ Answered(database)

ReadIdentity ==
  /\ Asks("identity")
  /\ Answered([database EXCEPT !.identity = @ \cup
                 {place \in IdentityRows(catalogue) : HasColumn(place[1], place[2])}])

ReadConstraints ==
  /\ Asks("constraints")
  /\ \E new \in Constrained(database.constraint, KeyRows(catalogue)) :
       Answered([database EXCEPT !.constraint = new])

(* attach_foreign_keys: the rows of a constraint become one foreign key,   *)
(* unless its table or a column of it is not in the Database.              *)
ForeignKey(rows) ==
  [table |-> rows[1].table, name |-> rows[1].key,
   columns |-> [i \in 1..Len(rows) |-> rows[i].column],
   refTable |-> rows[1].refTable,
   refColumns |-> [i \in 1..Len(rows) |-> rows[i].refColumn]]

(* A faulty attach_foreign_keys that looks at the table only.              *)
AttachableToTable(rows) == \A row \in rows : row.table \in Tables

Attachable(rows) == \A row \in rows : HasColumn(row.table, row.column)

ReadForeignKeys ==
  /\ Asks("foreign keys")
  /\ LET groups == {rows \in Groups({row \in ForeignKeyRows(catalogue) :
                                       Asked(row.table) /\ row.table.schema \in Schemas(catalogue)}) :
                      Attachable(rows)}
     IN \E order \in Arrivals(groups) :
          Answered([database EXCEPT !.foreignKeys =
                      @ \cup {ForeignKey(order[rows]) : rows \in groups}])

(* add_index asks for the table only.                                      *)
Index(rows) ==
  [table |-> rows[1].table, name |-> rows[1].key,
   columns |-> [i \in 1..Len(rows) |-> rows[i].column]]

ReadIndexes ==
  /\ Asks("indexes")
  /\ LET groups == Groups({row \in IndexRows(catalogue) : row.table \in Tables /\ Asked(row.table)})
     IN \E order \in Arrivals(groups) :
          Answered([database EXCEPT !.indexes = @ \cup {Index(order[rows]) : rows \in groups}])

(* A query fails: SourceReaderError, except that the Oracle reader does    *)
(* without the identity columns when their query is refused, whatever the  *)
(* reason, and not when it fails among its rows.                           *)
QueryFails ==
  /\ stage = "reading" /\ todo # <<>>
  /\ \/ stage' = "SourceReaderError" /\ UNCHANGED <<complete, todo>>
     \/ /\ dialect = "oracle" /\ Head(todo).query = "identity"
        /\ complete' = FALSE /\ stage' = "filtering" /\ todo' = Tail(todo)
  /\ UNCHANGED <<request, source, added, database>>

(* Another session changes the source.                                     *)
AlterSource ==
  /\ stage = "reading" /\ alterations < MaxAlterations
  /\ catalogue' \in Alterations(dialect, catalogue)
  /\ alterations' = alterations + 1
  /\ UNCHANGED <<request, added, todo, stage, complete, database>>
-----------------------------------------------------------------------------
(* filter_database: rules name schemas, and tables with or without schema. *)
Names(table, tables) == table \in tables \/ [table EXCEPT !.schema = "any"] \in tables

Included(table) ==
  /\ table.schema \notin rules.excludeSchemas
  /\ rules.includeSchemas # {} => table.schema \in rules.includeSchemas
  /\ ~Names(table, rules.excludeTables)
  /\ rules.includeTables # {} => Names(table, rules.includeTables)

(* A faulty filter that deletes the tables and leaves the rest.            *)
PrunedSchemasKept(base, kept) ==
  [base EXCEPT !.columns = [table \in kept |-> @[table]]]

(* What belongs to tables that are kept goes with them; a schema without   *)
(* tables is dropped.  Foreign keys to tables that are not kept stay.      *)
Pruned(base, kept) ==
  [schemas |-> {table.schema : table \in kept},
   columns |-> [table \in kept |-> base.columns[table]],
   constraint |-> [place \in {place \in DOMAIN base.constraint : place[1] \in kept} |->
                     base.constraint[place]],
   foreignKeys |-> {reference \in base.foreignKeys : reference.table \in kept},
   indexes |-> {index \in base.indexes : index.table \in kept},
   identity |-> {place \in base.identity : place[1] \in kept},
   queries |-> base.queries]

Filter ==
  /\ stage = "filtering"
  /\ database' = Pruned(database, {table \in Tables : Included(table)})
  /\ stage' = "views"
  /\ UNCHANGED <<request, source, added, todo, complete>>

(* materialize_views: the columns are those the query answers, one for     *)
(* columns of the same name, with the primary key and the indexes asked    *)
(* for; source_query says where the rows come from.                        *)
KeyIsKnown(view) == Elements(view.primaryKey) \subseteq Elements(view.answers)

Distinct(names) ==
  LET known[i \in 0..Len(names)] ==
        IF i = 0 THEN <<>>
        ELSE IF names[i] \in Elements(known[i - 1]) THEN known[i - 1]
        ELSE Append(known[i - 1], names[i])
  IN  known[Len(names)]

WithView(base, view) ==
  LET tables == DOMAIN base.columns \cup {view.table}
      key == {view.table} \X Elements(view.primaryKey)
  IN [base EXCEPT
        !.schemas = @ \cup {view.table.schema},
        !.columns = [table \in tables |->
                       IF table = view.table THEN Distinct(view.answers) ELSE @[table]],
        !.constraint = [place \in DOMAIN @ \cup key |->
                          IF place \in key THEN "PRIMARY KEY" ELSE @[place]],
        !.indexes = @ \cup {[table |-> view.table, name |-> index.name, columns |-> index.columns] :
                             index \in view.indexes},
        !.queries = [table \in DOMAIN @ \cup {view.table} |->
                       IF table = view.table THEN view ELSE @[table]]]

View == views[added + 1]

(* A faulty add_table that passes over a table that is there already.      *)
MaterializeNewView ==
  /\ stage = "views" /\ added < Len(views)
  /\ KeyIsKnown(View)
  /\ database' = IF View.table \in Tables THEN database ELSE WithView(database, View)
  /\ added' = added + 1
  /\ UNCHANGED <<request, source, todo, stage, complete>>

MaterializeView ==
  /\ stage = "views" /\ added < Len(views)
  /\ KeyIsKnown(View) /\ View.table \notin Tables
  /\ database' = WithView(database, View)
  /\ added' = added + 1
  /\ UNCHANGED <<request, source, todo, stage, complete>>

(* The query fails, the key names an unknown column (ValueError) or the    *)
(* table is there already (DuplicatedTableError): the use case ends.       *)
ViewFails ==
  /\ stage = "views" /\ added < Len(views)
  /\ stage' = "view failed"
  /\ UNCHANGED <<request, source, added, todo, complete, database>>

ViewsDone ==
  /\ stage = "views" /\ added = Len(views)
  /\ stage' = "done"
  /\ UNCHANGED <<request, source, added, todo, complete, database>>

Ended == stage \in {"done", "SourceReaderError", "view failed"} /\ UNCHANGED vars

Next ==
  \/ ReadSchemas \/ ReadTables \/ ReadColumns \/ ReadComputedColumns \/ ReadIdentity
  \/ ReadConstraints \/ ReadForeignKeys \/ ReadIndexes \/ QueryFails \/ AlterSource
  \/ Filter \/ MaterializeView \/ ViewFails \/ ViewsDone \/ Ended

Spec == Init /\ [][Next]_vars
-----------------------------------------------------------------------------
InScope(table) == table.schema \in Schemas(catalogue)

Read == {table \in DOMAIN catalogue.columns : InScope(table)}

PrimaryKeys(constraint) == {place \in DOMAIN constraint : constraint[place] = "PRIMARY KEY"}

(* The parts of the Database fit together while it is built: what is said  *)
(* of a column is said of one of a table that is there, and every table    *)
(* is in a schema that is there.                                           *)
TypeOK ==
  /\ dialect \in Dialects /\ owner \in BOOLEAN /\ complete \in BOOLEAN
  /\ stage \in {"reading", "filtering", "views", "done", "SourceReaderError", "view failed"}
  /\ alterations \in 0..MaxAlterations /\ added \in 0..Len(views)
  /\ stage = "reading" => todo # <<>>
  /\ {table.schema : table \in Tables} \subseteq database.schemas
  /\ \A place \in DOMAIN database.constraint \cup database.identity : HasColumn(place[1], place[2])
  /\ \A index \in database.indexes : index.table \in Tables
  /\ DOMAIN database.queries \subseteq Tables

(* A foreign key has all its columns in its table, each paired with one of *)
(* the referenced key, or it is not in the Database (docstring of          *)
(* attach_foreign_keys); also when the source changes while it is read,    *)
(* and after the filter.                                                   *)
ForeignKeysHaveTheirColumns ==
  \A reference \in database.foreignKeys :
    /\ reference.columns # <<>>
    /\ Len(reference.columns) = Len(reference.refColumns)
    /\ \A i \in 1..Len(reference.columns) : HasColumn(reference.table, reference.columns[i])

(* What the readers can tell from the answers of the catalogue.            *)
ColumnsHaveOneKey ==
  \A one, other \in catalogue.keys :
    (one.table = other.table /\ Elements(one.columns) \cap Elements(other.columns) # {}) =>
      one.kind = other.kind

(* Two primary keys of one name are told apart by their columns.           *)
NamesAreDistinct ==
  /\ \A one \in catalogue.references : \A other \in catalogue.keys \cup catalogue.references :
       SameName(one, other) => one = other
  /\ \A one, other \in catalogue.keys :
       SameName(one, other) => one = other \/ {one.kind, other.kind} = {"PRIMARY KEY"}

Tellable ==
  /\ ColumnsHaveOneKey
  /\ NamesAreDistinct \/ dialect = "sqlite"
  /\ dialect \in {"postgres", "mssql", "oracle"} =>
       \A reference \in catalogue.references : reference.refs = reference.key.columns
  /\ dialect \in {"postgres", "mssql"} =>
       \A reference \in catalogue.references : reference.key \in catalogue.keys
  /\ dialect = "postgres" => \A index \in catalogue.indexes : Len(index.columns) = 1
  /\ dialect = "mysql" =>
       \A reference \in catalogue.references : reference.key.table.schema = Home

(* Where constraints have names of their own, no column is in two keys,    *)
(* nothing changes meanwhile and the dialect's catalogue tells enough, the *)
(* Database is what the source declares, whatever the order of the rows:   *)
(* tables, columns, primary keys, foreign keys column by column, and       *)
(* indexes in the order of their columns.                                  *)
FaithfulMetadata ==
  (stage = "filtering" /\ alterations = 0 /\ Tellable) =>
    /\ Tables = Read
    /\ \A table \in Tables : database.columns[table] = catalogue.columns[table]
    /\ PrimaryKeys(database.constraint) =
         UNION {{key.table} \X Elements(key.columns) :
                key \in {key \in catalogue.keys : key.kind = "PRIMARY KEY" /\ InScope(key.table)}}
    /\ database.foreignKeys =
         {[table |-> reference.table, name |-> reference.name, columns |-> reference.columns,
           refTable |-> reference.key.table, refColumns |-> reference.refs] :
          reference \in {reference \in catalogue.references : InScope(reference.table)}}
    /\ \A index \in {index \in catalogue.indexes : InScope(index.table) /\ ~index.unique} :
         [table |-> index.table, name |-> index.name, columns |-> index.columns] \in database.indexes
    /\ (dialect # "sqlite" /\ complete) =>
         database.identity = {place \in catalogue.identity : InScope(place[1])}

(* A table is loaded from the source table of its name or from one export, *)
(* never from another: no export replaces a table or another export, and   *)
(* its rows are as wide as its table if their columns have names of their  *)
(* own.                                                                    *)
EveryTableHasOneSource ==
  stage = "done" =>
    /\ Cardinality(DOMAIN database.queries) = Len(views)
    /\ \A table \in DOMAIN database.queries :
         LET answers == database.queries[table].answers
         IN Cardinality(Elements(answers)) = Len(answers) =>
              Len(database.columns[table]) = Len(answers)
    /\ alterations = 0 =>
         {table \in Read : Included(table)} = Tables \ DOMAIN database.queries

-----------------------------------------------------------------------------
(* "The n-th local column references the n-th referenced column"           *)
(* (docstring of ForeignKey): not for two constraints of one name, which   *)
(* PostgreSQL allows in two tables, nor for a constraint that lists the    *)
(* columns of the key in another order.                                    *)
ForeignKeysAreParallel ==
  (stage = "filtering" /\ dialect = "postgres" /\ alterations = 0) =>
    \A reference \in database.foreignKeys :
      \E declared \in catalogue.references :
        /\ reference.table = declared.table /\ reference.name = declared.name
        /\ reference.columns = declared.columns
        /\ reference.refColumns = declared.refs
=============================================================================
