--------------------------- MODULE TargetDatabase ---------------------------
(***************************************************************************)
(* The target server as far as db2sql depends on it: which statements of a *)
(* script it accepts, and what an accepted one does.  This is code outside *)
(* the repository, modelled from the statements the emitters and writers   *)
(* send and from the documented behaviour of the two servers.              *)
(*                                                                         *)
(* A table name is a pair <<schema, identifier>>.  Rows are numbered so    *)
(* that the row r of a table references the row r of each of its parents;  *)
(* a foreign key holds when every row finds the one it references, and     *)
(* every table has a primary key, so that a row is inserted only once.     *)
(* Of a column the model keeps what the statements of a script can fail    *)
(* on: that it is the table's identity column, and that the columns a      *)
(* foreign key references are the primary key of the table created, with   *)
(* types the server compares.  Other definitions of columns and other      *)
(* values are not modelled.                                                *)
(***************************************************************************)
EXTENDS Naturals

CONSTANT Target \* the dialect: "postgres" or "mssql"

ASSUME TargetAssumption == Target \in {"postgres", "mssql"}

(* A database: its schemas, the rows of each table that exists, the        *)
(* foreign keys as <<child, parent>> pairs, the indexes as <<table, name>>,*)
(* the tables with an identity column.                                     *)
EmptyDatabase ==
  [schemas |-> {}, rows |-> << >>, keys |-> {}, indexes |-> {}, identity |-> {}]

Existing(db) == DOMAIN db.rows

(* What every server keeps true of its catalogue.                          *)
IsDatabase(db) ==
  /\ db = [schemas |-> db.schemas, rows |-> db.rows, keys |-> db.keys,
           indexes |-> db.indexes, identity |-> db.identity]
  /\ db.rows = [n \in Existing(db) |-> db.rows[n]]
  /\ \A n \in Existing(db) : n[1] \in db.schemas
  /\ db.keys \subseteq Existing(db) \X Existing(db)
  /\ \A index \in db.indexes : index[1] \in Existing(db)
  /\ db.identity \subseteq Existing(db)

Holds(rows, key) == rows[key[1]] \subseteq rows[key[2]]

Inserted(db, table, rows) ==
  [n \in Existing(db) |-> IF n = table THEN db.rows[n] \cup rows ELSE db.rows[n]]

-----------------------------------------------------------------------------
(* CreateTable says whether a column is an identity column, and AddKey     *)
(* whether what it references is the primary key CreateTable declared;     *)
(* Reseed is DBCC CHECKIDENT.                                              *)
CreateSchema(schema)         == [kind |-> "schema", schema |-> schema]
DropTable(table)             == [kind |-> "drop", table |-> table]
Truncate(tables)             == [kind |-> "truncate", tables |-> tables]
Reseed(table)                == [kind |-> "reseed", table |-> table]
CreateTable(table, identity) == [kind |-> "create", table |-> table, identity |-> identity]
Load(table, rows)            == [kind |-> "load", table |-> table, rows |-> rows]
LoadNothing(table)           == [kind |-> "nothing", table |-> table]
AddKey(table, parent, toKey) ==
  [kind |-> "key", table |-> table, parent |-> parent, toKey |-> toKey]
CreateIndex(table, index)    == [kind |-> "index", table |-> table, index |-> index]

(* PostgreSQL keeps the indexes of a schema in one name space, SQL Server  *)
(* those of a table.                                                       *)
IndexClash(db, s) ==
  \E other \in db.indexes :
    /\ other[2] = s.index
    /\ IF Target = "postgres" THEN other[1][1] = s.table[1] ELSE other[1] = s.table

(* SQL Server takes no value for an identity column unless SET             *)
(* IDENTITY_INSERT was sent, which no emitter or writer does.              *)
OwnValues(db, table) == Target = "mssql" /\ table \in db.identity

Accepts(db, s) ==
  CASE s.kind = "schema"   -> TRUE
    [] s.kind = "nothing"  -> TRUE
    [] s.kind = "drop"     -> \A key \in db.keys : key[2] = s.table => key[1] = s.table
    [] s.kind = "truncate" -> /\ s.tables \subseteq Existing(db)
                              /\ \A key \in db.keys : key[2] \in s.tables => key[1] \in s.tables
    [] s.kind = "reseed"   -> s.table \in db.identity
    [] s.kind = "create"   -> s.table[1] \in db.schemas /\ s.table \notin Existing(db)
    [] s.kind = "load"     -> /\ s.table \in Existing(db)
                              /\ OwnValues(db, s.table) => s.rows = {}
                              /\ db.rows[s.table] \cap s.rows = {}
                              /\ \A key \in db.keys :
                                   key[1] = s.table => Holds(Inserted(db, s.table, s.rows), key)
    [] s.kind = "key"      -> /\ s.toKey
                              /\ {s.table, s.parent} \subseteq Existing(db)
                              /\ Holds(db.rows, <<s.table, s.parent>>)
    [] s.kind = "index"    -> s.table \in Existing(db) /\ ~IndexClash(db, s)

After(db, s) ==
  CASE s.kind = "schema"   -> [db EXCEPT !.schemas = @ \cup {s.schema}]
    [] s.kind = "nothing"  -> db
    [] s.kind = "reseed"   -> db
    [] s.kind = "drop"     -> [db EXCEPT !.rows = [n \in Existing(db) \ {s.table} |-> @[n]],
                                         !.keys = {key \in @ : key[1] # s.table},
                                         !.indexes = {index \in @ : index[1] # s.table},
                                         !.identity = @ \ {s.table}]
    [] s.kind = "truncate" -> [db EXCEPT !.rows = [n \in Existing(db) |->
                                                     IF n \in s.tables THEN {} ELSE @[n]]]
    [] s.kind = "create"   -> [db EXCEPT !.rows = [n \in Existing(db) \cup {s.table} |->
                                                     IF n = s.table THEN {} ELSE @[n]],
                                         !.identity = IF s.identity THEN @ \cup {s.table} ELSE @]
    [] s.kind = "load"     -> [db EXCEPT !.rows = Inserted(db, s.table, s.rows)]
    [] s.kind = "key"      -> [db EXCEPT !.keys = @ \cup {<<s.table, s.parent>>}]
    [] s.kind = "index"    -> [db EXCEPT !.indexes = @ \cup {<<s.table, s.index>>}]
=============================================================================
