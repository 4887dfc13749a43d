---------------------------- MODULE SQLiteReader ----------------------------
(***************************************************************************)
(* The PRAGMAs of infrastructure/persistence/sqlite/reader.py, which are   *)
(* asked table by table.                                                   *)
(***************************************************************************)
EXTENDS CatalogueRows

Queries == <<"tables">>

(* The queries that follow for each table that was listed.                 *)
QueriesOfTable == <<"columns", "indexes", "foreign keys">>

(* table_info numbers the columns of the primary key.                      *)
KeyRows(c) ==
  UNION {KeyUsage(key, key) : key \in {key \in c.keys : key.kind = "PRIMARY KEY"}}

(* An integer column that is the first of its primary key is taken for an  *)
(* identity column; every column of the model is an integer.               *)
IdentityOfColumns(c) ==
  {<<key.table, key.columns[1]>> : key \in {key \in c.keys : key.kind = "PRIMARY KEY"}}

(* foreign_key_list sorted by id and seq: the referenced column is null    *)
(* when the constraint does not name it.                                   *)
ForeignKeyRows(c) ==
  UNION {ReferenceRows(used, used.key.table, used.refs, used) : used \in c.references}

(* Only the indexes of constraints are left out: one that CREATE UNIQUE    *)
(* INDEX made is read, as a plain index.                                   *)
IndexRows(c) ==
  UNION {OrderedRows(index) : index \in c.indexes}
=============================================================================
