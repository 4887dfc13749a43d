----------------------------- MODULE MySQLReader -----------------------------
(***************************************************************************)
(* The catalogue queries of infrastructure/persistence/mysql/reader.py.    *)
(* Every primary key is named PRIMARY; unique keys are named per table.    *)
(***************************************************************************)
EXTENDS CatalogueRows

CONSTANT Home \* the database the connection names

Queries == <<"tables", "columns", "constraints", "foreign keys", "indexes">>

(* EXTRA, which may say auto_increment, comes with the columns.            *)
IdentityOfColumns(c) == c.identity

(* Joined by name and schema: the PRIMARY of one table meets that of all.  *)
KeyRows(c) ==
  UNION {KeyUsage(pair[1], pair[2]) : pair \in Joined(c.keys \cup c.references, c.keys)}

(* KEY_COLUMN_USAGE names the referenced column itself; the referenced     *)
(* schema is not asked for.                                                *)
ForeignKeyRows(c) ==
  UNION {ReferenceRows(used, [used.key.table EXCEPT !.schema = Home], used.refs, used) :
         used \in c.references}

IndexRows(c) ==
  UNION {OrderedRows(index) : index \in {index \in c.indexes : ~index.unique}}
=============================================================================
