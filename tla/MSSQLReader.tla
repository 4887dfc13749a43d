----------------------------- MODULE MSSQLReader -----------------------------
(***************************************************************************)
(* The catalogue queries of infrastructure/persistence/mssql/reader.py.    *)
(* SQL Server keeps the names of constraints apart within a schema.        *)
(***************************************************************************)
EXTENDS CatalogueRows

Queries ==
  <<"schemas", "tables", "columns", "computed columns", "identity", "constraints",
    "foreign keys", "indexes">>

(* The columns are read without their identity.                            *)
IdentityOfColumns(c) == {}

IdentityRows(c) == c.identity

(* CONSTRAINT_COLUMN_USAGE joined with TABLE_CONSTRAINTS by name.          *)
KeyRows(c) ==
  UNION {KeyUsage(pair[1], pair[2]) : pair \in Joined(c.keys, c.keys)}

(* Joined by name, and by the ordinal positions in the two constraints:    *)
(* lost when the key is a unique index.                                    *)
ForeignKeyRows(c) ==
  UNION {ReferenceRows(pair[1], pair[2].key.table, pair[2].key.columns, pair[2]) :
         pair \in Referencing(c)}

IndexRows(c) ==
  UNION {OrderedRows(index) : index \in {index \in c.indexes : ~index.unique}}
=============================================================================
