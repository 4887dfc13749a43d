--------------------------- MODULE PostgresReader ---------------------------
(***************************************************************************)
(* The catalogue queries of infrastructure/persistence/postgres/reader.py. *)
(***************************************************************************)
EXTENDS CatalogueRows

Queries == <<"tables", "columns", "constraints", "foreign keys", "indexes">>

(* IS_IDENTITY comes with the columns.                                     *)
IdentityOfColumns(c) == c.identity

(* KEY_COLUMN_USAGE, which also lists foreign keys, joined with            *)
(* TABLE_CONSTRAINTS by name and schema.  PostgreSQL keeps the names of    *)
(* foreign keys apart only within a table.                                 *)
KeyRows(c) ==
  UNION {KeyUsage(pair[1], pair[2]) : pair \in Joined(c.keys \cup c.references, c.keys)}

(* The three views joined by name and schema, and by ordinal position: not *)
(* by the position in the unique constraint, and only if there is one.     *)
ForeignKeyRows(c) ==
  UNION {ReferenceRows(pair[1], pair[2].key.table, pair[2].key.columns, pair[2]) :
         pair \in Referencing(c)}

(* pg_attribute joined by attnum = ANY(indkey): nothing orders the columns *)
(* of an index.                                                            *)
IndexRows(c) ==
  UNION {UnorderedRows(index) : index \in {index \in c.indexes : ~index.unique}}
=============================================================================
