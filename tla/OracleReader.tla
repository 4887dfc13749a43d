---------------------------- MODULE OracleReader ----------------------------
(***************************************************************************)
(* The catalogue queries of infrastructure/persistence/oracle/reader.py.   *)
(* Oracle keeps the names of constraints apart within an owner.            *)
(***************************************************************************)
EXTENDS CatalogueRows

CONSTANT Home \* the schema options.owner names

Queries ==
  <<"schemas", "tables", "columns", "constraints", "foreign keys", "indexes", "identity">>

(* options.owner restricts the queries to one schema; without it they read *)
(* all but those of the system.                                            *)
SchemaFilter(owner, c) ==
  {table.schema : table \in DOMAIN c.columns} \cap
    (IF owner THEN {Home} ELSE {table.schema : table \in DOMAIN c.columns})

IdentityOfColumns(c) == {}

(* ALL_TAB_IDENTITY_COLS, read last.                                       *)
IdentityRows(c) == c.identity

(* ALL_CONS_COLUMNS joined with ALL_CONSTRAINTS by owner and name.         *)
KeyRows(c) ==
  UNION {KeyUsage(pair[1], pair[2]) : pair \in Joined(c.keys, c.keys)}

(* R_CONSTRAINT_NAME leads to the columns of the key, joined by POSITION.  *)
ForeignKeyRows(c) ==
  UNION {ReferenceRows(used, used.key.table, used.key.columns, used) : used \in c.references}

IndexRows(c) ==
  UNION {OrderedRows(index) : index \in {index \in c.indexes : ~index.unique}}
=============================================================================
