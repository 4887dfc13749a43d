---------------------------- MODULE CatalogueRows ----------------------------
(***************************************************************************)
(* What a source database holds, and the rows that a query of its          *)
(* catalogue answers.                                                      *)
(*                                                                         *)
(* A catalogue c is a record of                                            *)
(*   c.columns     the columns of each table, in order                     *)
(*   c.keys        PRIMARY KEY and UNIQUE constraints                      *)
(*   c.references  FOREIGN KEY constraints, each with the key it references: *)
(*                 one of c.keys, or a unique index that is no constraint   *)
(*   c.indexes     the other indexes                                       *)
(*   c.identity    the identity columns                                    *)
(* A table is a record of a schema and a name.                             *)
(***************************************************************************)
EXTENDS Naturals, Sequences, SequencesExt, FiniteSets

Elements(sequence) == {sequence[i] : i \in 1..Len(sequence)}

(* What every server keeps true of its catalogue: keys and identities are  *)
(* of columns that are there.                                              *)
IsCatalogue(c) ==
  /\ IsFiniteSet(DOMAIN c.columns) /\ IsFiniteSet(c.references) /\ IsFiniteSet(c.indexes)
  /\ \A constraint \in c.references \cup c.keys \cup c.indexes : constraint.columns \in Seq(STRING)
  /\ \A key \in c.keys :
       /\ key.columns # <<>>
       /\ key.table \in DOMAIN c.columns =>
            Elements(key.columns) \subseteq Elements(c.columns[key.table])
  /\ \A place \in c.identity :
       place[1] \in DOMAIN c.columns => place[2] \in Elements(c.columns[place[1]])

(* And of foreign keys and indexes: they are of columns, or of a table,    *)
(* that is there, as are keys and identities; a foreign key names as many  *)
(* columns of the key as it has; within a table they have names of their   *)
(* own.                                                                    *)
KeepsReferences(c) ==
  /\ \A key \in c.keys : key.table \in DOMAIN c.columns
  /\ \A place \in c.identity : place[1] \in DOMAIN c.columns
  /\ \A reference \in c.references :
       /\ reference.table \in DOMAIN c.columns
       /\ reference.columns # <<>>
       /\ Elements(reference.columns) \subseteq Elements(c.columns[reference.table])
       /\ reference.refs \in Seq(STRING) /\ Len(reference.refs) = Len(reference.columns)
       /\ reference.key.table \in [schema : STRING, name : STRING]
  /\ \A index \in c.indexes : index.table \in DOMAIN c.columns /\ index.columns # <<>>
  /\ \A constraints \in {c.references, c.indexes} : \A one, other \in constraints :
       one.table = other.table /\ one.name = other.name => one = other

(* The name of a constraint is looked up in the schema of its table.       *)
SameName(one, other) ==
  one.name = other.name /\ one.table.schema = other.table.schema

(* Two views of the catalogue joined by the names of constraints.          *)
Joined(ones, others) == {pair \in ones \X others : SameName(pair[1], pair[2])}

(* KEY_COLUMN_USAGE: one row for each column of a constraint, with the     *)
(* kind of the constraint it was joined with.                              *)
KeyUsage(used, key) ==
  {[table |-> used.table, column |-> column, kind |-> key.kind] : column \in Elements(used.columns)}

(* The rows of foreign keys: one for each column of a constraint, which    *)
(* the reader pairs with a column of a referenced key.                     *)
ReferenceRow(constraint, i, refTable, refColumn, via) ==
  [table |-> constraint.table, key |-> constraint.name, position |-> i,
   column |-> constraint.columns[i], refTable |-> refTable, refColumn |-> refColumn,
   via |-> via]

(* The columns of a constraint joined with those referenced by position.   *)
ReferenceRows(constraint, refTable, refColumns, via) ==
  {ReferenceRow(constraint, i, refTable, refColumns[i], via) :
     i \in {i \in 1..Len(constraint.columns) : i <= Len(refColumns)}}

(* REFERENTIAL_CONSTRAINTS, joined with the columns of the constraint and   *)
(* of the key: a unique index is no constraint and has no columns there.   *)
Referencing(c) ==
  {pair \in Joined(c.references, c.references) : pair[2].key \in c.keys}

(* The rows of an index: one for each column.                              *)
IndexRow(index, i, position) ==
  [table |-> index.table, key |-> index.name, position |-> position,
   column |-> index.columns[i]]

OrderedRows(index) == {IndexRow(index, i, i) : i \in 1..Len(index.columns)}

UnorderedRows(index) == {IndexRow(index, i, 0) : i \in 1..Len(index.columns)}

(* A faulty reader that does not sort.                                     *)
ArrangedAnyhow(rows) == SetToSeqs(rows)

(* The orders in which rows may arrive that are sorted by their position.  *)
Arranged(rows) ==
  {order \in SetToSeqs(rows) :
     \A i, j \in 1..Len(order) : i < j => order[i].position <= order[j].position}

(* The rows of one constraint or index.                                    *)
Groups(rows) == {{row \in rows : row.table = r.table /\ row.key = r.key} : r \in rows}

(* Every way the rows of the groups may arrive.                            *)
Arrivals(groups) ==
  {order \in [groups -> UNION {Arranged(rows) : rows \in groups}] :
     \A rows \in groups : order[rows] \in Arranged(rows)}
=============================================================================
