--------------------------- MODULE ForeignKeyGraph ---------------------------
(***************************************************************************)
(* The part of the source metadata that db2sql orders its statements by:   *)
(* the tables of a Database in the order its dictionaries list them        *)
(* (schema by schema, table by table) and the foreign keys they carry.     *)
(*                                                                         *)
(* A table is one (schema, table) key.  A foreign key is the key of the    *)
(* table it references, which may be a table that a filter removed from    *)
(* the Database, or one that the source never had: those are in Absent.    *)
(***************************************************************************)
EXTENDS Integers, Sequences

CONSTANTS
  Source, \* the tables, in the order database.schemas / schema.tables list them
  Absent  \* keys a foreign key may name that are not in the Database

Tables == {Source[i] : i \in 1..Len(Source)}

(* A dictionary lists a key once; a key is in the Database or it is not.   *)
ASSUME SourceAssumption ==
  /\ Source \in Seq(Tables)
  /\ \A i, j \in 1..Len(Source) : Source[i] = Source[j] => i = j
  /\ Tables \cap Absent = {}

(* table.foreign_keys, reduced to the set of tables they reference.        *)
ForeignKeys == [Tables -> SUBSET (Tables \cup Absent)]

(***************************************************************************)
(* A table that no order can serve: it sits on a cycle of foreign keys     *)
(* between distinct tables or references, directly or not, a table that    *)
(* does.  Such tables are the largest set in which every table references  *)
(* another member.                                                         *)
(***************************************************************************)
SelfSupporting(refs, S) == \A t \in S : \E p \in S : p # t /\ p \in refs[t]

Blocked(refs) == UNION {S \in SUBSET Tables : SelfSupporting(refs, S)}

Before(order, p, j) == \E i \in 1..(j - 1) : order[i] = p

(***************************************************************************)
(* What a caller of topological_order may rely on, refs being the foreign  *)
(* keys of the Database.                                                   *)
(***************************************************************************)
EachOnce(order) ==
  /\ {order[i] : i \in 1..Len(order)} = Tables
  /\ \A i, j \in 1..Len(order) : order[i] = order[j] => i = j

ParentsPrecede(refs, order) ==
  \A j \in 1..Len(order) :
    order[j] \notin Blocked(refs) =>
      \A p \in (refs[order[j]] \cap Tables) \ {order[j]} : Before(order, p, j)

BlockedLastInSourceOrder(refs, order) ==
  \A i, j \in 1..Len(order) :
    (i < j /\ order[i] \in Blocked(refs)) =>
      /\ order[j] \in Blocked(refs)
      /\ \E a, b \in 1..Len(Source) :
           a < b /\ Source[a] = order[i] /\ Source[b] = order[j]

ValidOrder(refs, order) ==
  /\ order \in Seq(Tables)
  /\ EachOnce(order)
  /\ ParentsPrecede(refs, order)
  /\ BlockedLastInSourceOrder(refs, order)
=============================================================================
