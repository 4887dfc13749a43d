--------------------------- MODULE ForeignKeyTypes ---------------------------
(***************************************************************************)
(* The types that emit_tables of the PostgreSQL emitter gives to columns   *)
(* that carry a foreign key (infrastructure/emit/postgres/emitter.py,      *)
(* _aligned_type and _key_type): for each column in turn the chain of      *)
(* references is followed to the type the column has to be compared with,  *)
(* and the column takes that type if PostgreSQL would not accept its own.  *)
(*                                                                         *)
(* A column that several constraints name keeps the reference of the first *)
(* one; composite constraints are references of their columns one by one.  *)
(* A type is its short spelling without arguments, which is all that       *)
(* _key_accepts looks at.  An identity column, numeric in every source,    *)
(* is created as a serial and stores an integer or a bigint.               *)
(*                                                                         *)
(* The names of the specification are its own (AlignInit, AlignNext, ...): *)
(* ForeignKeyProofs extends this module together with DependencyOrder.     *)
(***************************************************************************)
EXTENDS Naturals, Sequences

CONSTANTS
  Columns, \* the columns of the Database, in the order they are emitted
  Missing, \* referenced columns that a filter removed from the Database
  Types    \* the types columns are declared with

(* The spellings _NUMERIC_RANK and _INTERCHANGEABLE_GROUPS know.           *)
Rank ==
  [type \in {"smallint", "integer", "bigint", "serial", "bigserial", "numeric", "real",
             "double precision"} |->
     CASE type = "numeric" -> 1
       [] type \in {"real", "double precision"} -> 2
       [] OTHER -> 0]

Groups == {{"char", "varchar", "text"}, {"date", "timestamp", "timestamptz"}}

Column == {Columns[i] : i \in 1..Len(Columns)}

ASSUME ColumnAssumption ==
  /\ Columns \in Seq(Column)
  /\ \A i, j \in 1..Len(Columns) : Columns[i] = Columns[j] => i = j
  /\ Column \cap Missing = {}
  /\ "none" \notin Column \cup Missing \cup Types

VARIABLES
  declared,  \* the type of each column, as _map_type gives it
  identity,  \* the identity columns
  reference, \* the column each column references first, or "none"
  position,  \* the column whose type is being decided
  at,        \* the column _key_type was called with, or "none"
  seen,      \* the references it has followed
  emitted    \* the type of each column in its CREATE TABLE

alignVars == <<declared, identity, reference, position, at, seen, emitted>>

AlignInit ==
  /\ declared \in [Column -> Types]
  /\ identity \in SUBSET {column \in Column : declared[column] \in DOMAIN Rank}
  /\ reference \in [Column -> Column \cup Missing \cup {"none"}]
  /\ position = 1
  /\ at = "none"
  /\ seen = {}
  /\ emitted = declared

-----------------------------------------------------------------------------
(* _key_accepts: may a column of type child reference a key of type key?   *)
Accepts(key, child) ==
  \/ key = child
  \/ key \in DOMAIN Rank /\ child \in DOMAIN Rank /\ Rank[child] <= Rank[key]
  \/ \E group \in Groups : key \in group /\ child \in group

(* What a column of this type holds in the target.                         *)
Storage(types, column) ==
  IF column \notin identity THEN types[column]
  ELSE IF types[column] \in {"integer", "smallint"} THEN "integer" ELSE "bigint"

Resolves(column) == reference[column] \in Column

Current == Columns[position]

Deciding == position <= Len(Columns)

(* _aligned_type returns at once: no override.                             *)
Keep ==
  /\ Deciding /\ at = "none"
  /\ Current \in identity \/ ~Resolves(Current)
  /\ position' = position + 1
  /\ UNCHANGED <<declared, identity, reference, at, seen, emitted>>

(* A faulty _aligned_type that forgets that identity columns are serials.  *)
AskOfIdentity ==
  /\ Deciding /\ at = "none"
  /\ Resolves(Current)
  /\ at' = reference[Current]
  /\ seen' = {reference[Current]}
  /\ UNCHANGED <<declared, identity, reference, position, emitted>>

(* _aligned_type calls _key_type on the referenced column.                 *)
Ask ==
  /\ Deciding /\ at = "none"
  /\ Current \notin identity /\ Resolves(Current)
  /\ at' = reference[Current]
  /\ seen' = {reference[Current]}
  /\ UNCHANGED <<declared, identity, reference, position, emitted>>

(* A faulty _key_type that does not remember where it has been.            *)
FollowsForever == at # "none" /\ Resolves(at)

(* The key is a foreign key itself, and not one that was followed before.  *)
Follows == at # "none" /\ Resolves(at) /\ reference[at] \notin seen

Follow ==
  /\ Follows
  /\ at' = reference[at]
  /\ seen' = seen \cup {reference[at]}
  /\ UNCHANGED <<declared, identity, reference, position, emitted>>

(* A faulty end that compares the declared type of an identity key.        *)
SettleOnDeclared ==
  /\ at # "none" /\ ~Follows
  /\ emitted' = [emitted EXCEPT ![Current] =
                   IF Accepts(declared[at], @) THEN @ ELSE declared[at]]
  /\ position' = position + 1
  /\ at' = "none"
  /\ seen' = {}
  /\ UNCHANGED <<declared, identity, reference>>

(* A faulty end that keeps only a type that is the key's own.              *)
SettleOnEqual ==
  /\ at # "none" /\ ~Follows
  /\ emitted' = [emitted EXCEPT ![Current] = Storage(declared, at)]
  /\ position' = position + 1
  /\ at' = "none"
  /\ seen' = {}
  /\ UNCHANGED <<declared, identity, reference>>

(* The end of the chain: the column keeps its type if that key accepts it. *)
Settle ==
  /\ at # "none" /\ ~Follows
  /\ emitted' = [emitted EXCEPT ![Current] =
                   IF Accepts(Storage(declared, at), @) THEN @ ELSE Storage(declared, at)]
  /\ position' = position + 1
  /\ at' = "none"
  /\ seen' = {}
  /\ UNCHANGED <<declared, identity, reference>>

Done == ~Deciding /\ UNCHANGED alignVars

AlignNext == Keep \/ Ask \/ Follow \/ Settle \/ Done

AlignSpec == AlignInit /\ [][AlignNext]_alignVars

(* The recursion waits for nothing.                                        *)
FairAlignSpec == AlignSpec /\ WF_alignVars(AlignNext)

-----------------------------------------------------------------------------
AlignTypeOK ==
  /\ declared \in [Column -> Types]
  /\ identity \in SUBSET Column
  /\ reference \in [Column -> Column \cup Missing \cup {"none"}]
  /\ position \in 1..(Len(Columns) + 1)
  /\ at \in Column \cup {"none"}
  /\ at # "none" => Deciding /\ Current \notin identity /\ at \in seen
  /\ seen \subseteq Column
  /\ emitted \in [Column -> Types \cup {"integer", "bigint"}]

Decided == {Columns[i] : i \in 1..(position - 1)}

Comparable(types, column) ==
  Accepts(Storage(types, reference[column]), Storage(types, column))

(* A foreign key that references a plain key, one that is no foreign key   *)
(* itself, can be created whatever types the two columns were declared     *)
(* with, also on an identity key; identity columns themselves never align. *)
PlainKeysAreReferable ==
  \A column \in Decided \ identity :
    (Resolves(column) /\ ~Resolves(reference[column])) =>
      Accepts(Storage(declared, reference[column]), Storage(emitted, column))

(* Where the source's own types can be compared all along, through chains, *)
(* cycles and identity keys, no column changes its type.                   *)
CompatibleSourcesKeepTheirTypes ==
  (\A column \in Column : Resolves(column) => Comparable(declared, column)) => emitted = declared

(* The recursion ends on every cycle of references.                        *)
AlignmentEnds == <>(~Deciding)
=============================================================================
