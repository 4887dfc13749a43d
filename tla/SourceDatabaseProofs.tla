------------------------ MODULE SourceDatabaseProofs ------------------------
(***************************************************************************)
(* The Database that the readers, the filter and the views put together    *)
(* hangs together, for every catalogue, dialect, rule and export, whatever *)
(* other sessions do to the source while it is read.                       *)
(* Where nothing changes meanwhile and the answers of the dialect tell     *)
(* enough, it is what the source declares, in whatever order rows arrive.  *)
(***************************************************************************)
EXTENDS SourceDatabase, SequenceTheorems, FiniteSetTheorems, WellFoundedInduction, TLAPS

(* Query a may be asked before query b: the tables come before anything is *)
(* said of them, and the columns of a table before its keys and indexes.   *)
Precedes(a, b) ==
  /\ b.query # "schemas"
  /\ b.query = "tables" => a.query = "schemas"
  /\ b.query = "columns" =>
       \/ a.query \in {"schemas", "tables"}
       \/ a.of # {} /\ b.of # {} /\ a.of # b.of

(* Only the three queries that SQLite repeats are about one table.         *)
IsQuery(q) ==
  \/ q.of = {}
  \/ q.query \in {"columns", "indexes", "foreign keys"} /\ \E table : q.of = {table}

InOrder(queries) ==
  /\ Len(queries) \in Nat
  /\ queries = [i \in 1..Len(queries) |-> queries[i]]
  /\ \A i \in 1..Len(queries) : IsQuery(queries[i])
  /\ \A i, j \in 1..Len(queries) : i < j => Precedes(queries[i], queries[j])

-----------------------------------------------------------------------------
(* Sequences of queries.                                                   *)

(* What is left after the first query keeps its order.                     *)
LEMMA TailInOrder ==
  ASSUME NEW queries, InOrder(queries), queries # <<>>
  PROVE  /\ InOrder(Tail(queries))
         /\ Len(Tail(queries)) = Len(queries) - 1
         /\ Len(queries) \in Nat \ {0}
         /\ Head(queries) = queries[1] /\ IsQuery(Head(queries))
         /\ \A i \in 1..Len(Tail(queries)) :
              Tail(queries)[i] = queries[i + 1] /\ Precedes(Head(queries), Tail(queries)[i])
<1>1. /\ Len(queries) \in Nat
      /\ queries = [i \in 1..Len(queries) |-> queries[i]]
  BY DEF InOrder
<1> DEFINE n == Len(queries)
           S == {queries[i] : i \in 1..n}
<1>2. queries \in Seq(S)
  <2>1. queries \in [1..n -> S]
    BY <1>1
  <2> QED
    BY <1>1, <2>1
<1>3. n # 0
  BY <1>1
<1>4. /\ Len(Tail(queries)) = n - 1
      /\ Tail(queries) = [i \in 1..(n - 1) |-> queries[i + 1]]
      /\ Head(queries) = queries[1]
  <2>1. /\ Len(Tail(queries)) = n - 1
        /\ \A i \in 1..Len(Tail(queries)) : Tail(queries)[i] = queries[i + 1]
        /\ Tail(queries) \in Seq(S)
    BY <1>2, HeadTailProperties
  <2>2. Tail(queries) = [i \in 1..(n - 1) |-> Tail(queries)[i]]
    <3>1. Tail(queries) \in [1..(n - 1) -> S]
      BY <2>1, LenProperties
    <3> QED
      BY <3>1
  <2>3. Head(queries) = queries[1]
    BY <1>2, <1>3, HeadTailProperties
  <2>4. \A i \in 1..(n - 1) : Tail(queries)[i] = queries[i + 1]
    BY <2>1
  <2>5. [i \in 1..(n - 1) |-> Tail(queries)[i]] = [i \in 1..(n - 1) |-> queries[i + 1]]
    BY <2>4, Zenon
  <2> QED
    BY <2>1, <2>2, <2>3, <2>5, Zenon
<1>5. \A i \in 1..(n - 1) : i + 1 \in 1..n /\ 1 \in 1..n /\ 1 < i + 1
  BY <1>1
<1>6. /\ \A i \in 1..(n - 1) : IsQuery(queries[i + 1]) /\ Precedes(queries[1], queries[i + 1])
      /\ \A i, j \in 1..(n - 1) : i < j => Precedes(queries[i + 1], queries[j + 1])
  <2>1. \A i, j \in 1..(n - 1) : i < j => i + 1 < j + 1
    OBVIOUS
  <2> QED
    BY <1>5, <2>1 DEF InOrder
<1>7. 1 \in 1..n
  BY <1>1, <1>3
<1>8. n - 1 \in Nat
  BY <1>1, <1>3
<1>9. IsQuery(queries[1]) /\ n \in Nat \ {0}
  BY <1>1, <1>3, <1>7 DEF InOrder
<1> DEFINE T == Tail(queries)
<1>10. /\ Len(T) = n - 1
       /\ T = [i \in 1..Len(T) |-> T[i]]
       /\ \A i \in 1..Len(T) : T[i] = queries[i + 1]
  BY <1>4, <1>8
<1> HIDE DEF T, n
<1>11. InOrder(T)
  BY <1>6, <1>8, <1>10 DEF InOrder
<1>12. \A i \in 1..Len(T) : T[i] = queries[i + 1] /\ Precedes(queries[1], T[i])
  BY <1>6, <1>10
<1> QED
  BY <1>4, <1>8, <1>9, <1>10, <1>11, <1>12 DEF T, n

(* Schemas, tables and columns are asked for in this order, the rest later.*)
Rightly(names, i) ==
  /\ names[i] = "schemas" => i = 1
  /\ names[i] = "tables" => i = 1 \/ (i = 2 /\ names[1] = "schemas")
  /\ names[i] = "columns" => \/ i = 2 /\ names[1] = "tables"
                             \/ i = 3 /\ names[1] = "schemas" /\ names[2] = "tables"

IsList(names) ==
  /\ Len(names) \in Nat \ {0}
  /\ \A i \in 1..Len(names) : Rightly(names, i)
  /\ \/ names[1] = "tables"
     \/ 2 \in 1..Len(names) /\ names[1] = "schemas" /\ names[2] = "tables"

(* The queries each reader starts with.                                    *)
LEMMA QueriesAreList ==
  ASSUME dialect \in Dialects
  PROVE  IsList(Queries) /\ (dialect \in {"mssql", "oracle"} => Queries[1] = "schemas")
<1>1. CASE dialect = "postgres"
  <2>1. /\ Len(Queries) = 5
        /\ Queries[1] = "tables"
        /\ Queries[2] = "columns"
        /\ Queries[3] = "constraints"
        /\ Queries[4] = "foreign keys"
        /\ Queries[5] = "indexes"
    BY <1>1 DEF Queries, Postgres!Queries
  <2>2. \A i \in 1..5 : i = 1 \/ i = 2 \/ i = 3 \/ i = 4 \/ i = 5
    OBVIOUS
  <2>3. 5 \in Nat \ {0}
    OBVIOUS
  <2>4. \A i \in 1..5 : Rightly(Queries, i)
    BY <2>1, <2>2 DEF Rightly
  <2>5. Queries[1] = "tables"
    BY <2>1
  <2> QED
    BY <1>1, <2>1, <2>3, <2>4, <2>5, Zenon DEF IsList
<1>2. CASE dialect = "mysql"
  <2>1. /\ Len(Queries) = 5
        /\ Queries[1] = "tables"
        /\ Queries[2] = "columns"
        /\ Queries[3] = "constraints"
        /\ Queries[4] = "foreign keys"
        /\ Queries[5] = "indexes"
    BY <1>2 DEF Queries, MySQL!Queries
  <2>2. \A i \in 1..5 : i = 1 \/ i = 2 \/ i = 3 \/ i = 4 \/ i = 5
    OBVIOUS
  <2>3. 5 \in Nat \ {0}
    OBVIOUS
  <2>4. \A i \in 1..5 : Rightly(Queries, i)
    BY <2>1, <2>2 DEF Rightly
  <2>5. Queries[1] = "tables"
    BY <2>1
  <2> QED
    BY <1>2, <2>1, <2>3, <2>4, <2>5, Zenon DEF IsList
<1>3. CASE dialect = "mssql"
  <2>1. /\ Len(Queries) = 8
        /\ Queries[1] = "schemas"
        /\ Queries[2] = "tables"
        /\ Queries[3] = "columns"
        /\ Queries[4] = "computed columns"
        /\ Queries[5] = "identity"
        /\ Queries[6] = "constraints"
        /\ Queries[7] = "foreign keys"
        /\ Queries[8] = "indexes"
    BY <1>3 DEF Queries, MSSQL!Queries
  <2>2. \A i \in 1..8 : i = 1 \/ i = 2 \/ i = 3 \/ i = 4 \/ i = 5 \/ i = 6 \/ i = 7 \/ i = 8
    OBVIOUS
  <2>3. 8 \in Nat \ {0}
    OBVIOUS
  <2>4. \A i \in 1..8 : Rightly(Queries, i)
    BY <2>1, <2>2 DEF Rightly
  <2>5. 2 \in 1..8 /\ Queries[1] = "schemas" /\ Queries[2] = "tables"
    <3>1. 2 \in 1..8
      OBVIOUS
    <3> QED
      BY <2>1, <3>1, Zenon
  <2> QED
    BY <1>3, <2>1, <2>3, <2>4, <2>5, Zenon DEF IsList
<1>4. CASE dialect = "oracle"
  <2>1. /\ Len(Queries) = 7
        /\ Queries[1] = "schemas"
        /\ Queries[2] = "tables"
        /\ Queries[3] = "columns"
        /\ Queries[4] = "constraints"
        /\ Queries[5] = "foreign keys"
        /\ Queries[6] = "indexes"
        /\ Queries[7] = "identity"
    BY <1>4 DEF Queries, Oracle!Queries
  <2>2. \A i \in 1..7 : i = 1 \/ i = 2 \/ i = 3 \/ i = 4 \/ i = 5 \/ i = 6 \/ i = 7
    OBVIOUS
  <2>3. 7 \in Nat \ {0}
    OBVIOUS
  <2>4. \A i \in 1..7 : Rightly(Queries, i)
    BY <2>1, <2>2 DEF Rightly
  <2>5. 2 \in 1..7 /\ Queries[1] = "schemas" /\ Queries[2] = "tables"
    <3>1. 2 \in 1..7
      OBVIOUS
    <3> QED
      BY <2>1, <3>1, Zenon
  <2> QED
    BY <1>4, <2>1, <2>3, <2>4, <2>5, Zenon DEF IsList
<1>5. CASE dialect = "sqlite"
  <2>1. /\ Len(Queries) = 1
        /\ Queries[1] = "tables"
    BY <1>5 DEF Queries, SQLite!Queries
  <2>2. \A i \in 1..1 : i = 1
    OBVIOUS
  <2>3. 1 \in Nat \ {0}
    OBVIOUS
  <2>4. \A i \in 1..1 : Rightly(Queries, i)
    BY <2>1, <2>2 DEF Rightly
  <2>5. Queries[1] = "tables"
    BY <2>1
  <2> QED
    BY <1>5, <2>1, <2>3, <2>4, <2>5, Zenon DEF IsList
<1> QED
  BY <1>1, <1>2, <1>3, <1>4, <1>5 DEF Dialects

(* Such a list of queries is in order.                                     *)
LEMMA ListInOrder ==
  ASSUME NEW names, IsList(names)
  PROVE  LET queries == [i \in 1..Len(names) |-> [query |-> names[i], of |-> {}]]
         IN  /\ InOrder(queries) /\ queries # <<>>
             /\ \E i \in 1..Len(queries) : queries[i].query = "tables"
             /\ names[1] = "schemas" => \E i \in 1..Len(queries) : queries[i].query = "schemas"
<1> DEFINE queries == [i \in 1..Len(names) |-> [query |-> names[i], of |-> {}]]
<1>0. Len(names) \in Nat \ {0} /\ 1 \in 1..Len(names)
  BY DEF IsList
<1>1. Len(queries) = Len(names) /\ queries = [i \in 1..Len(queries) |-> queries[i]]
  BY <1>0
<1>2. \A i \in 1..Len(names) : queries[i].query = names[i] /\ queries[i].of = {}
  OBVIOUS
<1> HIDE DEF queries
<1>3. \A i \in 1..Len(queries) : IsQuery(queries[i])
  BY <1>1, <1>2 DEF IsQuery
<1>4. ASSUME NEW i \in 1..Len(names), NEW j \in 1..Len(names), i < j
      PROVE  Precedes(queries[i], queries[j])
  <2>1. j # 1 /\ i \in 1..(j - 1)
    BY <1>0, <1>4
  <2>2. (j = 2 => i = 1) /\ (j = 3 => i = 1 \/ i = 2)
    BY <2>1
  <2> QED
    BY <1>2, <2>1, <2>2 DEF Precedes, IsList, Rightly
<1>5. InOrder(queries)
  BY <1>0, <1>1, <1>3, <1>4 DEF InOrder
<1>6. queries # <<>>
  BY <1>0, <1>1
<1>7. \E i \in 1..Len(queries) : queries[i].query = "tables"
  BY <1>0, <1>1, <1>2 DEF IsList
<1>8. names[1] = "schemas" => \E i \in 1..Len(queries) : queries[i].query = "schemas"
  BY <1>0, <1>1, <1>2
<1> QED
  BY <1>5, <1>6, <1>7, <1>8 DEF queries

(* SQLite asks of each table its columns first, and of no table twice.     *)
LEMMA QueriesAboutInOrder ==
  ASSUME NEW n \in Nat, NEW tables, Len(tables) = n,
         \A i, j \in 1..n : i # j => tables[i] # tables[j]
  PROVE  /\ InOrder(QueriesAbout(tables))
         /\ Len(QueriesAbout(tables)) = 3 * n
         /\ \A i \in 1..(3 * n) : QueriesAbout(tables)[i].query \in {"columns", "indexes", "foreign keys"}
<1> DEFINE Q == QueriesAbout(tables)
           At(i) == ((i - 1) \div 3) + 1
           Of(i) == ((i - 1) % 3) + 1
<1>1. Q = [i \in 1..(3 * n) |-> [query |-> SQLite!QueriesOfTable[Of(i)], of |-> {tables[At(i)]}]]
  BY DEF QueriesAbout
<1>2. Len(Q) = 3 * n /\ 3 * n \in Nat
  BY <1>1
<1>3. \A i \in 1..(3 * n) : At(i) \in 1..n /\ Of(i) \in 1..3 /\ i = 3 * (At(i) - 1) + Of(i)
  OBVIOUS
<1>4. /\ SQLite!QueriesOfTable[1] = "columns"
      /\ SQLite!QueriesOfTable[2] = "indexes"
      /\ SQLite!QueriesOfTable[3] = "foreign keys"
  BY DEF SQLite!QueriesOfTable
<1> HIDE DEF At, Of, Q
<1>5. \A i \in 1..(3 * n) : /\ Q[i].query = SQLite!QueriesOfTable[Of(i)]
                            /\ Q[i].of = {tables[At(i)]}
  BY <1>1
<1>6. \A i \in 1..(3 * n) : Q[i].query \in {"columns", "indexes", "foreign keys"} /\ IsQuery(Q[i])
  <2>1. \A k \in 1..3 : SQLite!QueriesOfTable[k] \in {"columns", "indexes", "foreign keys"}
    <3>1. \A k \in 1..3 : k = 1 \/ k = 2 \/ k = 3
      OBVIOUS
    <3> QED
      BY <1>4, <3>1
  <2> QED
    BY <1>3, <1>5, <2>1 DEF IsQuery
<1>7. ASSUME NEW i \in 1..(3 * n), NEW j \in 1..(3 * n), i < j
      PROVE  Precedes(Q[i], Q[j])
  <2>1. Q[j].query # "schemas" /\ Q[j].query # "tables"
    BY <1>6
  <2>2. ASSUME Q[j].query = "columns"
        PROVE  Q[i].of # {} /\ Q[j].of # {} /\ Q[i].of # Q[j].of
    <3>1. Of(j) = 1
      <4>1. Of(j) = 1 \/ Of(j) = 2 \/ Of(j) = 3
        BY <1>3
      <4> QED
        BY <1>4, <1>5, <2>2, <4>1
    <3>2. At(i) # At(j)
      <4>1. i = 3 * (At(i) - 1) + Of(i) /\ j = 3 * (At(j) - 1) + 1
        BY <1>3, <3>1
      <4>2. At(i) \in 1..n /\ At(j) \in 1..n /\ Of(i) \in 1..3
        BY <1>3
      <4> QED
        BY <1>7, <4>1, <4>2
    <3>3. tables[At(i)] # tables[At(j)]
      BY <1>3, <3>2
    <3> QED
      BY <1>5, <3>3
  <2> QED
    BY <2>1, <2>2 DEF Precedes
<1> QED
  BY <1>1, <1>2, <1>6, <1>7 DEF InOrder, Q


-----------------------------------------------------------------------------
(* Rows: finitely many, and each group of them arrives as a sequence.      *)

(* What a function makes of finitely many values is finite.                *)
LEMMA ImageFinite ==
  ASSUME NEW f, NEW S, IsFiniteSet(S)
  PROVE  IsFiniteSet({f[x] : x \in S})
<1> DEFINE T == {f[x] : x \in S}
           g == [x \in S |-> f[x]]
<1>1. g \in Surjection(S, T)
  BY DEF Surjection
<1> QED
  BY <1>1, FS_Surjection

(* So are the rows of finitely many constraints.                           *)
LEMMA UnionFinite ==
  ASSUME NEW f, NEW S, IsFiniteSet(S), \A x \in S : IsFiniteSet(f[x])
  PROVE  IsFiniteSet(UNION {f[x] : x \in S})
<1>1. IsFiniteSet({f[x] : x \in S})
  BY ImageFinite
<1>2. \A rows \in {f[x] : x \in S} : IsFiniteSet(rows)
  OBVIOUS
<1> QED
  BY <1>1, <1>2, FS_UNION

(* A constraint has as many rows as columns.                               *)
LEMMA ReferenceRowsFinite ==
  ASSUME NEW constraint, constraint.columns \in Seq(STRING), NEW refTable, NEW refColumns, NEW via
  PROVE  IsFiniteSet(ReferenceRows(constraint, refTable, refColumns, via))
<1> DEFINE n == Len(constraint.columns)
           S == {i \in 1..n : i <= Len(refColumns)}
           f == [i \in S |-> ReferenceRow(constraint, i, refTable, refColumns[i], via)]
<1>1. n \in Nat
  OBVIOUS
<1>2. IsFiniteSet(S)
  <2>1. IsFiniteSet(1..n)
    BY <1>1, FS_Interval
  <2>2. S \in SUBSET (1..n)
    OBVIOUS
  <2> HIDE DEF S, n
  <2> QED
    BY <2>1, <2>2, FS_Subset
<1>3. ReferenceRows(constraint, refTable, refColumns, via) = {f[i] : i \in S}
  <2>1. {f[i] : i \in S} = {ReferenceRow(constraint, i, refTable, refColumns[i], via) : i \in S}
    <3> HIDE DEF S
    <3> QED
      BY Zenon
  <2> QED
    BY <2>1 DEF ReferenceRows
<1> HIDE DEF S, f
<1> QED
  BY <1>2, <1>3, ImageFinite

(* And so has an index.                                                    *)
LEMMA IndexRowsFinite ==
  ASSUME NEW index, index.columns \in Seq(STRING)
  PROVE  IsFiniteSet(OrderedRows(index)) /\ IsFiniteSet(UnorderedRows(index))
<1> DEFINE S == 1..Len(index.columns)
           f == [i \in S |-> IndexRow(index, i, i)]
           g == [i \in S |-> IndexRow(index, i, 0)]
<1>1. IsFiniteSet(S)
  BY FS_Interval
<1>2. OrderedRows(index) = {f[i] : i \in S} /\ UnorderedRows(index) = {g[i] : i \in S}
  BY DEF OrderedRows, UnorderedRows
<1> HIDE DEF S, f, g
<1> QED
  BY <1>1, <1>2, ImageFinite

(* The rows that the queries for foreign keys answer, as each reader joins *)
(* them.                                                                   *)
LEMMA ForeignKeyQueries ==
  ASSUME NEW c, dialect \in Dialects
  PROVE  /\ dialect \in {"postgres", "mssql"} =>
              ForeignKeyRows(c) =
                UNION {ReferenceRows(pair[1], pair[2].key.table, pair[2].key.columns, pair[2]) :
                         pair \in Referencing(c)}
         /\ dialect = "mysql" =>
              ForeignKeyRows(c) =
                UNION {ReferenceRows(used, [used.key.table EXCEPT !.schema = Home], used.refs, used) :
                         used \in c.references}
         /\ dialect = "oracle" =>
              ForeignKeyRows(c) =
                UNION {ReferenceRows(used, used.key.table, used.key.columns, used) : used \in c.references}
         /\ dialect = "sqlite" =>
              ForeignKeyRows(c) =
                UNION {ReferenceRows(used, used.key.table, used.refs, used) : used \in c.references}
<1>1. CASE dialect = "postgres"
  <2>1. ForeignKeyRows(c) = Postgres!ForeignKeyRows(c)
    BY <1>1 DEF ForeignKeyRows
  <2>2. Postgres!ForeignKeyRows(c) =
          UNION {ReferenceRows(pair[1], pair[2].key.table, pair[2].key.columns, pair[2]) :
                   pair \in Referencing(c)}
    BY DEF Postgres!ForeignKeyRows, Postgres!Referencing, Referencing, Postgres!Joined, Postgres!SameName, Postgres!ReferenceRows,
       Postgres!ReferenceRow, Joined, SameName, ReferenceRows, ReferenceRow
  <2> QED
    BY <1>1, <2>1, <2>2
<1>2. CASE dialect = "mssql"
  <2>1. ForeignKeyRows(c) = MSSQL!ForeignKeyRows(c)
    BY <1>2 DEF ForeignKeyRows
  <2>2. MSSQL!ForeignKeyRows(c) =
          UNION {ReferenceRows(pair[1], pair[2].key.table, pair[2].key.columns, pair[2]) :
                   pair \in Referencing(c)}
    BY DEF MSSQL!ForeignKeyRows, MSSQL!Referencing, Referencing, MSSQL!Joined, MSSQL!SameName, MSSQL!ReferenceRows,
       MSSQL!ReferenceRow, Joined, SameName, ReferenceRows, ReferenceRow
  <2> QED
    BY <1>2, <2>1, <2>2
<1>3. CASE dialect = "mysql"
  <2>1. ForeignKeyRows(c) = MySQL!ForeignKeyRows(c)
    BY <1>3 DEF ForeignKeyRows
  <2>2. MySQL!ForeignKeyRows(c) =
          UNION {ReferenceRows(used, [used.key.table EXCEPT !.schema = Home], used.refs, used) :
                   used \in c.references}
    BY DEF MySQL!ForeignKeyRows, MySQL!ReferenceRows, MySQL!ReferenceRow, ReferenceRows, ReferenceRow
  <2> QED
    BY <1>3, <2>1, <2>2
<1>4. CASE dialect = "oracle"
  <2>1. ForeignKeyRows(c) = Oracle!ForeignKeyRows(c)
    BY <1>4 DEF ForeignKeyRows
  <2>2. Oracle!ForeignKeyRows(c) =
          UNION {ReferenceRows(used, used.key.table, used.key.columns, used) : used \in c.references}
    BY DEF Oracle!ForeignKeyRows, Oracle!ReferenceRows, Oracle!ReferenceRow, ReferenceRows, ReferenceRow
  <2> QED
    BY <1>4, <2>1, <2>2
<1>5. CASE dialect = "sqlite"
  <2>1. ForeignKeyRows(c) = SQLite!ForeignKeyRows(c)
    BY <1>5 DEF ForeignKeyRows
  <2>2. SQLite!ForeignKeyRows(c) =
          UNION {ReferenceRows(used, used.key.table, used.refs, used) : used \in c.references}
    BY DEF SQLite!ForeignKeyRows, SQLite!ReferenceRows, SQLite!ReferenceRow, ReferenceRows, ReferenceRow
  <2> QED
    BY <1>5, <2>1, <2>2
<1> QED
  BY <1>1, <1>2, <1>3, <1>4, <1>5 DEF Dialects

(* The indexes that a reader is told of, and the rows that tell of one.    *)
Listed(c) == {index \in c.indexes : ~index.unique \/ dialect = "sqlite"}

RowsOfIndex(index) ==
  IF dialect = "postgres" THEN UnorderedRows(index) ELSE OrderedRows(index)

(* They are the rows that the query for indexes answers.                   *)
LEMMA IndexQueries ==
  ASSUME NEW c, dialect \in Dialects
  PROVE  IndexRows(c) = UNION {RowsOfIndex(index) : index \in Listed(c)}
<1> DEFINE plain == {index \in c.indexes : ~index.unique}
<1>1. CASE dialect = "postgres"
  <2>1. Postgres!IndexRows(c) = UNION {UnorderedRows(index) : index \in plain}
    BY DEF Postgres!IndexRows, Postgres!UnorderedRows, Postgres!IndexRow, UnorderedRows, IndexRow
  <2>2. IndexRows(c) = Postgres!IndexRows(c) /\ Listed(c) = plain
    BY <1>1 DEF IndexRows, Listed
  <2>3. \A index : RowsOfIndex(index) = UnorderedRows(index)
    BY <1>1 DEF RowsOfIndex
  <2> QED
    BY <2>1, <2>2, <2>3
<1>2. CASE dialect = "mysql"
  <2>1. MySQL!IndexRows(c) = UNION {OrderedRows(index) : index \in plain}
    BY DEF MySQL!IndexRows, MySQL!OrderedRows, MySQL!IndexRow, OrderedRows, IndexRow
  <2>2. IndexRows(c) = MySQL!IndexRows(c) /\ Listed(c) = plain
    BY <1>2 DEF IndexRows, Listed
  <2>3. \A index : RowsOfIndex(index) = OrderedRows(index)
    BY <1>2 DEF RowsOfIndex
  <2> QED
    BY <2>1, <2>2, <2>3
<1>3. CASE dialect = "mssql"
  <2>1. MSSQL!IndexRows(c) = UNION {OrderedRows(index) : index \in plain}
    BY DEF MSSQL!IndexRows, MSSQL!OrderedRows, MSSQL!IndexRow, OrderedRows, IndexRow
  <2>2. IndexRows(c) = MSSQL!IndexRows(c) /\ Listed(c) = plain
    BY <1>3 DEF IndexRows, Listed
  <2>3. \A index : RowsOfIndex(index) = OrderedRows(index)
    BY <1>3 DEF RowsOfIndex
  <2> QED
    BY <2>1, <2>2, <2>3
<1>4. CASE dialect = "oracle"
  <2>1. Oracle!IndexRows(c) = UNION {OrderedRows(index) : index \in plain}
    BY DEF Oracle!IndexRows, Oracle!OrderedRows, Oracle!IndexRow, OrderedRows, IndexRow
  <2>2. IndexRows(c) = Oracle!IndexRows(c) /\ Listed(c) = plain
    BY <1>4 DEF IndexRows, Listed
  <2>3. \A index : RowsOfIndex(index) = OrderedRows(index)
    BY <1>4 DEF RowsOfIndex
  <2> QED
    BY <2>1, <2>2, <2>3
<1>5. CASE dialect = "sqlite"
  <2>1. SQLite!IndexRows(c) = UNION {OrderedRows(index) : index \in c.indexes}
    BY DEF SQLite!IndexRows, SQLite!OrderedRows, SQLite!IndexRow, OrderedRows, IndexRow
  <2>2. IndexRows(c) = SQLite!IndexRows(c) /\ Listed(c) = c.indexes
    BY <1>5 DEF IndexRows, Listed
  <2>3. \A index : RowsOfIndex(index) = OrderedRows(index)
    BY <1>5 DEF RowsOfIndex
  <2> QED
    BY <2>1, <2>2, <2>3
<1> QED
  BY <1>1, <1>2, <1>3, <1>4, <1>5 DEF Dialects

(* Every catalogue answers a query with finitely many rows.                *)
LEMMA ForeignKeyRowsFinite ==
  ASSUME NEW c, IsCatalogue(c), dialect \in Dialects
  PROVE  IsFiniteSet(ForeignKeyRows(c))
<1>1. /\ IsFiniteSet(c.references)
      /\ \A used \in c.references : used.columns \in Seq(STRING)
  BY DEF IsCatalogue
<1>2. IsFiniteSet(Referencing(c))
  BY <1>1, FS_Product, FS_Subset DEF Referencing, Joined
<1>3. CASE dialect \in {"postgres", "mssql"}
  <2> DEFINE rows == [pair \in Referencing(c) |->
                        ReferenceRows(pair[1], pair[2].key.table, pair[2].key.columns, pair[2])]
  <2>1. ASSUME NEW pair \in Referencing(c) PROVE IsFiniteSet(rows[pair])
    <3>1. pair[1].columns \in Seq(STRING)
      BY <1>1 DEF Referencing, Joined
    <3> QED
      BY <3>1, ReferenceRowsFinite
  <2>2. ForeignKeyRows(c) =
          UNION {ReferenceRows(pair[1], pair[2].key.table, pair[2].key.columns, pair[2]) :
                   pair \in Referencing(c)}
    BY <1>3, ForeignKeyQueries
  <2>3. ForeignKeyRows(c) = UNION {rows[pair] : pair \in Referencing(c)}
    BY <2>2
  <2> HIDE DEF rows
  <2> QED
    BY <1>2, <2>1, <2>3, UnionFinite
<1>4. CASE dialect = "mysql"
  <2> DEFINE rows == [used \in c.references |->
                        ReferenceRows(used, [used.key.table EXCEPT !.schema = Home], used.refs, used)]
  <2>1. \A used \in c.references : IsFiniteSet(rows[used])
    BY <1>1, ReferenceRowsFinite
  <2>2. ForeignKeyRows(c) =
          UNION {ReferenceRows(used, [used.key.table EXCEPT !.schema = Home], used.refs, used) :
                   used \in c.references}
    BY <1>4, ForeignKeyQueries
  <2>3. ForeignKeyRows(c) = UNION {rows[used] : used \in c.references}
    BY <2>2
  <2> HIDE DEF rows
  <2> QED
    BY <1>1, <2>1, <2>3, UnionFinite
<1>5. CASE dialect = "oracle"
  <2> DEFINE rows == [used \in c.references |->
                        ReferenceRows(used, used.key.table, used.key.columns, used)]
  <2>1. \A used \in c.references : IsFiniteSet(rows[used])
    BY <1>1, ReferenceRowsFinite
  <2>2. ForeignKeyRows(c) =
          UNION {ReferenceRows(used, used.key.table, used.key.columns, used) : used \in c.references}
    BY <1>5, ForeignKeyQueries
  <2>3. ForeignKeyRows(c) = UNION {rows[used] : used \in c.references}
    BY <2>2
  <2> HIDE DEF rows
  <2> QED
    BY <1>1, <2>1, <2>3, UnionFinite
<1>6. CASE dialect = "sqlite"
  <2> DEFINE rows == [used \in c.references |->
                        ReferenceRows(used, used.key.table, used.refs, used)]
  <2>1. \A used \in c.references : IsFiniteSet(rows[used])
    BY <1>1, ReferenceRowsFinite
  <2>2. ForeignKeyRows(c) =
          UNION {ReferenceRows(used, used.key.table, used.refs, used) : used \in c.references}
    BY <1>6, ForeignKeyQueries
  <2>3. ForeignKeyRows(c) = UNION {rows[used] : used \in c.references}
    BY <2>2
  <2> HIDE DEF rows
  <2> QED
    BY <1>1, <2>1, <2>3, UnionFinite
<1> QED
  BY <1>3, <1>4, <1>5, <1>6 DEF Dialects

(* Of an index, too.                                                       *)
LEMMA IndexesFinite ==
  ASSUME NEW c, IsCatalogue(c), dialect \in Dialects
  PROVE  IsFiniteSet(IndexRows(c))
<1> DEFINE rows == [index \in c.indexes |-> RowsOfIndex(index)]
<1>1. IsFiniteSet(Listed(c)) /\ Listed(c) \subseteq c.indexes
  BY FS_Subset DEF IsCatalogue, Listed
<1>2. \A index \in c.indexes : IsFiniteSet(rows[index])
  BY IndexRowsFinite DEF IsCatalogue, RowsOfIndex
<1>3. {rows[index] : index \in Listed(c)} = {RowsOfIndex(index) : index \in Listed(c)}
  BY <1>1
<1> HIDE DEF rows
<1>4. IsFiniteSet(UNION {rows[index] : index \in Listed(c)})
  BY <1>1, <1>2, UnionFinite
<1> QED
  BY <1>3, <1>4, IndexQueries

(* A group has rows, all of one table, and they arrive one after another.  *)
LEMMA GroupArrives ==
  ASSUME NEW S, IsFiniteSet(S), NEW groups, groups \subseteq Groups(S),
         NEW order \in Arrivals(groups), NEW rows \in groups
  PROVE  /\ rows \subseteq S
         /\ \A one, other \in rows : one.table = other.table
         /\ Len(order[rows]) \in Nat \ {0}
         /\ \A i \in 1..Len(order[rows]) : order[rows][i] \in rows
<1>1. PICK r \in S : rows = {row \in S : row.table = r.table /\ row.key = r.key}
  BY DEF Groups
<1>2. r \in rows /\ rows \subseteq S /\ \A one, other \in rows : one.table = other.table
  BY <1>1
<1>3. IsFiniteSet(rows) /\ Cardinality(rows) \in Nat /\ Cardinality(rows) # 0
  BY <1>2, FS_Subset, FS_EmptySet, FS_CardinalityType
<1>4. order[rows] \in [1..Cardinality(rows) -> rows]
  BY DEF Arrivals, Arranged, SetToSeqs
<1>5. Len(order[rows]) = Cardinality(rows)
  BY <1>3, <1>4
<1> QED
  BY <1>2, <1>3, <1>4, <1>5

-----------------------------------------------------------------------------
(* Distinct keeps one of each name.                                        *)

(* A set of numbers that is not empty has a least one.                     *)
LEMMA Least ==
  ASSUME NEW T, T \subseteq Nat, T # {}
  PROVE  \E x \in T : \A y \in T : x <= y
<1>1. PICK x \in T : \A y \in T : <<y, x>> \notin OpToRel(<, Nat)
  BY NatLessThanWellFounded, WFMin
<1>2. \A y \in T : ~(y < x)
  BY <1>1 DEF OpToRel
<1> QED
  BY <1>2

(* Induction, over a set of numbers.                                       *)
LEMMA Induction ==
  ASSUME NEW S, 0 \in S, \A n \in Nat : n \in S => n + 1 \in S
  PROVE  Nat \subseteq S
<1> SUFFICES ASSUME Nat \ S # {} PROVE FALSE
  OBVIOUS
<1>1. PICK x \in Nat \ S : \A y \in Nat \ S : x <= y
  BY Least
<1>2. x - 1 \in Nat /\ x - 1 \notin Nat \ S
  BY <1>1
<1> QED
  BY <1>1, <1>2

(* f holds the names that are known after the first ones of a list.        *)
Knows(n, names, f) ==
  f = [i \in 0..n |->
         IF i = 0 THEN <<>>
         ELSE IF names[i] \in Elements(f[i - 1]) THEN f[i - 1]
         ELSE Append(f[i - 1], names[i])]

(* One more name can be looked at.                                         *)
LEMMA KnowsStep ==
  ASSUME NEW names, NEW n \in Nat, NEW f, Knows(n, names, f)
  PROVE  \E g : Knows(n + 1, names, g)
<1> DEFINE After(known, i) == IF names[i] \in Elements(known) THEN known ELSE Append(known, names[i])
           g == [i \in 0..(n + 1) |-> IF i = 0 THEN <<>> ELSE After(f[i - 1], i)]
<1>1. \A i \in 0..n : f[i] = IF i = 0 THEN <<>> ELSE After(f[i - 1], i)
  BY DEF Knows
<1> HIDE DEF After
<1>2. g = [i \in 0..(n + 1) |-> g[i]]
  OBVIOUS
<1>3. \A i \in 0..(n + 1) : g[i] = IF i = 0 THEN <<>> ELSE After(f[i - 1], i)
  OBVIOUS
<1> HIDE DEF g
<1>4. \A i \in 0..n : i \in 0..(n + 1)
  OBVIOUS
<1>5. \A i \in 0..n : g[i] = f[i]
  BY <1>1, <1>3, <1>4
<1>6. ASSUME NEW i \in 0..(n + 1)
      PROVE  g[i] = IF i = 0 THEN <<>> ELSE After(g[i - 1], i)
  <2>1. CASE i = 0
    BY <1>3, <2>1
  <2>2. CASE i # 0
    <3>1. i - 1 \in 0..n
      BY <2>2
    <3>2. g[i - 1] = f[i - 1]
      BY <1>5, <3>1
    <3> QED
      BY <1>3, <2>2, <3>2
  <2> QED
    BY <2>1, <2>2
<1>7. g = [i \in 0..(n + 1) |-> IF i = 0 THEN <<>> ELSE After(g[i - 1], i)]
  BY <1>2, <1>6
<1> QED
  BY <1>7 DEF Knows, After

(* So a whole list can be.                                                 *)
LEMMA KnowsExists ==
  ASSUME NEW names, Len(names) \in Nat
  PROVE  \E f : Knows(Len(names), names, f) /\ Distinct(names) = f[Len(names)]
<1> DEFINE G == {n \in Nat : \E f : Knows(n, names, f)}
<1>1. 0 \in G
  <2>1. Knows(0, names, [i \in 0..0 |-> <<>>])
    BY DEF Knows
  <2> QED
    BY <2>1
<1>2. \A n \in Nat : n \in G => n + 1 \in G
  BY KnowsStep
<1> HIDE DEF G
<1>3. Nat \subseteq G
  BY <1>1, <1>2, Induction
<1>4. \E f : Knows(Len(names), names, f)
  BY <1>3 DEF G
<1>5. Knows(Len(names), names, CHOOSE f : Knows(Len(names), names, f))
  BY <1>4
<1>6. Distinct(names) = (CHOOSE f : Knows(Len(names), names, f))[Len(names)]
  BY DEF Distinct, Knows
<1> QED
  BY <1>5, <1>6

(* Distinct keeps every name, and each once.                               *)
LEMMA DistinctNames ==
  ASSUME NEW S, NEW names \in Seq(S)
  PROVE  /\ Elements(Distinct(names)) = Elements(names)
         /\ Len(Distinct(names)) = Cardinality(Elements(names))
         /\ Distinct(names) \in Seq(S)
<1> DEFINE n == Len(names)
           First(m) == {names[i] : i \in 1..m}
<1>1. n \in Nat /\ \A i \in 1..n : names[i] \in S
  OBVIOUS
<1>2. PICK f : Knows(n, names, f) /\ Distinct(names) = f[n]
  BY <1>1, KnowsExists
<1>3. \A i \in 0..n : f[i] = IF i = 0 THEN <<>>
                            ELSE IF names[i] \in Elements(f[i - 1]) THEN f[i - 1]
                            ELSE Append(f[i - 1], names[i])
  BY <1>2 DEF Knows
<1> DEFINE Good(m) == /\ f[m] \in Seq(S)
                      /\ Elements(f[m]) = First(m)
                      /\ IsFiniteSet(First(m)) /\ Len(f[m]) = Cardinality(First(m))
           G == {m \in Nat : m \in 0..n => Good(m)}
<1>4. 0 \in G
  <2>1. f[0] = <<>> /\ 0 \in 0..n
    BY <1>1, <1>3
  <2>2. First(0) = {} /\ Elements(<<>>) = {}
    BY DEF Elements
  <2>3. <<>> \in Seq(S) /\ Len(<<>>) = 0
    OBVIOUS
  <2> HIDE DEF First
  <2> QED
    BY <2>1, <2>2, <2>3, FS_EmptySet
<1>5. ASSUME NEW m \in Nat, m \in G PROVE m + 1 \in G
  <2> SUFFICES ASSUME m + 1 \in 0..n PROVE Good(m + 1)
    OBVIOUS
  <2>1. m \in 0..n /\ m + 1 \in 1..n /\ m + 1 # 0 /\ (m + 1) - 1 = m
    BY <1>1
  <2>2. Good(m)
    BY <1>5, <2>1
  <2>3. First(m + 1) = First(m) \cup {names[m + 1]}
    <3>1. 1..(m + 1) = 1..m \cup {m + 1}
      OBVIOUS
    <3> QED
      BY <3>1
  <2>4. f[m + 1] = IF names[m + 1] \in Elements(f[m]) THEN f[m] ELSE Append(f[m], names[m + 1])
    BY <1>3, <2>1
  <2>5. names[m + 1] \in S
    BY <1>1, <2>1
  <2> HIDE DEF First
  <2>6. CASE names[m + 1] \in First(m)
    <3>1. f[m + 1] = f[m] /\ First(m + 1) = First(m)
      BY <2>2, <2>3, <2>4, <2>6
    <3> QED
      BY <2>2, <3>1
  <2>7. CASE names[m + 1] \notin First(m)
    <3>1. f[m + 1] = Append(f[m], names[m + 1])
      BY <2>2, <2>4, <2>7
    <3>2. f[m + 1] \in Seq(S) /\ Len(f[m + 1]) = Len(f[m]) + 1
      BY <2>2, <2>5, <3>1
    <3>3. Elements(f[m + 1]) = Elements(f[m]) \cup {names[m + 1]}
      <4>1. /\ Len(f[m]) \in Nat
            /\ \A i \in 1..Len(f[m]) : f[m + 1][i] = f[m][i]
            /\ f[m + 1][Len(f[m]) + 1] = names[m + 1]
        BY <2>2, <2>5, <3>1
      <4>2. 1..(Len(f[m]) + 1) = 1..Len(f[m]) \cup {Len(f[m]) + 1}
        BY <4>1
      <4> QED
        BY <3>2, <4>1, <4>2 DEF Elements
    <3>4. /\ IsFiniteSet(First(m + 1))
          /\ Cardinality(First(m + 1)) = Cardinality(First(m)) + 1
      BY <2>2, <2>3, <2>7, FS_AddElement
    <3> QED
      BY <2>2, <2>3, <3>2, <3>3, <3>4
  <2> QED
    BY <2>6, <2>7
<1> HIDE DEF G
<1>6. Nat \subseteq G
  BY <1>4, <1>5, Induction
<1>7. n \in G /\ n \in 0..n
  BY <1>1, <1>6
<1>8. Good(n)
  BY <1>7 DEF G
<1>9. First(n) = Elements(names)
  BY DEF Elements
<1> QED
  BY <1>2, <1>8, <1>9

-----------------------------------------------------------------------------
(* The Database hangs together, and stays so.  d and e are Databases.      *)

Fields == {"schemas", "columns", "constraint", "foreignKeys", "indexes", "identity", "queries"}

Has(d, table, column) ==
  table \in DOMAIN d.columns /\ column \in Elements(d.columns[table])

(* A foreign key of which all columns are there.                           *)
IsKey(d, reference) ==
  /\ Len(reference.columns) \in Nat \ {0}
  /\ Len(reference.columns) = Len(reference.refColumns)
  /\ \A i \in 1..Len(reference.columns) : Has(d, reference.table, reference.columns[i])

(* The parts of the Database fit together.                                 *)
Fits(d) ==
  /\ DOMAIN d = Fields
  /\ \A table \in DOMAIN d.columns : table.schema \in d.schemas
  /\ \A place \in DOMAIN d.constraint \cup d.identity : Has(d, place[1], place[2])
  /\ \A reference \in d.foreignKeys : IsKey(d, reference)
  /\ \A index \in d.indexes : index.table \in DOMAIN d.columns
  /\ DOMAIN d.queries \subseteq DOMAIN d.columns

(* Nothing is said of the columns of a table yet.                          *)
Blank(d, table) ==
  /\ \A place \in DOMAIN d.constraint \cup d.identity : place[1] # table
  /\ \A reference \in d.foreignKeys : reference.table # table

About(q, table) == q.of \in {{}, {table}}

(* What a query still to be asked replaces is empty, or nothing refers to  *)
(* it yet.                                                                 *)
Awaited(d, q) ==
  /\ q.query \in {"schemas", "tables"} => DOMAIN d.columns = {}
  /\ q.query = "columns" => \A table \in DOMAIN d.columns : About(q, table) => Blank(d, table)

Ahead(d, queries) == \A i \in 1..Len(queries) : Awaited(d, queries[i])

(* What the process was given, and how far it has come.                    *)
Course ==
  /\ dialect \in Dialects /\ owner \in BOOLEAN /\ complete \in BOOLEAN
  /\ stage \in {"reading", "filtering", "views", "done", "SourceReaderError", "view failed"}
  /\ alterations \in 0..MaxAlterations
  /\ catalogue \in Catalogues(dialect) /\ views \in Views /\ added \in 0..Len(views)
  /\ stage = "reading" => InOrder(todo) /\ todo # <<>>

(* A table with a query is one of an export, with the columns it answers.  *)
FromViews(d, list) ==
  \A table \in DOMAIN d.queries : \E i \in 1..Len(list) :
    /\ d.queries[table] = list[i]
    /\ d.columns[table] = Distinct(list[i].answers)

(* The tables with a query are those of the exports so far.                *)
Exported ==
  /\ stage \in {"reading", "filtering"} => added = 0 /\ DOMAIN database.queries = {}
  /\ IsFiniteSet(DOMAIN database.queries) /\ Cardinality(DOMAIN database.queries) = added
  /\ stage = "done" => added = Len(views)
  /\ FromViews(database, views)

Remaining(queries) == {queries[i].query : i \in 1..Len(queries)}

Wanted == {table \in Read : Included(table)}

(* The other tables are those of the source in scope, and after the filter *)
(* those of them that are wanted.                                          *)
Selected ==
  /\ stage = "reading" /\ "schemas" \in Remaining(todo) => "tables" \in Remaining(todo)
  /\ alterations = 0 =>
       /\ stage = "reading" =>
            /\ dialect \in {"mssql", "oracle"} =>
                 "schemas" \in Remaining(todo) \/ Schemas(catalogue) \subseteq database.schemas
            /\ "tables" \in Remaining(todo) \/ Tables = Read
       /\ stage = "filtering" => Tables = Read
       /\ stage \in {"views", "done"} => Tables \ DOMAIN database.queries = Wanted

Whole ==
  /\ Course
  /\ Fits(database)
  /\ stage = "reading" => Ahead(database, todo)
  /\ Exported
  /\ Selected

(* What a source holds, and what is exported.                              *)
LEMMA Given ==
  ASSUME Course
  PROVE  /\ IsCatalogue(catalogue) /\ Alterations(dialect, catalogue) \subseteq Catalogues(dialect)
         /\ MaxAlterations \in Nat
         /\ Len(views) \in Nat
         /\ \A i \in 1..Len(views) : views[i] \in Elements(views) /\ views[i].answers \in Seq(STRING)
<1>1. /\ MaxAlterations \in Nat
      /\ IsCatalogue(catalogue) /\ Alterations(dialect, catalogue) \subseteq Catalogues(dialect)
      /\ views \in Seq(Elements(views))
      /\ \A view \in Elements(views) : view.answers \in Seq(STRING)
  BY CatalogueAssumption DEF Course
<1>2. \A i \in 1..Len(views) : views[i] \in Elements(views)
  BY DEF Elements
<1> QED
  BY <1>1, <1>2

(* The columns that keys and identities are read for are there.            *)
LEMMA KeysAreColumns ==
  ASSUME NEW c, IsCatalogue(c), NEW row \in SQLite!KeyRows(c), row.table \in DOMAIN c.columns
  PROVE  row.column \in Elements(c.columns[row.table])
<1>1. PICK key \in c.keys : row \in SQLite!KeyUsage(key, key)
  BY DEF SQLite!KeyRows
<1>2. PICK column \in Elements(key.columns) :
        row = [table |-> key.table, column |-> column, kind |-> key.kind]
  BY <1>1 DEF SQLite!KeyUsage, SQLite!Elements, Elements
<1>3. row.table = key.table /\ row.column = column
  BY <1>2
<1> QED
  BY <1>3 DEF IsCatalogue

(* So are those of identities.                                             *)
LEMMA IdentitiesAreColumns ==
  ASSUME NEW c, IsCatalogue(c), dialect \in Dialects, NEW place \in IdentityOfColumns(c),
         place[1] \in DOMAIN c.columns
  PROVE  place[2] \in Elements(c.columns[place[1]])
<1>1. CASE dialect = "sqlite"
  <2>1. PICK key \in c.keys : place = <<key.table, key.columns[1]>>
    BY <1>1 DEF IdentityOfColumns, SQLite!IdentityOfColumns
  <2>2. key.columns \in Seq(STRING) /\ key.columns # <<>>
    BY DEF IsCatalogue
  <2>3. key.columns[1] \in Elements(key.columns)
    <3>1. 1 \in 1..Len(key.columns)
      BY <2>2
    <3> QED
      BY <3>1 DEF Elements
  <2>4. place[1] = key.table /\ place[2] = key.columns[1]
    BY <2>1
  <2> QED
    BY <2>3, <2>4 DEF IsCatalogue
<1>2. CASE dialect # "sqlite"
  <2>1. place \in c.identity
    BY <1>2 DEF IdentityOfColumns, Dialects, Postgres!IdentityOfColumns, MySQL!IdentityOfColumns,
       MSSQL!IdentityOfColumns, Oracle!IdentityOfColumns
  <2> QED
    BY <2>1 DEF IsCatalogue
<1> QED
  BY <1>1, <1>2

(* The first query is the one that is answered.                            *)
LEMMA Asking ==
  ASSUME NEW queries, InOrder(queries), queries # <<>>
  PROVE  /\ Len(queries) \in Nat \ {0} /\ 1 \in 1..Len(queries) /\ Head(queries) = queries[1]
         /\ IsQuery(Head(queries))
         /\ InOrder(Tail(queries))
         /\ Len(queries) # 1 => Tail(queries) # <<>>
         /\ Len(queries) = 1 => Len(Tail(queries)) = 0
         /\ \A i \in 1..Len(Tail(queries)) :
              /\ i + 1 \in 1..Len(queries) /\ Tail(queries)[i] = queries[i + 1]
              /\ Precedes(Head(queries), Tail(queries)[i])
         /\ \A i \in 1..Len(queries) :
              queries[i] = Head(queries) \/ \E j \in 1..Len(Tail(queries)) : queries[i] = Tail(queries)[j]
<1>1. /\ InOrder(Tail(queries)) /\ Len(Tail(queries)) = Len(queries) - 1 /\ Len(queries) \in Nat \ {0}
      /\ Head(queries) = queries[1] /\ IsQuery(Head(queries))
      /\ \A i \in 1..Len(Tail(queries)) :
           Tail(queries)[i] = queries[i + 1] /\ Precedes(Head(queries), Tail(queries)[i])
  BY TailInOrder
<1> DEFINE rest == Tail(queries)
           n == Len(queries)
<1>2. Len(rest) = n - 1 /\ n \in Nat \ {0}
  BY <1>1
<1>3. \A i \in 1..Len(rest) : rest[i] = queries[i + 1]
  BY <1>1
<1> HIDE DEF rest, n
<1>4. 1 \in 1..n /\ \A i \in 1..Len(rest) : i + 1 \in 1..n
  BY <1>2
<1>5. n # 1 => rest # <<>>
  <2>1. Len(<<>>) = 0
    OBVIOUS
  <2> QED
    BY <1>2, <2>1
<1>6. ASSUME NEW i \in 1..n
      PROVE  queries[i] = queries[1] \/ \E j \in 1..Len(rest) : queries[i] = rest[j]
  <2>1. i # 1 => i - 1 \in 1..Len(rest) /\ (i - 1) + 1 = i
    BY <1>2
  <2>2. i # 1 => queries[i] = rest[i - 1]
    BY <1>3, <2>1
  <2> QED
    BY <2>1, <2>2
<1> QED
  BY <1>1, <1>2, <1>4, <1>5, <1>6 DEF rest, n

(* An answer about the tables it was asked of leaves alone those whose     *)
(* columns are still to be read.                                           *)
LEMMA AheadStays ==
  ASSUME NEW d, NEW e, NEW queries, InOrder(queries), queries # <<>>, Ahead(d, queries),
         Head(queries).query \notin {"schemas", "tables"},
         DOMAIN e.columns = DOMAIN d.columns,
         \A place \in DOMAIN e.constraint \cup e.identity :
           place \in DOMAIN d.constraint \cup d.identity \/ About(Head(queries), place[1]),
         \A reference \in e.foreignKeys :
           reference \in d.foreignKeys \/ About(Head(queries), reference.table)
  PROVE  Ahead(e, Tail(queries))
<1>1. \A i \in 1..Len(Tail(queries)) :
        /\ i + 1 \in 1..Len(queries) /\ Tail(queries)[i] = queries[i + 1]
        /\ Precedes(Head(queries), Tail(queries)[i])
  BY Asking
<1> SUFFICES ASSUME NEW i \in 1..Len(Tail(queries)) PROVE Awaited(e, Tail(queries)[i])
  BY DEF Ahead
<1> DEFINE q == Tail(queries)[i]
           h == Head(queries)
<1>2. Awaited(d, q) /\ Precedes(h, q)
  BY <1>1 DEF Ahead
<1> HIDE DEF q, h
<1>3. q.query \in {"schemas", "tables"} => DOMAIN e.columns = {}
  BY <1>2 DEF Awaited
<1>4. ASSUME q.query = "columns", NEW table \in DOMAIN e.columns, About(q, table)
      PROVE  Blank(e, table)
  <2>1. Blank(d, table)
    BY <1>2, <1>4 DEF Awaited
  <2>2. h.query \notin {"schemas", "tables"}
    BY DEF h
  <2>3. ~About(h, table)
    BY <1>2, <1>4, <2>2 DEF Precedes, About
  <2> QED
    BY <2>1, <2>3 DEF Blank, h
<1>5. Awaited(e, q)
  BY <1>3, <1>4 DEF Awaited
<1> QED
  BY <1>5 DEF q

-----------------------------------------------------------------------------
(* What each answer does to a Database that hangs together.                *)

(* A foreign key stays one when the columns of its table do.               *)
LEMMA KeyStays ==
  ASSUME NEW d, NEW e, NEW reference, IsKey(d, reference),
         reference.table \in DOMAIN e.columns,
         Elements(d.columns[reference.table]) \subseteq Elements(e.columns[reference.table])
  PROVE  IsKey(e, reference)
BY DEF IsKey, Has

(* A foreign key is of a table that is there.                              *)
LEMMA KeyHasTable ==
  ASSUME NEW d, NEW reference, IsKey(d, reference)
  PROVE  reference.table \in DOMAIN d.columns
<1>1. 1 \in 1..Len(reference.columns)
  BY DEF IsKey
<1> QED
  BY <1>1 DEF IsKey, Has

(* Where no table is there, nothing is said.                               *)
LEMMA Nothing ==
  ASSUME NEW d, Fits(d), DOMAIN d.columns = {}
  PROVE  /\ DOMAIN d.constraint = {} /\ d.identity = {} /\ d.foreignKeys = {} /\ d.indexes = {}
         /\ DOMAIN d.queries = {}
<1>1. d.foreignKeys = {}
  BY KeyHasTable DEF Fits
<1> QED
  BY <1>1 DEF Fits, Has

(* Schemas are read before any table.                                      *)
LEMMA SchemasFit ==
  ASSUME NEW d, Fits(d), DOMAIN d.columns = {}, NEW schemas,
         NEW queries, InOrder(queries), queries # <<>>, Ahead(d, queries)
  PROVE  LET e == [d EXCEPT !.schemas = schemas] IN Fits(e) /\ Ahead(e, Tail(queries))
<1> DEFINE e == [d EXCEPT !.schemas = schemas]
<1>1. /\ DOMAIN e = Fields /\ e.columns = d.columns /\ e.constraint = d.constraint
      /\ e.foreignKeys = d.foreignKeys /\ e.indexes = d.indexes /\ e.identity = d.identity
      /\ e.queries = d.queries
  BY DEF Fits, Fields
<1> HIDE DEF e
<1>2. Fits(e)
  BY <1>1, Nothing DEF Fits
<1>3. \A q : Awaited(e, q)
  BY <1>1 DEF Awaited
<1> QED
  BY <1>2, <1>3 DEF e, Ahead

(* The tables come while nothing is said of any.                           *)
LEMMA TablesFit ==
  ASSUME NEW d, Fits(d), DOMAIN d.columns = {}, NEW schemas, NEW listed,
         \A table \in listed : table.schema \in schemas,
         NEW queries,
         \A i \in 1..Len(queries) : queries[i].query \notin {"schemas", "tables"}
  PROVE  LET e == [d EXCEPT !.schemas = schemas, !.columns = [table \in listed |-> <<>>]]
         IN  Fits(e) /\ Ahead(e, queries)
<1> DEFINE e == [d EXCEPT !.schemas = schemas, !.columns = [table \in listed |-> <<>>]]
<1>1. /\ DOMAIN e = Fields /\ e.columns = [table \in listed |-> <<>>] /\ e.schemas = schemas
      /\ e.constraint = d.constraint /\ e.foreignKeys = d.foreignKeys /\ e.indexes = d.indexes
      /\ e.identity = d.identity /\ e.queries = d.queries
  BY DEF Fits, Fields
<1> HIDE DEF e
<1>2. DOMAIN e.columns = listed
  BY <1>1
<1>3. Fits(e)
  BY <1>1, <1>2, Nothing DEF Fits
<1>4. \A table : Blank(e, table)
  BY <1>1, Nothing DEF Blank
<1> QED
  BY <1>3, <1>4 DEF e, Ahead, Awaited

(* The columns of the known tables, keys and identities come from c.       *)
Described(d, e, c, known, keys, identity) ==
  /\ known \subseteq DOMAIN d.columns \cap DOMAIN c.columns
  /\ \A table \in known : Blank(d, table)
  /\ keys \subseteq SQLite!KeyRows(c) /\ \A row \in keys : row.table \in known
  /\ identity \subseteq IdentityOfColumns(c) /\ \A place \in identity : place[1] \in known
  /\ DOMAIN e = Fields /\ DOMAIN e.columns = DOMAIN d.columns
  /\ \A table \in known : e.columns[table] = c.columns[table]
  /\ \A table \in DOMAIN d.columns : table \notin known => e.columns[table] = d.columns[table]
  /\ DOMAIN e.constraint = DOMAIN d.constraint \cup {<<row.table, row.column>> : row \in keys}
  /\ e.identity = d.identity \cup identity /\ e.schemas = d.schemas
  /\ e.foreignKeys = d.foreignKeys /\ e.indexes = d.indexes /\ e.queries = d.queries

(* They come while nothing is said of these tables.                        *)
LEMMA ColumnsFit ==
  ASSUME NEW d, Fits(d), NEW c, IsCatalogue(c), dialect \in Dialects,
         NEW known, NEW keys, NEW identity, NEW e, Described(d, e, c, known, keys, identity)
  PROVE  /\ Fits(e)
         /\ \A place \in DOMAIN e.constraint \cup e.identity :
              place \in DOMAIN d.constraint \cup d.identity \/ place[1] \in known
<1>0. /\ known \subseteq DOMAIN d.columns \cap DOMAIN c.columns
      /\ \A table \in known : Blank(d, table)
      /\ keys \subseteq SQLite!KeyRows(c) /\ \A row \in keys : row.table \in known
      /\ identity \subseteq IdentityOfColumns(c) /\ \A place \in identity : place[1] \in known
  BY DEF Described
<1>1. /\ DOMAIN e = Fields
      /\ DOMAIN e.constraint = DOMAIN d.constraint \cup {<<row.table, row.column>> : row \in keys}
      /\ e.identity = d.identity \cup identity /\ e.schemas = d.schemas
      /\ e.foreignKeys = d.foreignKeys /\ e.indexes = d.indexes /\ e.queries = d.queries
  BY DEF Described
<1>2. /\ DOMAIN e.columns = DOMAIN d.columns
      /\ \A table \in known : e.columns[table] = c.columns[table]
      /\ \A table \in DOMAIN d.columns : table \notin known => e.columns[table] = d.columns[table]
  BY DEF Described
<1>3. ASSUME NEW place \in DOMAIN d.constraint \cup d.identity
      PROVE  Has(e, place[1], place[2])
  BY <1>0, <1>2 DEF Fits, Has, Blank
<1>4. ASSUME NEW row \in keys
      PROVE  Has(e, row.table, row.column)
  <2>1. row.column \in Elements(c.columns[row.table])
    BY <1>0, KeysAreColumns
  <2> QED
    BY <1>0, <1>2, <2>1 DEF Has
<1>5. ASSUME NEW place \in identity
      PROVE  Has(e, place[1], place[2])
  <2>1. place[2] \in Elements(c.columns[place[1]])
    BY <1>0, IdentitiesAreColumns
  <2> QED
    BY <1>0, <1>2, <2>1 DEF Has
<1>6. ASSUME NEW place \in DOMAIN e.constraint \cup e.identity
      PROVE  Has(e, place[1], place[2]) /\ (place \in DOMAIN d.constraint \cup d.identity \/ place[1] \in known)
  <2>1. CASE place \in DOMAIN d.constraint \cup d.identity
    BY <1>3, <2>1
  <2>2. CASE place \in identity
    BY <1>0, <1>5, <2>2
  <2>3. CASE \E row \in keys : place = <<row.table, row.column>>
    <3>1. PICK row \in keys : place = <<row.table, row.column>>
      BY <2>3
    <3>2. place[1] = row.table /\ place[2] = row.column
      BY <3>1
    <3> QED
      BY <1>0, <1>4, <3>2
  <2> QED
    BY <1>1, <1>6, <2>1, <2>2, <2>3
<1>7. ASSUME NEW reference \in d.foreignKeys PROVE IsKey(e, reference)
  <2>1. IsKey(d, reference) /\ reference.table \notin known
    BY <1>0 DEF Fits, Blank
  <2>2. reference.table \in DOMAIN d.columns
    BY <2>1, KeyHasTable
  <2> QED
    BY <1>2, <2>1, <2>2, KeyStays
<1>8. Fits(e)
  <2>1. \A table \in DOMAIN e.columns : table.schema \in e.schemas
    BY <1>1, <1>2 DEF Fits
  <2>2. \A index \in e.indexes : index.table \in DOMAIN e.columns
    BY <1>1, <1>2 DEF Fits
  <2>3. DOMAIN e.queries \subseteq DOMAIN e.columns
    BY <1>1, <1>2 DEF Fits
  <2> QED
    BY <1>1, <1>6, <1>7, <2>1, <2>2, <2>3 DEF Fits
<1> QED
  BY <1>6, <1>8

(* Identities and keys are of columns that are there.                      *)
LEMMA IdentitiesFit ==
  ASSUME NEW d, Fits(d), NEW identity, \A place \in identity : Has(d, place[1], place[2])
  PROVE  Fits([d EXCEPT !.identity = @ \cup identity])
<1> DEFINE e == [d EXCEPT !.identity = @ \cup identity]
<1>1. /\ DOMAIN e = Fields /\ e.columns = d.columns /\ e.constraint = d.constraint
      /\ e.identity = d.identity \cup identity /\ e.schemas = d.schemas
      /\ e.foreignKeys = d.foreignKeys /\ e.indexes = d.indexes /\ e.queries = d.queries
  BY DEF Fits, Fields
<1> HIDE DEF e
<1>2. Fits(e)
  BY <1>1 DEF Fits, Has, IsKey
<1> QED
  BY <1>2 DEF e

(* So are the keys that replace or join those known before.                *)
LEMMA ConstraintsFit ==
  ASSUME NEW d, Fits(d), NEW constraint,
         \A place \in DOMAIN constraint : place \in DOMAIN d.constraint \/ Has(d, place[1], place[2])
  PROVE  Fits([d EXCEPT !.constraint = constraint])
<1> DEFINE e == [d EXCEPT !.constraint = constraint]
<1>1. /\ DOMAIN e = Fields /\ e.columns = d.columns /\ e.constraint = constraint
      /\ e.identity = d.identity /\ e.schemas = d.schemas
      /\ e.foreignKeys = d.foreignKeys /\ e.indexes = d.indexes /\ e.queries = d.queries
  BY DEF Fits, Fields
<1> HIDE DEF e
<1>2. Fits(e)
  BY <1>1 DEF Fits, Has, IsKey
<1> QED
  BY <1>2 DEF e

(* Foreign keys and indexes that are added.                                *)
LEMMA ForeignKeysFit ==
  ASSUME NEW d, Fits(d), NEW new, \A reference \in new : IsKey(d, reference)
  PROVE  Fits([d EXCEPT !.foreignKeys = @ \cup new])
<1> DEFINE e == [d EXCEPT !.foreignKeys = @ \cup new]
<1>1. /\ DOMAIN e = Fields /\ e.columns = d.columns /\ e.constraint = d.constraint
      /\ e.identity = d.identity /\ e.schemas = d.schemas
      /\ e.foreignKeys = d.foreignKeys \cup new /\ e.indexes = d.indexes /\ e.queries = d.queries
  BY DEF Fits, Fields
<1> HIDE DEF e
<1>2. Fits(e)
  BY <1>1 DEF Fits, Has, IsKey
<1> QED
  BY <1>2 DEF e

(* Indexes of tables that are there fit.                                   *)
LEMMA IndexesFit ==
  ASSUME NEW d, Fits(d), NEW new, \A index \in new : index.table \in DOMAIN d.columns
  PROVE  Fits([d EXCEPT !.indexes = @ \cup new])
<1> DEFINE e == [d EXCEPT !.indexes = @ \cup new]
<1>1. /\ DOMAIN e = Fields /\ e.columns = d.columns /\ e.constraint = d.constraint
      /\ e.identity = d.identity /\ e.schemas = d.schemas
      /\ e.foreignKeys = d.foreignKeys /\ e.indexes = d.indexes \cup new /\ e.queries = d.queries
  BY DEF Fits, Fields
<1> HIDE DEF e
<1>2. Fits(e)
  BY <1>1 DEF Fits, Has, IsKey
<1> QED
  BY <1>2 DEF e

(* The filter takes with a table what is said of it.                       *)
LEMMA PrunedFits ==
  ASSUME NEW d, Fits(d), DOMAIN d.queries = {}, NEW kept, kept \subseteq DOMAIN d.columns
  PROVE  LET e == Pruned(d, kept)
         IN  Fits(e) /\ DOMAIN e.columns = kept /\ e.queries = d.queries
<1> DEFINE e == Pruned(d, kept)
<1>1. /\ DOMAIN e = Fields /\ e.schemas = {table.schema : table \in kept}
      /\ e.columns = [table \in kept |-> d.columns[table]]
      /\ DOMAIN e.constraint = {place \in DOMAIN d.constraint : place[1] \in kept}
      /\ e.foreignKeys = {reference \in d.foreignKeys : reference.table \in kept}
      /\ e.indexes = {index \in d.indexes : index.table \in kept}
      /\ e.identity = {place \in d.identity : place[1] \in kept}
      /\ e.queries = d.queries
  BY DEF Pruned, Fields
<1> HIDE DEF e
<1>2. DOMAIN e.columns = kept /\ \A table \in kept : e.columns[table] = d.columns[table]
  BY <1>1
<1>3. \A table \in DOMAIN e.columns : table.schema \in e.schemas
  BY <1>1, <1>2
<1>4. \A place \in DOMAIN e.constraint \cup e.identity : Has(e, place[1], place[2])
  BY <1>1, <1>2 DEF Fits, Has
<1>5. \A reference \in e.foreignKeys : IsKey(e, reference)
  BY <1>1, <1>2, KeyStays DEF Fits
<1>6. Fits(e)
  BY <1>1, <1>2, <1>3, <1>4, <1>5 DEF Fits
<1> QED
  BY <1>1, <1>2, <1>6 DEF e

(* A view brings its own table, with keys and indexes of its columns.      *)
LEMMA ViewFits ==
  ASSUME NEW d, Fits(d), NEW view, view.answers \in Seq(STRING), KeyIsKnown(view),
         view.table \notin DOMAIN d.columns
  PROVE  LET e == WithView(d, view)
         IN  /\ Fits(e)
             /\ DOMAIN e.columns = DOMAIN d.columns \cup {view.table}
             /\ DOMAIN e.queries = DOMAIN d.queries \cup {view.table}
             /\ \A table \in DOMAIN d.columns : e.columns[table] = d.columns[table]
             /\ \A table \in DOMAIN d.queries : e.queries[table] = d.queries[table]
             /\ e.columns[view.table] = Distinct(view.answers)
             /\ e.queries[view.table] = view
<1> DEFINE e == WithView(d, view)
           key == {view.table} \X Elements(view.primaryKey)
           new == {[table |-> view.table, name |-> index.name, columns |-> index.columns] :
                     index \in view.indexes}
<1>1. /\ DOMAIN e = Fields
      /\ e.schemas = d.schemas \cup {view.table.schema}
      /\ e.columns = [table \in DOMAIN d.columns \cup {view.table} |->
                        IF table = view.table THEN Distinct(view.answers) ELSE d.columns[table]]
      /\ DOMAIN e.constraint = DOMAIN d.constraint \cup key
      /\ e.foreignKeys = d.foreignKeys
      /\ e.indexes = d.indexes \cup new
      /\ e.identity = d.identity
      /\ e.queries = [table \in DOMAIN d.queries \cup {view.table} |->
                        IF table = view.table THEN view ELSE d.queries[table]]
  BY DEF WithView, Fits, Fields
<1>2. \A index \in new : index.table = view.table
  OBVIOUS
<1>3. \A place \in key : place[1] = view.table /\ place[2] \in Elements(view.primaryKey)
  OBVIOUS
<1> HIDE DEF e, key, new
<1>4. view.table \notin DOMAIN d.queries
  BY DEF Fits
<1>5. /\ DOMAIN e.columns = DOMAIN d.columns \cup {view.table}
      /\ DOMAIN e.queries = DOMAIN d.queries \cup {view.table}
      /\ \A table \in DOMAIN d.columns : e.columns[table] = d.columns[table]
      /\ \A table \in DOMAIN d.queries : e.queries[table] = d.queries[table]
      /\ e.columns[view.table] = Distinct(view.answers)
      /\ e.queries[view.table] = view
  BY <1>1, <1>4
<1>6. Elements(view.primaryKey) \subseteq Elements(e.columns[view.table])
  <2>1. Elements(Distinct(view.answers)) = Elements(view.answers)
    BY DistinctNames
  <2> QED
    BY <1>5, <2>1 DEF KeyIsKnown
<1>7. \A place \in DOMAIN e.constraint \cup e.identity : Has(e, place[1], place[2])
  BY <1>1, <1>3, <1>5, <1>6 DEF Fits, Has
<1>8. ASSUME NEW reference \in e.foreignKeys PROVE IsKey(e, reference)
  <2>1. IsKey(d, reference) /\ reference.table \in DOMAIN d.columns
    BY <1>1, KeyHasTable DEF Fits
  <2> QED
    BY <1>5, <2>1, KeyStays
<1>9. \A table \in DOMAIN e.columns : table.schema \in e.schemas
  BY <1>1, <1>5 DEF Fits
<1>10. \A index \in e.indexes : index.table \in DOMAIN e.columns
  BY <1>1, <1>2, <1>5 DEF Fits
<1>11. DOMAIN e.queries \subseteq DOMAIN e.columns
  BY <1>5 DEF Fits
<1>12. Fits(e)
  BY <1>1, <1>7, <1>8, <1>9, <1>10, <1>11 DEF Fits
<1> QED
  BY <1>5, <1>12 DEF e

-----------------------------------------------------------------------------
(* Every step keeps the whole.                                             *)

(* What is in scope, and wanted, changes with the source only.             *)
LEMMA ScopeStays ==
  ASSUME UNCHANGED <<request, source>>
  PROVE  /\ Schemas(catalogue)' = Schemas(catalogue)
         /\ Read' = Read /\ Wanted' = Wanted
<1>1. dialect' = dialect /\ owner' = owner /\ catalogue' = catalogue /\ rules' = rules
  BY DEF request, source
<1>2. Schemas(catalogue)' = Schemas(catalogue)
  BY <1>1 DEF Schemas, Oracle!SchemaFilter
<1>3. Read' = Read
  BY <1>1, <1>2 DEF Read, InScope
<1>4. Wanted' = Wanted
  BY <1>1, <1>3 DEF Wanted, Included
<1> QED
  BY <1>2, <1>3, <1>4

(* The queries that remain after the next one.                             *)
LEMMA RemainingTail ==
  ASSUME NEW queries, InOrder(queries), queries # <<>>
  PROVE  /\ Remaining(queries) = {Head(queries).query} \cup Remaining(Tail(queries))
         /\ "schemas" \notin Remaining(Tail(queries))
         /\ "tables" \in Remaining(Tail(queries)) => Head(queries).query = "schemas"
         /\ Len(queries) = 1 => Remaining(Tail(queries)) = {}
<1>1. /\ Len(queries) \in Nat \ {0} /\ 1 \in 1..Len(queries) /\ Head(queries) = queries[1]
      /\ Len(queries) = 1 => Len(Tail(queries)) = 0
      /\ \A i \in 1..Len(Tail(queries)) :
           /\ i + 1 \in 1..Len(queries) /\ Tail(queries)[i] = queries[i + 1]
           /\ Precedes(Head(queries), Tail(queries)[i])
      /\ \A i \in 1..Len(queries) :
           queries[i] = Head(queries) \/ \E j \in 1..Len(Tail(queries)) : queries[i] = Tail(queries)[j]
  BY Asking
<1> DEFINE rest == Tail(queries)
           h == Head(queries)
           n == Len(queries)
<1>2. /\ 1 \in 1..n /\ h = queries[1]
      /\ n = 1 => Len(rest) = 0
      /\ \A i \in 1..Len(rest) : i + 1 \in 1..n /\ rest[i] = queries[i + 1] /\ Precedes(h, rest[i])
      /\ \A i \in 1..n : queries[i] = h \/ \E j \in 1..Len(rest) : queries[i] = rest[j]
  BY <1>1
<1> HIDE DEF rest, h, n
<1>3. {queries[i].query : i \in 1..n} = {h.query} \cup {rest[i].query : i \in 1..Len(rest)}
  <2>1. \A i \in 1..Len(rest) : \E j \in 1..n : rest[i].query = queries[j].query
    BY <1>2
  <2>2. \A i \in 1..n : queries[i].query = h.query \/ \E j \in 1..Len(rest) : queries[i].query = rest[j].query
    BY <1>2
  <2>3. h.query \in {queries[i].query : i \in 1..n}
    BY <1>2
  <2>4. \A x \in {rest[i].query : i \in 1..Len(rest)} : x \in {queries[i].query : i \in 1..n}
    BY <2>1
  <2>5. \A x \in {queries[i].query : i \in 1..n} : x \in {h.query} \cup {rest[i].query : i \in 1..Len(rest)}
    BY <2>2
  <2> QED
    BY <2>3, <2>4, <2>5, Zenon
<1>4. \A i \in 1..Len(rest) :
        rest[i].query # "schemas" /\ (rest[i].query = "tables" => h.query = "schemas")
  BY <1>2 DEF Precedes
<1>5. n = 1 => {rest[i].query : i \in 1..Len(rest)} = {}
  BY <1>2
<1> QED
  BY <1>3, <1>4, <1>5 DEF rest, h, n, Remaining

(* An answer to a query that comes after the tables, when what it adds     *)
(* fits and is about the tables that were asked of.                        *)
LEMMA AnswerKeeps ==
  ASSUME Whole, stage = "reading", todo # <<>>,
         Head(todo).query \notin {"schemas", "tables"},
         NEW e, Answered(e), Fits(e),
         DOMAIN e.columns = DOMAIN database.columns, e.schemas = database.schemas,
         e.queries = database.queries,
         \A place \in DOMAIN e.constraint \cup e.identity :
           place \in DOMAIN database.constraint \cup database.identity \/ About(Head(todo), place[1]),
         \A reference \in e.foreignKeys :
           reference \in database.foreignKeys \/ About(Head(todo), reference.table)
  PROVE  Whole'
<1>1. /\ database' = e /\ todo' = Tail(todo)
      /\ stage' = IF Len(todo) = 1 THEN "filtering" ELSE "reading"
      /\ UNCHANGED <<request, source, added, complete>>
  BY DEF Answered
<1>2. /\ dialect' = dialect /\ owner' = owner /\ rules' = rules /\ views' = views
      /\ catalogue' = catalogue /\ alterations' = alterations /\ added' = added /\ complete' = complete
  BY <1>1 DEF request, source
<1>3. InOrder(todo) /\ Ahead(database, todo)
  BY DEF Whole, Course
<1>4. InOrder(Tail(todo)) /\ (Len(todo) # 1 => Tail(todo) # <<>>)
  BY <1>3, Asking
<1>5. Course'
  BY <1>1, <1>2, <1>4 DEF Whole, Course
<1>6. Ahead(e, Tail(todo))
  BY <1>3, AheadStays
<1>7. Exported'
  <2>1. added = 0 /\ DOMAIN database.queries = {} /\ IsFiniteSet({}) /\ Cardinality({}) = 0
    BY FS_EmptySet DEF Whole, Exported
  <2> QED
    BY <1>1, <1>2, <2>1 DEF Exported, FromViews
<1>8. Selected'
  <2>1. /\ Schemas(catalogue)' = Schemas(catalogue) /\ Read' = Read
    BY <1>1, ScopeStays
  <2>2. "schemas" \notin Remaining(todo) /\ "tables" \notin Remaining(todo)
        /\ "schemas" \notin Remaining(Tail(todo))
    BY <1>3, RemainingTail
  <2>3. Tables' = Tables
    BY <1>1 DEF Tables
  <2>4. alterations = 0 => /\ dialect \in {"mssql", "oracle"} => Schemas(catalogue) \subseteq database.schemas
                           /\ Tables = Read
    BY <2>2 DEF Whole, Selected
  <2>5. stage' \in {"reading", "filtering"}
    BY <1>1
  <2>6. todo' = Tail(todo) /\ database'.schemas = database.schemas
    BY <1>1
  <2> QED
    BY <1>2, <2>1, <2>2, <2>3, <2>4, <2>5, <2>6 DEF Selected
<1> QED
  BY <1>1, <1>5, <1>6, <1>7, <1>8 DEF Whole

(* What a query that is answered waits for.                                *)
LEMMA AsksFacts ==
  ASSUME Whole, NEW query, Asks(query)
  PROVE  /\ stage = "reading" /\ todo # <<>> /\ Head(todo).query = query
         /\ InOrder(todo) /\ Ahead(database, todo) /\ Awaited(database, Head(todo))
         /\ Fits(database) /\ DOMAIN database = Fields
         /\ DOMAIN database.queries = {} /\ added = 0
         /\ dialect \in Dialects /\ IsCatalogue(catalogue)
<1>1. /\ stage = "reading" /\ todo # <<>> /\ Head(todo).query = query
  BY DEF Asks
<1>2. InOrder(todo) /\ Ahead(database, todo) /\ Fits(database) /\ dialect \in Dialects
  BY <1>1 DEF Whole, Course
<1>3. 1 \in 1..Len(todo) /\ Head(todo) = todo[1]
  BY <1>1, <1>2, Asking
<1>4. Awaited(database, Head(todo))
  BY <1>2, <1>3 DEF Ahead
<1>5. DOMAIN database.queries = {} /\ added = 0
  BY <1>1 DEF Whole, Exported
<1>6. IsCatalogue(catalogue)
  BY Given DEF Whole
<1> QED
  BY <1>1, <1>2, <1>4, <1>5, <1>6 DEF Fits

(* The schemas come before any table.                                      *)
LEMMA SchemasKeep == ASSUME Whole, ReadSchemas PROVE Whole'
<1> DEFINE e == [database EXCEPT !.schemas = Schemas(catalogue)]
<1>1. Asks("schemas") /\ Answered(e)
  BY DEF ReadSchemas
<1>2. /\ stage = "reading" /\ todo # <<>> /\ Head(todo).query = "schemas"
      /\ InOrder(todo) /\ Ahead(database, todo) /\ Awaited(database, Head(todo))
      /\ Fits(database) /\ DOMAIN database = Fields
      /\ DOMAIN database.queries = {} /\ added = 0
  BY <1>1, AsksFacts
<1>3. DOMAIN database.columns = {}
  BY <1>2 DEF Awaited
<1>4. Fits(e) /\ Ahead(e, Tail(todo))
  BY <1>2, <1>3, SchemasFit
<1>5. e.columns = database.columns /\ e.queries = database.queries /\ e.schemas = Schemas(catalogue)
  BY <1>2 DEF Fields
<1> HIDE DEF e
<1>6. /\ database' = e /\ todo' = Tail(todo)
      /\ stage' = IF Len(todo) = 1 THEN "filtering" ELSE "reading"
      /\ UNCHANGED <<request, source, added, complete>>
  BY <1>1 DEF Answered
<1>7. /\ dialect' = dialect /\ owner' = owner /\ rules' = rules /\ views' = views
      /\ catalogue' = catalogue /\ alterations' = alterations /\ added' = added /\ complete' = complete
  BY <1>6 DEF request, source
<1>8. InOrder(Tail(todo)) /\ (Len(todo) # 1 => Tail(todo) # <<>>)
  BY <1>2, Asking
<1>9. Course'
  BY <1>6, <1>7, <1>8 DEF Whole, Course
<1>10. Exported'
  <2>1. IsFiniteSet({}) /\ Cardinality({}) = 0
    BY FS_EmptySet
  <2> QED
    BY <1>2, <1>5, <1>6, <1>7, <2>1 DEF Exported, FromViews
<1>11. Selected'
  <2>1. Schemas(catalogue)' = Schemas(catalogue)
    BY <1>6, ScopeStays
  <2>2. /\ "tables" \in Remaining(Tail(todo)) /\ "schemas" \notin Remaining(Tail(todo))
        /\ Len(todo) # 1
    <3>1. /\ Remaining(todo) = {Head(todo).query} \cup Remaining(Tail(todo))
          /\ "schemas" \notin Remaining(Tail(todo))
          /\ Len(todo) = 1 => Remaining(Tail(todo)) = {}
      BY <1>2, RemainingTail
    <3>2. "tables" \in Remaining(todo)
      BY <1>2, <3>1 DEF Whole, Selected
    <3> QED
      BY <1>2, <3>1, <3>2
  <2> QED
    BY <1>5, <1>6, <2>1, <2>2 DEF Selected
<1> QED
  BY <1>4, <1>6, <1>9, <1>10, <1>11 DEF Whole

(* The columns of a table come before its keys and foreign keys.           *)
LEMMA ColumnsKeep == ASSUME Whole, ReadColumns PROVE Whole'
<1> DEFINE known == {table \in Tables \cap DOMAIN catalogue.columns : Asked(table)}
           columns == [table \in Tables |->
                         IF table \in known THEN catalogue.columns[table]
                         ELSE database.columns[table]]
           keys == IF dialect # "sqlite" THEN {}
                   ELSE {row \in KeyRows(catalogue) : row.table \in known}
           places == DOMAIN database.constraint \cup {<<row.table, row.column>> : row \in keys}
           constraint == [place \in places |->
                            IF place \in DOMAIN database.constraint THEN database.constraint[place]
                            ELSE "PRIMARY KEY"]
           identity == {place \in IdentityOfColumns(catalogue) : place[1] \in known}
           e == [database EXCEPT !.columns = columns, !.constraint = constraint,
                                 !.identity = @ \cup identity]
<1>1. Asks("columns") /\ Answered(e)
  BY DEF ReadColumns
<1>2. /\ stage = "reading" /\ todo # <<>> /\ Head(todo).query = "columns"
      /\ Awaited(database, Head(todo)) /\ Fits(database) /\ DOMAIN database = Fields
      /\ dialect \in Dialects /\ IsCatalogue(catalogue)
  BY <1>1, AsksFacts
<1>3. known \subseteq DOMAIN database.columns \cap DOMAIN catalogue.columns
  BY DEF Tables
<1>4. \A table \in known : About(Head(todo), table) /\ Blank(database, table)
  BY <1>2 DEF Awaited, Asked, About, Tables
<1>5. /\ DOMAIN columns = DOMAIN database.columns
      /\ \A table \in known : columns[table] = catalogue.columns[table]
      /\ \A table \in DOMAIN database.columns :
           table \notin known => columns[table] = database.columns[table]
  BY <1>3 DEF Tables
<1>6. keys \subseteq SQLite!KeyRows(catalogue) /\ \A row \in keys : row.table \in known
  BY DEF KeyRows
<1>7. identity \subseteq IdentityOfColumns(catalogue) /\ \A place \in identity : place[1] \in known
  OBVIOUS
<1>8. DOMAIN constraint = DOMAIN database.constraint \cup {<<row.table, row.column>> : row \in keys}
  OBVIOUS
<1> HIDE DEF known, columns, keys, constraint, identity
<1>9. /\ DOMAIN e = Fields /\ e.columns = columns /\ e.constraint = constraint
      /\ e.identity = database.identity \cup identity /\ e.schemas = database.schemas
      /\ e.foreignKeys = database.foreignKeys /\ e.indexes = database.indexes
      /\ e.queries = database.queries
  BY <1>2 DEF Fields
<1> HIDE DEF e
<1>10. /\ Fits(e)
       /\ \A place \in DOMAIN e.constraint \cup e.identity :
            place \in DOMAIN database.constraint \cup database.identity \/ place[1] \in known
  <2>1. Described(database, e, catalogue, known, keys, identity)
    BY <1>3, <1>4, <1>5, <1>6, <1>7, <1>8, <1>9 DEF Described
  <2> QED
    BY <1>2, <2>1, ColumnsFit
<1>11. \A place \in DOMAIN e.constraint \cup e.identity :
         place \in DOMAIN database.constraint \cup database.identity \/ About(Head(todo), place[1])
  BY <1>4, <1>10
<1>12. DOMAIN e.columns = DOMAIN database.columns
  BY <1>5, <1>9
<1>13. Head(todo).query \notin {"schemas", "tables"}
  BY <1>2
<1> QED
  BY <1>1, <1>2, <1>9, <1>10, <1>11, <1>12, <1>13, AnswerKeeps

(* The expressions of computed columns change nothing that is modelled.    *)
LEMMA ComputedColumnsKeep == ASSUME Whole, ReadComputedColumns PROVE Whole'
<1>1. Asks("computed columns") /\ Answered(database)
  BY DEF ReadComputedColumns
<1>2. stage = "reading" /\ todo # <<>> /\ Head(todo).query = "computed columns" /\ Fits(database)
  BY <1>1, AsksFacts
<1>3. Head(todo).query \notin {"schemas", "tables"}
  BY <1>2
<1> QED
  BY <1>1, <1>2, <1>3, AnswerKeeps

(* A query that is not about one table is about all.                       *)
LEMMA AboutAll ==
  ASSUME NEW q, IsQuery(q), q.query \notin {"columns", "indexes", "foreign keys"}, NEW table
  PROVE  About(q, table)
BY DEF IsQuery, About

(* Identity rows of unknown columns are passed over.                       *)
LEMMA IdentityKeeps == ASSUME Whole, ReadIdentity PROVE Whole'
<1> DEFINE identity == {place \in IdentityRows(catalogue) : HasColumn(place[1], place[2])}
           e == [database EXCEPT !.identity = @ \cup identity]
<1>1. Asks("identity") /\ Answered(e)
  BY DEF ReadIdentity
<1>2. /\ stage = "reading" /\ todo # <<>> /\ Head(todo).query = "identity"
      /\ InOrder(todo) /\ Fits(database) /\ DOMAIN database = Fields
  BY <1>1, AsksFacts
<1>3. \A place \in identity : Has(database, place[1], place[2])
  BY DEF HasColumn, Has, Tables
<1>4. \A table : About(Head(todo), table)
  <2>1. IsQuery(Head(todo))
    BY <1>2, Asking
  <2> QED
    BY <1>2, <2>1, AboutAll
<1> HIDE DEF identity
<1>5. Fits(e)
  BY <1>2, <1>3, IdentitiesFit
<1>6. /\ e.columns = database.columns /\ e.schemas = database.schemas /\ e.queries = database.queries
      /\ e.foreignKeys = database.foreignKeys
  BY <1>2 DEF Fields
<1> HIDE DEF e
<1>7. Head(todo).query \notin {"schemas", "tables"}
  BY <1>2
<1> QED
  BY <1>1, <1>2, <1>4, <1>5, <1>6, <1>7, AnswerKeeps

(* So are the rows of keys.                                                *)
LEMMA ConstraintsKeep == ASSUME Whole, ReadConstraints PROVE Whole'
<1>1. PICK new \in Constrained(database.constraint, KeyRows(catalogue)) :
        Asks("constraints") /\ Answered([database EXCEPT !.constraint = new])
  BY DEF ReadConstraints
<1> DEFINE e == [database EXCEPT !.constraint = new]
<1>2. /\ stage = "reading" /\ todo # <<>> /\ Head(todo).query = "constraints"
      /\ Fits(database) /\ DOMAIN database = Fields
  BY <1>1, AsksFacts
<1>3. \A place \in DOMAIN new :
        \/ place \in DOMAIN database.constraint
        \/ HasColumn(place[1], place[2]) /\ Asked(place[1])
  BY DEF Constrained
<1>4. \A place \in DOMAIN new :
        /\ place \in DOMAIN database.constraint \/ Has(database, place[1], place[2])
        /\ place \in DOMAIN database.constraint \/ About(Head(todo), place[1])
  BY <1>3 DEF HasColumn, Has, Tables, Asked, About
<1>5. Fits(e)
  BY <1>2, <1>4, ConstraintsFit
<1>6. /\ e.columns = database.columns /\ e.schemas = database.schemas /\ e.queries = database.queries
      /\ e.foreignKeys = database.foreignKeys /\ e.constraint = new /\ e.identity = database.identity
  BY <1>2 DEF Fields
<1> HIDE DEF e
<1>7. Head(todo).query \notin {"schemas", "tables"}
  BY <1>2
<1>8. Answered(e)
  BY <1>1 DEF e
<1> QED
  BY <1>2, <1>4, <1>5, <1>6, <1>7, <1>8, AnswerKeeps

(* Foreign keys are attached with all their columns.                       *)
LEMMA ForeignKeysKeep == ASSUME Whole, ReadForeignKeys PROVE Whole'
<1> DEFINE S == {row \in ForeignKeyRows(catalogue) :
                   Asked(row.table) /\ row.table.schema \in Schemas(catalogue)}
           groups == {rows \in Groups(S) : Attachable(rows)}
<1>1. PICK order \in Arrivals(groups) :
        /\ Asks("foreign keys")
        /\ Answered([database EXCEPT !.foreignKeys = @ \cup {ForeignKey(order[rows]) : rows \in groups}])
  BY DEF ReadForeignKeys
<1> DEFINE new == {ForeignKey(order[rows]) : rows \in groups}
           e == [database EXCEPT !.foreignKeys = @ \cup new]
<1>2. /\ stage = "reading" /\ todo # <<>> /\ Head(todo).query = "foreign keys"
      /\ Fits(database) /\ DOMAIN database = Fields
      /\ dialect \in Dialects /\ IsCatalogue(catalogue)
  BY <1>1, AsksFacts
<1>3. IsFiniteSet(S)
  BY <1>2, ForeignKeyRowsFinite, FS_Subset
<1>4. /\ \A row \in S : Asked(row.table)
      /\ groups \subseteq Groups(S) /\ \A rows \in groups : Attachable(rows)
  OBVIOUS
<1> HIDE DEF S, groups
<1>5. ASSUME NEW rows \in groups
      PROVE  /\ IsKey(database, ForeignKey(order[rows]))
             /\ About(Head(todo), ForeignKey(order[rows]).table)
  <2> DEFINE a == order[rows]
  <2>1. /\ rows \subseteq S /\ \A one, other \in rows : one.table = other.table
        /\ Len(a) \in Nat \ {0} /\ \A i \in 1..Len(a) : a[i] \in rows
    BY <1>3, <1>4, GroupArrives
  <2> HIDE DEF a
  <2>2. 1 \in 1..Len(a)
    BY <2>1
  <2>3. /\ ForeignKey(a).table = a[1].table
        /\ ForeignKey(a).columns = [i \in 1..Len(a) |-> a[i].column]
        /\ ForeignKey(a).refColumns = [i \in 1..Len(a) |-> a[i].refColumn]
    BY DEF ForeignKey
  <2>4. Len(ForeignKey(a).columns) = Len(a) /\ Len(ForeignKey(a).refColumns) = Len(a)
    BY <2>1, <2>3
  <2>5. \A i \in 1..Len(a) : Has(database, a[1].table, a[i].column)
    BY <1>4, <2>1, <2>2 DEF Attachable, HasColumn, Has, Tables
  <2>6. About(Head(todo), a[1].table)
    BY <1>4, <2>1, <2>2 DEF Asked, About
  <2> QED
    BY <2>1, <2>3, <2>4, <2>5, <2>6 DEF IsKey, a
<1>6. \A reference \in new : IsKey(database, reference) /\ About(Head(todo), reference.table)
  BY <1>5
<1> HIDE DEF new
<1>7. Fits(e)
  BY <1>2, <1>6, ForeignKeysFit
<1>8. /\ e.columns = database.columns /\ e.schemas = database.schemas /\ e.queries = database.queries
      /\ e.foreignKeys = database.foreignKeys \cup new
      /\ e.constraint = database.constraint /\ e.identity = database.identity
  BY <1>2 DEF Fields
<1>9. Answered(e)
  BY <1>1 DEF new
<1> HIDE DEF e
<1>10. Head(todo).query \notin {"schemas", "tables"}
  BY <1>2
<1> QED
  BY <1>2, <1>6, <1>7, <1>8, <1>9, <1>10, AnswerKeeps

(* Indexes are of tables that are there.                                   *)
LEMMA IndexesKeep == ASSUME Whole, ReadIndexes PROVE Whole'
<1> DEFINE S == {row \in IndexRows(catalogue) : row.table \in Tables /\ Asked(row.table)}
           groups == Groups(S)
<1>1. PICK order \in Arrivals(groups) :
        /\ Asks("indexes")
        /\ Answered([database EXCEPT !.indexes = @ \cup {Index(order[rows]) : rows \in groups}])
  BY DEF ReadIndexes
<1> DEFINE new == {Index(order[rows]) : rows \in groups}
           e == [database EXCEPT !.indexes = @ \cup new]
<1>2. /\ stage = "reading" /\ todo # <<>> /\ Head(todo).query = "indexes"
      /\ Fits(database) /\ DOMAIN database = Fields
      /\ dialect \in Dialects /\ IsCatalogue(catalogue)
  BY <1>1, AsksFacts
<1>3. IsFiniteSet(S)
  BY <1>2, IndexesFinite, FS_Subset
<1>4. /\ \A row \in S : row.table \in DOMAIN database.columns
      /\ groups \subseteq Groups(S)
  BY DEF Tables
<1> HIDE DEF S, groups
<1>5. ASSUME NEW rows \in groups
      PROVE  Index(order[rows]).table \in DOMAIN database.columns
  <2> DEFINE a == order[rows]
  <2>1. /\ rows \subseteq S
        /\ Len(a) \in Nat \ {0} /\ \A i \in 1..Len(a) : a[i] \in rows
    BY <1>3, <1>4, GroupArrives
  <2> HIDE DEF a
  <2>2. 1 \in 1..Len(a)
    BY <2>1
  <2>3. Index(a).table = a[1].table
    BY DEF Index
  <2> QED
    BY <1>4, <2>1, <2>2, <2>3 DEF a
<1>6. \A index \in new : index.table \in DOMAIN database.columns
  BY <1>5
<1> HIDE DEF new
<1>7. Fits(e)
  BY <1>2, <1>6, IndexesFit
<1>8. /\ e.columns = database.columns /\ e.schemas = database.schemas /\ e.queries = database.queries
      /\ e.foreignKeys = database.foreignKeys
      /\ e.constraint = database.constraint /\ e.identity = database.identity
  BY <1>2 DEF Fields
<1>9. Answered(e)
  BY <1>1 DEF new
<1> HIDE DEF e
<1>10. Head(todo).query \notin {"schemas", "tables"}
  BY <1>2
<1> QED
  BY <1>2, <1>6, <1>7, <1>8, <1>9, <1>10, AnswerKeeps

(* The tables come while the Database is empty, and fix what is asked next.*)
LEMMA TablesKeep == ASSUME Whole, ReadTables PROVE Whole'
<1> DEFINE own == IF dialect = "postgres" THEN Schemas(catalogue)
                  ELSE IF dialect \in {"mysql", "sqlite"} THEN {Home} ELSE {}
           schemas == database.schemas \cup own
           listed == {table \in DOMAIN catalogue.columns :
                        table.schema \in Schemas(catalogue) \cap schemas}
           e == [database EXCEPT !.schemas = schemas, !.columns = [table \in listed |-> <<>>]]
<1>1. PICK order \in (IF dialect = "sqlite" THEN SetToSeqs(listed) ELSE {<<>>}) :
        /\ Asks("tables") /\ database' = e
        /\ todo' = IF dialect # "sqlite" THEN Tail(todo) ELSE QueriesAbout(order)
        /\ stage' = IF todo' = <<>> THEN "filtering" ELSE "reading"
        /\ UNCHANGED <<request, source, added, complete>>
  BY DEF ReadTables
<1>2. /\ stage = "reading" /\ todo # <<>> /\ Head(todo).query = "tables"
      /\ InOrder(todo) /\ Awaited(database, Head(todo))
      /\ Fits(database) /\ DOMAIN database = Fields
      /\ DOMAIN database.queries = {} /\ added = 0
      /\ dialect \in Dialects /\ IsCatalogue(catalogue)
  BY <1>1, AsksFacts
<1>3. /\ dialect' = dialect /\ owner' = owner /\ rules' = rules /\ views' = views
      /\ catalogue' = catalogue /\ alterations' = alterations /\ added' = added /\ complete' = complete
  BY <1>1 DEF request, source
<1>4. /\ "schemas" \notin Remaining(todo)
      /\ "schemas" \notin Remaining(Tail(todo)) /\ "tables" \notin Remaining(Tail(todo))
  BY <1>2, RemainingTail
<1>5. InOrder(todo') /\ Remaining(todo') \cap {"schemas", "tables"} = {}
  <2>1. CASE dialect # "sqlite"
    <3>1. InOrder(Tail(todo))
      BY <1>2, Asking
    <3> QED
      BY <1>1, <1>4, <2>1, <3>1
  <2>2. CASE dialect = "sqlite"
    <3> DEFINE n == Cardinality(listed)
    <3>1. n \in Nat
      <4>1. IsFiniteSet(DOMAIN catalogue.columns)
        BY <1>2 DEF IsCatalogue
      <4> QED
        BY <4>1, FS_Subset, FS_CardinalityType
    <3>2. order \in [1..n -> listed] /\ \A i, j \in 1..n : i # j => order[i] # order[j]
      BY <1>1, <2>2 DEF SetToSeqs
    <3> HIDE DEF n
    <3>3. Len(order) = n
      BY <3>1, <3>2
    <3>4. /\ InOrder(QueriesAbout(order)) /\ Len(QueriesAbout(order)) = 3 * n
          /\ \A i \in 1..(3 * n) :
               QueriesAbout(order)[i].query \in {"columns", "indexes", "foreign keys"}
      BY <3>1, <3>2, <3>3, QueriesAboutInOrder
    <3>5. todo' = QueriesAbout(order)
      BY <1>1, <2>2
    <3>6. Remaining(QueriesAbout(order)) \subseteq {"columns", "indexes", "foreign keys"}
      BY <3>4 DEF Remaining
    <3> QED
      BY <3>4, <3>5, <3>6
  <2> QED
    BY <2>1, <2>2
<1>6. \A i \in 1..Len(todo') : todo'[i].query \notin {"schemas", "tables"}
  BY <1>5 DEF Remaining
<1>7. DOMAIN database.columns = {}
  BY <1>2 DEF Awaited
<1>8. \A table \in listed : table.schema \in schemas
  OBVIOUS
<1>9. alterations = 0 => listed = Read
  <2>1. alterations = 0 => Schemas(catalogue) \subseteq schemas
    <3>1. CASE dialect = "postgres"
      BY <3>1
    <3>2. CASE dialect \in {"mysql", "sqlite"}
      BY <3>2 DEF Schemas
    <3>3. CASE dialect \in {"mssql", "oracle"}
      BY <1>2, <1>4, <3>3 DEF Whole, Selected
    <3> QED
      BY <1>2, <3>1, <3>2, <3>3 DEF Dialects
  <2> QED
    BY <2>1 DEF Read, InScope
<1> HIDE DEF own, schemas, listed
<1>10. Fits(e) /\ Ahead(e, todo')
  BY <1>2, <1>6, <1>7, <1>8, TablesFit
<1>11. DOMAIN e.columns = listed /\ e.queries = database.queries
  BY <1>2 DEF Fields
<1> HIDE DEF e
<1>12. Course'
  BY <1>1, <1>3, <1>5 DEF Whole, Course
<1>13. Exported'
  <2>1. IsFiniteSet({}) /\ Cardinality({}) = 0
    BY FS_EmptySet
  <2>2. database'.queries = database.queries
    BY <1>1, <1>11
  <2>3. stage' # "done"
    BY <1>1
  <2> QED
    BY <1>2, <1>3, <2>1, <2>2, <2>3 DEF Exported, FromViews
<1>14. Selected'
  <2>1. Schemas(catalogue)' = Schemas(catalogue) /\ Read' = Read
    BY <1>1, ScopeStays
  <2>2. Tables' = listed
    BY <1>1, <1>11 DEF Tables
  <2>3. stage' \in {"reading", "filtering"}
    BY <1>1
  <2>4. alterations = 0 /\ dialect \in {"mssql", "oracle"} => Schemas(catalogue) \subseteq database'.schemas
    <3>1. database'.schemas = schemas
      BY <1>1, <1>2 DEF e, Fields
    <3>2. alterations = 0 /\ dialect \in {"mssql", "oracle"} => Schemas(catalogue) \subseteq database.schemas
      BY <1>2, <1>4 DEF Whole, Selected
    <3> QED
      BY <3>1, <3>2 DEF schemas
  <2> QED
    BY <1>3, <1>5, <1>9, <2>1, <2>2, <2>3, <2>4 DEF Selected
<1> QED
  BY <1>1, <1>10, <1>12, <1>13, <1>14 DEF Whole

(* A failed query ends the reading, with what has been read.               *)
LEMMA FailureKeeps == ASSUME Whole, QueryFails PROVE Whole'
<1>1. /\ stage = "reading" /\ todo # <<>> /\ database' = database
      /\ UNCHANGED <<request, source, added, database>>
  BY DEF QueryFails
<1>2. /\ dialect' = dialect /\ owner' = owner /\ rules' = rules /\ views' = views
      /\ catalogue' = catalogue /\ alterations' = alterations /\ added' = added
  BY <1>1 DEF request, source
<1>3. complete' \in BOOLEAN
  BY DEF QueryFails, Whole, Course
<1>4. \/ stage' = "SourceReaderError"
      \/ stage' = "filtering" /\ Head(todo).query = "identity"
  BY DEF QueryFails
<1>5. Course'
  BY <1>1, <1>2, <1>3, <1>4 DEF Whole, Course
<1>6. Exported'
  BY <1>1, <1>2, <1>4 DEF Whole, Exported
<1>7. Selected'
  <2>1. Read' = Read /\ Tables' = Tables
    BY <1>1, ScopeStays DEF Tables
  <2>2. ASSUME stage' = "filtering", alterations = 0 PROVE Tables = Read
    <3>1. InOrder(todo)
      BY <1>1 DEF Whole, Course
    <3>2. "tables" \notin Remaining(todo)
      BY <1>1, <1>4, <2>2, <3>1, RemainingTail
    <3> QED
      BY <1>1, <2>2, <3>2 DEF Whole, Selected
  <2> QED
    BY <1>2, <1>4, <2>1, <2>2 DEF Selected
<1> QED
  BY <1>1, <1>4, <1>5, <1>6, <1>7 DEF Whole

(* Another session changes the catalogue, never the Database.              *)
LEMMA AlterationKeeps == ASSUME Whole, AlterSource PROVE Whole'
<1>1. /\ stage = "reading" /\ alterations < MaxAlterations
      /\ catalogue' \in Alterations(dialect, catalogue) /\ alterations' = alterations + 1
      /\ UNCHANGED <<request, added, todo, stage, complete, database>>
  BY DEF AlterSource
<1>2. /\ dialect' = dialect /\ owner' = owner /\ views' = views /\ added' = added
      /\ todo' = todo /\ stage' = stage /\ complete' = complete /\ database' = database
  BY <1>1 DEF request
<1>3. alterations \in 0..MaxAlterations /\ MaxAlterations \in Nat
      /\ Alterations(dialect, catalogue) \subseteq Catalogues(dialect)
  BY Given DEF Whole, Course
<1>4. alterations' \in 0..MaxAlterations /\ alterations' # 0
  BY <1>1, <1>3
<1>5. Course'
  BY <1>1, <1>2, <1>3, <1>4 DEF Whole, Course
<1>6. Exported' /\ Selected'
  BY <1>1, <1>2, <1>4 DEF Whole, Exported, Selected
<1> QED
  BY <1>2, <1>5, <1>6 DEF Whole

(* The filter keeps the tables that are wanted, with what is said of them. *)
LEMMA FilterKeeps == ASSUME Whole, Filter PROVE Whole'
<1> DEFINE kept == {table \in Tables : Included(table)}
           e == Pruned(database, kept)
<1>1. /\ stage = "filtering" /\ database' = e /\ stage' = "views"
      /\ UNCHANGED <<request, source, added, todo, complete>>
  BY DEF Filter
<1>2. /\ dialect' = dialect /\ owner' = owner /\ rules' = rules /\ views' = views
      /\ catalogue' = catalogue /\ alterations' = alterations /\ added' = added /\ complete' = complete
  BY <1>1 DEF request, source
<1>3. Fits(database) /\ DOMAIN database.queries = {} /\ added = 0
  BY <1>1 DEF Whole, Exported
<1>4. kept \subseteq DOMAIN database.columns /\ (Tables = Read => kept = Wanted)
  BY DEF Tables, Wanted
<1> HIDE DEF kept
<1>5. Fits(e) /\ DOMAIN e.columns = kept /\ e.queries = database.queries
  BY <1>3, <1>4, PrunedFits
<1> HIDE DEF e
<1>6. Course'
  BY <1>1, <1>2 DEF Whole, Course
<1>7. Exported'
  BY <1>1, <1>2, <1>3, <1>5 DEF Whole, Exported, FromViews
<1>8. Selected'
  <2>1. Wanted' = Wanted /\ Tables' = kept
    BY <1>1, <1>5, ScopeStays DEF Tables
  <2> QED
    BY <1>1, <1>2, <1>3, <1>4, <1>5, <2>1 DEF Whole, Selected
<1> QED
  BY <1>1, <1>5, <1>6, <1>7, <1>8 DEF Whole

(* An export adds a table that was not there.                              *)
LEMMA ViewKeeps == ASSUME Whole, MaterializeView PROVE Whole'
<1> DEFINE view == views[added + 1]
           e == WithView(database, view)
<1>1. /\ stage = "views" /\ added < Len(views) /\ KeyIsKnown(view) /\ view.table \notin Tables
      /\ database' = e /\ added' = added + 1
      /\ UNCHANGED <<request, source, todo, stage, complete>>
  BY DEF MaterializeView, View
<1>2. /\ dialect' = dialect /\ owner' = owner /\ rules' = rules /\ views' = views
      /\ catalogue' = catalogue /\ alterations' = alterations /\ stage' = stage /\ complete' = complete
  BY <1>1 DEF request, source
<1>3. /\ Len(views) \in Nat /\ added \in 0..Len(views)
      /\ \A i \in 1..Len(views) : views[i].answers \in Seq(STRING)
  BY Given DEF Whole, Course
<1>4. added + 1 \in 1..Len(views) /\ added + 1 \in 0..Len(views)
  BY <1>1, <1>3
<1>5. view.answers \in Seq(STRING)
  BY <1>3, <1>4
<1>6. Fits(database) /\ view.table \notin DOMAIN database.columns
  BY <1>1 DEF Whole, Tables
<1>7. \E i \in 1..Len(views) : view = views[i]
  BY <1>4
<1> HIDE DEF view
<1>8. /\ Fits(e)
      /\ DOMAIN e.columns = DOMAIN database.columns \cup {view.table}
      /\ DOMAIN e.queries = DOMAIN database.queries \cup {view.table}
      /\ \A table \in DOMAIN database.columns : e.columns[table] = database.columns[table]
      /\ \A table \in DOMAIN database.queries : e.queries[table] = database.queries[table]
      /\ e.columns[view.table] = Distinct(view.answers)
      /\ e.queries[view.table] = view
  BY <1>1, <1>5, <1>6, ViewFits
<1> HIDE DEF e
<1>9. view.table \notin DOMAIN database.queries /\ DOMAIN database.queries \subseteq DOMAIN database.columns
  BY <1>6 DEF Fits
<1>10. Course'
  BY <1>1, <1>2, <1>4 DEF Whole, Course
<1>11. Exported'
  <2>1. /\ IsFiniteSet(DOMAIN e.queries)
        /\ Cardinality(DOMAIN e.queries) = Cardinality(DOMAIN database.queries) + 1
    <3>1. IsFiniteSet(DOMAIN database.queries)
      BY DEF Whole, Exported
    <3>2. DOMAIN e.queries = DOMAIN database.queries \cup {view.table}
      BY <1>8
    <3> QED
      BY <1>9, <3>1, <3>2, FS_AddElement
  <2>2. Cardinality(DOMAIN database.queries) = added
    BY DEF Whole, Exported
  <2>3. ASSUME NEW table \in DOMAIN e.queries
        PROVE  \E i \in 1..Len(views) :
                 e.queries[table] = views[i] /\ e.columns[table] = Distinct(views[i].answers)
    <3>1. CASE table = view.table
      BY <1>7, <1>8, <3>1
    <3>2. CASE table \in DOMAIN database.queries
      BY <1>8, <1>9, <3>2 DEF Whole, Exported, FromViews
    <3> QED
      BY <1>8, <3>1, <3>2
  <2> QED
    BY <1>1, <1>2, <2>1, <2>2, <2>3 DEF Exported, FromViews
<1>12. Selected'
  <2>1. Wanted' = Wanted /\ Tables' = Tables \cup {view.table}
    BY <1>1, <1>8, ScopeStays DEF Tables
  <2>2. Tables' \ DOMAIN database'.queries = Tables \ DOMAIN database.queries
    BY <1>1, <1>8, <2>1
  <2> QED
    BY <1>1, <1>2, <2>1, <2>2 DEF Whole, Selected
<1> QED
  BY <1>1, <1>2, <1>8, <1>10, <1>11, <1>12 DEF Whole

(* The end of the views, and what does not touch the Database.             *)
LEMMA EndKeeps == ASSUME Whole, ViewFails \/ ViewsDone PROVE Whole'
<1>1. /\ stage = "views"
      /\ stage' = "view failed" \/ (stage' = "done" /\ added = Len(views))
      /\ UNCHANGED <<request, source, added, todo, complete, database>>
  BY DEF ViewFails, ViewsDone
<1>2. /\ dialect' = dialect /\ owner' = owner /\ rules' = rules /\ views' = views
      /\ catalogue' = catalogue /\ alterations' = alterations /\ added' = added
      /\ complete' = complete /\ database' = database
  BY <1>1 DEF request, source
<1>3. Course'
  BY <1>1, <1>2 DEF Whole, Course
<1>4. Exported'
  BY <1>1, <1>2 DEF Whole, Exported
<1>5. Selected'
  <2>1. Wanted' = Wanted /\ Tables' = Tables
    BY <1>1, ScopeStays DEF Tables
  <2> QED
    BY <1>1, <1>2, <2>1 DEF Whole, Selected
<1> QED
  BY <1>1, <1>2, <1>3, <1>4, <1>5 DEF Whole

(* Nothing changes.                                                        *)
LEMMA StutterKeeps == ASSUME Whole, UNCHANGED vars PROVE Whole'
<1>1. UNCHANGED <<request, source>>
  BY DEF vars
<1>2. /\ dialect' = dialect /\ owner' = owner /\ rules' = rules /\ views' = views
      /\ catalogue' = catalogue /\ alterations' = alterations /\ added' = added
      /\ todo' = todo /\ stage' = stage /\ complete' = complete /\ database' = database
  BY DEF vars, request, source
<1>3. Course' /\ Exported'
  BY <1>2 DEF Whole, Course, Exported
<1>4. Selected'
  <2>1. Wanted' = Wanted /\ Read' = Read /\ Schemas(catalogue)' = Schemas(catalogue) /\ Tables' = Tables
    BY <1>1, <1>2, ScopeStays DEF Tables
  <2> QED
    BY <1>2, <2>1 DEF Whole, Selected
<1> QED
  BY <1>2, <1>3, <1>4 DEF Whole

(* A reader starts with an empty Database and its list of queries.         *)
LEMMA InitWhole == Init => Whole
<1> SUFFICES ASSUME Init PROVE Whole
  OBVIOUS
<1>1. /\ dialect \in Dialects /\ owner \in BOOLEAN /\ catalogue \in Catalogues(dialect)
      /\ alterations = 0 /\ views \in Views /\ added = 0
      /\ todo = [i \in 1..Len(Queries) |-> [query |-> Queries[i], of |-> {}]]
      /\ stage = "reading" /\ complete = TRUE /\ database = EmptyDatabase
  BY DEF Init
<1>2. /\ DOMAIN database = Fields /\ DOMAIN database.columns = {} /\ DOMAIN database.constraint = {}
      /\ database.identity = {} /\ database.foreignKeys = {} /\ database.indexes = {}
      /\ DOMAIN database.queries = {}
  <2>1. DOMAIN <<>> = {}
    OBVIOUS
  <2> QED
    BY <1>1, <2>1 DEF EmptyDatabase, Fields
<1>3. IsList(Queries) /\ (dialect \in {"mssql", "oracle"} => Queries[1] = "schemas")
  BY <1>1, QueriesAreList
<1>4. /\ InOrder(todo) /\ todo # <<>>
      /\ "tables" \in Remaining(todo)
      /\ Queries[1] = "schemas" => "schemas" \in Remaining(todo)
  BY <1>1, <1>3, ListInOrder DEF Remaining
<1>5. Course
  <2>1. MaxAlterations \in Nat /\ Len(views) \in Nat
    BY <1>1, CatalogueAssumption
  <2>2. alterations \in 0..MaxAlterations /\ added \in 0..Len(views)
    BY <1>1, <2>1
  <2> QED
    BY <1>1, <1>4, <2>2 DEF Course
<1>6. Fits(database) /\ Ahead(database, todo)
  BY <1>2 DEF Fits, Ahead, Awaited
<1>7. Exported
  BY <1>1, <1>2, FS_EmptySet DEF Exported, FromViews
<1>8. Selected
  BY <1>1, <1>3, <1>4 DEF Selected
<1> QED
  BY <1>5, <1>6, <1>7, <1>8 DEF Whole

(* So every step keeps the whole, and it always holds.                     *)
LEMMA NextKeeps == Whole /\ [Next]_vars => Whole'
<1> SUFFICES ASSUME Whole, [Next]_vars PROVE Whole'
  OBVIOUS
<1>1. CASE Ended
  BY <1>1, StutterKeeps DEF Ended
<1>2. CASE UNCHANGED vars
  BY <1>2, StutterKeeps
<1> QED
  BY <1>1, <1>2, SchemasKeep, TablesKeep, ColumnsKeep, ComputedColumnsKeep, IdentityKeeps,
     ConstraintsKeep, ForeignKeysKeep, IndexesKeep, FailureKeeps, AlterationKeeps, FilterKeeps,
     ViewKeeps, EndKeeps DEF Next

(* The whole holds in every state of every behaviour.                      *)
LEMMA AlwaysWhole == Spec => []Whole
BY InitWhole, NextKeeps, PTL DEF Spec

-----------------------------------------------------------------------------
(* TypeOK: the parts of the Database fit together at every step, whatever  *)
(* other sessions do to the source between two queries of the reader.      *)
THEOREM TypeCorrect == Spec => []TypeOK
<1>1. Whole => TypeOK
  <2> SUFFICES ASSUME Whole PROVE TypeOK
    OBVIOUS
  <2>1. \A place \in DOMAIN database.constraint \cup database.identity : HasColumn(place[1], place[2])
    BY DEF Whole, Fits, Has, HasColumn, Tables
  <2>2. {table.schema : table \in Tables} \subseteq database.schemas
    BY DEF Whole, Fits, Tables
  <2>3. /\ \A index \in database.indexes : index.table \in Tables
        /\ DOMAIN database.queries \subseteq Tables
    BY DEF Whole, Fits, Tables
  <2> QED
    BY <2>1, <2>2, <2>3 DEF Whole, Course, TypeOK
<1> QED
  BY <1>1, AlwaysWhole, PTL

(* ForeignKeysHaveTheirColumns: attach_foreign_keys enters a foreign key   *)
(* with all its columns or not at all, and neither a table that vanishes   *)
(* meanwhile nor the filter leaves one behind whose columns are gone.      *)
THEOREM WholeForeignKeys == Spec => []ForeignKeysHaveTheirColumns
<1>1. Whole => ForeignKeysHaveTheirColumns
  <2> SUFFICES ASSUME Whole, NEW reference \in database.foreignKeys
               PROVE  /\ reference.columns # <<>>
                      /\ Len(reference.columns) = Len(reference.refColumns)
                      /\ \A i \in 1..Len(reference.columns) :
                           HasColumn(reference.table, reference.columns[i])
    BY DEF ForeignKeysHaveTheirColumns
  <2>1. IsKey(database, reference)
    BY DEF Whole, Fits
  <2>2. reference.columns # <<>>
    <3>1. Len(<<>>) = 0
      OBVIOUS
    <3> QED
      BY <2>1, <3>1 DEF IsKey
  <2> QED
    BY <2>1, <2>2 DEF IsKey, Has, HasColumn, Tables
<1> QED
  BY <1>1, AlwaysWhole, PTL

(* EveryTableHasOneSource: add_table refuses a table that is there, so     *)
(* that no export replaces a table or another export; the filter leaves    *)
(* the tables of the source that the rules select, and no others.          *)
THEOREM OneSource == Spec => []EveryTableHasOneSource
<1>1. Whole => EveryTableHasOneSource
  <2> SUFFICES ASSUME Whole, stage = "done" PROVE EveryTableHasOneSource
    BY DEF EveryTableHasOneSource
  <2>1. Cardinality(DOMAIN database.queries) = Len(views)
    BY DEF Whole, Exported
  <2>2. ASSUME NEW table \in DOMAIN database.queries,
               Cardinality(Elements(database.queries[table].answers)) = Len(database.queries[table].answers)
        PROVE  Len(database.columns[table]) = Len(database.queries[table].answers)
    <3>1. PICK i \in 1..Len(views) :
            /\ database.queries[table] = views[i]
            /\ database.columns[table] = Distinct(views[i].answers)
      BY DEF Whole, Exported, FromViews
    <3>2. views[i].answers \in Seq(STRING)
      BY Given DEF Whole
    <3>3. Len(Distinct(views[i].answers)) = Cardinality(Elements(views[i].answers))
      BY <3>2, DistinctNames
    <3> QED
      BY <2>2, <3>1, <3>3
  <2>3. alterations = 0 => {table \in Read : Included(table)} = Tables \ DOMAIN database.queries
    BY DEF Whole, Selected, Wanted
  <2> QED
    BY <2>1, <2>2, <2>3 DEF EveryTableHasOneSource
<1> QED
  BY <1>1, AlwaysWhole, PTL

-----------------------------------------------------------------------------
(* Rows in the order of their numbers are what the source declares.        *)

(* Numbers that grow from 1 to n within 1..n are 1 to n.                   *)
LEMMA GrowingNumbers ==
  ASSUME NEW n \in Nat, NEW f \in [1..n -> 1..n],
         \A i, j \in 1..n : i < j => f[i] < f[j]
  PROVE  \A i \in 1..n : f[i] = i
<1> DEFINE Up == {i \in Nat : i \in 1..n => f[i] >= i}
           Down == {k \in Nat : \A i \in 1..n : i = n - k => f[i] <= i}
<1>0. \A i \in 1..n : f[i] \in 1..n
  OBVIOUS
<1>1. ASSUME NEW i \in Nat, i \in Up PROVE i + 1 \in Up
  <2> SUFFICES ASSUME i + 1 \in 1..n PROVE f[i + 1] >= i + 1
    OBVIOUS
  <2>1. CASE i = 0
    BY <1>0, <2>1
  <2>2. CASE i # 0
    <3>1. i \in 1..n /\ f[i] >= i
      BY <1>1, <2>2
    <3>2. f[i] < f[i + 1]
      BY <3>1
    <3> QED
      BY <1>0, <3>1, <3>2
  <2> QED
    BY <2>1, <2>2
<1>2. 0 \in Up
  OBVIOUS
<1>3. ASSUME NEW k \in Nat, k \in Down PROVE k + 1 \in Down
  <2> SUFFICES ASSUME NEW i \in 1..n, i = n - (k + 1) PROVE f[i] <= i
    OBVIOUS
  <2>1. i + 1 \in 1..n /\ i + 1 = n - k
    OBVIOUS
  <2>2. f[i + 1] <= i + 1
    BY <1>3, <2>1
  <2>3. f[i] < f[i + 1]
    BY <2>1
  <2> QED
    BY <1>0, <2>1, <2>2, <2>3
<1>4. 0 \in Down
  <2>1. \A i \in 1..n : i = n - 0 => f[i] <= i
    BY <1>0
  <2> QED
    BY <2>1
<1> HIDE DEF Up, Down
<1>5. Nat \subseteq Up
  BY <1>1, <1>2, Induction
<1>6. Nat \subseteq Down
  BY <1>3, <1>4, Induction
<1>7. ASSUME NEW i \in 1..n PROVE f[i] = i
  <2>1. f[i] >= i
    BY <1>5 DEF Up
  <2>2. n - i \in Nat /\ i = n - (n - i)
    OBVIOUS
  <2>3. f[i] <= i
    BY <1>6, <2>2 DEF Down
  <2> QED
    BY <1>0, <2>1, <2>3
<1> QED
  BY <1>7

(* The rows are r[1] to r[n], numbered like this; they arrive in turn.     *)
Numbered(rows, r, n) ==
  rows = {r[i] : i \in 1..n} /\ \A i \in 1..n : r[i].position = i

InTurn(order, r, n) == Len(order) = n /\ \A i \in 1..n : order[i] = r[i]

(* Rows that are numbered arrive in the order of their numbers.            *)
LEMMA NumberedRows ==
  ASSUME NEW n \in Nat, NEW r, NEW rows, Numbered(rows, r, n), NEW order \in Arranged(rows)
  PROVE  InTurn(order, r, n)
<1>0. rows = {r[i] : i \in 1..n} /\ \A i \in 1..n : r[i].position = i
  BY DEF Numbered
<1> DEFINE b == [i \in 1..n |-> r[i]]
<1>1. b \in [1..n -> rows]
  BY <1>0
<1>2. \A i, j \in DOMAIN b : b[i] = b[j] => i = j
  <2>1. ASSUME NEW i \in 1..n, NEW j \in 1..n, b[i] = b[j] PROVE i = j
    <3>1. b[i].position = i /\ b[j].position = j
      BY <1>0
    <3> QED
      BY <2>1, <3>1
  <2> QED
    BY <2>1
<1>3. \A x \in rows : \E i \in 1..n : b[i] = x
  BY <1>0
<1> HIDE DEF b
<1>4. b \in Bijection(1..n, rows)
  BY <1>1, <1>2, <1>3 DEF Bijection, Injection, Surjection, IsInjective
<1>5. Cardinality(rows) = n
  <2>1. ExistsBijection(1..n, rows)
    BY <1>4 DEF ExistsBijection
  <2>2. IsFiniteSet(1..n) /\ Cardinality(1..n) = n
    <3>1. IsFiniteSet(1..n) /\ Cardinality(1..n) = IF 1 > n THEN 0 ELSE n - 1 + 1
      BY FS_Interval
    <3> QED
      BY <3>1
  <2> QED
    BY <2>1, <2>2, FS_Bijection
<1>6. /\ order \in [1..n -> rows]
      /\ \A i, j \in 1..n : i # j => order[i] # order[j]
      /\ \A i, j \in 1..Len(order) : i < j => order[i].position <= order[j].position
  BY <1>5 DEF Arranged, SetToSeqs
<1>7. Len(order) = n
  BY <1>6
<1> DEFINE f == [i \in 1..n |-> order[i].position]
<1>8. ASSUME NEW i \in 1..n PROVE f[i] \in 1..n /\ r[f[i]] = order[i]
  <2>1. PICK k \in 1..n : order[i] = r[k]
    BY <1>0, <1>6
  <2> QED
    BY <1>0, <2>1
<1>9. f \in [1..n -> 1..n]
  BY <1>8
<1>10. \A i, j \in 1..n : i < j => f[i] <= f[j]
  BY <1>6, <1>7
<1> HIDE DEF f
<1>11. ASSUME NEW i \in 1..n, NEW j \in 1..n, i < j PROVE f[i] < f[j]
  <2>1. order[i] # order[j]
    BY <1>6, <1>11
  <2>2. f[i] # f[j]
    BY <1>8, <2>1
  <2> QED
    BY <1>8, <1>10, <1>11, <2>2
<1>12. \A i \in 1..n : f[i] = i
  BY <1>9, <1>11, GrowingNumbers
<1> QED
  BY <1>7, <1>8, <1>12 DEF InTurn

(* The rows that say of a foreign key what it is.                          *)
RowsOf(reference) ==
  ReferenceRows(reference, reference.key.table, reference.refs, reference)

(* Where the catalogue tells enough, these are the rows that a reader gets.*)
LEMMA ReferencesAsDeclared ==
  ASSUME dialect \in Dialects, KeepsReferences(catalogue), Tellable
  PROVE  /\ \A row \in ForeignKeyRows(catalogue) : \E reference \in catalogue.references : row \in RowsOf(reference)
         /\ \A reference \in catalogue.references : RowsOf(reference) \subseteq ForeignKeyRows(catalogue)
<1> DEFINE refs == catalogue.references
<1>1. CASE dialect \in {"postgres", "mssql"}
  <2>1. ForeignKeyRows(catalogue) =
          UNION {ReferenceRows(pair[1], pair[2].key.table, pair[2].key.columns, pair[2]) :
                   pair \in Referencing(catalogue)}
    BY <1>1, ForeignKeyQueries
  <2>2. \A reference \in refs : reference.refs = reference.key.columns
    BY <1>1 DEF Tellable
  <2>3. \A pair \in Referencing(catalogue) : pair[1] \in refs /\ pair[1] = pair[2]
    BY <1>1 DEF Referencing, Joined, Tellable, NamesAreDistinct
  <2>4. \A reference \in refs : <<reference, reference>> \in Referencing(catalogue)
    BY <1>1 DEF Referencing, Joined, SameName, Tellable
  <2>5. ASSUME NEW reference \in refs
        PROVE  RowsOf(reference) = ReferenceRows(reference, reference.key.table, reference.key.columns, reference)
    BY <2>2 DEF RowsOf
  <2>6. ASSUME NEW row \in ForeignKeyRows(catalogue)
        PROVE  \E reference \in refs : row \in RowsOf(reference)
    <3>1. PICK pair \in Referencing(catalogue) :
            row \in ReferenceRows(pair[1], pair[2].key.table, pair[2].key.columns, pair[2])
      BY <2>1
    <3>2. pair[1] \in refs /\ pair[2] = pair[1]
      BY <2>3
    <3> QED
      BY <2>5, <3>1, <3>2
  <2>7. ASSUME NEW reference \in refs PROVE RowsOf(reference) \subseteq ForeignKeyRows(catalogue)
    <3> DEFINE pair == <<reference, reference>>
    <3>1. pair \in Referencing(catalogue) /\ pair[1] = reference /\ pair[2] = reference
      BY <2>4
    <3> HIDE DEF pair
    <3>2. RowsOf(reference) = ReferenceRows(pair[1], pair[2].key.table, pair[2].key.columns, pair[2])
      BY <2>5, <3>1
    <3> QED
      BY <2>1, <3>1, <3>2
  <2> QED
    BY <2>6, <2>7
<1>2. CASE dialect = "mysql"
  <2>1. ForeignKeyRows(catalogue) =
          UNION {ReferenceRows(used, [used.key.table EXCEPT !.schema = Home], used.refs, used) : used \in refs}
    BY <1>2, ForeignKeyQueries
  <2>2. ASSUME NEW reference \in refs
        PROVE  RowsOf(reference) =
                 ReferenceRows(reference, [reference.key.table EXCEPT !.schema = Home], reference.refs, reference)
    <3>1. reference.key.table \in [schema : STRING, name : STRING]
      BY DEF KeepsReferences
    <3>2. reference.key.table.schema = Home
      BY <1>2 DEF Tellable
    <3>3. [reference.key.table EXCEPT !.schema = Home] = reference.key.table
      BY <3>1, <3>2
    <3> QED
      BY <3>3 DEF RowsOf
  <2> QED
    BY <2>1, <2>2
<1>3. CASE dialect = "oracle"
  <2>1. ForeignKeyRows(catalogue) =
          UNION {ReferenceRows(used, used.key.table, used.key.columns, used) : used \in refs}
    BY <1>3, ForeignKeyQueries
  <2>2. ASSUME NEW reference \in refs
        PROVE  RowsOf(reference) = ReferenceRows(reference, reference.key.table, reference.key.columns, reference)
    <3>1. reference.refs = reference.key.columns
      BY <1>3 DEF Tellable
    <3> QED
      BY <3>1 DEF RowsOf
  <2> QED
    BY <2>1, <2>2
<1>4. CASE dialect = "sqlite"
  <2>1. ForeignKeyRows(catalogue) =
          UNION {ReferenceRows(used, used.key.table, used.refs, used) : used \in refs}
    BY <1>4, ForeignKeyQueries
  <2> QED
    BY <2>1 DEF RowsOf
<1> QED
  BY <1>1, <1>2, <1>3, <1>4 DEF Dialects

(* The rows of one table and name that are all there make a group.         *)
LEMMA OwnGroup ==
  ASSUME NEW S, NEW own, NEW table, NEW key, own # {}, own \subseteq S,
         \A row \in S : (row.table = table /\ row.key = key) <=> row \in own
  PROVE  /\ own \in Groups(S)
         /\ \A rows \in Groups(S) : rows \cap own # {} => rows = own
<1>1. own = {row \in S : row.table = table /\ row.key = key}
  OBVIOUS
<1>2. own \in Groups(S)
  <2>1. PICK r \in own : TRUE
    OBVIOUS
  <2>2. r \in S /\ r.table = table /\ r.key = key
    BY <2>1
  <2>3. own = {row \in S : row.table = r.table /\ row.key = r.key}
    BY <1>1, <2>2
  <2> QED
    BY <2>2, <2>3 DEF Groups
<1>3. ASSUME NEW rows \in Groups(S), rows \cap own # {} PROVE rows = own
  <2>1. PICK r \in S : rows = {row \in S : row.table = r.table /\ row.key = r.key}
    BY DEF Groups
  <2>2. PICK x : x \in rows /\ x \in own
    BY <1>3
  <2>3. x.table = r.table /\ x.key = r.key /\ x.table = table /\ x.key = key
    BY <2>1, <2>2
  <2> QED
    BY <1>1, <2>1, <2>3
<1> QED
  BY <1>2, <1>3

(* A foreign key of the source as the Database says it.                    *)
Declared(reference) ==
  [table |-> reference.table, name |-> reference.name, columns |-> reference.columns,
   refTable |-> reference.key.table, refColumns |-> reference.refs]

(* The columns of a foreign key are in as many rows, numbered.             *)
LEMMA RowsOfReference ==
  ASSUME NEW c, IsCatalogue(c), KeepsReferences(c), NEW reference \in c.references
  PROVE  /\ Len(reference.columns) \in Nat \ {0} /\ Len(reference.refs) = Len(reference.columns)
         /\ reference.columns \in Seq(STRING) /\ reference.refs \in Seq(STRING)
         /\ RowsOf(reference) =
              {ReferenceRow(reference, i, reference.key.table, reference.refs[i], reference) :
                 i \in 1..Len(reference.columns)}
         /\ RowsOf(reference) # {}
         /\ \A row \in RowsOf(reference) :
              /\ row.table = reference.table /\ row.key = reference.name
              /\ row.column \in Elements(reference.columns)
<1> DEFINE n == Len(reference.columns)
           r(i) == ReferenceRow(reference, i, reference.key.table, reference.refs[i], reference)
<1>1. reference.columns \in Seq(STRING) /\ reference.columns # <<>>
  BY DEF IsCatalogue, KeepsReferences
<1>2. reference.refs \in Seq(STRING) /\ Len(reference.refs) = n
  BY DEF KeepsReferences
<1>3. n \in Nat \ {0}
  BY <1>1
<1>4. {i \in 1..n : i <= Len(reference.refs)} = 1..n
  BY <1>2, <1>3
<1>5. RowsOf(reference) = {r(i) : i \in 1..n}
  BY <1>4 DEF RowsOf, ReferenceRows
<1>6. \A i \in 1..n : r(i).table = reference.table /\ r(i).key = reference.name /\ r(i).column = reference.columns[i]
  BY DEF ReferenceRow
<1>7. 1 \in 1..n
  BY <1>3
<1> HIDE DEF r
<1>8. RowsOf(reference) # {}
  BY <1>5, <1>7
<1>9. ASSUME NEW row \in RowsOf(reference)
      PROVE  /\ row.table = reference.table /\ row.key = reference.name
             /\ row.column \in Elements(reference.columns)
  <2>1. PICK i \in 1..n : row = r(i)
    BY <1>5
  <2> QED
    BY <1>6, <2>1 DEF Elements
<1> QED
  BY <1>1, <1>2, <1>3, <1>5, <1>8, <1>9 DEF r

(* Sorted, they make the foreign key that was declared.                    *)
LEMMA SortedReference ==
  ASSUME NEW c, IsCatalogue(c), KeepsReferences(c), NEW reference \in c.references,
         NEW order \in Arranged(RowsOf(reference))
  PROVE  ForeignKey(order) = Declared(reference)
<1> DEFINE n == Len(reference.columns)
           r == [i \in 1..n |-> ReferenceRow(reference, i, reference.key.table, reference.refs[i], reference)]
<1>1. /\ n \in Nat \ {0} /\ Len(reference.refs) = n
      /\ reference.columns \in Seq(STRING) /\ reference.refs \in Seq(STRING)
      /\ RowsOf(reference) =
           {ReferenceRow(reference, i, reference.key.table, reference.refs[i], reference) : i \in 1..n}
  BY RowsOfReference
<1>2. RowsOf(reference) = {r[i] : i \in 1..n}
  BY <1>1
<1>3. \A i \in 1..n : /\ r[i].table = reference.table /\ r[i].key = reference.name /\ r[i].position = i
                      /\ r[i].column = reference.columns[i] /\ r[i].refTable = reference.key.table
                      /\ r[i].refColumn = reference.refs[i]
  BY DEF ReferenceRow
<1> HIDE DEF r
<1>4. Len(order) = n /\ \A i \in 1..n : order[i] = r[i]
  <2> DEFINE m == n
  <2>1. m \in Nat /\ Numbered(RowsOf(reference), r, m)
    BY <1>1, <1>2, <1>3 DEF Numbered
  <2> HIDE DEF m
  <2>2. InTurn(order, r, m)
    BY <2>1, NumberedRows
  <2> QED
    BY <2>2 DEF m, InTurn
<1>5. 1 \in 1..n
  BY <1>1
<1>6. /\ order[1].table = reference.table /\ order[1].key = reference.name
      /\ order[1].refTable = reference.key.table
  BY <1>3, <1>4, <1>5
<1>7. [i \in 1..Len(order) |-> order[i].column] = [i \in 1..n |-> reference.columns[i]]
  BY <1>3, <1>4
<1>8. [i \in 1..Len(order) |-> order[i].refColumn] = [i \in 1..n |-> reference.refs[i]]
  BY <1>3, <1>4
<1>9. /\ reference.columns = [i \in 1..n |-> reference.columns[i]]
      /\ reference.refs = [i \in 1..n |-> reference.refs[i]]
  BY <1>1
<1> QED
  BY <1>6, <1>7, <1>8, <1>9 DEF ForeignKey, Declared

(* The rows of the foreign keys of some tables fall into one group each.   *)
LEMMA ReferenceGroups ==
  ASSUME NEW c, IsCatalogue(c), KeepsReferences(c), NEW S, NEW T,
         \A row \in S : row.table \in T /\ \E reference \in c.references : row \in RowsOf(reference),
         \A reference \in c.references : reference.table \in T => RowsOf(reference) \subseteq S
  PROVE  /\ \A rows \in Groups(S) : \E reference \in c.references : rows = RowsOf(reference)
         /\ \A reference \in c.references : reference.table \in T => RowsOf(reference) \in Groups(S)
<1>1. ASSUME NEW reference \in c.references, reference.table \in T
      PROVE  /\ RowsOf(reference) \in Groups(S)
             /\ \A rows \in Groups(S) : rows \cap RowsOf(reference) # {} => rows = RowsOf(reference)
  <2>1. RowsOf(reference) # {} /\ RowsOf(reference) \subseteq S
    BY <1>1, RowsOfReference
  <2>2. ASSUME NEW row \in S
        PROVE  (row.table = reference.table /\ row.key = reference.name) <=> row \in RowsOf(reference)
    <3>1. PICK other \in c.references : row \in RowsOf(other)
      OBVIOUS
    <3>2. row.table = other.table /\ row.key = other.name
      BY <3>1, RowsOfReference
    <3>3. other.table = reference.table /\ other.name = reference.name => other = reference
      BY DEF KeepsReferences
    <3>4. row \in RowsOf(reference) => row.table = reference.table /\ row.key = reference.name
      BY RowsOfReference
    <3> QED
      BY <3>1, <3>2, <3>3, <3>4
  <2> DEFINE own == RowsOf(reference)
             table == reference.table
             key == reference.name
  <2>3. own # {} /\ own \subseteq S
    BY <2>1
  <2>4. \A row \in S : (row.table = table /\ row.key = key) <=> row \in own
    BY <2>2
  <2> HIDE DEF own, table, key
  <2>5. /\ own \in Groups(S)
        /\ \A rows \in Groups(S) : rows \cap own # {} => rows = own
    BY <2>3, <2>4, OwnGroup
  <2> QED
    BY <2>5 DEF own
<1>2. ASSUME NEW rows \in Groups(S)
      PROVE  \E reference \in c.references : rows = RowsOf(reference)
  <2>1. PICK r \in S : r \in rows
    BY DEF Groups
  <2>2. PICK reference \in c.references : r \in RowsOf(reference)
    BY <2>1
  <2>3. reference.table \in T
    BY <2>1, <2>2, RowsOfReference
  <2> QED
    BY <1>1, <2>1, <2>2, <2>3
<1> QED
  BY <1>1, <1>2

(* The columns of an index are in as many rows.                            *)
LEMMA RowsOfAnIndex ==
  ASSUME NEW c, IsCatalogue(c), KeepsReferences(c), NEW index \in c.indexes
  PROVE  /\ Len(index.columns) \in Nat \ {0} /\ index.columns \in Seq(STRING)
         /\ RowsOfIndex(index) =
              {IndexRow(index, i, IF dialect = "postgres" THEN 0 ELSE i) : i \in 1..Len(index.columns)}
         /\ RowsOfIndex(index) # {}
         /\ \A row \in RowsOfIndex(index) : row.table = index.table /\ row.key = index.name
<1> DEFINE n == Len(index.columns)
           r(i) == IndexRow(index, i, IF dialect = "postgres" THEN 0 ELSE i)
<1>1. index.columns \in Seq(STRING) /\ index.columns # <<>>
  BY DEF IsCatalogue, KeepsReferences
<1>2. n \in Nat \ {0}
  BY <1>1
<1>3. RowsOfIndex(index) = {r(i) : i \in 1..n}
  <2>1. CASE dialect = "postgres"
    BY <2>1 DEF RowsOfIndex, UnorderedRows
  <2>2. CASE dialect # "postgres"
    BY <2>2 DEF RowsOfIndex, OrderedRows
  <2> QED
    BY <2>1, <2>2
<1>4. \A i \in 1..n : r(i).table = index.table /\ r(i).key = index.name
  BY DEF IndexRow
<1>5. 1 \in 1..n
  BY <1>2
<1> HIDE DEF r
<1>6. RowsOfIndex(index) # {} /\ \A row \in RowsOfIndex(index) : row.table = index.table /\ row.key = index.name
  BY <1>3, <1>4, <1>5
<1> QED
  BY <1>1, <1>2, <1>3, <1>6 DEF r

(* A row on its own arrives on its own.                                    *)
LEMMA SingleRow ==
  ASSUME NEW row, NEW order \in Arranged({row})
  PROVE  Len(order) = 1 /\ order[1] = row
<1>1. Cardinality({row}) = 1
  BY FS_Singleton
<1>2. order \in [1..1 -> {row}]
  BY <1>1 DEF Arranged, SetToSeqs
<1> QED
  BY <1>2

(* An index of the source as the Database says it.                         *)
Entered(index) == [table |-> index.table, name |-> index.name, columns |-> index.columns]

(* Sorted, or single, the rows make the index that was declared.           *)
LEMMA SortedIndex ==
  ASSUME NEW c, IsCatalogue(c), KeepsReferences(c), NEW index \in c.indexes,
         dialect = "postgres" => Len(index.columns) = 1,
         NEW order \in Arranged(RowsOfIndex(index))
  PROVE  Index(order) = Entered(index)
<1> DEFINE n == Len(index.columns)
           r == [i \in 1..n |-> IndexRow(index, i, IF dialect = "postgres" THEN 0 ELSE i)]
<1>1. /\ n \in Nat \ {0} /\ index.columns \in Seq(STRING)
      /\ RowsOfIndex(index) = {IndexRow(index, i, IF dialect = "postgres" THEN 0 ELSE i) : i \in 1..n}
  BY RowsOfAnIndex
<1>2. RowsOfIndex(index) = {r[i] : i \in 1..n}
  BY <1>1
<1>3. \A i \in 1..n : /\ r[i].table = index.table /\ r[i].key = index.name
                      /\ r[i].column = index.columns[i]
                      /\ dialect # "postgres" => r[i].position = i
  BY DEF IndexRow
<1> HIDE DEF r
<1>4. Len(order) = n /\ \A i \in 1..n : order[i] = r[i]
  <2> DEFINE m == n
  <2>0. m \in Nat \ {0} /\ RowsOfIndex(index) = {r[i] : i \in 1..m}
    BY <1>1, <1>2
  <2>1. CASE dialect = "postgres"
    <3>1. m = 1
      BY <2>1
    <3>2. RowsOfIndex(index) = {r[1]}
      <4>1. 1..1 = {1}
        OBVIOUS
      <4> HIDE DEF m
      <4> QED
        BY <2>0, <3>1, <4>1
    <3>3. Len(order) = 1 /\ order[1] = r[1]
      BY <3>2, SingleRow
    <3> QED
      BY <3>1, <3>3
  <2>2. CASE dialect # "postgres"
    <3> DEFINE rows == RowsOfIndex(index)
    <3>1. m \in Nat /\ Numbered(rows, r, m) /\ order \in Arranged(rows)
      BY <1>3, <2>0, <2>2 DEF Numbered
    <3> HIDE DEF m, rows
    <3>2. InTurn(order, r, m)
      BY <3>1, NumberedRows
    <3> QED
      BY <3>2 DEF m, InTurn
  <2> QED
    BY <2>1, <2>2
<1>5. 1 \in 1..n
  BY <1>1
<1>6. order[1].table = index.table /\ order[1].key = index.name
  BY <1>3, <1>4, <1>5
<1>7. [i \in 1..Len(order) |-> order[i].column] = [i \in 1..n |-> index.columns[i]]
  BY <1>3, <1>4
<1>8. index.columns = [i \in 1..n |-> index.columns[i]]
  BY <1>1
<1> QED
  BY <1>6, <1>7, <1>8 DEF Index, Entered

(* The rows of an index are a group.                                       *)
LEMMA IndexGroups ==
  ASSUME NEW c, IsCatalogue(c), KeepsReferences(c), NEW S,
         \A row \in S : \E index \in c.indexes : row \in RowsOfIndex(index),
         NEW index \in c.indexes, RowsOfIndex(index) \subseteq S
  PROVE  RowsOfIndex(index) \in Groups(S)
<1> DEFINE own == RowsOfIndex(index)
           table == index.table
           key == index.name
<1>1. own # {} /\ own \subseteq S
  BY RowsOfAnIndex
<1>2. ASSUME NEW row \in S
      PROVE  (row.table = table /\ row.key = key) <=> row \in own
  <2>1. PICK other \in c.indexes : row \in RowsOfIndex(other)
    OBVIOUS
  <2>2. row.table = other.table /\ row.key = other.name
    BY <2>1, RowsOfAnIndex
  <2>3. other.table = index.table /\ other.name = index.name => other = index
    BY DEF KeepsReferences
  <2>4. row \in own => row.table = table /\ row.key = key
    BY RowsOfAnIndex
  <2> QED
    BY <2>1, <2>2, <2>3, <2>4
<1> HIDE DEF own, table, key
<1>3. own \in Groups(S)
  BY <1>1, <1>2, OwnGroup
<1> QED
  BY <1>3 DEF own

(* The rows that the queries for keys answer.                              *)
LEMMA KeyQueries ==
  ASSUME NEW c, dialect \in Dialects
  PROVE  /\ dialect \in {"postgres", "mysql"} =>
              KeyRows(c) = UNION {KeyUsage(pair[1], pair[2]) : pair \in Joined(c.keys \cup c.references, c.keys)}
         /\ dialect \in {"mssql", "oracle"} =>
              KeyRows(c) = UNION {KeyUsage(pair[1], pair[2]) : pair \in Joined(c.keys, c.keys)}
         /\ dialect = "sqlite" =>
              KeyRows(c) = UNION {KeyUsage(key, key) : key \in {key \in c.keys : key.kind = "PRIMARY KEY"}}
<1>1. CASE dialect = "postgres"
  <2>1. KeyRows(c) = Postgres!KeyRows(c)
    BY <1>1 DEF KeyRows
  <2>2. Postgres!KeyRows(c) =
          UNION {KeyUsage(pair[1], pair[2]) : pair \in Joined(c.keys \cup c.references, c.keys)}
    BY DEF Postgres!KeyRows, Postgres!Joined, Postgres!SameName, Postgres!KeyUsage, Postgres!Elements,
       Joined, SameName, KeyUsage, Elements
  <2> QED
    BY <1>1, <2>1, <2>2
<1>2. CASE dialect = "mysql"
  <2>1. KeyRows(c) = MySQL!KeyRows(c)
    BY <1>2 DEF KeyRows
  <2>2. MySQL!KeyRows(c) =
          UNION {KeyUsage(pair[1], pair[2]) : pair \in Joined(c.keys \cup c.references, c.keys)}
    BY DEF MySQL!KeyRows, MySQL!Joined, MySQL!SameName, MySQL!KeyUsage, MySQL!Elements,
       Joined, SameName, KeyUsage, Elements
  <2> QED
    BY <1>2, <2>1, <2>2
<1>3. CASE dialect = "mssql"
  <2>1. KeyRows(c) = MSSQL!KeyRows(c)
    BY <1>3 DEF KeyRows
  <2>2. MSSQL!KeyRows(c) = UNION {KeyUsage(pair[1], pair[2]) : pair \in Joined(c.keys, c.keys)}
    BY DEF MSSQL!KeyRows, MSSQL!Joined, MSSQL!SameName, MSSQL!KeyUsage, MSSQL!Elements,
       Joined, SameName, KeyUsage, Elements
  <2> QED
    BY <1>3, <2>1, <2>2
<1>4. CASE dialect = "oracle"
  <2>1. KeyRows(c) = Oracle!KeyRows(c)
    BY <1>4 DEF KeyRows
  <2>2. Oracle!KeyRows(c) = UNION {KeyUsage(pair[1], pair[2]) : pair \in Joined(c.keys, c.keys)}
    BY DEF Oracle!KeyRows, Oracle!Joined, Oracle!SameName, Oracle!KeyUsage, Oracle!Elements,
       Joined, SameName, KeyUsage, Elements
  <2> QED
    BY <1>4, <2>1, <2>2
<1>5. CASE dialect = "sqlite"
  <2>1. KeyRows(c) = SQLite!KeyRows(c)
    BY <1>5 DEF KeyRows
  <2>2. SQLite!KeyRows(c) = UNION {KeyUsage(key, key) : key \in {key \in c.keys : key.kind = "PRIMARY KEY"}}
    BY DEF SQLite!KeyRows, SQLite!KeyUsage, SQLite!Elements, KeyUsage, Elements
  <2> QED
    BY <1>5, <2>1, <2>2
<1> QED
  BY <1>1, <1>2, <1>3, <1>4, <1>5 DEF Dialects

(* A row that gives a column of a key its kind.                            *)
SaysOf(row, key) ==
  row.table = key.table /\ row.column \in Elements(key.columns) /\ row.kind = key.kind

(* Where names are distinct, each row gives a column the kind of its key,  *)
(* and every column of a primary key has one.                              *)
LEMMA KeysAsDeclared ==
  ASSUME dialect \in Dialects, Tellable
  PROVE  /\ \A row \in KeyRows(catalogue) : \E key \in catalogue.keys : SaysOf(row, key)
         /\ dialect = "sqlite" => \A row \in KeyRows(catalogue) : row.kind = "PRIMARY KEY"
         /\ \A key \in catalogue.keys : key.kind = "PRIMARY KEY" =>
              \A column \in Elements(key.columns) :
                \E row \in KeyRows(catalogue) : row.table = key.table /\ row.column = column
<1> DEFINE keys == catalogue.keys
           refs == catalogue.references
<1>1. \A used, key : \A row \in KeyUsage(used, key) :
        row.table = used.table /\ row.column \in Elements(used.columns) /\ row.kind = key.kind
  BY DEF KeyUsage
<1>2. \A used, key : \A column \in Elements(used.columns) :
        \E row \in KeyUsage(used, key) : row.table = used.table /\ row.column = column
  <2>1. ASSUME NEW used, NEW key, NEW column \in Elements(used.columns)
        PROVE  \E row \in KeyUsage(used, key) : row.table = used.table /\ row.column = column
    <3> DEFINE row == [table |-> used.table, column |-> column, kind |-> key.kind]
    <3>1. row \in KeyUsage(used, key)
      BY DEF KeyUsage
    <3>2. row.table = used.table /\ row.column = column
      OBVIOUS
    <3> HIDE DEF row
    <3> QED
      BY <3>1, <3>2
  <2> QED
    BY <2>1
<1>3. \A key \in keys : <<key, key>> \in Joined(keys, keys) /\ <<key, key>> \in Joined(keys \cup refs, keys)
  BY DEF Joined, SameName
<1>4. CASE dialect # "sqlite"
  <2>1. ASSUME NEW used \in keys \cup refs, NEW key \in keys, SameName(used, key), NEW row \in KeyUsage(used, key)
        PROVE  \E of \in keys : SaysOf(row, of)
    <3>1. NamesAreDistinct
      BY <1>4 DEF Tellable
    <3>2. used = key \/ (used \in keys /\ used.kind = key.kind)
      <4>1. CASE used \in refs
        BY <2>1, <3>1, <4>1 DEF NamesAreDistinct
      <4>2. CASE used \in keys
        <5>1. used = key \/ {used.kind, key.kind} = {"PRIMARY KEY"}
          BY <2>1, <3>1, <4>2 DEF NamesAreDistinct
        <5>2. {used.kind, key.kind} = {"PRIMARY KEY"} => used.kind = "PRIMARY KEY" /\ key.kind = "PRIMARY KEY"
          BY Zenon
        <5> QED
          BY <4>2, <5>1, <5>2
      <4> QED
        BY <4>1, <4>2
    <3>3. used \in keys /\ used.kind = key.kind
      BY <3>2
    <3> QED
      BY <1>1, <3>3 DEF SaysOf
  <2>2. ASSUME NEW row \in KeyRows(catalogue)
        PROVE  \E used \in keys \cup refs, key \in keys : SameName(used, key) /\ row \in KeyUsage(used, key)
    <3>1. PICK pair \in Joined(keys \cup refs, keys) : row \in KeyUsage(pair[1], pair[2])
      <4>1. CASE dialect \in {"postgres", "mysql"}
        <5>1. KeyRows(catalogue) =
                UNION {KeyUsage(pair[1], pair[2]) : pair \in Joined(keys \cup refs, keys)}
          BY <4>1, KeyQueries
        <5> QED
          BY <5>1
      <4>2. CASE dialect \in {"mssql", "oracle"}
        <5>1. KeyRows(catalogue) = UNION {KeyUsage(pair[1], pair[2]) : pair \in Joined(keys, keys)}
          BY <4>2, KeyQueries
        <5>2. PICK pair \in Joined(keys, keys) : row \in KeyUsage(pair[1], pair[2])
          BY <5>1
        <5>3. pair \in Joined(keys \cup refs, keys)
          BY DEF Joined
        <5> QED
          BY <5>2, <5>3
      <4> QED
        BY <1>4, <4>1, <4>2 DEF Dialects
    <3>2. pair[1] \in keys \cup refs /\ pair[2] \in keys /\ SameName(pair[1], pair[2])
      BY DEF Joined
    <3> QED
      BY <3>1, <3>2
  <2>3. ASSUME NEW key \in keys PROVE KeyUsage(key, key) \subseteq KeyRows(catalogue)
    <3> DEFINE pair == <<key, key>>
    <3>1. /\ pair \in Joined(keys, keys) /\ pair \in Joined(keys \cup refs, keys)
          /\ pair[1] = key /\ pair[2] = key
      BY <1>3
    <3> HIDE DEF pair
    <3>2. KeyUsage(key, key) = KeyUsage(pair[1], pair[2])
      BY <3>1
    <3>3. CASE dialect \in {"postgres", "mysql"}
      <4>1. KeyRows(catalogue) =
              UNION {KeyUsage(two[1], two[2]) : two \in Joined(keys \cup refs, keys)}
        BY <3>3, KeyQueries
      <4> QED
        BY <3>1, <3>2, <4>1
    <3>4. CASE dialect \in {"mssql", "oracle"}
      <4>1. KeyRows(catalogue) = UNION {KeyUsage(two[1], two[2]) : two \in Joined(keys, keys)}
        BY <3>4, KeyQueries
      <4> QED
        BY <3>1, <3>2, <4>1
    <3> QED
      BY <1>4, <3>3, <3>4 DEF Dialects
  <2>4. \A row \in KeyRows(catalogue) : \E key \in keys : SaysOf(row, key)
    BY <2>1, <2>2
  <2>5. ASSUME NEW key \in keys, NEW column \in Elements(key.columns)
        PROVE  \E row \in KeyRows(catalogue) : row.table = key.table /\ row.column = column
    <3>1. \E row \in KeyUsage(key, key) : row.table = key.table /\ row.column = column
      BY <1>2
    <3> QED
      BY <2>3, <3>1
  <2> QED
    BY <1>4, <2>4, <2>5
<1>5. CASE dialect = "sqlite"
  <2> DEFINE primary == {key \in keys : key.kind = "PRIMARY KEY"}
  <2>1. KeyRows(catalogue) = UNION {KeyUsage(key, key) : key \in primary}
    BY <1>5, KeyQueries
  <2>2. ASSUME NEW row \in KeyRows(catalogue)
        PROVE  row.kind = "PRIMARY KEY" /\ \E key \in keys : SaysOf(row, key)
    <3>1. PICK key \in primary : row \in KeyUsage(key, key)
      BY <2>1
    <3> QED
      BY <1>1, <3>1 DEF SaysOf
  <2>3. ASSUME NEW key \in keys, key.kind = "PRIMARY KEY", NEW column \in Elements(key.columns)
        PROVE  \E row \in KeyRows(catalogue) : row.table = key.table /\ row.column = column
    <3>1. KeyUsage(key, key) \subseteq KeyRows(catalogue)
      BY <2>1, <2>3
    <3> QED
      BY <1>2, <3>1
  <2> QED
    BY <2>2, <2>3
<1> QED
  BY <1>4, <1>5

-----------------------------------------------------------------------------
(* What the Database says is so, and what a query was to tell it says.  d  *)
(* is a Database read from catalogue c of a source of dialect of; sure is  *)
(* complete.                                                               *)
Sound(d, c, of) ==
  /\ \A place \in DOMAIN d.constraint : \E key \in c.keys :
       place \in {key.table} \X Elements(key.columns) /\ d.constraint[place] = key.kind
  /\ \A reference \in d.foreignKeys : \E declared \in c.references : reference = Declared(declared)
  /\ of # "sqlite" => d.identity \subseteq c.identity

HasKeys(d, c, table) ==
  \A key \in c.keys : key.table = table /\ key.kind = "PRIMARY KEY" =>
    {key.table} \X Elements(key.columns) \subseteq DOMAIN d.constraint

HasIdentity(d, c, table) ==
  \A place \in c.identity : place[1] = table => place \in d.identity

Told(d, c, of, sure, query, table) ==
  /\ query = "columns" =>
       /\ table \in DOMAIN d.columns /\ d.columns[table] = c.columns[table]
       /\ of = "sqlite" => HasKeys(d, c, table)
       /\ of \in {"postgres", "mysql"} => HasIdentity(d, c, table)
  /\ query = "constraints" => HasKeys(d, c, table)
  /\ query = "foreign keys" =>
       \A reference \in c.references : reference.table = table => Declared(reference) \in d.foreignKeys
  /\ query = "indexes" =>
       \A index \in c.indexes : index.table = table /\ ~index.unique => Entered(index) \in d.indexes
  /\ query = "identity" /\ sure => HasIdentity(d, c, table)

(* The queries that tell something of a table.                             *)
Telling(of) ==
  {"columns", "foreign keys", "indexes"} \cup (IF of = "sqlite" THEN {} ELSE {"constraints"})
    \cup (IF of \in {"mssql", "oracle"} THEN {"identity"} ELSE {})

(* A query is still to be asked about a table; SQLite has to list the      *)
(* tables before.                                                          *)
Pending(queries, of, query, table) ==
  \E i \in 1..Len(queries) :
    \/ queries[i].query = query /\ About(queries[i], table)
    \/ of = "sqlite" /\ queries[i].query = "tables"

(* Nothing that was told is lost.                                          *)
Grows(d, e, c) ==
  /\ DOMAIN d.columns \subseteq DOMAIN e.columns
  /\ \A table \in DOMAIN d.columns : e.columns[table] \in {d.columns[table], c.columns[table]}
  /\ DOMAIN d.constraint \subseteq DOMAIN e.constraint
  /\ d.foreignKeys \subseteq e.foreignKeys /\ d.indexes \subseteq e.indexes
  /\ d.identity \subseteq e.identity

(* Two dialects are asked for the identity columns, Oracle last of all.    *)
IdentityLast(queries, of) ==
  \A i \in 1..Len(queries) : queries[i].query = "identity" =>
    of \in {"mssql", "oracle"} /\ (of = "oracle" => i = Len(queries))

(* While nothing changes and the catalogue tells enough, what the Database *)
(* says is so, and what it does not say of a table is still to be asked.   *)
Truthful ==
  (alterations = 0 /\ Tellable /\ stage \in {"reading", "filtering"}) =>
    /\ Sound(database, catalogue, dialect)
    /\ stage = "reading" => IdentityLast(todo, dialect)
    /\ \A query \in Telling(dialect), table \in Read :
         \/ stage = "reading" /\ Pending(todo, dialect, query, table)
         \/ Told(database, catalogue, dialect, complete, query, table)

(* What was told stays told.                                               *)
LEMMA ToldStays ==
  ASSUME NEW d, NEW e, NEW c, NEW of, NEW sure, NEW query, NEW table,
         Grows(d, e, c), Told(d, c, of, sure, query, table)
  PROVE  Told(e, c, of, sure, query, table)
<1>1. HasKeys(d, c, table) => HasKeys(e, c, table)
  BY DEF HasKeys, Grows
<1>2. HasIdentity(d, c, table) => HasIdentity(e, c, table)
  BY DEF HasIdentity, Grows
<1>3. table \in DOMAIN d.columns /\ d.columns[table] = c.columns[table] =>
        table \in DOMAIN e.columns /\ e.columns[table] = c.columns[table]
  BY DEF Grows
<1>4. d.foreignKeys \subseteq e.foreignKeys /\ d.indexes \subseteq e.indexes
  BY DEF Grows
<1> QED
  BY <1>1, <1>2, <1>3, <1>4 DEF Told

(* What can be told of the source changes with it only.                    *)
LEMMA TellableStays ==
  ASSUME UNCHANGED <<request, source>>
  PROVE  /\ Tellable' = Tellable /\ Read' = Read
         /\ dialect' = dialect /\ catalogue' = catalogue /\ alterations' = alterations
<1>1. dialect' = dialect /\ catalogue' = catalogue /\ alterations' = alterations
  BY DEF request, source
<1>2. Tellable' = Tellable
  BY <1>1 DEF Tellable, ColumnsHaveOneKey, NamesAreDistinct
<1>3. Read' = Read
  BY ScopeStays
<1> QED
  BY <1>1, <1>2, <1>3

(* A query about a table is answered next, or still to be asked.           *)
LEMMA PendingTail ==
  ASSUME NEW queries, InOrder(queries), queries # <<>>, Head(queries).query # "tables",
         NEW of, NEW query, NEW table, Pending(queries, of, query, table)
  PROVE  \/ Head(queries).query = query /\ About(Head(queries), table)
         \/ Len(queries) # 1 /\ Pending(Tail(queries), of, query, table)
<1>1. /\ Len(queries) = 1 => Len(Tail(queries)) = 0
      /\ \A i \in 1..Len(queries) :
           queries[i] = Head(queries) \/ \E j \in 1..Len(Tail(queries)) : queries[i] = Tail(queries)[j]
  BY Asking
<1>2. PICK i \in 1..Len(queries) :
        \/ queries[i].query = query /\ About(queries[i], table)
        \/ of = "sqlite" /\ queries[i].query = "tables"
  BY DEF Pending
<1>3. CASE queries[i] = Head(queries)
  BY <1>2, <1>3
<1>4. CASE queries[i] # Head(queries)
  <2>1. PICK j \in 1..Len(Tail(queries)) : queries[i] = Tail(queries)[j]
    BY <1>1, <1>4
  <2>2. Pending(Tail(queries), of, query, table)
    BY <1>2, <2>1 DEF Pending
  <2>3. Len(queries) # 1
    BY <1>1, <2>1
  <2> QED
    BY <2>2, <2>3
<1> QED
  BY <1>3, <1>4

(* The last query stays the last.                                          *)
LEMMA IdentityStaysLast ==
  ASSUME NEW queries, InOrder(queries), queries # <<>>, NEW of, IdentityLast(queries, of)
  PROVE  IdentityLast(Tail(queries), of)
<1>1. /\ Len(queries) \in Nat \ {0}
      /\ \A i \in 1..Len(Tail(queries)) : i + 1 \in 1..Len(queries) /\ Tail(queries)[i] = queries[i + 1]
      /\ Len(Tail(queries)) = Len(queries) - 1
  BY Asking, TailInOrder
<1> DEFINE rest == Tail(queries)
           n == Len(queries)
<1>2. /\ n \in Nat \ {0} /\ Len(rest) = n - 1
      /\ \A i \in 1..Len(rest) : i + 1 \in 1..n /\ rest[i] = queries[i + 1]
      /\ \A i \in 1..n : queries[i].query = "identity" =>
           of \in {"mssql", "oracle"} /\ (of = "oracle" => i = n)
  BY <1>1 DEF IdentityLast
<1> HIDE DEF rest, n
<1>3. \A i \in 1..Len(rest) : rest[i].query = "identity" =>
        of \in {"mssql", "oracle"} /\ (of = "oracle" => i = Len(rest))
  BY <1>2
<1> QED
  BY <1>3 DEF IdentityLast, rest

(* An answer that tells what was asked for, and nothing that is not so.    *)
LEMMA AnswerTells ==
  ASSUME Whole, Truthful, stage = "reading", todo # <<>>, Head(todo).query # "tables",
         NEW e, Answered(e),
         alterations = 0 /\ Tellable =>
           /\ Sound(e, catalogue, dialect) /\ Grows(database, e, catalogue)
           /\ \A query \in Telling(dialect), table \in Read :
                Head(todo).query = query /\ About(Head(todo), table) =>
                  Told(e, catalogue, dialect, complete, query, table)
  PROVE  Truthful'
<1>1. /\ database' = e /\ todo' = Tail(todo)
      /\ stage' = IF Len(todo) = 1 THEN "filtering" ELSE "reading"
      /\ UNCHANGED <<request, source, added, complete>>
  BY DEF Answered
<1>2. /\ Tellable' = Tellable /\ Read' = Read
      /\ dialect' = dialect /\ catalogue' = catalogue /\ alterations' = alterations
      /\ complete' = complete
  BY <1>1, TellableStays
<1> SUFFICES ASSUME alterations = 0, Tellable
             PROVE  /\ Sound(e, catalogue, dialect)
                    /\ stage' = "reading" => IdentityLast(Tail(todo), dialect)
                    /\ \A query \in Telling(dialect), table \in Read :
                         \/ stage' = "reading" /\ Pending(Tail(todo), dialect, query, table)
                         \/ Told(e, catalogue, dialect, complete, query, table)
  BY <1>1, <1>2 DEF Truthful
<1>3. InOrder(todo)
  BY DEF Whole, Course
<1>4. /\ IdentityLast(todo, dialect)
      /\ \A query \in Telling(dialect), table \in Read :
           \/ Pending(todo, dialect, query, table)
           \/ Told(database, catalogue, dialect, complete, query, table)
  BY DEF Truthful
<1>5. ASSUME NEW query \in Telling(dialect), NEW table \in Read
      PROVE  \/ stage' = "reading" /\ Pending(Tail(todo), dialect, query, table)
             \/ Told(e, catalogue, dialect, complete, query, table)
  <2>1. CASE Told(database, catalogue, dialect, complete, query, table)
    BY <2>1, ToldStays
  <2>2. CASE Pending(todo, dialect, query, table)
    <3>1. \/ Head(todo).query = query /\ About(Head(todo), table)
          \/ Len(todo) # 1 /\ Pending(Tail(todo), dialect, query, table)
      BY <1>3, <2>2, PendingTail
    <3> QED
      BY <1>1, <3>1
  <2> QED
    BY <1>4, <2>1, <2>2
<1>6. IdentityLast(Tail(todo), dialect)
  BY <1>3, <1>4, IdentityStaysLast
<1> QED
  BY <1>5, <1>6

(* What an answer meets: the tables of the source, and the columns of      *)
(* those it is about.                                                      *)
LEMMA TellingFacts ==
  ASSUME Whole, Truthful, NEW query, Asks(query), query \notin {"schemas", "tables"},
         alterations = 0, Tellable
  PROVE  /\ stage = "reading" /\ todo # <<>> /\ Head(todo).query = query
         /\ dialect \in Dialects /\ DOMAIN database = Fields
         /\ IsCatalogue(catalogue) /\ KeepsReferences(catalogue)
         /\ Sound(database, catalogue, dialect)
         /\ DOMAIN database.columns = Read
         /\ query # "columns" =>
              \A table \in Read : About(Head(todo), table) =>
                database.columns[table] = catalogue.columns[table]
<1>1. /\ stage = "reading" /\ todo # <<>> /\ Head(todo).query = query /\ InOrder(todo)
      /\ dialect \in Dialects /\ DOMAIN database = Fields /\ IsCatalogue(catalogue)
  BY AsksFacts
<1>2. KeepsReferences(catalogue)
  BY ReferencesAssumption DEF Whole, Course
<1>3. Sound(database, catalogue, dialect)
  BY <1>1 DEF Truthful
<1>4. DOMAIN database.columns = Read
  <2>1. "tables" \notin Remaining(todo)
    BY <1>1, RemainingTail
  <2> QED
    BY <1>1, <2>1 DEF Whole, Selected, Tables
<1>5. ASSUME query # "columns", NEW table \in Read, About(Head(todo), table)
      PROVE  database.columns[table] = catalogue.columns[table]
  <2>1. ASSUME Pending(todo, dialect, "columns", table) PROVE FALSE
    <3>1. PICK i \in 1..Len(todo) :
            \/ todo[i].query = "columns" /\ About(todo[i], table)
            \/ todo[i].query = "tables"
      BY <2>1 DEF Pending
    <3>2. todo[i] = Head(todo) \/ Precedes(Head(todo), todo[i])
      BY <1>1, Asking
    <3>3. Precedes(Head(todo), todo[i])
      BY <1>1, <1>5, <3>1, <3>2
    <3> QED
      BY <1>1, <1>5, <3>1, <3>3 DEF Precedes, About
  <2>2. "columns" \in Telling(dialect)
    BY DEF Telling
  <2>3. Told(database, catalogue, dialect, complete, "columns", table)
    BY <1>1, <2>1, <2>2 DEF Truthful
  <2> QED
    BY <2>3 DEF Told
<1> QED
  BY <1>1, <1>2, <1>3, <1>4, <1>5

(* The schemas tell nothing of a table.                                    *)
LEMMA SchemasTell == ASSUME Whole, Truthful, ReadSchemas PROVE Truthful'
<1> DEFINE e == [database EXCEPT !.schemas = Schemas(catalogue)]
<1>1. Asks("schemas") /\ Answered(e)
  BY DEF ReadSchemas
<1>2. /\ stage = "reading" /\ todo # <<>> /\ Head(todo).query = "schemas"
      /\ DOMAIN database = Fields
  BY <1>1, AsksFacts
<1>3. /\ e.columns = database.columns /\ e.constraint = database.constraint
      /\ e.foreignKeys = database.foreignKeys /\ e.indexes = database.indexes
      /\ e.identity = database.identity
  BY <1>2 DEF Fields
<1> HIDE DEF e
<1>4. Grows(database, e, catalogue)
  BY <1>3 DEF Grows
<1>5. alterations = 0 /\ Tellable => Sound(e, catalogue, dialect)
  BY <1>2, <1>3 DEF Truthful, Sound
<1>6. "schemas" \notin Telling(dialect) /\ Head(todo).query # "tables"
  BY <1>2 DEF Telling
<1> QED
  BY <1>1, <1>2, <1>4, <1>5, <1>6, AnswerTells

(* Nor do the expressions of computed columns.                             *)
LEMMA ComputedColumnsTell == ASSUME Whole, Truthful, ReadComputedColumns PROVE Truthful'
<1>1. Asks("computed columns") /\ Answered(database)
  BY DEF ReadComputedColumns
<1>2. stage = "reading" /\ todo # <<>> /\ Head(todo).query = "computed columns"
  BY <1>1, AsksFacts
<1>3. Grows(database, database, catalogue)
  BY DEF Grows
<1>4. alterations = 0 /\ Tellable => Sound(database, catalogue, dialect)
  BY <1>2 DEF Truthful
<1>5. "computed columns" \notin Telling(dialect) /\ Head(todo).query # "tables"
  BY <1>2 DEF Telling
<1> QED
  BY <1>1, <1>2, <1>3, <1>4, <1>5, AnswerTells

(* Identity columns are those of the source, all of them.                  *)
LEMMA IdentityTells == ASSUME Whole, Truthful, ReadIdentity PROVE Truthful'
<1> DEFINE identity == {place \in IdentityRows(catalogue) : HasColumn(place[1], place[2])}
           e == [database EXCEPT !.identity = @ \cup identity]
<1>1. Asks("identity") /\ Answered(e)
  BY DEF ReadIdentity
<1>2. /\ stage = "reading" /\ todo # <<>> /\ Head(todo).query = "identity"
      /\ DOMAIN database = Fields /\ InOrder(todo)
  BY <1>1, AsksFacts
<1>3. /\ e.columns = database.columns /\ e.constraint = database.constraint
      /\ e.foreignKeys = database.foreignKeys /\ e.indexes = database.indexes
      /\ e.identity = database.identity \cup identity
  BY <1>2 DEF Fields
<1>4. ASSUME alterations = 0, Tellable
      PROVE  /\ Sound(e, catalogue, dialect) /\ Grows(database, e, catalogue)
             /\ \A query \in Telling(dialect), table \in Read :
                  Head(todo).query = query /\ About(Head(todo), table) =>
                    Told(e, catalogue, dialect, complete, query, table)
  <2>1. /\ dialect \in Dialects
        /\ IsCatalogue(catalogue) /\ KeepsReferences(catalogue)
        /\ Sound(database, catalogue, dialect) /\ DOMAIN database.columns = Read
        /\ \A table \in Read : About(Head(todo), table) =>
             database.columns[table] = catalogue.columns[table]
    BY <1>1, <1>4, TellingFacts
  <2>2. Grows(database, e, catalogue)
    <3> HIDE DEF e, identity
    <3> QED
      BY <1>3 DEF Grows
  <2>3. dialect \in {"mssql", "oracle"}
    <3>1. 1 \in 1..Len(todo) /\ todo[1].query = "identity"
      BY <1>2, Asking
    <3>2. IdentityLast(todo, dialect)
      BY <1>2, <1>4 DEF Truthful
    <3> QED
      BY <3>1, <3>2 DEF IdentityLast
  <2>4. /\ Sound(e, catalogue, dialect)
        /\ \A table \in Read : Told(e, catalogue, dialect, complete, "identity", table)
    <3>1. IdentityRows(catalogue) = catalogue.identity
      BY <2>3 DEF IdentityRows, MSSQL!IdentityRows, Oracle!IdentityRows
    <3>2. Sound(e, catalogue, dialect)
      <4>1. identity \subseteq catalogue.identity
        BY <3>1
      <4> HIDE DEF e, identity
      <4> QED
        BY <1>3, <2>1, <2>3, <4>1 DEF Sound
    <3>3. ASSUME NEW table \in Read PROVE HasIdentity(e, catalogue, table)
      <4>1. ASSUME NEW place \in catalogue.identity, place[1] = table PROVE place \in identity
        <5>1. About(Head(todo), table)
          <6>1. IsQuery(Head(todo))
            BY <1>2, Asking
          <6> QED
            BY <1>2, <6>1, AboutAll
        <5>2. place[2] \in Elements(catalogue.columns[table])
          BY <2>1, <4>1 DEF IsCatalogue, KeepsReferences
        <5> QED
          BY <2>1, <3>1, <4>1, <5>1, <5>2 DEF HasColumn, Tables
      <4> HIDE DEF e, identity
      <4> QED
        BY <1>3, <4>1 DEF HasIdentity
    <3>4. ASSUME NEW table \in Read
          PROVE  Told(e, catalogue, dialect, complete, "identity", table)
      BY <3>3 DEF Told
    <3> QED
      BY <3>2, <3>4
  <2> QED
    BY <1>2, <2>2, <2>4
<1>5. Head(todo).query # "tables"
  BY <1>2
<1> HIDE DEF e
<1> QED
  BY <1>1, <1>2, <1>4, <1>5, AnswerTells

(* Columns get the kind of their keys, and every primary key is told.      *)
LEMMA ConstraintsTell == ASSUME Whole, Truthful, ReadConstraints PROVE Truthful'
<1>1. PICK new \in Constrained(database.constraint, KeyRows(catalogue)) :
        Asks("constraints") /\ Answered([database EXCEPT !.constraint = new])
  BY DEF ReadConstraints
<1> DEFINE e == [database EXCEPT !.constraint = new]
           base == database.constraint
           rows == KeyRows(catalogue)
           places == {place \in {<<row.table, row.column>> : row \in rows} :
                        HasColumn(place[1], place[2]) /\ Asked(place[1])}
<1>2. /\ stage = "reading" /\ todo # <<>> /\ Head(todo).query = "constraints"
      /\ DOMAIN database = Fields
  BY <1>1, AsksFacts
<1>3. /\ DOMAIN new = places \cup DOMAIN base
      /\ \A place \in DOMAIN new :
           new[place] \in IF place \in places THEN Kinds(rows, place) ELSE {base[place]}
  BY DEF Constrained
<1>4. /\ e.columns = database.columns /\ e.constraint = new
      /\ e.foreignKeys = database.foreignKeys /\ e.indexes = database.indexes
      /\ e.identity = database.identity
  BY <1>2 DEF Fields
<1>5. ASSUME alterations = 0, Tellable
      PROVE  /\ Sound(e, catalogue, dialect) /\ Grows(database, e, catalogue)
             /\ \A query \in Telling(dialect), table \in Read :
                  Head(todo).query = query /\ About(Head(todo), table) =>
                    Told(e, catalogue, dialect, complete, query, table)
  <2>1. /\ dialect \in Dialects
        /\ IsCatalogue(catalogue) /\ KeepsReferences(catalogue)
        /\ Sound(database, catalogue, dialect) /\ DOMAIN database.columns = Read
        /\ \A table \in Read : About(Head(todo), table) =>
             database.columns[table] = catalogue.columns[table]
    BY <1>1, <1>5, TellingFacts
  <2>2. /\ \A row \in rows : \E key \in catalogue.keys : SaysOf(row, key)
        /\ \A key \in catalogue.keys : key.kind = "PRIMARY KEY" =>
             \A column \in Elements(key.columns) :
               \E row \in rows : row.table = key.table /\ row.column = column
    BY <1>5, <2>1, KeysAsDeclared
  <2>3. Grows(database, e, catalogue)
    <3> HIDE DEF e, places, rows
    <3> QED
      BY <1>3, <1>4 DEF Grows
  <2>4. ASSUME NEW place \in DOMAIN new
        PROVE  \E key \in catalogue.keys :
                 place \in {key.table} \X Elements(key.columns) /\ new[place] = key.kind
    <3>1. CASE place \in places
      <4>1. new[place] \in Kinds(rows, place)
        BY <1>3, <3>1
      <4>2. PICK row \in rows : <<row.table, row.column>> = place /\ row.kind = new[place]
        BY <4>1 DEF Kinds
      <4>3. PICK key \in catalogue.keys : SaysOf(row, key)
        BY <2>2
      <4> QED
        BY <4>2, <4>3 DEF SaysOf
    <3>2. CASE place \notin places
      <4>1. place \in DOMAIN base /\ new[place] = base[place]
        BY <1>3, <3>2
      <4> QED
        BY <2>1, <4>1 DEF Sound
    <3> QED
      BY <3>1, <3>2
  <2>5. Sound(e, catalogue, dialect)
    <3> HIDE DEF e
    <3> QED
      BY <1>4, <2>1, <2>4 DEF Sound
  <2>6. ASSUME NEW table \in Read, About(Head(todo), table)
        PROVE  HasKeys(e, catalogue, table)
    <3>1. ASSUME NEW key \in catalogue.keys, key.table = table, key.kind = "PRIMARY KEY",
                 NEW column \in Elements(key.columns)
          PROVE  <<table, column>> \in places
      <4>1. PICK row \in rows : row.table = table /\ row.column = column
        BY <2>2, <3>1
      <4>2. column \in Elements(catalogue.columns[table])
        BY <2>1, <3>1 DEF IsCatalogue, KeepsReferences
      <4>3. HasColumn(table, column) /\ Asked(table)
        BY <2>1, <2>6, <4>2 DEF HasColumn, Tables, Asked, About
      <4> DEFINE place == <<table, column>>
      <4>4. place \in {<<r.table, r.column>> : r \in rows} /\ place[1] = table /\ place[2] = column
        BY <4>1
      <4> HIDE DEF place, rows
      <4>5. place \in places
        BY <4>3, <4>4
      <4> QED
        BY <4>5 DEF place
    <3> HIDE DEF e, places
    <3>2. places \subseteq DOMAIN e.constraint
      BY <1>3, <1>4
    <3>3. ASSUME NEW key \in catalogue.keys, key.table = table, key.kind = "PRIMARY KEY",
                 NEW place \in {key.table} \X Elements(key.columns)
          PROVE  place \in DOMAIN e.constraint
      <4>1. PICK of \in {key.table}, column \in Elements(key.columns) : place = <<of, column>>
        OBVIOUS
      <4>2. <<table, column>> \in places
        BY <3>1, <3>3
      <4>3. place = <<table, column>>
        BY <3>3, <4>1
      <4> QED
        BY <3>2, <4>2, <4>3
    <3> QED
      BY <3>3 DEF HasKeys
  <2> HIDE DEF e
  <2>7. \A table \in Read : About(Head(todo), table) =>
          Told(e, catalogue, dialect, complete, "constraints", table)
    BY <2>6 DEF Told
  <2> QED
    BY <1>2, <2>3, <2>5, <2>7
<1>6. Head(todo).query # "tables"
  BY <1>2
<1>7. Answered(e)
  BY <1>1
<1> HIDE DEF e
<1> QED
  BY <1>2, <1>5, <1>6, <1>7, AnswerTells

(* The foreign keys attached are those declared, column by column.         *)
LEMMA ForeignKeysTell == ASSUME Whole, Truthful, ReadForeignKeys PROVE Truthful'
<1> DEFINE T == {table \in Read : Asked(table)}
           S == {row \in ForeignKeyRows(catalogue) :
                   Asked(row.table) /\ row.table.schema \in Schemas(catalogue)}
           groups == {rows \in Groups(S) : Attachable(rows)}
<1>1. PICK order \in Arrivals(groups) :
        /\ Asks("foreign keys")
        /\ Answered([database EXCEPT !.foreignKeys = @ \cup {ForeignKey(order[rows]) : rows \in groups}])
  BY DEF ReadForeignKeys
<1> DEFINE new == {ForeignKey(order[rows]) : rows \in groups}
           e == [database EXCEPT !.foreignKeys = @ \cup new]
<1>0. Asks("foreign keys")
  BY <1>1
<1>2. /\ stage = "reading" /\ todo # <<>> /\ Head(todo).query = "foreign keys"
      /\ DOMAIN database = Fields
  BY <1>0, AsksFacts
<1> HIDE DEF new
<1>3. /\ e.columns = database.columns /\ e.constraint = database.constraint
      /\ e.foreignKeys = database.foreignKeys \cup new /\ e.indexes = database.indexes
      /\ e.identity = database.identity
  BY <1>2 DEF Fields
<1>4. ASSUME alterations = 0, Tellable
      PROVE  /\ Sound(e, catalogue, dialect) /\ Grows(database, e, catalogue)
             /\ \A query \in Telling(dialect), table \in Read :
                  Head(todo).query = query /\ About(Head(todo), table) =>
                    Told(e, catalogue, dialect, complete, query, table)
  <2> DEFINE refs == catalogue.references
  <2>1. /\ dialect \in Dialects
        /\ IsCatalogue(catalogue) /\ KeepsReferences(catalogue)
        /\ Sound(database, catalogue, dialect) /\ DOMAIN database.columns = Read
        /\ \A table \in Read : About(Head(todo), table) =>
             database.columns[table] = catalogue.columns[table]
    <3> DEFINE query == "foreign keys"
    <3>1. Asks(query) /\ query \notin {"schemas", "tables"} /\ query # "columns"
      BY <1>0
    <3> HIDE DEF T, S, groups, e, query
    <3> QED
      BY <1>4, <3>1, TellingFacts
  <2>2. /\ \A row \in ForeignKeyRows(catalogue) : \E reference \in refs : row \in RowsOf(reference)
        /\ \A reference \in refs : RowsOf(reference) \subseteq ForeignKeyRows(catalogue)
    BY <1>4, <2>1, ReferencesAsDeclared
  <2>3. ASSUME NEW reference \in refs
        PROVE  /\ reference.table \in DOMAIN catalogue.columns
               /\ Elements(reference.columns) \subseteq Elements(catalogue.columns[reference.table])
               /\ \A row \in RowsOf(reference) :
                    row.table = reference.table /\ row.column \in Elements(reference.columns)
    BY <2>1, RowsOfReference DEF KeepsReferences
  <2>4. ASSUME NEW row \in S
        PROVE  row.table \in T /\ \E reference \in refs : row \in RowsOf(reference)
    <3>1. PICK reference \in refs : row \in RowsOf(reference)
      BY <2>2
    <3> QED
      BY <2>3, <3>1 DEF Read, InScope
  <2>5. ASSUME NEW reference \in refs, reference.table \in T
        PROVE  RowsOf(reference) \subseteq S
    BY <2>2, <2>3, <2>5 DEF Read, InScope
  <2>6. \A table : table \in T <=> table \in Read /\ About(Head(todo), table)
    BY DEF Asked, About
  <2> HIDE DEF S, T
  <2>7. /\ \A rows \in Groups(S) : \E reference \in refs : rows = RowsOf(reference)
        /\ \A reference \in refs : reference.table \in T => RowsOf(reference) \in Groups(S)
    BY <2>1, <2>4, <2>5, ReferenceGroups
  <2>8. ASSUME NEW reference \in refs, RowsOf(reference) \in groups
        PROVE  ForeignKey(order[RowsOf(reference)]) = Declared(reference)
    <3>1. order[RowsOf(reference)] \in Arranged(RowsOf(reference))
      BY <2>8 DEF Arrivals
    <3> QED
      BY <2>1, <3>1, SortedReference
  <2>9. ASSUME NEW reference \in new
        PROVE  \E declared \in refs : reference = Declared(declared)
    <3>1. PICK rows \in groups : reference = ForeignKey(order[rows])
      BY DEF new
    <3>2. PICK declared \in refs : rows = RowsOf(declared)
      BY <2>7
    <3> QED
      BY <2>8, <3>1, <3>2
  <2>10. ASSUME NEW reference \in refs, reference.table \in Read, About(Head(todo), reference.table)
         PROVE  Declared(reference) \in new
    <3>1. reference.table \in T
      BY <2>6, <2>10
    <3>2. Attachable(RowsOf(reference))
      <4>1. database.columns[reference.table] = catalogue.columns[reference.table]
        BY <2>1, <2>10
      <4> QED
        BY <2>1, <2>3, <2>10, <4>1 DEF Attachable, HasColumn, Tables
    <3>3. RowsOf(reference) \in groups
      BY <2>7, <3>1, <3>2
    <3>4. ForeignKey(order[RowsOf(reference)]) \in new
      <4> HIDE DEF groups
      <4> QED
        BY <3>3 DEF new
    <3> QED
      BY <2>8, <3>3, <3>4
  <2> HIDE DEF e, groups
  <2>11. Grows(database, e, catalogue)
    BY <1>3 DEF Grows
  <2>12. Sound(e, catalogue, dialect)
    BY <1>3, <2>1, <2>9 DEF Sound
  <2>13. ASSUME NEW table \in Read, About(Head(todo), table)
         PROVE  Told(e, catalogue, dialect, complete, "foreign keys", table)
    <3>1. \A reference \in refs : reference.table = table => Declared(reference) \in e.foreignKeys
      BY <1>3, <2>10, <2>13
    <3> QED
      BY <3>1 DEF Told
  <2> QED
    BY <1>2, <2>11, <2>12, <2>13
<1>5. Head(todo).query # "tables"
  BY <1>2
<1>6. Answered(e)
  BY <1>1 DEF new
<1> HIDE DEF e
<1> QED
  BY <1>2, <1>4, <1>5, <1>6, AnswerTells

(* Every index that is not unique is entered with its columns in order.    *)
LEMMA IndexesTell == ASSUME Whole, Truthful, ReadIndexes PROVE Truthful'
<1> DEFINE S == {row \in IndexRows(catalogue) : row.table \in Tables /\ Asked(row.table)}
           groups == Groups(S)
<1>1. PICK order \in Arrivals(groups) :
        /\ Asks("indexes")
        /\ Answered([database EXCEPT !.indexes = @ \cup {Index(order[rows]) : rows \in groups}])
  BY DEF ReadIndexes
<1> DEFINE new == {Index(order[rows]) : rows \in groups}
           e == [database EXCEPT !.indexes = @ \cup new]
<1>2. Asks("indexes")
  BY <1>1
<1>3. /\ stage = "reading" /\ todo # <<>> /\ Head(todo).query = "indexes"
      /\ DOMAIN database = Fields
  BY <1>2, AsksFacts
<1> HIDE DEF new
<1>4. /\ e.columns = database.columns /\ e.constraint = database.constraint
      /\ e.foreignKeys = database.foreignKeys /\ e.indexes = database.indexes \cup new
      /\ e.identity = database.identity
  BY <1>3 DEF Fields
<1>5. ASSUME alterations = 0, Tellable
      PROVE  /\ Sound(e, catalogue, dialect) /\ Grows(database, e, catalogue)
             /\ \A query \in Telling(dialect), table \in Read :
                  Head(todo).query = query /\ About(Head(todo), table) =>
                    Told(e, catalogue, dialect, complete, query, table)
  <2>1. /\ dialect \in Dialects
        /\ IsCatalogue(catalogue) /\ KeepsReferences(catalogue)
        /\ Sound(database, catalogue, dialect) /\ DOMAIN database.columns = Read
    <3> HIDE DEF S, groups, e
    <3> QED
      BY <1>2, <1>5, TellingFacts
  <2>2. IndexRows(catalogue) = UNION {RowsOfIndex(index) : index \in Listed(catalogue)}
    BY <2>1, IndexQueries
  <2>3. \A row \in S : \E index \in catalogue.indexes : row \in RowsOfIndex(index)
    BY <2>2 DEF Listed
  <2>4. ASSUME NEW index \in catalogue.indexes, ~index.unique,
               index.table \in Read, About(Head(todo), index.table)
        PROVE  Entered(index) \in new
    <3>1. RowsOfIndex(index) \subseteq IndexRows(catalogue)
      <4>1. index \in Listed(catalogue)
        BY <2>4 DEF Listed
      <4> QED
        BY <2>2, <4>1
    <3>2. \A row \in RowsOfIndex(index) : row.table = index.table
      BY <2>1, RowsOfAnIndex
    <3>3. RowsOfIndex(index) \subseteq S
      BY <2>1, <2>4, <3>1, <3>2 DEF Tables, Asked, About
    <3> HIDE DEF S
    <3>4. RowsOfIndex(index) \in groups
      BY <2>1, <2>3, <3>3, IndexGroups
    <3>5. order[RowsOfIndex(index)] \in Arranged(RowsOfIndex(index))
      BY <3>4 DEF Arrivals
    <3>6. dialect = "postgres" => Len(index.columns) = 1
      BY <1>5 DEF Tellable
    <3>7. Index(order[RowsOfIndex(index)]) = Entered(index)
      BY <2>1, <3>5, <3>6, SortedIndex
    <3> HIDE DEF groups
    <3>8. Index(order[RowsOfIndex(index)]) \in new
      BY <3>4 DEF new
    <3> QED
      BY <3>7, <3>8
  <2> HIDE DEF e, S, groups
  <2>5. Grows(database, e, catalogue)
    BY <1>4 DEF Grows
  <2>6. Sound(e, catalogue, dialect)
    BY <1>4, <2>1 DEF Sound
  <2>7. ASSUME NEW table \in Read, About(Head(todo), table)
         PROVE  Told(e, catalogue, dialect, complete, "indexes", table)
    <3>1. \A index \in catalogue.indexes :
            index.table = table /\ ~index.unique => Entered(index) \in e.indexes
      BY <1>4, <2>4, <2>7
    <3> QED
      BY <3>1 DEF Told
  <2> QED
    BY <1>3, <2>5, <2>6, <2>7
<1>6. Head(todo).query # "tables"
  BY <1>3
<1>7. Answered(e)
  BY <1>1 DEF new
<1> HIDE DEF e
<1> QED
  BY <1>3, <1>5, <1>6, <1>7, AnswerTells

(* Oracle may go on without the identity columns, which it asks for last.  *)
LEMMA FailureTells == ASSUME Whole, Truthful, QueryFails PROVE Truthful'
<1>1. /\ stage = "reading" /\ todo # <<>> /\ database' = database
      /\ UNCHANGED <<request, source>>
  BY DEF QueryFails
<1>2. /\ Tellable' = Tellable /\ Read' = Read
      /\ dialect' = dialect /\ catalogue' = catalogue /\ alterations' = alterations
  BY <1>1, TellableStays
<1>3. CASE stage' = "SourceReaderError"
  BY <1>3 DEF Truthful
<1>4. CASE stage' # "SourceReaderError"
  <2>1. complete' = FALSE /\ stage' = "filtering" /\ dialect = "oracle" /\ Head(todo).query = "identity"
    BY <1>4 DEF QueryFails
  <2> SUFFICES ASSUME alterations = 0, Tellable
               PROVE  /\ Sound(database, catalogue, dialect)
                      /\ \A query \in Telling(dialect), table \in Read :
                           Told(database, catalogue, dialect, FALSE, query, table)
    BY <1>1, <1>2, <2>1 DEF Truthful
  <2>2. /\ Sound(database, catalogue, dialect) /\ IdentityLast(todo, dialect)
        /\ \A query \in Telling(dialect), table \in Read :
             \/ Pending(todo, dialect, query, table)
             \/ Told(database, catalogue, dialect, complete, query, table)
    BY <1>1 DEF Truthful
  <2>3. 1 \in 1..Len(todo) /\ Head(todo) = todo[1] /\ InOrder(todo)
    BY <1>1, Asking DEF Whole, Course
  <2>4. Len(todo) = 1
    BY <2>1, <2>2, <2>3 DEF IdentityLast
  <2>5. ASSUME NEW query \in Telling(dialect), NEW table \in Read
        PROVE  Told(database, catalogue, dialect, FALSE, query, table)
    <3>1. CASE query = "identity"
      BY <3>1 DEF Told
    <3>2. CASE query # "identity"
      <4>1. ~Pending(todo, dialect, query, table)
        <5>1. \A i \in 1..Len(todo) : i = 1
          BY <2>4
        <5> QED
          BY <2>1, <2>3, <3>2, <5>1 DEF Pending
      <4>2. Told(database, catalogue, dialect, complete, query, table)
        BY <2>2, <4>1
      <4> QED
        BY <3>2, <4>2 DEF Told
    <3> QED
      BY <3>1, <3>2
  <2> QED
    BY <2>2, <2>5
<1> QED
  BY <1>3, <1>4

(* The columns are those of the source; SQLite tells the primary key with  *)
(* them, PostgreSQL and MySQL the identities.                              *)
LEMMA ColumnsTell == ASSUME Whole, Truthful, ReadColumns PROVE Truthful'
<1> DEFINE known == {table \in Tables \cap DOMAIN catalogue.columns : Asked(table)}
           columns == [table \in Tables |->
                         IF table \in known THEN catalogue.columns[table]
                         ELSE database.columns[table]]
           keys == IF dialect # "sqlite" THEN {}
                   ELSE {row \in KeyRows(catalogue) : row.table \in known}
           places == DOMAIN database.constraint \cup {<<row.table, row.column>> : row \in keys}
           constraint == [place \in places |->
                            IF place \in DOMAIN database.constraint THEN database.constraint[place]
                            ELSE "PRIMARY KEY"]
           identity == {place \in IdentityOfColumns(catalogue) : place[1] \in known}
           e == [database EXCEPT !.columns = columns, !.constraint = constraint,
                                 !.identity = @ \cup identity]
<1>1. Asks("columns") /\ Answered(e)
  BY DEF ReadColumns
<1>2. /\ stage = "reading" /\ todo # <<>> /\ Head(todo).query = "columns"
      /\ DOMAIN database = Fields
  BY <1>1, AsksFacts
<1>3. /\ DOMAIN columns = DOMAIN database.columns
      /\ \A table \in known : columns[table] = catalogue.columns[table]
      /\ \A table \in DOMAIN database.columns :
           columns[table] \in {database.columns[table], catalogue.columns[table]}
  BY DEF Tables
<1>4. /\ DOMAIN constraint = places
      /\ \A place \in DOMAIN database.constraint : constraint[place] = database.constraint[place]
      /\ \A place \in places \ DOMAIN database.constraint : constraint[place] = "PRIMARY KEY"
  OBVIOUS
<1> HIDE DEF columns, constraint, identity
<1>5. /\ e.columns = columns /\ e.constraint = constraint
      /\ e.identity = database.identity \cup identity
      /\ e.foreignKeys = database.foreignKeys /\ e.indexes = database.indexes
  BY <1>2 DEF Fields
<1>6. ASSUME alterations = 0, Tellable
      PROVE  /\ Sound(e, catalogue, dialect) /\ Grows(database, e, catalogue)
             /\ \A query \in Telling(dialect), table \in Read :
                  Head(todo).query = query /\ About(Head(todo), table) =>
                    Told(e, catalogue, dialect, complete, query, table)
  <2>1. /\ dialect \in Dialects /\ IsCatalogue(catalogue) /\ KeepsReferences(catalogue)
        /\ Sound(database, catalogue, dialect) /\ DOMAIN database.columns = Read
    <3> HIDE DEF e, known, keys, places
    <3> QED
      BY <1>1, <1>6, TellingFacts
  <2>2. \A table \in Read : About(Head(todo), table) => table \in known
    BY <2>1 DEF Tables, Read, Asked, About
  <2>3. dialect = "sqlite" =>
          /\ \A row \in keys : \E key \in catalogue.keys : SaysOf(row, key) /\ key.kind = "PRIMARY KEY"
          /\ \A key \in catalogue.keys : key.kind = "PRIMARY KEY" /\ key.table \in known =>
               \A column \in Elements(key.columns) :
                 \E row \in keys : row.table = key.table /\ row.column = column
    <3> SUFFICES ASSUME dialect = "sqlite"
                 PROVE  /\ \A row \in keys : \E key \in catalogue.keys :
                             SaysOf(row, key) /\ key.kind = "PRIMARY KEY"
                        /\ \A key \in catalogue.keys : key.kind = "PRIMARY KEY" /\ key.table \in known =>
                             \A column \in Elements(key.columns) :
                               \E row \in keys : row.table = key.table /\ row.column = column
      OBVIOUS
    <3>1. /\ \A row \in KeyRows(catalogue) : \E key \in catalogue.keys : SaysOf(row, key)
          /\ \A row \in KeyRows(catalogue) : row.kind = "PRIMARY KEY"
          /\ \A key \in catalogue.keys : key.kind = "PRIMARY KEY" =>
               \A column \in Elements(key.columns) :
                 \E row \in KeyRows(catalogue) : row.table = key.table /\ row.column = column
      BY <1>6, <2>1, KeysAsDeclared
    <3>2. keys = {row \in KeyRows(catalogue) : row.table \in known}
      OBVIOUS
    <3> HIDE DEF keys, known
    <3>3. ASSUME NEW row \in keys
          PROVE  \E key \in catalogue.keys : SaysOf(row, key) /\ key.kind = "PRIMARY KEY"
      <4>1. row \in KeyRows(catalogue) /\ row.kind = "PRIMARY KEY"
        BY <3>1, <3>2
      <4>2. PICK key \in catalogue.keys : SaysOf(row, key)
        BY <3>1, <4>1
      <4>3. key.kind = "PRIMARY KEY"
        BY <4>1, <4>2 DEF SaysOf
      <4> QED
        BY <4>2, <4>3
    <3>4. \A key \in catalogue.keys : key.kind = "PRIMARY KEY" /\ key.table \in known =>
            \A column \in Elements(key.columns) :
              \E row \in keys : row.table = key.table /\ row.column = column
      BY <3>1, <3>2
    <3> QED
      BY <3>3, <3>4
  <2>4. dialect # "sqlite" => keys = {}
    OBVIOUS
  <2>5. \A place \in catalogue.identity :
          dialect \in {"postgres", "mysql"} /\ place[1] \in known => place \in identity
    BY DEF identity, IdentityOfColumns, Postgres!IdentityOfColumns, MySQL!IdentityOfColumns
  <2>6. dialect # "sqlite" => identity \subseteq catalogue.identity
    BY <2>1 DEF identity, Dialects, IdentityOfColumns, Postgres!IdentityOfColumns,
       MySQL!IdentityOfColumns, MSSQL!IdentityOfColumns, Oracle!IdentityOfColumns
  <2> HIDE DEF e, known, keys
  <2>7. Sound(e, catalogue, dialect)
    <3>1. ASSUME NEW place \in DOMAIN constraint
          PROVE  \E key \in catalogue.keys :
                   place \in {key.table} \X Elements(key.columns) /\ constraint[place] = key.kind
      <4>1. CASE place \in DOMAIN database.constraint
        BY <1>4, <2>1, <4>1 DEF Sound
      <4>2. CASE place \notin DOMAIN database.constraint
        <5>1. constraint[place] = "PRIMARY KEY"
          BY <1>4, <4>2
        <5>2. PICK row \in keys : place = <<row.table, row.column>>
          BY <1>4, <4>2
        <5>3. PICK key \in catalogue.keys : SaysOf(row, key) /\ key.kind = "PRIMARY KEY"
          BY <2>3, <2>4, <5>2
        <5> QED
          BY <5>1, <5>2, <5>3 DEF SaysOf
      <4> QED
        BY <4>1, <4>2
    <3> QED
      BY <1>5, <2>1, <2>6, <3>1 DEF Sound
  <2>8. Grows(database, e, catalogue)
    BY <1>3, <1>4, <1>5 DEF Grows
  <2>9. ASSUME NEW table \in Read, About(Head(todo), table)
        PROVE  Told(e, catalogue, dialect, complete, "columns", table)
    <3>1. table \in known
      BY <2>2, <2>9
    <3>2. table \in DOMAIN e.columns /\ e.columns[table] = catalogue.columns[table]
      BY <1>3, <1>5, <2>1, <3>1
    <3>3. ASSUME dialect = "sqlite" PROVE HasKeys(e, catalogue, table)
      <4>1. ASSUME NEW key \in catalogue.keys, key.table = table, key.kind = "PRIMARY KEY",
                   NEW column \in Elements(key.columns)
            PROVE  <<table, column>> \in places
        <5>1. PICK row \in keys : row.table = table /\ row.column = column
          BY <2>3, <3>1, <3>3, <4>1
        <5> QED
          BY <5>1
      <4> HIDE DEF places
      <4>2. ASSUME NEW key \in catalogue.keys, key.table = table, key.kind = "PRIMARY KEY",
                   NEW place \in {key.table} \X Elements(key.columns)
            PROVE  place \in places
        <5>1. PICK of \in {key.table}, column \in Elements(key.columns) : place = <<of, column>>
          OBVIOUS
        <5> QED
          BY <4>1, <4>2, <5>1
      <4> QED
        BY <1>4, <1>5, <4>2 DEF HasKeys
    <3>4. ASSUME dialect \in {"postgres", "mysql"} PROVE HasIdentity(e, catalogue, table)
      BY <1>5, <2>5, <3>1, <3>4 DEF HasIdentity
    <3> QED
      BY <3>2, <3>3, <3>4 DEF Told
  <2> QED
    BY <1>2, <2>7, <2>8, <2>9
<1>7. Head(todo).query # "tables"
  BY <1>2
<1> HIDE DEF e
<1> QED
  BY <1>1, <1>2, <1>6, <1>7, AnswerTells

-----------------------------------------------------------------------------
(* What is asked of each table, and in the end told.                       *)

(* A sequence of as many different elements as a set has holds them all.   *)
LEMMA EveryElement ==
  ASSUME NEW S, IsFiniteSet(S), NEW order \in SetToSeqs(S)
  PROVE  /\ Cardinality(S) \in Nat /\ Len(order) = Cardinality(S)
         /\ \A i, j \in 1..Len(order) : i # j => order[i] # order[j]
         /\ \A x \in S : \E i \in 1..Len(order) : order[i] = x
<1> DEFINE n == Cardinality(S)
<1>1. n \in Nat
  BY FS_CardinalityType
<1>2. order \in [1..n -> S] /\ \A i, j \in 1..n : i # j => order[i] # order[j]
  BY DEF SetToSeqs
<1>3. IsFiniteSet(1..n) /\ Cardinality(1..n) = n
  <2> HIDE DEF n
  <2>1. IsFiniteSet(1..n) /\ Cardinality(1..n) = IF 1 > n THEN 0 ELSE n - 1 + 1
    BY <1>1, FS_Interval
  <2> QED
    BY <1>1, <2>1
<1>4. order \in Injection(1..n, S)
  <2> HIDE DEF n
  <2> QED
    BY <1>2 DEF Injection, IsInjective
<1>5. order \in Surjection(1..n, S)
  <2>1. Cardinality(1..n) = Cardinality(S) <=> order \in Surjection(1..n, S)
    BY <1>4, FS_Injection
  <2> QED
    BY <1>3, <2>1
<1> HIDE DEF n
<1>6. Len(order) = n
  BY <1>1, <1>2
<1>7. \A x \in S : \E i \in 1..n : order[i] = x
  BY <1>5 DEF Surjection
<1> QED
  BY <1>1, <1>2, <1>6, <1>7 DEF n

(* Numbers in threes.                                                      *)
LEMMA Thirds ==
  ASSUME NEW n \in Nat, NEW k \in 1..n, NEW p \in {1, 2, 3}
  PROVE  \E i \in 1..(3 * n) : ((i - 1) % 3) + 1 = p /\ ((i - 1) \div 3) + 1 = k
<1> DEFINE i == 3 * (k - 1) + p
<1>1. i \in Nat /\ i >= 1 /\ i <= 3 * n
  OBVIOUS
<1> DEFINE q == (i - 1) \div 3
           r == (i - 1) % 3
<1>2. q \in Nat /\ r \in 0..2 /\ i - 1 = 3 * q + r
  <2> HIDE DEF i
  <2> QED
    BY <1>1
<1>3. i - 1 = 3 * (k - 1) + (p - 1)
  OBVIOUS
<1> HIDE DEF i, q, r
<1>4. r + 1 = p /\ q + 1 = k
  BY <1>1, <1>2, <1>3
<1>5. i \in 1..(3 * n)
  BY <1>1
<1> QED
  BY <1>4, <1>5 DEF q, r

AsksAbout(queries, query, table) ==
  \E i \in 1..Len(queries) : queries[i].query = query /\ queries[i].of = {table}

(* SQLite is asked everything about every table.                           *)
LEMMA QueriesAboutCover ==
  ASSUME NEW tables, Len(tables) \in Nat, NEW k \in 1..Len(tables), NEW p \in {1, 2, 3}
  PROVE  AsksAbout(QueriesAbout(tables), SQLite!QueriesOfTable[p], tables[k])
<1> DEFINE n == Len(tables)
<1>1. /\ Len(QueriesAbout(tables)) = 3 * n
      /\ \A i \in 1..(3 * n) :
           /\ QueriesAbout(tables)[i].query = SQLite!QueriesOfTable[((i - 1) % 3) + 1]
           /\ QueriesAbout(tables)[i].of = {tables[((i - 1) \div 3) + 1]}
  BY DEF QueriesAbout
<1>2. PICK i \in 1..(3 * n) : ((i - 1) % 3) + 1 = p /\ ((i - 1) \div 3) + 1 = k
  <2>1. n \in Nat /\ k \in 1..n
    OBVIOUS
  <2> HIDE DEF n
  <2> QED
    BY <2>1, Thirds
<1> QED
  BY <1>1, <1>2 DEF AsksAbout

(* Once the tables are listed everything about them is still to be asked.  *)
LEMMA TablesTell == ASSUME Whole, Truthful, ReadTables PROVE Truthful'
<1> DEFINE own == IF dialect = "postgres" THEN Schemas(catalogue)
                  ELSE IF dialect \in {"mysql", "sqlite"} THEN {Home} ELSE {}
           schemas == database.schemas \cup own
           listed == {table \in DOMAIN catalogue.columns :
                        table.schema \in Schemas(catalogue) \cap schemas}
           e == [database EXCEPT !.schemas = schemas, !.columns = [table \in listed |-> <<>>]]
<1>1. PICK order \in (IF dialect = "sqlite" THEN SetToSeqs(listed) ELSE {<<>>}) :
        /\ Asks("tables") /\ database' = e
        /\ todo' = IF dialect # "sqlite" THEN Tail(todo) ELSE QueriesAbout(order)
        /\ stage' = IF todo' = <<>> THEN "filtering" ELSE "reading"
        /\ UNCHANGED <<request, source, added, complete>>
  BY DEF ReadTables
<1>2. /\ stage = "reading" /\ todo # <<>> /\ Head(todo).query = "tables"
      /\ InOrder(todo) /\ Awaited(database, Head(todo)) /\ DOMAIN database = Fields
      /\ dialect \in Dialects /\ IsCatalogue(catalogue)
  BY <1>1, AsksFacts
<1>3. /\ Tellable' = Tellable /\ Read' = Read
      /\ dialect' = dialect /\ catalogue' = catalogue /\ alterations' = alterations
      /\ complete' = complete
  BY <1>1, TellableStays
<1>4. /\ e.constraint = database.constraint /\ e.foreignKeys = database.foreignKeys
      /\ e.indexes = database.indexes /\ e.identity = database.identity
  BY <1>2 DEF Fields
<1>5. DOMAIN database.columns = {}
  BY <1>2 DEF Awaited
<1>6. dialect = "sqlite" => listed = Read
  BY DEF Read, InScope, Schemas
<1>7. IsFiniteSet(listed)
  <2>1. IsFiniteSet(DOMAIN catalogue.columns)
    BY <1>2 DEF IsCatalogue
  <2> QED
    BY <2>1, FS_Subset
<1> HIDE DEF own, schemas, listed, e
<1> SUFFICES ASSUME alterations = 0, Tellable
             PROVE  /\ Sound(e, catalogue, dialect)
                    /\ IdentityLast(todo', dialect)
                    /\ \A query \in Telling(dialect), table \in Read :
                         \/ stage' = "reading" /\ Pending(todo', dialect, query, table)
                         \/ Told(e, catalogue, dialect, complete, query, table)
  BY <1>1, <1>3 DEF Truthful
<1>8. /\ Sound(database, catalogue, dialect) /\ IdentityLast(todo, dialect)
      /\ \A query \in Telling(dialect), table \in Read :
           \/ Pending(todo, dialect, query, table)
           \/ Told(database, catalogue, dialect, complete, query, table)
  BY <1>2 DEF Truthful
<1>9. Sound(e, catalogue, dialect)
  BY <1>4, <1>8 DEF Sound
<1>10. CASE dialect # "sqlite"
  <2>1. todo' = Tail(todo)
    BY <1>1, <1>10
  <2>2. IdentityLast(Tail(todo), dialect)
    BY <1>2, <1>8, IdentityStaysLast
  <2>3. ASSUME NEW query \in Telling(dialect), NEW table \in Read,
               Pending(todo, dialect, query, table)
        PROVE  stage' = "reading" /\ Pending(Tail(todo), dialect, query, table)
    <3>1. PICK i \in 1..Len(todo) : todo[i].query = query /\ About(todo[i], table)
      BY <1>10, <2>3 DEF Pending
    <3>2. todo[i] # Head(todo)
      BY <1>2, <3>1 DEF Telling
    <3>3. PICK j \in 1..Len(Tail(todo)) : todo[i] = Tail(todo)[j]
      BY <1>2, <3>2, Asking
    <3>4. Tail(todo) # <<>>
      <4>1. Len(<<>>) = 0
        OBVIOUS
      <4> QED
        BY <4>1
    <3> QED
      BY <1>1, <2>1, <3>1, <3>3, <3>4 DEF Pending
  <2>4. ASSUME NEW query \in Telling(dialect), NEW table \in Read,
               Told(database, catalogue, dialect, complete, query, table)
        PROVE  Told(e, catalogue, dialect, complete, query, table)
    <3>1. query # "columns"
      BY <1>5, <2>4 DEF Told
    <3>2. HasKeys(database, catalogue, table) => HasKeys(e, catalogue, table)
      BY <1>4 DEF HasKeys
    <3>3. HasIdentity(database, catalogue, table) => HasIdentity(e, catalogue, table)
      BY <1>4 DEF HasIdentity
    <3> QED
      BY <1>4, <2>4, <3>1, <3>2, <3>3 DEF Told
  <2> QED
    BY <1>8, <1>9, <2>1, <2>2, <2>3, <2>4
<1>11. CASE dialect = "sqlite"
  <2>1. order \in SetToSeqs(listed) /\ todo' = QueriesAbout(order)
    BY <1>1, <1>11
  <2>2. /\ Len(order) \in Nat
        /\ \A i, j \in 1..Len(order) : i # j => order[i] # order[j]
        /\ \A table \in listed : \E k \in 1..Len(order) : order[k] = table
    <3>1. /\ Cardinality(listed) \in Nat /\ Len(order) = Cardinality(listed)
          /\ \A i, j \in 1..Len(order) : i # j => order[i] # order[j]
          /\ \A table \in listed : \E k \in 1..Len(order) : order[k] = table
      BY <1>7, <2>1, EveryElement
    <3> QED
      BY <3>1
  <2>3. /\ Len(QueriesAbout(order)) = 3 * Len(order)
        /\ \A i \in 1..(3 * Len(order)) :
             QueriesAbout(order)[i].query \in {"columns", "indexes", "foreign keys"}
    BY <2>2, QueriesAboutInOrder
  <2>4. IdentityLast(todo', dialect)
    <3>1. \A i \in 1..Len(todo') : todo'[i].query # "identity"
      BY <2>1, <2>3
    <3> QED
      BY <3>1 DEF IdentityLast
  <2>5. ASSUME NEW query \in Telling(dialect), NEW table \in Read
        PROVE  stage' = "reading" /\ Pending(todo', dialect, query, table)
    <3>1. query \in {"columns", "indexes", "foreign keys"}
      BY <1>11 DEF Telling
    <3>2. PICK k \in 1..Len(order) : order[k] = table
      BY <1>6, <1>11, <2>2
    <3>3. PICK p \in {1, 2, 3} : SQLite!QueriesOfTable[p] = query
      BY <3>1 DEF SQLite!QueriesOfTable
    <3>4. PICK i \in 1..Len(QueriesAbout(order)) :
            QueriesAbout(order)[i].query = query /\ QueriesAbout(order)[i].of = {table}
      <4>1. AsksAbout(QueriesAbout(order), SQLite!QueriesOfTable[p], order[k])
        BY <2>2, QueriesAboutCover
      <4> QED
        BY <3>2, <3>3, <4>1 DEF AsksAbout
    <3>5. i \in 1..Len(todo') /\ todo'[i].query = query /\ About(todo'[i], table)
      BY <2>1, <3>4 DEF About
    <3>6. todo' # <<>>
      <4>1. Len(<<>>) = 0
        OBVIOUS
      <4> QED
        BY <3>5, <4>1
    <3> QED
      BY <1>1, <3>5, <3>6 DEF Pending
  <2> QED
    BY <1>9, <2>4, <2>5
<1> QED
  BY <1>10, <1>11

(* A list with everything that tells something, the identity columns last  *)
(* where that matters.                                                     *)
IsComplete(names, of) ==
  /\ \A query \in Telling(of) : \E i \in 1..Len(names) :
       names[i] = query \/ (of = "sqlite" /\ names[i] = "tables")
  /\ \A i \in 1..Len(names) : names[i] = "identity" =>
       of \in {"mssql", "oracle"} /\ (of = "oracle" => i = Len(names))

(* The queries each reader starts with are such a list.                    *)
LEMMA QueriesAreComplete ==
  ASSUME dialect \in Dialects
  PROVE  IsComplete(Queries, dialect)
<1>1. CASE dialect = "postgres"
  <2>1. /\ Len(Queries) = 5
        /\ Queries[1] = "tables"
        /\ Queries[2] = "columns"
        /\ Queries[3] = "constraints"
        /\ Queries[4] = "foreign keys"
        /\ Queries[5] = "indexes"
    BY <1>1 DEF Queries, Postgres!Queries
  <2>2. \A i \in 1..5 : i = 1 \/ i = 2 \/ i = 3 \/ i = 4 \/ i = 5
    OBVIOUS
  <2>3. \A query \in Telling(dialect) : \E i \in 1..5 :
          Queries[i] = query \/ (dialect = "sqlite" /\ Queries[i] = "tables")
    <3>1. 2 \in 1..5 /\ 3 \in 1..5 /\ 4 \in 1..5 /\ 5 \in 1..5
      OBVIOUS
    <3>2. \A query \in Telling(dialect) :
            query \in {Queries[2], Queries[3], Queries[4], Queries[5]}
      BY <1>1, <2>1 DEF Telling
    <3> QED
      BY <3>1, <3>2
  <2>4. \A i \in 1..5 : Queries[i] = "identity" =>
          dialect \in {"mssql", "oracle"} /\ (dialect = "oracle" => i = 5)
    BY <1>1, <2>1, <2>2
  <2> QED
    BY <2>1, <2>3, <2>4 DEF IsComplete
<1>2. CASE dialect = "mysql"
  <2>1. /\ Len(Queries) = 5
        /\ Queries[1] = "tables"
        /\ Queries[2] = "columns"
        /\ Queries[3] = "constraints"
        /\ Queries[4] = "foreign keys"
        /\ Queries[5] = "indexes"
    BY <1>2 DEF Queries, MySQL!Queries
  <2>2. \A i \in 1..5 : i = 1 \/ i = 2 \/ i = 3 \/ i = 4 \/ i = 5
    OBVIOUS
  <2>3. \A query \in Telling(dialect) : \E i \in 1..5 :
          Queries[i] = query \/ (dialect = "sqlite" /\ Queries[i] = "tables")
    <3>1. 2 \in 1..5 /\ 3 \in 1..5 /\ 4 \in 1..5 /\ 5 \in 1..5
      OBVIOUS
    <3>2. \A query \in Telling(dialect) :
            query \in {Queries[2], Queries[3], Queries[4], Queries[5]}
      BY <1>2, <2>1 DEF Telling
    <3> QED
      BY <3>1, <3>2
  <2>4. \A i \in 1..5 : Queries[i] = "identity" =>
          dialect \in {"mssql", "oracle"} /\ (dialect = "oracle" => i = 5)
    BY <1>2, <2>1, <2>2
  <2> QED
    BY <2>1, <2>3, <2>4 DEF IsComplete
<1>3. CASE dialect = "mssql"
  <2>1. /\ Len(Queries) = 8
        /\ Queries[1] = "schemas"
        /\ Queries[2] = "tables"
        /\ Queries[3] = "columns"
        /\ Queries[4] = "computed columns"
        /\ Queries[5] = "identity"
        /\ Queries[6] = "constraints"
        /\ Queries[7] = "foreign keys"
        /\ Queries[8] = "indexes"
    BY <1>3 DEF Queries, MSSQL!Queries
  <2>2. \A i \in 1..8 : i = 1 \/ i = 2 \/ i = 3 \/ i = 4 \/ i = 5 \/ i = 6 \/ i = 7 \/ i = 8
    OBVIOUS
  <2>3. \A query \in Telling(dialect) : \E i \in 1..8 :
          Queries[i] = query \/ (dialect = "sqlite" /\ Queries[i] = "tables")
    <3>1. 3 \in 1..8 /\ 5 \in 1..8 /\ 6 \in 1..8 /\ 7 \in 1..8 /\ 8 \in 1..8
      OBVIOUS
    <3>2. \A query \in Telling(dialect) :
            query \in {Queries[3], Queries[5], Queries[6], Queries[7], Queries[8]}
      BY <1>3, <2>1 DEF Telling
    <3> QED
      BY <3>1, <3>2
  <2>4. \A i \in 1..8 : Queries[i] = "identity" =>
          dialect \in {"mssql", "oracle"} /\ (dialect = "oracle" => i = 8)
    BY <1>3, <2>1, <2>2
  <2> QED
    BY <2>1, <2>3, <2>4 DEF IsComplete
<1>4. CASE dialect = "oracle"
  <2>1. /\ Len(Queries) = 7
        /\ Queries[1] = "schemas"
        /\ Queries[2] = "tables"
        /\ Queries[3] = "columns"
        /\ Queries[4] = "constraints"
        /\ Queries[5] = "foreign keys"
        /\ Queries[6] = "indexes"
        /\ Queries[7] = "identity"
    BY <1>4 DEF Queries, Oracle!Queries
  <2>2. \A i \in 1..7 : i = 1 \/ i = 2 \/ i = 3 \/ i = 4 \/ i = 5 \/ i = 6 \/ i = 7
    OBVIOUS
  <2>3. \A query \in Telling(dialect) : \E i \in 1..7 :
          Queries[i] = query \/ (dialect = "sqlite" /\ Queries[i] = "tables")
    <3>1. 3 \in 1..7 /\ 4 \in 1..7 /\ 5 \in 1..7 /\ 6 \in 1..7 /\ 7 \in 1..7
      OBVIOUS
    <3>2. \A query \in Telling(dialect) :
            query \in {Queries[3], Queries[4], Queries[5], Queries[6], Queries[7]}
      BY <1>4, <2>1 DEF Telling
    <3> QED
      BY <3>1, <3>2
  <2>4. \A i \in 1..7 : Queries[i] = "identity" =>
          dialect \in {"mssql", "oracle"} /\ (dialect = "oracle" => i = 7)
    BY <1>4, <2>1, <2>2
  <2> QED
    BY <2>1, <2>3, <2>4 DEF IsComplete
<1>5. CASE dialect = "sqlite"
  <2>1. /\ Len(Queries) = 1
        /\ Queries[1] = "tables"
    BY <1>5 DEF Queries, SQLite!Queries
  <2>2. \A i \in 1..1 : i = 1
    OBVIOUS
  <2>3. \A query \in Telling(dialect) : \E i \in 1..1 :
          Queries[i] = query \/ (dialect = "sqlite" /\ Queries[i] = "tables")
    <3>1. 1 \in 1..1
      OBVIOUS
    <3> QED
      BY <1>5, <2>1, <3>1
  <2>4. \A i \in 1..1 : Queries[i] = "identity" =>
          dialect \in {"mssql", "oracle"} /\ (dialect = "oracle" => i = 1)
    BY <1>5, <2>1, <2>2
  <2> QED
    BY <2>1, <2>3, <2>4 DEF IsComplete
<1> QED
  BY <1>1, <1>2, <1>3, <1>4, <1>5 DEF Dialects

(* A reader starts with nothing told, and everything to be asked.          *)
LEMMA InitTells == Init => Truthful
<1> SUFFICES ASSUME Init PROVE Truthful
  OBVIOUS
<1>1. /\ dialect \in Dialects /\ stage = "reading" /\ database = EmptyDatabase
      /\ todo = [i \in 1..Len(Queries) |-> [query |-> Queries[i], of |-> {}]]
  BY DEF Init
<1>2. Sound(database, catalogue, dialect)
  <2>1. DOMAIN <<>> = {}
    OBVIOUS
  <2> QED
    BY <1>1, <2>1 DEF Sound, EmptyDatabase
<1>3. IsComplete(Queries, dialect)
  BY <1>1, QueriesAreComplete
<1>4. /\ Len(todo) = Len(Queries)
      /\ \A i \in 1..Len(todo) : todo[i].query = Queries[i] /\ todo[i].of = {}
  <2>1. Len(Queries) \in Nat
    BY <1>1, QueriesAreList DEF IsList
  <2> QED
    BY <1>1, <2>1
<1>5. IdentityLast(todo, dialect)
  BY <1>3, <1>4 DEF IsComplete, IdentityLast
<1>6. ASSUME NEW query \in Telling(dialect), NEW table \in Read
      PROVE  Pending(todo, dialect, query, table)
  BY <1>3, <1>4 DEF IsComplete, Pending, About
<1> QED
  BY <1>1, <1>2, <1>5, <1>6 DEF Truthful

(* The other steps read nothing.                                           *)
LEMMA OthersTell ==
  ASSUME Whole, Truthful,
         AlterSource \/ Filter \/ MaterializeView \/ ViewFails \/ ViewsDone \/ UNCHANGED vars
  PROVE  Truthful'
<1>1. CASE AlterSource
  <2>1. alterations \in Nat /\ alterations' = alterations + 1
    BY <1>1, Given DEF AlterSource, Whole, Course
  <2>2. alterations' # 0
    BY <2>1
  <2> QED
    BY <2>2 DEF Truthful
<1>2. CASE Filter
  <2>1. stage' = "views"
    BY <1>2 DEF Filter
  <2> QED
    BY <2>1 DEF Truthful
<1>3. CASE MaterializeView \/ ViewFails \/ ViewsDone
  <2>1. stage' \in {"views", "view failed", "done"}
    BY <1>3 DEF MaterializeView, ViewFails, ViewsDone
  <2> QED
    BY <2>1 DEF Truthful
<1>4. CASE UNCHANGED vars
  <2>1. /\ UNCHANGED <<request, source>>
        /\ todo' = todo /\ stage' = stage /\ complete' = complete /\ database' = database
    BY <1>4 DEF vars
  <2>2. /\ Tellable' = Tellable /\ Read' = Read
        /\ dialect' = dialect /\ catalogue' = catalogue /\ alterations' = alterations
    BY <2>1, TellableStays
  <2> QED
    BY <2>1, <2>2 DEF Truthful
<1> QED
  BY <1>1, <1>2, <1>3, <1>4

(* Every step tells the truth.                                             *)
LEMMA NextTells == Whole /\ Truthful /\ [Next]_vars => Truthful'
<1> SUFFICES ASSUME Whole, Truthful, [Next]_vars PROVE Truthful'
  OBVIOUS
<1>1. CASE Ended
  BY <1>1, OthersTell DEF Ended
<1>2. CASE AlterSource \/ Filter \/ MaterializeView \/ ViewFails \/ ViewsDone \/ UNCHANGED vars
  BY <1>2, OthersTell
<1> QED
  BY <1>1, <1>2, SchemasTell, TablesTell, ColumnsTell, ComputedColumnsTell, IdentityTells,
     ConstraintsTell, ForeignKeysTell, IndexesTell, FailureTells DEF Next

(* So it always is told.                                                   *)
LEMMA AlwaysTruthful == Spec => []Truthful
BY InitTells, NextTells, AlwaysWhole, PTL DEF Spec

(* When nothing is to be asked any more all is told.                       *)
LEMMA AllTold ==
  ASSUME Whole, Truthful, stage = "filtering", alterations = 0, Tellable
  PROVE  FaithfulMetadata
<1>1. /\ Sound(database, catalogue, dialect)
      /\ \A query \in Telling(dialect), table \in Read :
           Told(database, catalogue, dialect, complete, query, table)
  BY DEF Truthful
<1>2. /\ Tables = Read /\ Fits(database) /\ dialect \in Dialects
      /\ IsCatalogue(catalogue) /\ KeepsReferences(catalogue)
  <2>1. Tables = Read /\ Fits(database) /\ dialect \in Dialects
    BY DEF Whole, Selected, Course
  <2>2. IsCatalogue(catalogue) /\ KeepsReferences(catalogue)
    BY Given, ReferencesAssumption DEF Whole, Course
  <2> QED
    BY <2>1, <2>2
<1>3. \A table \in Read :
        /\ database.columns[table] = catalogue.columns[table]
        /\ HasKeys(database, catalogue, table)
        /\ dialect # "sqlite" /\ complete => HasIdentity(database, catalogue, table)
  <2> SUFFICES ASSUME NEW table \in Read
               PROVE  /\ database.columns[table] = catalogue.columns[table]
                      /\ HasKeys(database, catalogue, table)
                      /\ dialect # "sqlite" /\ complete => HasIdentity(database, catalogue, table)
    OBVIOUS
  <2>1. Told(database, catalogue, dialect, complete, "columns", table)
    BY <1>1 DEF Telling
  <2>2. dialect # "sqlite" => Told(database, catalogue, dialect, complete, "constraints", table)
    BY <1>1 DEF Telling
  <2>3. dialect \in {"mssql", "oracle"} =>
          Told(database, catalogue, dialect, complete, "identity", table)
    BY <1>1 DEF Telling
  <2>4. dialect \in {"postgres", "mysql", "mssql", "oracle", "sqlite"}
    BY <1>2 DEF Dialects
  <2>5. database.columns[table] = catalogue.columns[table]
    BY <2>1 DEF Told
  <2>6. HasKeys(database, catalogue, table)
    BY <2>1, <2>2 DEF Told
  <2>7. dialect # "sqlite" /\ complete => HasIdentity(database, catalogue, table)
    BY <2>1, <2>3, <2>4 DEF Told
  <2> QED
    BY <2>5, <2>6, <2>7
<1>4. \A table \in Read : \A reference \in catalogue.references :
        reference.table = table => Declared(reference) \in database.foreignKeys
  <2> DEFINE query == "foreign keys"
  <2>1. query = "foreign keys" /\ query \in Telling(dialect)
    BY DEF Telling
  <2> HIDE DEF query
  <2>2. \A table \in Read : Told(database, catalogue, dialect, complete, query, table)
    BY <1>1, <2>1
  <2> QED
    BY <2>1, <2>2 DEF Told
<1>5. \A table \in Read : \A index \in catalogue.indexes :
        index.table = table /\ ~index.unique => Entered(index) \in database.indexes
  <2>1. "indexes" \in Telling(dialect)
    BY DEF Telling
  <2>2. \A table \in Read : Told(database, catalogue, dialect, complete, "indexes", table)
    BY <1>1, <2>1
  <2> QED
    BY <2>2 DEF Told
<1>6. PrimaryKeys(database.constraint) =
        UNION {{key.table} \X Elements(key.columns) :
               key \in {key \in catalogue.keys : key.kind = "PRIMARY KEY" /\ InScope(key.table)}}
  <2> DEFINE declared == {key \in catalogue.keys : key.kind = "PRIMARY KEY" /\ InScope(key.table)}
             places == UNION {{key.table} \X Elements(key.columns) : key \in declared}
  <2>1. ASSUME NEW place \in PrimaryKeys(database.constraint) PROVE place \in places
    <3>1. place \in DOMAIN database.constraint /\ database.constraint[place] = "PRIMARY KEY"
      BY DEF PrimaryKeys
    <3>2. PICK key \in catalogue.keys :
            place \in {key.table} \X Elements(key.columns) /\ database.constraint[place] = key.kind
      BY <1>1, <3>1 DEF Sound
    <3>3. place[1] \in Read
      BY <1>2, <3>1 DEF Fits, Has, Tables
    <3>4. place[1] = key.table
      BY <3>2
    <3>5. key \in declared
      BY <3>1, <3>2, <3>3, <3>4 DEF Read
    <3> HIDE DEF declared
    <3> QED
      BY <3>2, <3>5
  <2>2. ASSUME NEW key \in declared, NEW place \in {key.table} \X Elements(key.columns)
        PROVE  place \in PrimaryKeys(database.constraint)
    <3>1. key \in catalogue.keys /\ key.kind = "PRIMARY KEY" /\ key.table \in Read
      BY <1>2 DEF KeepsReferences, Read
    <3>2. place \in DOMAIN database.constraint
      BY <1>3, <3>1 DEF HasKeys
    <3>3. PICK other \in catalogue.keys :
            /\ place \in {other.table} \X Elements(other.columns)
            /\ database.constraint[place] = other.kind
      BY <1>1, <3>2 DEF Sound
    <3>4. /\ place[1] = key.table /\ place[2] \in Elements(key.columns)
          /\ place[1] = other.table /\ place[2] \in Elements(other.columns)
      BY <3>3
    <3>5. other.kind = key.kind
      BY <3>1, <3>4 DEF Tellable, ColumnsHaveOneKey
    <3> QED
      BY <3>1, <3>2, <3>3, <3>5 DEF PrimaryKeys
  <2> HIDE DEF declared
  <2>3. PrimaryKeys(database.constraint) = places
    BY <2>1, <2>2
  <2> QED
    BY <2>3 DEF declared
<1>7. database.foreignKeys =
        {[table |-> reference.table, name |-> reference.name, columns |-> reference.columns,
          refTable |-> reference.key.table, refColumns |-> reference.refs] :
         reference \in {reference \in catalogue.references : InScope(reference.table)}}
  <2> DEFINE declared == {reference \in catalogue.references : InScope(reference.table)}
  <2>1. ASSUME NEW reference \in database.foreignKeys
        PROVE  \E of \in declared : reference = Declared(of)
    <3>1. PICK of \in catalogue.references : reference = Declared(of)
      BY <1>1 DEF Sound
    <3>2. reference.table \in Read
      BY <1>2, KeyHasTable DEF Fits, Tables
    <3>3. reference.table = of.table
      BY <3>1 DEF Declared
    <3> QED
      BY <3>1, <3>2, <3>3 DEF Read
  <2>2. ASSUME NEW of \in declared PROVE Declared(of) \in database.foreignKeys
    <3>1. of.table \in Read
      BY <1>2 DEF KeepsReferences, Read
    <3> QED
      BY <1>4, <3>1
  <2> HIDE DEF declared
  <2>3. database.foreignKeys = {Declared(of) : of \in declared}
    BY <2>1, <2>2
  <2> QED
    BY <2>3 DEF declared, Declared
<1>8. \A index \in {index \in catalogue.indexes : InScope(index.table) /\ ~index.unique} :
        [table |-> index.table, name |-> index.name, columns |-> index.columns] \in database.indexes
  BY <1>2, <1>5 DEF KeepsReferences, Read, Entered
<1>9. (dialect # "sqlite" /\ complete) =>
        database.identity = {place \in catalogue.identity : InScope(place[1])}
  <2> SUFFICES ASSUME dialect # "sqlite", complete
               PROVE  database.identity = {place \in catalogue.identity : InScope(place[1])}
    OBVIOUS
  <2>1. ASSUME NEW place \in database.identity
        PROVE  place \in catalogue.identity /\ InScope(place[1])
    <3>1. place[1] \in Read
      BY <1>2 DEF Fits, Has, Tables
    <3> QED
      BY <1>1, <3>1 DEF Sound, Read
  <2>2. ASSUME NEW place \in catalogue.identity, InScope(place[1])
        PROVE  place \in database.identity
    <3>1. place[1] \in Read
      BY <1>2, <2>2 DEF KeepsReferences, Read
    <3> QED
      BY <1>3, <3>1 DEF HasIdentity
  <2> QED
    BY <2>1, <2>2
<1>10. \A table \in Tables : database.columns[table] = catalogue.columns[table]
  BY <1>2, <1>3
<1> QED
  BY <1>2, <1>6, <1>7, <1>8, <1>9, <1>10 DEF FaithfulMetadata

(* FaithfulMetadata: whatever the order in which rows arrive, what the     *)
(* reader of each dialect has put into the Database when the last query is *)
(* answered is what the source declares, where the answers tell it.        *)
THEOREM ReadsWhatIsDeclared == Spec => []FaithfulMetadata
<1>1. Whole /\ Truthful => FaithfulMetadata
  <2> SUFFICES ASSUME Whole, Truthful, stage = "filtering", alterations = 0, Tellable
               PROVE  FaithfulMetadata
    BY DEF FaithfulMetadata
  <2> QED
    BY AllTold
<1> QED
  BY <1>1, AlwaysWhole, AlwaysTruthful, PTL
=============================================================================
