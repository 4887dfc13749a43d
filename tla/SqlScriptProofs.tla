-------------------------- MODULE SqlScriptProofs ---------------------------
(***************************************************************************)
(* What the script of a load does to the target, for every source, mode    *)
(* and target: a prefix of it that the server accepts leaves a database    *)
(* that can be told from the statements of the prefix (Effect); the whole  *)
(* of it leaves the rows, keys and indexes of the source (Faithful); on    *)
(* the targets a mode is meant for no statement of it is refused; and it   *)
(* has the outcome of the script of a dump (SameOutcome).                  *)
(*                                                                         *)
(* The proofs look at a script through the set of its statements and the   *)
(* pairs of statements of which the first may come before the second; the  *)
(* last of them follow it statement by statement (Continued).              *)
(***************************************************************************)
EXTENDS SqlScript, SequenceTheorems, FiniteSetTheorems, WellFoundedInduction, TLAPS

(* The statements of a script, in no order.                                *)
Statements(s) == {s[i] : i \in 1..Len(s)}

IsScript(s) == s \in Seq(Statements(s))

(* The stages of a load.                                                   *)
Rank(s) ==
  CASE s.kind = "schema" -> 0
    [] s.kind = "drop" -> 1
    [] s.kind \in {"truncate", "reseed"} -> 2
    [] s.kind = "create" -> 3
    [] s.kind \in {"load", "nothing"} -> 4
    [] s.kind = "key" -> 5
    [] s.kind = "index" -> 6

(* Statement a may come somewhere before statement b: an earlier stage; or *)
(* the same one, but no table or index is created twice, no parent dropped *)
(* before its child, no row loaded twice, no table loaded before those     *)
(* that the source lists before it.                                        *)
MayPrecede(refs, a, b) ==
  /\ Rank(a) <= Rank(b)
  /\ (a.kind \in {"create", "index"} /\ b.kind = a.kind) => a # b
  /\ (a.kind = "drop" /\ b.kind = "drop" /\ Blocked(refs) = {}) =>
       \A c, p \in Tables :
         (a = DropTable(EmittedName[p]) /\ b = DropTable(EmittedName[c]) /\ p \in refs[c]) => c = p
  /\ (a.kind = "load" /\ b.kind = "load") =>
       /\ a.table = b.table => a.rows \cap b.rows = {}
       /\ \A i, j \in 1..Len(Source) :
            (a.table = EmittedName[Source[i]] /\ b.table = EmittedName[Source[j]]) => i <= j

Ordered(refs, s) ==
  \A i, j \in 1..Len(s) : i < j => MayPrecede(refs, s[i], s[j])

(* What the statements of a set do, whatever their order.                  *)
SchemasOf(D)     == {s.schema : s \in {d \in D : d.kind = "schema"}}
DroppedBy(D)     == {s.table : s \in {d \in D : d.kind = "drop"}}
TruncatedBy(D)   == UNION {s.tables : s \in {d \in D : d.kind = "truncate"}}
CreatedBy(D)     == {s.table : s \in {d \in D : d.kind = "create"}}
LoadedBy(D, n)   == UNION {s.rows : s \in {d \in D : d.kind = "load" /\ d.table = n}}
IdentitiesOf(D)  == {s.table : s \in {d \in D : d.kind = "create" /\ d.identity}}
KeysOf(D)        == {<<s.table, s.parent>> : s \in {d \in D : d.kind = "key"}}
IndexesOf(D)     == {<<s.table, s.index>> : s \in {d \in D : d.kind = "index"}}

(* db is what the statements D, accepted in an order that Ordered allows,  *)
(* make of the database before.                                            *)
Effect(before, D, db) ==
  /\ db.schemas = before.schemas \cup SchemasOf(D)
  /\ Existing(db) = (Existing(before) \ DroppedBy(D)) \cup CreatedBy(D)
  /\ \A n \in Existing(db) :
       db.rows[n] = (IF n \in CreatedBy(D) \cup TruncatedBy(D) THEN {} ELSE before.rows[n])
                    \cup LoadedBy(D, n)
  /\ db.keys = {key \in before.keys : key[1] \notin DroppedBy(D)} \cup KeysOf(D)
  /\ db.indexes = {index \in before.indexes : index[1] \notin DroppedBy(D)} \cup IndexesOf(D)
  /\ db.identity = (before.identity \ DroppedBy(D)) \cup IdentitiesOf(D)
  /\ CreatedBy(D) \cap (Existing(before) \ DroppedBy(D)) = {}
  /\ TruncatedBy(D) \subseteq Existing(db)

-----------------------------------------------------------------------------
(* Sequences of statements.                                                *)

(* Every set of numbers has a least one.                                   *)
LEMMA Least ==
  ASSUME NEW T, T \subseteq Nat, T # {}
  PROVE  \E x \in T : \A y \in T : x <= y
<1>1. PICK x \in T : \A y \in T : <<y, x>> \notin OpToRel(<, Nat)
  BY NatLessThanWellFounded, WFMin
<1>2. \A y \in T : ~(y < x)
  BY <1>1 DEF OpToRel
<1> QED
  BY <1>2

(* Induction, over a set of numbers.                                       *)
LEMMA Induction ==
  ASSUME NEW S, 0 \in S, \A n \in Nat : n \in S => n + 1 \in S
  PROVE  Nat \subseteq S
<1> SUFFICES ASSUME Nat \ S # {} PROVE FALSE
  OBVIOUS
<1>1. PICK x \in Nat \ S : \A y \in Nat \ S : x <= y
  BY Least
<1>2. x - 1 \in Nat /\ x - 1 \notin Nat \ S
  BY <1>1
<1> QED
  BY <1>1, <1>2

(* What is listed by its indices is a script.                              *)
LEMMA Listing ==
  ASSUME NEW n \in Nat, NEW f, f = [i \in 1..n |-> f[i]]
  PROVE  /\ IsScript(f)
         /\ Len(f) = n
         /\ Statements(f) = {f[i] : i \in 1..n}
<1> DEFINE T == {f[i] : i \in 1..n}
<1>1. f \in Seq(T)
  OBVIOUS
<1>2. Len(f) = n
  OBVIOUS
<1> QED
  BY <1>1, <1>2 DEF IsScript, Statements

(* The parts of a script keep their order when they are put together.      *)
LEMMA Concatenation ==
  ASSUME NEW refs, NEW s, NEW u, IsScript(s), IsScript(u)
  PROVE  /\ IsScript(s \o u)
         /\ Statements(s \o u) = Statements(s) \cup Statements(u)
         /\ (/\ Ordered(refs, s) /\ Ordered(refs, u)
             /\ \A a \in Statements(s), b \in Statements(u) : MayPrecede(refs, a, b))
            => Ordered(refs, s \o u)
<1> DEFINE T == Statements(s) \cup Statements(u)
<1>1. s \in Seq(T) /\ u \in Seq(T)
  BY SeqMonotonic DEF IsScript
<1>2. /\ Len(s) \in Nat /\ Len(u) \in Nat
      /\ s \o u \in Seq(T)
      /\ Len(s \o u) = Len(s) + Len(u)
      /\ \A i \in 1..(Len(s) + Len(u)) :
           (s \o u)[i] = IF i <= Len(s) THEN s[i] ELSE u[i - Len(s)]
  BY <1>1, ConcatProperties, LenProperties
<1>3. Statements(s \o u) = T
  <2>1. ASSUME NEW i \in 1..Len(s) PROVE s[i] \in Statements(s \o u)
    <3>1. i \in 1..(Len(s) + Len(u)) /\ (s \o u)[i] = s[i]
      BY <1>2
    <3> QED
      BY <1>2, <3>1 DEF Statements
  <2>2. ASSUME NEW i \in 1..Len(u) PROVE u[i] \in Statements(s \o u)
    <3>1. i + Len(s) \in 1..(Len(s) + Len(u)) /\ (s \o u)[i + Len(s)] = u[i]
      BY <1>2
    <3> QED
      BY <1>2, <3>1 DEF Statements
  <2>3. ASSUME NEW i \in 1..Len(s \o u) PROVE (s \o u)[i] \in T
    BY <1>2, ElementOfSeq
  <2> QED
    BY <2>1, <2>2, <2>3 DEF Statements
<1>4. IsScript(s \o u)
  BY <1>2, <1>3 DEF IsScript
<1>5. ASSUME Ordered(refs, s), Ordered(refs, u),
             \A a \in Statements(s), b \in Statements(u) : MayPrecede(refs, a, b)
      PROVE  Ordered(refs, s \o u)
  <2> SUFFICES ASSUME NEW i \in 1..(Len(s) + Len(u)), NEW j \in 1..(Len(s) + Len(u)), i < j
               PROVE  MayPrecede(refs, (s \o u)[i], (s \o u)[j])
    BY <1>2 DEF Ordered
  <2>1. CASE j <= Len(s)
    BY <1>2, <1>5, <2>1 DEF Ordered
  <2>2. CASE i > Len(s)
    <3>1. /\ i - Len(s) \in 1..Len(u) /\ j - Len(s) \in 1..Len(u)
          /\ i - Len(s) < j - Len(s)
      BY <1>2, <2>2
    <3>2. MayPrecede(refs, u[i - Len(s)], u[j - Len(s)])
      BY <1>5, <3>1 DEF Ordered
    <3> QED
      BY <1>2, <2>2, <3>2
  <2>3. CASE i <= Len(s) /\ j > Len(s)
    <3>1. i \in 1..Len(s) /\ j - Len(s) \in 1..Len(u)
      BY <1>2, <2>3
    <3>2. MayPrecede(refs, s[i], u[j - Len(s)])
      BY <1>5, <3>1 DEF Statements
    <3> QED
      BY <1>2, <2>3, <3>2
  <2> QED
    BY <1>2, <2>1, <2>2, <2>3
<1> QED
  BY <1>3, <1>4, <1>5

(* f holds the results of putting together the first scripts of ss.        *)
Flattens(n, ss, f) == f = [i \in 1..n |-> IF i = 1 THEN ss[i] ELSE f[i - 1] \o ss[i]]

(* One more script can be put at the end.                                  *)
LEMMA FlattenStep ==
  ASSUME NEW ss, NEW n \in Nat, NEW f, Flattens(n, ss, f)
  PROVE  \E g : Flattens(n + 1, ss, g)
<1> DEFINE g == [i \in 1..(n + 1) |-> IF i = 1 THEN ss[i] ELSE f[i - 1] \o ss[i]]
<1>1. ASSUME NEW i \in 1..n PROVE g[i] = f[i]
  <2>1. f[i] = IF i = 1 THEN ss[i] ELSE f[i - 1] \o ss[i]
    BY DEF Flattens
  <2>2. i \in 1..(n + 1)
    OBVIOUS
  <2> QED
    BY <2>1, <2>2
<1>2. g = [i \in 1..(n + 1) |-> g[i]]
  OBVIOUS
<1>3. \A i \in 1..(n + 1) : g[i] = IF i = 1 THEN ss[i] ELSE f[i - 1] \o ss[i]
  OBVIOUS
<1> HIDE DEF g
<1>4. ASSUME NEW i \in 1..(n + 1)
      PROVE  g[i] = IF i = 1 THEN ss[i] ELSE g[i - 1] \o ss[i]
  <2>1. CASE i = 1
    BY <1>3, <2>1
  <2>2. CASE i # 1
    <3>1. i - 1 \in 1..n
      BY <2>2
    <3>2. g[i - 1] = f[i - 1]
      BY <1>1, <3>1
    <3> QED
      BY <1>3, <2>2, <3>2
  <2> QED
    BY <2>1, <2>2
<1>5. g = [i \in 1..(n + 1) |-> IF i = 1 THEN ss[i] ELSE g[i - 1] \o ss[i]]
  BY <1>2, <1>4
<1> QED
  BY <1>5 DEF Flattens

(* FlattenSeq puts all of them together.                                   *)
LEMMA FlattenExists ==
  ASSUME NEW ss, Len(ss) \in Nat \ {0}
  PROVE  \E f : Flattens(Len(ss), ss, f) /\ FlattenSeq(ss) = f[Len(ss)]
<1> DEFINE G == {n \in Nat : \E f : Flattens(n, ss, f)}
<1>1. 0 \in G
  <2>1. Flattens(0, ss, [i \in 1..0 |-> 0])
    BY DEF Flattens
  <2> QED
    BY <2>1
<1>2. \A n \in Nat : n \in G => n + 1 \in G
  BY FlattenStep
<1> HIDE DEF G
<1>3. Nat \subseteq G
  BY <1>1, <1>2, Induction
<1>4. \E f : Flattens(Len(ss), ss, f)
  BY <1>3 DEF G
<1>5. Flattens(Len(ss), ss, CHOOSE f : Flattens(Len(ss), ss, f))
  BY <1>4
<1>6. FlattenSeq(ss) = (CHOOSE f : Flattens(Len(ss), ss, f))[Len(ss)]
  BY DEF FlattenSeq, Flattens
<1> QED
  BY <1>5, <1>6

(* A script made of scripts holds their statements, and keeps their order  *)
(* if each of them and any two of them do.                                 *)
LEMMA Flattening ==
  ASSUME NEW refs, NEW n \in Nat, NEW ss, ss = [i \in 1..n |-> ss[i]],
         \A i \in 1..n : IsScript(ss[i])
  PROVE  /\ IsScript(FlattenSeq(ss))
         /\ Statements(FlattenSeq(ss)) = UNION {Statements(ss[i]) : i \in 1..n}
         /\ (/\ \A i \in 1..n : Ordered(refs, ss[i])
             /\ \A i, j \in 1..n : i < j =>
                  \A a \in Statements(ss[i]), b \in Statements(ss[j]) : MayPrecede(refs, a, b))
            => Ordered(refs, FlattenSeq(ss))
<1>1. Len(ss) = n
  OBVIOUS
<1>2. CASE n = 0
  <2>1. ss = << >> /\ FlattenSeq(ss) = << >>
    BY <1>1, <1>2 DEF FlattenSeq
  <2>2. Len(<< >>) = 0 /\ 1..0 = {}
    OBVIOUS
  <2>3. << >> \in Seq({})
    OBVIOUS
  <2>4. Statements(<< >>) = {}
    BY <2>2 DEF Statements
  <2> QED
    BY <1>2, <2>1, <2>2, <2>3, <2>4 DEF IsScript, Ordered
<1>3. CASE n # 0
  <2>1. PICK f : Flattens(n, ss, f) /\ FlattenSeq(ss) = f[n]
    BY <1>1, <1>3, FlattenExists
  <2>2. \A i \in 1..n : f[i] = IF i = 1 THEN ss[i] ELSE f[i - 1] \o ss[i]
    BY <2>1 DEF Flattens
  <2> DEFINE Pieces(m) == UNION {Statements(ss[i]) : i \in 1..m}
             Kept == /\ \A i \in 1..n : Ordered(refs, ss[i])
                     /\ \A i, j \in 1..n : i < j =>
                          \A a \in Statements(ss[i]), b \in Statements(ss[j]) :
                            MayPrecede(refs, a, b)
             Good(m) == /\ IsScript(f[m])
                        /\ Statements(f[m]) = Pieces(m)
                        /\ Kept => Ordered(refs, f[m])
             G == {m \in Nat : m + 1 \in 1..n => Good(m + 1)}
  <2>3. 0 \in G
    <3>1. f[1] = ss[1] /\ 1 \in 1..n
      BY <1>3, <2>2
    <3>2. Pieces(1) = Statements(ss[1])
      OBVIOUS
    <3> QED
      BY <3>1, <3>2
  <2>4. ASSUME NEW m \in Nat, m \in G PROVE m + 1 \in G
    <3> SUFFICES ASSUME m + 2 \in 1..n PROVE Good(m + 2)
      OBVIOUS
    <3>1. Good(m + 1) /\ m + 1 \in 1..n
      BY <2>4
    <3>2. f[m + 2] = f[m + 1] \o ss[m + 2]
      <4>1. m + 2 \in 1..n /\ m + 2 # 1 /\ (m + 2) - 1 = m + 1
        OBVIOUS
      <4>2. f[m + 2] = f[(m + 2) - 1] \o ss[m + 2]
        BY <2>2, <4>1
      <4> QED
        BY <4>1, <4>2
    <3>3. Pieces(m + 2) = Pieces(m + 1) \cup Statements(ss[m + 2])
      <4>1. 1..(m + 2) = 1..(m + 1) \cup {m + 2}
        OBVIOUS
      <4> QED
        BY <4>1
    <3>4. ASSUME Kept, NEW a \in Statements(f[m + 1]), NEW b \in Statements(ss[m + 2])
          PROVE  MayPrecede(refs, a, b)
      <4>1. PICK i \in 1..(m + 1) : a \in Statements(ss[i])
        BY <3>1
      <4>2. i \in 1..n /\ i < m + 2
        BY <3>1
      <4> QED
        BY <3>4, <4>1, <4>2
    <3>5. IsScript(ss[m + 2]) /\ (Kept => Ordered(refs, ss[m + 2]))
      OBVIOUS
    <3>6. /\ IsScript(f[m + 1] \o ss[m + 2])
          /\ Statements(f[m + 1] \o ss[m + 2]) = Statements(f[m + 1]) \cup Statements(ss[m + 2])
          /\ Kept => Ordered(refs, f[m + 1] \o ss[m + 2])
      <4>1. IsScript(f[m + 1]) /\ (Kept => Ordered(refs, f[m + 1]))
        BY <3>1
      <4> HIDE DEF Kept, Good
      <4> QED
        BY <3>4, <3>5, <4>1, Concatenation
    <3> QED
      BY <3>1, <3>2, <3>3, <3>6
  <2> HIDE DEF G
  <2>5. Nat \subseteq G
    BY <2>3, <2>4, Induction
  <2>6. Good(n)
    <3>1. n - 1 \in Nat /\ (n - 1) + 1 = n /\ n \in 1..n
      BY <1>3
    <3> QED
      BY <2>5, <3>1 DEF G
  <2> QED
    BY <2>1, <2>6
<1> QED
  BY <1>2, <1>3

(* SetToSeq lists the members of a finite set, each of them once.          *)
LEMMA Enumeration ==
  ASSUME NEW S, IsFiniteSet(S)
  PROVE  /\ Len(SetToSeq(S)) \in Nat
         /\ SetToSeq(S) = [i \in 1..Len(SetToSeq(S)) |-> SetToSeq(S)[i]]
         /\ {SetToSeq(S)[i] : i \in 1..Len(SetToSeq(S))} = S
         /\ \A i, j \in 1..Len(SetToSeq(S)) : SetToSeq(S)[i] = SetToSeq(S)[j] => i = j
<1> DEFINE n == Cardinality(S)
<1>1. n \in Nat /\ ExistsBijection(1..n, S)
  BY FS_CardinalityType
<1>2. \E f \in [1..n -> S] : IsInjective(f)
  BY <1>1 DEF ExistsBijection, Bijection, Injection
<1>3. SetToSeq(S) \in [1..n -> S] /\ IsInjective(SetToSeq(S))
  BY <1>2 DEF SetToSeq
<1>4. IsFiniteSet(1..n) /\ Cardinality(1..n) = n
  BY <1>1, FS_Interval
<1>5. SetToSeq(S) \in Injection(1..n, S)
  BY <1>3 DEF Injection
<1>6. SetToSeq(S) \in Surjection(1..n, S)
  BY <1>4, <1>5, FS_Injection
<1>7. Len(SetToSeq(S)) = n
  BY <1>1, <1>3
<1> QED
  BY <1>1, <1>3, <1>6, <1>7 DEF Surjection, IsInjective

-----------------------------------------------------------------------------
(* The server, one statement at a time.                                    *)

(* What the statements are made of.                                        *)
LEMMA Fields ==
  /\ \A x : CreateSchema(x).kind = "schema" /\ CreateSchema(x).schema = x
  /\ \A x : DropTable(x).kind = "drop" /\ DropTable(x).table = x
  /\ \A x : Truncate(x).kind = "truncate" /\ Truncate(x).tables = x
  /\ \A x : Reseed(x).kind = "reseed" /\ Reseed(x).table = x
  /\ \A x, y : CreateTable(x, y).kind = "create" /\ CreateTable(x, y).table = x
                 /\ CreateTable(x, y).identity = y
  /\ \A x, y : Load(x, y).kind = "load" /\ Load(x, y).table = x /\ Load(x, y).rows = y
  /\ \A x : LoadNothing(x).kind = "nothing" /\ LoadNothing(x).table = x
  /\ \A x, y, z : AddKey(x, y, z).kind = "key" /\ AddKey(x, y, z).table = x
                    /\ AddKey(x, y, z).parent = y /\ AddKey(x, y, z).toKey = z
  /\ \A x, y : CreateIndex(x, y).kind = "index" /\ CreateIndex(x, y).table = x
                 /\ CreateIndex(x, y).index = y
  BY DEF CreateSchema, DropTable, Truncate, Reseed, CreateTable, Load, LoadNothing, AddKey,
         CreateIndex

Kinds == {"schema", "nothing", "drop", "truncate", "reseed", "create", "load", "key", "index"}

(* A statement that the server accepts leaves a database.                  *)
LEMMA StaysDatabase ==
  ASSUME NEW db, IsDatabase(db), NEW s, s.kind \in Kinds, Accepts(db, s)
  PROVE  IsDatabase(After(db, s))
<1> USE DEF IsDatabase, Existing
<1>1. CASE s.kind = "schema"
  <2>1. After(db, s) = [db EXCEPT !.schemas = @ \cup {s.schema}]
    BY <1>1 DEF After
  <2>3. After(db, s) =
          [schemas |-> db.schemas \cup {s.schema},
           rows |-> db.rows,
           keys |-> db.keys, indexes |-> db.indexes,
           identity |-> db.identity]
    BY <2>1
  <2> QED
    BY <2>3
<1>2. CASE s.kind = "nothing"
  BY <1>2 DEF After
<1>3. CASE s.kind = "drop"
  <2>1. After(db, s) =
          [db EXCEPT !.rows = [n \in Existing(db) \ {s.table} |-> @[n]],
                     !.keys = {key \in @ : key[1] # s.table},
                     !.indexes = {index \in @ : index[1] # s.table},
                     !.identity = @ \ {s.table}]
    BY <1>3 DEF After
  <2>3. After(db, s) =
          [schemas |-> db.schemas,
           rows |-> [n \in Existing(db) \ {s.table} |-> db.rows[n]],
           keys |-> {key \in db.keys : key[1] # s.table},
           indexes |-> {index \in db.indexes : index[1] # s.table},
           identity |-> db.identity \ {s.table}]
    BY <2>1
  <2>2. \A key \in db.keys : key[2] = s.table => key[1] = s.table
    BY <1>3 DEF Accepts
  <2> QED
    BY <2>2, <2>3
<1>4. CASE s.kind = "truncate"
  <2>1. After(db, s) =
          [db EXCEPT !.rows = [n \in Existing(db) |-> IF n \in s.tables THEN {} ELSE @[n]]]
    BY <1>4 DEF After
  <2>3. After(db, s) =
          [schemas |-> db.schemas,
           rows |-> [n \in Existing(db) |-> IF n \in s.tables THEN {} ELSE db.rows[n]],
           keys |-> db.keys, indexes |-> db.indexes,
           identity |-> db.identity]
    BY <2>1
  <2> QED
    BY <2>3
<1>5. CASE s.kind = "create"
  <2>1. After(db, s) =
          [db EXCEPT !.rows = [n \in Existing(db) \cup {s.table} |->
                                 IF n = s.table THEN {} ELSE @[n]],
                     !.identity = IF s.identity THEN @ \cup {s.table} ELSE @]
    BY <1>5 DEF After
  <2>3. After(db, s) =
          [schemas |-> db.schemas,
           rows |-> [n \in Existing(db) \cup {s.table} |-> IF n = s.table THEN {} ELSE db.rows[n]],
           keys |-> db.keys, indexes |-> db.indexes,
           identity |-> IF s.identity THEN db.identity \cup {s.table} ELSE db.identity]
    BY <2>1
  <2>2. s.table[1] \in db.schemas
    BY <1>5 DEF Accepts
  <2> QED
    BY <2>2, <2>3
<1>6. CASE s.kind = "load"
  <2>1. After(db, s) = [db EXCEPT !.rows = Inserted(db, s.table, s.rows)]
    BY <1>6 DEF After
  <2>3. After(db, s) =
          [schemas |-> db.schemas,
           rows |-> Inserted(db, s.table, s.rows),
           keys |-> db.keys, indexes |-> db.indexes,
           identity |-> db.identity]
    BY <2>1
  <2> QED
    BY <2>3 DEF Inserted
<1>7. CASE s.kind = "key"
  <2>1. After(db, s) = [db EXCEPT !.keys = @ \cup {<<s.table, s.parent>>}]
    BY <1>7 DEF After
  <2>3. After(db, s) =
          [schemas |-> db.schemas,
           rows |-> db.rows,
           keys |-> db.keys \cup {<<s.table, s.parent>>}, indexes |-> db.indexes,
           identity |-> db.identity]
    BY <2>1
  <2>2. {s.table, s.parent} \subseteq Existing(db)
    BY <1>7 DEF Accepts
  <2> QED
    BY <2>2, <2>3
<1>8. CASE s.kind = "index"
  <2>1. After(db, s) = [db EXCEPT !.indexes = @ \cup {<<s.table, s.index>>}]
    BY <1>8 DEF After
  <2>3. After(db, s) =
          [schemas |-> db.schemas,
           rows |-> db.rows,
           keys |-> db.keys, indexes |-> db.indexes \cup {<<s.table, s.index>>},
           identity |-> db.identity]
    BY <2>1
  <2>2. s.table \in Existing(db)
    BY <1>8 DEF Accepts
  <2> QED
    BY <2>2, <2>3
<1>9. CASE s.kind = "reseed"
  BY <1>9 DEF After
<1> QED
  BY <1>1, <1>2, <1>3, <1>4, <1>5, <1>6, <1>7, <1>8, <1>9 DEF Kinds

(* What one more statement adds to what a set of them does.                *)
LEMMA OneMore ==
  ASSUME NEW D, NEW s, NEW n
  PROVE  /\ SchemasOf(D \cup {s}) =
              SchemasOf(D) \cup (IF s.kind = "schema" THEN {s.schema} ELSE {})
         /\ DroppedBy(D \cup {s}) =
              DroppedBy(D) \cup (IF s.kind = "drop" THEN {s.table} ELSE {})
         /\ TruncatedBy(D \cup {s}) =
              TruncatedBy(D) \cup (IF s.kind = "truncate" THEN s.tables ELSE {})
         /\ CreatedBy(D \cup {s}) =
              CreatedBy(D) \cup (IF s.kind = "create" THEN {s.table} ELSE {})
         /\ LoadedBy(D \cup {s}, n) =
              LoadedBy(D, n) \cup (IF s.kind = "load" /\ s.table = n THEN s.rows ELSE {})
         /\ IdentitiesOf(D \cup {s}) =
              IdentitiesOf(D) \cup (IF s.kind = "create" /\ s.identity THEN {s.table} ELSE {})
         /\ KeysOf(D \cup {s}) =
              KeysOf(D) \cup (IF s.kind = "key" THEN {<<s.table, s.parent>>} ELSE {})
         /\ IndexesOf(D \cup {s}) =
              IndexesOf(D) \cup (IF s.kind = "index" THEN {<<s.table, s.index>>} ELSE {})
  BY DEF SchemasOf, DroppedBy, TruncatedBy, CreatedBy, LoadedBy, IdentitiesOf, KeysOf, IndexesOf

(* Before the first statement.                                             *)
LEMMA NoEffect == ASSUME NEW db, IsDatabase(db) PROVE Effect(db, {}, db)
  BY DEF Effect, SchemasOf, DroppedBy, TruncatedBy, CreatedBy, LoadedBy, IdentitiesOf, KeysOf,
         IndexesOf

(* A statement of an earlier stage than s, or of the same.                 *)
LEMMA Ranks ==
  ASSUME NEW refs, NEW d, NEW s, d.kind \in Kinds, s.kind \in Kinds, MayPrecede(refs, d, s)
  PROVE  /\ s.kind = "schema" => d.kind = "schema"
         /\ s.kind = "drop" => d.kind \in {"schema", "drop"}
         /\ s.kind \in {"truncate", "reseed"} => d.kind \in {"schema", "drop", "truncate", "reseed"}
         /\ s.kind = "create" => d.kind \in {"schema", "drop", "truncate", "reseed", "create"}
         /\ s.kind \in {"load", "nothing"} => d.kind \notin {"key", "index"}
         /\ s.kind = "key" => d.kind # "index"
<1>1. Rank(d) <= Rank(s)
  BY DEF MayPrecede
<1> QED
  BY <1>1 DEF Rank, Kinds

(* One more statement accepted, in an order that MayPrecede allows.        *)
LEMMA EffectStep ==
  ASSUME NEW refs, NEW before, NEW db, NEW D, NEW s,
         IsDatabase(before), IsDatabase(db), Effect(before, D, db),
         s.kind \in Kinds, \A d \in D : d.kind \in Kinds /\ MayPrecede(refs, d, s),
         Accepts(db, s)
  PROVE  Effect(before, D \cup {s}, After(db, s))
<1> DEFINE E == D \cup {s}
<1>1. \A d \in D :
        /\ s.kind = "schema" => d.kind = "schema"
        /\ s.kind = "drop" => d.kind \in {"schema", "drop"}
        /\ s.kind = "truncate" => d.kind \in {"schema", "drop", "truncate", "reseed"}
        /\ s.kind = "create" => d.kind \in {"schema", "drop", "truncate", "reseed", "create"}
  BY Ranks
<1>2. /\ s.kind \in {"drop", "truncate", "create"} =>
           KeysOf(D) = {} /\ IndexesOf(D) = {} /\ \A n : LoadedBy(D, n) = {}
      /\ s.kind = "drop" => CreatedBy(D) = {} /\ TruncatedBy(D) = {} /\ IdentitiesOf(D) = {}
      /\ s.kind = "truncate" => CreatedBy(D) = {}
  BY <1>1 DEF KeysOf, IndexesOf, LoadedBy, CreatedBy, TruncatedBy, IdentitiesOf
<1>3. /\ SchemasOf(E) = SchemasOf(D) \cup (IF s.kind = "schema" THEN {s.schema} ELSE {})
      /\ DroppedBy(E) = DroppedBy(D) \cup (IF s.kind = "drop" THEN {s.table} ELSE {})
      /\ TruncatedBy(E) = TruncatedBy(D) \cup (IF s.kind = "truncate" THEN s.tables ELSE {})
      /\ CreatedBy(E) = CreatedBy(D) \cup (IF s.kind = "create" THEN {s.table} ELSE {})
      /\ \A n : LoadedBy(E, n) =
           LoadedBy(D, n) \cup (IF s.kind = "load" /\ s.table = n THEN s.rows ELSE {})
      /\ IdentitiesOf(E) =
           IdentitiesOf(D) \cup (IF s.kind = "create" /\ s.identity THEN {s.table} ELSE {})
      /\ KeysOf(E) = KeysOf(D) \cup (IF s.kind = "key" THEN {<<s.table, s.parent>>} ELSE {})
      /\ IndexesOf(E) = IndexesOf(D) \cup (IF s.kind = "index" THEN {<<s.table, s.index>>} ELSE {})
  BY OneMore
<1> SUFFICES Effect(before, E, After(db, s))
  OBVIOUS
<1> HIDE DEF E
<1> USE DEF Effect, IsDatabase, Existing
<1>4. CASE s.kind = "schema"
  <2>1. After(db, s) = [db EXCEPT !.schemas = @ \cup {s.schema}]
    BY <1>4 DEF After
  <2> QED
    BY <1>3, <1>4, <2>1
<1>5. CASE s.kind = "nothing"
  <2>1. After(db, s) = db
    BY <1>5 DEF After
  <2> QED
    BY <1>3, <1>5, <2>1
<1>6. CASE s.kind = "drop"
  <2>1. After(db, s) =
          [db EXCEPT !.rows = [n \in Existing(db) \ {s.table} |-> @[n]],
                     !.keys = {key \in @ : key[1] # s.table},
                     !.indexes = {index \in @ : index[1] # s.table},
                     !.identity = @ \ {s.table}]
    BY <1>6 DEF After
  <2>2. /\ After(db, s).schemas = db.schemas
        /\ After(db, s).rows = [n \in Existing(db) \ {s.table} |-> db.rows[n]]
        /\ After(db, s).keys = {key \in db.keys : key[1] # s.table}
        /\ After(db, s).indexes = {index \in db.indexes : index[1] # s.table}
        /\ After(db, s).identity = db.identity \ {s.table}
    BY <2>1
  <2>3. /\ KeysOf(E) = {} /\ IndexesOf(E) = {} /\ CreatedBy(E) = {} /\ TruncatedBy(E) = {}
        /\ \A n : LoadedBy(E, n) = {} /\ LoadedBy(D, n) = {}
    BY <1>2, <1>3, <1>6
  <2> QED
    BY <1>2, <1>3, <1>6, <2>2, <2>3
<1>7. CASE s.kind = "truncate"
  <2>1. After(db, s) =
          [db EXCEPT !.rows = [n \in Existing(db) |-> IF n \in s.tables THEN {} ELSE @[n]]]
    BY <1>7 DEF After
  <2>2. /\ After(db, s).schemas = db.schemas
        /\ After(db, s).rows = [n \in Existing(db) |-> IF n \in s.tables THEN {} ELSE db.rows[n]]
        /\ After(db, s).keys = db.keys
        /\ After(db, s).indexes = db.indexes
        /\ After(db, s).identity = db.identity
    BY <2>1
  <2>3. s.tables \subseteq Existing(db)
    BY <1>7 DEF Accepts
  <2> QED
    BY <1>2, <1>3, <1>7, <2>2, <2>3
<1>8. CASE s.kind = "create"
  <2>1. After(db, s) =
          [db EXCEPT !.rows = [n \in Existing(db) \cup {s.table} |->
                                 IF n = s.table THEN {} ELSE @[n]],
                     !.identity = IF s.identity THEN @ \cup {s.table} ELSE @]
    BY <1>8 DEF After
  <2>2. /\ After(db, s).schemas = db.schemas
        /\ After(db, s).rows = [n \in Existing(db) \cup {s.table} |->
                                  IF n = s.table THEN {} ELSE db.rows[n]]
        /\ After(db, s).keys = db.keys
        /\ After(db, s).indexes = db.indexes
        /\ After(db, s).identity = IF s.identity THEN db.identity \cup {s.table} ELSE db.identity
    BY <2>1
  <2>3. s.table \notin Existing(db)
    BY <1>8 DEF Accepts
  <2> QED
    BY <1>2, <1>3, <1>8, <2>2, <2>3
<1>9. CASE s.kind = "load"
  <2>1. After(db, s) = [db EXCEPT !.rows = Inserted(db, s.table, s.rows)]
    BY <1>9 DEF After
  <2>2. /\ After(db, s).schemas = db.schemas
        /\ After(db, s).rows = [n \in Existing(db) |->
                                  IF n = s.table THEN db.rows[n] \cup s.rows ELSE db.rows[n]]
        /\ After(db, s).keys = db.keys
        /\ After(db, s).indexes = db.indexes
        /\ After(db, s).identity = db.identity
    BY <2>1 DEF Inserted
  <2> QED
    BY <1>3, <1>9, <2>2
<1>10. CASE s.kind = "key"
  <2>1. After(db, s) = [db EXCEPT !.keys = @ \cup {<<s.table, s.parent>>}]
    BY <1>10 DEF After
  <2>2. /\ After(db, s).schemas = db.schemas
        /\ After(db, s).rows = db.rows
        /\ After(db, s).keys = db.keys \cup {<<s.table, s.parent>>}
        /\ After(db, s).indexes = db.indexes
        /\ After(db, s).identity = db.identity
    BY <2>1
  <2> QED
    BY <1>3, <1>10, <2>2
<1>11. CASE s.kind = "index"
  <2>1. After(db, s) = [db EXCEPT !.indexes = @ \cup {<<s.table, s.index>>}]
    BY <1>11 DEF After
  <2>2. /\ After(db, s).schemas = db.schemas
        /\ After(db, s).rows = db.rows
        /\ After(db, s).keys = db.keys
        /\ After(db, s).indexes = db.indexes \cup {<<s.table, s.index>>}
        /\ After(db, s).identity = db.identity
    BY <2>1
  <2> QED
    BY <1>3, <1>11, <2>2
<1>12. CASE s.kind = "reseed"
  <2>1. After(db, s) = db
    BY <1>12 DEF After
  <2> QED
    BY <1>3, <1>12, <2>1
<1> QED
  BY <1>4, <1>5, <1>6, <1>7, <1>8, <1>9, <1>10, <1>11, <1>12 DEF Kinds

-----------------------------------------------------------------------------
(* The scripts that the methods of the emitters write.                     *)

(* The tables of a source can be counted, and none is listed twice.        *)
LEMMA Listed ==
  /\ Len(Source) \in Nat
  /\ \A i \in 1..Len(Source) : Source[i] \in Tables
  /\ \A t \in Tables : \E i \in 1..Len(Source) : t = Source[i]
  /\ \A i, j \in 1..Len(Source) : Source[i] = Source[j] => i = j
  /\ IsFiniteSet(Tables)
<1>1. Len(Source) \in Nat
  BY SourceAssumption, LenProperties
<1>2. IsFiniteSet(Tables)
  <2> DEFINE f == [i \in 1..Len(Source) |-> Source[i]]
  <2>1. f \in Surjection(1..Len(Source), Tables)
    BY DEF Surjection, Tables
  <2>2. IsFiniteSet(1..Len(Source))
    BY <1>1, FS_Interval
  <2> QED
    BY <2>1, <2>2, FS_Surjection
<1> QED
  BY <1>1, <1>2, SourceAssumption DEF Tables

(* CREATE SCHEMA for the schema of every table.                            *)
LEMMA Schemas ==
  ASSUME NEW refs
  PROVE  /\ IsScript(EmitSchemas)
         /\ Statements(EmitSchemas) = {CreateSchema(EmittedName[t][1]) : t \in Tables}
         /\ Ordered(refs, EmitSchemas)
<1> DEFINE S == {EmittedName[t][1] : t \in Tables}
           e == SetToSeq(S)
           f == [t \in Tables |-> EmittedName[t][1]]
<1>1. f \in Surjection(Tables, S)
  BY DEF Surjection
<1>2. IsFiniteSet(S)
  BY <1>1, Listed, FS_Surjection
<1>3. Len(e) \in Nat /\ {e[i] : i \in 1..Len(e)} = S
  BY <1>2, Enumeration
<1>4. EmitSchemas = [i \in 1..Len(e) |-> CreateSchema(e[i])]
  BY DEF EmitSchemas, ForEach
<1> HIDE DEF e
<1>5. EmitSchemas = [i \in 1..Len(e) |-> EmitSchemas[i]]
  BY <1>4
<1>6. /\ IsScript(EmitSchemas) /\ Len(EmitSchemas) = Len(e)
      /\ Statements(EmitSchemas) = {EmitSchemas[i] : i \in 1..Len(e)}
  BY <1>3, <1>5, Listing
<1>7. Statements(EmitSchemas) = {CreateSchema(s) : s \in S}
  <2>1. \A i \in 1..Len(e) : EmitSchemas[i] = CreateSchema(e[i])
    BY <1>4
  <2> HIDE DEF S
  <2> QED
    BY <1>3, <1>6, <2>1
<1>8. Ordered(refs, EmitSchemas)
  <2>1. \A i \in 1..Len(e) : EmitSchemas[i].kind = "schema"
    BY <1>4 DEF CreateSchema
  <2> QED
    BY <1>6, <2>1 DEF Ordered, MayPrecede, Rank
<1>9. {CreateSchema(s) : s \in S} = {CreateSchema(EmittedName[t][1]) : t \in Tables}
  OBVIOUS
<1> QED
  BY <1>6, <1>7, <1>8, <1>9

(* One statement for each table, in the order of the source.               *)
LEMMA Tabled ==
  ASSUME NEW f, f = [i \in 1..Len(Source) |-> f[i]]
  PROVE  /\ IsScript(f)
         /\ Len(f) = Len(Source)
         /\ Statements(f) = {f[i] : i \in 1..Len(Source)}
<1>1. Len(Source) \in Nat
  BY Listed
<1> QED
  BY <1>1, Listing

(* CREATE TABLE of a table.                                                *)
Creation(t) == CreateTable(EmittedName[t], t \in Identities)

LEMMA Created ==
  \A t : /\ Creation(t).kind = "create"
         /\ Creation(t).table = EmittedName[t]
         /\ Creation(t).identity <=> t \in Identities
<1> TAKE t
<1> DEFINE b == t \in Identities
<1>1. Creation(t) = CreateTable(EmittedName[t], b)
  BY DEF Creation
<1>2. /\ CreateTable(EmittedName[t], b).kind = "create"
      /\ CreateTable(EmittedName[t], b).table = EmittedName[t]
      /\ CreateTable(EmittedName[t], b).identity = b
  BY DEF CreateTable
<1> QED
  BY <1>1, <1>2

(* CREATE TABLE, once for each table.                                      *)
LEMMA Creates ==
  ASSUME NEW refs
  PROVE  /\ IsScript(EmitTables)
         /\ Statements(EmitTables) = {Creation(t) : t \in Tables}
         /\ EmittedNamesDiffer => Ordered(refs, EmitTables)
<1>1. EmitTables = [i \in 1..Len(Source) |-> Creation(Source[i])]
  BY DEF EmitTables, ForEachTable, ForEach, Creation
<1>2. EmitTables = [i \in 1..Len(Source) |-> EmitTables[i]]
  BY <1>1
<1>3. /\ IsScript(EmitTables) /\ Len(EmitTables) = Len(Source)
      /\ Statements(EmitTables) = {EmitTables[i] : i \in 1..Len(Source)}
  BY <1>2, Tabled
<1>4. \A i \in 1..Len(Source) : /\ EmitTables[i].kind = "create"
                                 /\ EmitTables[i].table = EmittedName[Source[i]]
  BY <1>1, Created
<1>5. EmittedNamesDiffer =>
        \A i, j \in 1..Len(Source) : EmitTables[i] = EmitTables[j] => i = j
  BY <1>4, Listed DEF EmittedNamesDiffer
<1>6. EmittedNamesDiffer => Ordered(refs, EmitTables)
  BY <1>3, <1>4, <1>5 DEF Ordered, MayPrecede, Rank
<1> QED
  BY <1>1, <1>3, <1>6 DEF Tables

(* CREATE INDEX, once for each table.                                      *)
LEMMA Indexed ==
  ASSUME NEW refs
  PROVE  /\ IsScript(EmitIndexes)
         /\ Statements(EmitIndexes) = {CreateIndex(EmittedName[t], IndexName[t]) : t \in Tables}
         /\ EmittedNamesDiffer => Ordered(refs, EmitIndexes)
<1>1. EmitIndexes =
        [i \in 1..Len(Source) |-> CreateIndex(EmittedName[Source[i]], IndexName[Source[i]])]
  BY DEF EmitIndexes, ForEachTable, ForEach
<1>2. EmitIndexes = [i \in 1..Len(Source) |-> EmitIndexes[i]]
  BY <1>1
<1>3. /\ IsScript(EmitIndexes) /\ Len(EmitIndexes) = Len(Source)
      /\ Statements(EmitIndexes) = {EmitIndexes[i] : i \in 1..Len(Source)}
  BY <1>2, Tabled
<1>4. EmittedNamesDiffer =>
        \A i, j \in 1..Len(Source) : EmitIndexes[i] = EmitIndexes[j] => i = j
  BY <1>1, Listed DEF EmittedNamesDiffer, CreateIndex
<1>5. \A i \in 1..Len(Source) : EmitIndexes[i].kind = "index"
  BY <1>1 DEF CreateIndex
<1>6. EmittedNamesDiffer => Ordered(refs, EmitIndexes)
  BY <1>3, <1>4, <1>5 DEF Ordered, MayPrecede, Rank
<1> QED
  BY <1>1, <1>3, <1>6 DEF Tables

(* What topological_order returns, as a list of tables.                    *)
LEMMA Sorted ==
  ASSUME NEW refs, NEW order, ValidOrder(refs, order)
  PROVE  /\ Len(order) \in Nat
         /\ Reverse(order) = [i \in 1..Len(order) |-> order[Len(order) - i + 1]]
         /\ Len(Reverse(order)) = Len(order)
         /\ {Reverse(order)[i] : i \in 1..Len(order)} = Tables
<1>1. Len(order) \in Nat
  BY LenProperties DEF ValidOrder
<1>2. Reverse(order) = [i \in 1..Len(order) |-> order[Len(order) - i + 1]]
  BY DEF Reverse
<1>3. Len(Reverse(order)) = Len(order)
  BY <1>1, <1>2
<1>4. {order[i] : i \in 1..Len(order)} = Tables
  BY DEF ValidOrder, EachOnce
<1>5. ASSUME NEW i \in 1..Len(order)
      PROVE  \E j \in 1..Len(order) : order[i] = Reverse(order)[j]
  <2>1. Len(order) - i + 1 \in 1..Len(order) /\ Len(order) - (Len(order) - i + 1) + 1 = i
    BY <1>1
  <2> QED
    BY <1>2, <2>1
<1>6. ASSUME NEW i \in 1..Len(order)
      PROVE  \E j \in 1..Len(order) : Reverse(order)[i] = order[j]
  <2>1. Len(order) - i + 1 \in 1..Len(order)
    BY <1>1
  <2> QED
    BY <1>2, <2>1
<1>7. {Reverse(order)[i] : i \in 1..Len(order)} = {order[i] : i \in 1..Len(order)}
  <2> DEFINE r == Reverse(order)
             n == Len(order)
  <2>1. /\ \A i \in 1..n : \E j \in 1..n : order[i] = r[j]
        /\ \A i \in 1..n : \E j \in 1..n : r[i] = order[j]
    BY <1>5, <1>6
  <2> HIDE DEF r, n
  <2>2. {r[i] : i \in 1..n} = {order[i] : i \in 1..n}
    BY <2>1
  <2> QED
    BY <2>2 DEF r, n
<1> QED
  BY <1>1, <1>2, <1>3, <1>4, <1>7

(* DROP TABLE for each table, children first where there is an order.      *)
LEMMA Drops ==
  ASSUME NEW refs, NEW order, ValidOrder(refs, order)
  PROVE  /\ IsScript(EmitDrops(order))
         /\ Statements(EmitDrops(order)) = {DropTable(EmittedName[t]) : t \in Tables}
         /\ EmittedNamesDiffer => Ordered(refs, EmitDrops(order))
<1> DEFINE n == Len(order)
           f == EmitDrops(order)
           r == Reverse(order)
<1>1. n \in Nat /\ Len(r) = n /\ {r[i] : i \in 1..n} = Tables
  BY Sorted
<1>2. f = [i \in 1..n |-> DropTable(EmittedName[r[i]])]
  BY <1>1 DEF EmitDrops, ForEach
<1>3. \A i \in 1..n : r[i] = order[n - i + 1]
  BY Sorted
<1> HIDE DEF f, r
<1>4. f = [i \in 1..n |-> f[i]]
  BY <1>2
<1>5. IsScript(f) /\ Len(f) = n /\ Statements(f) = {f[i] : i \in 1..n}
  BY <1>1, <1>4, Listing
<1>6. \A i \in 1..n : f[i] = DropTable(EmittedName[r[i]])
  BY <1>2
<1>7. Statements(f) = {DropTable(EmittedName[t]) : t \in Tables}
  BY <1>1, <1>5, <1>6
<1>8. ASSUME EmittedNamesDiffer, NEW i \in 1..n, NEW j \in 1..n, i < j
      PROVE  MayPrecede(refs, f[i], f[j])
  <2>1. f[i].kind = "drop" /\ f[j].kind = "drop"
    BY <1>6, Fields
  <2>2. ASSUME Blocked(refs) = {}, NEW c \in Tables, NEW p \in Tables,
               f[i] = DropTable(EmittedName[p]), f[j] = DropTable(EmittedName[c]),
               p \in refs[c], c # p
        PROVE  FALSE
    <3>1. r[i] \in Tables /\ r[j] \in Tables
      BY <1>1
    <3>2. EmittedName[r[i]] = EmittedName[p] /\ EmittedName[r[j]] = EmittedName[c]
      BY <1>6, <2>2, Fields
    <3>3. r[i] = p /\ r[j] = c
      BY <1>8, <3>1, <3>2 DEF EmittedNamesDiffer
    <3>4. /\ n - i + 1 \in 1..n /\ n - j + 1 \in 1..n
          /\ order[n - i + 1] = p /\ order[n - j + 1] = c
      BY <1>1, <1>3, <3>3
    <3>5. Before(order, p, n - j + 1)
      BY <2>2, <3>4 DEF ValidOrder, ParentsPrecede
    <3>6. PICK k \in 1..((n - j + 1) - 1) : order[k] = p
      BY <3>5 DEF Before
    <3>7. k \in 1..n /\ k < n - i + 1
      BY <1>1, <1>8
    <3>8. \A a, b \in 1..n : order[a] = order[b] => a = b
      BY DEF ValidOrder, EachOnce
    <3> HIDE DEF n
    <3> QED
      BY <3>4, <3>6, <3>7, <3>8
  <2> QED
    BY <2>1, <2>2 DEF MayPrecede, Rank
<1>9. EmittedNamesDiffer => Ordered(refs, f)
  BY <1>5, <1>8 DEF Ordered
<1> QED
  BY <1>5, <1>7, <1>9 DEF f

(* Scripts of no statement and of one.                                     *)
LEMMA Short ==
  /\ IsScript(<< >>) /\ Statements(<< >>) = {} /\ \A refs : Ordered(refs, << >>)
  /\ \A x : /\ IsScript(<<x>>) /\ Statements(<<x>>) = {x}
            /\ \A refs : Ordered(refs, <<x>>)
<1>1. Len(<< >>) = 0 /\ 1..0 = {} /\ << >> \in Seq({})
  OBVIOUS
<1>2. Statements(<< >>) = {}
  BY <1>1 DEF Statements
<1>3. ASSUME NEW x
      PROVE  IsScript(<<x>>) /\ Statements(<<x>>) = {x} /\ \A refs : Ordered(refs, <<x>>)
  <2>1. Len(<<x>>) = 1 /\ <<x>>[1] = x /\ <<x>> \in Seq({x})
    OBVIOUS
  <2>2. \A i \in 1..1 : i = 1
    OBVIOUS
  <2>3. Statements(<<x>>) = {x}
    BY <2>1, <2>2 DEF Statements
  <2> QED
    BY <2>1, <2>2, <2>3 DEF IsScript, Ordered
<1> QED
  BY <1>1, <1>2, <1>3 DEF IsScript, Ordered

(* TRUNCATE and DBCC CHECKIDENT of a table on SQL Server.                  *)
TruncationOf(t) ==
  <<Truncate({EmittedName[t]})>> \o (IF t \in Identities THEN <<Reseed(EmittedName[t])>> ELSE << >>)

LEMMA Truncation ==
  ASSUME NEW t \in Tables
  PROVE  /\ IsScript(TruncationOf(t))
         /\ \A s : s \in Statements(TruncationOf(t)) <=>
              \/ s = Truncate({EmittedName[t]})
              \/ t \in Identities /\ s = Reseed(EmittedName[t])
<1> DEFINE a == Truncate({EmittedName[t]})
           b == Reseed(EmittedName[t])
           rest == IF t \in Identities THEN <<b>> ELSE << >>
<1>1. TruncationOf(t) = <<a>> \o rest
  BY DEF TruncationOf
<1> HIDE DEF a, b
<1>2. IsScript(<<a>>) /\ Statements(<<a>>) = {a}
  BY Short
<1>3. IsScript(rest) /\ Statements(rest) = IF t \in Identities THEN {b} ELSE {}
  BY Short
<1> HIDE DEF rest
<1>4. IsScript(<<a>> \o rest) /\ Statements(<<a>> \o rest) = {a} \cup Statements(rest)
  BY <1>2, <1>3, Concatenation
<1>5. \A s : s \in Statements(TruncationOf(t)) <=> s = a \/ (t \in Identities /\ s = b)
  BY <1>1, <1>3, <1>4
<1> QED
  BY <1>1, <1>4, <1>5 DEF a, b

(* The statements of emit_truncates.                                       *)
IsTruncation(s) ==
  IF Target = "mssql"
  THEN \/ \E t \in Tables : s = Truncate({EmittedName[t]})
       \/ \E t \in Identities : s = Reseed(EmittedName[t])
  ELSE Tables # {} /\ s = Truncate(Managed)

LEMMA TruncationFields ==
  ASSUME NEW s, IsTruncation(s)
  PROVE  \/ /\ s.kind = "truncate"
            /\ s.tables \subseteq Managed
            /\ s.tables = Managed \/ (Target = "mssql" /\ \E n : s.tables = {n})
         \/ /\ s.kind = "reseed"
            /\ Target = "mssql"
            /\ \E t \in Identities : s.table = EmittedName[t]
<1>1. CASE \E t \in Tables : Target = "mssql" /\ s = Truncate({EmittedName[t]})
  <2>1. PICK t \in Tables : Target = "mssql" /\ s = Truncate({EmittedName[t]})
    BY <1>1
  <2>2. s.kind = "truncate" /\ s.tables = {EmittedName[t]}
    BY <2>1, Fields
  <2> QED
    BY <2>1, <2>2 DEF Managed
<1>2. CASE \E t \in Identities : Target = "mssql" /\ s = Reseed(EmittedName[t])
  BY <1>2, Fields
<1>3. CASE s = Truncate(Managed)
  <2>1. s.kind = "truncate" /\ s.tables = Managed
    BY <1>3, Fields
  <2> QED
    BY <2>1
<1> QED
  BY <1>1, <1>2, <1>3 DEF IsTruncation

(* They truncate every table.                                              *)
LEMMA AllTruncated ==
  ASSUME NEW t \in Tables
  PROVE  \E T : IsTruncation(Truncate(T)) /\ EmittedName[t] \in T
<1>1. CASE Target = "mssql"
  <2>1. IsTruncation(Truncate({EmittedName[t]}))
    BY <1>1 DEF IsTruncation
  <2> QED
    BY <2>1
<1>2. CASE Target # "mssql"
  <2>1. IsTruncation(Truncate(Managed)) /\ EmittedName[t] \in Managed
    BY <1>2 DEF IsTruncation, Managed
  <2> QED
    BY <2>1
<1> QED
  BY <1>1, <1>2

(* Scripts of one stage may have any order.                                *)
LEMMA Unordered ==
  ASSUME NEW refs, NEW s, \A x \in Statements(s) : x.kind \in {"truncate", "reseed"}
  PROVE  Ordered(refs, s)
<1>1. ASSUME NEW i \in 1..Len(s), NEW j \in 1..Len(s) PROVE MayPrecede(refs, s[i], s[j])
  <2>1. s[i].kind \in {"truncate", "reseed"} /\ s[j].kind \in {"truncate", "reseed"}
    BY DEF Statements
  <2> QED
    BY <2>1 DEF MayPrecede, Rank
<1> QED
  BY <1>1 DEF Ordered

(* TRUNCATE, of all tables at once or one by one.                          *)
LEMMA Truncates ==
  ASSUME NEW refs, NEW order, ValidOrder(refs, order)
  PROVE  /\ IsScript(EmitTruncates(order))
         /\ \A s : s \in Statements(EmitTruncates(order)) <=> IsTruncation(s)
         /\ Ordered(refs, EmitTruncates(order))
<1> DEFINE f == EmitTruncates(order)
<1>1. Len(order) \in Nat
  BY Sorted
<1>2. SUFFICES IsScript(f) /\ \A s : s \in Statements(f) <=> IsTruncation(s)
  <2>1. ASSUME \A s : s \in Statements(f) <=> IsTruncation(s) PROVE Ordered(refs, f)
    <3>1. \A s \in Statements(f) : s.kind \in {"truncate", "reseed"}
      BY <2>1, TruncationFields
    <3> QED
      BY <3>1, Unordered
  <2> QED
    BY <2>1
<1>3. CASE Target = "mssql"
  <2> DEFINE n == Len(order)
             r == Reverse(order)
             ss == [i \in 1..n |-> TruncationOf(r[i])]
  <2>1. Len(r) = n /\ {r[i] : i \in 1..n} = Tables
    BY Sorted
  <2>2. f = FlattenSeq(ss)
    BY <1>3, <2>1 DEF EmitTruncates, ForEach, TruncationOf
  <2> HIDE DEF f, r
  <2>3. ss = [i \in 1..n |-> ss[i]] /\ \A i \in 1..n : ss[i] = TruncationOf(r[i]) /\ r[i] \in Tables
    BY <2>1
  <2> HIDE DEF ss
  <2>4. \A i \in 1..n : IsScript(ss[i])
    BY <2>3, Truncation
  <2>5. IsScript(f) /\ Statements(f) = UNION {Statements(ss[i]) : i \in 1..n}
    <3> HIDE DEF n
    <3>1. n \in Nat
      BY <1>1 DEF n
    <3> QED
      BY <2>2, <2>3, <2>4, <3>1, Flattening
  <2>6. ASSUME NEW s \in Statements(f) PROVE IsTruncation(s)
    <3>1. PICK i \in 1..n : s \in Statements(ss[i])
      BY <2>5
    <3>2. r[i] \in Tables /\ s \in Statements(TruncationOf(r[i]))
      BY <2>3, <3>1
    <3> QED
      BY <1>3, <3>2, Truncation DEF IsTruncation
  <2>7. ASSUME NEW t \in Tables, NEW s \in Statements(TruncationOf(t)) PROVE s \in Statements(f)
    <3>1. PICK i \in 1..n : t = r[i]
      BY <2>1
    <3> QED
      BY <2>3, <2>5, <3>1
  <2>8. ASSUME NEW s, IsTruncation(s) PROVE s \in Statements(f)
    <3>1. Identities \subseteq Tables
      BY ScriptAssumption
    <3>2. \E t \in Tables : s \in Statements(TruncationOf(t))
      BY <1>3, <2>8, <3>1, Truncation DEF IsTruncation
    <3> QED
      BY <2>7, <3>2
  <2> QED
    BY <2>5, <2>6, <2>8 DEF f
<1>4. CASE Target # "mssql" /\ order = << >>
  <2>0. f = << >>
    BY <1>4, Zenon DEF EmitTruncates
  <2>1. f = << >> /\ Len(order) = 0 /\ 1..0 = {}
    BY <1>4, <2>0
  <2>2. Tables = {}
    BY <2>1 DEF ValidOrder, EachOnce
  <2>3. IsScript(f) /\ Statements(f) = {}
    BY <2>1, Short
  <2> QED
    BY <1>4, <2>2, <2>3 DEF IsTruncation
<1>5. CASE Target # "mssql" /\ order # << >>
  <2>1. f = <<Truncate(Managed)>>
    BY <1>5 DEF EmitTruncates, Managed
  <2>2. Tables # {}
    <3>1. Len(order) \in Nat \ {0}
      BY <1>5, EmptySeq DEF ValidOrder
    <3> QED
      BY <3>1 DEF ValidOrder, EachOnce
  <2>3. IsScript(f) /\ Statements(f) = {Truncate(Managed)}
    <3> DEFINE x == Truncate(Managed)
    <3> HIDE DEF x
    <3>1. IsScript(<<x>>) /\ Statements(<<x>>) = {x}
      BY Short
    <3> QED
      BY <2>1, <3>1 DEF x
  <2> QED
    BY <1>5, <2>2, <2>3 DEF IsTruncation
<1> QED
  BY <1>3, <1>4, <1>5

(* What ForEach makes of a set listed by SetToSeq.                         *)
LEMMA Enumerated ==
  ASSUME NEW S, IsFiniteSet(S), NEW f, f = [i \in 1..Len(SetToSeq(S)) |-> f[i]]
  PROVE  /\ IsScript(f)
         /\ Len(f) = Len(SetToSeq(S))
         /\ Statements(f) = {f[i] : i \in 1..Len(SetToSeq(S))}
<1>1. Len(SetToSeq(S)) \in Nat
  BY Enumeration
<1> QED
  BY <1>1, Listing

(* ALTER TABLE ... ADD FOREIGN KEY of a reference.                         *)
LEMMA KeyFields ==
  \A t, p : /\ ForeignKey(t, p).kind = "key"
            /\ ForeignKey(t, p).table = EmittedName[t]
            /\ ForeignKey(t, p).parent = EmittedName[p]
            /\ ForeignKey(t, p).toKey <=> <<t, p>> \in PrimaryKeyed
<1> TAKE t, p
<1> DEFINE b == <<t, p>> \in PrimaryKeyed
           k == AddKey(EmittedName[t], EmittedName[p], b)
<1>1. ForeignKey(t, p) = k
  BY DEF ForeignKey
<1>2. k.kind = "key" /\ k.table = EmittedName[t] /\ k.parent = EmittedName[p] /\ k.toKey = b
  BY DEF AddKey
<1> QED
  BY <1>1, <1>2

(* ALTER TABLE for each foreign key to a table of the Database.            *)
LEMMA KeysAdded ==
  ASSUME NEW refs
  PROVE  /\ IsScript(EmitForeignKeys(refs))
         /\ \A s \in Statements(EmitForeignKeys(refs)) : s.kind = "key"
         /\ \A s : s \in Statements(EmitForeignKeys(refs)) <=>
              \E t \in Tables : \E p \in refs[t] \cap Tables :
                s = ForeignKey(t, p)
         /\ Ordered(refs, EmitForeignKeys(refs))
<1> DEFINE n == Len(Source)
           Parents(t) == refs[t] \cap Tables
           Of(t) == ForEach(SetToSeq(Parents(t)), LAMBDA p : ForeignKey(t, p))
           ss == [i \in 1..n |-> Of(Source[i])]
<1>1. EmitForeignKeys(refs) = FlattenSeq(ss)
  BY DEF EmitForeignKeys, ForEachTable, ForEach
<1>2. ASSUME NEW t \in Tables
      PROVE  /\ IsScript(Of(t))
             /\ \A s : s \in Statements(Of(t)) <=>
                  \E p \in Parents(t) : s = ForeignKey(t, p)
  <2> DEFINE e == SetToSeq(Parents(t))
             f == Of(t)
  <2>1. IsFiniteSet(Parents(t))
    BY Listed, FS_Subset
  <2>2. f = [i \in 1..Len(e) |-> ForeignKey(t, e[i])]
    BY DEF ForEach
  <2>3. {e[i] : i \in 1..Len(e)} = Parents(t)
    BY <2>1, Enumeration
  <2> HIDE DEF f
  <2>4. f = [i \in 1..Len(e) |-> f[i]]
    BY <2>2
  <2>5. IsScript(f) /\ Statements(f) = {f[i] : i \in 1..Len(e)}
    <3> HIDE DEF Parents
    <3> QED
      BY <2>1, <2>4, Enumerated
  <2>6. \A i \in 1..Len(e) : f[i] = ForeignKey(t, e[i])
    BY <2>2
  <2>7. ASSUME NEW p \in Parents(t)
        PROVE  ForeignKey(t, p) \in Statements(f)
    <3> HIDE DEF Parents, e
    <3>1. PICK i \in 1..Len(e) : p = e[i]
      BY <2>3
    <3> QED
      BY <2>5, <2>6, <3>1
  <2>8. ASSUME NEW s \in Statements(f)
        PROVE  \E p \in Parents(t) : s = ForeignKey(t, p)
    <3> HIDE DEF Parents, e
    <3>1. PICK i \in 1..Len(e) : s = f[i]
      BY <2>5
    <3> QED
      BY <2>3, <2>6, <3>1
  <2> QED
    BY <2>5, <2>7, <2>8 DEF f
<1> HIDE DEF Of
<1>3. \A i \in 1..n : ss[i] = Of(Source[i]) /\ Source[i] \in Tables
  BY Listed
<1>4. ss = [i \in 1..n |-> ss[i]] /\ n \in Nat
  BY Listed
<1> HIDE DEF ss
<1>5. \A i \in 1..n : IsScript(ss[i])
  BY <1>2, <1>3
<1>6. /\ IsScript(FlattenSeq(ss))
      /\ Statements(FlattenSeq(ss)) = UNION {Statements(ss[i]) : i \in 1..n}
  <2> HIDE DEF n
  <2> QED
    BY <1>4, <1>5, Flattening
<1>7. ASSUME NEW s
      PROVE  s \in Statements(FlattenSeq(ss)) <=>
               \E t \in Tables : \E p \in Parents(t) : s = ForeignKey(t, p)
  <2> HIDE DEF n, Parents
  <2>1. ASSUME s \in Statements(FlattenSeq(ss))
        PROVE  \E t \in Tables : \E p \in Parents(t) : s = ForeignKey(t, p)
    <3>1. PICK i \in 1..n : s \in Statements(ss[i])
      BY <1>6, <2>1
    <3> QED
      BY <1>2, <1>3, <3>1
  <2>2. ASSUME NEW t \in Tables, NEW p \in Parents(t), s = ForeignKey(t, p)
        PROVE  s \in Statements(FlattenSeq(ss))
    <3>1. PICK i \in 1..n : t = Source[i]
      BY Listed DEF n
    <3>2. s \in Statements(ss[i])
      BY <1>2, <1>3, <2>2, <3>1
    <3> QED
      BY <1>6, <3>2
  <2> QED
    BY <2>1, <2>2
<1>8. \A s \in Statements(FlattenSeq(ss)) : s.kind = "key"
  BY <1>7, KeyFields
<1>9. Ordered(refs, FlattenSeq(ss))
  <2>1. \A i \in 1..Len(FlattenSeq(ss)) : FlattenSeq(ss)[i].kind = "key"
    BY <1>8 DEF Statements
  <2> QED
    BY <2>1 DEF Ordered, MayPrecede, Rank
<1> QED
  BY <1>1, <1>6, <1>7, <1>8, <1>9

-----------------------------------------------------------------------------
(* The two ways to load rows.                                              *)

(* loads only loads rows, and is put together in a proper order.           *)
IsLoading(loads) ==
  /\ IsScript(loads)
  /\ \A s \in Statements(loads) : s.kind \in {"load", "nothing"}

(* loads brings each table its rows.                                       *)
LoadsData(refs, loads, data) ==
  /\ \A s \in Statements(loads) :
       s.kind = "load" => \E t \in Tables : s.table = EmittedName[t] /\ s.rows \subseteq data[t]
  /\ \A t \in Tables : LoadedBy(Statements(loads), EmittedName[t]) = data[t]
  /\ Ordered(refs, loads)

(* A limit of 0 reads nothing.                                             *)
LEMMA Unselected ==
  ASSUME NEW t \in Tables, NEW rows \in Read(t), Limit[t] = 0
  PROVE  rows = {}
<1>1. IsFiniteSet(SourceRows[t]) /\ Cardinality(SourceRows[t]) \in Nat
  BY ScriptAssumption, FS_CardinalityType
<1>2. CASE Cardinality(SourceRows[t]) = 0
  BY <1>1, <1>2, FS_EmptySet DEF Read
<1>3. CASE Cardinality(SourceRows[t]) # 0
  <2>1. rows \in SUBSET SourceRows[t] /\ Cardinality(rows) = 0
    BY <1>1, <1>3 DEF Read
  <2> QED
    BY <1>1, <2>1, FS_Subset, FS_EmptySet
<1> QED
  BY <1>2, <1>3

(* What is read of a table is finite.                                      *)
LEMMA ReadFinite ==
  ASSUME NEW t \in Tables, NEW rows \in Read(t)
  PROVE  IsFiniteSet(rows)
  BY ScriptAssumption, FS_Subset DEF Read

(* Loading table after table, each into the table of its name.             *)
LEMMA Loading ==
  ASSUME NEW refs, NEW data, NEW ss, ss = [i \in 1..Len(Source) |-> ss[i]],
         \A i \in 1..Len(Source) : IsLoading(ss[i])
  PROVE  /\ IsLoading(FlattenSeq(ss))
         /\ (/\ EmittedNamesDiffer
             /\ \A i \in 1..Len(Source) :
                  /\ \A s \in Statements(ss[i]) :
                       s.kind = "load" => s.table = EmittedName[Source[i]]
                  /\ LoadedBy(Statements(ss[i]), EmittedName[Source[i]]) = data[Source[i]]
                  /\ Ordered(refs, ss[i]))
            => LoadsData(refs, FlattenSeq(ss), data)
<1> DEFINE n == Len(Source)
           loads == FlattenSeq(ss)
<1>1. /\ n \in Nat
      /\ \A i \in 1..n : Source[i] \in Tables
      /\ \A t \in Tables : \E i \in 1..n : t = Source[i]
      /\ \A i, j \in 1..n : Source[i] = Source[j] => i = j
  BY Listed
<1>2. \A i \in 1..n : IsScript(ss[i])
  BY DEF IsLoading
<1>3. ss = [i \in 1..n |-> ss[i]]
  OBVIOUS
<1>4. /\ IsScript(loads)
      /\ Statements(loads) = UNION {Statements(ss[i]) : i \in 1..n}
      /\ (/\ \A i \in 1..n : Ordered(refs, ss[i])
          /\ \A i, j \in 1..n : i < j =>
               \A a \in Statements(ss[i]), b \in Statements(ss[j]) : MayPrecede(refs, a, b))
         => Ordered(refs, loads)
  <2> HIDE DEF n
  <2> QED
    BY <1>1, <1>2, <1>3, Flattening
<1> HIDE DEF loads
<1>5. \A s : s \in Statements(loads) <=> \E i \in 1..n : s \in Statements(ss[i])
  BY <1>4
<1>6. IsLoading(loads)
  BY <1>4, <1>5 DEF IsLoading
<1>7. ASSUME EmittedNamesDiffer,
             \A i \in 1..n :
               /\ \A s \in Statements(ss[i]) : s.kind = "load" => s.table = EmittedName[Source[i]]
               /\ LoadedBy(Statements(ss[i]), EmittedName[Source[i]]) = data[Source[i]]
               /\ Ordered(refs, ss[i])
      PROVE  LoadsData(refs, loads, data)
  <2>1. ASSUME NEW i \in 1..n, NEW s \in Statements(ss[i]), s.kind = "load"
        PROVE  s.table = EmittedName[Source[i]] /\ s.rows \subseteq data[Source[i]]
    BY <1>7, <2>1 DEF LoadedBy
  <2>2. \A s \in Statements(loads) :
          s.kind = "load" => \E t \in Tables : s.table = EmittedName[t] /\ s.rows \subseteq data[t]
    BY <1>1, <1>5, <2>1
  <2>3. ASSUME NEW i \in 1..n
        PROVE  LoadedBy(Statements(loads), EmittedName[Source[i]]) = data[Source[i]]
    <3>1. ASSUME NEW s \in Statements(loads), s.kind = "load", s.table = EmittedName[Source[i]]
          PROVE  s \in Statements(ss[i])
      <4>1. PICK j \in 1..n : s \in Statements(ss[j])
        BY <1>5
      <4>2. Source[i] = Source[j]
        BY <1>1, <1>7, <2>1, <3>1, <4>1 DEF EmittedNamesDiffer
      <4> QED
        BY <1>1, <4>1, <4>2
    <3>2. Statements(ss[i]) \subseteq Statements(loads)
      BY <1>5
    <3>3. LoadedBy(Statements(loads), EmittedName[Source[i]]) =
            LoadedBy(Statements(ss[i]), EmittedName[Source[i]])
      BY <3>1, <3>2 DEF LoadedBy
    <3> QED
      BY <1>7, <3>3
  <2>4. \A t \in Tables : LoadedBy(Statements(loads), EmittedName[t]) = data[t]
    BY <1>1, <2>3
  <2>5. ASSUME NEW i \in 1..n, NEW j \in 1..n, i < j,
               NEW a \in Statements(ss[i]), NEW b \in Statements(ss[j])
        PROVE  MayPrecede(refs, a, b)
    <3>1. a.kind \in {"load", "nothing"} /\ b.kind \in {"load", "nothing"}
      BY DEF IsLoading
    <3>2. Rank(a) <= Rank(b)
      BY <3>1 DEF Rank
    <3>3. ASSUME a.kind = "load", b.kind = "load"
          PROVE  /\ a.table # b.table
                 /\ \A k, l \in 1..n :
                      (a.table = EmittedName[Source[k]] /\ b.table = EmittedName[Source[l]]) => k <= l
      <4>1. a.table = EmittedName[Source[i]] /\ b.table = EmittedName[Source[j]]
        BY <2>1, <3>3
      <4>2. \A k, l \in 1..n : EmittedName[Source[k]] = EmittedName[Source[l]] => k = l
        BY <1>1, <1>7 DEF EmittedNamesDiffer
      <4>3. i # j
        BY <1>1, <2>5
      <4>4. a.table # b.table
        BY <4>1, <4>2, <4>3
      <4>5. ASSUME NEW k \in 1..n, NEW l \in 1..n,
                   a.table = EmittedName[Source[k]], b.table = EmittedName[Source[l]]
            PROVE  k <= l
        <5>1. k = i /\ l = j
          BY <4>1, <4>2, <4>5
        <5> QED
          BY <1>1, <2>5, <5>1
      <4> QED
        BY <4>4, <4>5
    <3> QED
      BY <3>1, <3>2, <3>3 DEF MayPrecede
  <2>6. Ordered(refs, loads)
    BY <1>4, <1>7, <2>5
  <2> QED
    BY <2>2, <2>4, <2>6 DEF LoadsData
<1> QED
  BY <1>6, <1>7 DEF loads

(* What a script of no statement, and of one, loads.                       *)
LEMMA ShortLoads ==
  ASSUME NEW n
  PROVE  /\ LoadedBy({}, n) = {}
         /\ \A rows : LoadedBy({Load(n, rows)}, n) = rows
         /\ \A t : LoadedBy({LoadNothing(t)}, n) = {}
<1>1. ASSUME NEW rows PROVE LoadedBy({Load(n, rows)}, n) = rows
  <2>1. Load(n, rows).kind = "load" /\ Load(n, rows).table = n /\ Load(n, rows).rows = rows
    BY Fields
  <2> QED
    BY <2>1 DEF LoadedBy
<1>2. ASSUME NEW t PROVE LoadedBy({LoadNothing(t)}, n) = {}
  <2>1. LoadNothing(t).kind = "nothing"
    BY Fields
  <2> QED
    BY <2>1 DEF LoadedBy
<1> QED
  BY <1>1, <1>2 DEF LoadedBy

(* bulk_load brings each table its rows if no table changes its name.      *)
LEMMA BulkLoading ==
  ASSUME NEW refs, NEW data, \A t \in Tables : data[t] \in Read(t)
  PROVE  /\ IsLoading(BulkLoads(data))
         /\ KeepsNames => LoadsData(refs, BulkLoads(data), data)
<1> DEFINE Of(t) == IF Limit[t] = 0 THEN << >>
                    ELSE IF data[t] = {} THEN <<LoadNothing(RawName[t])>>
                    ELSE <<Load(RawName[t], data[t])>>
           ss == [i \in 1..Len(Source) |-> Of(Source[i])]
<1>1. BulkLoads(data) = FlattenSeq(ss)
  BY DEF BulkLoads, ForEachSelected, Skipped, ForEachTable, ForEach
<1>2. \A i \in 1..Len(Source) : ss[i] = Of(Source[i]) /\ Source[i] \in Tables
  BY Listed
<1>3. ss = [i \in 1..Len(Source) |-> ss[i]]
  OBVIOUS
<1>4. ASSUME NEW t \in Tables
      PROVE  /\ IsLoading(Of(t)) /\ Ordered(refs, Of(t))
             /\ KeepsNames =>
                  /\ \A s \in Statements(Of(t)) : s.kind = "load" => s.table = EmittedName[t]
                  /\ LoadedBy(Statements(Of(t)), EmittedName[t]) = data[t]
  <2>1. CASE Limit[t] = 0
    <3>1. Of(t) = << >> /\ data[t] = {}
      BY <2>1, Unselected
    <3> HIDE DEF Of
    <3> QED
      BY <3>1, Short, ShortLoads DEF IsLoading
  <2>2. CASE Limit[t] # 0 /\ data[t] = {}
    <3>1. Of(t) = <<LoadNothing(RawName[t])>>
      BY <2>2
    <3>2. LoadNothing(RawName[t]).kind = "nothing"
      BY Fields
    <3> HIDE DEF Of
    <3>3. /\ IsScript(Of(t)) /\ Ordered(refs, Of(t))
          /\ Statements(Of(t)) = {LoadNothing(RawName[t])}
      BY <3>1, Short
    <3>4. LoadedBy({LoadNothing(RawName[t])}, EmittedName[t]) = {}
      BY ShortLoads
    <3> QED
      BY <2>2, <3>2, <3>3, <3>4 DEF IsLoading
  <2>3. CASE Limit[t] # 0 /\ data[t] # {}
    <3>1. Of(t) = <<Load(RawName[t], data[t])>>
      BY <2>3
    <3>2. /\ Load(RawName[t], data[t]).kind = "load"
          /\ Load(RawName[t], data[t]).table = RawName[t]
      BY Fields
    <3>3. KeepsNames => RawName[t] = EmittedName[t]
      BY DEF KeepsNames
    <3> HIDE DEF Of
    <3>4. /\ IsScript(Of(t)) /\ Ordered(refs, Of(t))
          /\ Statements(Of(t)) = {Load(RawName[t], data[t])}
      BY <3>1, Short
    <3>5. KeepsNames => LoadedBy({Load(RawName[t], data[t])}, EmittedName[t]) = data[t]
      BY <3>3, ShortLoads
    <3> QED
      BY <3>2, <3>3, <3>4, <3>5 DEF IsLoading
  <2> QED
    BY <2>1, <2>2, <2>3
<1>5. KeepsNames => EmittedNamesDiffer
  BY DEF KeepsNames
<1> HIDE DEF Of, ss
<1> QED
  BY <1>1, <1>2, <1>3, <1>4, <1>5, Loading

(* So do the COPY blocks and the INSERT statements of a dump.              *)
LEMMA DumpLoading ==
  ASSUME NEW refs, NEW data, NEW format, \A t \in Tables : data[t] \in Read(t)
  PROVE  /\ IsLoading(EmitData(data, format))
         /\ EmittedNamesDiffer => LoadsData(refs, EmitData(data, format), data)
<1> DEFINE Rows(t) == ForEach(SetToSeq(data[t]), LAMBDA r : Load(EmittedName[t], {r}))
           Of(t) == IF Limit[t] = 0 THEN << >>
                    ELSE IF format = "copy" /\ Target = "postgres"
                    THEN <<Load(EmittedName[t], data[t])>>
                    ELSE Rows(t)
           ss == [i \in 1..Len(Source) |-> Of(Source[i])]
           Right(t, s) == /\ IsLoading(s)
                          /\ EmittedNamesDiffer => Ordered(refs, s)
                          /\ \A u \in Statements(s) : u.kind = "load" => u.table = EmittedName[t]
                          /\ LoadedBy(Statements(s), EmittedName[t]) = data[t]
<1>1. EmitData(data, format) = FlattenSeq(ss)
  BY DEF EmitData, ForEachSelected, Skipped, ForEachTable, ForEach
<1>2. \A i \in 1..Len(Source) : ss[i] = Of(Source[i]) /\ Source[i] \in Tables
  BY Listed
<1>3. ss = [i \in 1..Len(Source) |-> ss[i]]
  OBVIOUS
<1>4. ASSUME NEW t \in Tables PROVE Right(t, Rows(t))
  <2> DEFINE e == SetToSeq(data[t])
             f == Rows(t)
             n == Len(e)
  <2>1. IsFiniteSet(data[t])
    BY ReadFinite
  <2>2. f = [i \in 1..n |-> Load(EmittedName[t], {e[i]})]
    BY DEF ForEach
  <2>3. {e[i] : i \in 1..n} = data[t] /\ \A i, j \in 1..n : e[i] = e[j] => i = j
    BY <2>1, Enumeration
  <2> HIDE DEF Rows
  <2>4. f = [i \in 1..n |-> f[i]]
    BY <2>2
  <2>5. IsScript(f) /\ Len(f) = n /\ Statements(f) = {f[i] : i \in 1..n}
    BY <2>1, <2>4, Enumerated
  <2>6. \A i \in 1..n : f[i] = Load(EmittedName[t], {e[i]})
    BY <2>2
  <2> HIDE DEF e, f
  <2>7. ASSUME NEW i \in 1..n
        PROVE  f[i].kind = "load" /\ f[i].table = EmittedName[t] /\ f[i].rows = {e[i]}
    <3>1. f[i] = Load(EmittedName[t], {e[i]})
      BY <2>6
    <3> QED
      BY <3>1, Fields
  <2>8. IsLoading(f) /\ \A u \in Statements(f) : u.kind = "load" => u.table = EmittedName[t]
    BY <2>5, <2>7 DEF IsLoading
  <2>9. ASSUME EmittedNamesDiffer, NEW i \in 1..n, NEW j \in 1..n, i < j
        PROVE  MayPrecede(refs, f[i], f[j])
    <3>1. n \in Nat
      BY <2>1, Enumeration DEF e
    <3>2. f[i].rows \cap f[j].rows = {}
      <4>1. i # j
        BY <2>9, <3>1
      <4> QED
        BY <2>3, <2>7, <4>1
    <3>3. ASSUME NEW k \in 1..Len(Source), NEW l \in 1..Len(Source),
                 f[i].table = EmittedName[Source[k]], f[j].table = EmittedName[Source[l]]
          PROVE  k <= l
      <4>1. Source[k] = Source[l]
        BY <2>7, <2>9, <3>3, Listed DEF EmittedNamesDiffer
      <4>2. k = l
        BY <4>1, Listed
      <4> QED
        BY <4>2, Listed
    <3>4. f[i].kind = "load" /\ f[j].kind = "load"
      BY <2>7
    <3> QED
      BY <3>2, <3>3, <3>4 DEF MayPrecede, Rank
  <2>10. EmittedNamesDiffer => Ordered(refs, f)
    BY <2>5, <2>9 DEF Ordered
  <2>11. LoadedBy(Statements(f), EmittedName[t]) = data[t]
    <3>1. ASSUME NEW r \in data[t] PROVE r \in LoadedBy(Statements(f), EmittedName[t])
      <4>1. PICK i \in 1..n : r = e[i]
        BY <2>3
      <4> QED
        BY <2>5, <2>7, <4>1 DEF LoadedBy
    <3>2. ASSUME NEW r \in LoadedBy(Statements(f), EmittedName[t]) PROVE r \in data[t]
      <4>1. PICK i \in 1..n : r \in f[i].rows
        BY <2>5 DEF LoadedBy
      <4> QED
        BY <2>3, <2>7, <4>1
    <3> QED
      BY <3>1, <3>2
  <2> QED
    BY <2>8, <2>10, <2>11 DEF f
<1>5. ASSUME NEW t \in Tables PROVE Right(t, Of(t))
  <2> HIDE DEF Rows
  <2>1. CASE Limit[t] = 0
    <3>1. Of(t) = << >> /\ data[t] = {}
      BY <2>1, Unselected
    <3> HIDE DEF Of
    <3> QED
      BY <3>1, Short, ShortLoads DEF IsLoading
  <2>2. CASE Limit[t] # 0 /\ format = "copy" /\ Target = "postgres"
    <3>1. Of(t) = <<Load(EmittedName[t], data[t])>>
      BY <2>2
    <3>2. /\ Load(EmittedName[t], data[t]).kind = "load"
          /\ Load(EmittedName[t], data[t]).table = EmittedName[t]
      BY Fields
    <3> HIDE DEF Of
    <3>3. /\ IsScript(Of(t)) /\ Ordered(refs, Of(t))
          /\ Statements(Of(t)) = {Load(EmittedName[t], data[t])}
      BY <3>1, Short
    <3>4. LoadedBy({Load(EmittedName[t], data[t])}, EmittedName[t]) = data[t]
      BY ShortLoads
    <3> QED
      BY <3>2, <3>3, <3>4 DEF IsLoading
  <2>3. CASE Limit[t] # 0 /\ ~(format = "copy" /\ Target = "postgres")
    <3>1. Of(t) = Rows(t)
      BY <2>3
    <3> HIDE DEF Of, Right
    <3> QED
      BY <1>4, <3>1
  <2> QED
    BY <2>1, <2>2, <2>3
<1> HIDE DEF Of, ss
<1> QED
  BY <1>1, <1>2, <1>3, <1>5, Loading

-----------------------------------------------------------------------------
(* The script of a load.                                                   *)

(* A statement of an earlier stage may always come before one of a later.  *)
LEMMA Appending ==
  ASSUME NEW refs, NEW s, NEW u, IsScript(s), IsScript(u),
         \A a \in Statements(s), b \in Statements(u) :
           Rank(a) \in Nat /\ Rank(b) \in Nat /\ Rank(a) < Rank(b)
  PROVE  /\ IsScript(s \o u)
         /\ Statements(s \o u) = Statements(s) \cup Statements(u)
         /\ (Ordered(refs, s) /\ Ordered(refs, u)) => Ordered(refs, s \o u)
<1>1. ASSUME NEW a \in Statements(s), NEW b \in Statements(u)
      PROVE  MayPrecede(refs, a, b)
  <2>1. Rank(a) <= Rank(b) /\ Rank(a) # Rank(b)
    OBVIOUS
  <2>2. a.kind # b.kind
    BY <2>1 DEF Rank
  <2> QED
    BY <2>1, <2>2 DEF MayPrecede
<1> QED
  BY <1>1, Concatenation

(* The stage of each kind of statement.                                    *)
LEMMA Stages ==
  ASSUME NEW s
  PROVE  /\ s.kind = "schema" => Rank(s) = 0
         /\ s.kind = "drop" => Rank(s) = 1
         /\ s.kind \in {"truncate", "reseed"} => Rank(s) = 2
         /\ s.kind = "create" => Rank(s) = 3
         /\ s.kind \in {"load", "nothing"} => Rank(s) = 4
         /\ s.kind = "key" => Rank(s) = 5
         /\ s.kind = "index" => Rank(s) = 6
  BY DEF Rank

DropsOf(mode) ==
  IF mode = "drop" THEN {DropTable(EmittedName[t]) : t \in Tables} ELSE {}

(* What a script executes before it loads anything.                        *)
Preparation(mode, order) ==
  IF mode = "truncate"
  THEN EmitTruncates(order)
  ELSE EmitSchemas \o (IF mode = "drop" THEN EmitDrops(order) ELSE << >>) \o EmitTables

(* Its statements.                                                         *)
LEMMA PreparingStatements ==
  ASSUME NEW mode, NEW refs, NEW order, ValidOrder(refs, order)
  PROVE  LET s == Preparation(mode, order)
         IN  /\ IsScript(s)
             /\ \A x \in Statements(s) : x.kind \in {"schema", "drop", "truncate", "reseed", "create"}
             /\ EmittedNamesDiffer => Ordered(refs, s)
             /\ Managed \subseteq CreatedBy(Statements(s)) \cup TruncatedBy(Statements(s))
             /\ mode # "truncate" =>
                  Statements(s) = {CreateSchema(EmittedName[t][1]) : t \in Tables} \cup DropsOf(mode)
                                  \cup {Creation(t) : t \in Tables}
<1> DEFINE p == Preparation(mode, order)
           D == Statements(p)
<1>1. CASE mode = "truncate"
  <2>1. /\ IsScript(p) /\ Ordered(refs, p)
        /\ \A x : x \in D <=> IsTruncation(x)
    BY <1>1, Truncates DEF Preparation
  <2> HIDE DEF p
  <2>2. \A x \in D : x.kind \in {"truncate", "reseed"}
    BY <2>1, TruncationFields
  <2>3. ASSUME NEW t \in Tables PROVE EmittedName[t] \in TruncatedBy(D)
    <3>1. \E T : IsTruncation(Truncate(T)) /\ EmittedName[t] \in T
      BY AllTruncated
    <3>2. \E T : Truncate(T) \in D /\ EmittedName[t] \in T
      BY <2>1, <3>1
    <3> HIDE DEF D
    <3> QED
      BY <3>2, Fields DEF TruncatedBy
  <2>4. \A x \in D : x.kind \in {"schema", "drop", "truncate", "reseed", "create"}
    BY <2>2
  <2>5. Managed \subseteq CreatedBy(D) \cup TruncatedBy(D)
    BY <2>3 DEF Managed
  <2> QED
    BY <1>1, <2>1, <2>4, <2>5 DEF p
<1>2. CASE mode # "truncate"
  <2> DEFINE d == IF mode = "drop" THEN EmitDrops(order) ELSE << >>
             s1 == EmitSchemas \o d
  <2>1. p = s1 \o EmitTables
    BY <1>2 DEF Preparation
  <2>2. /\ IsScript(d) /\ Statements(d) = DropsOf(mode)
        /\ EmittedNamesDiffer => Ordered(refs, d)
    BY Drops, Short DEF DropsOf
  <2>3. /\ \A x \in Statements(EmitSchemas) : x.kind = "schema"
        /\ \A x \in Statements(d) : x.kind = "drop"
        /\ \A x \in Statements(EmitTables) : x.kind = "create"
    BY <2>2, Schemas, Creates, Created, Fields DEF DropsOf
  <2> HIDE DEF d, s1, p
  <2>4. /\ IsScript(s1) /\ Statements(s1) = Statements(EmitSchemas) \cup Statements(d)
        /\ EmittedNamesDiffer => Ordered(refs, s1)
        /\ \A x \in Statements(s1) : x.kind \in {"schema", "drop"} /\ Rank(x) \in 0..1
    <3>1. \A b \in Statements(d) : Rank(b) = 1
      BY <2>3, Stages
    <3>2. \A a \in Statements(EmitSchemas) : Rank(a) = 0
      BY <2>3, Stages
    <3>3. /\ IsScript(s1) /\ Statements(s1) = Statements(EmitSchemas) \cup Statements(d)
          /\ EmittedNamesDiffer => Ordered(refs, s1)
      <4>1. \A a \in Statements(EmitSchemas), b \in Statements(d) :
              Rank(a) \in Nat /\ Rank(b) \in Nat /\ Rank(a) < Rank(b)
        BY <3>1, <3>2
      <4> QED
        BY <2>2, Schemas, <4>1, Appending DEF s1
    <3> QED
      BY <2>3, <3>1, <3>2, <3>3
  <2>5. /\ IsScript(p) /\ D = Statements(s1) \cup Statements(EmitTables)
        /\ EmittedNamesDiffer => Ordered(refs, p)
    <3>1. \A b \in Statements(EmitTables) : Rank(b) = 3
      BY <2>3, Stages
    <3>2. \A a \in Statements(s1), b \in Statements(EmitTables) :
            Rank(a) \in Nat /\ Rank(b) \in Nat /\ Rank(a) < Rank(b)
      BY <2>4, <3>1
    <3> QED
      BY <2>1, <2>4, Creates, <3>2, Appending
  <2>6. \A x \in D : x.kind \in {"schema", "drop", "create"}
    BY <2>3, <2>4, <2>5
  <2>7. ASSUME NEW t \in Tables PROVE EmittedName[t] \in CreatedBy(D)
    <3>1. Creation(t) \in D
      BY <2>5, Creates
    <3> HIDE DEF D
    <3> QED
      BY <3>1, Created DEF CreatedBy
  <2>8. D = {CreateSchema(EmittedName[t][1]) : t \in Tables} \cup DropsOf(mode)
            \cup {Creation(t) : t \in Tables}
    BY <2>2, <2>4, <2>5, Schemas, Creates
  <2>9. Managed \subseteq CreatedBy(D) \cup TruncatedBy(D)
    BY <2>7 DEF Managed
  <2> QED
    BY <2>5, <2>6, <2>8, <2>9 DEF p
<1> QED
  BY <1>1, <1>2

(* What each mode executes.                                                *)
Contents(mode, refs, order, loads) ==
  IF mode = "truncate"
  THEN Statements(EmitTruncates(order)) \cup Statements(loads)
  ELSE {CreateSchema(EmittedName[t][1]) : t \in Tables} \cup DropsOf(mode)
       \cup {Creation(t) : t \in Tables}
       \cup Statements(loads)
       \cup Statements(EmitForeignKeys(refs))
       \cup {CreateIndex(EmittedName[t], IndexName[t]) : t \in Tables}

(* The statements of a script, all of them in their order.                 *)
LEMMA WholeScript ==
  ASSUME NEW mode, NEW refs, NEW order, ValidOrder(refs, order), NEW loads, IsLoading(loads)
  PROVE  LET script == Script(mode, refs, order, loads)
         IN  /\ IsScript(script)
             /\ Statements(script) = Contents(mode, refs, order, loads)
             /\ \A s \in Statements(script) : s.kind \in Kinds
             /\ (EmittedNamesDiffer /\ Ordered(refs, loads)) => Ordered(refs, script)
<1> DEFINE script == Script(mode, refs, order, loads)
<1>1. IsScript(loads) /\ \A s \in Statements(loads) : Rank(s) = 4 /\ s.kind \in Kinds
  BY Stages DEF IsLoading, Kinds
<1>2. CASE mode = "truncate"
  <2> DEFINE u == EmitTruncates(order)
  <2>1. script = u \o loads
    BY <1>2 DEF Script
  <2>2. /\ IsScript(u) /\ Ordered(refs, u)
        /\ \A s \in Statements(u) : s.kind \in {"truncate", "reseed"}
    BY Truncates, TruncationFields
  <2>3. \A s \in Statements(u) : Rank(s) = 2
    BY <2>2, Stages
  <2> HIDE DEF u
  <2>4. /\ IsScript(script)
        /\ Statements(script) = Statements(u) \cup Statements(loads)
        /\ Ordered(refs, loads) => Ordered(refs, script)
    <3>1. \A a \in Statements(u), b \in Statements(loads) :
            Rank(a) \in Nat /\ Rank(b) \in Nat /\ Rank(a) < Rank(b)
      BY <1>1, <2>3
    <3> HIDE DEF script
    <3> QED
      BY <1>1, <2>1, <2>2, <3>1, Appending
  <2>5. \A s \in Statements(script) : s.kind \in Kinds
    BY <1>1, <2>2, <2>4 DEF Kinds
  <2> QED
    BY <1>2, <2>4, <2>5 DEF Contents, u
<1>3. CASE mode # "truncate"
  <2> DEFINE s2 == Preparation(mode, order)
             s3 == s2 \o loads
             s4 == s3 \o EmitForeignKeys(refs)
  <2>1. script = s4 \o EmitIndexes
    BY <1>3 DEF Script, Preparation
  <2>2. /\ IsScript(s2)
        /\ \A a \in Statements(s2) : a.kind \in {"schema", "drop", "truncate", "reseed", "create"}
        /\ EmittedNamesDiffer => Ordered(refs, s2)
        /\ Statements(s2) = {CreateSchema(EmittedName[t][1]) : t \in Tables} \cup DropsOf(mode)
                            \cup {Creation(t) : t \in Tables}
    BY <1>3, PreparingStatements
  <2>3. /\ \A s \in Statements(EmitForeignKeys(refs)) : s.kind = "key"
        /\ \A s \in Statements(EmitIndexes) : s.kind = "index"
    BY KeysAdded, Indexed, Fields
  <2> HIDE DEF s2, s3, s4
  <2>4. \A a \in Statements(s2) : Rank(a) \in 0..3
    BY <2>2, Stages
  <2>5. /\ IsScript(s3) /\ Statements(s3) = Statements(s2) \cup Statements(loads)
        /\ (EmittedNamesDiffer /\ Ordered(refs, loads)) => Ordered(refs, s3)
        /\ \A a \in Statements(s3) : Rank(a) \in 0..4
    <3>1. \A b \in Statements(loads) : Rank(b) = 4
      BY <1>1
    <3>2. \A a \in Statements(s2), b \in Statements(loads) :
            Rank(a) \in Nat /\ Rank(b) \in Nat /\ Rank(a) < Rank(b)
      BY <2>4, <3>1
    <3>3. /\ IsScript(s3) /\ Statements(s3) = Statements(s2) \cup Statements(loads)
          /\ (EmittedNamesDiffer /\ Ordered(refs, loads)) => Ordered(refs, s3)
      BY <1>1, <2>2, <3>2, Appending DEF s3
    <3> QED
      BY <2>4, <3>1, <3>3
  <2>6. /\ IsScript(s4) /\ Statements(s4) = Statements(s3) \cup Statements(EmitForeignKeys(refs))
        /\ (EmittedNamesDiffer /\ Ordered(refs, loads)) => Ordered(refs, s4)
        /\ \A a \in Statements(s4) : Rank(a) \in 0..5
    <3>1. \A b \in Statements(EmitForeignKeys(refs)) : Rank(b) = 5
      BY <2>3, Stages
    <3>2. \A a \in Statements(s3), b \in Statements(EmitForeignKeys(refs)) :
            Rank(a) \in Nat /\ Rank(b) \in Nat /\ Rank(a) < Rank(b)
      BY <2>5, <3>1
    <3>3. /\ IsScript(s4) /\ Statements(s4) = Statements(s3) \cup Statements(EmitForeignKeys(refs))
          /\ (EmittedNamesDiffer /\ Ordered(refs, loads)) => Ordered(refs, s4)
      BY <2>5, KeysAdded, <3>2, Appending DEF s4
    <3> QED
      BY <2>5, <3>1, <3>3
  <2>7. /\ IsScript(script) /\ Statements(script) = Statements(s4) \cup Statements(EmitIndexes)
        /\ (EmittedNamesDiffer /\ Ordered(refs, loads)) => Ordered(refs, script)
    <3>1. \A b \in Statements(EmitIndexes) : Rank(b) = 6
      BY <2>3, Stages
    <3>2. \A a \in Statements(s4), b \in Statements(EmitIndexes) :
            Rank(a) \in Nat /\ Rank(b) \in Nat /\ Rank(a) < Rank(b)
      BY <2>6, <3>1
    <3> HIDE DEF script
    <3> QED
      BY <2>1, <2>6, Indexed, <3>2, Appending
  <2>8. Statements(script) =
          Statements(s2) \cup Statements(loads)
          \cup Statements(EmitForeignKeys(refs)) \cup Statements(EmitIndexes)
    BY <2>5, <2>6, <2>7
  <2>9. \A s \in Statements(script) : s.kind \in Kinds
    BY <1>1, <2>2, <2>3, <2>8 DEF Kinds
  <2>10. Statements(script) = Contents(mode, refs, order, loads)
    BY <1>3, <2>2, <2>8, Indexed DEF Contents
  <2> QED
    BY <2>7, <2>9, <2>10
<1> QED
  BY <1>2, <1>3

(* What the statements of a script do together, in TRUNCATE mode.          *)
LEMMA TruncateDeeds ==
  ASSUME NEW refs, NEW order, ValidOrder(refs, order), NEW loads, NEW data,
         IsLoading(loads), LoadsData(refs, loads, data),
         NEW D, D = Contents("truncate", refs, order, loads)
  PROVE  /\ SchemasOf(D) = {} /\ DroppedBy(D) = {} /\ CreatedBy(D) = {}
         /\ TruncatedBy(D) = Managed
         /\ KeysOf(D) = {} /\ IndexesOf(D) = {} /\ IdentitiesOf(D) = {}
         /\ \A t \in Tables : LoadedBy(D, EmittedName[t]) = data[t]
         /\ \A n : n \notin Managed => LoadedBy(D, n) = {}
<1> DEFINE T == Statements(EmitTruncates(order))
           L == Statements(loads)
<1>1. D = T \cup L
  BY DEF Contents
<1>2. \A s \in L : s.kind \in {"load", "nothing"}
  BY DEF IsLoading
<1>3. /\ \A s : s \in T <=> IsTruncation(s)
      /\ \A s \in T : s.kind = "reseed" \/ (s.kind = "truncate" /\ s.tables \subseteq Managed)
  <2>1. \A s : s \in T <=> IsTruncation(s)
    BY Truncates
  <2> QED
    BY <2>1, TruncationFields
<1>4. ASSUME NEW t \in Tables
      PROVE  \E s \in T : s.kind = "truncate" /\ EmittedName[t] \in s.tables
  <2>1. \E n : IsTruncation(Truncate(n)) /\ EmittedName[t] \in n
    BY AllTruncated
  <2>2. \A n : Truncate(n).kind = "truncate" /\ Truncate(n).tables = n
    BY Fields
  <2> QED
    BY <1>3, <2>1, <2>2
<1>5. \A s \in L : s.kind = "load" => \E t \in Tables : s.table = EmittedName[t]
  BY DEF LoadsData
<1>6. \A t \in Tables : LoadedBy(L, EmittedName[t]) = data[t]
  BY DEF LoadsData
<1> HIDE DEF T, L
<1>7. \A s \in D : s.kind = "truncate" => s \in T
  BY <1>1, <1>2, <1>3
<1>8. \A s \in D : s.kind \in {"truncate", "reseed", "load", "nothing"}
  BY <1>1, <1>2, <1>3
<1>9. /\ SchemasOf(D) = {} /\ DroppedBy(D) = {} /\ CreatedBy(D) = {}
      /\ KeysOf(D) = {} /\ IndexesOf(D) = {} /\ IdentitiesOf(D) = {}
  BY <1>8 DEF SchemasOf, DroppedBy, CreatedBy, KeysOf, IndexesOf, IdentitiesOf
<1>10. TruncatedBy(D) = Managed
  <2>1. TruncatedBy(D) \subseteq Managed
    BY <1>1, <1>3, <1>7 DEF TruncatedBy
  <2>2. ASSUME NEW t \in Tables PROVE EmittedName[t] \in TruncatedBy(D)
    BY <1>1, <1>3, <1>4 DEF TruncatedBy
  <2> QED
    BY <2>1, <2>2 DEF Managed
<1>11. \A n : LoadedBy(D, n) = LoadedBy(L, n)
  <2>1. \A s \in D : s.kind = "load" <=> s \in L /\ s.kind = "load"
    BY <1>1, <1>3
  <2> QED
    BY <1>1, <2>1 DEF LoadedBy
<1>12. \A n : n \notin Managed => LoadedBy(L, n) = {}
  BY <1>5 DEF LoadedBy, Managed
<1> QED
  BY <1>6, <1>9, <1>10, <1>11, <1>12

Recreates(mode) == mode # "truncate"

DroppedIn(mode) == IF mode = "drop" THEN Managed ELSE {}

IndexesMade == {<<EmittedName[t], IndexName[t]>> : t \in Tables}

IdentitiesMade == {EmittedName[t] : t \in Identities}

(* What they do in the other modes.                                        *)
LEMMA CreateDeeds ==
  ASSUME NEW mode, Recreates(mode),
         NEW refs, NEW order, NEW loads, NEW data,
         IsLoading(loads), LoadsData(refs, loads, data),
         NEW D, D = Contents(mode, refs, order, loads)
  PROVE  /\ SchemasOf(D) = {EmittedName[t][1] : t \in Tables}
         /\ DroppedBy(D) = DroppedIn(mode)
         /\ CreatedBy(D) = Managed
         /\ TruncatedBy(D) = {}
         /\ KeysOf(D) = Keys(refs)
         /\ IndexesOf(D) = IndexesMade
         /\ IdentitiesOf(D) = IdentitiesMade
         /\ \A t \in Tables : LoadedBy(D, EmittedName[t]) = data[t]
         /\ \A n : n \notin Managed => LoadedBy(D, n) = {}
<1> DEFINE L == Statements(loads)
           K == Statements(EmitForeignKeys(refs))
<1>1. \A s : s \in D <=> \/ \E t \in Tables : s = CreateSchema(EmittedName[t][1])
                         \/ mode = "drop" /\ \E t \in Tables : s = DropTable(EmittedName[t])
                         \/ \E t \in Tables : s = Creation(t)
                         \/ s \in L
                         \/ s \in K
                         \/ \E t \in Tables : s = CreateIndex(EmittedName[t], IndexName[t])
  BY DEF Contents, DropsOf, Recreates
<1>2. /\ \A s \in L : s.kind \in {"load", "nothing"}
      /\ \A s \in L : s.kind = "load" => \E t \in Tables : s.table = EmittedName[t]
      /\ \A t \in Tables : LoadedBy(L, EmittedName[t]) = data[t]
  BY DEF IsLoading, LoadsData
<1>3. /\ \A s \in K : s.kind = "key"
      /\ \A s : s \in K <=> \E t \in Tables : \E p \in refs[t] \cap Tables :
                               s = ForeignKey(t, p)
  BY KeysAdded
<1> HIDE DEF L, K
<1>4. SchemasOf(D) = {EmittedName[t][1] : t \in Tables}
  <2>1. \A s \in D : s.kind = "schema" => \E t \in Tables : s = CreateSchema(EmittedName[t][1])
    BY <1>1, <1>2, <1>3, Created, Fields
  <2>2. \A t \in Tables : CreateSchema(EmittedName[t][1]) \in D
    BY <1>1
  <2> QED
    BY <2>1, <2>2, Fields DEF SchemasOf
<1>5. DroppedBy(D) = DroppedIn(mode)
  <2>1. \A s \in D : s.kind = "drop" =>
          mode = "drop" /\ \E t \in Tables : s = DropTable(EmittedName[t])
    BY <1>1, <1>2, <1>3, Created, Fields
  <2>2. mode = "drop" => \A t \in Tables : DropTable(EmittedName[t]) \in D
    BY <1>1
  <2> QED
    BY <2>1, <2>2, Fields DEF DroppedBy, DroppedIn, Managed
<1>6. CreatedBy(D) = Managed /\ IdentitiesOf(D) = IdentitiesMade
  <2>1. \A s \in D : s.kind = "create" => \E t \in Tables : s = Creation(t)
    BY <1>1, <1>2, <1>3, Created, Fields
  <2>2. \A t \in Tables : Creation(t) \in D
    BY <1>1
  <2>3. CreatedBy(D) = Managed
    BY <2>1, <2>2, Created DEF CreatedBy, Managed
  <2>4. ASSUME NEW n, n \in IdentitiesOf(D) PROVE n \in IdentitiesMade
    <3>1. PICK s \in D : s.kind = "create" /\ s.identity /\ n = s.table
      BY <2>4 DEF IdentitiesOf
    <3>2. PICK t \in Tables : s = Creation(t)
      BY <2>1, <3>1
    <3>3. t \in Identities /\ n = EmittedName[t]
      BY <3>1, <3>2, Created
    <3> QED
      BY <3>3 DEF IdentitiesMade
  <2>5. ASSUME NEW t \in Identities PROVE EmittedName[t] \in IdentitiesOf(D)
    <3>1. Creation(t) \in D
      BY <2>2, ScriptAssumption
    <3>2. /\ Creation(t).kind = "create"
          /\ Creation(t).identity
          /\ Creation(t).table = EmittedName[t]
      BY Created
    <3> QED
      BY <3>1, <3>2 DEF IdentitiesOf
  <2>6. IdentitiesOf(D) = IdentitiesMade
    BY <2>4, <2>5 DEF IdentitiesMade
  <2> QED
    BY <2>3, <2>6
<1>7. TruncatedBy(D) = {}
  <2>1. \A s \in D : s.kind # "truncate"
    BY <1>1, <1>2, <1>3, Created, Fields
  <2> QED
    BY <2>1 DEF TruncatedBy
<1>8. KeysOf(D) = Keys(refs)
  <2>1. \A s \in D : s.kind = "key" <=> s \in K
    BY <1>1, <1>2, <1>3, Created, Fields
  <2>2. \A s \in K : s \in D
    BY <1>1
  <2>3. ASSUME NEW t \in Tables, NEW p \in refs[t] \cap Tables
        PROVE  <<EmittedName[t], EmittedName[p]>> \in KeysOf(D)
    <3>1. ForeignKey(t, p) \in D
      BY <1>3, <2>2
    <3>2. /\ ForeignKey(t, p).kind = "key"
          /\ ForeignKey(t, p).table = EmittedName[t]
          /\ ForeignKey(t, p).parent = EmittedName[p]
      BY KeyFields
    <3> QED
      BY <3>1, <3>2 DEF KeysOf
  <2>4. ASSUME NEW s \in D, s.kind = "key" PROVE <<s.table, s.parent>> \in Keys(refs)
    <3>0. PICK t \in Tables :
            \E p \in refs[t] \cap Tables : s = ForeignKey(t, p)
      BY <1>3, <2>1, <2>4
    <3>1. PICK p \in refs[t] \cap Tables : s = ForeignKey(t, p)
      BY <3>0
    <3>2. s.table = EmittedName[t] /\ s.parent = EmittedName[p]
      BY <3>1, KeyFields
    <3> QED
      BY <3>2 DEF Keys
  <2> QED
    BY <2>3, <2>4 DEF KeysOf, Keys
<1>9. IndexesOf(D) = IndexesMade
  <2>1. \A s \in D : s.kind = "index" =>
          \E t \in Tables : s = CreateIndex(EmittedName[t], IndexName[t])
    BY <1>1, <1>2, <1>3, Created, Fields
  <2>2. \A t \in Tables : CreateIndex(EmittedName[t], IndexName[t]) \in D
    BY <1>1
  <2> QED
    BY <2>1, <2>2, Fields DEF IndexesOf, IndexesMade
<1>10. \A n : LoadedBy(D, n) = LoadedBy(L, n)
  <2>1. \A s \in D : s.kind = "load" => s \in L
    BY <1>1, <1>3, Created, Fields
  <2>2. \A s \in L : s \in D
    BY <1>1
  <2> QED
    BY <2>1, <2>2 DEF LoadedBy
<1>11. \A n : n \notin Managed => LoadedBy(L, n) = {}
  BY <1>2 DEF LoadedBy, Managed
<1> QED
  BY <1>2, <1>4, <1>5, <1>6, <1>7, <1>8, <1>9, <1>10, <1>11

-----------------------------------------------------------------------------
(* A target that has accepted the whole script holds what was read.        *)
LEMMA Copies ==
  ASSUME NEW mode, NEW refs, NEW order, ValidOrder(refs, order), NEW loads, NEW data,
         IsLoading(loads), LoadsData(refs, loads, data), EmittedNamesDiffer,
         NEW before, IsDatabase(before),
         NEW db, Effect(before, Contents(mode, refs, order, loads), db)
  PROVE  Faithful(before, db, mode, refs, data)
<1> DEFINE D == Contents(mode, refs, order, loads)
<1>1. /\ Existing(db) = (Existing(before) \ DroppedBy(D)) \cup CreatedBy(D)
      /\ \A n \in Existing(db) :
           db.rows[n] = (IF n \in CreatedBy(D) \cup TruncatedBy(D) THEN {} ELSE before.rows[n])
                        \cup LoadedBy(D, n)
      /\ db.keys = {key \in before.keys : key[1] \notin DroppedBy(D)} \cup KeysOf(D)
      /\ db.indexes = {index \in before.indexes : index[1] \notin DroppedBy(D)} \cup IndexesOf(D)
      /\ db.identity = (before.identity \ DroppedBy(D)) \cup IdentitiesOf(D)
      /\ CreatedBy(D) \cap (Existing(before) \ DroppedBy(D)) = {}
      /\ TruncatedBy(D) \subseteq Existing(db)
  BY DEF Effect
<1>2. \A t \in Tables : EmittedName[t] \in Managed
  BY DEF Managed
<1>d. D = Contents(mode, refs, order, loads)
  OBVIOUS
<1> HIDE DEF D
<1>3. CASE mode = "truncate"
  <2>1. /\ DroppedBy(D) = {} /\ CreatedBy(D) = {} /\ TruncatedBy(D) = Managed
        /\ KeysOf(D) = {} /\ IndexesOf(D) = {} /\ IdentitiesOf(D) = {}
        /\ \A t \in Tables : LoadedBy(D, EmittedName[t]) = data[t]
        /\ \A n : n \notin Managed => LoadedBy(D, n) = {}
    BY <1>d, <1>3, TruncateDeeds
  <2>2. Existing(db) = Existing(before) /\ Managed \subseteq Existing(db)
    BY <1>1, <2>1
  <2>3. ASSUME NEW t \in Tables PROVE db.rows[EmittedName[t]] = data[t]
    <3>1. EmittedName[t] \in Existing(db) /\ EmittedName[t] \in CreatedBy(D) \cup TruncatedBy(D)
      BY <1>2, <2>1, <2>2
    <3>2. db.rows[EmittedName[t]] = {} \cup LoadedBy(D, EmittedName[t])
      BY <1>1, <3>1
    <3> QED
      BY <2>1, <3>2
  <2>4. ASSUME NEW n \in Existing(before) \ Managed PROVE db.rows[n] = before.rows[n]
    <3>1. n \in Existing(db) /\ n \notin CreatedBy(D) \cup TruncatedBy(D)
      BY <2>1, <2>2
    <3>2. db.rows[n] = before.rows[n] \cup LoadedBy(D, n)
      BY <1>1, <3>1
    <3>3. LoadedBy(D, n) = {}
      BY <2>1
    <3> QED
      BY <3>2, <3>3
  <2>5. db.keys = before.keys /\ db.indexes = before.indexes /\ db.identity = before.identity
    BY <1>1, <2>1
  <2> QED
    BY <1>3, <2>2, <2>3, <2>4, <2>5 DEF Faithful
<1>4. CASE mode # "truncate"
  <2>1. /\ DroppedBy(D) = DroppedIn(mode)
        /\ CreatedBy(D) = Managed
        /\ TruncatedBy(D) = {}
        /\ KeysOf(D) = Keys(refs)
        /\ IndexesOf(D) = IndexesMade
        /\ IdentitiesOf(D) = IdentitiesMade
        /\ \A t \in Tables : LoadedBy(D, EmittedName[t]) = data[t]
        /\ \A n : n \notin Managed => LoadedBy(D, n) = {}
    BY <1>d, <1>4, CreateDeeds DEF Recreates
  <2>2. Existing(db) = Existing(before) \cup Managed
    <3>1. Existing(db) = (Existing(before) \ DroppedBy(D)) \cup CreatedBy(D)
      BY <1>1
    <3>2. DroppedBy(D) \subseteq Managed /\ CreatedBy(D) = Managed
      BY <2>1 DEF DroppedIn
    <3> QED
      BY <3>1, <3>2
  <2>3. ASSUME NEW t \in Tables PROVE db.rows[EmittedName[t]] = data[t]
    <3>1. EmittedName[t] \in Existing(db) /\ EmittedName[t] \in CreatedBy(D) \cup TruncatedBy(D)
      BY <1>2, <2>1, <2>2
    <3>2. db.rows[EmittedName[t]] = {} \cup LoadedBy(D, EmittedName[t])
      BY <1>1, <3>1
    <3> QED
      BY <2>1, <3>2
  <2>4. ASSUME NEW n \in Existing(before) \ Managed PROVE db.rows[n] = before.rows[n]
    <3>1. n \in Existing(db) /\ n \notin CreatedBy(D) \cup TruncatedBy(D)
      BY <2>1, <2>2
    <3>2. db.rows[n] = before.rows[n] \cup LoadedBy(D, n)
      BY <1>1, <3>1
    <3>3. LoadedBy(D, n) = {}
      BY <2>1
    <3> QED
      BY <3>2, <3>3
  <2>5. \A n \in Existing(before) : n \in DroppedBy(D) <=> n \in Managed
    BY <1>1, <2>1 DEF DroppedIn
  <2>6. /\ {key \in before.keys : key[1] \notin DroppedBy(D)} =
             {key \in before.keys : key[1] \notin Managed}
        /\ {index \in before.indexes : index[1] \notin DroppedBy(D)} =
             {index \in before.indexes : index[1] \notin Managed}
    BY <2>5 DEF IsDatabase
  <2>7. db.identity = IdentitiesMade \cup (before.identity \ Managed)
    <3>1. before.identity \ DroppedBy(D) = before.identity \ Managed
      BY <2>5 DEF IsDatabase
    <3> QED
      BY <1>1, <2>1, <3>1
  <2> QED
    BY <1>1, <1>4, <2>1, <2>2, <2>3, <2>4, <2>6, <2>7 DEF Faithful, IndexesMade, IdentitiesMade
<1> QED
  BY <1>3, <1>4

(* The first statements of a script, and the next one.                     *)
LEMMA NextStatement ==
  ASSUME NEW refs, NEW s, IsScript(s), Ordered(refs, s), NEW p \in 1..Len(s)
  PROVE  LET D == {s[i] : i \in 1..(p - 1)}
         IN  /\ s[p] \in Statements(s)
             /\ \A d \in D : d \in Statements(s) /\ MayPrecede(refs, d, s[p])
             /\ \A d \in Statements(s) : d \in D \/ d = s[p] \/ MayPrecede(refs, s[p], d)
             /\ {s[i] : i \in 1..((p + 1) - 1)} = D \cup {s[p]}
<1>1. Len(s) \in Nat
  BY LenProperties DEF IsScript
<1>2. \A i \in 1..(p - 1) : i \in 1..Len(s) /\ i < p
  BY <1>1
<1>3. \A i \in 1..Len(s) : i \in 1..(p - 1) \/ i = p \/ p < i
  BY <1>1
<1>4. 1..((p + 1) - 1) = 1..(p - 1) \cup {p}
  BY <1>1
<1> QED
  BY <1>2, <1>3, <1>4 DEF Statements, Ordered

-----------------------------------------------------------------------------
(* On a target that a mode is meant for, no statement is refused.          *)

(* s is a statement of C, and D are those that come before it.             *)
Position(refs, C, D, s) ==
  /\ s \in C
  /\ \A c \in C : c.kind \in Kinds
  /\ \A d \in D : d \in C /\ MayPrecede(refs, d, s)
  /\ \A c \in C : c \in D \/ c = s \/ MayPrecede(refs, s, c)

(* All statements of the stages before that of s come before it, and none  *)
(* of the stages after it.                                                 *)
LEMMA StageByStage ==
  ASSUME NEW refs, NEW C, NEW D, NEW s, Position(refs, C, D, s)
  PROVE  /\ \A c \in C : Rank(c) < Rank(s) => c \in D
         /\ \A d \in D : Rank(d) <= Rank(s)
<1>1. \A c \in C : Rank(c) \in Nat
  BY Stages DEF Position, Kinds
<1>2. \A c \in C : Rank(c) < Rank(s) => c \in D
  <2>1. s \in C
    BY DEF Position
  <2> SUFFICES ASSUME NEW c \in C, Rank(c) < Rank(s), c \notin D PROVE FALSE
    OBVIOUS
  <2>2. c = s \/ Rank(s) <= Rank(c)
    BY DEF Position, MayPrecede
  <2> QED
    BY <1>1, <2>1, <2>2
<1> QED
  BY <1>2 DEF Position, MayPrecede

(* A load adds rows that the table does not have yet.                      *)
LEMMA LoadsNewRows ==
  ASSUME NEW refs, NEW C, NEW D, NEW s, Position(refs, C, D, s), s.kind = "load"
  PROVE  LoadedBy(D, s.table) \cap s.rows = {}
  BY DEF Position, MayPrecede, LoadedBy

(* A statement of the script in TRUNCATE mode.                             *)
LEMMA TruncateAccepted ==
  ASSUME NEW refs, NEW order, ValidOrder(refs, order), NEW loads, NEW data,
         IsLoading(loads), LoadsData(refs, loads, data), EmittedNamesDiffer,
         NEW before, IsDatabase(before), NEW db,
         Supported(before, "truncate", refs, data),
         NEW C, C = Contents("truncate", refs, order, loads),
         NEW D, NEW s, Position(refs, C, D, s), Effect(before, D, db)
  PROVE  Accepts(db, s)
<1> DEFINE T == Statements(EmitTruncates(order))
           L == Statements(loads)
<1>1. /\ DroppedBy(C) = {} /\ CreatedBy(C) = {} /\ KeysOf(C) = {} /\ IdentitiesOf(C) = {}
      /\ TruncatedBy(C) = Managed
      /\ \A t \in Tables : LoadedBy(C, EmittedName[t]) = data[t]
  BY TruncateDeeds
<1>2. \A c : c \in C <=> c \in T \/ c \in L
  BY DEF Contents
<1>3. /\ \A c \in L : c.kind \in {"load", "nothing"}
      /\ \A c \in L : c.kind = "load" => \E t \in Tables : c.table = EmittedName[t]
  BY DEF IsLoading, LoadsData
<1>4. \A c \in T :
        \/ /\ c.kind = "truncate"
           /\ c.tables \subseteq Managed
           /\ c.tables = Managed \/ (Target = "mssql" /\ \E n : c.tables = {n})
        \/ /\ c.kind = "reseed"
           /\ Target = "mssql"
           /\ \E t \in Identities : c.table = EmittedName[t]
  BY Truncates, TruncationFields
<1> HIDE DEF T, L
<1>5. s \in C /\ D \subseteq C
  BY DEF Position
<1>6. /\ DroppedBy(D) = {} /\ CreatedBy(D) = {} /\ KeysOf(D) = {} /\ IdentitiesOf(D) = {}
      /\ \A n : LoadedBy(D, n) \subseteq LoadedBy(C, n)
  BY <1>1, <1>5 DEF DroppedBy, CreatedBy, KeysOf, LoadedBy, IdentitiesOf
<1>7. Existing(db) = Existing(before) /\ db.keys = before.keys /\ db.identity = before.identity
  BY <1>6 DEF Effect
<1>8. /\ Managed \subseteq Existing(before)
      /\ \A key \in before.keys : key[1] \in Managed <=> key[2] \in Managed
  BY DEF Supported, MeantFor
<1>9. LoadsParentsFirst(before)
  BY DEF Supported
<1>0. IdentitiesFit(before, "truncate", data)
  BY DEF Supported
<1>10. CASE s \in T /\ s.kind = "truncate"
  <2>1. s.tables \subseteq Existing(db)
    BY <1>4, <1>7, <1>8, <1>10
  <2>2. ASSUME NEW key \in db.keys, key[2] \in s.tables PROVE key[1] \in s.tables
    <3>1. key \in before.keys /\ key[1] \in Managed /\ key[2] \in Managed
      BY <1>4, <1>7, <1>8, <1>10, <2>2
    <3>2. CASE s.tables = Managed
      BY <3>1, <3>2
    <3>3. CASE Target = "mssql"
      <4>1. key[1] = key[2]
        BY <1>9, <3>1, <3>3 DEF LoadsParentsFirst
      <4> QED
        BY <2>2, <4>1
    <3> QED
      BY <1>4, <1>10, <3>2, <3>3
  <2> QED
    BY <1>10, <2>1, <2>2 DEF Accepts
<1>13. CASE s \in T /\ s.kind = "reseed"
  <2>1. PICK t \in Identities : Target = "mssql" /\ s.table = EmittedName[t]
    BY <1>4, <1>13
  <2>2. s.table \in db.identity
    BY <1>0, <1>7, <2>1 DEF IdentitiesFit
  <2> QED
    BY <1>13, <2>2 DEF Accepts
<1>11. CASE s \in L /\ s.kind = "nothing"
  BY <1>11 DEF Accepts
<1>12. CASE s \in L /\ s.kind = "load"
  <2>1. PICK t \in Tables : s.table = EmittedName[t]
    BY <1>3, <1>12
  <2>2. TruncatedBy(D) = Managed
    <3>1. \A c \in C : c.kind = "truncate" => c \in D
      BY <1>12, Stages, StageByStage
    <3> QED
      BY <1>1, <1>5, <3>1 DEF TruncatedBy
  <2>3. ASSUME NEW n \in Managed PROVE n \in Existing(db) /\ db.rows[n] = LoadedBy(D, n)
    <3>1. n \in Existing(db)
      BY <1>7, <1>8
    <3>2. db.rows[n] = (IF n \in CreatedBy(D) \cup TruncatedBy(D) THEN {} ELSE before.rows[n])
                       \cup LoadedBy(D, n)
      BY <3>1 DEF Effect
    <3> QED
      BY <2>2, <3>1, <3>2
  <2>4. s.table \in Managed
    BY <2>1 DEF Managed
  <2>8. s.rows \subseteq LoadedBy(C, EmittedName[t])
    BY <1>5, <1>12, <2>1 DEF LoadedBy
  <2>9. ASSUME OwnValues(db, s.table) PROVE s.rows = {}
    <3>1. data[t] = {}
      BY <1>0, <1>7, <2>1, <2>9 DEF IdentitiesFit, OwnValues
    <3> QED
      BY <1>1, <2>8, <3>1
  <2>5. db.rows[s.table] \cap s.rows = {}
    BY <1>12, <2>3, <2>4, LoadsNewRows
  <2>6. ASSUME NEW key \in db.keys, key[1] = s.table
        PROVE  Holds(Inserted(db, s.table, s.rows), key)
    <3>1. PICK p \in Tables : key[2] = EmittedName[p]
      BY <1>7, <1>8, <2>4, <2>6 DEF Managed
    <3>2. CASE p = t
      BY <2>1, <2>6, <3>1, <3>2 DEF Holds
    <3>3. CASE p # t
      <4>1. key[2] # s.table /\ key[2] \in Managed
        BY <2>1, <3>1, <3>3 DEF EmittedNamesDiffer, Managed
      <4>2. Inserted(db, s.table, s.rows)[key[1]] = LoadedBy(D, EmittedName[t]) \cup s.rows
        BY <2>1, <2>3, <2>4, <2>6 DEF Inserted
      <4>3. Inserted(db, s.table, s.rows)[key[2]] = LoadedBy(D, EmittedName[p])
        BY <2>3, <3>1, <4>1 DEF Inserted
      <4>4. LoadedBy(D, EmittedName[t]) \cup s.rows \subseteq data[t]
        <5>1. s.rows \subseteq LoadedBy(C, EmittedName[t])
          BY <2>8
        <5> QED
          BY <1>1, <1>6, <5>1
      <4>5. <<EmittedName[t], EmittedName[p]>> \in before.keys
        BY <1>7, <2>1, <2>6, <3>1 DEF IsDatabase
      <4>6. data[t] \subseteq data[p]
        BY <4>5 DEF Supported, ClosedUnder
      <4>7. LoadedBy(D, EmittedName[p]) = data[p]
        <5>1. PICK i \in 1..Len(Source), j \in 1..Len(Source) : t = Source[i] /\ p = Source[j]
          BY Listed
        <5>2. j <= i /\ i # j
          BY <1>9, <3>3, <4>5, <5>1 DEF LoadsParentsFirst
        <5>3. ASSUME NEW c \in C, c.kind = "load", c.table = EmittedName[p] PROVE c \in D
          <6>1. c # s
            BY <2>1, <3>1, <4>1, <5>3
          <6>2. ~(i <= j)
            BY <5>2
          <6>3. ~MayPrecede(refs, s, c)
            BY <1>12, <2>1, <5>1, <5>3, <6>2 DEF MayPrecede
          <6> QED
            BY <6>1, <6>3 DEF Position
        <5>4. LoadedBy(C, EmittedName[p]) \subseteq LoadedBy(D, EmittedName[p])
          BY <5>3 DEF LoadedBy
        <5> QED
          BY <1>1, <1>6, <5>4
      <4> QED
        BY <4>2, <4>3, <4>4, <4>6, <4>7 DEF Holds
    <3> QED
      BY <3>2, <3>3
  <2> QED
    BY <1>12, <2>3, <2>4, <2>5, <2>6, <2>9 DEF Accepts
<1> QED
  BY <1>2, <1>3, <1>4, <1>5, <1>10, <1>11, <1>12, <1>13

(* What a foreign key of before says of the tables that are created.       *)
MeantForCreating(before, mode, refs) ==
  \/ mode = "fail" /\ Existing(before) \cap Managed = {}
  \/ /\ mode = "drop"
     /\ Blocked(refs) = {}
     /\ {key \in before.keys : key[2] \in Managed} \subseteq Keys(refs)

(* A statement of the script in the other modes.                           *)
LEMMA CreateAccepted ==
  ASSUME NEW mode, Recreates(mode), NEW refs, NEW order, ValidOrder(refs, order), NEW loads, NEW data,
         IsLoading(loads), LoadsData(refs, loads, data), EmittedNamesDiffer,
         NEW before, IsDatabase(before), NEW db,
         Supported(before, mode, refs, data), MeantForCreating(before, mode, refs),
         NEW C, C = Contents(mode, refs, order, loads),
         NEW D, NEW s, Position(refs, C, D, s), Effect(before, D, db)
  PROVE  Accepts(db, s)
<1> DEFINE L == Statements(loads)
           K == Statements(EmitForeignKeys(refs))
<1>1. \A c : c \in C <=> \/ \E t \in Tables : c = CreateSchema(EmittedName[t][1])
                         \/ mode = "drop" /\ \E t \in Tables : c = DropTable(EmittedName[t])
                         \/ \E t \in Tables : c = Creation(t)
                         \/ c \in L
                         \/ c \in K
                         \/ \E t \in Tables : c = CreateIndex(EmittedName[t], IndexName[t])
  BY DEF Contents, DropsOf, Recreates
<1>2. /\ \A c \in L : c.kind \in {"load", "nothing"}
      /\ \A c \in L : c.kind = "load" => \E t \in Tables : c.table = EmittedName[t]
  BY DEF IsLoading, LoadsData
<1>3. /\ \A c \in K : c.kind = "key"
      /\ \A c : c \in K <=> \E t \in Tables : \E p \in refs[t] \cap Tables :
                               c = ForeignKey(t, p)
  BY KeysAdded
<1>4. /\ CreatedBy(C) = Managed /\ TruncatedBy(C) = {}
      /\ SchemasOf(C) = {EmittedName[t][1] : t \in Tables}
      /\ \A t \in Tables : LoadedBy(C, EmittedName[t]) = data[t]
      /\ DroppedBy(C) = DroppedIn(mode)
  BY CreateDeeds
<1> HIDE DEF L, K
<1>5. s \in C /\ D \subseteq C
  BY DEF Position
<1>6. /\ \A c \in C : Rank(c) < Rank(s) => c \in D
      /\ \A d \in D : Rank(d) <= Rank(s)
  BY StageByStage
<1>7. /\ \A c \in C : c.kind = "schema" => Rank(c) = 0
      /\ \A c \in C : c.kind = "drop" => Rank(c) = 1
      /\ \A c \in C : c.kind = "create" => Rank(c) = 3
      /\ \A c \in C : c.kind \in {"load", "nothing"} => Rank(c) = 4
      /\ \A c \in C : c.kind = "key" => Rank(c) = 5
      /\ \A c \in C : c.kind = "index" => Rank(c) = 6
  BY Stages
<1>8. \A n : LoadedBy(D, n) \subseteq LoadedBy(C, n)
  BY <1>5 DEF LoadedBy
<1>9. \A t \in Tables : EmittedName[t] \in Managed
  BY DEF Managed
<1>10. CASE s.kind = "schema" \/ s.kind = "nothing"
  BY <1>10 DEF Accepts
<1>11. CASE s.kind = "drop"
  <2>1. PICK t \in Tables : s = DropTable(EmittedName[t])
    BY <1>1, <1>2, <1>3, <1>5, <1>11, Created, Fields
  <2>2. mode = "drop"
    BY <1>1, <1>2, <1>3, <1>5, <1>11, Created, Fields
  <2>3. s.table = EmittedName[t]
    BY <2>1, Fields
  <2>4. Blocked(refs) = {} /\ {key \in before.keys : key[2] \in Managed} \subseteq Keys(refs)
    BY <2>2 DEF MeantForCreating
  <2>5. KeysOf(D) = {}
    BY <1>5, <1>6, <1>7, <1>11 DEF KeysOf
  <2>6. ASSUME NEW key \in db.keys, key[2] = s.table PROVE key[1] = s.table
    <3>1. key \in before.keys /\ key[1] \notin DroppedBy(D)
      BY <2>5 DEF Effect
    <3>2. key \in Keys(refs)
      BY <1>9, <2>3, <2>4, <2>6, <3>1
    <3>3. PICK c \in Tables : key \in {<<EmittedName[c], EmittedName[p]>> : p \in refs[c] \cap Tables}
      BY <3>2 DEF Keys
    <3>4. PICK p \in refs[c] \cap Tables : key = <<EmittedName[c], EmittedName[p]>>
      BY <3>3
    <3>5. p = t
      BY <2>3, <2>6, <3>4 DEF EmittedNamesDiffer
    <3>6. CASE c = t
      BY <2>3, <3>4, <3>6
    <3>7. CASE c # t
      <4> DEFINE d == DropTable(EmittedName[c])
      <4>1. d \in C /\ d.kind = "drop" /\ d.table = EmittedName[c]
        BY <1>1, <2>2, Fields
      <4>2. d \notin D
        BY <3>1, <3>4, <4>1 DEF DroppedBy
      <4>3. d # s
        BY <2>3, <3>7, <4>1 DEF EmittedNamesDiffer
      <4>4. MayPrecede(refs, s, d)
        BY <4>1, <4>2, <4>3 DEF Position
      <4>5. t \in refs[c]
        BY <3>5
      <4> HIDE DEF d
      <4>6. \A x, y \in Tables :
              (s = DropTable(EmittedName[y]) /\ d = DropTable(EmittedName[x]) /\ y \in refs[x]) => x = y
        BY <1>11, <2>4, <4>1, <4>4 DEF MayPrecede
      <4> QED
        BY <2>1, <3>7, <4>5, <4>6 DEF d
    <3> QED
      BY <3>6, <3>7
  <2> QED
    BY <1>11, <2>6 DEF Accepts
<1>12. CASE s.kind = "create"
  <2>1. PICK t \in Tables : s = Creation(t)
    BY <1>1, <1>2, <1>3, <1>5, <1>12, Fields
  <2>2. s.table = EmittedName[t]
    BY <2>1, Created
  <2>3. s.table[1] \in db.schemas
    <3>1. /\ CreateSchema(EmittedName[t][1]) \in C
          /\ CreateSchema(EmittedName[t][1]).kind = "schema"
          /\ CreateSchema(EmittedName[t][1]).schema = EmittedName[t][1]
      BY <1>1, Fields
    <3>2. CreateSchema(EmittedName[t][1]) \in D
      BY <1>5, <1>6, <1>7, <1>12, <3>1
    <3>3. EmittedName[t][1] \in SchemasOf(D)
      BY <3>1, <3>2 DEF SchemasOf
    <3> QED
      BY <2>2, <3>3 DEF Effect
  <2>4. s.table \notin CreatedBy(D)
    <3> SUFFICES ASSUME NEW d \in D, d.kind = "create", d.table = s.table PROVE FALSE
      BY DEF CreatedBy
    <3>1. PICK u \in Tables : d = Creation(u)
      BY <1>1, <1>2, <1>3, <1>5, Fields
    <3>2. EmittedName[u] = EmittedName[t]
      BY <2>2, <3>1, Created
    <3>3. d = s
      BY <2>1, <3>1, <3>2 DEF EmittedNamesDiffer
    <3> QED
      BY <1>12, <3>3 DEF Position, MayPrecede
  <2>5. s.table \notin Existing(before) \ DroppedBy(D)
    <3>1. CASE mode = "fail"
      BY <1>9, <2>2, <3>1 DEF MeantForCreating
    <3>2. CASE mode = "drop"
      <4>1. /\ DropTable(EmittedName[t]) \in C
            /\ DropTable(EmittedName[t]).kind = "drop"
            /\ DropTable(EmittedName[t]).table = EmittedName[t]
        BY <1>1, <3>2, Fields
      <4>2. DropTable(EmittedName[t]) \in D
        BY <1>5, <1>6, <1>7, <1>12, <4>1
      <4> QED
        BY <2>2, <4>1, <4>2 DEF DroppedBy
    <3> QED
      BY <3>1, <3>2 DEF MeantForCreating
  <2>6. s.table \notin Existing(db)
    BY <2>4, <2>5 DEF Effect
  <2> QED
    BY <1>12, <2>3, <2>6 DEF Accepts
<1>13. ASSUME Rank(s) > 3, NEW t \in Tables
       PROVE  /\ EmittedName[t] \in CreatedBy(D)
              /\ EmittedName[t] \in Existing(db)
              /\ db.rows[EmittedName[t]] = LoadedBy(D, EmittedName[t])
  <2>1. /\ Creation(t) \in C
        /\ Creation(t).kind = "create"
        /\ Creation(t).table = EmittedName[t]
    BY <1>1, Created
  <2>2. Creation(t) \in D
    BY <1>6, <1>7, <1>13, <2>1
  <2>3. EmittedName[t] \in CreatedBy(D)
    BY <2>1, <2>2 DEF CreatedBy
  <2>4. EmittedName[t] \in Existing(db)
    BY <2>3 DEF Effect
  <2>5. db.rows[EmittedName[t]] =
          (IF EmittedName[t] \in CreatedBy(D) \cup TruncatedBy(D)
           THEN {} ELSE before.rows[EmittedName[t]]) \cup LoadedBy(D, EmittedName[t])
    BY <2>4 DEF Effect
  <2> QED
    BY <2>3, <2>4, <2>5
<1>14. CASE s.kind = "load"
  <2>1. s \in L
    BY <1>1, <1>3, <1>5, <1>14, Created, Fields
  <2>2. PICK t \in Tables : s.table = EmittedName[t]
    BY <1>2, <1>14, <2>1
  <2>3. /\ EmittedName[t] \in CreatedBy(D)
        /\ EmittedName[t] \in Existing(db)
        /\ db.rows[EmittedName[t]] = LoadedBy(D, EmittedName[t])
    <3>1. Rank(s) = 4
      BY <1>5, <1>7, <1>14
    <3> QED
      BY <1>13, <3>1
  <2>4. db.rows[s.table] \cap s.rows = {}
    BY <1>14, <2>2, <2>3, LoadsNewRows
  <2>5. KeysOf(D) = {}
    BY <1>5, <1>6, <1>7, <1>14 DEF KeysOf
  <2>6. ASSUME NEW key \in db.keys PROVE key[1] # s.table
    <3>1. key \in before.keys /\ key[1] \notin DroppedBy(D)
      BY <2>5 DEF Effect
    <3>2. key[1] \in Existing(before) \ DroppedBy(D)
      BY <3>1 DEF IsDatabase
    <3> QED
      BY <2>2, <2>3, <3>2 DEF Effect
  <2>7. ASSUME OwnValues(db, s.table) PROVE s.rows = {}
    <3>0. Target = "mssql" /\ s.table \in db.identity
      BY <2>7 DEF OwnValues
    <3>1. s.table \notin before.identity \ DroppedBy(D)
      BY <2>2, <2>3 DEF Effect, IsDatabase
    <3>2. s.table \in IdentitiesOf(D)
      BY <3>0, <3>1 DEF Effect
    <3>3. PICK d \in D : d.kind = "create" /\ d.identity /\ d.table = s.table
      BY <3>2 DEF IdentitiesOf
    <3>4. PICK u \in Tables : d = Creation(u)
      BY <1>1, <1>2, <1>3, <1>5, <3>3, Fields
    <3>5. u \in Identities /\ EmittedName[u] = EmittedName[t]
      BY <2>2, <3>3, <3>4, Created
    <3>6. u = t
      BY <3>5 DEF EmittedNamesDiffer
    <3>7. IdentitiesFit(before, mode, data)
      BY DEF Supported
    <3>8. data[t] = {}
      BY <3>0, <3>5, <3>6, <3>7 DEF IdentitiesFit, Recreates
    <3>9. s.rows \subseteq LoadedBy(C, EmittedName[t])
      BY <1>5, <1>14, <2>2 DEF LoadedBy
    <3> QED
      BY <1>4, <3>8, <3>9
  <2> QED
    BY <1>14, <2>2, <2>3, <2>4, <2>6, <2>7 DEF Accepts
<1>15. CASE s.kind = "key"
  <2>1. s \in K
    BY <1>1, <1>2, <1>5, <1>15, Created, Fields
  <2>2. PICK t \in Tables : \E p \in refs[t] \cap Tables : s = ForeignKey(t, p)
    BY <1>3, <2>1
  <2>3. PICK p \in refs[t] \cap Tables : s = ForeignKey(t, p)
    BY <2>2
  <2>4. s.table = EmittedName[t] /\ s.parent = EmittedName[p]
    BY <2>3, KeyFields
  <2>11. s.toKey
    <3>1. KeysFit(mode, refs)
      BY DEF Supported
    <3>2. <<t, p>> \in PrimaryKeyed
      BY <3>1 DEF KeysFit, Recreates
    <3> QED
      BY <2>3, <3>2, KeyFields
  <2>5. Rank(s) = 5
    BY <1>5, <1>7, <1>15
  <2>6. ASSUME NEW u \in Tables
        PROVE  EmittedName[u] \in Existing(db) /\ db.rows[EmittedName[u]] = data[u]
    <3>1. \A c \in C : c.kind = "load" => c \in D
      BY <1>6, <1>7, <2>5
    <3>2. LoadedBy(C, EmittedName[u]) \subseteq LoadedBy(D, EmittedName[u])
      BY <3>1 DEF LoadedBy
    <3>3. LoadedBy(D, EmittedName[u]) = data[u]
      BY <1>4, <1>8, <3>2
    <3> QED
      BY <1>13, <2>5, <3>3
  <2>7. <<EmittedName[t], EmittedName[p]>> \in Keys(refs)
    BY DEF Keys
  <2>8. data[t] \subseteq data[p]
    BY <2>7 DEF Supported, ClosedUnder
  <2>9. Holds(db.rows, <<s.table, s.parent>>)
    BY <2>4, <2>6, <2>8 DEF Holds
  <2>10. {s.table, s.parent} \subseteq Existing(db)
    BY <2>4, <2>6
  <2> QED
    BY <1>15, <2>9, <2>10, <2>11 DEF Accepts
<1>16. CASE s.kind = "index"
  <2>1. PICK t \in Tables : s = CreateIndex(EmittedName[t], IndexName[t])
    BY <1>1, <1>2, <1>3, <1>5, <1>16, Created, Fields
  <2>2. s.table = EmittedName[t] /\ s.index = IndexName[t]
    BY <2>1, Fields
  <2>3. Rank(s) = 6
    BY <1>5, <1>7, <1>16
  <2>4. EmittedName[t] \in CreatedBy(D) /\ EmittedName[t] \in Existing(db)
    BY <1>13, <2>3
  <2>5. ASSUME NEW other \in db.indexes, other[2] = s.index,
               other[1][1] = s.table[1] \/ other[1] = s.table
        PROVE  FALSE
    <3>1. CASE other \in before.indexes /\ other[1] \notin DroppedBy(D)
      <4>1. other[1] = EmittedName[t]
        BY <2>2, <2>5, <3>1 DEF Supported, IndexesDiffer
      <4>2. other[1] \in Existing(before) \ DroppedBy(D)
        BY <3>1 DEF IsDatabase
      <4> QED
        BY <2>4, <4>1, <4>2 DEF Effect
    <3>2. CASE other \in IndexesOf(D)
      <4>1. PICK d \in D : d.kind = "index" /\ other = <<d.table, d.index>>
        BY <3>2 DEF IndexesOf
      <4>2. PICK u \in Tables : d = CreateIndex(EmittedName[u], IndexName[u])
        BY <1>1, <1>2, <1>3, <1>5, <4>1, Created, Fields
      <4>3. other = <<EmittedName[u], IndexName[u]>>
        BY <4>1, <4>2, Fields
      <4>4. IndexName[u] = IndexName[t] /\ EmittedName[u][1] = EmittedName[t][1]
        BY <2>2, <2>5, <4>3
      <4>5. u = t
        BY <4>4 DEF Supported, IndexesDiffer
      <4>6. d = s
        BY <2>1, <4>2, <4>5
      <4> QED
        BY <1>16, <4>6 DEF Position, MayPrecede
    <3> QED
      BY <3>1, <3>2 DEF Effect
  <2>6. ~IndexClash(db, s)
    BY <2>5 DEF IndexClash
  <2> QED
    BY <1>16, <2>2, <2>4, <2>6 DEF Accepts
<1>17. s.kind \notin {"truncate", "reseed"}
  BY <1>1, <1>2, <1>3, <1>5, Created, Fields
<1> QED
  BY <1>5, <1>10, <1>11, <1>12, <1>14, <1>15, <1>16, <1>17 DEF Position, Kinds

IsMode(mode) == mode \in {"fail", "drop", "truncate"}

(* The targets that the modes that create tables are meant for.            *)
LEMMA Creating ==
  ASSUME NEW mode, IsMode(mode), Recreates(mode), NEW before, NEW refs,
         MeantFor(before, mode, refs)
  PROVE  MeantForCreating(before, mode, refs)
<1>1. CASE mode = "fail"
  BY <1>1 DEF MeantFor, MeantForCreating
<1>2. CASE mode = "drop"
  BY <1>2 DEF MeantFor, MeantForCreating
<1> QED
  BY <1>1, <1>2 DEF IsMode, Recreates

(* The server accepts the next statement of a load that it supports.       *)
LEMMA NextAccepted ==
  ASSUME NEW mode, IsMode(mode), NEW refs, NEW order, ValidOrder(refs, order),
         NEW loads, NEW data, IsLoading(loads), LoadsData(refs, loads, data), EmittedNamesDiffer,
         NEW before, IsDatabase(before), NEW db, Supported(before, mode, refs, data),
         NEW p \in 1..Len(Script(mode, refs, order, loads)),
         Effect(before, {Script(mode, refs, order, loads)[i] : i \in 1..(p - 1)}, db)
  PROVE  Accepts(db, Script(mode, refs, order, loads)[p])
<1> DEFINE script == Script(mode, refs, order, loads)
           C == Contents(mode, refs, order, loads)
           D == {script[i] : i \in 1..(p - 1)}
           s == script[p]
<1>1. IsScript(script) /\ Statements(script) = C /\ \A c \in C : c.kind \in Kinds
  BY WholeScript
<1>2. Ordered(refs, script)
  BY WholeScript DEF LoadsData
<1>3. Effect(before, D, db)
  OBVIOUS
<1> HIDE DEF script
<1>4. p \in 1..Len(script)
  BY DEF script
<1>5. /\ s \in Statements(script)
      /\ \A d \in D : d \in Statements(script) /\ MayPrecede(refs, d, s)
      /\ \A d \in Statements(script) : d \in D \/ d = s \/ MayPrecede(refs, s, d)
  BY <1>1, <1>2, <1>4, NextStatement
<1>6. Position(refs, C, D, s)
  BY <1>1, <1>5 DEF Position
<1>7. CASE mode = "truncate"
  <2>1. Supported(before, "truncate", refs, data)
    BY <1>7
  <2>2. C = Contents("truncate", refs, order, loads)
    BY <1>7
  <2> HIDE DEF C, D, s
  <2>3. Accepts(db, s)
    BY <1>3, <1>6, <2>1, <2>2, TruncateAccepted
  <2> QED
    BY <2>3 DEF s, script
<1>8. CASE Recreates(mode)
  <2>1. MeantForCreating(before, mode, refs)
    BY <1>8, Creating DEF Supported
  <2>2. C = Contents(mode, refs, order, loads)
    OBVIOUS
  <2> HIDE DEF C, D, s
  <2>3. Accepts(db, s)
    BY <1>3, <1>6, <1>8, <2>1, <2>2, CreateAccepted
  <2> QED
    BY <2>3 DEF s, script
<1> QED
  BY <1>7, <1>8 DEF Recreates

(* The state that a load is in after its first statements: what Effect     *)
(* says of them if they may be told apart.                                 *)
LEMMA NextEffect ==
  ASSUME NEW mode, NEW refs, NEW order, ValidOrder(refs, order),
         NEW loads, NEW data, IsLoading(loads), LoadsData(refs, loads, data), EmittedNamesDiffer,
         NEW before, IsDatabase(before), NEW db, IsDatabase(db),
         NEW p \in 1..Len(Script(mode, refs, order, loads)),
         Effect(before, {Script(mode, refs, order, loads)[i] : i \in 1..(p - 1)}, db),
         Accepts(db, Script(mode, refs, order, loads)[p])
  PROVE  Effect(before, {Script(mode, refs, order, loads)[i] : i \in 1..((p + 1) - 1)},
                After(db, Script(mode, refs, order, loads)[p]))
<1> DEFINE script == Script(mode, refs, order, loads)
           D == {script[i] : i \in 1..(p - 1)}
           s == script[p]
<1>1. IsScript(script) /\ \A c \in Statements(script) : c.kind \in Kinds
  BY WholeScript
<1>2. Ordered(refs, script)
  BY WholeScript DEF LoadsData
<1>3. Effect(before, D, db) /\ Accepts(db, s)
  OBVIOUS
<1> HIDE DEF script
<1>4. p \in 1..Len(script)
  BY DEF script
<1>5. /\ s \in Statements(script)
      /\ \A d \in D : d \in Statements(script) /\ MayPrecede(refs, d, s)
      /\ {script[i] : i \in 1..((p + 1) - 1)} = D \cup {s}
  BY <1>1, <1>2, <1>4, NextStatement
<1>6. s.kind \in Kinds /\ \A d \in D : d.kind \in Kinds /\ MayPrecede(refs, d, s)
  BY <1>1, <1>5
<1> HIDE DEF D, s
<1>7. Effect(before, D \cup {s}, After(db, s))
  BY <1>3, <1>6, EffectStep
<1> QED
  BY <1>5, <1>7 DEF s, script

(* What a load has done when it has run its whole script.                  *)
LEMMA WholeEffect ==
  ASSUME NEW mode, NEW refs, NEW order, ValidOrder(refs, order),
         NEW loads, NEW data, IsLoading(loads), LoadsData(refs, loads, data), EmittedNamesDiffer,
         NEW before, IsDatabase(before), NEW db, NEW p,
         p - 1 = Len(Script(mode, refs, order, loads)),
         Effect(before, {Script(mode, refs, order, loads)[i] : i \in 1..(p - 1)}, db)
  PROVE  Faithful(before, db, mode, refs, data)
<1>1. Statements(Script(mode, refs, order, loads)) = Contents(mode, refs, order, loads)
  BY WholeScript
<1>2. Effect(before, Contents(mode, refs, order, loads), db)
  BY <1>1 DEF Statements
<1> QED
  BY <1>2, Copies


-----------------------------------------------------------------------------
(* Two ways to load the same rows.                                         *)

(* What the databases dbs become by a statement, without those that refuse *)
(* it.                                                                     *)
Accepted(dbs, s) == {After(db, s) : db \in {d \in dbs : Accepts(d, s)}}

(* f holds what the first n statements of s leave.                         *)
Courses(before, s, n, f) ==
  f = [i \in 0..n |-> IF i = 0 THEN {before} ELSE Accepted(f[i - 1], s[i])]

IsCourse(before, s, f) ==
  /\ f[0] = {before}
  /\ \A i \in 1..Len(s) : f[i] = Accepted(f[i - 1], s[i])
  /\ Outcome(before, s) = f[Len(s)]

(* One more statement can be run.                                          *)
LEMMA CourseStep ==
  ASSUME NEW before, NEW s, NEW n \in Nat, NEW f, Courses(before, s, n, f)
  PROVE  \E g : Courses(before, s, n + 1, g)
<1> DEFINE g == [i \in 0..(n + 1) |-> IF i = 0 THEN {before} ELSE Accepted(f[i - 1], s[i])]
<1>1. ASSUME NEW i \in 0..n PROVE g[i] = f[i]
  <2>1. f[i] = IF i = 0 THEN {before} ELSE Accepted(f[i - 1], s[i])
    BY DEF Courses
  <2>2. i \in 0..(n + 1)
    OBVIOUS
  <2> QED
    BY <2>1, <2>2
<1>2. g = [i \in 0..(n + 1) |-> g[i]]
  OBVIOUS
<1>3. \A i \in 0..(n + 1) : g[i] = IF i = 0 THEN {before} ELSE Accepted(f[i - 1], s[i])
  OBVIOUS
<1> HIDE DEF g
<1>4. ASSUME NEW i \in 0..(n + 1)
      PROVE  g[i] = IF i = 0 THEN {before} ELSE Accepted(g[i - 1], s[i])
  <2>1. CASE i = 0
    BY <1>3, <2>1
  <2>2. CASE i # 0
    <3>1. i - 1 \in 0..n
      BY <2>2
    <3>2. g[i - 1] = f[i - 1]
      BY <1>1, <3>1
    <3> QED
      BY <1>3, <2>2, <3>2
  <2> QED
    BY <2>1, <2>2
<1>5. g = [i \in 0..(n + 1) |-> IF i = 0 THEN {before} ELSE Accepted(g[i - 1], s[i])]
  BY <1>2, <1>4
<1> QED
  BY <1>5 DEF Courses

(* Outcome is what the last statement leaves.                              *)
LEMMA CourseExists ==
  ASSUME NEW before, NEW s, Len(s) \in Nat
  PROVE  \E f : IsCourse(before, s, f)
<1> DEFINE G == {n \in Nat : \E f : Courses(before, s, n, f)}
           f == CHOOSE f : Courses(before, s, Len(s), f)
<1>1. 0 \in G
  <2>1. Courses(before, s, 0, [i \in 0..0 |-> {before}])
    BY DEF Courses
  <2> QED
    BY <2>1
<1>2. \A n \in Nat : n \in G => n + 1 \in G
  BY CourseStep
<1> HIDE DEF G
<1>3. Nat \subseteq G
  BY <1>1, <1>2, Induction
<1>4. \E g : Courses(before, s, Len(s), g)
  BY <1>3 DEF G
<1>5. Courses(before, s, Len(s), f)
  BY <1>4
<1>6. Outcome(before, s) = f[Len(s)]
  BY DEF Outcome, Courses, Accepted
<1> HIDE DEF f
<1>7. \A i \in 0..Len(s) : f[i] = IF i = 0 THEN {before} ELSE Accepted(f[i - 1], s[i])
  BY <1>5 DEF Courses
<1>8. f[0] = {before} /\ \A i \in 1..Len(s) : f[i] = Accepted(f[i - 1], s[i])
  BY <1>7
<1> QED
  BY <1>6, <1>8 DEF IsCourse

(* No statement, one statement.                                            *)
LEMMA ShortOutcomes ==
  ASSUME NEW before
  PROVE  /\ Outcome(before, << >>) = {before}
         /\ \A s : Outcome(before, <<s>>) = Accepted({before}, s)
<1>1. Outcome(before, << >>) = {before}
  <2>1. Len(<< >>) = 0
    OBVIOUS
  <2>2. PICK f : IsCourse(before, << >>, f)
    BY <2>1, CourseExists
  <2> QED
    BY <2>1, <2>2 DEF IsCourse
<1>2. ASSUME NEW s PROVE Outcome(before, <<s>>) = Accepted({before}, s)
  <2>1. Len(<<s>>) = 1 /\ <<s>>[1] = s
    OBVIOUS
  <2>2. PICK f : IsCourse(before, <<s>>, f)
    BY <2>1, CourseExists
  <2> QED
    BY <2>1, <2>2 DEF IsCourse
<1> QED
  BY <1>1, <1>2

(* What comes after a script starts from what the script leaves.           *)
LEMMA Continued ==
  ASSUME NEW before, NEW s, NEW u, IsScript(s), IsScript(u)
  PROVE  Outcome(before, s \o u) = UNION {Outcome(db, u) : db \in Outcome(before, s)}
<1> DEFINE su == s \o u
           G(db) == CHOOSE g : IsCourse(db, u, g)
<1>1. /\ Len(s) \in Nat /\ Len(u) \in Nat
      /\ Len(su) = Len(s) + Len(u)
      /\ \A i \in 1..(Len(s) + Len(u)) : su[i] = IF i <= Len(s) THEN s[i] ELSE u[i - Len(s)]
  <2>1. s \in Seq(Statements(s) \cup Statements(u)) /\ u \in Seq(Statements(s) \cup Statements(u))
    BY SeqMonotonic DEF IsScript
  <2> QED
    BY <2>1, ConcatProperties, LenProperties
<1> HIDE DEF su
<1>2. PICK f : IsCourse(before, su, f)
  <2>1. Len(su) \in Nat
    BY <1>1
  <2> QED
    BY <2>1, CourseExists
<1>3. PICK h : IsCourse(before, s, h)
  BY <1>1, CourseExists
<1>4. \A db : IsCourse(db, u, G(db))
  BY <1>1, CourseExists
<1> HIDE DEF G
<1>5. f[Len(s)] = h[Len(s)]
  <2> DEFINE S == {k \in Nat : k <= Len(s) => f[k] = h[k]}
  <2>1. 0 \in S
    BY <1>2, <1>3 DEF IsCourse
  <2>2. ASSUME NEW k \in Nat, k \in S, k + 1 <= Len(s) PROVE f[k + 1] = h[k + 1]
    <3>1. /\ k + 1 \in 1..Len(s) /\ k + 1 \in 1..Len(su)
          /\ (k + 1) - 1 = k /\ f[k] = h[k]
      BY <1>1, <2>2
    <3>2. su[k + 1] = s[k + 1]
      BY <1>1, <3>1
    <3>3. f[k + 1] = Accepted(f[k], su[k + 1]) /\ h[k + 1] = Accepted(h[k], s[k + 1])
      BY <1>2, <1>3, <3>1 DEF IsCourse
    <3> QED
      BY <3>1, <3>2, <3>3
  <2>3. \A k \in Nat : k \in S => k + 1 \in S
    BY <2>2
  <2> HIDE DEF S
  <2>4. Nat \subseteq S
    BY <2>1, <2>3, Induction
  <2> QED
    BY <1>1, <2>4 DEF S
<1> DEFINE E == h[Len(s)]
           Same(k) == f[Len(s) + k] = UNION {G(db)[k] : db \in E}
           T == {k \in Nat : k <= Len(u) => Same(k)}
<1>6. 0 \in T
  <2>1. \A db : G(db)[0] = {db}
    BY <1>4 DEF IsCourse
  <2>2. UNION {G(db)[0] : db \in E} = E
    BY <2>1
  <2>3. f[Len(s) + 0] = E
    BY <1>1, <1>5
  <2> QED
    BY <2>2, <2>3
<1>7. ASSUME NEW k \in Nat, k \in T, k + 1 <= Len(u)
      PROVE  Same(k + 1)
  <2> DEFINE x == u[k + 1]
  <2>1. f[Len(s) + k] = UNION {G(db)[k] : db \in E}
    BY <1>1, <1>7
  <2>2. /\ Len(s) + (k + 1) \in 1..Len(su) /\ (Len(s) + (k + 1)) - 1 = Len(s) + k
        /\ k + 1 \in 1..Len(u) /\ (k + 1) - 1 = k
        /\ ~(Len(s) + (k + 1) <= Len(s)) /\ (Len(s) + (k + 1)) - Len(s) = k + 1
    BY <1>1, <1>7
  <2>3. su[Len(s) + (k + 1)] = x
    BY <1>1, <2>2
  <2>4. f[Len(s) + (k + 1)] = Accepted(f[Len(s) + k], x)
    BY <1>2, <2>2, <2>3 DEF IsCourse
  <2>5. \A db : G(db)[k + 1] = Accepted(G(db)[k], x)
    BY <1>4, <2>2 DEF IsCourse
  <2> HIDE DEF x, E
  <2>6. Accepted(UNION {G(db)[k] : db \in E}, x) = UNION {Accepted(G(db)[k], x) : db \in E}
    BY DEF Accepted
  <2> QED
    BY <2>1, <2>4, <2>5, <2>6
<1> HIDE DEF Same
<1>8. \A k \in Nat : k \in T => k + 1 \in T
  BY <1>7
<1> HIDE DEF T
<1>9. Nat \subseteq T
  BY <1>6, <1>8, Induction
<1>10. f[Len(s) + Len(u)] = UNION {G(db)[Len(u)] : db \in E}
  BY <1>1, <1>9 DEF T, Same
<1>11. /\ Outcome(before, su) = f[Len(s) + Len(u)]
       /\ Outcome(before, s) = E
       /\ \A db : Outcome(db, u) = G(db)[Len(u)]
  BY <1>1, <1>2, <1>3, <1>4 DEF IsCourse
<1> QED
  BY <1>10, <1>11 DEF su

(* What a script leaves is the effect of its statements.                   *)
LEMMA OutcomeEffect ==
  ASSUME NEW refs, NEW before, IsDatabase(before), NEW s, IsScript(s), Ordered(refs, s),
         \A x \in Statements(s) : x.kind \in Kinds
  PROVE  \A db \in Outcome(before, s) : IsDatabase(db) /\ Effect(before, Statements(s), db)
<1>1. Len(s) \in Nat
  BY LenProperties DEF IsScript
<1>2. PICK f : IsCourse(before, s, f)
  BY <1>1, CourseExists
<1> DEFINE Done(k) == {s[i] : i \in 1..k}
           Right(k) == \A db \in f[k] : IsDatabase(db) /\ Effect(before, Done(k), db)
           G == {k \in Nat : k <= Len(s) => Right(k)}
<1>3. Right(0)
  <2>1. Done(0) = {} /\ f[0] = {before}
    BY <1>2 DEF IsCourse
  <2> QED
    BY <2>1, NoEffect
<1>4. ASSUME NEW k \in Nat, k + 1 <= Len(s), Right(k) PROVE Right(k + 1)
  <2> DEFINE x == s[k + 1]
  <2>1. k + 1 \in 1..Len(s) /\ (k + 1) - 1 = k /\ ((k + 1) + 1) - 1 = k + 1
    BY <1>1, <1>4
  <2>2. f[k + 1] = Accepted(f[k], x)
    BY <1>2, <2>1 DEF IsCourse
  <2>3. /\ x \in Statements(s)
        /\ \A d \in Done(k) : d \in Statements(s) /\ MayPrecede(refs, d, x)
        /\ Done(k + 1) = Done(k) \cup {x}
    BY <2>1, NextStatement
  <2> HIDE DEF x, Done
  <2> SUFFICES ASSUME NEW db \in f[k], Accepts(db, x)
               PROVE  IsDatabase(After(db, x)) /\ Effect(before, Done(k + 1), After(db, x))
    BY <2>2 DEF Accepted
  <2>4. IsDatabase(db) /\ Effect(before, Done(k), db)
    BY <1>4
  <2>5. x.kind \in Kinds /\ \A d \in Done(k) : d.kind \in Kinds /\ MayPrecede(refs, d, x)
    BY <2>3
  <2>6. Effect(before, Done(k) \cup {x}, After(db, x))
    BY <2>4, <2>5, EffectStep
  <2> QED
    BY <2>3, <2>4, <2>5, <2>6, StaysDatabase
<1> HIDE DEF Right
<1>5. 0 \in G /\ \A k \in Nat : k \in G => k + 1 \in G
  BY <1>1, <1>3, <1>4
<1> HIDE DEF G
<1>6. Nat \subseteq G
  BY <1>5, Induction
<1>7. Right(Len(s))
  BY <1>1, <1>6 DEF G
<1> QED
  BY <1>2, <1>7 DEF IsCourse, Right, Statements

(* A database is a record, and its rows a function.                        *)
Shaped(db) ==
  /\ db = [x \in DOMAIN db |-> db[x]]
  /\ db.rows = [n \in Existing(db) |-> db.rows[n]]

LEMMA AllShaped == ASSUME NEW db, IsDatabase(db) PROVE Shaped(db)
<1>1. db = [schemas |-> db.schemas, rows |-> db.rows, keys |-> db.keys,
            indexes |-> db.indexes, identity |-> db.identity]
  BY DEF IsDatabase
<1>2. db = [x \in DOMAIN db |-> db[x]]
  BY <1>1
<1> QED
  BY <1>2 DEF IsDatabase, Shaped

(* One in which the tables of the source are, with rows that their keys    *)
(* allow.                                                                  *)
Loadable(db) ==
  /\ IsDatabase(db)
  /\ Shaped(db)
  /\ Managed \subseteq Existing(db)
  /\ \A key \in db.keys : key[1] \in Managed => Holds(db.rows, key)

(* When rows are accepted, and what they do.                               *)
LEMMA LoadRule ==
  ASSUME NEW db, NEW n, NEW rows
  PROVE  /\ Accepts(db, Load(n, rows)) <=>
              /\ n \in Existing(db)
              /\ OwnValues(db, n) => rows = {}
              /\ db.rows[n] \cap rows = {}
              /\ \A key \in db.keys : key[1] = n => Holds(Inserted(db, n, rows), key)
         /\ After(db, Load(n, rows)) = [db EXCEPT !.rows = Inserted(db, n, rows)]
<1> DEFINE s == Load(n, rows)
<1>1. s.kind = "load" /\ s.table = n /\ s.rows = rows
  BY Fields
<1> HIDE DEF s
<1>2. Accepts(db, s) <=>
        /\ n \in Existing(db)
        /\ OwnValues(db, n) => rows = {}
        /\ db.rows[n] \cap rows = {}
        /\ \A key \in db.keys : key[1] = n => Holds(Inserted(db, n, rows), key)
  BY <1>1 DEF Accepts, OwnValues
<1>3. After(db, s) = [db EXCEPT !.rows = Inserted(db, n, rows)]
  BY <1>1 DEF After
<1> QED
  BY <1>2, <1>3 DEF s, OwnValues

(* The parts of a database to which rows have been added.                  *)
LEMMA LoadedParts ==
  ASSUME NEW db, IsDatabase(db), NEW n, NEW rows,
         NEW after, after = After(db, Load(n, rows))
  PROVE  /\ DOMAIN after = DOMAIN db
         /\ after.rows = Inserted(db, n, rows)
         /\ after.keys = db.keys
         /\ after.identity = db.identity
         /\ Existing(after) = Existing(db)
         /\ Shaped(after)
         /\ \A m \in Existing(db) :
              after.rows[m] = IF m = n THEN db.rows[m] \cup rows ELSE db.rows[m]
<1>1. after = [db EXCEPT !.rows = Inserted(db, n, rows)]
  BY LoadRule
<1>2. db = [schemas |-> db.schemas, rows |-> db.rows, keys |-> db.keys,
            indexes |-> db.indexes, identity |-> db.identity]
  BY DEF IsDatabase
<1>3. /\ after.rows = Inserted(db, n, rows) /\ after.keys = db.keys
      /\ after.identity = db.identity /\ DOMAIN after = DOMAIN db
  BY <1>1, <1>2
<1>4. Existing(after) = Existing(db)
  BY <1>3 DEF Existing, Inserted
<1>5. after = [x \in DOMAIN after |-> after[x]]
  BY <1>1
<1>6. \A m \in Existing(db) :
        after.rows[m] = IF m = n THEN db.rows[m] \cup rows ELSE db.rows[m]
  BY <1>3 DEF Inserted
<1>7. after.rows = [m \in Existing(after) |-> after.rows[m]]
  BY <1>3, <1>4 DEF Inserted
<1> QED
  BY <1>3, <1>4, <1>5, <1>6, <1>7 DEF Shaped

(* Rows that are accepted leave a database that can be loaded further.     *)
LEMMA StaysLoadable ==
  ASSUME NEW db, Loadable(db), NEW n, NEW rows,
         NEW after \in Accepted({db}, Load(n, rows))
  PROVE  Loadable(after)
<1>1. after = After(db, Load(n, rows)) /\ Accepts(db, Load(n, rows)) /\ IsDatabase(db)
  BY DEF Accepted, Loadable
<1>2. Load(n, rows).kind \in Kinds
  BY Fields DEF Kinds
<1>3. IsDatabase(after)
  BY <1>1, <1>2, StaysDatabase
<1>4. /\ Shaped(after) /\ Existing(after) = Existing(db) /\ after.keys = db.keys
      /\ after.rows = Inserted(db, n, rows)
      /\ \A m \in Existing(db) :
           after.rows[m] = IF m = n THEN db.rows[m] \cup rows ELSE db.rows[m]
  <2> DEFINE a == After(db, Load(n, rows))
  <2>1. /\ Shaped(a) /\ Existing(a) = Existing(db) /\ a.keys = db.keys
        /\ a.rows = Inserted(db, n, rows)
        /\ \A m \in Existing(db) : a.rows[m] = IF m = n THEN db.rows[m] \cup rows ELSE db.rows[m]
    <3>1. IsDatabase(db) /\ a = After(db, Load(n, rows))
      BY <1>1
    <3> HIDE DEF a
    <3>2. /\ Shaped(a) /\ Existing(a) = Existing(db) /\ a.keys = db.keys
          /\ a.rows = Inserted(db, n, rows)
      BY <3>1, LoadedParts
    <3>3. \A m \in Existing(db) : a.rows[m] = IF m = n THEN db.rows[m] \cup rows ELSE db.rows[m]
      BY <3>2 DEF Inserted
    <3> QED
      BY <3>2, <3>3
  <2>2. after = a
    BY <1>1
  <2> HIDE DEF a
  <2> QED
    BY <2>1, <2>2
<1>5. ASSUME NEW key \in db.keys, key[1] \in Managed PROVE Holds(after.rows, key)
  <2>1. CASE key[1] = n
    BY <1>1, <1>4, <2>1, LoadRule
  <2>2. CASE key[1] # n
    <3>1. Holds(db.rows, key)
      BY <1>5 DEF Loadable
    <3>2. key[1] \in Existing(db) /\ key[2] \in Existing(db)
      BY <1>1 DEF IsDatabase
    <3> QED
      BY <1>4, <2>2, <3>1, <3>2 DEF Holds
  <2> QED
    BY <2>1, <2>2
<1> QED
  BY <1>3, <1>4, <1>5 DEF Loadable

(* No rows are always accepted, and change nothing.                        *)
LEMMA NoRows ==
  ASSUME NEW db, Loadable(db), NEW n \in Managed
  PROVE  Accepted({db}, Load(n, {})) = {db}
<1> DEFINE after == After(db, Load(n, {}))
<1>1. IsDatabase(db) /\ Shaped(db) /\ n \in Existing(db)
  BY DEF Loadable
<1>2. Inserted(db, n, {}) = db.rows
  <2>1. \A m \in Existing(db) : (IF m = n THEN db.rows[m] \cup {} ELSE db.rows[m]) = db.rows[m]
    OBVIOUS
  <2> QED
    BY <1>1, <2>1 DEF Inserted, Shaped
<1>3. Accepts(db, Load(n, {}))
  <2>1. \A key \in db.keys : key[1] = n => Holds(Inserted(db, n, {}), key)
    BY <1>2 DEF Loadable
  <2> QED
    BY <1>1, <2>1, LoadRule
<1>4. after = db
  <2>1. after = [db EXCEPT !.rows = db.rows]
    BY <1>2, LoadRule
  <2>2. db = [x \in DOMAIN db |-> db[x]]
    BY <1>1 DEF Shaped
  <2> HIDE DEF after
  <2> QED
    BY <2>1, <2>2
<1> HIDE DEF after
<1> QED
  BY <1>3, <1>4 DEF Accepted, after

(* A row after some others is the same as all of them at once.             *)
LEMMA OneRowMore ==
  ASSUME NEW db, Loadable(db), NEW n, NEW rows, NEW r, r \notin rows
  PROVE  Accepted(Accepted({db}, Load(n, rows)), Load(n, {r}))
           = Accepted({db}, Load(n, rows \cup {r}))
<1> DEFINE mid == After(db, Load(n, rows))
           all == rows \cup {r}
<1>1. IsDatabase(db)
  BY DEF Loadable
<1>2. /\ DOMAIN mid = DOMAIN db /\ mid.keys = db.keys /\ mid.identity = db.identity /\ Existing(mid) = Existing(db)
      /\ \A m \in Existing(db) :
           mid.rows[m] = IF m = n THEN db.rows[m] \cup rows ELSE db.rows[m]
  BY <1>1, LoadedParts
<1>3. mid = [db EXCEPT !.rows = Inserted(db, n, rows)]
  BY LoadRule
<1> HIDE DEF mid
<1>4. Inserted(mid, n, {r}) = Inserted(db, n, all)
  BY <1>2 DEF Inserted
<1>5. After(mid, Load(n, {r})) = After(db, Load(n, all))
  <2>1. After(mid, Load(n, {r})) = [mid EXCEPT !.rows = Inserted(db, n, all)]
    BY <1>4, LoadRule
  <2>2. After(db, Load(n, all)) = [db EXCEPT !.rows = Inserted(db, n, all)]
    BY LoadRule DEF OwnValues
  <2> HIDE DEF all
  <2> QED
    BY <1>3, <2>1, <2>2
<1>6. (Accepts(db, Load(n, rows)) /\ Accepts(mid, Load(n, {r}))) <=> Accepts(db, Load(n, all))
  <2>1. ASSUME Accepts(db, Load(n, all)) PROVE Accepts(db, Load(n, rows))
    <3>1. n \in Existing(db) /\ db.rows[n] \cap rows = {} /\ ~OwnValues(db, n)
      BY <2>1, LoadRule DEF OwnValues
    <3>2. ASSUME NEW key \in db.keys, key[1] = n PROVE Holds(Inserted(db, n, rows), key)
      <4>1. Holds(Inserted(db, n, all), key)
        BY <2>1, <3>2, LoadRule DEF OwnValues
      <4>2. key[1] \in Existing(db) /\ key[2] \in Existing(db)
        BY <1>1 DEF IsDatabase
      <4> QED
        BY <3>2, <4>1, <4>2 DEF Holds, Inserted
    <3> QED
      BY <3>1, <3>2, LoadRule DEF OwnValues
  <2>2. ASSUME n \in Existing(db), db.rows[n] \cap rows = {}
        PROVE  mid.rows[n] \cap {r} = {} <=> db.rows[n] \cap all = {}
    BY <1>2, <2>2
  <2>3. Accepts(mid, Load(n, {r})) <=>
          /\ n \in Existing(db)
          /\ ~OwnValues(db, n)
          /\ mid.rows[n] \cap {r} = {}
          /\ \A key \in db.keys : key[1] = n => Holds(Inserted(db, n, all), key)
    <3>1. OwnValues(mid, n) <=> OwnValues(db, n)
      BY <1>2 DEF OwnValues
    <3>2. {r} # {}
      OBVIOUS
    <3>3. Accepts(mid, Load(n, {r})) <=>
            /\ n \in Existing(mid)
            /\ OwnValues(mid, n) => {r} = {}
            /\ mid.rows[n] \cap {r} = {}
            /\ \A key \in mid.keys : key[1] = n => Holds(Inserted(mid, n, {r}), key)
      BY LoadRule
    <3> QED
      BY <1>2, <1>4, <3>1, <3>2, <3>3
  <2>4. Accepts(db, Load(n, all)) <=>
          /\ n \in Existing(db)
          /\ ~OwnValues(db, n)
          /\ db.rows[n] \cap all = {}
          /\ \A key \in db.keys : key[1] = n => Holds(Inserted(db, n, all), key)
    <3>1. all # {}
      OBVIOUS
    <3> HIDE DEF all
    <3> QED
      BY <3>1, LoadRule
  <2>5. Accepts(db, Load(n, rows)) => db.rows[n] \cap rows = {}
    BY LoadRule DEF OwnValues
  <2> HIDE DEF all
  <2> QED
    BY <2>1, <2>2, <2>3, <2>4, <2>5
<1> HIDE DEF all
<1>7. \A x : x \in Accepted(Accepted({db}, Load(n, rows)), Load(n, {r})) <=>
        /\ Accepts(db, Load(n, rows)) /\ Accepts(mid, Load(n, {r}))
        /\ x = After(mid, Load(n, {r}))
  BY DEF Accepted, mid
<1>8. \A x : x \in Accepted({db}, Load(n, all)) <=>
        Accepts(db, Load(n, all)) /\ x = After(db, Load(n, all))
  BY DEF Accepted
<1> QED
  BY <1>5, <1>6, <1>7, <1>8 DEF all

(* Rows one by one are the same as all of them at once.                    *)
LEMMA RowByRow ==
  ASSUME NEW db, Loadable(db), NEW n \in Managed, NEW S, IsFiniteSet(S),
         NEW s, s = [i \in 1..Len(SetToSeq(S)) |-> Load(n, {SetToSeq(S)[i]})]
  PROVE  Outcome(db, s) = Accepted({db}, Load(n, S))
<1> DEFINE e == SetToSeq(S)
           m == Len(e)
<1>1. /\ m \in Nat
      /\ {e[i] : i \in 1..m} = S
      /\ \A i, j \in 1..m : e[i] = e[j] => i = j
  BY Enumeration
<1> HIDE DEF e
<1>2. /\ s = [i \in 1..m |-> Load(n, {e[i]})]
      /\ Len(s) = m
      /\ \A i \in 1..m : s[i] = Load(n, {e[i]})
  <2>1. s = [i \in 1..m |-> Load(n, {e[i]})]
    BY DEF e
  <2> QED
    BY <1>1, <2>1
<1>3. PICK f : IsCourse(db, s, f)
  BY <1>1, <1>2, CourseExists
<1> DEFINE First(k) == {e[i] : i \in 1..k}
           Same(k) == f[k] = Accepted({db}, Load(n, First(k)))
           G == {k \in Nat : k <= m => Same(k)}
<1>4. Same(0)
  <2>1. First(0) = {} /\ f[0] = {db}
    BY <1>3 DEF IsCourse
  <2> HIDE DEF First
  <2> QED
    BY <2>1, NoRows
<1>5. ASSUME NEW k \in Nat, k + 1 <= m, Same(k) PROVE Same(k + 1)
  <2> DEFINE r == e[k + 1]
  <2>1. k + 1 \in 1..m /\ (k + 1) - 1 = k /\ 1..(k + 1) = 1..k \cup {k + 1}
    BY <1>1, <1>5
  <2>2. f[k + 1] = Accepted(f[k], Load(n, {r}))
    BY <1>2, <1>3, <2>1 DEF IsCourse
  <2>3. First(k + 1) = First(k) \cup {r}
    BY <2>1
  <2>4. r \notin First(k)
    <3>1. ASSUME NEW i \in 1..k PROVE e[i] # r
      <4>1. i \in 1..m /\ i # k + 1
        BY <1>1, <1>5
      <4> QED
        BY <1>1, <2>1, <4>1
    <3> QED
      BY <3>1
  <2> HIDE DEF r, First
  <2>5. Accepted(Accepted({db}, Load(n, First(k))), Load(n, {r}))
          = Accepted({db}, Load(n, First(k) \cup {r}))
    BY <2>4, OneRowMore
  <2> QED
    BY <1>5, <2>2, <2>3, <2>5
<1> HIDE DEF First
<1> HIDE DEF Same
<1>6. 0 \in G /\ \A k \in Nat : k \in G => k + 1 \in G
  BY <1>1, <1>4, <1>5
<1> HIDE DEF G
<1>7. Nat \subseteq G
  BY <1>6, Induction
<1>8. f[m] = Accepted({db}, Load(n, First(m)))
  <2>1. Same(m)
    BY <1>1, <1>7 DEF G
  <2> QED
    BY <2>1 DEF Same
<1>9. First(m) = S
  BY <1>1 DEF First
<1> QED
  BY <1>2, <1>3, <1>8, <1>9 DEF IsCourse

(* What bulk_load and what a dump does for one table.                      *)
BulkLoadOf(data, t) ==
  IF Limit[t] = 0 THEN << >>
  ELSE IF data[t] = {} THEN <<LoadNothing(RawName[t])>> ELSE <<Load(RawName[t], data[t])>>

EmittedDataOf(data, format, t) ==
  IF Limit[t] = 0 THEN << >>
  ELSE IF format = "copy" /\ Target = "postgres"
       THEN <<Load(EmittedName[t], data[t])>>
       ELSE ForEach(SetToSeq(data[t]), LAMBDA r : Load(EmittedName[t], {r}))

(* Both leave the same.                                                    *)
LEMMA SameTable ==
  ASSUME KeepsNames, NEW data, NEW format, NEW t \in Tables, data[t] \in Read(t),
         NEW db, Loadable(db)
  PROVE  /\ Outcome(db, BulkLoadOf(data, t)) = Outcome(db, EmittedDataOf(data, format, t))
         /\ \A after \in Outcome(db, BulkLoadOf(data, t)) : Loadable(after)
<1> DEFINE n == EmittedName[t]
           all == Accepted({db}, Load(n, data[t]))
<1>1. RawName[t] = n /\ n \in Managed
  BY DEF KeepsNames, Managed
<1>2. CASE Limit[t] = 0
  <2>1. BulkLoadOf(data, t) = << >> /\ EmittedDataOf(data, format, t) = << >>
    BY <1>2 DEF BulkLoadOf, EmittedDataOf
  <2>2. Outcome(db, << >>) = {db}
    BY ShortOutcomes
  <2>3. Outcome(db, BulkLoadOf(data, t)) = {db} /\ Outcome(db, EmittedDataOf(data, format, t)) = {db}
    BY <2>1, <2>2, Zenon
  <2> QED
    BY <2>3
<1>3. CASE Limit[t] # 0
  <2>1. Outcome(db, BulkLoadOf(data, t)) = all
    <3>1. CASE data[t] = {}
      <4> DEFINE s == LoadNothing(RawName[t])
      <4>1. BulkLoadOf(data, t) = <<s>>
        BY <1>3, <3>1 DEF BulkLoadOf
      <4>2. s.kind = "nothing"
        BY Fields
      <4> HIDE DEF s
      <4>3. Accepts(db, s) /\ After(db, s) = db
        BY <4>2 DEF Accepts, After
      <4>4. Outcome(db, <<s>>) = {db}
        <5>1. Accepted({db}, s) = {db}
          BY <4>3 DEF Accepted
        <5> QED
          BY <5>1, ShortOutcomes
      <4>5. Accepted({db}, Load(n, {})) = {db}
        BY <1>1, NoRows
      <4> QED
        BY <3>1, <4>1, <4>4, <4>5
    <3>2. CASE data[t] # {}
      <4>1. BulkLoadOf(data, t) = <<Load(n, data[t])>>
        BY <1>1, <1>3, <3>2 DEF BulkLoadOf
      <4> QED
        BY <4>1, ShortOutcomes
    <3> QED
      BY <3>1, <3>2
  <2>2. Outcome(db, EmittedDataOf(data, format, t)) = all
    <3>1. CASE format = "copy" /\ Target = "postgres"
      <4>1. EmittedDataOf(data, format, t) = <<Load(n, data[t])>>
        BY <1>3, <3>1 DEF EmittedDataOf
      <4> QED
        BY <4>1, ShortOutcomes
    <3>2. CASE ~(format = "copy" /\ Target = "postgres")
      <4> DEFINE s == EmittedDataOf(data, format, t)
      <4>1. s = [i \in 1..Len(SetToSeq(data[t])) |-> Load(n, {SetToSeq(data[t])[i]})]
        BY <1>3, <3>2 DEF EmittedDataOf, ForEach
      <4>2. IsFiniteSet(data[t])
        BY ReadFinite
      <4> HIDE DEF s, n
      <4>3. Outcome(db, s) = Accepted({db}, Load(n, data[t]))
        BY <1>1, <4>1, <4>2, RowByRow
      <4> QED
        BY <4>3 DEF s
    <3> QED
      BY <3>1, <3>2
  <2>3. \A after \in all : Loadable(after)
    BY StaysLoadable
  <2> QED
    BY <2>1, <2>2, <2>3
<1> QED
  BY <1>2, <1>3, ScriptAssumption

(* Both load all tables with the same outcome.                             *)
LEMMA SameLoads ==
  ASSUME KeepsNames, NEW data, NEW format, \A t \in Tables : data[t] \in Read(t),
         NEW db, Loadable(db)
  PROVE  Outcome(db, BulkLoads(data)) = Outcome(db, EmitData(data, format))
<1> DEFINE n == Len(Source)
           bulk == [i \in 1..n |-> BulkLoadOf(data, Source[i])]
           dump == [i \in 1..n |-> EmittedDataOf(data, format, Source[i])]
<1>1. BulkLoads(data) = FlattenSeq(bulk)
  BY DEF BulkLoads, ForEachSelected, Skipped, ForEachTable, ForEach, BulkLoadOf
<1>2. EmitData(data, format) = FlattenSeq(dump)
  BY DEF EmitData, ForEachSelected, Skipped, ForEachTable, ForEach, EmittedDataOf
<1>3. /\ n \in Nat /\ Len(bulk) = n /\ Len(dump) = n
      /\ \A i \in 1..n : /\ Source[i] \in Tables
                         /\ bulk[i] = BulkLoadOf(data, Source[i])
                         /\ dump[i] = EmittedDataOf(data, format, Source[i])
  BY Listed
<1>4. ASSUME NEW t \in Tables PROVE IsScript(BulkLoadOf(data, t)) /\ IsScript(EmittedDataOf(data, format, t))
  <2>1. IsFiniteSet(data[t])
    BY ReadFinite
  <2> DEFINE e == SetToSeq(data[t])
             f == [i \in 1..Len(e) |-> Load(EmittedName[t], {e[i]})]
  <2>2. IsScript(f)
    <3>1. f = [i \in 1..Len(e) |-> f[i]]
      OBVIOUS
    <3> HIDE DEF f
    <3> QED
      BY <2>1, <3>1, Enumerated
  <2>3. EmittedDataOf(data, format, t) \in {<< >>, <<Load(EmittedName[t], data[t])>>, f}
    BY DEF EmittedDataOf, ForEach
  <2>4. BulkLoadOf(data, t) \in {<< >>, <<LoadNothing(RawName[t])>>, <<Load(RawName[t], data[t])>>}
    BY DEF BulkLoadOf
  <2> HIDE DEF f
  <2> QED
    BY <2>2, <2>3, <2>4, Short
<1>5. CASE n = 0
  <2>1. bulk = << >> /\ dump = << >>
    BY <1>5
  <2> QED
    BY <1>1, <1>2, <2>1
<1>6. CASE n # 0
  <2> HIDE DEF n, bulk, dump
  <2>1. PICK f : Flattens(n, bulk, f) /\ FlattenSeq(bulk) = f[n]
    BY <1>3, <1>6, FlattenExists
  <2>2. PICK g : Flattens(n, dump, g) /\ FlattenSeq(dump) = g[n]
    BY <1>3, <1>6, FlattenExists
  <2> DEFINE Same(k) ==
               /\ IsScript(f[k]) /\ IsScript(g[k])
               /\ Outcome(db, f[k]) = Outcome(db, g[k])
               /\ \A after \in Outcome(db, f[k]) : Loadable(after)
             G == {k \in Nat : k + 1 <= n => Same(k + 1)}
  <2>3. \A i \in 1..n : /\ f[i] = IF i = 1 THEN bulk[i] ELSE f[i - 1] \o bulk[i]
                        /\ g[i] = IF i = 1 THEN dump[i] ELSE g[i - 1] \o dump[i]
    BY <2>1, <2>2 DEF Flattens
  <2>4. ASSUME NEW i \in 1..n, NEW d, Loadable(d)
        PROVE  /\ IsScript(bulk[i]) /\ IsScript(dump[i])
               /\ Outcome(d, bulk[i]) = Outcome(d, dump[i])
               /\ \A after \in Outcome(d, bulk[i]) : Loadable(after)
    <3>1. /\ Source[i] \in Tables /\ bulk[i] = BulkLoadOf(data, Source[i])
          /\ dump[i] = EmittedDataOf(data, format, Source[i])
          /\ data[Source[i]] \in Read(Source[i])
      BY <1>3
    <3> QED
      BY <1>4, <2>4, <3>1, SameTable
  <2>5. Same(1)
    <3>1. 1 \in 1..n
      BY <1>3, <1>6
    <3>2. f[1] = bulk[1] /\ g[1] = dump[1]
      BY <2>3, <3>1
    <3> QED
      BY <2>4, <3>1, <3>2
  <2>6. ASSUME NEW k \in Nat \ {0}, k + 1 <= n, Same(k) PROVE Same(k + 1)
    <3>1. k + 1 \in 1..n /\ k + 1 # 1 /\ (k + 1) - 1 = k
      BY <1>3, <2>6
    <3> DEFINE b == bulk[k + 1]
               d == dump[k + 1]
    <3>2. f[k + 1] = f[k] \o b /\ g[k + 1] = g[k] \o d
      BY <2>3, <3>1
    <3>3. IsScript(b) /\ IsScript(d) /\ IsScript(f[k]) /\ IsScript(g[k])
      BY <2>4, <2>6, <3>1
    <3>4. \A e : Loadable(e) =>
            /\ Outcome(e, b) = Outcome(e, d)
            /\ \A after \in Outcome(e, b) : Loadable(after)
      BY <2>4, <3>1
    <3> HIDE DEF b, d
    <3>5. /\ Outcome(db, f[k] \o b) = UNION {Outcome(e, b) : e \in Outcome(db, f[k])}
          /\ Outcome(db, g[k] \o d) = UNION {Outcome(e, d) : e \in Outcome(db, g[k])}
      BY <3>3, Continued
    <3>6. /\ Outcome(db, f[k]) = Outcome(db, g[k])
          /\ \A e \in Outcome(db, f[k]) : Loadable(e)
      BY <2>6
    <3>7. Outcome(db, f[k] \o b) = Outcome(db, g[k] \o d)
      BY <3>4, <3>5, <3>6
    <3>8. \A after \in Outcome(db, f[k] \o b) : Loadable(after)
      BY <3>4, <3>5, <3>6
    <3>9. IsScript(f[k] \o b) /\ IsScript(g[k] \o d)
      BY <3>3, Concatenation
    <3> QED
      BY <3>2, <3>7, <3>8, <3>9
  <2> HIDE DEF Same
  <2>7. 0 \in G /\ \A k \in Nat : k \in G => k + 1 \in G
    <3>1. 0 \in G
      BY <2>5
    <3>2. ASSUME NEW k \in Nat, k \in G, (k + 1) + 1 <= n PROVE Same((k + 1) + 1)
      <4>1. k + 1 \in Nat \ {0} /\ Same(k + 1)
        BY <1>3, <3>2
      <4> QED
        BY <2>6, <3>2, <4>1
    <3> QED
      BY <3>1, <3>2
  <2> HIDE DEF G
  <2>8. Nat \subseteq G
    BY <2>7, Induction
  <2>9. Same(n)
    <3>1. n - 1 \in Nat /\ (n - 1) + 1 = n /\ n <= n
      BY <1>3, <1>6
    <3>2. n - 1 \in G
      BY <2>8, <3>1
    <3> QED
      BY <3>1, <3>2 DEF G
  <2>10. Outcome(db, f[n]) = Outcome(db, g[n])
    BY <2>9 DEF Same
  <2> QED
    BY <1>1, <1>2, <2>1, <2>2, <2>10
<1> QED
  BY <1>5, <1>6

(* Once the tables are there, rows can be loaded.                          *)
LEMMA PreparedIsLoadable ==
  ASSUME EmittedNamesDiffer, Tables # {},
         NEW mode, NEW refs, NEW order, ValidOrder(refs, order),
         NEW before, IsDatabase(before), NEW db \in Outcome(before, Preparation(mode, order))
  PROVE  Loadable(db)
<1> DEFINE p == Preparation(mode, order)
           D == Statements(p)
<1>1. /\ IsScript(p) /\ Ordered(refs, p)
      /\ \A x \in D : x.kind \in {"schema", "drop", "truncate", "reseed", "create"}
      /\ Managed \subseteq CreatedBy(D) \cup TruncatedBy(D)
  BY PreparingStatements
<1> HIDE DEF p
<1>2. IsDatabase(db) /\ Effect(before, D, db)
  <2>1. \A x \in D : x.kind \in Kinds
    BY <1>1 DEF Kinds
  <2> QED
    BY <1>1, <2>1, OutcomeEffect DEF p
<1>3. ASSUME NEW n PROVE LoadedBy(D, n) = {}
  BY <1>1 DEF LoadedBy
<1>4. ASSUME NEW n \in Managed PROVE n \in Existing(db) /\ db.rows[n] = {}
  <2>1. n \in CreatedBy(D) \cup TruncatedBy(D)
    BY <1>1
  <2>2. n \in Existing(db)
    BY <1>2, <2>1 DEF Effect
  <2>3. db.rows[n] = (IF n \in CreatedBy(D) \cup TruncatedBy(D) THEN {} ELSE before.rows[n])
                     \cup LoadedBy(D, n)
    BY <1>2, <2>2 DEF Effect
  <2> QED
    BY <1>3, <2>1, <2>2, <2>3
<1>5. \A key \in db.keys : key[1] \in Managed => Holds(db.rows, key)
  BY <1>4 DEF Holds
<1>6. Shaped(db)
  BY <1>2, AllShaped
<1> QED
  BY <1>2, <1>4, <1>5, <1>6 DEF Loadable

(* The migration's script and the dump's leave the same target, or are     *)
(* both refused.                                                           *)
LEMMA SameOutcome ==
  ASSUME KeepsNames, NEW mode, NEW refs, NEW order, ValidOrder(refs, order),
         NEW data, NEW format, \A t \in Tables : data[t] \in Read(t),
         NEW before, IsDatabase(before)
  PROVE  Outcome(before, Script(mode, refs, order, BulkLoads(data)))
           = Outcome(before, Script(mode, refs, order, EmitData(data, format)))
<1> DEFINE p == Preparation(mode, order)
           bulk == BulkLoads(data)
           dump == EmitData(data, format)
           keys == EmitForeignKeys(refs)
<1>1. IsScript(p) /\ IsScript(bulk) /\ IsScript(dump)
  <2>1. IsScript(bulk) /\ IsScript(dump)
    BY BulkLoading, DumpLoading DEF IsLoading
  <2> HIDE DEF bulk, dump
  <2> QED
    BY <2>1, PreparingStatements
<1>2. \A db \in Outcome(before, p) : Outcome(db, bulk) = Outcome(db, dump)
  <2>1. CASE Tables = {}
    <3>1. Len(Source) = 0
      BY <2>1, Listed
    <3>2. bulk = FlattenSeq(<< >>) /\ dump = FlattenSeq(<< >>)
      BY <3>1 DEF BulkLoads, EmitData, ForEachSelected, ForEachTable, ForEach
    <3> QED
      BY <3>2
  <2>2. CASE Tables # {}
    <3>1. EmittedNamesDiffer
      BY DEF KeepsNames
    <3>2. \A db \in Outcome(before, p) : Loadable(db)
      BY <2>2, <3>1, PreparedIsLoadable
    <3> QED
      BY <3>2, SameLoads
  <2> QED
    BY <2>1, <2>2
<1>3. /\ Script(mode, refs, order, bulk) = IF mode = "truncate" THEN p \o bulk
                                           ELSE p \o bulk \o keys \o EmitIndexes
      /\ Script(mode, refs, order, dump) = IF mode = "truncate" THEN p \o dump
                                           ELSE p \o dump \o keys \o EmitIndexes
  BY DEF Script, Preparation
<1>4. IsScript(keys) /\ IsScript(EmitIndexes)
  BY KeysAdded, Indexed
<1> HIDE DEF p, bulk, dump, keys
<1>5. Outcome(before, p \o bulk) = Outcome(before, p \o dump)
  <2>1. /\ Outcome(before, p \o bulk) = UNION {Outcome(db, bulk) : db \in Outcome(before, p)}
        /\ Outcome(before, p \o dump) = UNION {Outcome(db, dump) : db \in Outcome(before, p)}
    BY <1>1, Continued
  <2> QED
    BY <1>2, <2>1
<1>6. Outcome(before, p \o bulk \o keys \o EmitIndexes)
        = Outcome(before, p \o dump \o keys \o EmitIndexes)
  <2> DEFINE a == p \o bulk
             b == p \o dump
  <2>1. IsScript(a) /\ IsScript(b)
    BY <1>1, Concatenation
  <2> HIDE DEF a, b
  <2>2. IsScript(a \o keys) /\ IsScript(b \o keys)
    BY <1>4, <2>1, Concatenation
  <2>3. /\ Outcome(before, a \o keys) = UNION {Outcome(db, keys) : db \in Outcome(before, a)}
        /\ Outcome(before, b \o keys) = UNION {Outcome(db, keys) : db \in Outcome(before, b)}
    BY <1>4, <2>1, Continued
  <2>4. Outcome(before, a \o keys) = Outcome(before, b \o keys)
    BY <1>5, <2>3 DEF a, b
  <2> DEFINE c == a \o keys
             d == b \o keys
  <2> HIDE DEF c, d
  <2>5. /\ Outcome(before, c \o EmitIndexes)
              = UNION {Outcome(db, EmitIndexes) : db \in Outcome(before, c)}
        /\ Outcome(before, d \o EmitIndexes)
              = UNION {Outcome(db, EmitIndexes) : db \in Outcome(before, d)}
    BY <1>4, <2>2, Continued DEF c, d
  <2>6. Outcome(before, c \o EmitIndexes) = Outcome(before, d \o EmitIndexes)
    BY <2>4, <2>5 DEF c, d
  <2> QED
    BY <2>6 DEF a, b, c, d
<1>7. Outcome(before, Script(mode, refs, order, bulk)) = Outcome(before, Script(mode, refs, order, dump))
  BY <1>3, <1>5, <1>6
<1> QED
  BY <1>7 DEF bulk, dump

(* A script, cut before and after one of its statements.                   *)
LEMMA Cut ==
  ASSUME NEW s, IsScript(s), NEW p \in 1..Len(s)
  PROVE  /\ IsScript(SubSeq(s, 1, p - 1)) /\ IsScript(SubSeq(s, 1, p))
         /\ IsScript(SubSeq(s, p + 1, Len(s)))
         /\ SubSeq(s, 1, p) = SubSeq(s, 1, p - 1) \o <<s[p]>>
         /\ s = SubSeq(s, 1, p) \o SubSeq(s, p + 1, Len(s))
<1> DEFINE T == Statements(s)
           n == Len(s)
           a == SubSeq(s, 1, p - 1)
           b == SubSeq(s, 1, p)
           c == SubSeq(s, p + 1, n)
<1>1. s \in Seq(T) /\ n \in Nat /\ \A i \in 1..n : s[i] \in T
  BY LenProperties DEF IsScript, Statements
<1> HIDE DEF T
<1>2. /\ a \in Seq(T) /\ Len(a) = p - 1 /\ \A i \in 1..(p - 1) : a[i] = s[i]
      /\ b \in Seq(T) /\ Len(b) = p /\ \A i \in 1..p : b[i] = s[i]
      /\ c \in Seq(T) /\ Len(c) = n - p /\ \A i \in 1..(n - p) : c[i] = s[p + i]
  BY <1>1
<1>3. IsScript(a) /\ IsScript(b) /\ IsScript(c)
  <2>1. ASSUME NEW u \in Seq(T) PROVE IsScript(u)
    <3>1. Len(u) \in Nat /\ u = [i \in 1..Len(u) |-> u[i]]
      OBVIOUS
    <3> QED
      BY <3>1, Listing
  <2> HIDE DEF a, b, c
  <2> QED
    BY <1>2, <2>1
<1>4. b = a \o <<s[p]>>
  <2>1. 1 \in 1..n /\ p \in 1..n
    BY <1>1
  <2> QED
    BY <1>1, <2>1, SubSeqRecursiveSecond
<1>5. s = b \o c
  <2> HIDE DEF a, b, c
  <2>1. /\ b \o c \in Seq(T) /\ Len(b \o c) = p + (n - p)
        /\ \A i \in 1..(p + (n - p)) : (b \o c)[i] = IF i <= p THEN b[i] ELSE c[i - p]
    <3>1. /\ b \o c \in Seq(T) /\ Len(b \o c) = Len(b) + Len(c)
          /\ \A i \in 1..(Len(b) + Len(c)) :
               (b \o c)[i] = IF i <= Len(b) THEN b[i] ELSE c[i - Len(b)]
      BY <1>2, ConcatProperties
    <3> HIDE DEF n
    <3> QED
      BY <1>2, <3>1
  <2>2. p + (n - p) = n
    BY <1>1
  <2>3. ASSUME NEW i \in 1..n PROVE s[i] = (b \o c)[i]
    <3>1. CASE i <= p
      BY <1>1, <1>2, <2>1, <2>2, <3>1
    <3>2. CASE ~(i <= p)
      <4>1. i - p \in 1..(n - p) /\ p + (i - p) = i
        BY <1>1, <3>2
      <4>2. (b \o c)[i] = c[i - p] /\ c[i - p] = s[p + (i - p)]
        BY <1>2, <2>1, <2>2, <3>2, <4>1
      <4> QED
        BY <4>1, <4>2
    <3> QED
      BY <3>1, <3>2
  <2> HIDE DEF n
  <2>4. n = Len(s) /\ Len(b \o c) = n
    BY <2>1, <2>2 DEF n
  <2> QED
    BY <1>1, <2>1, <2>3, <2>4, SeqEqual
<1> QED
  BY <1>3, <1>4, <1>5

(* db is what a script leaves.                                             *)
Leaves(before, s, db) == Outcome(before, s) = {db}

(* The next statement decides whether a script goes on or leaves nothing.  *)
LEMMA NextOutcome ==
  ASSUME NEW before, NEW s, IsScript(s), NEW p \in 1..Len(s), NEW db,
         Leaves(before, SubSeq(s, 1, p - 1), db)
  PROVE  /\ Accepts(db, s[p]) => Leaves(before, SubSeq(s, 1, p), After(db, s[p]))
         /\ ~Accepts(db, s[p]) => Outcome(before, s) = {}
<1> DEFINE a == SubSeq(s, 1, p - 1)
           b == SubSeq(s, 1, p)
           c == SubSeq(s, p + 1, Len(s))
           x == s[p]
<1>1. IsScript(a) /\ IsScript(b) /\ IsScript(c) /\ b = a \o <<x>> /\ s = b \o c
  BY Cut
<1>2. Outcome(before, a) = {db} /\ IsScript(<<x>>)
  BY Short DEF Leaves
<1> HIDE DEF a, b, c, x
<1>3. Outcome(before, b) = Accepted({db}, x)
  <2>1. Outcome(before, a \o <<x>>) = UNION {Outcome(d, <<x>>) : d \in {db}}
    BY <1>1, <1>2, Continued
  <2>2. Outcome(before, b) = Outcome(db, <<x>>)
    BY <1>1, <2>1
  <2> QED
    BY <2>2, ShortOutcomes
<1>4. ASSUME Accepts(db, x) PROVE Leaves(before, b, After(db, x))
  BY <1>3, <1>4 DEF Accepted, Leaves
<1>5. ASSUME ~Accepts(db, x) PROVE Outcome(before, b \o c) = {}
  <2>1. Outcome(before, b) = {}
    BY <1>3, <1>5 DEF Accepted
  <2> QED
    BY <1>1, <2>1, Continued
<1> QED
  BY <1>1, <1>4, <1>5 DEF b, x
=============================================================================
