-------------------------- MODULE ForeignKeyProofs ---------------------------
(***************************************************************************)
(* Theorems about the two functions that foreign keys steer, for every     *)
(* Database: topological_order, for any number of tables and any foreign   *)
(* keys between them, and the alignment of foreign key columns, for any    *)
(* columns, types and references.                                          *)
(***************************************************************************)
EXTENDS DependencyOrder, ForeignKeyTypes, TLAPS

(***************************************************************************)
(* The inductive invariant behind the theorems, part by part.              *)
(***************************************************************************)
Queued(t) == \E i \in 1..Len(ready) : ready[i] = t

Answered(t) == \E i \in 1..Len(ordered) : ordered[i] = t

Scanned(t) == \E i \in 1..(cursor - 1) : Source[i] = t

(* An edge is discarded when its parent has been placed and its child      *)
(* visited; incoming and outgoing always agree.                            *)
EdgesInv ==
  /\ \A c, p \in Tables :
       p \in incoming[c] <=>
         /\ p \in Parents(c)
         /\ p \notin placed \/ (p = Node /\ c \in children)
  /\ \A c, p \in Tables : c \in outgoing[p] <=> p \in incoming[c]
  /\ children # {} => phase = "drain" /\ ordered # << >>
  /\ \A c \in children : Node \in Parents(c)

(* The queue holds, once, each unplaced table with no edge left.           *)
QueueInv ==
  /\ \A i, j \in 1..Len(ready) : ready[i] = ready[j] => i = j
  /\ phase = "scan" => \A t \in Tables : Queued(t) <=> incoming[t] = {} /\ Scanned(t)
  /\ phase = "drain" => \A t \in Tables : Queued(t) <=> incoming[t] = {} /\ t \notin placed
  /\ phase \in {"rest", "done"} =>
       /\ children = {}
       /\ \A t \in Tables : incoming[t] = {} => t \in placed

(* The answer holds each table placed, then each table the last loop has   *)
(* passed.                                                                 *)
AnswerInv ==
  /\ \A i, j \in 1..Len(ordered) : ordered[i] = ordered[j] => i = j
  /\ phase = "scan" => ordered = << >> /\ placed = {}
  /\ phase = "drain" => \A t \in Tables : Answered(t) <=> t \in placed
  /\ phase \in {"rest", "done"} =>
       \A t \in Tables : Answered(t) <=> t \in placed \/ Scanned(t)
  /\ phase = "done" => cursor = Len(Source) + 1

(* A table is placed after all its parents, so never while it belongs to a *)
(* set of tables that wait for each other.                                 *)
PlacedInv ==
  /\ \A j \in 1..Len(ordered) :
       ordered[j] \in placed => \A p \in Parents(ordered[j]) : Before(ordered, p, j)
  /\ \A S \in SUBSET Tables : SelfSupporting(fk, S) => S \cap placed = {}

(* What the last loop appended is a tail of the answer, in source order.   *)
TailInv ==
  \A i, j \in 1..Len(ordered) :
    (i < j /\ ordered[i] \notin placed) =>
      /\ ordered[j] \notin placed
      /\ \E a, b \in 1..(cursor - 1) :
           a < b /\ Source[a] = ordered[i] /\ Source[b] = ordered[j]

IInv == EdgesInv /\ QueueInv /\ AnswerInv /\ PlacedInv /\ TailInv

-----------------------------------------------------------------------------
(* What the two operations on sequences do to the elements.                *)
LEMMA AppendFacts ==
  ASSUME NEW S, NEW s \in Seq(S), NEW e \in S
  PROVE  /\ Append(s, e) \in Seq(S)
         /\ Len(Append(s, e)) = Len(s) + 1
         /\ \A i \in 1..Len(s) : Append(s, e)[i] = s[i]
         /\ Append(s, e)[Len(s) + 1] = e
  OBVIOUS

LEMMA AppendElements ==
  ASSUME NEW S, NEW s \in Seq(S), NEW e \in S, NEW t
  PROVE  (\E i \in 1..Len(Append(s, e)) : Append(s, e)[i] = t)
           <=> (\E i \in 1..Len(s) : s[i] = t) \/ t = e
<1>1. Len(s) \in Nat
  OBVIOUS
<1>2. ASSUME NEW i \in 1..Len(Append(s, e)), Append(s, e)[i] = t
      PROVE  (\E k \in 1..Len(s) : s[k] = t) \/ t = e
  <2>1. CASE i = Len(s) + 1
    BY <1>2, <2>1, AppendFacts
  <2>2. CASE i # Len(s) + 1
    BY <1>1, <1>2, <2>2, AppendFacts
  <2> QED
    BY <2>1, <2>2
<1>3. ASSUME NEW i \in 1..Len(s), s[i] = t
      PROVE  \E k \in 1..Len(Append(s, e)) : Append(s, e)[k] = t
  BY <1>1, <1>3, AppendFacts
<1>4. ASSUME t = e
      PROVE  \E k \in 1..Len(Append(s, e)) : Append(s, e)[k] = t
  BY <1>1, <1>4, AppendFacts
<1> QED
  BY <1>2, <1>3, <1>4

LEMMA TailFacts ==
  ASSUME NEW S, NEW s \in Seq(S), s # << >>
  PROVE  /\ Head(s) \in S
         /\ Head(s) = s[1]
         /\ Len(s) \in Nat \ {0}
         /\ Tail(s) \in Seq(S)
         /\ Len(Tail(s)) = Len(s) - 1
         /\ \A i \in 1..Len(Tail(s)) : Tail(s)[i] = s[i + 1]
  OBVIOUS

(* Tables are the elements of Source.                                      *)
LEMMA SourceFacts ==
  /\ Len(Source) \in Nat
  /\ \A i \in 1..Len(Source) : Source[i] \in Tables
  /\ \A t \in Tables : \E i \in 1..Len(Source) : Source[i] = t
  BY SourceAssumption DEF Tables

(* Every state of topological_order has the types it declares: no key of a *)
(* table outside the Database ever enters incoming or outgoing.            *)
THEOREM TypeCorrect == Spec => []TypeOK
<1>1. Init => TypeOK
  BY SourceFacts DEF Init, TypeOK, Parents, Children
<1>2. TypeOK /\ [Next]_vars => TypeOK'
  <2> SUFFICES ASSUME TypeOK, [Next]_vars
               PROVE  TypeOK'
    OBVIOUS
  <2> USE DEF TypeOK
  <2>1. CASE Scan
    <3>1. Source[cursor] \in Tables
      BY <2>1, SourceFacts DEF Scan
    <3>2. ready' \in Seq(Tables)
      BY <2>1, <3>1, AppendFacts DEF Scan
    <3>3. cursor' \in 1..(Len(Source) + 1)
      BY <2>1, SourceFacts DEF Scan
    <3> QED
      BY <2>1, <3>2, <3>3 DEF Scan
  <2>2. CASE EndScan
    BY <2>2 DEF EndScan
  <2>3. CASE Place
    <3>1. Head(ready) \in Tables /\ Tail(ready) \in Seq(Tables)
      BY <2>3, TailFacts DEF Place
    <3>2. ordered' \in Seq(Tables)
      BY <2>3, <3>1, AppendFacts DEF Place
    <3> QED
      BY <2>3, <3>1, <3>2 DEF Place
  <2>4. ASSUME NEW child \in Tables, Visit(child)
        PROVE  TypeOK'
    <3>1. ready' \in Seq(Tables)
      BY <2>4, AppendFacts DEF Visit
    <3>2. incoming' \in [Tables -> SUBSET Tables]
      BY <2>4 DEF Visit
    <3>3. outgoing' \in [Tables -> SUBSET Tables]
      BY <2>4 DEF Visit
    <3> QED
      BY <2>4, <3>1, <3>2, <3>3 DEF Visit
  <2>5. CASE EndDrain
    BY <2>5, SourceFacts DEF EndDrain
  <2>6. CASE AppendRest
    <3>1. Source[cursor] \in Tables
      BY <2>6, SourceFacts DEF AppendRest
    <3>2. ordered' \in Seq(Tables)
      BY <2>6, <3>1, AppendFacts DEF AppendRest
    <3>3. cursor' \in 1..(Len(Source) + 1)
      BY <2>6, SourceFacts DEF AppendRest
    <3> QED
      BY <2>6, <3>2, <3>3 DEF AppendRest
  <2>7. CASE Return
    BY <2>7 DEF Return
  <2>8. CASE UNCHANGED vars
    BY <2>8 DEF vars
  <2> QED
    BY <2>1, <2>2, <2>3, <2>4, <2>5, <2>6, <2>7, <2>8 DEF Next, Returned
<1>3. QED
  BY <1>1, <1>2, PTL DEF Spec

-----------------------------------------------------------------------------
(* The inductive invariant holds initially and is preserved.               *)
LEMMA InitIInv == Init => IInv
<1> SUFFICES ASSUME Init PROVE IInv
  OBVIOUS
<1> USE DEF Init
<1>1. EdgesInv
  BY DEF EdgesInv, Parents, Children
<1>2. QueueInv
  BY SourceFacts DEF QueueInv, Queued, Scanned
<1>3. AnswerInv
  BY DEF AnswerInv
<1>4. PlacedInv /\ TailInv
  BY DEF PlacedInv, TailInv
<1> QED
  BY <1>1, <1>2, <1>3, <1>4 DEF IInv

LEMMA StepScan ==
  ASSUME TypeOK, IInv, Scan
  PROVE  IInv'
<1> USE DEF TypeOK, IInv, Scan
<1> DEFINE t0 == Source[cursor]
<1>0. t0 \in Tables /\ cursor \in Nat /\ cursor' = cursor + 1
  BY SourceFacts
<1>1. EdgesInv'
  BY DEF EdgesInv, Parents, Node
<1>2. QueueInv'
  <2>1. ~Queued(t0)
    <3>1. Len(Source) \in Nat
      BY SourceFacts
    <3>2. ~Scanned(t0)
      BY <1>0, <3>1, SourceAssumption DEF Scanned
    <3> QED
      BY <1>0, <3>2 DEF QueueInv
  <2>2. \A t : Scanned(t)' <=> Scanned(t) \/ t = t0
    BY <1>0, SourceFacts DEF Scanned
  <2>3. \A t : Queued(t)' <=> Queued(t) \/ (t = t0 /\ incoming[t0] = {})
    BY <1>0, AppendElements DEF Queued
  <2>4. \A i, j \in 1..Len(ready') : ready'[i] = ready'[j] => i = j
    BY <1>0, <2>1, AppendFacts DEF QueueInv, Queued
  <2> QED
    BY <2>2, <2>3, <2>4 DEF QueueInv
<1>3. AnswerInv'
  BY DEF AnswerInv
<1>4. PlacedInv' /\ TailInv'
  BY DEF PlacedInv, TailInv, AnswerInv, Parents, Before, SelfSupporting
<1> QED
  BY <1>1, <1>2, <1>3, <1>4

LEMMA StepEndScan ==
  ASSUME TypeOK, IInv, EndScan
  PROVE  IInv'
<1> USE DEF TypeOK, IInv, EndScan
<1>1. EdgesInv'
  BY DEF EdgesInv, Parents, Node
<1>2. QueueInv'
  <2>1. \A t \in Tables : Scanned(t)
    BY SourceFacts DEF Scanned
  <2> QED
    BY <2>1 DEF QueueInv, Queued, AnswerInv
<1>3. AnswerInv'
  BY DEF AnswerInv, Answered
<1>4. PlacedInv' /\ TailInv'
  BY DEF PlacedInv, TailInv, Parents, Before, SelfSupporting
<1> QED
  BY <1>1, <1>2, <1>3, <1>4

(* The one step that places a table: its parents have all been placed.     *)
LEMMA StepPlace ==
  ASSUME TypeOK, IInv, Place
  PROVE  IInv'
<1> USE DEF TypeOK, IInv, Place
<1> DEFINE n == Head(ready)
<1>0. /\ n \in Tables /\ n = ready[1] /\ Len(ready) \in Nat \ {0}
      /\ ordered' \in Seq(Tables) /\ Len(ordered') = Len(ordered) + 1
      /\ \A i \in 1..Len(ordered) : ordered'[i] = ordered[i]
      /\ ordered'[Len(ordered')] = n
      /\ Len(ordered) \in Nat
  BY TailFacts, AppendFacts
<1>1. incoming[n] = {} /\ n \notin placed
  BY <1>0 DEF QueueInv, Queued
<1>2. ~Answered(n)
  BY <1>0, <1>1 DEF AnswerInv
<1>3. Node' = n
  BY <1>0 DEF Node
<1>4. EdgesInv'
  <2>1. \A c \in Tables : c \in outgoing[n] <=> n \in incoming[c]
    BY <1>0 DEF EdgesInv
  <2>2. \A c, p \in Tables :
          p \in incoming[c] <=>
            /\ p \in Parents(c)
            /\ p \notin placed' \/ (p = n /\ c \in children')
    BY <1>0, <1>1, <2>1 DEF EdgesInv
  <2>3. \A c \in children' : n \in Parents(c)
    BY <1>0, <2>1 DEF EdgesInv
  <2> QED
    BY <1>0, <1>3, <2>2, <2>3 DEF EdgesInv, Parents
<1>5. QueueInv'
  <2>1. /\ Tail(ready) \in Seq(Tables) /\ Len(Tail(ready)) = Len(ready) - 1
        /\ \A i \in 1..Len(Tail(ready)) : Tail(ready)[i] = ready[i + 1]
    BY TailFacts
  <2>2. \A t : Queued(t)' <=> Queued(t) /\ t # n
    <3>1. ASSUME NEW t, Queued(t), t # n
          PROVE  Queued(t)'
      <4>1. PICK i \in 1..Len(ready) : ready[i] = t
        BY <3>1 DEF Queued
      <4>2. i - 1 \in 1..Len(Tail(ready)) /\ Tail(ready)[i - 1] = t
        BY <1>0, <2>1, <3>1, <4>1
      <4> QED
        BY <4>2 DEF Queued
    <3>2. ASSUME NEW t, Queued(t)'
          PROVE  Queued(t) /\ t # n
      <4>1. PICK i \in 1..Len(Tail(ready)) : Tail(ready)[i] = t
        BY <3>2 DEF Queued
      <4>2. i + 1 \in 1..Len(ready) /\ ready[i + 1] = t /\ i + 1 # 1
        BY <1>0, <2>1, <4>1
      <4> QED
        BY <1>0, <4>2 DEF Queued, QueueInv
    <3> QED
      BY <3>1, <3>2
  <2>3. \A i, j \in 1..Len(ready') : ready'[i] = ready'[j] => i = j
    BY <1>0, <2>1 DEF QueueInv
  <2> QED
    BY <2>2, <2>3 DEF QueueInv
<1>6. AnswerInv'
  <2>1. \A t : Answered(t)' <=> Answered(t) \/ t = n
    BY <1>0, AppendElements DEF Answered
  <2>2. \A i, j \in 1..Len(ordered') : ordered'[i] = ordered'[j] => i = j
    BY <1>0, <1>2 DEF AnswerInv, Answered
  <2> QED
    BY <2>1, <2>2 DEF AnswerInv
<1>7. PlacedInv'
  <2>1. \A p \in Parents(n) : p \in placed
    BY <1>0, <1>1 DEF EdgesInv, Parents
  <2>2. \A p \in Parents(n) : Answered(p)
    BY <2>1 DEF AnswerInv, Parents
  <2>3. ASSUME NEW j \in 1..Len(ordered'), ordered'[j] \in placed',
               NEW p \in Parents(ordered'[j])
        PROVE  Before(ordered', p, j)
    <3>1. CASE j = Len(ordered')
      BY <1>0, <2>2, <3>1 DEF Answered, Before
    <3>2. CASE j # Len(ordered')
      <4>1. j \in 1..Len(ordered) /\ ordered'[j] = ordered[j] /\ ordered[j] # n
        BY <1>0, <1>2, <3>2 DEF Answered
      <4>2. Before(ordered, p, j)
        BY <2>3, <4>1 DEF PlacedInv
      <4> QED
        BY <1>0, <4>1, <4>2 DEF Before
    <3> QED
      BY <3>1, <3>2
  <2>4. ASSUME NEW S \in SUBSET Tables, SelfSupporting(fk, S)
        PROVE  S \cap placed' = {}
    <3>1. S \cap placed = {}
      BY <2>4 DEF PlacedInv
    <3>2. n \notin S
      BY <2>1, <2>4, <3>1 DEF SelfSupporting, Parents
    <3> QED
      BY <3>1, <3>2
  <2> QED
    BY <2>3, <2>4 DEF PlacedInv, Parents, SelfSupporting
<1>8. TailInv'
  BY <1>0 DEF TailInv, AnswerInv, Answered
<1> QED
  BY <1>4, <1>5, <1>6, <1>7, <1>8

(* The one step that discards an edge.                                     *)
LEMMA StepVisit ==
  ASSUME TypeOK, IInv, NEW child \in Tables, Visit(child)
  PROVE  IInv'
<1> USE DEF TypeOK, IInv, Visit
<1>0. /\ Node' = Node /\ Node \in Parents(child) /\ Node \in Tables
      /\ Node \in incoming[child] /\ ordered # << >>
  BY DEF Node, EdgesInv, Parents
<1>1. /\ incoming' = [incoming EXCEPT ![child] = @ \ {Node}]
      /\ outgoing' = [outgoing EXCEPT ![Node] = @ \ {child}]
      /\ \A t \in Tables : t # child => incoming'[t] = incoming[t]
      /\ incoming'[child] = incoming[child] \ {Node}
      /\ \A t \in Tables : t # Node => outgoing'[t] = outgoing[t]
      /\ outgoing'[Node] = outgoing[Node] \ {child}
  BY <1>0
<1>2. Node \in placed
  <2>1. Answered(Node)
    BY <1>0 DEF Answered, Node
  <2> QED
    BY <1>0, <2>1 DEF AnswerInv
<1>3. EdgesInv'
  <2>1. \A c, p \in Tables :
          p \in incoming'[c] <=>
            /\ p \in Parents(c)
            /\ p \notin placed \/ (p = Node /\ c \in children')
    BY <1>0, <1>1, <1>2 DEF EdgesInv
  <2>2. \A c, p \in Tables : c \in outgoing'[p] <=> p \in incoming'[c]
    BY <1>0, <1>1 DEF EdgesInv
  <2> QED
    BY <1>0, <2>1, <2>2 DEF EdgesInv, Parents
<1>4. QueueInv'
  <2>1. ~Queued(child)
    BY <1>0 DEF QueueInv
  <2>2. \A t : Queued(t)' <=>
                 Queued(t) \/ (t = child /\ incoming'[child] = {} /\ child \notin placed)
    BY AppendElements DEF Queued
  <2>3. \A i, j \in 1..Len(ready') : ready'[i] = ready'[j] => i = j
    BY <2>1, AppendFacts DEF QueueInv, Queued
  <2> QED
    BY <1>0, <1>1, <2>2, <2>3 DEF QueueInv
<1>5. AnswerInv'
  BY DEF AnswerInv, Answered
<1>6. PlacedInv'
  BY DEF PlacedInv, Parents, Before, SelfSupporting
<1>7. TailInv'
  BY DEF TailInv
<1> QED
  BY <1>3, <1>4, <1>5, <1>6, <1>7

LEMMA StepEndDrain ==
  ASSUME TypeOK, IInv, EndDrain
  PROVE  IInv'
<1> USE DEF TypeOK, IInv, EndDrain
<1>1. EdgesInv'
  BY DEF EdgesInv, Parents, Node
<1>2. QueueInv'
  BY DEF QueueInv, Queued
<1>3. AnswerInv'
  BY DEF AnswerInv, Answered, Scanned
<1>4. \A i \in 1..Len(ordered) : ordered[i] \in placed
  BY DEF AnswerInv, Answered
<1>5. PlacedInv' /\ TailInv'
  BY <1>4 DEF PlacedInv, TailInv, Parents, Before, SelfSupporting
<1> QED
  BY <1>1, <1>2, <1>3, <1>5

LEMMA StepAppendRest ==
  ASSUME TypeOK, IInv, AppendRest
  PROVE  IInv'
<1> USE DEF TypeOK, IInv, AppendRest
<1> DEFINE t0 == Source[cursor]
<1>0. t0 \in Tables /\ cursor \in 1..Len(Source) /\ cursor' = cursor + 1 /\ Len(Source) \in Nat
  BY SourceFacts
<1>1. EdgesInv'
  BY DEF EdgesInv, QueueInv, Parents
<1>2. QueueInv'
  BY DEF QueueInv
<1>3. ~Scanned(t0)
  BY <1>0, SourceAssumption DEF Scanned
<1>4. \A t : Scanned(t)' <=> Scanned(t) \/ t = t0
  BY <1>0 DEF Scanned
<1>5. CASE t0 \in placed
  <2>1. ordered' = ordered
    BY <1>5
  <2>2. AnswerInv'
    BY <1>4, <1>5, <2>1 DEF AnswerInv, Answered
  <2>3. PlacedInv'
    BY <2>1 DEF PlacedInv, Parents, Before, SelfSupporting
  <2>4. TailInv'
    BY <1>0, <2>1 DEF TailInv
  <2> QED
    BY <1>1, <1>2, <2>2, <2>3, <2>4
<1>6. CASE t0 \notin placed
  <2>1. /\ ordered' \in Seq(Tables) /\ Len(ordered') = Len(ordered) + 1
        /\ \A i \in 1..Len(ordered) : ordered'[i] = ordered[i]
        /\ ordered'[Len(ordered')] = t0
        /\ Len(ordered) \in Nat
    BY <1>0, <1>6, AppendFacts
  <2>2. \A t : Answered(t)' <=> Answered(t) \/ t = t0
    <3>1. ordered' = Append(ordered, t0)
      BY <1>6
    <3> QED
      BY <1>0, <3>1, AppendElements DEF Answered
  <2>3. ~Answered(t0)
    BY <1>0, <1>3, <1>6 DEF AnswerInv
  <2>4. AnswerInv'
    <3>1. \A i, j \in 1..Len(ordered') : ordered'[i] = ordered'[j] => i = j
      BY <2>1, <2>3 DEF AnswerInv, Answered
    <3> QED
      BY <1>4, <2>2, <3>1 DEF AnswerInv
  <2>5. PlacedInv'
    <3>1. ASSUME NEW j \in 1..Len(ordered'), ordered'[j] \in placed,
                 NEW p \in Parents(ordered'[j])
          PROVE  Before(ordered', p, j)
      <4>1. j \in 1..Len(ordered) /\ ordered'[j] = ordered[j]
        BY <1>6, <2>1, <3>1
      <4>2. Before(ordered, p, j)
        BY <3>1, <4>1 DEF PlacedInv
      <4> QED
        BY <2>1, <4>1, <4>2 DEF Before
    <3> QED
      BY <3>1 DEF PlacedInv, Parents, SelfSupporting
  <2>6. TailInv'
    <3> SUFFICES ASSUME NEW i \in 1..Len(ordered'), NEW j \in 1..Len(ordered'),
                        i < j, ordered'[i] \notin placed
                 PROVE  /\ ordered'[j] \notin placed
                        /\ \E a, b \in 1..cursor :
                             a < b /\ Source[a] = ordered'[i] /\ Source[b] = ordered'[j]
      BY <1>0 DEF TailInv
    <3>1. i \in 1..Len(ordered) /\ ordered'[i] = ordered[i]
      BY <2>1
    <3>2. CASE j = Len(ordered')
      <4>1. Scanned(ordered[i])
        BY <3>1 DEF AnswerInv, Answered
      <4>2. PICK a \in 1..(cursor - 1) : Source[a] = ordered[i]
        BY <4>1 DEF Scanned
      <4>3. a \in 1..cursor /\ cursor \in 1..cursor /\ a < cursor
        BY <1>0
      <4>4. Source[a] = ordered'[i] /\ Source[cursor] = ordered'[j]
        BY <2>1, <3>1, <3>2, <4>2
      <4>5. ordered'[j] \notin placed
        BY <1>6, <4>4
      <4> QED
        BY <4>3, <4>4, <4>5
    <3>3. CASE j # Len(ordered')
      <4>1. j \in 1..Len(ordered) /\ ordered'[j] = ordered[j]
        BY <2>1, <3>3
      <4>2. ordered[j] \notin placed /\ \E a, b \in 1..(cursor - 1) :
              a < b /\ Source[a] = ordered[i] /\ Source[b] = ordered[j]
        BY <3>1, <4>1 DEF TailInv
      <4>3. PICK a, b \in 1..(cursor - 1) :
              a < b /\ Source[a] = ordered[i] /\ Source[b] = ordered[j]
        BY <4>2
      <4>4. a \in 1..cursor /\ b \in 1..cursor
        BY <1>0
      <4> QED
        BY <3>1, <4>1, <4>2, <4>3, <4>4
    <3> QED
      BY <3>2, <3>3
  <2> QED
    BY <1>1, <1>2, <2>4, <2>5, <2>6
<1> QED
  BY <1>5, <1>6

LEMMA StepReturn ==
  ASSUME TypeOK, IInv, Return
  PROVE  IInv'
<1> USE DEF TypeOK, IInv, Return
<1>1. EdgesInv'
  BY DEF EdgesInv, QueueInv, Parents
<1>2. QueueInv'
  BY DEF QueueInv
<1>3. AnswerInv'
  BY SourceFacts DEF AnswerInv, Answered, Scanned
<1>4. PlacedInv' /\ TailInv'
  BY DEF PlacedInv, TailInv, Parents, Before, SelfSupporting
<1> QED
  BY <1>1, <1>2, <1>3, <1>4

(* The inductive invariant holds in every state.                           *)
THEOREM Inductive == Spec => [](TypeOK /\ IInv)
<1>1. TypeOK /\ IInv /\ [Next]_vars => IInv'
  <2> SUFFICES ASSUME TypeOK, IInv, [Next]_vars
               PROVE  IInv'
    OBVIOUS
  <2>1. CASE UNCHANGED vars
    BY <2>1 DEF vars, IInv, EdgesInv, QueueInv, AnswerInv, PlacedInv, TailInv,
                Parents, Node, Queued, Answered, Scanned, Before, SelfSupporting
  <2> QED
    BY <2>1, StepScan, StepEndScan, StepPlace, StepVisit, StepEndDrain,
       StepAppendRest, StepReturn DEF Next, Returned
<1>2. QED
  BY <1>1, InitIInv, TypeCorrect, PTL DEF Spec

-----------------------------------------------------------------------------
(* Once the queue is drained, the tables left are exactly those that no    *)
(* order can serve: each of them waits for another of them.                *)
LEMMA PlacedAreUnblocked ==
  ASSUME TypeOK, IInv, phase \in {"rest", "done"}
  PROVE  \A t \in Tables : t \in placed <=> t \notin Blocked(fk)
<1> USE DEF TypeOK, IInv
<1> DEFINE Left == Tables \ placed
<1>1. SelfSupporting(fk, Left)
  <2> SUFFICES ASSUME NEW t \in Left
               PROVE  \E p \in Left : p # t /\ p \in fk[t]
    BY DEF SelfSupporting
  <2>1. children = {} /\ incoming[t] # {}
    BY DEF QueueInv
  <2>2. PICK p \in Tables : p \in incoming[t]
    BY <2>1
  <2> QED
    BY <2>1, <2>2 DEF EdgesInv, Parents
<1>2. \A t \in Left : t \in Blocked(fk)
  BY <1>1 DEF Blocked
<1>3. \A t \in placed : t \notin Blocked(fk)
  BY DEF Blocked, PlacedInv
<1> QED
  BY <1>2, <1>3

LEMMA AnswerIsValid ==
  ASSUME TypeOK, IInv, phase = "done"
  PROVE  ValidOrder(fk, ordered)
<1> USE DEF TypeOK, IInv
<1>1. \A t \in Tables : Answered(t)
  BY SourceFacts DEF AnswerInv, Scanned
<1>2. EachOnce(ordered)
  BY <1>1 DEF EachOnce, AnswerInv, Answered
<1>3. \A i \in 1..Len(ordered) : ordered[i] \in Tables
  OBVIOUS
<1>4. ParentsPrecede(fk, ordered)
  BY <1>3, PlacedAreUnblocked DEF ParentsPrecede, PlacedInv, Parents
<1>5. BlockedLastInSourceOrder(fk, ordered)
  <2> SUFFICES ASSUME NEW i \in 1..Len(ordered), NEW j \in 1..Len(ordered),
                      i < j, ordered[i] \in Blocked(fk)
               PROVE  /\ ordered[j] \in Blocked(fk)
                      /\ \E a, b \in 1..Len(Source) :
                           a < b /\ Source[a] = ordered[i] /\ Source[b] = ordered[j]
    BY DEF BlockedLastInSourceOrder
  <2>1. ordered[i] \notin placed
    BY <1>3, PlacedAreUnblocked
  <2>2. cursor - 1 = Len(Source)
    BY SourceFacts DEF AnswerInv
  <2>3. /\ ordered[j] \notin placed
        /\ \E a, b \in 1..Len(Source) :
             a < b /\ Source[a] = ordered[i] /\ Source[b] = ordered[j]
    BY <2>1, <2>2 DEF TailInv
  <2> QED
    BY <1>3, <2>3, PlacedAreUnblocked
<1> QED
  BY <1>2, <1>4, <1>5 DEF ValidOrder

(* "callers always receive every table exactly once" (docstring of         *)
(* topological_order), whatever the foreign keys.                          *)
THEOREM EveryTableIsAnsweredOnce == Spec => []EveryTableOnce
<1>1. TypeOK /\ IInv => EveryTableOnce
  BY AnswerIsValid DEF EveryTableOnce, ValidOrder
<1> QED
  BY <1>1, Inductive, PTL

(* Every table that no cycle holds back comes after all the tables it      *)
(* references, whatever order the inner loop visits children in.           *)
THEOREM ParentsComeFirst == Spec => []ParentsFirst
<1>1. TypeOK /\ IInv => ParentsFirst
  BY AnswerIsValid DEF ParentsFirst, ValidOrder
<1> QED
  BY <1>1, Inductive, PTL

(* Tables on a cycle of foreign keys, or downstream of one, come last and  *)
(* in source order.                                                        *)
THEOREM CyclesComeLast == Spec => []CyclesLast
<1>1. TypeOK /\ IInv => CyclesLast
  BY AnswerIsValid DEF CyclesLast, ValidOrder
<1> QED
  BY <1>1, Inductive, PTL

(* drop_order never drops a table while a table that references it waits   *)
(* for its own DROP, except around cycles.                                 *)
THEOREM ChildrenAreDroppedFirst == Spec => []DropsChildrenFirst
<1>1. TypeOK /\ IInv => DropsChildrenFirst
  <2> SUFFICES ASSUME TypeOK, IInv, phase = "done",
                      NEW i \in 1..Len(ordered), NEW j \in 1..Len(ordered), i < j,
                      DropOrder[i] # DropOrder[j], DropOrder[j] \notin Blocked(fk),
                      DropOrder[i] \in fk[DropOrder[j]]
               PROVE  FALSE
    BY DEF DropsChildrenFirst
  <2> DEFINE parent == Len(ordered) + 1 - i
             child == Len(ordered) + 1 - j
  <2>1. /\ ordered \in Seq(Tables) /\ Len(ordered) \in Nat
        /\ parent \in 1..Len(ordered) /\ child \in 1..Len(ordered) /\ child < parent
        /\ DropOrder[i] = ordered[parent] /\ DropOrder[j] = ordered[child]
        /\ ordered[parent] \in Tables
    BY DEF DropOrder, TypeOK
  <2>2. Before(ordered, ordered[parent], child)
    BY <2>1, AnswerIsValid DEF ValidOrder, ParentsPrecede
  <2>3. PICK k \in 1..(child - 1) : ordered[k] = ordered[parent]
    BY <2>2 DEF Before
  <2>4. k \in 1..Len(ordered) /\ k # parent
    BY <2>1
  <2> QED
    BY <2>1, <2>3, <2>4 DEF IInv, AnswerInv
<1> QED
  BY <1>1, Inductive, PTL

(* topological_order implements the abstract TableOrder: it answers once,  *)
(* with a valid order, and its callers see nothing of the loops.           *)
THEOREM Implementation == Spec => ImplementsTableOrder
<1> DEFINE Valid == phase = "done" => ValidOrder(fk, ordered)
<1>1. Init => Abstract!Init
  BY DEF Init, Abstract!Init, ForeignKeys, Tables, Abstract!ForeignKeys, Abstract!Tables
<1>2. TypeOK /\ IInv => Valid
  BY AnswerIsValid
<1>3. Valid' /\ [Next]_vars => [Abstract!Answer]_Abstract!vars
  <2> SUFFICES ASSUME Valid', [Next]_vars
               PROVE  [Abstract!Answer]_Abstract!vars
    OBVIOUS
  <2>1. CASE Return
    <3>1. phase = "rest" /\ phase' = "done" /\ fk' = fk
      BY <2>1 DEF Return
    <3>2. ValidOrder(fk, ordered')
      BY <3>1
    <3>3. Abstract!ValidOrder(fk, ordered')
      BY <3>2 DEF Abstract!ValidOrder, Abstract!EachOnce, Abstract!ParentsPrecede,
                  Abstract!BlockedLastInSourceOrder, Abstract!Blocked, Abstract!SelfSupporting,
                  Abstract!Before, Abstract!Tables, ValidOrder, EachOnce, ParentsPrecede,
                  BlockedLastInSourceOrder, Blocked, SelfSupporting, Before, Tables
    <3> QED
      BY <3>1, <3>3 DEF Abstract!Answer
  <2>2. CASE phase = "done"
    BY <2>2 DEF Next, Scan, EndScan, Place, Visit, EndDrain, AppendRest, Return,
                Returned, vars, Abstract!vars
  <2>3. CASE phase # "done" /\ ~Return
    <3>1. phase' # "done" /\ fk' = fk
      BY <2>3 DEF Next, Scan, EndScan, Place, Visit, EndDrain, AppendRest, Returned, vars
    <3> QED
      BY <2>3, <3>1 DEF Abstract!vars
  <2> QED
    BY <2>1, <2>2, <2>3
<1> QED
  BY <1>1, <1>2, <1>3, Inductive, PTL DEF Spec, Abstract!Spec, ImplementsTableOrder

-----------------------------------------------------------------------------
(***************************************************************************)
(* The alignment of foreign key columns.                                   *)
(***************************************************************************)
(* The source's types can be compared along every reference.               *)
CompatibleSource == \A column \in Column : Resolves(column) => Comparable(declared, column)

(* What _key_type has reached and what is still to be decided.             *)
AlignInv ==
  /\ \A i \in position..Len(Columns) : emitted[Columns[i]] = declared[Columns[i]]
  /\ at # "none" => Resolves(Current)
  /\ (at # "none" /\ ~Resolves(reference[Current])) => at = reference[Current]
  /\ (at # "none" /\ CompatibleSource) => Accepts(Storage(declared, at), declared[Current])
  /\ PlainKeysAreReferable
  /\ CompatibleSourcesKeepTheirTypes

-----------------------------------------------------------------------------
(* What PostgreSQL accepts is reflexive and transitive: no type is in two  *)
(* groups, and none of them is numeric.                                    *)
LEMMA AcceptsReflexive == \A type : Accepts(type, type)
  BY DEF Accepts

LEMMA AcceptsTransitive ==
  ASSUME NEW a, NEW b, NEW c, Accepts(a, b), Accepts(b, c)
  PROVE  Accepts(a, c)
<1>1. CASE a = b \/ b = c
  BY <1>1
<1>2. CASE a \in DOMAIN Rank /\ b \in DOMAIN Rank /\ a # b /\ b # c
  <2>1. Rank[b] <= Rank[a]
    BY <1>2 DEF Accepts, Rank, Groups
  <2>2. c \in DOMAIN Rank /\ Rank[c] <= Rank[b]
    BY <1>2 DEF Accepts, Rank, Groups
  <2>3. Rank[a] \in Nat /\ Rank[b] \in Nat /\ Rank[c] \in Nat
    BY <1>2, <2>2 DEF Rank
  <2>4. Rank[c] <= Rank[a]
    BY <2>1, <2>2, <2>3
  <2> QED
    BY <1>2, <2>2, <2>4 DEF Accepts
<1>3. CASE ~(a \in DOMAIN Rank /\ b \in DOMAIN Rank) /\ a # b /\ b # c
  BY <1>3 DEF Accepts, Rank, Groups
<1> QED
  BY <1>1, <1>2, <1>3

LEMMA ColumnFacts ==
  /\ Len(Columns) \in Nat
  /\ \A i \in 1..Len(Columns) : Columns[i] \in Column
  /\ \A i, j \in 1..Len(Columns) : Columns[i] = Columns[j] => i = j
  /\ "none" \notin Column
  BY ColumnAssumption DEF Column

-----------------------------------------------------------------------------
(* The recursion stays within the columns of the Database, and a column    *)
(* takes a declared type or that of an identity key.                       *)
THEOREM AlignmentIsTyped == AlignSpec => []AlignTypeOK
<1>1. AlignInit => AlignTypeOK
  BY ColumnFacts DEF AlignInit, AlignTypeOK
<1>2. AlignTypeOK /\ [AlignNext]_alignVars => AlignTypeOK'
  <2> SUFFICES ASSUME AlignTypeOK, [AlignNext]_alignVars
               PROVE  AlignTypeOK'
    OBVIOUS
  <2> USE DEF AlignTypeOK
  <2>1. CASE Keep
    BY <2>1, ColumnFacts DEF Keep, Deciding, Current
  <2>2. CASE Ask
    BY <2>2, ColumnFacts DEF Ask, Deciding, Current, Resolves
  <2>3. CASE Follow
    BY <2>3, ColumnFacts DEF Follow, Follows, Deciding, Current, Resolves
  <2>4. CASE Settle
    <3>1. position' \in 1..(Len(Columns) + 1)
      BY <2>4, ColumnFacts DEF Settle, Deciding
    <3>2. at \in Column /\ Storage(declared, at) \in Types \cup {"integer", "bigint"}
      BY <2>4 DEF Settle, Storage
    <3>3. emitted' \in [Column -> Types \cup {"integer", "bigint"}]
      BY <2>4, <3>2 DEF Settle
    <3> QED
      BY <2>4, <3>1, <3>3 DEF Settle
  <2>5. CASE UNCHANGED alignVars
    BY <2>5 DEF alignVars, Deciding, Current
  <2> QED
    BY <2>1, <2>2, <2>3, <2>4, <2>5 DEF AlignNext, Done
<1> QED
  BY <1>1, <1>2, PTL DEF AlignSpec

(* Before the first column nothing has been decided.                       *)
LEMMA AlignInitInv == AlignInit => AlignInv
<1> SUFFICES ASSUME AlignInit PROVE AlignInv
  OBVIOUS
<1>1. Decided = {}
  BY ColumnFacts DEF AlignInit, Decided
<1> QED
  BY <1>1 DEF AlignInit, AlignInv, PlainKeysAreReferable, CompatibleSourcesKeepTheirTypes

(* One more column is decided.                                             *)
LEMMA DecidedGrows ==
  AlignTypeOK /\ Deciding /\ position' = position + 1 => Decided' = Decided \cup {Current}
<1> SUFFICES ASSUME AlignTypeOK, Deciding, position' = position + 1
             PROVE  Decided' = Decided \cup {Current}
  OBVIOUS
<1>1. position \in 1..Len(Columns) /\ position' - 1 = position
  BY ColumnFacts DEF AlignTypeOK, Deciding
<1>2. 1..position = 1..(position - 1) \cup {position}
  BY <1>1, ColumnFacts
<1> QED
  BY <1>1, <1>2 DEF Decided, Current

(* Every step of the emitter preserves the invariant.                      *)
LEMMA AlignNextInv == AlignTypeOK /\ AlignInv /\ [AlignNext]_alignVars => AlignInv'
<1> SUFFICES ASSUME AlignTypeOK, AlignInv, [AlignNext]_alignVars
             PROVE  AlignInv'
  OBVIOUS
<1>1. CASE Keep
  <2>1. /\ Deciding /\ position' = position + 1 /\ (Current \in identity \/ ~Resolves(Current))
        /\ UNCHANGED <<declared, identity, reference, at, seen, emitted>> /\ at = "none"
    BY <1>1 DEF Keep
  <2>2. Decided' = Decided \cup {Current}
    BY <2>1, DecidedGrows
  <2>3. PlainKeysAreReferable'
    BY <2>1, <2>2 DEF AlignInv, PlainKeysAreReferable, Resolves, Storage
  <2>4. CompatibleSourcesKeepTheirTypes'
    BY <2>1 DEF AlignInv, CompatibleSourcesKeepTheirTypes, Resolves, Comparable, Storage
  <2>5. \A i \in position'..Len(Columns) : i \in position..Len(Columns)
    BY <2>1, ColumnFacts DEF AlignTypeOK
  <2> QED
    BY <2>1, <2>3, <2>4, <2>5 DEF AlignInv
<1>2. CASE Ask
  <2>1. /\ Deciding /\ Resolves(Current) /\ Current \notin identity /\ at' = reference[Current]
        /\ UNCHANGED <<declared, identity, reference, position, emitted>>
    BY <1>2 DEF Ask
  <2>2. Current \in Column /\ Current' = Current
    BY <2>1, ColumnFacts DEF Current, Deciding, AlignTypeOK
  <2>3. CompatibleSource => Accepts(Storage(declared, at'), declared[Current])
    BY <2>1, <2>2 DEF CompatibleSource, Comparable, Storage
  <2>4. PlainKeysAreReferable' /\ CompatibleSourcesKeepTheirTypes'
    BY <2>1 DEF AlignInv, PlainKeysAreReferable, CompatibleSourcesKeepTheirTypes, Decided,
                Resolves, Comparable, Storage
  <2>5. CompatibleSource' <=> CompatibleSource
    BY <2>1 DEF CompatibleSource, Resolves, Comparable, Storage
  <2>6. (CompatibleSource => Accepts(Storage(declared, at), declared[Current]))'
    BY <2>1, <2>2, <2>3, <2>5 DEF Storage
  <2>7. (Resolves(Current))' /\ at' = (reference[Current])'
    BY <2>1, <2>2 DEF Resolves
  <2> QED
    BY <2>1, <2>4, <2>6, <2>7 DEF AlignInv
<1>3. CASE Follow
  <2>1. /\ at # "none" /\ Resolves(at) /\ at' = reference[at]
        /\ UNCHANGED <<declared, identity, reference, position, emitted>>
    BY <1>3 DEF Follow, Follows
  <2>2. Current' = Current /\ at \in Column
    BY <2>1 DEF Current, AlignTypeOK
  <2>3. CompatibleSource => Accepts(Storage(declared, reference[at]), declared[Current])
    <3> SUFFICES ASSUME CompatibleSource
                 PROVE  Accepts(Storage(declared, reference[at]), declared[Current])
      OBVIOUS
    <3>1. Accepts(Storage(declared, reference[at]), Storage(declared, at))
      BY <2>1, <2>2 DEF CompatibleSource, Comparable
    <3>2. Accepts(Storage(declared, at), declared[Current])
      BY <2>1 DEF AlignInv
    <3> QED
      BY <3>1, <3>2, AcceptsTransitive
  <2>4. PlainKeysAreReferable' /\ CompatibleSourcesKeepTheirTypes'
    BY <2>1 DEF AlignInv, PlainKeysAreReferable, CompatibleSourcesKeepTheirTypes, Decided,
                Resolves, Comparable, Storage
  <2>5. Resolves(Current) /\ Resolves(reference[Current])
    BY <2>1 DEF AlignInv
  <2>6. (Resolves(Current))' /\ (Resolves(reference[Current]))'
    BY <2>1, <2>2, <2>5 DEF Resolves
  <2>7. CompatibleSource' <=> CompatibleSource
    BY <2>1 DEF CompatibleSource, Resolves, Comparable, Storage
  <2>8. (CompatibleSource => Accepts(Storage(declared, at), declared[Current]))'
    BY <2>1, <2>2, <2>3, <2>7 DEF Storage
  <2> QED
    BY <2>1, <2>4, <2>6, <2>8 DEF AlignInv
<1>4. CASE Settle
  <2> DEFINE key == Storage(declared, at)
  <2>1. /\ at # "none" /\ Deciding /\ Current \notin identity
        /\ position' = position + 1 /\ at' = "none"
        /\ UNCHANGED <<declared, identity, reference>>
        /\ emitted' = [emitted EXCEPT ![Current] = IF Accepts(key, @) THEN @ ELSE key]
    BY <1>4 DEF Settle, AlignTypeOK
  <2>2. /\ position \in 1..Len(Columns) /\ Current = Columns[position] /\ Current \in Column
        /\ emitted[Current] = declared[Current]
    BY <2>1, ColumnFacts DEF Deciding, Current, AlignTypeOK, AlignInv
  <2>3. Accepts(key, emitted'[Current])
    BY <2>1, <2>2, AcceptsReflexive DEF AlignTypeOK
  <2>4. \A column \in Column : column # Current => emitted'[column] = emitted[column]
    BY <2>1 DEF AlignTypeOK
  <2>5. \A i \in position'..Len(Columns) : Columns[i] # Current /\ Columns[i] \in Column
                                           /\ i \in position..Len(Columns)
    BY <2>1, <2>2, ColumnFacts
  <2>6. Decided' = Decided \cup {Current}
    BY <2>1, DecidedGrows
  <2>7. Decided \subseteq Column
    BY ColumnFacts DEF Decided, AlignTypeOK
  <2>8. PlainKeysAreReferable'
    <3> SUFFICES ASSUME NEW column \in Decided' \ identity,
                        Resolves(column), ~Resolves(reference[column])
                 PROVE  Accepts(Storage(declared, reference[column]), emitted'[column])
      BY <2>1 DEF PlainKeysAreReferable, Resolves, Storage
    <3>1. CASE column = Current
      BY <2>1, <2>3, <3>1 DEF AlignInv
    <3>2. CASE column # Current
      <4>1. column \in Decided \ identity /\ emitted'[column] = emitted[column]
        BY <2>4, <2>6, <2>7, <3>2
      <4> QED
        BY <4>1 DEF AlignInv, PlainKeysAreReferable, Storage
    <3> QED
      BY <3>1, <3>2
  <2>9. CompatibleSourcesKeepTheirTypes'
    <3>1. CompatibleSource' <=> CompatibleSource
      BY <2>1 DEF CompatibleSource, Resolves, Comparable, Storage
    <3>2. ASSUME CompatibleSource PROVE emitted' = declared
      <4>1. emitted = declared /\ Accepts(key, declared[Current])
        BY <2>1, <3>2 DEF AlignInv, CompatibleSource, CompatibleSourcesKeepTheirTypes
      <4> QED
        BY <2>1, <2>2, <4>1 DEF AlignTypeOK
    <3> QED
      BY <2>1, <3>1, <3>2 DEF CompatibleSourcesKeepTheirTypes, CompatibleSource
  <2> QED
    BY <2>1, <2>2, <2>4, <2>5, <2>8, <2>9 DEF AlignInv
<1>5. CASE UNCHANGED alignVars
  BY <1>5 DEF alignVars, AlignInv, Current, Resolves, CompatibleSource, Comparable, Storage,
              PlainKeysAreReferable, CompatibleSourcesKeepTheirTypes, Decided
<1> QED
  BY <1>1, <1>2, <1>3, <1>4, <1>5 DEF AlignNext, Done

LEMMA AlignInvariance == AlignSpec => []AlignInv
<1> QED
  BY AlignInitInv, AlignNextInv, AlignmentIsTyped, PTL DEF AlignSpec

-----------------------------------------------------------------------------
(* Whatever two columns were declared as, a foreign key on a plain key can *)
(* be created.                                                             *)
THEOREM PlainKeys == AlignSpec => []PlainKeysAreReferable
<1>1. AlignInv => PlainKeysAreReferable
  BY DEF AlignInv
<1> QED
  BY <1>1, AlignInvariance, PTL

(* A source whose types can be compared along all references is emitted    *)
(* with its own types.                                                     *)
THEOREM NoNeedlessChange == AlignSpec => []CompatibleSourcesKeepTheirTypes
<1>1. AlignInv => CompatibleSourcesKeepTheirTypes
  BY DEF AlignInv
<1> QED
  BY <1>1, AlignInvariance, PTL
=============================================================================
