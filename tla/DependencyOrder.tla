--------------------------- MODULE DependencyOrder ---------------------------
(***************************************************************************)
(* topological_order and drop_order (domain/policy/dependency_order.py):   *)
(* Kahn's algorithm over the foreign keys of the Database, one action for  *)
(* each iteration of its loops.                                            *)
(*                                                                         *)
(* The inner loop iterates over a Python set of (str, str) tuples, whose   *)
(* order changes from one process to the next with the hash seed: Visit    *)
(* takes any of the children left to visit.                                *)
(***************************************************************************)
EXTENDS ForeignKeyGraph

VARIABLES
  fk,       \* the foreign keys of the Database, fixed
  phase,    \* the loop the function is in: "scan", "drain", "rest", "done"
  cursor,   \* index of the next table of a loop over nodes
  incoming, \* incoming[c]: parents of c not yet discarded
  outgoing, \* outgoing[p]: children of p not yet discarded
  ready,    \* the queue of tables with no parent left
  ordered,  \* the answer under construction
  placed,   \* tables taken from the queue
  children  \* children of the last table placed that are left to visit

vars == <<fk, phase, cursor, incoming, outgoing, ready, ordered, placed, children>>

-----------------------------------------------------------------------------
(* Lines 36-47: edges to itself, to an unknown table or already recorded   *)
(* are skipped.                                                            *)

ParentsKeepingUnknown(t) == fk[t] \ {t}

ParentsKeepingSelf(t) == fk[t] \cap Tables

Parents(t) == {p \in fk[t] : p # t /\ p \in Tables}

Children(t) == {c \in Tables : t \in Parents(c)}

Init ==
  /\ fk \in ForeignKeys
  /\ phase = "scan"
  /\ cursor = 1
  /\ incoming = [t \in Tables |-> Parents(t)]
  /\ outgoing = [t \in Tables |-> Children(t)]
  /\ ready = << >>
  /\ ordered = << >>
  /\ placed = {}
  /\ children = {}

(* ready = [node for node in nodes if not incoming[node]]                  *)
Scan ==
  /\ phase = "scan"
  /\ cursor <= Len(Source)
  /\ ready' = IF incoming[Source[cursor]] = {}
              THEN Append(ready, Source[cursor])
              ELSE ready
  /\ cursor' = cursor + 1
  /\ UNCHANGED <<fk, phase, incoming, outgoing, ordered, placed, children>>

EndScan ==
  /\ phase = "scan"
  /\ cursor > Len(Source)
  /\ phase' = "drain"
  /\ UNCHANGED <<fk, cursor, incoming, outgoing, ready, ordered, placed, children>>

(* The head of the while loop; list(outgoing[node]) is a snapshot.         *)
Place ==
  /\ phase = "drain"
  /\ children = {}
  /\ ready # << >>
  /\ ready' = Tail(ready)
  /\ ordered' = Append(ordered, Head(ready))
  /\ placed' = placed \cup {Head(ready)}
  /\ children' = outgoing[Head(ready)]
  /\ UNCHANGED <<fk, phase, cursor, incoming, outgoing>>

Node == ordered[Len(ordered)]

(* A faulty Visit that queues a child as soon as one of its parents has    *)
(* been placed.                                                            *)
VisitTooEarly(child) ==
  /\ phase = "drain"
  /\ child \in children
  /\ children' = children \ {child}
  /\ outgoing' = [outgoing EXCEPT ![Node] = @ \ {child}]
  /\ incoming' = [incoming EXCEPT ![child] = @ \ {Node}]
  /\ ready' = IF child \notin placed THEN Append(ready, child) ELSE ready
  /\ UNCHANGED <<fk, phase, cursor, ordered, placed>>

(* A faulty Visit that forgets to discard the edge from incoming.          *)
VisitKeepingEdge(child) ==
  /\ phase = "drain"
  /\ child \in children
  /\ children' = children \ {child}
  /\ outgoing' = [outgoing EXCEPT ![Node] = @ \ {child}]
  /\ ready' = IF incoming[child] = {} /\ child \notin placed
              THEN Append(ready, child) ELSE ready
  /\ UNCHANGED <<fk, phase, cursor, incoming, ordered, placed>>

(* A faulty Visit whose iteration never advances.                          *)
VisitForever(child) ==
  /\ phase = "drain"
  /\ child \in children
  /\ outgoing' = [outgoing EXCEPT ![Node] = @ \ {child}]
  /\ incoming' = [incoming EXCEPT ![child] = @ \ {Node}]
  /\ UNCHANGED <<fk, phase, cursor, ready, ordered, placed, children>>

(* One iteration of the inner loop, for the child the set yields next.     *)
Visit(child) ==
  /\ phase = "drain"
  /\ child \in children
  /\ children' = children \ {child}
  /\ outgoing' = [outgoing EXCEPT ![Node] = @ \ {child}]
  /\ incoming' = [incoming EXCEPT ![child] = @ \ {Node}]
  /\ ready' = IF incoming'[child] = {} /\ child \notin placed
              THEN Append(ready, child)
              ELSE ready
  /\ UNCHANGED <<fk, phase, cursor, ordered, placed>>

EndDrain ==
  /\ phase = "drain"
  /\ children = {}
  /\ ready = << >>
  /\ phase' = "rest"
  /\ cursor' = 1
  /\ UNCHANGED <<fk, incoming, outgoing, ready, ordered, placed, children>>

(* A faulty last loop that does not ask whether the table was placed.      *)
AppendRestUnconditionally ==
  /\ phase = "rest"
  /\ cursor <= Len(Source)
  /\ ordered' = Append(ordered, Source[cursor])
  /\ cursor' = cursor + 1
  /\ UNCHANGED <<fk, phase, incoming, outgoing, ready, placed, children>>

(* The last loop: what the drain left unplaced, in source order.           *)
AppendRest ==
  /\ phase = "rest"
  /\ cursor <= Len(Source)
  /\ ordered' = IF Source[cursor] \notin placed
                THEN Append(ordered, Source[cursor])
                ELSE ordered
  /\ cursor' = cursor + 1
  /\ UNCHANGED <<fk, phase, incoming, outgoing, ready, placed, children>>

Return ==
  /\ phase = "rest"
  /\ cursor > Len(Source)
  /\ phase' = "done"
  /\ UNCHANGED <<fk, cursor, incoming, outgoing, ready, ordered, placed, children>>

Returned == phase = "done" /\ UNCHANGED vars

DropOrderUnreversed == ordered

(* drop_order: the reverse of topological_order.                           *)
DropOrder == [i \in 1..Len(ordered) |-> ordered[Len(ordered) + 1 - i]]

Next ==
  \/ Scan
  \/ EndScan
  \/ Place
  \/ \E child \in Tables : Visit(child)
  \/ EndDrain
  \/ AppendRest
  \/ Return
  \/ Returned

Spec == Init /\ [][Next]_vars

(* The function runs to its end: nothing it waits for can fail to come.    *)
FairSpec == Spec /\ WF_vars(Next)

-----------------------------------------------------------------------------
(* The variables hold values of the types the function declares; a key of  *)
(* a table outside the Database in incoming would be a KeyError on line 58.*)
TypeOK ==
  /\ fk \in ForeignKeys
  /\ phase \in {"scan", "drain", "rest", "done"}
  /\ cursor \in 1..(Len(Source) + 1)
  /\ incoming \in [Tables -> SUBSET Tables]
  /\ outgoing \in [Tables -> SUBSET Tables]
  /\ ready \in Seq(Tables)
  /\ ordered \in Seq(Tables)
  /\ placed \in SUBSET Tables
  /\ children \in SUBSET Tables

(* "callers always receive every table exactly once" (docstring), cycles   *)
(* and self references included.                                           *)
EveryTableOnce == phase = "done" => EachOnce(ordered)

(* A table that no cycle of foreign keys holds back comes after every      *)
(* table it references, whatever order the inner loop visits children in,  *)
(* and even when another part of the database is cyclic.                   *)
ParentsFirst == phase = "done" => ParentsPrecede(fk, ordered)

(* Tables on a cycle and tables downstream of one come last, in source     *)
(* order, so a cycle never disturbs the tables that can be ordered.        *)
CyclesLast == phase = "done" => BlockedLastInSourceOrder(fk, ordered)

(* No DROP TABLE of drop_order removes a table while a table that          *)
(* references it still waits for its own DROP, except around cycles.       *)
DropsChildrenFirst ==
  phase = "done" =>
    \A i \in 1..Len(ordered) : \A j \in 1..Len(ordered) :
      (i < j /\ DropOrder[i] # DropOrder[j] /\ DropOrder[j] \notin Blocked(fk)) =>
        DropOrder[i] \notin fk[DropOrder[j]]

(* Every call returns: the queue cannot be refilled for ever.              *)
Termination == <>(phase = "done")

(* The function implements the abstract TableOrder.                        *)
Abstract == INSTANCE TableOrder WITH
  answered <- phase = "done",
  answer <- IF phase = "done" THEN ordered ELSE << >>

ImplementsTableOrder == Abstract!Spec

=============================================================================
