--------------------------- MODULE SmallDatabases ---------------------------
(***************************************************************************)
(* Small sources and targets for the models of MigrateDatabase and         *)
(* DumpReplay.                                                             *)
(***************************************************************************)
EXTENDS SqlScript

TwoTables == <<"a", "b">>
ThreeTables == <<"a", "b", "c">>

Name(t) == <<"public", t>>
SameNames == [t \in Tables |-> Name(t)]
(* mapping_schemas: {"public": "app"}.                                     *)
MappedNames == [t \in Tables |-> <<"app", t>>]
IndexNames == [t \in Tables |-> "idx_" \o t]

TwoRows == [t \in Tables |-> {1, 2}]
(* The tables with an identity column are empty.                           *)
NoIdentityRows == [t \in Tables |-> IF t \in Identities THEN {} ELSE {1, 2}]
NoLimit == [t \in Tables |-> -1]

(* The second table of the source is limited to one row.                   *)
LimitSecond == [t \in Tables |-> IF t = Source[2] THEN 1 ELSE -1]

AllGraphs == ForeignKeys
(* All graphs over the first two of three tables, to which the third may   *)
(* be a child of the first.                                                *)
GraphsOfTwo ==
  {refs \in ForeignKeys : /\ "c" \notin refs["a"] \cup refs["b"]
                          /\ refs["c"] \subseteq (IF refs["a"] = {} THEN {"a"} ELSE {})}

(* Every foreign key references a primary key; all but those of the first  *)
(* table to itself do, which has one to a unique column.                   *)
AllPrimaryKeyed == Tables \X Tables
AllButFirst == AllPrimaryKeyed \ {<<Source[1], Source[1]>>}

(* A table of the target that the source does not have.                    *)
Other == <<"public", "other">>

Database(tables, keys, rows) ==
  [schemas |-> {n[1] : n \in tables},
   rows |-> [n \in tables |-> rows],
   keys |-> keys,
   indexes |-> {<<n, "idx_" \o n[2]>> : n \in tables},
   identity |-> tables \cap {EmittedName[t] : t \in Identities}]

(* What an earlier load of the same source left.                           *)
Reloaded(refs) == Database(Managed, Keys(refs), {1})

(* An empty target, what an earlier load left, and the latter with a table *)
(* of its own, free or referencing the first table of the source.          *)
EmptyOrReloaded(refs) ==
  {EmptyDatabase, Reloaded(refs),
   Database({Other}, {}, {1}),
   Database(Managed \cup {Other}, Keys(refs) \cup {<<Other, EmittedName[Source[1]]>>}, {1})}

(* An empty target, or what loads of other versions of the source left:    *)
(* any of its tables may have an identity column.                          *)
AnyIdentity(refs) ==
  {EmptyDatabase} \cup
  {[Database(Managed, keys, {1}) EXCEPT !.identity = tables] :
     keys \in {{}, Keys(refs)}, tables \in SUBSET Managed}

(* Any of three tables may exist, with any of four foreign keys.           *)
AnyTarget(refs) ==
  UNION {{Database(tables, keys, {1}) :
            keys \in SUBSET {key \in {<<Name("a"), Name("b")>>, <<Name("b"), Name("a")>>,
                                      <<Name("b"), Name("b")>>, <<Other, Name("a")>>} :
                               key[1] \in tables /\ key[2] \in tables}} :
         tables \in SUBSET {Name("a"), Name("b"), Other}}

(* The target is anything where the second table has foreign keys and the  *)
(* third none; otherwise loads of other versions of the source left it.    *)
AnyTargetOrIdentity(refs) ==
  IF refs["c"] = {} /\ refs["b"] # {} THEN AnyTarget(refs) ELSE AnyIdentity(refs)
=============================================================================
