-------------------------- MODULE MCSourceDatabase --------------------------
EXTENDS SourceDatabase

Parent == [schema |-> "s", name |-> "parent"]
Child  == [schema |-> "s", name |-> "child"]
Other  == [schema |-> "t", name |-> "child"]

Key(table, name, kind, columns) ==
  [table |-> table, name |-> name, kind |-> kind, columns |-> columns]

(* The columns of a foreign key, and those of the key in the order given.  *)
Reference(table, name, columns, key, refs) ==
  [table |-> table, name |-> name, columns |-> columns, key |-> key, refs |-> refs]

Narrow == Key(Parent, "PRIMARY", "PRIMARY KEY", <<"x">>)
Wide   == Key(Parent, "PRIMARY", "PRIMARY KEY", <<"x", "y">>)

(* PostgreSQL and SQL Server name primary keys apart.                      *)
ChildKey(of) ==
  Key(Child, IF of \in {"mysql", "sqlite"} THEN "PRIMARY" ELSE "child_key", "PRIMARY KEY", <<"x">>)

KeySets(of) ==
  {{parent} \cup rest :
     parent \in {Narrow, Wide},
     rest \in {{}, {ChildKey(of)}, {Key(Parent, "unique", "UNIQUE", <<"y">>)}}}

(* A unique index, and what a foreign key that references it says of it.   *)
UniqueIndex == [table |-> Parent, name |-> "u", columns |-> <<"y">>, unique |-> TRUE]
IndexKey == Key(Parent, "u", "UNIQUE", <<"y">>)

(* One foreign key of two tables, by their names distinct or not, or one   *)
(* of two columns; PostgreSQL allows the key's columns in another order.   *)
(* PostgreSQL, SQL Server and SQLite let one reference a unique index.     *)
ReferenceSets(of, keys) ==
  LET key == CHOOSE key \in keys : key.table = Parent /\ key.kind = "PRIMARY KEY"
  IN IF Len(key.columns) = 1
     THEN {{}}
       \cup {{Reference(Child, "fk", <<column>>, key, <<"x">>),
              Reference(Parent, name, <<"y">>, key, <<"x">>)} :
             column \in {"x", "y"},
             name \in IF of = "postgres" THEN {"fk", "fk2"}
                      ELSE IF of = "sqlite" THEN {"fk"} ELSE {"fk2"}}
       \cup (IF of \in {"postgres", "mssql", "sqlite"}
             THEN {{Reference(Child, "fk", <<"x">>, IndexKey, <<"y">>)}} ELSE {})
       \cup {{Reference(Other, "fk", <<"x">>, key, <<IF of = "sqlite" THEN "null" ELSE "x">>)}}
     ELSE {{Reference(Child, "fk", columns, key, refs)} :
             columns \in {<<"x", "y">>, <<"y", "x">>},
             refs \in IF of = "postgres" THEN {<<"x", "y">>, <<"y", "x">>} ELSE {<<"x", "y">>}}

IndexSets == {{}} \cup
  {{[table |-> Child, name |-> "i", columns |-> columns, unique |-> unique]} :
     columns \in {<<"y">>, <<"y", "x">>}, unique \in BOOLEAN}

AllTables == [table \in {Parent, Child, Other} |-> <<"x", "y">>]

(* Another session drops a column of the child table, or the table.        *)
ColumnDropped == [AllTables EXCEPT ![Child] = <<"x">>]
TableDropped == [table \in {Parent, Other} |-> <<"x", "y">>]

WithKeys(of) ==
  {[columns |-> AllTables, keys |-> keys, references |-> references,
    indexes |-> indexes \cup {index \in {UniqueIndex} : IndexKey \in {r.key : r \in references}},
    identity |-> {<<Parent, "x">>}] :
   <<keys, references>> \in UNION {{keys} \X ReferenceSets(of, keys) : keys \in KeySets(of)},
   indexes \in IndexSets}

Altered == {[columns |-> columns, keys |-> {Narrow}, references |-> {}, indexes |-> {},
             identity |-> {}] : columns \in {ColumnDropped, TableDropped}}

SmallCatalogues(of) == WithKeys(of) \cup Altered

(* The column, the table and all their keys may also be new.               *)
SmallAlterations(of, c) == IF c \in Altered THEN WithKeys(of) ELSE Altered

NoRule == [includeSchemas |-> {}, excludeSchemas |-> {}, includeTables |-> {}, excludeTables |-> {}]

SmallRules == {NoRule, [NoRule EXCEPT !.excludeTables = {[schema |-> "any", name |-> "child"]}, !.includeSchemas = {"s", "t"}],
               [NoRule EXCEPT !.excludeSchemas = {"t"}, !.includeTables = {Child, [schema |-> "any", name |-> "parent"]}]}

Export(table, answers, key) ==
  [table |-> table, answers |-> answers, primaryKey |-> key,
   indexes |-> {[name |-> "i", columns |-> <<"x">>]}]

NewTable == [schema |-> "v", name |-> "view"]

SmallViews ==
  {<<Export(Child, <<"x">>, <<"x">>), Export(NewTable, <<"x", "x">>, <<>>)>>,
   <<Export(NewTable, <<"x", "y">>, <<"x">>), Export(NewTable, <<"x">>, <<>>)>>}
=============================================================================
