------------------------------ MODULE Subjects ------------------------------
(***************************************************************************)
(* What a path names (glossql_store.cpp, SubjectParts to DatasetOf; SPEC.md  *)
(* sections 3 and 4), and what is written under the name: datasets, sources, *)
(* declared relationships and the glosses a grain admits.                    *)
(*                                                                         *)
(* A path is the sequence of its names between the dots: the dataset, the    *)
(* table, and all that follows, a column, whose own name may hold dots, or a *)
(* tuple key, which is one name.  A subject is one path, or two about an     *)
(* operator.  The catalog matches names by Fold, and keeps the spelling that *)
(* landed.  Any session writes: its USE'd dataset is the action's u.          *)
(***************************************************************************)
EXTENDS Integers, Sequences, FiniteSets

CONSTANTS
  Names,      \* identifiers
  Fold,       \* a name as it is matched, case aside
  TupleOf,    \* per tuple key: the columns it names
  Main,       \* the dataset of a session that has USE'd none
  Tables,     \* the tables and views a landing may make: [dataset, name, columns]
  Paths,      \* the paths statements are written with
  Sides,      \* those relationships are declared with
  GrainLists, \* the aspects' ON clauses, {} for none
  MaxWrites   \* bound: statements that write

Tuples == DOMAIN TupleOf

ASSUME NamesAssumption ==
  /\ Fold \in [Names -> Names]
  /\ Tuples \subseteq Names
  /\ Main \in Names
  /\ MaxWrites \in Nat

VARIABLES
  schemas,        \* datasets declared
  sources,        \* sources declared
  tables,         \* what stands in the lake: a table, and when it landed
  glossary,       \* rows: dataset, subject, the aspect's grains, when
  relationships,  \* rows: dataset, left, op, right, when
  clock           \* statements that wrote

vars == <<schemas, sources, tables, glossary, relationships, clock>>

Init ==
  /\ schemas = {Main}
  /\ sources = {} /\ tables = {} /\ glossary = {} /\ relationships = {}
  /\ clock = 0

-----------------------------------------------------------------------------
(* Names in the catalog.                                                   *)

Alike(p, q) == Len(p) = Len(q) /\ \A i \in DOMAIN p : Fold[p[i]] = Fold[q[i]]

\* A path has a name; a table's columns are matched apart, and none is a tuple's key.
ASSUME StatementsAssumption ==
  /\ Paths \cup Sides \subseteq Seq(Names) \ {<<>>}
  /\ \A t \in Tables :
       /\ t.dataset \in Names /\ t.name \in Names
       /\ t.columns \subseteq Seq(Names) \ {<<>>}
       /\ \A c, d \in t.columns : Alike(c, d) => c = d
       /\ \A c \in t.columns, key \in Tuples : ~ Alike(c, <<key>>)

SchemaExists(name) == \E s \in schemas : Fold[s] = Fold[name]

SourceExists(name) == name \in sources

\* The relation of that name, none or one.
RelationEntry(schema, table) ==
  {t \in tables : Fold[t.dataset] = Fold[schema] /\ Fold[t.name] = Fold[table]}

\* The relation's column a spelling names, in the catalog's spelling; none or one.
ColumnOf(entry, column) == {c \in entry.columns : Alike(c, column)}

IsTuple(column) == Len(column) = 1 /\ column[1] \in Tuples

ColumnExists(schema, table, column) ==
  \E e \in RelationEntry(schema, table) : IsTuple(column) \/ ColumnOf(e, column) # {}

\* A column left as the statement spells it.
CanonicalAsGiven(schema, table, column) ==
  LET entry == RelationEntry(schema, table)
  IN IF entry = {} THEN <<schema, table>> \o column
     ELSE LET e == CHOOSE e \in entry : TRUE IN <<schema, e.name>> \o column

\* The table and the column as the catalog spells them; what names nothing landed
\* stands as given.
Canonical(schema, table, column) ==
  LET entry == RelationEntry(schema, table)
  IN IF entry = {} THEN <<schema, table>> \o column
     ELSE LET e     == CHOOSE e \in entry : TRUE
              named == ColumnOf(e, column)
          IN <<schema, e.name>> \o
               (IF column = <<>> \/ IsTuple(column) \/ named = {} THEN column ELSE CHOOSE c \in named : TRUE)

-----------------------------------------------------------------------------
(* Resolution.                                                             *)

\* A full path only where the USE'd dataset holds no such column.
FullUnlessNear(u, path) ==
  Len(path) > 2 /\ SchemaExists(path[1]) /\ ~ ColumnExists(u, path[1], Tail(path))

\* The full path of a dataset's column.
Full(u, path) == Len(path) > 2 /\ SchemaExists(path[1])

\* The USE'd dataset's table taken only where no dataset has its name.
NearAfter(u, path) ==
  Len(path) > 1 /\ ~ Full(u, path) /\ RelationEntry(u, path[1]) # {} /\ ~ SchemaExists(path[1])

\* A table of the USE'd dataset, which wins over a dataset of its name when it
\* holds the column.
Near(u, path) ==
  /\ Len(path) > 1 /\ ~ Full(u, path)
  /\ RelationEntry(u, path[1]) # {}
  /\ ColumnExists(u, path[1], Tail(path)) \/ ~ SchemaExists(path[1])

\* A dataset's table.
Far(u, path) == Len(path) = 2 /\ ~ Near(u, path) /\ SchemaExists(path[1])

\* One name is a dataset or a source; what is none of these is the USE'd dataset's.
ResolvePath(u, path) ==
  CASE Len(path) = 1 /\ (SchemaExists(path[1]) \/ SourceExists(path[1])) -> path
    [] Full(u, path) -> Canonical(path[1], path[2], SubSeq(path, 3, Len(path)))
    [] Near(u, path) -> Canonical(u, path[1], Tail(path))
    [] Far(u, path)  -> Canonical(path[1], path[2], <<>>)
    [] OTHER         -> <<u>> \o path

Single(path) == [op |-> "", sides |-> <<path>>]
Pair(left, op, right) == [op |-> op, sides |-> <<left, right>>]

IsPair(subject) == subject.op # ""

ResolveSubject(u, subject) ==
  [subject EXCEPT !.sides = [i \in DOMAIN subject.sides |-> ResolvePath(u, subject.sides[i])]]

\* The head, whatever it names.
DatasetOfHead(u, subject) == subject.sides[1][1]

\* A bare source's rows are the USE'd dataset's.
DatasetOf(u, subject) ==
  LET head == subject.sides[1][1]
  IN IF IsPair(subject) \/ Len(subject.sides[1]) > 1 \/ SchemaExists(head) THEN head ELSE u

-----------------------------------------------------------------------------
(* What stands.                                                            *)

Write == clock < MaxWrites /\ clock' = clock + 1

\* DECLARE DATASET: an unchanged one is a no-op.
DeclareDataset(name) ==
  /\ ~ SchemaExists(name)
  /\ Write
  /\ schemas' = schemas \cup {name}
  /\ UNCHANGED <<sources, tables, glossary, relationships>>

DeclareSource(name) ==
  /\ ~ SourceExists(name)
  /\ Write
  /\ sources' = sources \cup {name}
  /\ UNCHANGED <<schemas, tables, glossary, relationships>>

\* A recipe's table or a view, under a name that is free or over the one that has it.
Land(t) ==
  /\ SchemaExists(t.dataset)
  /\ Write
  /\ tables' = (tables \ RelationEntry(t.dataset, t.name))
                 \cup {[dataset |-> t.dataset, name |-> t.name, columns |-> t.columns, at |-> clock + 1]}
  /\ UNCHANGED <<schemas, sources, glossary, relationships>>

\* DROP TABLE, or the view a stop ends.
Drop(t) ==
  /\ t \in tables
  /\ Write
  /\ tables' = tables \ {t}
  /\ UNCHANGED <<schemas, sources, glossary, relationships>>

-----------------------------------------------------------------------------
(* What is written of it.                                                  *)

\* The class of a resolved subject.
Grain(subject) ==
  LET parts == Len(subject.sides[1])
  IN CASE IsPair(subject) -> "RELATIONSHIP"
       [] ~ IsPair(subject) /\ parts >= 3 -> "COLUMN"
       [] ~ IsPair(subject) /\ parts = 2 -> "TABLE"
       [] ~ IsPair(subject) /\ parts = 1 /\ SourceExists(subject.sides[1][1]) -> "SOURCE"
       [] OTHER -> "DATASET"

\* A name both a source's and a dataset's is of either grain.
AdmitsGrain(grains, subject) ==
  \/ grains = {}
  \/ Grain(subject) \in grains
  \/ Grain(subject) = "SOURCE" /\ SchemaExists(subject.sides[1][1]) /\ "DATASET" \in grains

\* A TABLE or COLUMN grain takes what has landed, a RELATIONSHIP what is declared.
AdmitsSubject(grains, subject) ==
  LET path == subject.sides[1]
      column == SubSeq(path, 3, Len(path))
  IN /\ ~ IsPair(subject) /\ Len(path) = 2 /\ "TABLE" \in grains => RelationEntry(path[1], path[2]) # {}
     /\ ~ IsPair(subject) /\ Len(path) >= 3 /\ "COLUMN" \in grains =>
          \E e \in RelationEntry(path[1], path[2]) : ColumnOf(e, column) # {}
     /\ IsPair(subject) /\ "RELATIONSHIP" \in grains =>
          \E r \in relationships : Pair(r.left, r.op, r.right) = subject

\* GLOSS .. ON subject, from a session that USEs u.
GlossOn(u, subject, grains) ==
  LET resolved == ResolveSubject(u, subject)
  IN /\ AdmitsGrain(grains, resolved)
     /\ AdmitsSubject(grains, resolved)
     /\ Write
     /\ glossary' = glossary \cup
          {[dataset |-> DatasetOf(u, resolved), subject |-> resolved, grains |-> grains, at |-> clock + 1]}
     /\ UNCHANGED <<schemas, sources, tables, relationships>>

\* A relationship's side is a column, or a tuple of columns, of a landed table.
AdmitsEndpoint(path) ==
  /\ Len(path) >= 3
  /\ LET column == SubSeq(path, 3, Len(path))
     IN \E e \in RelationEntry(path[1], path[2]) :
          IF IsTuple(column) THEN \A c \in TupleOf[column[1]] : ColumnOf(e, <<c>>) # {}
          ELSE ColumnOf(e, column) # {}

\* DECLARE RELATIONSHIP: one that stands is a no-op.
DeclareRelationship(u, left, op, right) ==
  LET from == ResolvePath(u, left)
      to   == ResolvePath(u, right)
  IN /\ ~ \E r \in relationships : r.left = from /\ r.op = op /\ r.right = to
     /\ AdmitsEndpoint(from)
     /\ AdmitsEndpoint(to)
     /\ Write
     /\ relationships' = relationships \cup
          {[dataset |-> from[1], left |-> from, op |-> op, right |-> to, at |-> clock + 1]}
     /\ UNCHANGED <<schemas, sources, tables, glossary>>

\* A statement that is refused or changes nothing.
Refuse == UNCHANGED vars

Next ==
  \/ \E t \in Tables : DeclareDataset(t.dataset)
  \/ \E p \in Paths : Len(p) = 1 /\ DeclareSource(p[1])
  \/ \E t \in Tables : Land(t)
  \/ \E t \in tables : Drop(t)
  \/ \E u \in schemas, p \in Paths, grains \in GrainLists : GlossOn(u, Single(p), grains)
  \/ \E u \in schemas, r \in relationships, grains \in GrainLists :
       GlossOn(u, Pair(r.left, r.op, r.right), grains)
  \/ \E u \in schemas, p, q \in Sides : DeclareRelationship(u, p, "->", q)
  \/ Refuse

Spec == Init /\ [][Next]_vars

-----------------------------------------------------------------------------
(* What a name owes what is written under it.                              *)

\* The columns written of: the subjects of glosses and the sides of relationships.
ColumnsWritten ==
  {g.subject.sides[1] : g \in {g \in glossary : ~ IsPair(g.subject)}}
    \cup {r.left : r \in relationships} \cup {r.right : r \in relationships}

\* "a three-part path whose head is a dataset stands, so a subject may pass through
\* twice": what was written of a column that still stands is read again under its
\* own name, from whatever dataset, whatever else has landed or been declared.
ThreePartStands ==
  \A p \in ColumnsWritten :
    (\E e \in tables : \E c \in e.columns : p = <<e.dataset, e.name>> \o c) =>
      \A u \in schemas : ResolvePath(u, p) = p

\* No name is a dataset's but for its case, as when each is written without quotes:
\* a path's head is left as it is written.
SpelledOnce ==
  \A d \in {Main} \cup {t.dataset : t \in Tables}, n \in Names : Fold[n] = Fold[d] => n = d

\* An aspect ON COLUMN is glossed on a column the table had, in the spelling it
\* landed with: slots of one column, spelled by its speakers as they like, meet.
GlossNamesColumn ==
  \A g \in glossary :
    ("COLUMN" \in g.grains /\ Grain(g.subject) = "COLUMN") =>
      \A e \in RelationEntry(g.subject.sides[1][1], g.subject.sides[1][2]) :
        e.at < g.at => \E c \in e.columns : g.subject.sides[1] = <<e.dataset, e.name>> \o c

\* The rows of a subject are some dataset's, whose sessions read them.
RowsHaveDataset == \A r \in glossary \cup relationships : r.dataset \in schemas

\* "the USE'd dataset is the nearer scope": what two names mean of a table of it that
\* holds the column, no dataset declared and no landing elsewhere changes.
NearerScopeKeeps(u, p) ==
  LET near == RelationEntry(u, p[1])
  IN (Len(p) = 2 /\ ColumnExists(u, p[1], Tail(p)) /\ near' = near)
       => ResolvePath(u, p)' = ResolvePath(u, p)

NearerScope == [][\A u \in schemas, p \in Paths : NearerScopeKeeps(u, p)]_vars
=============================================================================
