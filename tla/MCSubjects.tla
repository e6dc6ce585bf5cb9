---------------------------- MODULE MCSubjects ----------------------------
(* Two datasets, a table of one named as the other, columns spelled two ways  *)
(* and one whose name holds a dot.                                           *)
EXTENDS Subjects

CONSTANTS
  fin, shop,  \* datasets
  FIN,              \* another spelling of the first
  sale,             \* a table
  id, ID,           \* a column, and its other spelling
  key, KEY          \* tuple keys (id, id) and (ID, ID)

MCNames  == {fin, shop, sale, id, ID, key, KEY}
MCFold   == [n \in Names |-> CASE n = ID -> id [] n = FIN -> fin [] n = KEY -> key [] OTHER -> n]
MCTuples == [k \in {key, KEY} |-> IF k = key THEN {id} ELSE {ID}]

Table(dataset, name, columns) == [dataset |-> dataset, name |-> name, columns |-> columns]

\* A sale under either spelling; a fin or a shop within another dataset, with a
\* column sale, or sale.id.
MCTables ==
  {Table(fin, sale, {<<ID>>}), Table(shop, sale, {<<id>>}),
   Table(fin, shop, {<<sale>>}), Table(fin, fin, {<<sale>>}), Table(shop, fin, {<<sale, ID>>})}

MCPaths == {<<shop>>, <<sale>>, <<sale, id>>, <<shop, sale>>, <<fin, sale, ID>>, <<fin, sale, id>>,
            <<sale, ID>>}
\* A dataset's name in quotes, in another case.
QuotedNames == MCNames \cup {FIN}
QuotedPaths == {<<sale, id>>, <<FIN, sale, id>>}
MCSides == {<<sale, id>>, <<fin, sale, ID>>, <<sale, key>>, <<sale, KEY>>}
MCGrains == {{"COLUMN"}, {"TABLE", "DATASET"}, {"SOURCE"}, {"RELATIONSHIP"}, {}}

\* "Resolving a resolved path is a no-op", of whatever kind.
ResolvedTwice ==
  \A u \in schemas, p \in Paths : ResolvePath(u, ResolvePath(u, p)) = ResolvePath(u, p)

\* One relationship is one row, however its columns are spelled.
RelationshipsOnce ==
  \A r, s \in relationships :
    (Alike(r.left, s.left) /\ Alike(r.right, s.right) /\ r.op = s.op
      /\ \A e \in tables : e.at < r.at /\ e.at < s.at) => r = s
=============================================================================
