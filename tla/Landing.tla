------------------------------ MODULE Landing ------------------------------
(***************************************************************************)
(* A landing and its record (glossql_runner.cpp, Land, RecipeExec,          *)
(* ImportExec; glossql_store.cpp, StaleSQL; SPEC.md section 3): a recipe's  *)
(* SQL runs at its source and its result replaces the table or is merged    *)
(* into it by key; the landing's record carries what computed the column,   *)
(* and a gloss on the column is stale by it.                                *)
(*                                                                         *)
(* One table, of which one column is glossed.  An action is one query: the  *)
(* landing is a commit of the lake, its record and the recipe's row are     *)
(* commits of the store, and the source is read anew by each query that     *)
(* names it.                                                               *)
(*                                                                         *)
(* History: `landed`, the snapshot of the landing that made the table as it *)
(* is, and `derived`, what computes its column; of a gloss, `type`, `by` and *)
(* `of`, what they were as it was written; of a record, `at`, its landing's *)
(* snapshot, and `walked`, whether the recipe's plan was read for it.        *)
(***************************************************************************)
EXTENDS StoreRows, Integers, FiniteSets

CONSTANTS
  Conns,       \* connections
  Contents,    \* what the source sends: its column's type and its rows
  Recipes,     \* the recipes of the table
  Keyed,       \* those that name a key
  ColumnType,  \* [Recipes -> [types -> type of the table's column, or Absent]]
  Derivation,  \* [Recipes -> [types -> what computes it, or Absent]]
  Absent,      \* the column is not there
  Null,        \* a key that is NULL
  MaxLake,     \* bound: the lake's snapshots
  MaxGlosses   \* bound: glosses on the column

ASSUME ConstantsAssumption ==
  /\ Contents # {}
  /\ Keyed \subseteq Recipes
  /\ MaxLake \in Nat /\ MaxGlosses \in Nat

VARIABLES
  source,   \* what the source sends now
  lake,     \* the lake's current snapshot
  exists,   \* the table is there
  rows,     \* its rows: key, what else they hold, the snapshot they came at
  columns,  \* the column's versions: type, begin, end; end 0 while it is live
  derived,  \* what computes the column as it is
  landed,   \* the snapshot of the landing that made the table; 0 without one
  imports,  \* the landings' records
  recipes,  \* the recipe's declarations: seq, recipe
  glosses,  \* the glosses on the column: the snapshot written at
  pc,       \* per connection: where its statement is
  work      \* per connection: what its landing carries between queries

vars == <<source, lake, exists, rows, columns, derived, landed, imports, recipes, glosses, pc, work>>

Live == {v \in columns : v.end = 0}
TypeNow == IF Live = {} THEN Absent ELSE (CHOOSE v \in Live : TRUE).type

NoWork == [recipe |-> CHOOSE r \in Recipes : TRUE, replace |-> FALSE,
           count |-> 0, at |-> 0, snapshot |-> 0, derivation |-> Absent, walked |-> FALSE]

Init ==
  /\ source \in Contents
  /\ lake = 0
  /\ exists = FALSE
  /\ rows = {}
  /\ columns = {}
  /\ derived = Absent
  /\ landed = 0
  /\ imports = {}
  /\ recipes = {}
  /\ glosses = {}
  /\ pc = [c \in Conns |-> "idle"]
  /\ work = [c \in Conns |-> NoWork]

Idle == \A c \in Conns : pc[c] = "idle"

-----------------------------------------------------------------------------
(* What a result makes of the table.                                       *)

\* A key the rows carry twice; GROUP BY takes NULLs as one key.
Twice(S) == \E r, q \in S : r # q /\ r.key = q.key

\* Only a key that is there matches: NULL = NULL is not true.
KeysIn(S) == {r.key : r \in S} \ {Null}

\* The result as rows that came with the commit.
Come(result) == {[key |-> r.key, tag |-> r.tag, at |-> lake + 1] : r \in result}

\* The keys the result carries that the table has.
Matched == KeysIn(rows) \cap KeysIn(source.rows)

\* MERGE: a row whose key matches becomes the row of the result picked for it
\* (there is one, unless the result carries the key twice), a row of the result
\* whose key does not is added, and the rest stays.
Merged(pick) ==
  {r \in rows : r.key \notin Matched}
    \cup {pick[k] : k \in Matched}
    \cup {r \in Come(source.rows) : r.key \notin Matched}

\* The column's versions once its live one ended.
Ended ==
  {v \in columns : v.end # 0}
    \cup {[type |-> v.type, begin |-> v.begin, end |-> lake + 1] : v \in Live}

\* A table made anew has a column of the recipe's, if it yields one.
Anew(recipe) ==
  LET type == ColumnType[recipe][source.type]
  IN  Ended \cup (IF type = Absent THEN {}
                  ELSE {[type |-> type, begin |-> lake + 1, end |-> 0]})

-----------------------------------------------------------------------------
(* The world beside the statements.                                        *)

SourceMoves ==
  /\ \E next \in Contents \ {source} : source' = next
  /\ UNCHANGED <<lake, exists, rows, columns, derived, landed, imports, recipes, glosses, pc, work>>

\* DROP TABLE is the host's.
DropTable(c) ==
  /\ pc[c] = "idle"
  /\ lake < MaxLake
  /\ exists
  /\ lake' = lake + 1
  /\ exists' = FALSE
  /\ rows' = {}
  /\ columns' = Ended
  /\ derived' = Absent
  /\ landed' = 0
  /\ UNCHANGED <<source, imports, recipes, glosses, pc, work>>

\* The column is glossed, at the lake's snapshot.
Gloss(c) ==
  /\ pc[c] = "idle"
  /\ Cardinality(glosses) < MaxGlosses
  /\ Live # {}
  /\ glosses' = glosses \cup {[snapshot |-> lake, type |-> TypeNow, by |-> derived, of |-> landed]}
  /\ UNCHANGED <<source, lake, exists, rows, columns, derived, landed, imports, recipes, pc, work>>

-----------------------------------------------------------------------------
(* DECLARE RECIPE and IMPORT.                                               *)

\* The newest recipe declared again is a no-op, an IMPORT of a table without a
\* recipe is refused.
Answer(c) ==
  /\ pc[c] = "idle"
  /\ UNCHANGED vars

\* A recipe other than the newest is declared: the table is to be replaced.
BeginDeclare(c, recipe) ==
  /\ pc[c] = "idle"
  /\ \A r \in Newest(recipes) : r.recipe # recipe
  /\ work' = [work EXCEPT ![c] = [NoWork EXCEPT !.recipe = recipe, !.replace = TRUE]]
  /\ pc' = [pc EXCEPT ![c] = "begun"]
  /\ UNCHANGED <<source, lake, exists, rows, columns, derived, landed, imports, recipes, glosses>>

\* IMPORT: the newest recipe runs again.
BeginImport(c) ==
  /\ pc[c] = "idle"
  /\ \E r \in Newest(recipes) :
       work' = [work EXCEPT ![c] = [NoWork EXCEPT !.recipe = r.recipe]]
  /\ pc' = [pc EXCEPT ![c] = "begun"]
  /\ UNCHANGED <<source, lake, exists, rows, columns, derived, landed, imports, recipes, glosses>>

\* The keys not counted.
KeyUnchecked(c) ==
  /\ pc[c] = "begun"
  /\ pc' = [pc EXCEPT ![c] = "keyed"]
  /\ UNCHANGED <<source, lake, exists, rows, columns, derived, landed, imports, recipes, glosses, work>>

\* The keys a keyed recipe's result carries are counted at the source.
KeyOnce(c) ==
  /\ pc[c] = "begun"
  /\ work[c].recipe \in Keyed => ~ Twice(source.rows)
  /\ pc' = [pc EXCEPT ![c] = "keyed"]
  /\ UNCHANGED <<source, lake, exists, rows, columns, derived, landed, imports, recipes, glosses, work>>

\* CREATE OR REPLACE TABLE AS the recipe: a declaration's, an unkeyed import's.
Replace(c) ==
  /\ pc[c] = "keyed"
  /\ lake < MaxLake
  /\ work[c].replace \/ work[c].recipe \notin Keyed
  /\ lake' = lake + 1
  /\ exists' = TRUE
  /\ rows' = Come(source.rows)
  /\ columns' = Anew(work[c].recipe)
  /\ derived' = Derivation[work[c].recipe][source.type]
  /\ landed' = lake + 1
  /\ work' = [work EXCEPT ![c].at = lake + 1]
  /\ pc' = [pc EXCEPT ![c] = "landed"]
  /\ UNCHANGED <<source, imports, recipes, glosses>>

\* MERGE INTO the table by the recipe's key.
Merge(c) ==
  /\ pc[c] = "keyed"
  /\ lake < MaxLake
  /\ ~ work[c].replace
  /\ work[c].recipe \in Keyed
  /\ exists
  /\ lake' = lake + 1
  /\ \E pick \in [Matched -> Come(source.rows)] :
       /\ \A k \in Matched : pick[k].key = k
       /\ rows' = Merged(pick)
  /\ derived' = Derivation[work[c].recipe][source.type]
  /\ landed' = lake + 1
  /\ work' = [work EXCEPT ![c].at = lake + 1]
  /\ pc' = [pc EXCEPT ![c] = "landed"]
  /\ UNCHANGED <<source, exists, columns, imports, recipes, glosses>>

\* The rows the source sent, in place of the table's.
CountSent(c) ==
  /\ pc[c] = "landed"
  /\ exists
  /\ work' = [work EXCEPT ![c].count = Cardinality(source.rows)]
  /\ pc' = [pc EXCEPT ![c] = "counted"]
  /\ UNCHANGED <<source, lake, exists, rows, columns, derived, landed, imports, recipes, glosses>>

\* The landing's rows are counted in the table ...
CountRows(c) ==
  /\ pc[c] = "landed"
  /\ exists
  /\ work' = [work EXCEPT ![c].count = Cardinality(rows)]
  /\ pc' = [pc EXCEPT ![c] = "counted"]
  /\ UNCHANGED <<source, lake, exists, rows, columns, derived, landed, imports, recipes, glosses>>

\* ... its snapshot is the lake's current one ...
ReadSnapshot(c) ==
  /\ pc[c] = "counted"
  /\ work' = [work EXCEPT ![c].snapshot = lake]
  /\ pc' = [pc EXCEPT ![c] = "stamped"]
  /\ UNCHANGED <<source, lake, exists, rows, columns, derived, landed, imports, recipes, glosses>>

\* ... the recipe's plan is bound at the source once more for the lineage, and one
\* the planner will not walk again leaves the record without ...
ReadLineage(c) ==
  /\ pc[c] = "stamped"
  /\ \E walks \in BOOLEAN :
       work' = [work EXCEPT
                  ![c].derivation = IF walks THEN Derivation[work[c].recipe][source.type] ELSE Absent,
                  ![c].walked = walks]
  /\ pc' = [pc EXCEPT ![c] = "walked"]
  /\ UNCHANGED <<source, lake, exists, rows, columns, derived, landed, imports, recipes, glosses>>

RecordOf(c) ==
  [seq |-> TopSeq(imports) + 1, count |-> work[c].count, snapshot |-> work[c].snapshot,
   derivation |-> work[c].derivation, walked |-> work[c].walked, at |-> work[c].at]

\* ... and the record lands.  An IMPORT ends with it.
Record(c) ==
  /\ pc[c] = "walked"
  /\ imports' = imports \cup {RecordOf(c)}
  /\ pc' = [pc EXCEPT ![c] = IF work[c].replace THEN "recorded" ELSE "idle"]
  /\ UNCHANGED <<source, lake, exists, rows, columns, derived, landed, recipes, glosses, work>>

\* A DECLARE RECIPE ends with the recipe's row.
InsertRecipe(c) ==
  /\ pc[c] = "recorded"
  /\ recipes' = recipes \cup {[seq |-> TopSeq(recipes) + 1, recipe |-> work[c].recipe]}
  /\ pc' = [pc EXCEPT ![c] = "idle"]
  /\ UNCHANGED <<source, lake, exists, rows, columns, derived, landed, imports, glosses, work>>

\* Nothing landed: a key twice, no table to merge into, a recipe that does not
\* run, a commit the lake refuses.
LandFails(c) ==
  /\ pc[c] \in {"begun", "keyed"}
  /\ pc' = [pc EXCEPT ![c] = "idle"]
  /\ UNCHANGED <<source, lake, exists, rows, columns, derived, landed, imports, recipes, glosses, work>>

\* The statement is cut off after its landing.
Cut(c) ==
  /\ pc[c] \in {"landed", "counted", "stamped", "walked", "recorded"}
  /\ pc' = [pc EXCEPT ![c] = "idle"]
  /\ UNCHANGED <<source, lake, exists, rows, columns, derived, landed, imports, recipes, glosses, work>>

-----------------------------------------------------------------------------
(* A gloss's staleness, as the reads compute it.                           *)

\* The version that ended as the gloss was written among them.
TypeThrough(g) ==
  {v.type : v \in {v \in columns : v.begin <= g.snapshot /\ (v.end = 0 \/ v.end >= g.snapshot)}}

\* The type of the column's version that was live at the gloss's snapshot.
TypeThen(g) ==
  {v.type : v \in {v \in columns : v.begin <= g.snapshot /\ (v.end = 0 \/ v.end > g.snapshot)}}

\* The newest of landings: by snapshot, then by seq.
Latest(landings) ==
  {i \in landings : \A j \in landings :
     j.snapshot < i.snapshot \/ (j.snapshot = i.snapshot /\ j.seq <= i.seq)}

\* Stale by type alone.
StaleTypeOnly(g) == \E type \in TypeThen(g) : type # TypeNow

\* The column was retyped or dropped, or the landing that stood at the write and
\* the newest one differ in what computes it.
Stale(g) ==
  \/ \E type \in TypeThen(g) : type # TypeNow
  \/ \E then \in Latest({i \in imports : i.snapshot <= g.snapshot}), now \in Latest(imports) :
       then.derivation # now.derivation

-----------------------------------------------------------------------------
\* The steps of statements.
Step(c) ==
  \/ DropTable(c)
  \/ Gloss(c)
  \/ Answer(c)
  \/ \E recipe \in Recipes : BeginDeclare(c, recipe)
  \/ BeginImport(c)
  \/ KeyOnce(c)
  \/ Replace(c)
  \/ Merge(c)
  \/ CountRows(c)
  \/ ReadSnapshot(c)
  \/ ReadLineage(c)
  \/ Record(c)
  \/ InsertRecipe(c)
  \/ LandFails(c)

\* Statements run to their end, and the source moves between them.
Quiet == \/ \E c \in Conns : Step(c)
         \/ Idle /\ SourceMoves

\* Statements run to their end, and the source moves when it does.
Lively == (\E c \in Conns : Step(c)) \/ SourceMoves

\* Statements are cut off, and the source stands still while one runs.
Broken == Quiet \/ \E c \in Conns : Cut(c)

Next == Lively \/ \E c \in Conns : Cut(c)

QuietSpec  == Init /\ [][Quiet]_vars
LivelySpec == Init /\ [][Lively]_vars
BrokenSpec == Init /\ [][Broken]_vars
Spec       == Init /\ [][Next]_vars

-----------------------------------------------------------------------------
(* What a landing owes its readers.                                        *)

\* Seqs number the records and the recipes, a record's snapshot is no earlier
\* than its landing, and one version of the column at most is live.
TypeOK ==
  /\ source \in Contents /\ lake \in 0 .. MaxLake
  /\ \A r \in rows : r.at \in 1 .. lake
  /\ ~ exists => rows = {} /\ Live = {}
  /\ Cardinality(Live) <= 1
  /\ \A v \in columns : v.begin \in 1 .. lake /\ (v.end = 0 \/ v.end \in v.begin + 1 .. lake)
  /\ \A i \in imports : i.at <= i.snapshot /\ i.snapshot \in 1 .. lake
  /\ {i.seq : i \in imports} = 1 .. Cardinality(imports)
  /\ {r.seq : r \in recipes} = 1 .. Cardinality(recipes)
  /\ \A g \in glosses : g.snapshot \in 1 .. lake
  /\ pc \in [Conns -> {"idle", "begun", "keyed", "landed", "counted", "stamped", "walked", "recorded"}]

\* What a landing's record tells of its column: what computes it, if the plan was
\* read, else what a record of any other landing that was not read tells.
Known(record, by) == IF record.walked THEN by ELSE Absent

\* A gloss on a column retyped or gone is stale.  And where the landing it was
\* written at and the table's have their records, whatever was landed, dropped, or
\* cut off before its record in between, it is stale by them exactly when what they
\* tell of the column differs: a filter changed leaves it current, a source that
\* sends another type does not, a landing whose lineage was not read leaves it stale
\* against one whose was, and two such landings hide what changed.
StaleTells ==
  Idle => \A g \in glosses :
    /\ TypeNow # g.type => Stale(g)
    /\ \A then, now \in imports : then.at = g.of /\ now.at = landed =>
         (Stale(g) <=> TypeNow # g.type \/ Known(then, g.by) # Known(now, derived))

\* "A gloss on a column the re-land re-derived, retyped or dropped reads as stale, one on
\* a column it kept stays current": by what computes the column itself, recorded or not.
\* (Of no run: a landing whose lineage was not read, or that was cut off before its
\* record, is not told.)
DerivedTells ==
  Idle => \A g \in glosses : Stale(g) <=> TypeNow # g.type \/ derived # g.by

\* The record of the landing that made the table, if that came to its record, is the
\* newest, and of the table as it is: its rows and, if its lineage was read, what
\* computes them.
RecordTells ==
  Idle /\ exists => \A i \in imports : i.at = landed =>
    Latest(imports) = {i} /\ i.count = Cardinality(rows) /\ i.derivation = Known(i, derived)

\* A landing's record carries the snapshot that landing made ("the lake's
\* snapshot the landing made").
SnapshotIsLandings == \A i \in imports : i.snapshot = i.at

\* No statement is under way and the table's recipe names a key.
KeyedTable ==
  /\ Idle
  /\ recipes # {}
  /\ \A r \in Newest(recipes) : r.recipe \in Keyed

\* Import after import, a keyed recipe's table has each key once that is there.
KeysOnce == KeyedTable => \A r, q \in rows : r.key = q.key /\ r.key # Null => r = q

\* "A keyed recipe's result carries each key once, at every landing": two rows
\* that one landing brought differ in key.
LandedOnce == KeyedTable => \A r, q \in rows : r.key = q.key /\ r.at = q.at => r = q

\* "A keyed recipe replaces the rows whose key the result carries": what a result
\* brings under a key is the table's one row of that key.
KeyReplaced == KeyedTable => \A r, q \in rows : r.key = q.key => r = q

\* An IMPORT "reproduces the table's schema or it errors".
ImportKeepsSchema ==
  [][\A c \in Conns : pc[c] = "keyed" /\ pc'[c] = "landed" /\ ~ work[c].replace =>
       (Live # {} => TypeNow' = TypeNow)]_vars

\* Whoever lands, drops or is cut off: the versions of the column tell whether its type
\* is what it was at the write, through any number of versions of either type.
RetypedTells ==
  \A g \in glosses : (\E type \in TypeThen(g) : type # TypeNow) <=> TypeNow # g.type

=============================================================================
