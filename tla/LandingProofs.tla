---------------------------- MODULE LandingProofs ----------------------------
(***************************************************************************)
(* What one connection's landings owe their readers, for any source, recipes *)
(* and keys: each key once, records of the table as it is, and glosses that   *)
(* read stale exactly when their records differ in what computes their column. *)
(* What the column's versions tell of its type, whoever lands.  And what the   *)
(* lineage a landing records tells, for any query, types and edits: a change  *)
(* of what computes a column, and none of how the query is put.               *)
(***************************************************************************)
EXTENDS MCLandingOpen, Lineage, StoreRowsProofs, TLAPS

Within(c) == pc[c] \in {"landed", "counted", "stamped", "walked"}

IsWork(w) == DOMAIN w = {"recipe", "replace", "count", "at", "snapshot", "derivation", "walked"}

Typed ==
  /\ lake \in Nat
  /\ pc \in [Conns -> {"idle", "begun", "keyed", "landed", "counted", "stamped", "walked", "recorded"}]
  /\ DOMAIN work = Conns
  /\ \A d \in Conns : IsWork(work[d])

-----------------------------------------------------------------------------
(* Each key once.                                                          *)

Distinct(S) == \A r, q \in S : r.key = q.key /\ r.key # Null => r = q

KeyedNow == recipes # {} /\ \A r \in Newest(recipes) : r.recipe \in Keyed

\* The recipe an IMPORT took is the one that stands; between the landing and the
\* recipe's row the table is the recipe's under way.
Keys(c) ==
  /\ Numbered(recipes)
  /\ \A r, q \in Newest(recipes) : r = q
  /\ pc[c] # "idle" /\ ~ work[c].replace =>
       \E r \in Newest(recipes) : r.recipe = work[c].recipe
  /\ pc[c] = "keyed" /\ work[c].recipe \in Keyed => ~ Twice(source.rows)
  /\ pc[c] \in {"idle", "begun", "keyed"} /\ KeyedNow => Distinct(rows)
  /\ (Within(c) \/ pc[c] = "recorded") /\ work[c].recipe \in Keyed => Distinct(rows)
  /\ pc[c] = "recorded" => work[c].replace

\* The rows a result brings carry each key once where it does.
LEMMA ComeDistinct ==
  ASSUME ~ Twice(source.rows) PROVE Distinct(Come(source.rows))
BY DEF Twice, Come, Distinct

\* A merge of such a result leaves each key that is there once.
LEMMA MergedDistinct ==
  ASSUME ~ Twice(source.rows), Distinct(rows),
         NEW pick \in [Matched -> Come(source.rows)], \A k \in Matched : pick[k].key = k
  PROVE  Distinct(Merged(pick))
<1>1. Distinct(Come(source.rows))
  BY ComeDistinct
<1>2. \A r \in Come(source.rows) : r.key # Null => r.key \in KeysIn(source.rows)
  BY DEF Come, KeysIn
<1>3. \A r \in rows : r.key # Null => r.key \in KeysIn(rows)
  BY DEF KeysIn
<1>4. ASSUME NEW r \in Merged(pick), NEW q \in Merged(pick), r.key = q.key, r.key # Null
      PROVE  r = q
  <2>1. CASE r.key \in Matched
    BY <1>4, <2>1 DEF Merged
  <2>2. CASE r.key \notin Matched
    <3>1. /\ r \in rows \/ r \in Come(source.rows)
          /\ q \in rows \/ q \in Come(source.rows)
      BY <1>4, <2>2 DEF Merged
    <3>2. ~ (r.key \in KeysIn(rows) /\ r.key \in KeysIn(source.rows))
      BY <2>2 DEF Matched
    <3> QED
      BY <1>1, <1>2, <1>3, <1>4, <3>1, <3>2 DEF Distinct
  <2> QED
    BY <2>1, <2>2
<1> QED
  BY <1>4 DEF Distinct

-----------------------------------------------------------------------------
(* The steps of the one connection's statements.                            *)

OthersIdle(c) == \A d \in Conns \ {c} : pc[d] = "idle"

\* A step that comes to its end; and one that may be cut off.
Uncut(c)     == Step(c) \/ (Idle /\ SourceMoves) \/ UNCHANGED vars
Statement(c) == Uncut(c) \/ Cut(c)

\* A landing begins with its recipe and nothing else.
Declared(recipe) == [NoWork EXCEPT !.recipe = recipe, !.replace = TRUE]
Imported(recipe) == [NoWork EXCEPT !.recipe = recipe]

LEMMA AnyRecipesWork ==
  ASSUME NEW recipe
  PROVE  IsWork(Declared(recipe)) /\ IsWork(Imported(recipe))
<1>1. DOMAIN NoWork = {"recipe", "replace", "count", "at", "snapshot", "derivation", "walked"}
  BY DEF NoWork
<1> QED
  BY <1>1 DEF IsWork, Declared, Imported

LEMMA TypesStep ==
  ASSUME NEW c \in Conns, Typed, OthersIdle(c), Statement(c) PROVE Typed' /\ OthersIdle(c)'
<1> USE DEF Typed, OthersIdle, IsWork
<1>1. CASE DropTable(c) BY <1>1 DEF DropTable
<1>2. CASE Gloss(c) BY <1>2 DEF Gloss
<1>3. CASE Answer(c) \/ UNCHANGED vars BY <1>3 DEF Answer, vars
<1>4. ASSUME NEW recipe \in Recipes, BeginDeclare(c, recipe) PROVE Typed' /\ OthersIdle(c)'
  <2>1. IsWork(work'[c]) /\ DOMAIN work' = Conns /\ \A d \in Conns \ {c} : work'[d] = work[d]
    <3>1. work' = [work EXCEPT ![c] = Declared(recipe)]
      BY <1>4 DEF BeginDeclare, Declared
    <3>2. IsWork(work'[c])
      <4> HIDE DEF IsWork
      <4> QED BY <3>1, AnyRecipesWork
    <3> QED BY <3>1, <3>2
  <2> QED BY <1>4, <2>1 DEF BeginDeclare
<1>5. CASE BeginImport(c)
  <2>1. IsWork(work'[c]) /\ DOMAIN work' = Conns /\ \A d \in Conns \ {c} : work'[d] = work[d]
    <3>1. PICK r \in Newest(recipes) : work' = [work EXCEPT ![c] = Imported(r.recipe)]
      BY <1>5 DEF BeginImport, Imported
    <3>2. IsWork(work'[c])
      <4> HIDE DEF IsWork
      <4> QED BY <3>1, AnyRecipesWork
    <3> QED BY <3>1, <3>2
  <2> QED BY <1>5, <2>1 DEF BeginImport
<1>6. CASE KeyOnce(c) BY <1>6 DEF KeyOnce
<1>7. CASE Replace(c) BY <1>7 DEF Replace
<1>8. CASE Merge(c) BY <1>8 DEF Merge
<1>9. CASE CountRows(c) BY <1>9 DEF CountRows
<1>10. CASE ReadSnapshot(c) BY <1>10 DEF ReadSnapshot
<1>11. CASE ReadLineage(c) BY <1>11 DEF ReadLineage
<1>12. CASE Record(c) BY <1>12 DEF Record
<1>13. CASE InsertRecipe(c) BY <1>13 DEF InsertRecipe
<1>14. CASE LandFails(c) BY <1>14 DEF LandFails
<1>15. CASE SourceMoves BY <1>15 DEF SourceMoves
<1>16. CASE Cut(c) BY <1>16 DEF Cut
<1> QED
  BY <1>1, <1>2, <1>3, <1>4, <1>5, <1>6, <1>7, <1>8, <1>9, <1>10, <1>11, <1>12, <1>13, <1>14, <1>15,
     <1>16
  DEF Statement, Uncut, Step

LEMMA KeysStep ==
  ASSUME NEW c \in Conns, Typed, Keys(c), Uncut(c) PROVE Keys(c)'
<1> USE DEF Keys, Within, KeyedNow
<1>1. CASE DropTable(c) BY <1>1 DEF DropTable, Distinct
<1>2. CASE Gloss(c) BY <1>2 DEF Gloss
<1>3. CASE Answer(c) \/ UNCHANGED vars BY <1>3 DEF Answer, vars
<1>4. ASSUME NEW recipe \in Recipes, BeginDeclare(c, recipe) PROVE Keys(c)'
  BY <1>4 DEF BeginDeclare, NoWork, Typed
<1>5. CASE BeginImport(c) BY <1>5 DEF BeginImport, NoWork, Typed
<1>6. CASE KeyOnce(c) BY <1>6 DEF KeyOnce, Typed
<1>7. CASE Replace(c)
  <2>1. work'[c].recipe = work[c].recipe /\ work'[c].replace = work[c].replace /\ pc'[c] = "landed"
    BY <1>7 DEF Replace, Typed, IsWork
  <2>2. work[c].recipe \in Keyed => Distinct(rows')
    BY <1>7, ComeDistinct DEF Replace
  <2> QED
    BY <1>7, <2>1, <2>2 DEF Replace
<1>8. CASE Merge(c)
  <2>1. work'[c].recipe = work[c].recipe /\ work'[c].replace = work[c].replace /\ pc'[c] = "landed"
    BY <1>8 DEF Merge, Typed, IsWork
  <2>2. \A r \in Newest(recipes) : r.recipe = work[c].recipe
    BY <1>8 DEF Merge
  <2>3. recipes # {}
    BY <1>8 DEF Merge, Newest
  <2>4. Distinct(rows)
    BY <1>8, <2>2, <2>3 DEF Merge
  <2>5. Distinct(rows')
    BY <1>8, <2>4, MergedDistinct DEF Merge
  <2> QED
    BY <1>8, <2>1, <2>5 DEF Merge
<1>9. CASE CountRows(c) BY <1>9 DEF CountRows, Typed, IsWork
<1>10. CASE ReadSnapshot(c) BY <1>10 DEF ReadSnapshot, Typed, IsWork
<1>11. CASE ReadLineage(c) BY <1>11 DEF ReadLineage, Typed, IsWork
<1>12. CASE Record(c) BY <1>12 DEF Record, Typed
<1>13. CASE InsertRecipe(c)
  <2> DEFINE row == [seq |-> TopSeq(recipes) + 1, recipe |-> work[c].recipe]
  <2>1. Newest(recipes \cup {row}) = {row} /\ Numbered(recipes \cup {row})
    <3>1. row.seq = TopSeq(recipes) + 1
      OBVIOUS
    <3> HIDE DEF row
    <3> QED BY <3>1, NextIsNewest
  <2>2. recipes' = recipes \cup {row}
    BY <1>13 DEF InsertRecipe
  <2>3. row.recipe = work[c].recipe
    OBVIOUS
  <2> HIDE DEF row
  <2>4. Newest(recipes') = {row} /\ Numbered(recipes')
    BY <2>1, <2>2
  <2> QED
    BY <1>13, <2>3, <2>4 DEF InsertRecipe, Typed
<1>14. CASE LandFails(c) BY <1>14 DEF LandFails, Typed
<1>15. CASE Idle /\ SourceMoves BY <1>15 DEF SourceMoves, Idle
<1> QED
  BY <1>1, <1>2, <1>3, <1>4, <1>5, <1>6, <1>7, <1>8, <1>9, <1>10, <1>11, <1>12, <1>13, <1>14, <1>15
  DEF Uncut, Step

LEMMA DoorInit == ASSUME NEW c \in Conns PROVE Init => Typed /\ OthersIdle(c) /\ Keys(c)
<1>1. IsWork(NoWork)
  BY DEF IsWork, NoWork
<1>2. Init => Typed /\ OthersIdle(c)
  BY <1>1 DEF Init, Typed, OthersIdle
<1>3. Init => Keys(c)
  BY DEF Init, Keys, Within, KeyedNow, Distinct, Newest, Numbered
<1> QED BY <1>2, <1>3

-----------------------------------------------------------------------------
(* Records.                                                                *)

\* A record is dated by the landing it is of, no two of them by one; that of the table's
\* landing, if there is one, is the latest of them and tells of the table; a landing is
\* beyond every record until its own.
Records(c) ==
  /\ Numbered(imports)
  /\ landed \in Nat /\ landed <= lake /\ (exists => landed > 0)
  /\ \A i \in imports : i.snapshot \in Nat /\ i.snapshot <= lake /\ i.snapshot = i.at /\ i.at > 0
  /\ \A i, j \in imports : i.at = j.at => i = j
  /\ landed > 0 => \A i \in imports : i.at <= landed
  /\ \A i \in imports : i.at = landed => i.count = Cardinality(rows) /\ i.derivation = Known(i, derived)
  /\ Within(c) =>
       /\ exists
       /\ landed = lake /\ work[c].at = lake
       /\ derived = Derivation[work[c].recipe][source.type]
       /\ \A i \in imports : i.at < lake
  /\ pc[c] \in {"counted", "stamped", "walked"} => work[c].count = Cardinality(rows)
  /\ pc[c] \in {"stamped", "walked"} => work[c].snapshot = lake
  /\ pc[c] = "walked" => work[c].derivation = Known(work[c], derived)

\* Of records dated apart, the one beyond the others is the latest alone.
LEMMA BeyondIsLatest ==
  ASSUME NEW c, Records(c), NEW S, S \subseteq imports, NEW i \in S,
         \A j \in S : j.at <= i.at
  PROVE  Latest(S) = {i}
<1>1. \A j \in S : j.snapshot = j.at /\ j.at \in Nat /\ j.seq \in Nat
  BY DEF Records, Numbered
<1>2. \A j \in S : j = i \/ j.at < i.at
  BY <1>1 DEF Records
<1>3. i \in Latest(S)
  BY <1>1, <1>2 DEF Latest
<1>4. \A j \in Latest(S) : j = i
  BY <1>1, <1>2 DEF Latest
<1> QED
  BY <1>3, <1>4 DEF Latest

LEMMA RecordsStep ==
  ASSUME NEW c \in Conns, Typed, Records(c), Statement(c) PROVE Records(c)'
<1> USE DEF Records, Within
<1>1. CASE DropTable(c)
  <2>1. landed' = 0 /\ lake' = lake + 1 /\ exists' = FALSE /\ pc' = pc /\ pc[c] = "idle"
        /\ imports' = imports
    BY <1>1 DEF DropTable
  <2> QED
    BY <2>1 DEF Typed
<1>2. CASE Gloss(c) BY <1>2 DEF Gloss, Known
<1>3. CASE Answer(c) \/ UNCHANGED vars BY <1>3 DEF Answer, vars, Known
<1>4. ASSUME NEW recipe \in Recipes, BeginDeclare(c, recipe) PROVE Records(c)'
  BY <1>4 DEF BeginDeclare, Typed, Known
<1>5. CASE BeginImport(c) BY <1>5 DEF BeginImport, Typed, Known
<1>6. CASE KeyOnce(c) BY <1>6 DEF KeyOnce, Typed, Known
<1>7. CASE Replace(c)
  <2>1. work'[c].recipe = work[c].recipe /\ work'[c].at = lake + 1 /\ pc'[c] = "landed"
    BY <1>7 DEF Replace, Typed, IsWork
  <2>2. /\ landed' = lake + 1 /\ lake' = lake + 1 /\ imports' = imports /\ exists' = TRUE
        /\ source' = source /\ derived' = Derivation[work[c].recipe][source.type]
    BY <1>7 DEF Replace
  <2>3. \A i \in imports : i.at < lake + 1 /\ i.at \in Nat
    BY DEF Typed
  <2> QED
    BY <2>1, <2>2, <2>3 DEF Typed
<1>8. CASE Merge(c)
  <2>1. work'[c].recipe = work[c].recipe /\ work'[c].at = lake + 1 /\ pc'[c] = "landed"
    BY <1>8 DEF Merge, Typed, IsWork
  <2>2. /\ landed' = lake + 1 /\ lake' = lake + 1 /\ imports' = imports /\ exists' = exists /\ exists
        /\ source' = source /\ derived' = Derivation[work[c].recipe][source.type]
    BY <1>8 DEF Merge
  <2>3. \A i \in imports : i.at < lake + 1 /\ i.at \in Nat
    BY DEF Typed
  <2> QED
    BY <2>1, <2>2, <2>3 DEF Typed
<1>9. CASE CountRows(c)
  <2>1. /\ work'[c].recipe = work[c].recipe /\ work'[c].at = work[c].at
        /\ work'[c].count = Cardinality(rows) /\ pc'[c] = "counted"
    BY <1>9 DEF CountRows, Typed, IsWork
  <2> QED
    BY <1>9, <2>1 DEF CountRows, Known
<1>10. CASE ReadSnapshot(c)
  <2>1. /\ work'[c].recipe = work[c].recipe /\ work'[c].at = work[c].at
        /\ work'[c].count = work[c].count /\ work'[c].snapshot = lake /\ pc'[c] = "stamped"
    BY <1>10 DEF ReadSnapshot, Typed, IsWork
  <2> QED
    BY <1>10, <2>1 DEF ReadSnapshot, Known
<1>11. CASE ReadLineage(c)
  <2>1. PICK walks \in BOOLEAN :
          work' = [work EXCEPT
                     ![c].derivation = IF walks THEN Derivation[work[c].recipe][source.type] ELSE Absent,
                     ![c].walked = walks]
    BY <1>11 DEF ReadLineage
  <2>2. /\ work'[c].recipe = work[c].recipe /\ work'[c].at = work[c].at
        /\ work'[c].count = work[c].count /\ work'[c].snapshot = work[c].snapshot
        /\ work'[c].walked = walks /\ pc'[c] = "walked"
        /\ work'[c].derivation = IF walks THEN Derivation[work[c].recipe][source.type] ELSE Absent
    BY <1>11, <2>1 DEF ReadLineage, Typed, IsWork
  <2>3. UNCHANGED <<source, lake, exists, rows, derived, landed, imports>> /\ pc[c] = "stamped"
    BY <1>11 DEF ReadLineage
  <2>4. work'[c].derivation = Known(work'[c], derived)
    BY <2>2, <2>3 DEF Known
  <2> QED
    BY <2>2, <2>3, <2>4 DEF Known
<1>12. CASE Record(c)
  <2> DEFINE row == RecordOf(c)
  <2>1. /\ imports' = imports \cup {row}
        /\ UNCHANGED <<lake, exists, rows, derived, landed>>
        /\ pc'[c] \in {"recorded", "idle"}
    BY <1>12 DEF Record, Typed
  <2>2. /\ row.seq = TopSeq(imports) + 1 /\ row.count = Cardinality(rows)
        /\ row.snapshot = lake /\ row.at = lake /\ row.derivation = Known(row, derived)
    BY <1>12 DEF Record, RecordOf, Known
  <2>3. lake \in Nat /\ landed = lake /\ lake > 0 /\ \A i \in imports : i.at < lake /\ i.at \in Nat
    BY <1>12 DEF Record, Typed
  <2> HIDE DEF row
  <2>4. Numbered(imports \cup {row})
    BY <2>2, NextIsNewest
  <2>5. Numbered(imports')
    BY <2>1, <2>4
  <2>6. \A i \in imports' :
          /\ i.snapshot \in Nat /\ i.snapshot <= lake /\ i.snapshot = i.at /\ i.at > 0
          /\ i.at <= landed
          /\ i.at = landed => i.count = Cardinality(rows) /\ i.derivation = Known(i, derived)
    BY <2>1, <2>2, <2>3
  <2>7. \A i, j \in imports' : i.at = j.at => i = j
    BY <2>1, <2>2, <2>3
  <2> QED
    BY <2>1, <2>3, <2>5, <2>6, <2>7 DEF Known
<1>13. CASE InsertRecipe(c) BY <1>13 DEF InsertRecipe, Typed, Known
<1>14. CASE LandFails(c) BY <1>14 DEF LandFails, Typed, Known
<1>15. CASE Idle /\ SourceMoves BY <1>15 DEF SourceMoves, Idle, Known
<1>16. CASE Cut(c) BY <1>16 DEF Cut, Typed, Known
<1> QED
  BY <1>1, <1>2, <1>3, <1>4, <1>5, <1>6, <1>7, <1>8, <1>9, <1>10, <1>11, <1>12, <1>13, <1>14, <1>15,
     <1>16
  DEF Statement, Uncut, Step

LEMMA RecordsInit == ASSUME NEW c \in Conns PROVE Init => Records(c)
BY DEF Init, Records, Within, Numbered

-----------------------------------------------------------------------------
(* Staleness.                                                              *)

IsVersion(v) ==
  /\ v = [type |-> v.type, begin |-> v.begin, end |-> v.end]
  /\ v.type # Absent
  /\ v.begin \in Nat /\ v.begin <= lake
  /\ v.end \in Nat /\ v.end <= lake
  /\ v.end = 0 \/ v.begin < v.end

Before(v, w) == v.end # 0 /\ v.end <= w.begin

\* No two versions of the column stand at once.
History ==
  /\ lake \in Nat
  /\ \A v \in columns : IsVersion(v)
  /\ \A v, w \in columns : v = w \/ Before(v, w) \/ Before(w, v)

\* The type a gloss was written over is found again at its snapshot.
DatedAt(g) ==
  /\ g.snapshot \in Nat /\ g.snapshot <= lake
  /\ g.type # Absent
  /\ TypeThen(g) = {g.type}

Dated == History /\ \A g \in glosses : DatedAt(g)

\* What computed its column is told by the record of its landing, and no record up to
\* its snapshot is of a later one.
Written(g) ==
  /\ g.of \in Nat /\ g.of <= g.snapshot
  /\ \A i \in imports : i.at <= g.snapshot => i.at <= g.of
  /\ \A i \in imports : i.at = g.of => i.derivation = Known(i, g.by)

Glossed(c) ==
  /\ Live # {} => exists
  /\ \A g \in glosses : Written(g)
  /\ Within(c) => \A g \in glosses : g.snapshot < lake

\* A commit ends the live version, or makes another too.
Version(made) ==
  made = {} \/ \E t : t # Absent /\ made = {[type |-> t, begin |-> lake + 1, end |-> 0]}

Moved(made) == columns' = Ended \cup made /\ lake' = lake + 1

LEMMA VersionAfter ==
  ASSUME NEW made, Moved(made), NEW v \in columns'
  PROVE  \/ v \in columns /\ v.end # 0
         \/ \E w \in Live : v = [type |-> w.type, begin |-> w.begin, end |-> lake + 1]
         \/ v \in made
BY DEF Moved, Ended

LEMMA HistoryMoves ==
  ASSUME History, NEW made, Version(made), Moved(made) PROVE History'
<1>1. lake' \in Nat /\ lake' = lake + 1 /\ lake \in Nat
  BY DEF History, Moved
<1>2. ASSUME NEW v \in columns' PROVE IsVersion(v)'
  BY <1>1, <1>2, VersionAfter DEF History, IsVersion, Live, Version
<1>3. ASSUME NEW v \in columns', NEW w \in columns'
      PROVE  v = w \/ Before(v, w) \/ Before(w, v)
  BY <1>1, <1>3, VersionAfter DEF History, IsVersion, Live, Version, Before
<1> QED
  BY <1>1, <1>2, <1>3 DEF History

\* The type at a snapshot that is past is the same after the step.
LEMMA TypeThenMoves ==
  ASSUME History, NEW made, Version(made), Moved(made),
         NEW g, g.snapshot \in Nat, g.snapshot <= lake
  PROVE  TypeThen(g)' = TypeThen(g)
<1> DEFINE Stood(v) == v.begin <= g.snapshot /\ (v.end = 0 \/ v.end > g.snapshot)
<1>1. lake \in Nat
  BY DEF History
<1>2. ASSUME NEW v \in columns, Stood(v)
      PROVE  \E w \in columns' : Stood(w) /\ w.type = v.type
  <2>1. CASE v.end = 0
    <3> DEFINE ended == [type |-> v.type, begin |-> v.begin, end |-> lake + 1]
    <3>1. ended \in columns'
      BY <2>1 DEF Moved, Ended, Live
    <3>2. Stood(ended) /\ ended.type = v.type
      BY <1>1, <1>2
    <3> QED BY <3>1, <3>2
  <2>2. CASE v.end # 0
    BY <1>2, <2>2 DEF Moved, Ended
  <2> QED BY <2>1, <2>2
<1>3. ASSUME NEW v \in columns', Stood(v)
      PROVE  \E w \in columns : Stood(w) /\ w.type = v.type
  <2>1. v \notin made
    BY <1>1, <1>3 DEF Version
  <2>2. CASE v \in columns /\ v.end # 0
    BY <1>3, <2>2
  <2>3. ASSUME NEW w \in Live, v = [type |-> w.type, begin |-> w.begin, end |-> lake + 1]
        PROVE  w \in columns /\ Stood(w) /\ w.type = v.type
    BY <1>3, <2>3 DEF Live
  <2> QED
    BY <2>1, <2>2, <2>3, VersionAfter
<1>4. TypeThen(g) = {v.type : v \in {v \in columns : Stood(v)}}
  BY DEF TypeThen
<1>5. TypeThen(g)' = {v.type : v \in {v \in columns' : Stood(v)}}
  BY DEF TypeThen
<1> HIDE DEF Stood
<1> QED
  BY <1>2, <1>3, <1>4, <1>5

\* The live version is one, of the column's type now.
LEMMA LiveIsOne ==
  ASSUME History, NEW v \in Live
  PROVE  Live = {v} /\ TypeNow = v.type /\ v.type # Absent
<1>1. Live = {v} /\ v.type # Absent
  BY DEF History, Live, IsVersion, Before
<1> QED
  BY <1>1 DEF TypeNow

\* A gloss as it is written.
GlossNow == [snapshot |-> lake, type |-> TypeNow, by |-> derived, of |-> landed]

LEMMA DatedNow ==
  ASSUME History, Live # {}
  PROVE  DatedAt(GlossNow)
<1> DEFINE g == GlossNow
<1>1. PICK v \in Live : TRUE
  OBVIOUS
<1>2. Live = {v} /\ TypeNow = v.type /\ v.type # Absent
  BY LiveIsOne
<1>3. g.snapshot = lake /\ g.type = v.type /\ lake \in Nat
  BY <1>2 DEF History, GlossNow
<1>4. \A w \in columns : w.begin <= lake /\ (w.end = 0 \/ w.end > lake) <=> w = v
  BY <1>2, <1>3 DEF History, IsVersion, Live
<1> HIDE DEF g
<1>5. TypeThen(g) = {v.type}
  BY <1>1, <1>3, <1>4 DEF TypeThen, Live
<1>6. DatedAt(g)
  BY <1>2, <1>3, <1>5 DEF DatedAt
<1> QED
  BY <1>6 DEF g

\* A table made anew: its column's live version, if it has one, is the recipe's.
LEMMA AnewMoves ==
  ASSUME NEW recipe, columns' = Anew(recipe), lake' = lake + 1
  PROVE  \E made : Version(made) /\ Moved(made)
<1> DEFINE type == ColumnType[recipe][source.type]
<1>1. CASE type = Absent
  <2>1. Moved({})
    BY <1>1 DEF Anew, Moved
  <2>2. Version({})
    BY DEF Version
  <2> QED BY <2>1, <2>2
<1>2. CASE type # Absent
  <2> DEFINE made == {[type |-> type, begin |-> lake + 1, end |-> 0]}
  <2>1. Moved(made)
    BY <1>2 DEF Anew, Moved
  <2>2. Version(made)
    BY <1>2 DEF Version
  <2> QED BY <2>1, <2>2
<1> QED BY <1>1, <1>2

\* What any step does to the column's versions.
LEMMA ColumnsMove ==
  ASSUME [Next]_vars
  PROVE  \/ columns' = columns /\ lake' \in {lake, lake + 1}
         \/ \E made : Version(made) /\ Moved(made)
<1>1. ASSUME NEW c \in Conns, DropTable(c)
      PROVE  \E made : Version(made) /\ Moved(made)
  <2>1. Moved({})
    BY <1>1 DEF DropTable, Moved
  <2>2. Version({})
    BY DEF Version
  <2> QED BY <2>1, <2>2
<1>2. ASSUME NEW c \in Conns, Replace(c)
      PROVE  \E made : Version(made) /\ Moved(made)
  BY <1>2, AnewMoves DEF Replace
<1>3. ASSUME NEW c \in Conns, Merge(c)
      PROVE  columns' = columns /\ lake' = lake + 1
  BY <1>3 DEF Merge
<1>4. CASE UNCHANGED <<columns, lake>>
  BY <1>4
<1> QED
  BY <1>1, <1>2, <1>3, <1>4
  DEF Next, Lively, Step, Gloss, Answer, BeginDeclare, BeginImport, KeyOnce, CountRows, ReadSnapshot,
      ReadLineage, Record, InsertRecipe, LandFails, SourceMoves, Cut, vars

LEMMA HistoryStep ==
  ASSUME History, [Next]_vars PROVE History'
<1>1. CASE columns' = columns /\ lake' \in {lake, lake + 1}
  BY <1>1 DEF History, IsVersion
<1> QED
  BY <1>1, ColumnsMove, HistoryMoves

LEMMA GlossesMove ==
  ASSUME [Next]_vars
  PROVE  \/ glosses' = glosses
         \/ /\ glosses' = glosses \cup {GlossNow}
            /\ \E c \in Conns : Gloss(c)
BY DEF Next, Lively, Step, DropTable, Gloss, GlossNow, Answer, BeginDeclare, BeginImport, KeyOnce, Replace,
       Merge, CountRows, ReadSnapshot, ReadLineage, Record, InsertRecipe, LandFails, SourceMoves, Cut, vars

LEMMA DatedStep == Dated /\ [Next]_vars => Dated'
<1> SUFFICES ASSUME Dated, [Next]_vars PROVE Dated'
  OBVIOUS
<1>1. lake \in Nat /\ lake' \in {lake, lake + 1}
  BY ColumnsMove DEF Dated, History, Moved
<1>2. ASSUME NEW g \in glosses PROVE DatedAt(g)'
  <2>1. DatedAt(g)
    BY DEF Dated
  <2>2. CASE columns' = columns
    <3>1. TypeThen(g)' = TypeThen(g)
      BY <2>2 DEF TypeThen
    <3> QED
      BY <1>1, <2>1, <3>1 DEF DatedAt
  <2>3. ASSUME NEW made, Version(made), Moved(made) PROVE DatedAt(g)'
    <3>1. TypeThen(g)' = TypeThen(g)
      BY <2>1, <2>3, TypeThenMoves DEF Dated, DatedAt
    <3> QED
      BY <1>1, <2>1, <3>1 DEF DatedAt
  <2> QED
    BY <2>2, <2>3, ColumnsMove
<1>3. ASSUME NEW c \in Conns, Gloss(c), NEW g, g = GlossNow PROVE DatedAt(g)'
  <2>1. DatedAt(g)
    BY <1>3, DatedNow DEF Gloss, Dated
  <2>2. UNCHANGED <<lake, columns>>
    BY <1>3 DEF Gloss
  <2> QED
    BY <2>1, <2>2 DEF DatedAt, TypeThen
<1>4. \A g \in glosses' : DatedAt(g)'
  BY <1>2, <1>3, GlossesMove
<1> QED
  BY <1>4, HistoryStep DEF Dated

\* Whoever lands, drops, glosses or is cut off, whatever the source sends and when: the
\* column's versions tell whether its type is what it was as the gloss was written.
THEOREM AlwaysRetyped == Spec => []RetypedTells
<1>1. Init => Dated
  BY DEF Init, Dated, History
<1>2. Dated => RetypedTells
  BY DEF Dated, DatedAt, RetypedTells
<1> QED
  BY <1>1, <1>2, DatedStep, PTL DEF Spec

-----------------------------------------------------------------------------
(* One connection: staleness by the records.                               *)

LEMMA StatementIsNext == ASSUME NEW c \in Conns, Statement(c) PROVE [Next]_vars
BY DEF Statement, Uncut, Next, Lively

LEMMA GlossedStep ==
  ASSUME NEW c \in Conns, Typed, OthersIdle(c), Records(c), Dated, Glossed(c), Statement(c)
  PROVE  Glossed(c)'
<1>1. lake \in Nat /\ lake' \in {lake, lake + 1}
  BY StatementIsNext, ColumnsMove DEF Typed, Moved
<1>2. \A g \in glosses : g.snapshot \in Nat /\ g.snapshot <= lake
  BY DEF Dated, DatedAt
<1>3. ASSUME NEW g \in glosses PROVE Written(g)'
  <2>1. Written(g)
    BY DEF Glossed
  <2>2. CASE Record(c)
    <3>1. imports' = imports \cup {RecordOf(c)} /\ RecordOf(c).at = lake
      BY <2>2 DEF Record, RecordOf, Records, Within
    <3>2. g.snapshot < lake /\ g.of < lake
      BY <1>1, <1>2, <2>1, <2>2 DEF Record, Glossed, Written, Within
    <3> HIDE DEF RecordOf
    <3> QED
      BY <1>1, <1>2, <2>1, <3>1, <3>2 DEF Written, Known
  <2>3. CASE ~ Record(c)
    <3>1. imports' = imports
      BY <2>3 DEF Statement, Uncut, Step, DropTable, Gloss, Answer, BeginDeclare, BeginImport, KeyOnce, Replace,
                  Merge, CountRows, ReadSnapshot, ReadLineage, InsertRecipe, LandFails, SourceMoves, Cut, vars
    <3> QED
      BY <2>1, <3>1 DEF Written, Known
  <2> QED BY <2>2, <2>3
<1>4. ASSUME Gloss(c), NEW g, g = GlossNow PROVE Written(g)'
  <2>1. /\ g.snapshot = lake /\ g.by = derived /\ g.of = landed
    BY <1>4 DEF GlossNow
  <2>2. exists /\ UNCHANGED <<imports, lake>>
    BY <1>4 DEF Gloss, Glossed
  <2> QED
    BY <2>1, <2>2 DEF Records, Written, Known
<1>5. \A g \in glosses' : Written(g)'
  <2>1. glosses' = glosses \/ (Gloss(c) /\ glosses' = glosses \cup {GlossNow})
    BY DEF Statement, Uncut, Step, DropTable, Gloss, GlossNow, Answer, BeginDeclare, BeginImport, KeyOnce, Replace,
           Merge, CountRows, ReadSnapshot, ReadLineage, Record, InsertRecipe, LandFails, SourceMoves, Cut, vars
  <2> QED
    BY <1>3, <1>4, <2>1
<1>6. Live' # {} => exists'
  <2>1. CASE DropTable(c)
    <3>1. \A v \in Ended : v.end # 0
      BY <1>1 DEF Ended
    <3> QED
      BY <2>1, <3>1 DEF DropTable, Live
  <2>2. CASE Replace(c)
    BY <2>2 DEF Replace
  <2>3. CASE ~ DropTable(c) /\ ~ Replace(c)
    BY <2>3 DEF Glossed, Live, Statement, Uncut, Step, Gloss, Answer, BeginDeclare, BeginImport, KeyOnce, Merge,
                CountRows, ReadSnapshot, ReadLineage, Record, InsertRecipe, LandFails, SourceMoves, Cut, vars
  <2> QED BY <2>1, <2>2, <2>3
<1>7. Within(c)' => \A g \in glosses' : g.snapshot < lake'
  <2>1. CASE Replace(c) \/ Merge(c)
    BY <1>1, <1>2, <2>1 DEF Replace, Merge
  <2>2. CASE CountRows(c) \/ ReadSnapshot(c) \/ ReadLineage(c)
    BY <2>2 DEF Glossed, Within, Typed, CountRows, ReadSnapshot, ReadLineage
  <2>3. CASE UNCHANGED vars
    BY <2>3 DEF vars, Glossed, Within
  <2>4. CASE ~ (Replace(c) \/ Merge(c) \/ CountRows(c) \/ ReadSnapshot(c) \/ ReadLineage(c)) /\ vars' # vars
    <3>1. pc'[c] \in {"idle", "begun", "keyed", "recorded"}
      BY <2>4 DEF Typed, Statement, Uncut, Step, DropTable, Gloss, Answer, BeginDeclare, BeginImport, KeyOnce,
                  Record, InsertRecipe, LandFails, SourceMoves, Cut, Idle, vars
    <3> QED
      BY <3>1 DEF Within
  <2> QED
    BY <2>1, <2>2, <2>3, <2>4
<1> QED
  BY <1>5, <1>6, <1>7 DEF Glossed

\* Of one connection's statements, cut off or not; and where none is.
Inv(c)  == Typed /\ OthersIdle(c) /\ Records(c) /\ Dated /\ Glossed(c)
Kept(c) == Typed /\ OthersIdle(c) /\ Keys(c)

LEMMA InvInit == ASSUME NEW c \in Conns PROVE Init => Inv(c) /\ Kept(c)
<1>1. Init => Dated /\ Glossed(c)
  BY DEF Init, Dated, History, Glossed, Live, Within
<1> QED
  BY <1>1, DoorInit, RecordsInit DEF Inv, Kept

LEMMA InvStep ==
  ASSUME NEW c \in Conns
  PROVE  /\ Inv(c) /\ Statement(c) => Inv(c)'
         /\ Kept(c) /\ Uncut(c) => Kept(c)'
<1>1. ASSUME Inv(c), Statement(c) PROVE Inv(c)'
  BY <1>1, TypesStep, RecordsStep, DatedStep, StatementIsNext, GlossedStep DEF Inv
<1>2. ASSUME Kept(c), Uncut(c) PROVE Kept(c)'
  BY <1>2, TypesStep, KeysStep DEF Kept, Statement
<1> QED BY <1>1, <1>2

\* What the invariants say between statements.
LEMMA InvTells ==
  ASSUME NEW c \in Conns
  PROVE  /\ Kept(c) => KeysOnce
         /\ Inv(c) => RecordTells /\ SnapshotIsLandings /\ StaleTells
<1>1. Kept(c) => KeysOnce
  BY DEF Kept, Keys, KeyedNow, Distinct, KeysOnce, KeyedTable, Idle
<1>2. ASSUME Inv(c), NEW i \in imports, exists, i.at = landed
      PROVE  Latest(imports) = {i} /\ i.count = Cardinality(rows) /\ i.derivation = Known(i, derived)
  BY <1>2, BeyondIsLatest DEF Inv, Records
<1>3. Inv(c) => SnapshotIsLandings
  BY DEF Inv, Records, SnapshotIsLandings
<1>4. ASSUME Inv(c), NEW g \in glosses, NEW then \in imports, NEW now \in imports,
             then.at = g.of, now.at = landed
      PROVE  Stale(g) <=> (TypeNow # g.type \/ Known(then, g.by) # Known(now, derived))
  <2>1. TypeThen(g) = {g.type}
    BY <1>4 DEF Inv, Dated, DatedAt
  <2> DEFINE S == {i \in imports : i.snapshot <= g.snapshot}
  <2>2. Latest(S) = {then}
    <3>1. /\ g.of \in Nat /\ g.snapshot \in Nat /\ g.of <= g.snapshot
          /\ \A i \in imports : i.at <= g.snapshot => i.at <= g.of
          /\ \A i \in imports : i.snapshot = i.at
      BY <1>4 DEF Inv, Dated, DatedAt, Glossed, Written, Records
    <3>2. then \in S /\ S \subseteq imports /\ \A i \in S : i.at <= then.at
      BY <1>4, <3>1
    <3> QED
      BY <1>4, <3>2, BeyondIsLatest DEF Inv
  <2>3. Latest(imports) = {now} /\ now.derivation = Known(now, derived)
    <3>1. landed > 0 /\ \A i \in imports : i.at <= now.at
      BY <1>4 DEF Inv, Records
    <3> QED
      BY <1>4, <3>1, BeyondIsLatest DEF Inv, Records
  <2>4. then.derivation = Known(then, g.by)
    BY <1>4 DEF Inv, Glossed, Written
  <2> QED
    BY <2>1, <2>2, <2>3, <2>4 DEF Stale
<1>5. ASSUME Inv(c), NEW g \in glosses, TypeNow # g.type PROVE Stale(g)
  BY <1>5 DEF Inv, Dated, DatedAt, Stale
<1> QED
  BY <1>1, <1>2, <1>3, <1>4, <1>5 DEF RecordTells, StaleTells

\* With one connection, its statements cut off anywhere and the source moving between
\* them: the record of the landing that made the table is the newest and of the table
\* as it is, a record carries its landing's snapshot, and where a gloss's landing and
\* the table's have records the gloss reads stale exactly when its column's type is
\* another or the two differ in what they tell of it.
THEOREM OneDoorLands ==
  ASSUME NEW c, Conns = {c}
  PROVE  BrokenSpec => [](RecordTells /\ SnapshotIsLandings /\ StaleTells)
<1>1. c \in Conns
  OBVIOUS
<1>2. Init => Inv(c)
  BY <1>1, InvInit
<1>3. Inv(c) /\ [Broken]_vars => Inv(c)'
  BY <1>1, InvStep DEF Broken, Quiet, Statement, Uncut
<1>4. Inv(c) => RecordTells /\ SnapshotIsLandings /\ StaleTells
  BY <1>1, InvTells
<1> QED
  BY <1>2, <1>3, <1>4, PTL DEF BrokenSpec

\* The same of the door of MCLandingOpen, alone open among any connections.
LEMMA DoorAlone ==
  ASSUME Door \in Conns
  PROVE  MCSpec => []((Alone => Inv(Door)) /\ (Alone /\ ~ cuts => Kept(Door)))
<1> DEFINE I == (Alone => Inv(Door)) /\ (Alone /\ ~ cuts => Kept(Door))
<1>1. MCInit => I
  BY InvInit DEF MCInit
<1>2. I /\ [MCNext]_<<vars, open, cuts>> => I'
  <2> SUFFICES ASSUME I, [MCNext]_<<vars, open, cuts>>, Alone'
               PROVE  Inv(Door)' /\ (~ cuts' => Kept(Door)')
    BY DEF Alone
  <2>1. open' = open /\ cuts' = cuts /\ Alone
    BY DEF MCNext, Same, Alone
  <2>2. Statement(Door) /\ (~ cuts => Uncut(Door))
    BY <2>1 DEF MCNext, Alone, Statement, Uncut, Step
  <2> QED
    BY <2>1, <2>2, InvStep
<1> QED
  BY <1>1, <1>2, PTL DEF MCSpec

\* Of one connection among any, whose statements come to their end, import after import
\* leaves each key that is there once.
THEOREM DoorKeys == ASSUME Door \in Conns PROVE MCSpec => []DoorKeysOnce
<1>1. (Alone /\ ~ cuts => Kept(Door)) => DoorKeysOnce
  BY InvTells DEF DoorKeysOnce
<1> QED BY <1>1, DoorAlone, PTL

\* Statements cut off or not, and lineages read or not, the record of the landing that
\* made the table is the newest and tells of the table as it is.
THEOREM DoorRecords == ASSUME Door \in Conns PROVE MCSpec => []DoorRecordTells
<1>1. (Alone => Inv(Door)) => DoorRecordTells
  BY InvTells DEF DoorRecordTells
<1> QED BY <1>1, DoorAlone, PTL

\* A gloss on the column reads stale exactly when its type, or what the records of its
\* landing and of the table's tell of it, is not what it was at the write, whatever was
\* landed, dropped and cut off in between.
THEOREM DoorStaleness == ASSUME Door \in Conns PROVE MCSpec => []DoorStaleTells
<1>1. (Alone => Inv(Door)) => DoorStaleTells
  BY InvTells DEF DoorStaleTells
<1> QED BY <1>1, DoorAlone, PTL

-----------------------------------------------------------------------------
(* The recursive functions of lineage: each is defined, every value by those   *)
(* of earlier places.                                                          *)

\* The places of a plan, and of what stands beneath an operator.
LEMMA Places ==
  ASSUME NEW q, Ordered(q)
  PROVE  /\ Len(q) \in Nat \ {0} /\ DOMAIN q = 1 .. Len(q)
         /\ \A x \in DOMAIN q : x \in Nat \ {0} /\ \A k \in DOMAIN q[x].kids : q[x].kids[k] \in 1 .. x - 1
<1>1. Len(q) \in Nat \ {0} /\ DOMAIN q = 1 .. Len(q)
  BY DEF Ordered
<1>2. \A x \in DOMAIN q : q[x].kids \in Seq(1 .. x - 1)
  BY DEF Ordered
<1> QED
  BY <1>1, <1>2

\* What an operator puts out depends on what is beneath it alone.
LEMMA OutputsLocal ==
  ASSUME NEW q, Ordered(q), NEW x \in DOMAIN q, NEW g, NEW h, \A y \in 1 .. x - 1 : g[y] = h[y]
  PROVE  /\ Own(q, x, g) = Own(q, x, h)
         /\ OutputsBy(q, x, g) = OutputsBy(q, x, h)
<1>1. \A k \in DOMAIN q[x].kids : g[q[x].kids[k]] = h[q[x].kids[k]]
  BY Places
<1>2. Passed(q[x]) \subseteq DOMAIN q[x].kids /\ (q[x].op = "setop" => 1 \in DOMAIN q[x].kids)
  BY DEF Ordered
<1>3. Own(q, x, g) = Own(q, x, h)
  BY <1>1, <1>2 DEF Own
<1>4. \A k : (IF k \in Passed(q[x]) THEN g[q[x].kids[k]] ELSE <<>>) = (IF k \in Passed(q[x]) THEN h[q[x].kids[k]] ELSE <<>>)
  BY <1>1, <1>2
<1>5. (IF 1 \in Passed(q[x]) THEN g[q[x].kids[1]] ELSE <<>>) = (IF 1 \in Passed(q[x]) THEN h[q[x].kids[1]] ELSE <<>>)
  BY <1>4
<1>6. (IF 2 \in Passed(q[x]) THEN g[q[x].kids[2]] ELSE <<>>) = (IF 2 \in Passed(q[x]) THEN h[q[x].kids[2]] ELSE <<>>)
  BY <1>4
<1> QED
  BY <1>3, <1>5, <1>6 DEF OutputsBy

LEMMA BindingsBy ==
  ASSUME NEW q, Ordered(q)
  PROVE  Bindings(q) = [x \in DOMAIN q |-> OutputsBy(q, x, Bindings(q))]
<1> DEFINE N == Len(q)
           Solves(g, n) == g = [x \in 1 .. n |-> OutputsBy(q, x, g)]
           Unsolved == {n \in 0 .. N : ~ \E g : Solves(g, n)}
<1>1. N \in Nat /\ DOMAIN q = 1 .. N
  BY Places
<1>2. Unsolved = {}
  <2> SUFFICES ASSUME Unsolved # {} PROVE FALSE
    OBVIOUS
  <2>1. PICK n \in Unsolved : \A m \in Unsolved : n <= m
    <3>1. Unsolved \in SUBSET Nat
      BY <1>1
    <3> HIDE DEF Unsolved
    <3> QED
      BY <3>1, LeastNumber
  <2>2. n \in 0 .. N /\ ~ \E g : Solves(g, n)
    OBVIOUS
  <2>3. n # 0
    <3>1. Solves([x \in 1 .. 0 |-> x], 0)
      OBVIOUS
    <3> QED
      BY <2>2, <3>1
  <2>4. PICK h : Solves(h, n - 1)
    <3>1. n - 1 \in 0 .. N /\ ~ n <= n - 1
      BY <1>1, <2>2, <2>3
    <3>2. n - 1 \notin Unsolved
      BY <2>1, <3>1
    <3> QED
      BY <3>1, <3>2
  <2> DEFINE g == [x \in 1 .. n |-> OutputsBy(q, x, h)]
  <2>5. ASSUME NEW x \in 1 .. n PROVE OutputsBy(q, x, h) = OutputsBy(q, x, g)
    <3>1. x \in DOMAIN q /\ \A y \in 1 .. x - 1 : y \in 1 .. n - 1 /\ y \in 1 .. n
      BY <1>1, <2>2
    <3>2. \A y \in 1 .. x - 1 : h[y] = g[y]
      BY <2>4, <3>1
    <3> HIDE DEF g
    <3> QED
      BY <3>1, <3>2, OutputsLocal
  <2>6. Solves(g, n)
    BY <2>5
  <2> QED
    BY <2>2, <2>6
<1>3. \E g : g = [x \in DOMAIN q |-> OutputsBy(q, x, g)]
  <2>1. \E g : Solves(g, N)
    BY <1>1, <1>2
  <2> QED
    BY <1>1, <2>1
<1>4. Bindings(q) = CHOOSE g : g = [x \in DOMAIN q |-> OutputsBy(q, x, g)]
  BY DEF Bindings
<1> QED
  BY <1>3, <1>4

-----------------------------------------------------------------------------
(* Bindings.                                                               *)

\* The columns made by the operators up to x.
ColumnsTo(q, x) == {b \in (1 .. x) \X Nat : b[2] \in 1 .. Own(q, b[1], Bindings(q))}

LEMMA BindingsTyped ==
  ASSUME NEW q, Ordered(q)
  PROVE  \A x \in DOMAIN q : Own(q, x, Bindings(q)) \in Nat /\ Bindings(q)[x] \in Seq(ColumnsTo(q, x))
<1> DEFINE TypedAt(x) == Own(q, x, Bindings(q)) \in Nat /\ Bindings(q)[x] \in Seq(ColumnsTo(q, x))
           Bad == {x \in DOMAIN q : ~ TypedAt(x)}
<1> SUFFICES ASSUME Bad # {} PROVE FALSE
  OBVIOUS
<1>1. PICK x \in Bad : \A y \in Bad : x <= y
  <2>1. Bad \in SUBSET Nat
    BY Places
  <2> HIDE DEF Bad
  <2> QED
    BY <2>1, LeastNumber
<1>2. x \in DOMAIN q /\ ~ TypedAt(x)
  OBVIOUS
<1>3. ASSUME NEW y \in 1 .. x - 1 PROVE TypedAt(y)
  <2>1. y \in DOMAIN q /\ ~ x <= y
    BY <1>2, Places
  <2> QED
    BY <1>1, <2>1
<1> DEFINE B == Bindings(q)
<1>4. \A k \in DOMAIN q[x].kids : q[x].kids[k] \in 1 .. x - 1
  BY <1>2, Places
<1>5. Own(q, x, B) \in Nat
  <2>1. q[x].op = "get" => Len(Tables[q[x].of].columns) \in Nat
    BY <1>2, LineageAssumption DEF Ordered
  <2>2. q[x].width \in Nat /\ Len(q[x].exprs) \in Nat
    BY <1>2 DEF Ordered
  <2>3. q[x].op = "setop" => Len(B[q[x].kids[1]]) \in Nat
    <3>1. q[x].op = "setop" => 1 \in DOMAIN q[x].kids
      BY <1>2 DEF Ordered
    <3> QED
      BY <1>3, <1>4, <3>1
  <2> QED
    BY <2>1, <2>2, <2>3 DEF Own
<1>6. ASSUME NEW k \in Passed(q[x]) PROVE B[q[x].kids[k]] \in Seq(ColumnsTo(q, x))
  <2>1. q[x].kids[k] \in 1 .. x - 1
    BY <1>2, <1>4 DEF Ordered
  <2>2. ColumnsTo(q, q[x].kids[k]) \subseteq ColumnsTo(q, x)
    BY <1>2, <2>1, Places DEF ColumnsTo
  <2>3. B[q[x].kids[k]] \in Seq(ColumnsTo(q, q[x].kids[k]))
    BY <1>3, <2>1
  <2> QED
    BY <2>2, <2>3
<1>7. [i \in 1 .. Own(q, x, B) |-> <<x, i>>] \in Seq(ColumnsTo(q, x))
  <2>1. \A i \in 1 .. Own(q, x, B) : <<x, i>> \in ColumnsTo(q, x)
    BY <1>2, <1>5, Places DEF ColumnsTo
  <2> QED
    BY <1>5, <2>1
<1>8. B[x] = OutputsBy(q, x, B)
  BY <1>2, BindingsBy
<1>9. OutputsBy(q, x, B) \in Seq(ColumnsTo(q, x))
  <2> DEFINE passed(k) == IF k \in Passed(q[x]) THEN B[q[x].kids[k]] ELSE <<>>
             own == [i \in 1 .. Own(q, x, B) |-> <<x, i>>]
  <2>1. passed(1) \in Seq(ColumnsTo(q, x)) /\ passed(2) \in Seq(ColumnsTo(q, x))
    BY <1>6
  <2>2. own \in Seq(ColumnsTo(q, x))
    BY <1>7
  <2>3. OutputsBy(q, x, B) = (passed(1) \o passed(2)) \o own
    BY DEF OutputsBy
  <2> HIDE DEF passed, own, B
  <2> QED
    BY <2>1, <2>2, <2>3
<1> QED
  BY <1>2, <1>5, <1>8, <1>9

LEMMA BeneathTyped ==
  ASSUME NEW q, Ordered(q), NEW x \in DOMAIN q
  PROVE  Beneath(q, x, Bindings(q)) \in Seq(ColumnsTo(q, x - 1))
<1> DEFINE B == Bindings(q)
           kid(k) == IF k \in DOMAIN q[x].kids THEN B[q[x].kids[k]] ELSE <<>>
<1>1. ASSUME NEW k PROVE kid(k) \in Seq(ColumnsTo(q, x - 1))
  <2>1. CASE k \in DOMAIN q[x].kids
    <3>1. q[x].kids[k] \in 1 .. x - 1 /\ q[x].kids[k] \in DOMAIN q /\ x \in Nat
      BY <2>1, Places
    <3>2. ColumnsTo(q, q[x].kids[k]) \subseteq ColumnsTo(q, x - 1)
      BY <3>1 DEF ColumnsTo
    <3>3. B[q[x].kids[k]] \in Seq(ColumnsTo(q, q[x].kids[k]))
      BY <3>1, BindingsTyped
    <3> QED
      BY <2>1, <3>2, <3>3
  <2>2. CASE k \notin DOMAIN q[x].kids
    BY <2>2
  <2> QED
    BY <2>1, <2>2
<1>2. Beneath(q, x, B) = kid(1) \o kid(2)
  BY DEF Beneath
<1>3. kid(1) \in Seq(ColumnsTo(q, x - 1)) /\ kid(2) \in Seq(ColumnsTo(q, x - 1))
  BY <1>1
<1> HIDE DEF kid, B
<1>4. Beneath(q, x, B) \in Seq(ColumnsTo(q, x - 1))
  BY <1>2, <1>3
<1> QED
  BY <1>4 DEF B

-----------------------------------------------------------------------------
(* Texts.                                                                  *)

\* A text tells its head and its arguments, and is known if they all are.
LEMMA OverTells ==
  ASSUME NEW h, NEW a, NEW g, NEW b
  PROVE  /\ Over(h, a) = Over(g, b) <=> h = g /\ a = b
         /\ Over(h, a).known <=> \A i \in DOMAIN a : a[i].known
         /\ Over(h, a).args = a /\ Over(h, a).head = h
  BY DEF Over

LEMMA UnknownIsNot == ~ Unknown.known
  BY DEF Unknown

\* The nodes of an expression and what a node's arguments are.
LEMMA Nodes ==
  ASSUME NEW e, NEW a, IsExpression(e, a)
  PROVE  /\ Len(e) \in Nat \ {0} /\ DOMAIN e = 1 .. Len(e)
         /\ \A n \in DOMAIN e :
              /\ n \in Nat \ {0} /\ e[n].class \in Classes
              /\ e[n].args \in Seq(1 .. n - 1)
              /\ \A i \in DOMAIN e[n].args : e[n].args[i] \in 1 .. n - 1
              /\ e[n].class = "ref" => e[n].word \in 1 .. a
              /\ e[n].class \in {"ref", "constant"} => e[n].args = <<>>
              /\ n # Len(e) => \E m \in n + 1 .. Len(e) : \E i \in DOMAIN e[m].args : e[m].args[i] = n
<1>1. Len(e) \in Nat \ {0} /\ DOMAIN e = 1 .. Len(e)
  BY DEF IsExpression
<1>2. ASSUME NEW n \in DOMAIN e
      PROVE  /\ n \in Nat \ {0} /\ e[n].class \in Classes
             /\ e[n].args \in Seq(1 .. n - 1)
             /\ e[n].class = "ref" => e[n].word \in 1 .. a
             /\ e[n].class \in {"ref", "constant"} => e[n].args = <<>>
             /\ n # Len(e) => \E m \in n + 1 .. Len(e) : \E i \in DOMAIN e[m].args : e[m].args[i] = n
  BY <1>1, <1>2 DEF IsExpression
<1>3. ASSUME NEW n \in DOMAIN e, NEW i \in DOMAIN e[n].args PROVE e[n].args[i] \in 1 .. n - 1
  BY <1>2
<1> QED
  BY <1>1, <1>2, <1>3

LEMMA NodeLocal ==
  ASSUME NEW e, NEW a, IsExpression(e, a), NEW n \in DOMAIN e, NEW beneath, NEW texts,
         NEW g, NEW h, \A m \in 1 .. n - 1 : g[m] = h[m]
  PROVE  NodeText(e, n, beneath, texts, g) = NodeText(e, n, beneath, texts, h)
<1>1. [i \in DOMAIN e[n].args |-> g[e[n].args[i]]] = [i \in DOMAIN e[n].args |-> h[e[n].args[i]]]
  BY Nodes
<1> QED
  BY <1>1 DEF NodeText

\* The texts of an expression's nodes, and its own: that of the top.
NodeTexts(e, beneath, texts, node) == node = [n \in DOMAIN e |-> NodeText(e, n, beneath, texts, node)]

LEMMA TextBy ==
  ASSUME NEW e, NEW a, IsExpression(e, a), NEW beneath, NEW texts
  PROVE  \E node : NodeTexts(e, beneath, texts, node) /\ Text(e, beneath, texts) = node[Len(e)]
<1> DEFINE N == Len(e)
           Solves(g, n) == g = [x \in 1 .. n |-> NodeText(e, x, beneath, texts, g)]
           Unsolved == {n \in 0 .. N : ~ \E g : Solves(g, n)}
<1>1. N \in Nat /\ DOMAIN e = 1 .. N
  BY Nodes
<1>2. Unsolved = {}
  <2> SUFFICES ASSUME Unsolved # {} PROVE FALSE
    OBVIOUS
  <2>1. PICK n \in Unsolved : \A m \in Unsolved : n <= m
    <3>1. Unsolved \in SUBSET Nat
      BY <1>1
    <3> HIDE DEF Unsolved
    <3> QED
      BY <3>1, LeastNumber
  <2>2. n \in 0 .. N /\ ~ \E g : Solves(g, n)
    OBVIOUS
  <2>3. n # 0
    <3>1. Solves([x \in 1 .. 0 |-> x], 0)
      OBVIOUS
    <3> QED
      BY <2>2, <3>1
  <2>4. PICK h : Solves(h, n - 1)
    <3>1. n - 1 \in 0 .. N /\ ~ n <= n - 1
      BY <1>1, <2>2, <2>3
    <3>2. n - 1 \notin Unsolved
      BY <2>1, <3>1
    <3> QED
      BY <3>1, <3>2
  <2> DEFINE g == [x \in 1 .. n |-> NodeText(e, x, beneath, texts, h)]
  <2>5. ASSUME NEW x \in 1 .. n PROVE NodeText(e, x, beneath, texts, h) = NodeText(e, x, beneath, texts, g)
    <3>1. x \in DOMAIN e /\ \A y \in 1 .. x - 1 : y \in 1 .. n - 1 /\ y \in 1 .. n
      BY <1>1, <2>2
    <3>2. \A y \in 1 .. x - 1 : h[y] = g[y]
      BY <2>4, <3>1
    <3> HIDE DEF g
    <3> QED
      BY <3>1, <3>2, NodeLocal
  <2>6. Solves(g, n)
    BY <2>5
  <2> QED
    BY <2>2, <2>6
<1>3. \E g : g = [x \in DOMAIN e |-> NodeText(e, x, beneath, texts, g)]
  <2>1. \E g : Solves(g, N)
    BY <1>1, <1>2
  <2> QED
    BY <1>1, <2>1
<1> DEFINE node == CHOOSE g : g = [x \in DOMAIN e |-> NodeText(e, x, beneath, texts, g)]
<1>4. Text(e, beneath, texts) = node[Len(e)]
  BY DEF Text
<1>5. node = [x \in DOMAIN e |-> NodeText(e, x, beneath, texts, node)]
  BY <1>3
<1> QED
  BY <1>4, <1>5 DEF NodeTexts

LEMMA RefsBound ==
  ASSUME NEW e, NEW a, IsExpression(e, a)
  PROVE  /\ RefsOf(e) \subseteq 1 .. a
         /\ \A n \in DOMAIN e : e[n].class = "ref" => e[n].word \in RefsOf(e)
         /\ \A r \in RefsOf(e) : \E n \in DOMAIN e : e[n].class = "ref" /\ e[n].word = r
  BY Nodes DEF RefsOf

\* Over columns of the same texts an expression has the same text.
LEMMA TextSame ==
  ASSUME NEW e, NEW a, IsExpression(e, a), NEW b1, NEW text1, NEW b2, NEW text2,
         \A r \in RefsOf(e) : TextOf(b1[r], text1) = TextOf(b2[r], text2)
  PROVE  Text(e, b1, text1) = Text(e, b2, text2)
<1>1. PICK f : NodeTexts(e, b1, text1, f) /\ Text(e, b1, text1) = f[Len(e)]
  BY TextBy
<1>2. PICK g : NodeTexts(e, b2, text2, g) /\ Text(e, b2, text2) = g[Len(e)]
  BY TextBy
<1> DEFINE Bad == {n \in DOMAIN e : f[n] # g[n]}
<1>3. Bad = {}
  <2> SUFFICES ASSUME Bad # {} PROVE FALSE
    OBVIOUS
  <2>1. PICK n \in Bad : \A m \in Bad : n <= m
    <3>1. Bad \in SUBSET Nat
      BY Nodes
    <3> HIDE DEF Bad
    <3> QED
      BY <3>1, LeastNumber
  <2>2. n \in DOMAIN e /\ f[n] # g[n]
    OBVIOUS
  <2>3. ASSUME NEW m \in 1 .. n - 1 PROVE f[m] = g[m]
    <3>1. m \in DOMAIN e /\ ~ n <= m
      BY <2>2, Nodes
    <3> QED
      BY <2>1, <3>1
  <2>4. f[n] = NodeText(e, n, b1, text1, f) /\ g[n] = NodeText(e, n, b2, text2, g)
    BY <1>1, <1>2, <2>2 DEF NodeTexts
  <2>5. NodeText(e, n, b1, text1, f) = NodeText(e, n, b1, text1, g)
    BY <2>2, <2>3, NodeLocal
  <2>6. NodeText(e, n, b1, text1, g) = NodeText(e, n, b2, text2, g)
    <3>1. e[n].class = "ref" => e[n].word \in RefsOf(e)
      BY <2>2, RefsBound
    <3> QED
      BY <3>1 DEF NodeText
  <2> QED
    BY <2>2, <2>4, <2>5, <2>6
<1>4. Len(e) \in DOMAIN e
  BY Nodes
<1> QED
  BY <1>1, <1>2, <1>3, <1>4

\* What holds of a node holds of one it is an argument of: then it holds of the top.
LEMMA UpToTheTop ==
  ASSUME NEW e, NEW a, IsExpression(e, a), NEW S \in SUBSET DOMAIN e, S # {},
         \A m \in DOMAIN e : (\E i \in DOMAIN e[m].args : e[m].args[i] \in S) => m \in S
  PROVE  Len(e) \in S
<1>1. S \in SUBSET Nat /\ Len(e) \in Nat /\ \A m \in S : m <= Len(e)
  BY Nodes
<1>2. PICK n \in S : \A m \in S : m <= n
  BY <1>1, BoundedMax
<1> SUFFICES ASSUME n # Len(e) PROVE FALSE
  BY <1>2
<1>3. PICK m \in n + 1 .. Len(e) : \E i \in DOMAIN e[m].args : e[m].args[i] = n
  BY Nodes
<1>4. m \in DOMAIN e /\ ~ m <= n
  BY <1>1, <1>3, Nodes
<1> QED
  BY <1>2, <1>3, <1>4

\* Of a known text every node is known, and so is every column read.
LEMMA TextKnown ==
  ASSUME NEW e, NEW a, IsExpression(e, a), NEW beneath, NEW texts, Text(e, beneath, texts).known,
         NEW node, NodeTexts(e, beneath, texts, node), Text(e, beneath, texts) = node[Len(e)]
  PROVE  /\ \A n \in DOMAIN e : node[n].known /\ e[n].class # "subquery"
         /\ \A r \in RefsOf(e) : TextOf(beneath[r], texts).known
<1> DEFINE S == {n \in DOMAIN e : ~ node[n].known}
<1>1. \A n \in DOMAIN e : node[n] = NodeText(e, n, beneath, texts, node)
  BY DEF NodeTexts
<1>2. ASSUME NEW m \in DOMAIN e, NEW i \in DOMAIN e[m].args, e[m].args[i] \in S PROVE m \in S
  <2>1. e[m].class \notin {"ref", "constant"}
    BY <1>2, Nodes
  <2>2. CASE e[m].class = "subquery"
    <3>1. node[m] = Unknown
      BY <1>1, <2>2 DEF NodeText
    <3> QED
      BY <3>1, UnknownIsNot
  <2>3. CASE e[m].class # "subquery"
    <3>1. node[m] = Over(HeadOf(e[m]), [j \in DOMAIN e[m].args |-> node[e[m].args[j]]])
      BY <1>1, <2>1, <2>3 DEF NodeText
    <3>2. ~ node[m].known
      BY <1>2, <3>1 DEF Over
    <3> QED
      BY <3>2
  <2> QED
    BY <2>2, <2>3
<1>3. S = {}
  <2> SUFFICES ASSUME S # {} PROVE FALSE
    OBVIOUS
  <2>1. S \in SUBSET DOMAIN e
    OBVIOUS
  <2>2. Len(e) \in S
    <3> HIDE DEF S
    <3> QED
      BY <1>2, <2>1, UpToTheTop
  <2> QED
    BY <2>2
<1>4. \A n \in DOMAIN e : node[n].known
  BY <1>3
<1>5. ASSUME NEW n \in DOMAIN e, e[n].class = "subquery" PROVE FALSE
  <2>1. node[n] = Unknown
    BY <1>1, <1>5 DEF NodeText
  <2> QED
    BY <1>4, <2>1, UnknownIsNot
<1>6. \A n \in DOMAIN e : e[n].class = "ref" => node[n] = TextOf(beneath[e[n].word], texts)
  BY <1>1 DEF NodeText
<1> QED
  BY <1>4, <1>5, <1>6, RefsBound

\* Of two known texts of an expression that read a column's texts that differ, they differ.
LEMMA TextMoved ==
  ASSUME NEW e, NEW a, IsExpression(e, a), NEW b1, NEW text1, NEW b2, NEW text2,
         Text(e, b1, text1).known,
         NEW r \in RefsOf(e), TextOf(b1[r], text1) # TextOf(b2[r], text2)
  PROVE  Text(e, b1, text1) # Text(e, b2, text2)
<1>1. PICK f : NodeTexts(e, b1, text1, f) /\ Text(e, b1, text1) = f[Len(e)]
  BY TextBy
<1>2. PICK g : NodeTexts(e, b2, text2, g) /\ Text(e, b2, text2) = g[Len(e)]
  BY TextBy
<1> DEFINE S == {n \in DOMAIN e : f[n] # g[n]}
<1>3. \A n \in DOMAIN e : f[n] = NodeText(e, n, b1, text1, f) /\ g[n] = NodeText(e, n, b2, text2, g)
  BY <1>1, <1>2 DEF NodeTexts
<1>4. S # {}
  <2>1. PICK n \in DOMAIN e : e[n].class = "ref" /\ e[n].word = r
    BY RefsBound
  <2>2. f[n] = TextOf(b1[r], text1) /\ g[n] = TextOf(b2[r], text2)
    BY <1>3, <2>1 DEF NodeText
  <2> QED
    BY <2>2
<1>5. ASSUME NEW m \in DOMAIN e, NEW i \in DOMAIN e[m].args, e[m].args[i] \in S PROVE m \in S
  <2>1. e[m].class \notin {"ref", "constant", "subquery"}
    BY <1>1, <1>5, Nodes, TextKnown
  <2> DEFINE A == [j \in DOMAIN e[m].args |-> f[e[m].args[j]]]
             B == [j \in DOMAIN e[m].args |-> g[e[m].args[j]]]
  <2>2. f[m] = Over(HeadOf(e[m]), A) /\ g[m] = Over(HeadOf(e[m]), B)
    BY <1>3, <2>1 DEF NodeText
  <2>3. A[i] # B[i]
    BY <1>5
  <2> HIDE DEF A, B
  <2>4. f[m] # g[m]
    BY <2>2, <2>3, OverTells
  <2> QED
    BY <2>4
<1>6. S \in SUBSET DOMAIN e
  OBVIOUS
<1>7. Len(e) \in S
  <2> HIDE DEF S
  <2> QED
    BY <1>4, <1>5, <1>6, UpToTheTop
<1> QED
  BY <1>1, <1>2, <1>7

-----------------------------------------------------------------------------
(* The walk.                                                               *)

\* Two sets of texts found that agree on the columns made before x.
SameBefore(q, x, g, h) == \A b \in ColumnsTo(q, x - 1) : TextOf(b, g) = TextOf(b, h)

LEMMA TextsSame ==
  ASSUME NEW S, NEW g, NEW h, \A b \in S : TextOf(b, g) = TextOf(b, h), NEW bindings \in Seq(S)
  PROVE  TextsOf(bindings, g) = TextsOf(bindings, h)
<1>1. \A i \in DOMAIN bindings : bindings[i] \in S
  OBVIOUS
<1> QED
  BY <1>1 DEF TextsOf

\* What an operator before x puts out was made before x.
LEMMA OutputsBefore ==
  ASSUME NEW q, Ordered(q), NEW x \in DOMAIN q, NEW k \in 1 .. x - 1
  PROVE  k \in DOMAIN q /\ Bindings(q)[k] \in Seq(ColumnsTo(q, x - 1))
<1>1. k \in DOMAIN q /\ x \in Nat
  BY Places
<1>2. Bindings(q)[k] \in Seq(ColumnsTo(q, k))
  BY <1>1, BindingsTyped
<1>3. ColumnsTo(q, k) \subseteq ColumnsTo(q, x - 1)
  BY <1>1 DEF ColumnsTo
<1> QED
  BY <1>1, <1>2, <1>3

LEMMA CteColumnsLocal ==
  ASSUME NEW q, Ordered(q), NEW x \in DOMAIN q, NEW g, NEW h, SameBefore(q, x, g, h)
  PROVE  CteColumns(q, x, Bindings(q), g) = CteColumns(q, x, Bindings(q), h)
<1> DEFINE D == Definitions(q, x)
<1>1. CASE D = {}
  BY <1>1 DEF CteColumns
<1>2. CASE D # {}
  <2> DEFINE k == CHOOSE k \in D : TRUE
  <2>1. k \in D
    BY <1>2
  <2>2. k \in 1 .. x - 1
    BY <2>1 DEF Definitions
  <2> HIDE DEF k, D
  <2>3. TextsOf(Bindings(q)[k], g) = TextsOf(Bindings(q)[k], h)
    BY <2>2, OutputsBefore, TextsSame DEF SameBefore
  <2> QED
    BY <1>2, <2>3 DEF k, D, CteColumns
<1> QED
  BY <1>1, <1>2

LEMMA OwnTextsLocal ==
  ASSUME NEW q, Ordered(q), Bound(q), NEW x \in DOMAIN q, NEW ty, NEW g, NEW h, SameBefore(q, x, g, h)
  PROVE  OwnTexts(q, x, ty, Bindings(q), g) = OwnTexts(q, x, ty, Bindings(q), h)
<1> DEFINE B == Bindings(q)
           own == 1 .. Own(q, x, B)
           sides(t) == [k \in DOMAIN q[x].kids |-> TextsOf(B[q[x].kids[k]], t)]
<1>1. sides(g) = sides(h)
  <2>1. ASSUME NEW k \in DOMAIN q[x].kids PROVE TextsOf(B[q[x].kids[k]], g) = TextsOf(B[q[x].kids[k]], h)
    <3>1. q[x].kids[k] \in 1 .. x - 1
      BY Places
    <3> QED
      BY <3>1, OutputsBefore, TextsSame DEF SameBefore
  <2> QED
    BY <2>1
<1>2. CteColumns(q, x, B, g) = CteColumns(q, x, B, h)
  BY CteColumnsLocal
<1>3. ASSUME q[x].op \in Computing, NEW i \in own
      PROVE  Text(q[x].exprs[i], Beneath(q, x, B), g) = Text(q[x].exprs[i], Beneath(q, x, B), h)
  <2>1. i \in DOMAIN q[x].exprs
    BY <1>3 DEF Own, Computing, Ordered
  <2>2. IsExpression(q[x].exprs[i], Len(Beneath(q, x, B)))
    BY <2>1 DEF Bound
  <2>3. Beneath(q, x, B) \in Seq(ColumnsTo(q, x - 1))
    BY BeneathTyped
  <2>4. ASSUME NEW r \in RefsOf(q[x].exprs[i]) PROVE TextOf(Beneath(q, x, B)[r], g) = TextOf(Beneath(q, x, B)[r], h)
    <3>1. r \in 1 .. Len(Beneath(q, x, B))
      BY <2>2, RefsBound
    <3>2. Beneath(q, x, B)[r] \in ColumnsTo(q, x - 1)
      BY <2>3, <3>1
    <3> QED
      BY <3>2 DEF SameBefore
  <2> QED
    BY <2>2, <2>4, TextSame
<1>4. q[x].op \notin Computing \cup {"get", "cteref", "values", "recursive", "setop", "join"} => Own(q, x, B) = 0
  <2>1. q[x].op \notin Computing => q[x].exprs = <<>>
    BY DEF Ordered
  <2> QED
    BY <2>1 DEF Own, Computing
<1> HIDE DEF sides
<1>5. CASE q[x].op \in Computing
  <2>1. OwnTexts(q, x, ty, B, g) = [i \in own |-> Text(q[x].exprs[i], Beneath(q, x, B), g)]
    BY <1>5 DEF OwnTexts, Computing
  <2>2. OwnTexts(q, x, ty, B, h) = [i \in own |-> Text(q[x].exprs[i], Beneath(q, x, B), h)]
    BY <1>5 DEF OwnTexts, Computing
  <2> QED
    BY <1>3, <1>5, <2>1, <2>2
<1>6. CASE q[x].op \in {"get", "values", "join", "recursive"}
  BY <1>6 DEF OwnTexts
<1>7. CASE q[x].op = "setop"
  <2>1. \A t : OwnTexts(q, x, ty, B, t) = [i \in own |-> SidesText(q[x].of, i, sides(t))]
    BY <1>7 DEF OwnTexts, sides
  <2> QED
    BY <1>1, <2>1
<1>8. CASE q[x].op = "cteref"
  <2>1. \A t : OwnTexts(q, x, ty, B, t) = [i \in own |-> CteText(i, CteColumns(q, x, B, t))]
    BY <1>8 DEF OwnTexts
  <2> QED
    BY <1>2, <2>1
<1>9. CASE q[x].op \notin Computing \cup {"get", "cteref", "values", "recursive", "setop", "join"}
  <2>1. Own(q, x, B) = 0
    BY <1>4, <1>9
  <2>2. \A t : OwnTexts(q, x, ty, B, t) = [i \in 1 .. Own(q, x, B) |-> Text(q[x].exprs[i], Beneath(q, x, B), t)]
    BY <1>9 DEF OwnTexts
  <2>3. \A t : OwnTexts(q, x, ty, B, t) = [i \in {} |-> i]
    BY <2>1, <2>2
  <2> QED
    BY <2>3
<1> QED
  BY <1>5, <1>6, <1>7, <1>8, <1>9

\* The walk's texts so far, operator by operator.
Founds(q, ty, found) ==
  found = [n \in 0 .. Len(q) |->
             IF n = 0 THEN <<>>
             ELSE Append(found[n - 1], OwnTexts(q, n, ty, Bindings(q), found[n - 1]))]

LEMMA WalkFounds ==
  ASSUME NEW q, Ordered(q), NEW ty
  PROVE  \E found : Founds(q, ty, found) /\ Walk(q, ty) = found[Len(q)]
<1> DEFINE N == Len(q)
           NextText(n, prior) == Append(prior, OwnTexts(q, n, ty, Bindings(q), prior))
           Solves(g, m) == g = [n \in 0 .. m |-> IF n = 0 THEN <<>> ELSE NextText(n, g[n - 1])]
           Unsolved == {n \in 0 .. N : ~ \E g : Solves(g, n)}
<1>1. N \in Nat
  BY Places
<1> HIDE DEF NextText
<1>2. Unsolved = {}
  <2> SUFFICES ASSUME Unsolved # {} PROVE FALSE
    OBVIOUS
  <2>1. PICK n \in Unsolved : \A m \in Unsolved : n <= m
    <3>1. Unsolved \in SUBSET Nat
      BY <1>1
    <3> HIDE DEF Unsolved
    <3> QED
      BY <3>1, LeastNumber
  <2>2. n \in 0 .. N /\ ~ \E g : Solves(g, n)
    OBVIOUS
  <2>3. n # 0
    <3>1. Solves([m \in 0 .. 0 |-> <<>>], 0)
      OBVIOUS
    <3> QED
      BY <2>2, <3>1
  <2>4. PICK h : Solves(h, n - 1)
    <3>1. n - 1 \in 0 .. N /\ ~ n <= n - 1
      BY <1>1, <2>2, <2>3
    <3>2. n - 1 \notin Unsolved
      BY <2>1, <3>1
    <3> QED
      BY <3>1, <3>2
  <2> DEFINE g == [m \in 0 .. n |-> IF m = 0 THEN <<>> ELSE NextText(m, h[m - 1])]
  <2>5. ASSUME NEW m \in 1 .. n PROVE h[m - 1] = g[m - 1]
    <3>1. n \in Nat /\ m - 1 \in 0 .. n - 1 /\ m - 1 \in 0 .. n
      BY <1>1, <2>2
    <3>2. h[m - 1] = IF m - 1 = 0 THEN <<>> ELSE NextText(m - 1, h[m - 1 - 1])
      BY <2>4, <3>1
    <3>3. g[m - 1] = IF m - 1 = 0 THEN <<>> ELSE NextText(m - 1, h[m - 1 - 1])
      BY <3>1
    <3> QED
      BY <3>2, <3>3
  <2>6. \A m \in 0 .. n : (IF m = 0 THEN <<>> ELSE NextText(m, h[m - 1])) = (IF m = 0 THEN <<>> ELSE NextText(m, g[m - 1]))
    <3> TAKE m \in 0 .. n
    <3>1. m # 0 => m \in 1 .. n
      BY <1>1, <2>2
    <3> HIDE DEF g
    <3> QED
      BY <2>5, <3>1
  <2>7. Solves(g, n)
    BY <2>6
  <2> QED
    BY <2>2, <2>7
<1>3. \E g : g = [n \in 0 .. Len(q) |-> IF n = 0 THEN <<>> ELSE NextText(n, g[n - 1])]
  <2>1. \E g : Solves(g, N)
    BY <1>1, <1>2
  <2> QED
    BY <2>1
<1> DEFINE found == CHOOSE g : g = [n \in 0 .. Len(q) |-> IF n = 0 THEN <<>> ELSE NextText(n, g[n - 1])]
<1>4. Walk(q, ty) = found[Len(q)]
  BY DEF Walk, NextText
<1>5. found = [n \in 0 .. Len(q) |-> IF n = 0 THEN <<>> ELSE NextText(n, found[n - 1])]
  BY <1>3
<1>6. Founds(q, ty, found)
  BY <1>5 DEF Founds, NextText
<1> QED
  BY <1>4, <1>6

LEMMA AppendIs ==
  ASSUME NEW s, NEW n \in Nat, s = [i \in 1 .. n |-> s[i]], NEW e
  PROVE  Append(s, e) = [i \in 1 .. n + 1 |-> IF i <= n THEN s[i] ELSE e]
  OBVIOUS

\* What each operator binds, by what the walk found in the end.
LEMMA WalkBy ==
  ASSUME NEW q, Ordered(q), Bound(q), NEW ty
  PROVE  Walk(q, ty) = [x \in DOMAIN q |-> OwnTexts(q, x, ty, Bindings(q), Walk(q, ty))]
<1>1. PICK found : Founds(q, ty, found) /\ Walk(q, ty) = found[Len(q)]
  BY WalkFounds
<1> DEFINE N == Len(q)
           OwnOf(n) == OwnTexts(q, n, ty, Bindings(q), found[n - 1])
           Good(n) == found[n] = [x \in 1 .. n |-> OwnOf(x)]
           Bad == {n \in 0 .. N : ~ Good(n)}
<1>2. N \in Nat /\ DOMAIN q = 1 .. N
  BY Places
<1>3. found[0] = <<>> /\ \A n \in 1 .. N : found[n] = Append(found[n - 1], OwnOf(n))
  <2>1. found = [n \in 0 .. N |-> IF n = 0 THEN <<>> ELSE Append(found[n - 1], OwnOf(n))]
    BY <1>1 DEF Founds
  <2> HIDE DEF OwnOf
  <2>2. 0 \in 0 .. N /\ \A n \in 1 .. N : n \in 0 .. N /\ n # 0
    BY <1>2
  <2>3. found[0] = <<>>
    BY <2>1, <2>2
  <2>4. ASSUME NEW n \in 1 .. N PROVE found[n] = Append(found[n - 1], OwnOf(n))
    BY <2>1, <2>2
  <2> QED
    BY <2>3, <2>4
<1> HIDE DEF OwnOf
<1>4. Bad = {}
  <2> SUFFICES ASSUME Bad # {} PROVE FALSE
    OBVIOUS
  <2>1. PICK n \in Bad : \A m \in Bad : n <= m
    <3>1. Bad \in SUBSET Nat
      BY <1>2
    <3> HIDE DEF Bad
    <3> QED
      BY <3>1, LeastNumber
  <2>2. n \in 0 .. N /\ ~ Good(n)
    OBVIOUS
  <2>3. n # 0
    BY <1>3, <2>2
  <2>4. Good(n - 1)
    <3>1. n - 1 \in 0 .. N /\ ~ n <= n - 1
      BY <1>2, <2>2, <2>3
    <3> QED
      BY <2>1, <3>1
  <2>5. n - 1 \in Nat /\ n \in 1 .. N /\ n - 1 + 1 = n
    BY <1>2, <2>2, <2>3
  <2>6. found[n - 1] = [x \in 1 .. n - 1 |-> OwnOf(x)]
    BY <2>4
  <2>7. found[n - 1] = [x \in 1 .. n - 1 |-> found[n - 1][x]]
    BY <2>6
  <2>8. Append(found[n - 1], OwnOf(n)) = [x \in 1 .. n |-> IF x <= n - 1 THEN found[n - 1][x] ELSE OwnOf(n)]
    BY <2>5, <2>7, AppendIs
  <2>9. \A x \in 1 .. n : (IF x <= n - 1 THEN found[n - 1][x] ELSE OwnOf(n)) = OwnOf(x)
    BY <2>5, <2>6
  <2>10. Append(found[n - 1], OwnOf(n)) = [x \in 1 .. n |-> OwnOf(x)]
    BY <2>8, <2>9
  <2>11. found[n] = [x \in 1 .. n |-> OwnOf(x)]
    BY <1>3, <2>5, <2>10
  <2> QED
    BY <2>2, <2>11
<1>5. \A n \in 0 .. N : found[n] = [x \in 1 .. n |-> OwnOf(x)]
  BY <1>4
<1> DEFINE W == Walk(q, ty)
<1>6. W = [x \in 1 .. N |-> OwnOf(x)]
  BY <1>1, <1>2, <1>5
<1>7. ASSUME NEW x \in DOMAIN q PROVE OwnOf(x) = OwnTexts(q, x, ty, Bindings(q), W)
  <2>1. x \in 1 .. N /\ x - 1 \in 0 .. N /\ x \in Nat
    BY <1>2
  <2>2. found[x - 1] = [y \in 1 .. x - 1 |-> OwnOf(y)]
    BY <1>5, <2>1
  <2>3. SameBefore(q, x, found[x - 1], W)
    <3> SUFFICES ASSUME NEW b \in ColumnsTo(q, x - 1) PROVE TextOf(b, found[x - 1]) = TextOf(b, W)
      BY DEF SameBefore
    <3>1. b[1] \in 1 .. x - 1
      BY DEF ColumnsTo
    <3>2. b[1] \in 1 .. N
      BY <1>2, <2>1, <3>1
    <3>3. found[x - 1][b[1]] = W[b[1]] /\ b[1] \in DOMAIN found[x - 1] /\ b[1] \in DOMAIN W
      BY <1>6, <2>2, <3>1, <3>2
    <3> HIDE DEF W
    <3> QED
      BY <3>3 DEF TextOf
  <2> HIDE DEF W
  <2>4. OwnTexts(q, x, ty, Bindings(q), found[x - 1]) = OwnTexts(q, x, ty, Bindings(q), W)
    BY <2>3, OwnTextsLocal
  <2> QED
    BY <2>4 DEF OwnOf
<1>8. W = [x \in DOMAIN q |-> OwnOf(x)]
  BY <1>2, <1>6
<1> HIDE DEF W
<1>9. W = [x \in DOMAIN q |-> OwnTexts(q, x, ty, Bindings(q), W)]
  BY <1>7, <1>8
<1> QED
  BY <1>9 DEF W

-----------------------------------------------------------------------------
(* What a column is computed from.                                         *)

\* A name stands for one definition.
LEMMA DefinitionsOne ==
  ASSUME NEW q, Ordered(q), Named(q), NEW x \in DOMAIN q
  PROVE  /\ Definitions(q, x) \subseteq 1 .. x - 1
         /\ \A k, l \in Definitions(q, x) : k = l
  BY DEF Definitions, Named

\* Of what a set operation or a reference reads, and of what an expression does.
LEMMA ReadIs ==
  ASSUME NEW q, Ordered(q), NEW x \in DOMAIN q, NEW i \in 1 .. Own(q, x, Bindings(q))
  PROVE  /\ q[x].op = "setop" =>
              /\ \A c \in Read(q, x, i, Bindings(q)) : \E s \in DOMAIN q[x].kids :
                   i \in DOMAIN Bindings(q)[q[x].kids[s]] /\ c = Bindings(q)[q[x].kids[s]][i]
              /\ \A s \in DOMAIN q[x].kids : i \in DOMAIN Bindings(q)[q[x].kids[s]] =>
                   Bindings(q)[q[x].kids[s]][i] \in Read(q, x, i, Bindings(q))
         /\ q[x].op = "cteref" =>
              /\ \A c \in Read(q, x, i, Bindings(q)) : \E k \in Definitions(q, x) :
                   i \in DOMAIN Bindings(q)[k] /\ c = Bindings(q)[k][i]
              /\ \A k \in Definitions(q, x) : i \in DOMAIN Bindings(q)[k] =>
                   Bindings(q)[k][i] \in Read(q, x, i, Bindings(q))
         /\ q[x].op \in Computing =>
              /\ i \in DOMAIN q[x].exprs
              /\ Read(q, x, i, Bindings(q)) = {Beneath(q, x, Bindings(q))[r] : r \in RefsOf(q[x].exprs[i])}
         /\ q[x].op \notin Computing \cup {"setop", "cteref"} => Read(q, x, i, Bindings(q)) = {}
         /\ q[x].op \in Computing \cup {"get", "setop", "cteref", "values", "join", "recursive"}
<1> DEFINE B == Bindings(q)
<1>1. q[x].op \notin Computing => q[x].exprs = <<>>
  BY DEF Ordered
<1>2. q[x].op \in Computing => i \in DOMAIN q[x].exprs /\ q[x].exprs # <<>>
  BY DEF Own, Computing, Ordered
<1>3. q[x].op \in {"setop", "cteref"} => q[x].exprs = <<>>
  BY <1>1 DEF Computing
<1> HIDE DEF B
<1>4. CASE q[x].op = "setop"
  <2> DEFINE kids == {y \in {q[x].kids[s] : s \in DOMAIN q[x].kids} : i \in DOMAIN B[y]}
  <2>1. \A c : c \in Read(q, x, i, B) <=> \E k \in kids : c = B[k][i]
    BY <1>4, <1>3 DEF Read
  <2>2. \A k \in kids : \E s \in DOMAIN q[x].kids : k = q[x].kids[s] /\ i \in DOMAIN B[q[x].kids[s]]
    OBVIOUS
  <2>3. \A s \in DOMAIN q[x].kids : i \in DOMAIN B[q[x].kids[s]] => q[x].kids[s] \in kids
    OBVIOUS
  <2> HIDE DEF kids
  <2>4. \A c \in Read(q, x, i, B) : \E s \in DOMAIN q[x].kids : i \in DOMAIN B[q[x].kids[s]] /\ c = B[q[x].kids[s]][i]
    BY <2>1, <2>2
  <2>5. \A s \in DOMAIN q[x].kids : i \in DOMAIN B[q[x].kids[s]] => B[q[x].kids[s]][i] \in Read(q, x, i, B)
    BY <2>1, <2>3
  <2> QED
    BY <1>4, <2>4, <2>5 DEF Computing, B
<1>5. CASE q[x].op = "cteref"
  <2> DEFINE defs == {y \in Definitions(q, x) : i \in DOMAIN B[y]}
  <2>1. \A c : c \in Read(q, x, i, B) <=> \E k \in defs : c = B[k][i]
    BY <1>5, <1>3 DEF Read
  <2>2. \A k : k \in defs <=> k \in Definitions(q, x) /\ i \in DOMAIN B[k]
    OBVIOUS
  <2> HIDE DEF defs
  <2>3. \A c \in Read(q, x, i, B) : \E k \in Definitions(q, x) : i \in DOMAIN B[k] /\ c = B[k][i]
    BY <2>1, <2>2
  <2>4. \A k \in Definitions(q, x) : i \in DOMAIN B[k] => B[k][i] \in Read(q, x, i, B)
    BY <2>1, <2>2
  <2> QED
    BY <1>5, <2>3, <2>4 DEF Computing, B
<1> USE DEF B
<1>6. CASE q[x].op \in Computing
  <2>1. q[x].op \notin {"setop", "cteref"}
    BY <1>6 DEF Computing
  <2> QED
    BY <1>2, <1>6, <2>1 DEF Read
<1>7. CASE q[x].op \notin Computing \cup {"setop", "cteref"}
  <2>1. Read(q, x, i, B) = {}
    BY <1>1, <1>7 DEF Read
  <2>2. q[x].op \in {"get", "values", "join", "recursive"}
    <3>1. Len(q[x].exprs) = 0
      BY <1>1, <1>7
    <3>2. q[x].op \in {"cte", "pass", "unfollowed"} => Own(q, x, B) = 0
      BY <3>1 DEF Own
    <3>3. q[x].op \in Ops
      BY DEF Ordered
    <3> QED
      BY <1>7, <3>2, <3>3 DEF Ops
  <2> QED
    BY <1>7, <2>1, <2>2 DEF Computing
<1> QED
  BY <1>4, <1>5, <1>6, <1>7

\* What a column is computed from was made before it.
LEMMA ReadBefore ==
  ASSUME NEW q, Ordered(q), Bound(q), NEW x \in DOMAIN q, NEW i \in 1 .. Own(q, x, Bindings(q))
  PROVE  Read(q, x, i, Bindings(q)) \subseteq ColumnsTo(q, x - 1)
<1> DEFINE B == Bindings(q)
<1> SUFFICES ASSUME NEW c \in Read(q, x, i, B) PROVE c \in ColumnsTo(q, x - 1)
  OBVIOUS
<1>1. CASE q[x].op = "setop"
  <2>1. PICK s \in DOMAIN q[x].kids : i \in DOMAIN B[q[x].kids[s]] /\ c = B[q[x].kids[s]][i]
    BY <1>1, ReadIs
  <2>2. q[x].kids[s] \in 1 .. x - 1
    BY Places
  <2> QED
    BY <2>1, <2>2, OutputsBefore
<1>2. CASE q[x].op = "cteref"
  <2>1. PICK k \in Definitions(q, x) : i \in DOMAIN B[k] /\ c = B[k][i]
    BY <1>2, ReadIs
  <2>2. k \in 1 .. x - 1
    BY DEF Definitions
  <2> QED
    BY <2>1, <2>2, OutputsBefore
<1>3. CASE q[x].op \in Computing
  <2>1. i \in DOMAIN q[x].exprs /\ Read(q, x, i, B) = {Beneath(q, x, B)[r] : r \in RefsOf(q[x].exprs[i])}
    BY <1>3, ReadIs
  <2>2. PICK r \in RefsOf(q[x].exprs[i]) : c = Beneath(q, x, B)[r]
    BY <2>1
  <2>3. r \in 1 .. Len(Beneath(q, x, B))
    BY <2>1, RefsBound DEF Bound
  <2> QED
    BY <2>2, <2>3, BeneathTyped
<1>4. CASE q[x].op \notin Computing \cup {"setop", "cteref"}
  BY <1>4, ReadIs
<1> QED
  BY <1>1, <1>2, <1>3, <1>4

LEMMA DerivedLocal ==
  ASSUME NEW q, Ordered(q), Bound(q), NEW x \in DOMAIN q, NEW g, NEW h, \A y \in 1 .. x - 1 : g[y] = h[y]
  PROVE  DerivedBy(q, x, Bindings(q), g) = DerivedBy(q, x, Bindings(q), h)
<1> DEFINE B == Bindings(q)
<1>1. ASSUME NEW i \in 1 .. Own(q, x, B)
      PROVE  UNION {g[b[1]][b[2]] : b \in Read(q, x, i, B)} = UNION {h[b[1]][b[2]] : b \in Read(q, x, i, B)}
  <2>1. ASSUME NEW b \in Read(q, x, i, B) PROVE g[b[1]] = h[b[1]]
    <3>1. b \in ColumnsTo(q, x - 1)
      BY ReadBefore
    <3> QED
      BY <3>1 DEF ColumnsTo
  <2>2. {g[b[1]][b[2]] : b \in Read(q, x, i, B)} = {h[b[1]][b[2]] : b \in Read(q, x, i, B)}
    BY <2>1
  <2> QED
    BY <2>2
<1> QED
  BY <1>1 DEF DerivedBy

\* The columns each is derived from.
Derivations(q, from) == from = [x \in DOMAIN q |-> DerivedBy(q, x, Bindings(q), from)]

LEMMA DerivationsBy ==
  ASSUME NEW q, Ordered(q), Bound(q)
  PROVE  \E from : /\ Derivations(q, from)
                   /\ \A i : LET b == Bindings(q)[Len(q)][i] IN DerivedFrom(q, i) = from[b[1]][b[2]]
<1> DEFINE N == Len(q)
           Solves(g, n) == g = [x \in 1 .. n |-> DerivedBy(q, x, Bindings(q), g)]
           Unsolved == {n \in 0 .. N : ~ \E g : Solves(g, n)}
<1>1. N \in Nat /\ DOMAIN q = 1 .. N
  BY Places
<1>2. Unsolved = {}
  <2> SUFFICES ASSUME Unsolved # {} PROVE FALSE
    OBVIOUS
  <2>1. PICK n \in Unsolved : \A m \in Unsolved : n <= m
    <3>1. Unsolved \in SUBSET Nat
      BY <1>1
    <3> HIDE DEF Unsolved
    <3> QED
      BY <3>1, LeastNumber
  <2>2. n \in 0 .. N /\ ~ \E g : Solves(g, n)
    OBVIOUS
  <2>3. n # 0
    <3>1. Solves([x \in 1 .. 0 |-> x], 0)
      OBVIOUS
    <3> QED
      BY <2>2, <3>1
  <2>4. PICK h : Solves(h, n - 1)
    <3>1. n - 1 \in 0 .. N /\ ~ n <= n - 1
      BY <1>1, <2>2, <2>3
    <3>2. n - 1 \notin Unsolved
      BY <2>1, <3>1
    <3> QED
      BY <3>1, <3>2
  <2> DEFINE g == [x \in 1 .. n |-> DerivedBy(q, x, Bindings(q), h)]
  <2>5. ASSUME NEW x \in 1 .. n PROVE DerivedBy(q, x, Bindings(q), h) = DerivedBy(q, x, Bindings(q), g)
    <3>1. x \in DOMAIN q /\ \A y \in 1 .. x - 1 : y \in 1 .. n - 1 /\ y \in 1 .. n
      BY <1>1, <2>2
    <3>2. \A y \in 1 .. x - 1 : h[y] = g[y]
      BY <2>4, <3>1
    <3> HIDE DEF g
    <3> QED
      BY <3>1, <3>2, DerivedLocal
  <2>6. Solves(g, n)
    BY <2>5
  <2> QED
    BY <2>2, <2>6
<1>3. \E g : g = [x \in DOMAIN q |-> DerivedBy(q, x, Bindings(q), g)]
  <2>1. \E g : Solves(g, N)
    BY <1>1, <1>2
  <2> QED
    BY <1>1, <2>1
<1> DEFINE from == CHOOSE g : g = [x \in DOMAIN q |-> DerivedBy(q, x, Bindings(q), g)]
<1>4. \A i : LET b == Bindings(q)[Len(q)][i] IN DerivedFrom(q, i) = from[b[1]][b[2]]
  BY DEF DerivedFrom
<1>5. from = [x \in DOMAIN q |-> DerivedBy(q, x, Bindings(q), from)]
  BY <1>3
<1> QED
  BY <1>4, <1>5 DEF Derivations

-----------------------------------------------------------------------------
(* A column's text, by the operator that makes it.                         *)

\* The texts a walk over q found.
Walked(q, ty, f) == f = [x \in DOMAIN q |-> OwnTexts(q, x, ty, Bindings(q), f)]

Sides(q, x, f) == [k \in DOMAIN q[x].kids |-> TextsOf(Bindings(q)[q[x].kids[k]], f)]

LEMMA ColumnText ==
  ASSUME NEW q, Ordered(q), NEW ty, NEW f, Walked(q, ty, f),
         NEW x \in DOMAIN q, NEW i \in 1 .. Own(q, x, Bindings(q))
  PROVE  /\ q[x].op = "get" => TextOf(<<x, i>>, f) = Leaf(ty, q[x].of, i)
         /\ q[x].op = "setop" => TextOf(<<x, i>>, f) = SidesText(q[x].of, i, Sides(q, x, f))
         /\ q[x].op = "cteref" => TextOf(<<x, i>>, f) = CteText(i, CteColumns(q, x, Bindings(q), f))
         /\ q[x].op = "values" => TextOf(<<x, i>>, f) = Over(<<"values">>, <<>>)
         /\ q[x].op = "join" => TextOf(<<x, i>>, f) = Over(<<"mark">>, <<>>)
         /\ q[x].op = "recursive" => TextOf(<<x, i>>, f) = Unknown
         /\ q[x].op \in Computing => TextOf(<<x, i>>, f) = Text(q[x].exprs[i], Beneath(q, x, Bindings(q)), f)
<1> DEFINE B == Bindings(q)
           own == 1 .. Own(q, x, B)
<1>1. x \in DOMAIN f /\ f[x] = OwnTexts(q, x, ty, B, f)
  BY DEF Walked
<1>2. ASSUME NEW t, f[x] = t, DOMAIN t = own PROVE TextOf(<<x, i>>, f) = t[i]
  <2>1. <<x, i>>[1] = x /\ <<x, i>>[2] = i
    OBVIOUS
  <2> QED
    BY <1>1, <1>2, <2>1 DEF TextOf
<1> HIDE DEF own
<1>3. i \in own
  BY DEF own
<1>4. CASE q[x].op = "get"
  <2>1. f[x] = [j \in own |-> Leaf(ty, q[x].of, j)]
    BY <1>1, <1>4 DEF OwnTexts, own
  <2>2. TextOf(<<x, i>>, f) = [j \in own |-> Leaf(ty, q[x].of, j)][i]
    BY <1>2, <2>1
  <2> QED
    BY <1>3, <1>4, <2>2 DEF Computing
<1>5. CASE q[x].op = "setop"
  <2>1. f[x] = [j \in own |-> SidesText(q[x].of, j, Sides(q, x, f))]
    BY <1>1, <1>5 DEF OwnTexts, own, Sides
  <2>2. TextOf(<<x, i>>, f) = [j \in own |-> SidesText(q[x].of, j, Sides(q, x, f))][i]
    BY <1>2, <2>1
  <2> QED
    BY <1>3, <1>5, <2>2 DEF Computing
<1>6. CASE q[x].op = "cteref"
  <2>1. f[x] = [j \in own |-> CteText(j, CteColumns(q, x, B, f))]
    BY <1>1, <1>6 DEF OwnTexts, own
  <2>2. TextOf(<<x, i>>, f) = [j \in own |-> CteText(j, CteColumns(q, x, B, f))][i]
    BY <1>2, <2>1
  <2> QED
    BY <1>3, <1>6, <2>2 DEF Computing
<1>7. CASE q[x].op = "values"
  <2>1. f[x] = [j \in own |-> Over(<<"values">>, <<>>)]
    BY <1>1, <1>7 DEF OwnTexts, own
  <2>2. TextOf(<<x, i>>, f) = [j \in own |-> Over(<<"values">>, <<>>)][i]
    BY <1>2, <2>1
  <2> QED
    BY <1>3, <1>7, <2>2 DEF Computing
<1>8. CASE q[x].op = "join"
  <2>1. f[x] = [j \in own |-> Over(<<"mark">>, <<>>)]
    BY <1>1, <1>8 DEF OwnTexts, own
  <2>2. TextOf(<<x, i>>, f) = [j \in own |-> Over(<<"mark">>, <<>>)][i]
    BY <1>2, <2>1
  <2> QED
    BY <1>3, <1>8, <2>2 DEF Computing
<1>9. CASE q[x].op = "recursive"
  <2>1. f[x] = <<>>
    BY <1>1, <1>9 DEF OwnTexts
  <2>2. i \notin DOMAIN f[x] /\ <<x, i>>[1] = x /\ <<x, i>>[2] = i
    BY <2>1
  <2>3. TextOf(<<x, i>>, f) = Unknown
    BY <2>2 DEF TextOf
  <2> QED
    BY <1>9, <2>3 DEF Computing
<1>10. CASE q[x].op \in Computing
  <2>1. f[x] = [j \in own |-> Text(q[x].exprs[j], Beneath(q, x, B), f)]
    BY <1>1, <1>10 DEF OwnTexts, Computing, own
  <2>2. TextOf(<<x, i>>, f) = [j \in own |-> Text(q[x].exprs[j], Beneath(q, x, B), f)][i]
    BY <1>2, <2>1
  <2> QED
    BY <1>3, <1>10, <2>2 DEF Computing
<1> QED
  BY <1>4, <1>5, <1>6, <1>7, <1>8, <1>9, <1>10

\* What a reference reads of its definition.
LEMMA CteRead ==
  ASSUME NEW q, Ordered(q), Named(q), NEW x \in DOMAIN q, NEW f
  PROVE  /\ Definitions(q, x) = {} => CteColumns(q, x, Bindings(q), f) = <<>>
         /\ \A k \in Definitions(q, x) : CteColumns(q, x, Bindings(q), f) = TextsOf(Bindings(q)[k], f)
<1>1. CASE Definitions(q, x) = {}
  BY <1>1 DEF CteColumns
<1>2. CASE Definitions(q, x) # {}
  <2> DEFINE l == CHOOSE k \in Definitions(q, x) : TRUE
  <2>1. l \in Definitions(q, x)
    BY <1>2
  <2>2. CteColumns(q, x, Bindings(q), f) = TextsOf(Bindings(q)[l], f)
    BY <1>2 DEF CteColumns
  <2> HIDE DEF l
  <2>3. \A k \in Definitions(q, x) : k = l
    BY <2>1, DefinitionsOne
  <2> QED
    BY <1>2, <2>2, <2>3
<1> QED
  BY <1>1, <1>2

LEMMA TextsOfIs ==
  ASSUME NEW bindings, NEW f
  PROVE  /\ DOMAIN TextsOf(bindings, f) = DOMAIN bindings
         /\ \A i \in DOMAIN bindings : TextsOf(bindings, f)[i] = TextOf(bindings[i], f)
  BY DEF TextsOf

\* The texts of the columns read of a column whose text is known.
LEMMA ColumnKnown ==
  ASSUME NEW q, IsPlan(q), NEW ty, NEW f, Walked(q, ty, f),
         NEW x \in DOMAIN q, NEW i \in 1 .. Own(q, x, Bindings(q)), TextOf(<<x, i>>, f).known,
         NEW c \in Read(q, x, i, Bindings(q))
  PROVE  TextOf(c, f).known
<1> DEFINE B == Bindings(q)
<1>1. Ordered(q) /\ Bound(q) /\ Named(q)
  BY DEF IsPlan
<1>2. CASE q[x].op = "setop"
  <2>1. PICK s \in DOMAIN q[x].kids : i \in DOMAIN B[q[x].kids[s]] /\ c = B[q[x].kids[s]][i]
    BY <1>1, <1>2, ReadIs
  <2> DEFINE args == [k \in DOMAIN Sides(q, x, f) |-> IF i \in DOMAIN Sides(q, x, f)[k] THEN Sides(q, x, f)[k][i] ELSE Unknown]
  <2>2. TextOf(<<x, i>>, f) = Over(<<q[x].of>>, args)
    BY <1>1, <1>2, ColumnText DEF SidesText
  <2>3. s \in DOMAIN args /\ args[s] = TextOf(c, f)
    <3>1. Sides(q, x, f)[s] = TextsOf(B[q[x].kids[s]], f) /\ s \in DOMAIN Sides(q, x, f)
      BY DEF Sides
    <3> QED
      BY <2>1, <3>1, TextsOfIs
  <2> HIDE DEF args
  <2> QED
    BY <2>2, <2>3, OverTells
<1>3. CASE q[x].op = "cteref"
  <2>1. PICK k \in Definitions(q, x) : i \in DOMAIN B[k] /\ c = B[k][i]
    BY <1>1, <1>3, ReadIs
  <2>2. CteColumns(q, x, B, f) = TextsOf(B[k], f)
    BY <1>1, CteRead
  <2>3. TextOf(<<x, i>>, f) = TextOf(c, f)
    BY <1>1, <1>3, <2>1, <2>2, ColumnText, TextsOfIs DEF CteText
  <2> QED
    BY <2>3
<1>4. CASE q[x].op \in Computing
  <2> DEFINE e == q[x].exprs[i]
             under == Beneath(q, x, B)
  <2>1. i \in DOMAIN q[x].exprs /\ Read(q, x, i, B) = {under[r] : r \in RefsOf(e)}
    BY <1>1, <1>4, ReadIs
  <2>2. PICK r \in RefsOf(e) : c = under[r]
    BY <2>1
  <2>3. IsExpression(e, Len(under))
    BY <1>1, <2>1 DEF Bound
  <2>4. TextOf(<<x, i>>, f) = Text(e, under, f)
    BY <1>1, <1>4, ColumnText
  <2> HIDE DEF e, under
  <2>5. PICK node : NodeTexts(e, under, f, node) /\ Text(e, under, f) = node[Len(e)]
    BY <2>3, TextBy
  <2>6. TextOf(under[r], f).known
    BY <2>3, <2>4, <2>5, TextKnown
  <2> QED
    BY <2>2, <2>6
<1>5. CASE q[x].op \notin Computing \cup {"setop", "cteref"}
  BY <1>1, <1>5, ReadIs
<1> QED
  BY <1>2, <1>3, <1>4, <1>5

-----------------------------------------------------------------------------
(* What no text tells apart.                                               *)

\* Two expressions the same up to a node, and the texts of the columns one reads.
SameTo(e, d, k) == k \in Nat /\ k <= Len(e) /\ k <= Len(d) /\ \A n \in 1 .. k : e[n] = d[n]
SameRead(e, b, text1, text2) == \A r \in RefsOf(e) : TextOf(b[r], text1) = TextOf(b[r], text2)

\* Where two expressions are the same up to a node, so are the texts.
LEMMA SameNodes ==
  ASSUME NEW e, NEW d, NEW a, IsExpression(e, a), IsExpression(d, a), NEW k, SameTo(e, d, k),
         NEW b, NEW text1, NEW text2, SameRead(e, b, text1, text2),
         NEW f, NEW g, NodeTexts(e, b, text1, f), NodeTexts(d, b, text2, g)
  PROVE  \A n \in 1 .. k : f[n] = g[n]
<1> DEFINE Bad == {n \in 1 .. k : f[n] # g[n]}
<1> SUFFICES ASSUME Bad # {} PROVE FALSE
  OBVIOUS
<1>1. PICK n \in Bad : \A m \in Bad : n <= m
  <2>1. Bad \in SUBSET Nat
    BY DEF SameTo
  <2> HIDE DEF Bad
  <2> QED
    BY <2>1, LeastNumber
<1>2. n \in 1 .. k /\ f[n] # g[n] /\ n \in DOMAIN e /\ n \in DOMAIN d
  BY Nodes DEF SameTo
<1>3. \A m \in 1 .. n - 1 : f[m] = g[m]
  <2> TAKE m \in 1 .. n - 1
  <2>1. m \in 1 .. k /\ ~ n <= m
    BY <1>2 DEF SameTo
  <2> QED
    BY <1>1, <2>1
<1>4. f[n] = NodeText(e, n, b, text1, f) /\ g[n] = NodeText(d, n, b, text2, g)
  BY <1>2 DEF NodeTexts
<1>5. NodeText(e, n, b, text1, f) = NodeText(e, n, b, text1, g)
  BY <1>2, <1>3, NodeLocal
<1>6. NodeText(e, n, b, text1, g) = NodeText(d, n, b, text2, g)
  <2>1. e[n].class = "ref" => e[n].word \in RefsOf(e)
    BY <1>2, RefsBound
  <2>2. e[n] = d[n]
    BY <1>2 DEF SameTo
  <2> QED
    BY <2>1, <2>2 DEF NodeText, SameRead
<1> QED
  BY <1>2, <1>4, <1>5, <1>6

\* A node that is neither a leaf nor a subquery has its head over its arguments' texts.
LEMMA InnerText ==
  ASSUME NEW e, NEW a, IsExpression(e, a), NEW b, NEW texts, NEW f, NodeTexts(e, b, texts, f),
         NEW n \in DOMAIN e, e[n].class \notin {"ref", "constant", "subquery"}
  PROVE  f[n] = Over(HeadOf(e[n]), [i \in DOMAIN e[n].args |-> f[e[n].args[i]]])
  BY DEF NodeTexts, NodeText

\* An expression and another of its text: the same, or under a top of the same head
\* over the same arguments.
Inner(v) == v.class \notin {"ref", "constant", "subquery"}
SameSaid(e, d) ==
  \/ d = e
  \/ /\ Len(d) = Len(e) /\ SameTo(e, d, Len(e) - 1)
     /\ d[Len(e)].args = e[Len(e)].args /\ Inner(e[Len(e)]) /\ Inner(d[Len(e)])
     /\ HeadOf(d[Len(e)]) = HeadOf(e[Len(e)])

LEMMA SaidAlike ==
  ASSUME NEW e, NEW d, NEW a, IsExpression(e, a), IsExpression(d, a), SameSaid(e, d), NEW b, NEW texts
  PROVE  Text(d, b, texts) = Text(e, b, texts)
<1> DEFINE N == Len(e)
<1>1. CASE d = e
  BY <1>1
<1>2. CASE d # e
  <2>1. /\ Len(d) = N /\ SameTo(e, d, N - 1) /\ d[N].args = e[N].args /\ Inner(e[N]) /\ Inner(d[N])
        /\ HeadOf(d[N]) = HeadOf(e[N])
    BY <1>2 DEF SameSaid
  <2>2. /\ N \in Nat \ {0} /\ N \in DOMAIN e /\ N \in DOMAIN d
        /\ \A i \in DOMAIN e[N].args : e[N].args[i] \in 1 .. N - 1
    <3>1. N \in Nat \ {0} /\ DOMAIN e = 1 .. N /\ DOMAIN d = 1 .. Len(d)
      BY Nodes
    <3>2. N \in DOMAIN e /\ N \in DOMAIN d
      BY <2>1, <3>1
    <3> QED
      BY <3>1, <3>2, Nodes
  <2>3. PICK f : NodeTexts(e, b, texts, f) /\ Text(e, b, texts) = f[N]
    BY TextBy
  <2>4. PICK g : NodeTexts(d, b, texts, g) /\ Text(d, b, texts) = g[N]
    BY <2>1, TextBy
  <2>5. \A n \in 1 .. N - 1 : f[n] = g[n]
    <3>1. SameRead(e, b, texts, texts)
      BY DEF SameRead
    <3> QED
      BY <2>1, <2>3, <2>4, <3>1, SameNodes
  <2>6. f[N] = Over(HeadOf(e[N]), [i \in DOMAIN e[N].args |-> f[e[N].args[i]]])
    BY <2>1, <2>2, <2>3, InnerText DEF Inner
  <2>7. g[N] = Over(HeadOf(d[N]), [i \in DOMAIN d[N].args |-> g[d[N].args[i]]])
    BY <2>1, <2>2, <2>4, InnerText DEF Inner
  <2>8. [i \in DOMAIN d[N].args |-> g[d[N].args[i]]] = [i \in DOMAIN e[N].args |-> f[e[N].args[i]]]
    BY <2>1, <2>2, <2>5
  <2> QED
    BY <2>1, <2>3, <2>4, <2>6, <2>7, <2>8
<1> QED
  BY <1>1, <1>2

\* Heads that are the same are of the same word, or of two that no text tells apart.
LEMMA HeadsTell ==
  ASSUME NEW v, NEW w, v.class \in Classes, w.class \in Classes, Inner(v), Inner(w), HeadOf(v) = HeadOf(w)
  PROVE  Unsaid(v, w) \/ (v.class = w.class /\ v.word = w.word)
<1> DEFINE Fused == {"conjunction", "operator", "case", "unnest"}
           Name == {"function", "aggregate"}
           Framed == {"window", "framed"}
           Kind(u, k, head) == u.class \in k /\ HeadOf(u) = head
           Told(u) == \/ Kind(u, Name, <<"name", u.word>>) \/ Kind(u, {"distinct"}, <<"distinct", u.word>>)
                      \/ Kind(u, {"cast"}, <<"cast", u.word>>) \/ Kind(u, Framed, <<"over", u.word>>)
                      \/ Kind(u, Fused, <<"unnest">>) \/ Kind(u, {"lambda"}, <<"lambda">>)
<1>1. ASSUME NEW u, u.class \in Classes, Inner(u) PROVE Told(u)
  BY <1>1 DEF Classes, Inner, HeadOf
<1>2. Told(v) /\ Told(w)
  BY <1>1
<1>3. \A x, y : <<x, y>>[1] = x /\ <<x, y>>[2] = y /\ <<x>> # <<x, y>>
  <2> TAKE x, y
  <2>1. 2 \in DOMAIN <<x, y>> /\ 2 \notin DOMAIN <<x>>
    OBVIOUS
  <2> QED
    BY <2>1
<1>4. \/ v.class \in Name /\ w.class \in Name /\ v.word = w.word
      \/ v.class \in Framed /\ w.class \in Framed /\ v.word = w.word
      \/ v.class = w.class /\ v.word = w.word
      \/ v.class \in Fused /\ w.class \in Fused
      \/ v.class = "lambda" /\ w.class = "lambda"
  BY <1>2, <1>3
<1> QED
  BY <1>4 DEF Unsaid

LEMMA UnsaidHeads ==
  ASSUME NEW v, NEW w, Unsaid(v, w)
  PROVE  Inner(v) /\ Inner(w) /\ HeadOf(v) = HeadOf(w)
<1>1. CASE {v.class, w.class} \subseteq {"conjunction", "operator", "case", "unnest"}
  BY <1>1 DEF Inner, HeadOf
<1>2. CASE v.class = "lambda" /\ w.class = "lambda"
  BY <1>2 DEF Inner, HeadOf
<1>3. CASE v.word = w.word /\ {v.class, w.class} \subseteq {"function", "aggregate"}
  BY <1>3 DEF Inner, HeadOf
<1>4. CASE v.word = w.word /\ {v.class, w.class} \subseteq {"window", "framed"}
  BY <1>4 DEF Inner, HeadOf
<1> QED
  BY <1>1, <1>2, <1>3, <1>4 DEF Unsaid

-----------------------------------------------------------------------------
(* Two landings of plans alike: which columns' texts moved.                *)

\* p is q but for the expressions of the columns of S, which read the same columns,
\* and for those of the others that no text tells.
AlikeBut(q, p, S) ==
  /\ Len(p) = Len(q)
  /\ \A x \in DOMAIN q :
       /\ p[x].op = q[x].op /\ p[x].of = q[x].of /\ p[x].kids = q[x].kids /\ p[x].width = q[x].width
       /\ Len(p[x].exprs) = Len(q[x].exprs)
       /\ \A i \in DOMAIN q[x].exprs :
            /\ RefsOf(p[x].exprs[i]) = RefsOf(q[x].exprs[i])
            /\ <<x, i>> \notin S => SameSaid(q[x].exprs[i], p[x].exprs[i])

LEMMA AlikeOutputs ==
  ASSUME NEW q, NEW p, NEW S, Ordered(q), Ordered(p), AlikeBut(q, p, S)
  PROVE  /\ DOMAIN p = DOMAIN q
         /\ Bindings(p) = Bindings(q)
         /\ \A x \in DOMAIN q : \A out :
              /\ Own(p, x, out) = Own(q, x, out) /\ Beneath(p, x, out) = Beneath(q, x, out)
              /\ Definitions(p, x) = Definitions(q, x)
              /\ \A i \in 1 .. Own(q, x, out) : Read(p, x, i, out) = Read(q, x, i, out)
<1>1. DOMAIN p = DOMAIN q
  BY Places DEF AlikeBut
<1>2. ASSUME NEW x \in DOMAIN q, NEW out
      PROVE  /\ Own(p, x, out) = Own(q, x, out) /\ Beneath(p, x, out) = Beneath(q, x, out)
             /\ OutputsBy(p, x, out) = OutputsBy(q, x, out)
  <2>1. Own(p, x, out) = Own(q, x, out)
    BY DEF Own, AlikeBut
  <2>2. Beneath(p, x, out) = Beneath(q, x, out)
    BY DEF Beneath, AlikeBut
  <2>3. Passed(p[x]) = Passed(q[x]) /\ p[x].kids = q[x].kids
    BY DEF Passed, AlikeBut
  <2> QED
    BY <2>1, <2>2, <2>3 DEF OutputsBy
<1>3. ASSUME NEW x \in DOMAIN q PROVE Definitions(p, x) = Definitions(q, x)
  BY <1>1 DEF Definitions, AlikeBut
<1>4. ASSUME NEW x \in DOMAIN q, NEW out, NEW i \in 1 .. Own(q, x, out) PROVE Read(p, x, i, out) = Read(q, x, i, out)
  <2>1. p[x].op = q[x].op /\ p[x].kids = q[x].kids /\ Len(p[x].exprs) = Len(q[x].exprs)
    BY DEF AlikeBut
  <2>2. /\ Len(p[x].exprs) \in Nat /\ p[x].exprs = [j \in 1 .. Len(p[x].exprs) |-> p[x].exprs[j]]
        /\ Len(q[x].exprs) \in Nat /\ q[x].exprs = [j \in 1 .. Len(q[x].exprs) |-> q[x].exprs[j]]
    BY <1>1 DEF Ordered
  <2>3. p[x].exprs = <<>> <=> q[x].exprs = <<>>
    BY <2>1, <2>2
  <2>4. q[x].op \in {"setop", "cteref"} => q[x].exprs = <<>>
    BY DEF Ordered, Computing
  <2>5. q[x].exprs # <<>> => i \in DOMAIN q[x].exprs
    <3>1. q[x].exprs # <<>> => q[x].op \in Computing
      BY DEF Ordered
    <3> QED
      BY <2>2, <3>1 DEF Own, Computing
  <2>6. q[x].exprs # <<>> => RefsOf(p[x].exprs[i]) = RefsOf(q[x].exprs[i])
    BY <2>5 DEF AlikeBut
  <2>7. CASE q[x].op = "setop"
    BY <2>1, <2>3, <2>4, <2>7 DEF Read
  <2>8. CASE q[x].op = "cteref"
    BY <1>3, <2>1, <2>3, <2>4, <2>8 DEF Read
  <2>9. CASE q[x].op \notin {"setop", "cteref"}
    BY <1>2, <2>1, <2>3, <2>6, <2>9 DEF Read
  <2> QED
    BY <2>7, <2>8, <2>9
<1> DEFINE Bad == {x \in DOMAIN q : Bindings(p)[x] # Bindings(q)[x]}
<1>5. Bad = {}
  <2> SUFFICES ASSUME Bad # {} PROVE FALSE
    OBVIOUS
  <2>1. PICK x \in Bad : \A y \in Bad : x <= y
    <3>1. Bad \in SUBSET Nat
      BY Places
    <3> HIDE DEF Bad
    <3> QED
      BY <3>1, LeastNumber
  <2>2. x \in DOMAIN q /\ Bindings(p)[x] # Bindings(q)[x]
    OBVIOUS
  <2>3. \A y \in 1 .. x - 1 : Bindings(p)[y] = Bindings(q)[y]
    <3> TAKE y \in 1 .. x - 1
    <3>1. y \in DOMAIN q /\ ~ x <= y
      BY <2>2, Places
    <3> QED
      BY <2>1, <3>1
  <2>4. Bindings(p)[x] = OutputsBy(p, x, Bindings(p)) /\ Bindings(q)[x] = OutputsBy(q, x, Bindings(q))
    BY <1>1, <2>2, BindingsBy
  <2>5. OutputsBy(p, x, Bindings(p)) = OutputsBy(q, x, Bindings(p))
    BY <1>2, <2>2
  <2>6. OutputsBy(q, x, Bindings(p)) = OutputsBy(q, x, Bindings(q))
    BY <2>2, <2>3, OutputsLocal
  <2> QED
    BY <2>2, <2>4, <2>5, <2>6
<1>6. Bindings(p) = Bindings(q)
  <2>1. /\ Bindings(p) = [x \in DOMAIN q |-> OutputsBy(p, x, Bindings(p))]
        /\ Bindings(q) = [x \in DOMAIN q |-> OutputsBy(q, x, Bindings(q))]
    BY <1>1, BindingsBy
  <2>2. \A x \in DOMAIN q : Bindings(p)[x] = Bindings(q)[x]
    BY <1>5
  <2> QED
    BY <2>1, <2>2
<1> QED
  BY <1>1, <1>2, <1>3, <1>4, <1>6

\* A column whose own computation stands moves as those it is computed from do.
LEMMA ColumnMoves ==
  ASSUME NEW q, NEW p, NEW S, IsPlan(q), IsPlan(p), AlikeBut(q, p, S),
         NEW ty, NEW uy, NEW f, NEW g, Walked(q, ty, f), Walked(p, uy, g),
         NEW x \in DOMAIN q, NEW i \in 1 .. Own(q, x, Bindings(q)), <<x, i>> \notin S,
         TextOf(<<x, i>>, f).known, TextOf(<<x, i>>, g).known,
         q[x].op = "get" => Leaf(ty, q[x].of, i) = Leaf(uy, q[x].of, i)
  PROVE  TextOf(<<x, i>>, f) # TextOf(<<x, i>>, g)
           <=> \E c \in Read(q, x, i, Bindings(q)) : TextOf(c, f) # TextOf(c, g)
<1> DEFINE B == Bindings(q)
<1>1. Ordered(q) /\ Bound(q) /\ Named(q) /\ Ordered(p) /\ Bound(p) /\ Named(p)
  BY DEF IsPlan
<1>2. /\ x \in DOMAIN p /\ Bindings(p) = B /\ i \in 1 .. Own(p, x, B)
      /\ Definitions(p, x) = Definitions(q, x) /\ Beneath(p, x, B) = Beneath(q, x, B)
  BY <1>1, AlikeOutputs
<1>3. p[x].op = q[x].op /\ p[x].of = q[x].of /\ p[x].kids = q[x].kids
  BY DEF AlikeBut
<1>4. q[x].op \in Computing \cup {"get", "setop", "cteref", "values", "join", "recursive"}
  BY <1>1, ReadIs
<1>5. CASE q[x].op = "get"
  <2>1. TextOf(<<x, i>>, f) = TextOf(<<x, i>>, g)
    BY <1>1, <1>2, <1>3, <1>5, ColumnText
  <2>2. Read(q, x, i, B) = {}
    BY <1>1, <1>5, ReadIs DEF Computing
  <2> QED
    BY <2>1, <2>2
<1>6. CASE q[x].op \in {"values", "join"}
  <2>1. TextOf(<<x, i>>, f) = TextOf(<<x, i>>, g)
    BY <1>1, <1>2, <1>3, <1>6, ColumnText
  <2>2. Read(q, x, i, B) = {}
    BY <1>1, <1>6, ReadIs DEF Computing
  <2> QED
    BY <2>1, <2>2
<1>7. CASE q[x].op = "recursive"
  <2>1. TextOf(<<x, i>>, f) = Unknown
    BY <1>1, <1>7, ColumnText
  <2> QED
    BY <2>1, UnknownIsNot
<1>8. CASE q[x].op = "setop"
  <2> DEFINE args(t) == [k \in DOMAIN q[x].kids |-> IF i \in DOMAIN B[q[x].kids[k]] THEN TextOf(B[q[x].kids[k]][i], t) ELSE Unknown]
  <2>1. ASSUME NEW t
        PROVE  [k \in DOMAIN Sides(q, x, t) |-> IF i \in DOMAIN Sides(q, x, t)[k] THEN Sides(q, x, t)[k][i] ELSE Unknown] = args(t)
    BY TextsOfIs DEF Sides
  <2>2. Sides(p, x, g) = Sides(q, x, g)
    BY <1>2, <1>3 DEF Sides
  <2>3. TextOf(<<x, i>>, f) = SidesText(q[x].of, i, Sides(q, x, f))
    BY <1>1, <1>8, ColumnText
  <2>4. TextOf(<<x, i>>, g) = SidesText(q[x].of, i, Sides(q, x, g))
    BY <1>1, <1>2, <1>3, <1>8, <2>2, ColumnText
  <2>5. TextOf(<<x, i>>, f) = Over(<<q[x].of>>, args(f)) /\ TextOf(<<x, i>>, g) = Over(<<q[x].of>>, args(g))
    BY <2>1, <2>3, <2>4 DEF SidesText
  <2>6. TextOf(<<x, i>>, f) # TextOf(<<x, i>>, g) <=> args(f) # args(g)
    <3> HIDE DEF args
    <3> QED
      BY <2>5, OverTells
  <2>7. args(f) # args(g) <=> \E k \in DOMAIN q[x].kids : args(f)[k] # args(g)[k]
    OBVIOUS
  <2>8. \A k \in DOMAIN q[x].kids : args(f)[k] # args(g)[k] <=>
          i \in DOMAIN B[q[x].kids[k]] /\ TextOf(B[q[x].kids[k]][i], f) # TextOf(B[q[x].kids[k]][i], g)
    OBVIOUS
  <2> HIDE DEF args
  <2>9. /\ \A c \in Read(q, x, i, B) : \E s \in DOMAIN q[x].kids :
             i \in DOMAIN B[q[x].kids[s]] /\ c = B[q[x].kids[s]][i]
        /\ \A s \in DOMAIN q[x].kids : i \in DOMAIN B[q[x].kids[s]] => B[q[x].kids[s]][i] \in Read(q, x, i, B)
    BY <1>1, <1>8, ReadIs
  <2> HIDE DEF B
  <2>10. (\E k \in DOMAIN q[x].kids : args(f)[k] # args(g)[k]) <=> \E c \in Read(q, x, i, B) : TextOf(c, f) # TextOf(c, g)
    BY <2>8, <2>9
  <2> QED
    BY <2>6, <2>7, <2>10 DEF B
<1>9. CASE q[x].op = "cteref"
  <2>1. TextOf(<<x, i>>, f) = CteText(i, CteColumns(q, x, B, f)) /\ TextOf(<<x, i>>, g) = CteText(i, CteColumns(p, x, B, g))
    BY <1>1, <1>2, <1>3, <1>9, ColumnText
  <2>2. Definitions(q, x) # {}
    <3> SUFFICES ASSUME Definitions(q, x) = {} PROVE FALSE
      OBVIOUS
    <3>1. CteColumns(q, x, B, f) = <<>>
      BY <1>1, CteRead
    <3>2. TextOf(<<x, i>>, f) = Unknown
      BY <2>1, <3>1 DEF CteText
    <3> QED
      BY <3>2, UnknownIsNot
  <2>3. PICK k \in Definitions(q, x) : TRUE
    BY <2>2
  <2>4. CteColumns(q, x, B, f) = TextsOf(B[k], f) /\ CteColumns(p, x, B, g) = TextsOf(B[k], g)
    BY <1>1, <1>2, <2>3, CteRead
  <2>5. i \in DOMAIN B[k]
    <3> SUFFICES ASSUME i \notin DOMAIN B[k] PROVE FALSE
      OBVIOUS
    <3>1. TextOf(<<x, i>>, f) = Unknown
      BY <2>1, <2>4, TextsOfIs DEF CteText
    <3> QED
      BY <3>1, UnknownIsNot
  <2>6. TextOf(<<x, i>>, f) = TextOf(B[k][i], f) /\ TextOf(<<x, i>>, g) = TextOf(B[k][i], g)
    BY <2>1, <2>4, <2>5, TextsOfIs DEF CteText
  <2>7. /\ \A c \in Read(q, x, i, B) : \E l \in Definitions(q, x) : c = B[l][i]
        /\ B[k][i] \in Read(q, x, i, B)
    BY <1>1, <1>9, <2>3, <2>5, ReadIs
  <2>8. \A c \in Read(q, x, i, B) : c = B[k][i]
    BY <1>1, <2>3, <2>7, DefinitionsOne
  <2> QED
    BY <2>6, <2>7, <2>8
<1>10. CASE q[x].op \in Computing
  <2> DEFINE e == q[x].exprs[i]
             under == Beneath(q, x, B)
  <2>1. i \in DOMAIN q[x].exprs /\ Read(q, x, i, B) = {under[r] : r \in RefsOf(e)}
    BY <1>1, <1>10, ReadIs
  <2>2. SameSaid(e, p[x].exprs[i])
    BY <2>1 DEF AlikeBut
  <2>3. IsExpression(e, Len(under))
    BY <1>1, <2>1 DEF Bound
  <2>4. TextOf(<<x, i>>, f) = Text(e, under, f)
    BY <1>1, <1>10, ColumnText
  <2>5. TextOf(<<x, i>>, g) = Text(e, under, g)
    <3> DEFINE d == p[x].exprs[i]
    <3>1. TextOf(<<x, i>>, g) = Text(d, under, g)
      BY <1>1, <1>2, <1>3, <1>10, ColumnText
    <3>2. i \in DOMAIN p[x].exprs
      BY <1>1, <1>2, <1>3, <1>10, ReadIs
    <3>3. IsExpression(d, Len(under))
      BY <1>1, <1>2, <3>2 DEF Bound
    <3> HIDE DEF d
    <3>4. SameSaid(e, d)
      BY <2>2 DEF d
    <3> HIDE DEF e, under
    <3>5. Text(d, under, g) = Text(e, under, g)
      BY <2>3, <3>3, <3>4, SaidAlike
    <3> QED
      BY <3>1, <3>5
  <2> HIDE DEF e, under
  <2>6. ASSUME NEW r \in RefsOf(e), TextOf(under[r], f) # TextOf(under[r], g)
        PROVE  TextOf(<<x, i>>, f) # TextOf(<<x, i>>, g)
    BY <2>3, <2>4, <2>5, <2>6, TextMoved
  <2>7. ASSUME \A r \in RefsOf(e) : TextOf(under[r], f) = TextOf(under[r], g)
        PROVE  TextOf(<<x, i>>, f) = TextOf(<<x, i>>, g)
    BY <2>3, <2>4, <2>5, <2>7, TextSame
  <2> QED
    BY <2>1, <2>6, <2>7
<1> QED
  BY <1>4, <1>5, <1>6, <1>7, <1>8, <1>9, <1>10

\* The columns that S touches move, by themselves, and are computed from none of S.
TouchTells(q, p, S, f, g, from) ==
  \A x \in DOMAIN q : \A i \in 1 .. Own(q, x, Bindings(q)) : <<x, i>> \in S =>
    /\ \A c \in Read(q, x, i, Bindings(q)) : from[c[1]][c[2]] \cap S = {}
    /\ /\ TextOf(<<x, i>>, f).known /\ TextOf(<<x, i>>, g).known
       /\ \A c \in Read(q, x, i, Bindings(q)) : TextOf(c, f) = TextOf(c, g)
       => TextOf(<<x, i>>, f) # TextOf(<<x, i>>, g)

LeavesStand(q, S, ty, uy) ==
  \A x \in DOMAIN q : q[x].op = "get" =>
    \A i \in 1 .. Own(q, x, Bindings(q)) : <<x, i>> \notin S => Leaf(ty, q[x].of, i) = Leaf(uy, q[x].of, i)

\* Of the columns known at both landings those derived from what was touched moved,
\* and no other.
LEMMA DerivedMove ==
  ASSUME NEW q, NEW p, NEW S, IsPlan(q), IsPlan(p), AlikeBut(q, p, S),
         NEW ty, NEW uy, NEW f, NEW g, Walked(q, ty, f), Walked(p, uy, g),
         NEW from, Derivations(p, from), TouchTells(q, p, S, f, g, from), LeavesStand(q, S, ty, uy)
  PROVE  \A x \in DOMAIN q : \A i \in 1 .. Own(q, x, Bindings(q)) :
           TextOf(<<x, i>>, f).known /\ TextOf(<<x, i>>, g).known =>
             (TextOf(<<x, i>>, f) # TextOf(<<x, i>>, g) <=> from[x][i] \cap S # {})
<1> DEFINE B == Bindings(q)
           Tells(x, i) == TextOf(<<x, i>>, f).known /\ TextOf(<<x, i>>, g).known =>
                            (TextOf(<<x, i>>, f) # TextOf(<<x, i>>, g) <=> from[x][i] \cap S # {})
           Bad == {x \in DOMAIN q : \E i \in 1 .. Own(q, x, B) : ~ Tells(x, i)}
<1> SUFFICES ASSUME Bad # {} PROVE FALSE
  OBVIOUS
<1>1. Ordered(q) /\ Bound(q) /\ Named(q) /\ Ordered(p) /\ Bound(p) /\ Named(p)
  BY DEF IsPlan
<1>2. PICK x \in Bad : \A y \in Bad : x <= y
  <2>1. Bad \in SUBSET Nat
    BY <1>1, Places
  <2> HIDE DEF Bad
  <2> QED
    BY <2>1, LeastNumber
<1>3. PICK i \in 1 .. Own(q, x, B) : ~ Tells(x, i)
  OBVIOUS
<1>4. x \in DOMAIN q
  OBVIOUS
<1> HIDE DEF Tells
<1>5. ASSUME NEW c \in Read(q, x, i, B) PROVE Tells(c[1], c[2])
  <2>1. c \in ColumnsTo(q, x - 1)
    BY <1>1, <1>4, ReadBefore
  <2>2. c[1] \in 1 .. x - 1 /\ c[2] \in 1 .. Own(q, c[1], B)
    BY <2>1 DEF ColumnsTo
  <2>3. c[1] \in DOMAIN q /\ ~ x <= c[1]
    BY <1>1, <1>4, <2>2, Places
  <2>4. c[1] \notin Bad
    BY <1>2, <2>3
  <2> QED
    BY <2>2, <2>3, <2>4
<1>6. /\ DOMAIN p = DOMAIN q /\ Bindings(p) = B /\ Own(p, x, B) = Own(q, x, B)
      /\ Read(p, x, i, B) = Read(q, x, i, B)
  BY <1>1, <1>4, AlikeOutputs
<1>7. from[x][i] = {<<x, i>>} \cup UNION {from[c[1]][c[2]] : c \in Read(q, x, i, B)}
  <2>1. from[x] = DerivedBy(p, x, B, from)
    BY <1>4, <1>6 DEF Derivations
  <2> QED
    BY <1>6, <2>1 DEF DerivedBy
<1>8. TextOf(<<x, i>>, f).known /\ TextOf(<<x, i>>, g).known
  BY <1>3 DEF Tells
<1>9. ASSUME NEW c \in Read(q, x, i, B)
      PROVE  TextOf(c, f) # TextOf(c, g) <=> from[c[1]][c[2]] \cap S # {}
  <2>1. TextOf(c, f).known /\ TextOf(c, g).known
    BY <1>4, <1>6, <1>8, ColumnKnown
  <2>2. c = <<c[1], c[2]>>
    <3>1. c \in ColumnsTo(q, x - 1)
      BY <1>1, <1>4, ReadBefore
    <3> QED
      BY <3>1 DEF ColumnsTo
  <2>3. /\ TextOf(<<c[1], c[2]>>, f).known /\ TextOf(<<c[1], c[2]>>, g).known
        /\ TextOf(<<c[1], c[2]>>, f) = TextOf(c, f) /\ TextOf(<<c[1], c[2]>>, g) = TextOf(c, g)
    BY <2>1, <2>2
  <2> QED
    BY <1>5, <2>3 DEF Tells
<1>10. CASE <<x, i>> \in S
  <2>1. \A c \in Read(q, x, i, B) : TextOf(c, f) = TextOf(c, g)
    BY <1>4, <1>9, <1>10 DEF TouchTells
  <2>2. TextOf(<<x, i>>, f) # TextOf(<<x, i>>, g)
    BY <1>4, <1>8, <1>10, <2>1 DEF TouchTells
  <2>3. <<x, i>> \in from[x][i] \cap S
    BY <1>7, <1>10
  <2> QED
    BY <1>3, <2>2, <2>3 DEF Tells
<1>11. CASE <<x, i>> \notin S
  <2>1. TextOf(<<x, i>>, f) # TextOf(<<x, i>>, g) <=> \E c \in Read(q, x, i, B) : TextOf(c, f) # TextOf(c, g)
    <3>1. q[x].op = "get" => Leaf(ty, q[x].of, i) = Leaf(uy, q[x].of, i)
      BY <1>4, <1>11 DEF LeavesStand
    <3> QED
      BY <1>4, <1>8, <1>11, <3>1, ColumnMoves
  <2>2. from[x][i] \cap S # {} <=> \E c \in Read(q, x, i, B) : from[c[1]][c[2]] \cap S # {}
    <3> HIDE DEF B
    <3> QED
      BY <1>7, <1>11
  <2> QED
    BY <1>3, <1>9, <2>1, <2>2 DEF Tells
<1> QED
  BY <1>10, <1>11

-----------------------------------------------------------------------------
(* No text is over itself.                                                 *)

\* From argument to first argument a text comes to an end.
Descent(t, n, d) ==
  /\ d[0] = t /\ 1 \notin DOMAIN d[n].args
  /\ \A i \in 1 .. n : 1 \in DOMAIN d[i - 1].args /\ d[i] = d[i - 1].args[1]
Ends(t) == \E n \in Nat : \E d : Descent(t, n, d)

LEMMA EndsUnknown == Ends(Unknown)
<1>1. Descent(Unknown, 0, [i \in 0 .. 0 |-> Unknown])
  BY DEF Descent, Unknown
<1> QED
  BY <1>1 DEF Ends

LEMMA EndsOver ==
  ASSUME NEW h, NEW a, 1 \in DOMAIN a => Ends(a[1])
  PROVE  Ends(Over(h, a))
<1> DEFINE t == Over(h, a)
<1>1. t.args = a
  BY OverTells
<1> HIDE DEF t
<1>2. CASE 1 \notin DOMAIN a
  <2>1. Descent(t, 0, [i \in 0 .. 0 |-> t])
    BY <1>1, <1>2 DEF Descent
  <2> QED
    BY <2>1 DEF Ends, t
<1>3. CASE 1 \in DOMAIN a
  <2>1. PICK n \in Nat : \E d : Descent(a[1], n, d)
    BY <1>3 DEF Ends
  <2>2. PICK d : Descent(a[1], n, d)
    BY <2>1
  <2> DEFINE g == [i \in 0 .. n + 1 |-> IF i = 0 THEN t ELSE d[i - 1]]
  <2>3. g[0] = t /\ \A i \in 1 .. n + 1 : g[i] = d[i - 1]
    OBVIOUS
  <2> HIDE DEF g
  <2>4. ASSUME NEW i \in 1 .. n + 1 PROVE 1 \in DOMAIN g[i - 1].args /\ g[i] = g[i - 1].args[1]
    <3>1. CASE i = 1
      <4>1. g[i - 1] = t /\ g[i] = d[0]
        BY <2>3, <3>1
      <4> QED
        BY <1>1, <1>3, <2>2, <4>1 DEF Descent
    <3>2. CASE i # 1
      <4>1. i - 1 \in 1 .. n /\ i - 1 \in 1 .. n + 1
        BY <3>2
      <4>2. g[i] = d[i - 1] /\ g[i - 1] = d[i - 1 - 1]
        BY <2>3, <4>1
      <4> QED
        BY <2>2, <4>1, <4>2 DEF Descent
    <3> QED
      BY <3>1, <3>2
  <2>5. 1 \notin DOMAIN g[n + 1].args
    <3>1. n + 1 \in 1 .. n + 1 /\ n + 1 - 1 = n
      OBVIOUS
    <3>2. g[n + 1] = d[n]
      BY <2>3, <3>1
    <3> QED
      BY <2>2, <3>2 DEF Descent
  <2>6. Descent(t, n + 1, g)
    BY <2>3, <2>4, <2>5 DEF Descent
  <2> QED
    BY <2>6 DEF Ends, t
<1> QED
  BY <1>2, <1>3

LEMMA NotOverItself ==
  ASSUME NEW t, Ends(t), NEW h
  PROVE  t # Over(h, <<t>>)
<1> SUFFICES ASSUME t = Over(h, <<t>>) PROVE FALSE
  OBVIOUS
<1>1. t.args = <<t>>
  BY OverTells
<1>2. 1 \in DOMAIN t.args /\ t.args[1] = t
  BY <1>1
<1>3. PICK n \in Nat : \E d : Descent(t, n, d)
  BY DEF Ends
<1>4. PICK d : Descent(t, n, d)
  BY <1>3
<1> DEFINE Bad == {i \in 0 .. n : d[i] # t}
<1>5. Bad = {}
  <2> SUFFICES ASSUME Bad # {} PROVE FALSE
    OBVIOUS
  <2>1. PICK i \in Bad : \A m \in Bad : i <= m
    <3>1. Bad \in SUBSET Nat
      OBVIOUS
    <3> HIDE DEF Bad
    <3> QED
      BY <3>1, LeastNumber
  <2>2. i \in 0 .. n /\ d[i] # t
    OBVIOUS
  <2>3. i # 0
    BY <1>4, <2>2 DEF Descent
  <2>4. i - 1 \in 0 .. n /\ i \in 1 .. n /\ ~ i <= i - 1
    BY <2>2, <2>3
  <2>5. d[i - 1] = t
    BY <2>1, <2>4
  <2>6. d[i] = d[i - 1].args[1]
    BY <1>4, <2>4 DEF Descent
  <2> QED
    BY <1>2, <2>2, <2>5, <2>6
<1>6. d[n] = t
  BY <1>5
<1> QED
  BY <1>2, <1>4, <1>6 DEF Descent

LEMMA TextEnds ==
  ASSUME NEW e, NEW a, IsExpression(e, a), NEW beneath, NEW texts,
         \A r \in RefsOf(e) : Ends(TextOf(beneath[r], texts)),
         NEW node, NodeTexts(e, beneath, texts, node)
  PROVE  \A n \in DOMAIN e : Ends(node[n])
<1> DEFINE Bad == {n \in DOMAIN e : ~ Ends(node[n])}
<1> SUFFICES ASSUME Bad # {} PROVE FALSE
  OBVIOUS
<1>1. PICK n \in Bad : \A m \in Bad : n <= m
  <2>1. Bad \in SUBSET Nat
    BY Nodes
  <2> HIDE DEF Bad
  <2> QED
    BY <2>1, LeastNumber
<1>2. n \in DOMAIN e /\ ~ Ends(node[n])
  OBVIOUS
<1>3. ASSUME NEW m \in 1 .. n - 1 PROVE Ends(node[m])
  <2>1. m \in DOMAIN e /\ ~ n <= m
    BY <1>2, Nodes
  <2> QED
    BY <1>1, <2>1
<1>4. node[n] = NodeText(e, n, beneath, texts, node)
  BY <1>2 DEF NodeTexts
<1>5. CASE e[n].class = "ref"
  <2>1. node[n] = TextOf(beneath[e[n].word], texts)
    BY <1>4, <1>5 DEF NodeText
  <2> QED
    BY <1>2, <1>5, <2>1, RefsBound
<1>6. CASE e[n].class = "constant"
  <2>1. node[n] = Over(<<e[n].word>>, <<>>)
    BY <1>4, <1>6 DEF NodeText
  <2> QED
    BY <1>2, <2>1, EndsOver
<1>7. CASE e[n].class = "subquery"
  <2>1. node[n] = Unknown
    BY <1>4, <1>7 DEF NodeText
  <2> QED
    BY <1>2, <2>1, EndsUnknown
<1>8. CASE e[n].class \notin {"ref", "constant", "subquery"}
  <2> DEFINE args == [i \in DOMAIN e[n].args |-> node[e[n].args[i]]]
  <2>1. node[n] = Over(HeadOf(e[n]), args)
    BY <1>4, <1>8 DEF NodeText
  <2>2. 1 \in DOMAIN args => Ends(args[1])
    <3>1. 1 \in DOMAIN e[n].args => e[n].args[1] \in 1 .. n - 1
      BY <1>2, Nodes
    <3> QED
      BY <1>3, <3>1
  <2> HIDE DEF args
  <2>3. Ends(node[n])
    BY <2>1, <2>2, EndsOver
  <2> QED
    BY <1>2, <2>3
<1> QED
  BY <1>5, <1>6, <1>7, <1>8

\* Every text a walk found comes to an end.
LEMMA WalkEnds ==
  ASSUME NEW q, IsPlan(q), NEW ty, NEW f, Walked(q, ty, f)
  PROVE  \A x \in DOMAIN q : \A b \in ColumnsTo(q, x) : Ends(TextOf(b, f))
<1> DEFINE B == Bindings(q)
           Bad == {x \in DOMAIN q : \E i \in 1 .. Own(q, x, B) : ~ Ends(TextOf(<<x, i>>, f))}
<1>1. Ordered(q) /\ Bound(q) /\ Named(q)
  BY DEF IsPlan
<1>2. Bad = {}
  <2> SUFFICES ASSUME Bad # {} PROVE FALSE
    OBVIOUS
  <2>1. PICK x \in Bad : \A y \in Bad : x <= y
    <3>1. Bad \in SUBSET Nat
      BY <1>1, Places
    <3> HIDE DEF Bad
    <3> QED
      BY <3>1, LeastNumber
  <2>2. PICK i \in 1 .. Own(q, x, B) : ~ Ends(TextOf(<<x, i>>, f))
    OBVIOUS
  <2>3. x \in DOMAIN q
    OBVIOUS
  <2>4. ASSUME NEW b \in ColumnsTo(q, x - 1) PROVE Ends(TextOf(b, f))
    <3>1. b = <<b[1], b[2]>> /\ b[1] \in 1 .. x - 1 /\ b[2] \in 1 .. Own(q, b[1], B)
      BY DEF ColumnsTo
    <3>2. b[1] \in DOMAIN q /\ ~ x <= b[1]
      BY <1>1, <2>3, <3>1, Places
    <3>3. Ends(TextOf(<<b[1], b[2]>>, f))
      BY <2>1, <3>1, <3>2
    <3> QED
      BY <3>1, <3>3
  <2>5. ASSUME NEW k \in 1 .. x - 1, NEW j \in DOMAIN B[k] PROVE Ends(TextOf(B[k][j], f))
    <3>1. B[k] \in Seq(ColumnsTo(q, x - 1))
      BY <1>1, <2>3, OutputsBefore
    <3>2. B[k][j] \in ColumnsTo(q, x - 1)
      BY <2>5, <3>1
    <3> QED
      BY <2>4, <3>2
  <2>6. q[x].op \in Computing \cup {"get", "setop", "cteref", "values", "join", "recursive"}
    BY <1>1, <2>3, ReadIs
  <2>7. CASE q[x].op \in {"get", "values", "join"}
    <3>1. CASE q[x].op = "get"
      <4> DEFINE h == <<Tables[q[x].of].scan, Tables[q[x].of].columns[i], ty[q[x].of][Tables[q[x].of].columns[i]]>>
      <4>1. TextOf(<<x, i>>, f) = Over(h, <<>>)
        BY <1>1, <2>3, <3>1, ColumnText DEF Leaf
      <4> HIDE DEF h
      <4> QED
        BY <2>2, <4>1, EndsOver
    <3>2. CASE q[x].op = "values"
      BY <1>1, <2>2, <2>3, <3>2, ColumnText, EndsOver
    <3>3. CASE q[x].op = "join"
      BY <1>1, <2>2, <2>3, <3>3, ColumnText, EndsOver
    <3> QED
      BY <2>7, <3>1, <3>2, <3>3
  <2>8. CASE q[x].op = "recursive"
    BY <1>1, <2>2, <2>3, <2>8, ColumnText, EndsUnknown
  <2>9. CASE q[x].op = "setop"
    <3> DEFINE args == [k \in DOMAIN Sides(q, x, f) |-> IF i \in DOMAIN Sides(q, x, f)[k] THEN Sides(q, x, f)[k][i] ELSE Unknown]
    <3>1. TextOf(<<x, i>>, f) = Over(<<q[x].of>>, args)
      BY <1>1, <2>3, <2>9, ColumnText DEF SidesText
    <3>2. 1 \in DOMAIN args => Ends(args[1])
      <4>1. CASE 1 \in DOMAIN q[x].kids /\ i \in DOMAIN B[q[x].kids[1]]
        <5>1. Sides(q, x, f)[1] = TextsOf(B[q[x].kids[1]], f) /\ 1 \in DOMAIN Sides(q, x, f)
          BY <4>1 DEF Sides
        <5>2. args[1] = TextOf(B[q[x].kids[1]][i], f)
          BY <4>1, <5>1, TextsOfIs
        <5>3. q[x].kids[1] \in 1 .. x - 1
          BY <1>1, <2>3, <4>1, Places
        <5> HIDE DEF args
        <5> QED
          BY <2>5, <4>1, <5>2, <5>3
      <4>2. CASE 1 \in DOMAIN q[x].kids /\ i \notin DOMAIN B[q[x].kids[1]]
        <5>1. Sides(q, x, f)[1] = TextsOf(B[q[x].kids[1]], f) /\ 1 \in DOMAIN Sides(q, x, f)
          BY <4>2 DEF Sides
        <5>2. args[1] = Unknown
          BY <4>2, <5>1, TextsOfIs
        <5> QED
          BY <5>2, EndsUnknown
      <4>3. CASE 1 \notin DOMAIN q[x].kids
        BY <4>3 DEF Sides
      <4> QED
        BY <4>1, <4>2, <4>3
    <3> HIDE DEF args
    <3> QED
      BY <2>2, <3>1, <3>2, EndsOver
  <2>10. CASE q[x].op = "cteref"
    <3>1. TextOf(<<x, i>>, f) = CteText(i, CteColumns(q, x, B, f))
      BY <1>1, <2>3, <2>10, ColumnText
    <3>2. CASE Definitions(q, x) = {}
      <4>1. CteColumns(q, x, B, f) = <<>>
        BY <1>1, <2>3, <3>2, CteRead
      <4>2. TextOf(<<x, i>>, f) = Unknown
        BY <3>1, <4>1 DEF CteText
      <4> QED
        BY <2>2, <4>2, EndsUnknown
    <3>3. ASSUME NEW k \in Definitions(q, x) PROVE Ends(TextOf(<<x, i>>, f))
      <4>1. CteColumns(q, x, B, f) = TextsOf(B[k], f) /\ k \in 1 .. x - 1
        BY <1>1, <2>3, CteRead, DefinitionsOne
      <4>2. CASE i \in DOMAIN B[k]
        <5>1. TextOf(<<x, i>>, f) = TextOf(B[k][i], f)
          BY <3>1, <4>1, <4>2, TextsOfIs DEF CteText
        <5> QED
          BY <2>5, <4>1, <4>2, <5>1
      <4>3. CASE i \notin DOMAIN B[k]
        <5>1. TextOf(<<x, i>>, f) = Unknown
          BY <3>1, <4>1, <4>3, TextsOfIs DEF CteText
        <5> QED
          BY <5>1, EndsUnknown
      <4> QED
        BY <4>2, <4>3
    <3> QED
      BY <2>2, <3>2, <3>3
  <2>11. CASE q[x].op \in Computing
    <3> DEFINE e == q[x].exprs[i]
               under == Beneath(q, x, B)
    <3>1. i \in DOMAIN q[x].exprs
      BY <1>1, <2>3, <2>11, ReadIs
    <3>2. IsExpression(e, Len(under))
      BY <1>1, <2>3, <3>1 DEF Bound
    <3>3. TextOf(<<x, i>>, f) = Text(e, under, f)
      BY <1>1, <2>3, <2>11, ColumnText
    <3>4. under \in Seq(ColumnsTo(q, x - 1))
      BY <1>1, <2>3, BeneathTyped
    <3> HIDE DEF e, under
    <3>5. \A r \in RefsOf(e) : Ends(TextOf(under[r], f))
      <4> TAKE r \in RefsOf(e)
      <4>1. under[r] \in ColumnsTo(q, x - 1)
        BY <3>2, <3>4, RefsBound
      <4> QED
        BY <2>4, <4>1
    <3>6. PICK node : NodeTexts(e, under, f, node) /\ Text(e, under, f) = node[Len(e)]
      BY <3>2, TextBy
    <3>7. \A n \in DOMAIN e : Ends(node[n])
      BY <3>2, <3>5, <3>6, TextEnds
    <3>8. Len(e) \in DOMAIN e
      BY <3>2, Nodes
    <3> QED
      BY <2>2, <3>3, <3>6, <3>7, <3>8
  <2> QED
    BY <2>6, <2>7, <2>8, <2>9, <2>10, <2>11
<1>3. ASSUME NEW x \in DOMAIN q, NEW b \in ColumnsTo(q, x) PROVE Ends(TextOf(b, f))
  <2>1. b = <<b[1], b[2]>> /\ b[1] \in 1 .. x /\ b[2] \in 1 .. Own(q, b[1], B)
    BY DEF ColumnsTo
  <2>2. b[1] \in DOMAIN q
    BY <1>1, <2>1, Places
  <2>3. Ends(TextOf(<<b[1], b[2]>>, f))
    BY <1>2, <2>1, <2>2
  <2> QED
    BY <2>1, <2>3
<1> QED
  BY <1>3

\* A column is derived from columns made up to it.
LEMMA DerivedWithin ==
  ASSUME NEW q, Ordered(q), Bound(q), NEW from, Derivations(q, from)
  PROVE  \A x \in DOMAIN q : \A i \in 1 .. Own(q, x, Bindings(q)) : from[x][i] \subseteq ColumnsTo(q, x)
<1> DEFINE B == Bindings(q)
           Bad == {x \in DOMAIN q : \E i \in 1 .. Own(q, x, B) : ~ from[x][i] \subseteq ColumnsTo(q, x)}
<1> SUFFICES ASSUME Bad # {} PROVE FALSE
  OBVIOUS
<1>1. PICK x \in Bad : \A y \in Bad : x <= y
  <2>1. Bad \in SUBSET Nat
    BY Places
  <2> HIDE DEF Bad
  <2> QED
    BY <2>1, LeastNumber
<1>2. PICK i \in 1 .. Own(q, x, B) : ~ from[x][i] \subseteq ColumnsTo(q, x)
  OBVIOUS
<1>3. x \in DOMAIN q /\ x \in Nat \ {0}
  BY Places
<1>4. from[x][i] = {<<x, i>>} \cup UNION {from[c[1]][c[2]] : c \in Read(q, x, i, B)}
  <2>1. from[x] = DerivedBy(q, x, B, from)
    BY <1>3 DEF Derivations
  <2> QED
    BY <2>1 DEF DerivedBy
<1>5. <<x, i>> \in ColumnsTo(q, x)
  <2>1. Own(q, x, B) \in Nat
    BY <1>3, BindingsTyped
  <2> QED
    BY <1>3, <2>1 DEF ColumnsTo
<1>6. ASSUME NEW c \in Read(q, x, i, B) PROVE from[c[1]][c[2]] \subseteq ColumnsTo(q, x)
  <2>1. c \in ColumnsTo(q, x - 1)
    BY <1>3, ReadBefore
  <2>2. c[1] \in 1 .. x - 1 /\ c[2] \in 1 .. Own(q, c[1], B)
    BY <2>1 DEF ColumnsTo
  <2>3. c[1] \in DOMAIN q /\ ~ x <= c[1]
    BY <1>3, <2>2, Places
  <2>4. from[c[1]][c[2]] \subseteq ColumnsTo(q, c[1])
    BY <1>1, <2>2, <2>3
  <2>5. ColumnsTo(q, c[1]) \subseteq ColumnsTo(q, x)
    BY <1>3, <2>2 DEF ColumnsTo
  <2> QED
    BY <2>4, <2>5
<1> HIDE DEF B
<1> QED
  BY <1>2, <1>4, <1>5, <1>6
-----------------------------------------------------------------------------
(* Another expression over the same columns.                               *)

IsNode(e, n, arity) ==
  /\ e[n] = [class |-> e[n].class, word |-> e[n].word, args |-> e[n].args]
  /\ e[n].class \in Classes
  /\ e[n].args \in Seq(1 .. n - 1)
  /\ e[n].class = "ref" => e[n].word \in 1 .. arity
  /\ e[n].class \in {"ref", "constant"} => e[n].args = <<>>
  /\ n # Len(e) => \E m \in n + 1 .. Len(e) : \E i \in DOMAIN e[m].args : e[m].args[i] = n

LEMMA ByNodes ==
  ASSUME NEW e, NEW a
  PROVE  IsExpression(e, a) <=>
           Len(e) \in Nat \ {0} /\ e = [n \in 1 .. Len(e) |-> e[n]] /\ \A n \in DOMAIN e : IsNode(e, n, a)
  BY DEF IsExpression, IsNode

\* An expression with another top over the same arguments.
LEMMA ReplacedIs ==
  ASSUME NEW e, NEW a, IsExpression(e, a), NEW v,
         v = [class |-> v.class, word |-> v.word, args |-> v.args], v.args = e[Len(e)].args,
         v.class \in Classes \ {"ref", "constant"}, e[Len(e)].class # "ref"
  PROVE  /\ IsExpression([e EXCEPT ![Len(e)] = v], a)
         /\ RefsOf([e EXCEPT ![Len(e)] = v]) = RefsOf(e)
<1> DEFINE N == Len(e)
           d == [e EXCEPT ![N] = v]
<1>1. /\ N \in Nat \ {0} /\ DOMAIN e = 1 .. N /\ e = [n \in 1 .. N |-> e[n]]
      /\ \A n \in 1 .. N : IsNode(e, n, a)
  BY ByNodes
<1>2. d = [n \in 1 .. N |-> IF n = N THEN v ELSE e[n]]
  BY <1>1
<1> HIDE DEF d
<1>3. /\ Len(d) = N /\ DOMAIN d = 1 .. N /\ d[N] = v
      /\ \A n \in 1 .. N : d[n].args = e[n].args /\ (n # N => d[n] = e[n])
  BY <1>1, <1>2
<1>4. ASSUME NEW n \in 1 .. N PROVE IsNode(d, n, a)
  <2>1. n # N => \E m \in n + 1 .. N : \E i \in DOMAIN d[m].args : d[m].args[i] = n
    <3> HAVE n # N
    <3>1. PICK m \in n + 1 .. N : \E i \in DOMAIN e[m].args : e[m].args[i] = n
      BY <1>1 DEF IsNode
    <3>2. m \in 1 .. N
      BY <1>1
    <3> QED
      BY <1>3, <3>1, <3>2
  <2>2. e[n].args \in Seq(1 .. n - 1)
    BY <1>1 DEF IsNode
  <2>3. CASE n = N
    BY <1>3, <2>1, <2>2, <2>3 DEF IsNode
  <2>4. CASE n # N
    <3>1. d[n] = e[n] /\ IsNode(e, n, a)
      BY <1>1, <1>3, <2>4
    <3> QED
      BY <1>3, <2>1, <3>1 DEF IsNode
  <2> QED
    BY <2>3, <2>4
<1>5. d = [n \in 1 .. Len(d) |-> d[n]]
  BY <1>2, <1>3
<1>6. IsExpression(d, a)
  BY <1>1, <1>3, <1>4, <1>5, ByNodes
<1>7. \A n \in 1 .. N : (d[n].class = "ref" <=> e[n].class = "ref") /\ (d[n].class = "ref" => d[n].word = e[n].word)
  BY <1>1, <1>3
<1>8. RefsOf(d) = RefsOf(e)
  BY <1>1, <1>3, <1>7 DEF RefsOf
<1> QED
  BY <1>6, <1>8 DEF d

\* An expression under another top.
LEMMA UnderIs ==
  ASSUME NEW e, NEW a, IsExpression(e, a), NEW v,
         v = [class |-> v.class, word |-> v.word, args |-> v.args], v.args = <<Len(e)>>,
         v.class \in Classes \ {"ref", "constant"}
  PROVE  /\ IsExpression(Append(e, v), a)
         /\ RefsOf(Append(e, v)) = RefsOf(e)
         /\ Len(Append(e, v)) = Len(e) + 1 /\ Append(e, v)[Len(e) + 1] = v
         /\ \A n \in DOMAIN e : Append(e, v)[n] = e[n]
<1> DEFINE N == Len(e)
           d == Append(e, v)
<1>1. /\ N \in Nat \ {0} /\ DOMAIN e = 1 .. N /\ e = [n \in 1 .. N |-> e[n]]
      /\ \A n \in 1 .. N : IsNode(e, n, a)
  BY ByNodes
<1>2. d = [n \in 1 .. N + 1 |-> IF n <= N THEN e[n] ELSE v]
  BY <1>1, AppendIs
<1> HIDE DEF d
<1>3. Len(d) = N + 1 /\ DOMAIN d = 1 .. N + 1 /\ d[N + 1] = v /\ \A n \in 1 .. N : d[n] = e[n]
  BY <1>1, <1>2
<1>4. IsNode(d, N + 1, a)
  <2>1. d[N + 1].args \in Seq(1 .. N + 1 - 1)
    <3>1. <<N>> \in Seq(1 .. N + 1 - 1)
      BY <1>1
    <3> QED
      BY <1>3, <3>1
  <2> QED
    BY <1>3, <2>1 DEF IsNode
<1>5. ASSUME NEW n \in 1 .. N PROVE IsNode(d, n, a)
  <2>1. \E m \in n + 1 .. N + 1 : \E i \in DOMAIN d[m].args : d[m].args[i] = n
    <3>1. CASE n = N
      <4>1. N + 1 \in n + 1 .. N + 1 /\ 1 \in DOMAIN d[N + 1].args /\ d[N + 1].args[1] = n
        BY <1>1, <1>3, <3>1
      <4> QED
        BY <4>1
    <3>2. CASE n # N
      <4>1. PICK m \in n + 1 .. N : \E i \in DOMAIN e[m].args : e[m].args[i] = n
        BY <1>1, <3>2 DEF IsNode
      <4>2. m \in 1 .. N /\ m \in n + 1 .. N + 1
        BY <1>1, <4>1
      <4> QED
        BY <1>3, <4>1, <4>2
    <3> QED
      BY <3>1, <3>2
  <2>2. d[n] = e[n] /\ IsNode(e, n, a)
    BY <1>1, <1>3
  <2> QED
    BY <1>3, <2>1, <2>2 DEF IsNode
<1>6. d = [n \in 1 .. Len(d) |-> d[n]]
  BY <1>2, <1>3
<1>7. IsExpression(d, a)
  <2>1. \A n \in DOMAIN d : n = N + 1 \/ n \in 1 .. N
    BY <1>1, <1>3
  <2> QED
    BY <1>1, <1>3, <1>4, <1>5, <1>6, <2>1, ByNodes
<1>8. DOMAIN e = DOMAIN d \ {N + 1} /\ N + 1 \in DOMAIN d /\ d[N + 1].class # "ref" /\ \A n \in DOMAIN e : d[n] = e[n]
  BY <1>1, <1>3
<1>9. RefsOf(d) = RefsOf(e)
  BY <1>8 DEF RefsOf
<1> QED
  BY <1>3, <1>7, <1>8, <1>9 DEF d

\* The texts of the columns an expression reads.
EndsRead(e, b, texts) == \A r \in RefsOf(e) : Ends(TextOf(b[r], texts))

\* The texts of two expressions are their tops' heads over one list.
TopsOver(e, d, b, text1, text2) ==
  \E A : /\ \A i \in DOMAIN A : Ends(A[i])
         /\ Text(e, b, text1) = Over(HeadOf(e[Len(e)]), A)
         /\ Text(d, b, text2) = Over(HeadOf(d[Len(e)]), A)

\* An expression with another top over the same arguments: another head over the same texts.
LEMMA ReplacedText ==
  ASSUME NEW e, NEW d, NEW a, IsExpression(e, a), IsExpression(d, a), Len(d) = Len(e),
         SameTo(e, d, Len(e) - 1), d[Len(e)].args = e[Len(e)].args,
         d[Len(e)].class \notin {"ref", "constant", "subquery"},
         e[Len(e)].class \notin {"ref", "constant", "subquery"},
         NEW b, NEW text1, NEW text2,
         SameRead(e, b, text1, text2), EndsRead(e, b, text1)
  PROVE  TopsOver(e, d, b, text1, text2)
<1> DEFINE N == Len(e)
<1>1. /\ N \in Nat \ {0} /\ N \in DOMAIN e /\ N \in DOMAIN d
      /\ \A i \in DOMAIN e[N].args : e[N].args[i] \in 1 .. N - 1 /\ e[N].args[i] \in DOMAIN e
  <2>1. N \in Nat \ {0} /\ DOMAIN e = 1 .. N /\ DOMAIN d = 1 .. Len(d)
    BY Nodes
  <2>2. N \in DOMAIN e /\ N \in DOMAIN d
    BY <2>1
  <2>3. \A i \in DOMAIN e[N].args : e[N].args[i] \in 1 .. N - 1
    BY <2>2, Nodes
  <2>4. \A m \in 1 .. N - 1 : m \in DOMAIN e
    BY <2>1
  <2> QED
    BY <2>1, <2>2, <2>3, <2>4
<1>2. PICK f : NodeTexts(e, b, text1, f) /\ Text(e, b, text1) = f[N]
  BY TextBy
<1>3. PICK g : NodeTexts(d, b, text2, g) /\ Text(d, b, text2) = g[N]
  BY TextBy
<1>4. \A n \in 1 .. N - 1 : f[n] = g[n]
  BY <1>2, <1>3, SameNodes
<1> DEFINE A == [i \in DOMAIN e[N].args |-> f[e[N].args[i]]]
<1>5. [i \in DOMAIN d[N].args |-> g[d[N].args[i]]] = A
  BY <1>1, <1>4
<1>6. f[N] = Over(HeadOf(e[N]), A)
  BY <1>1, <1>2, InnerText
<1>7. g[N] = Over(HeadOf(d[N]), A)
  <2>1. g[N] = Over(HeadOf(d[N]), [i \in DOMAIN d[N].args |-> g[d[N].args[i]]])
    BY <1>1, <1>3, InnerText
  <2> QED
    BY <1>5, <2>1
<1>8. \A i \in DOMAIN A : Ends(A[i])
  <2>1. \A n \in DOMAIN e : Ends(f[n])
    BY <1>2, TextEnds DEF EndsRead
  <2> QED
    BY <1>1, <2>1
<1> HIDE DEF A
<1> QED
  BY <1>2, <1>3, <1>6, <1>7, <1>8 DEF TopsOver

\* An expression under another top: a head over its text.
LEMMA UnderText ==
  ASSUME NEW e, NEW a, IsExpression(e, a), NEW v,
         v = [class |-> v.class, word |-> v.word, args |-> v.args], v.args = <<Len(e)>>,
         v.class \in Classes \ {"ref", "constant", "subquery"}, NEW b, NEW texts
  PROVE  Text(Append(e, v), b, texts) = Over(HeadOf(v), <<Text(e, b, texts)>>)
<1> DEFINE N == Len(e)
           d == Append(e, v)
<1>1. /\ IsExpression(d, a) /\ Len(d) = N + 1 /\ d[N + 1] = v /\ \A n \in DOMAIN e : d[n] = e[n]
      /\ N \in Nat \ {0} /\ DOMAIN e = 1 .. N /\ N + 1 \in DOMAIN d
  <2>1. IsExpression(d, a) /\ Len(d) = N + 1 /\ d[N + 1] = v /\ \A n \in DOMAIN e : d[n] = e[n]
    BY UnderIs
  <2> QED
    BY <2>1, Nodes
<1> HIDE DEF d
<1>2. PICK f : NodeTexts(e, b, texts, f) /\ Text(e, b, texts) = f[N]
  BY TextBy
<1>3. PICK g : NodeTexts(d, b, texts, g) /\ Text(d, b, texts) = g[N + 1]
  BY <1>1, TextBy
<1>4. \A n \in 1 .. N : f[n] = g[n]
  <2>1. SameTo(e, d, N) /\ SameRead(e, b, texts, texts)
    BY <1>1 DEF SameTo, SameRead
  <2> QED
    BY <1>1, <1>2, <1>3, <2>1, SameNodes
<1>5. g[N + 1] = Over(HeadOf(d[N + 1]), [i \in DOMAIN d[N + 1].args |-> g[d[N + 1].args[i]]])
  BY <1>1, <1>3, InnerText
<1>6. [i \in DOMAIN d[N + 1].args |-> g[d[N + 1].args[i]]] = <<f[N]>>
  BY <1>1, <1>4
<1> QED
  BY <1>1, <1>2, <1>3, <1>5, <1>6 DEF d

\* The ways an expression is edited.
MadeAnew(e) == [e EXCEPT ![Len(e)] = [e[Len(e)] EXCEPT !.class = Remade[e[Len(e)].class]]]
Replaced(e, o) == [e EXCEPT ![Len(e)] = [o EXCEPT !.args = e[Len(e)].args]]
Under(e, o) == Append(e, [o EXCEPT !.args = <<Len(e)>>])

LEMMA RemadeIs ==
  /\ DOMAIN Remade = {"aggregate", "distinct", "window", "framed"}
  /\ \A c \in DOMAIN Remade : Remade[c] \in {"distinct", "framed"}
  /\ \A c \in DOMAIN Remade : c \in Classes /\ c \notin {"ref", "constant", "subquery"}
  BY DEF Remade, Classes

\* A record of the shape of a node, with other arguments.
LEMMA OtherIs ==
  ASSUME NEW o \in Others, NEW args
  PROVE  LET v == [o EXCEPT !.args = args]
         IN  /\ v = [class |-> v.class, word |-> v.word, args |-> v.args] /\ v.args = args
             /\ v.class = o.class /\ v.word = o.word /\ v.class \in Classes \ {"ref", "constant"}
  BY LineageAssumption

LEMMA NodeIs ==
  ASSUME NEW t, t = [class |-> t.class, word |-> t.word, args |-> t.args]
  PROVE  \A args : LET v == [t EXCEPT !.args = args]
                   IN  /\ v = [class |-> v.class, word |-> v.word, args |-> v.args] /\ v.args = args
                       /\ v.class = t.class /\ v.word = t.word
  OBVIOUS

LEMMA ClassedIs ==
  ASSUME NEW t, t = [class |-> t.class, word |-> t.word, args |-> t.args], NEW c
  PROVE  LET v == [t EXCEPT !.class = c]
         IN  /\ v = [class |-> v.class, word |-> v.word, args |-> v.args] /\ v.args = t.args
             /\ v.class = c /\ v.word = t.word
  OBVIOUS

LEMMA EditedWays ==
  ASSUME NEW e, NEW a, IsExpression(e, a), NEW d \in Edited(e)
  PROVE  \/ /\ e[Len(e)].class \in DOMAIN Remade
            /\ \/ d = MadeAnew(e)
               \/ \E o \in Others : d = Append(Replaced(e, o), [e[Len(e)] EXCEPT !.args = <<Len(e)>>])
         \/ /\ e[Len(e)].class \notin DOMAIN Remade
            /\ \/ \E o \in Others : d = Under(e, o)
               \/ \E o \in Others : Len(e[Len(e)].args) = 1 /\ d = Replaced(e, o)
<1> DEFINE N == Len(e)
<1>1. N \in DOMAIN e /\ e = [n \in 1 .. N |-> e[n]] /\ N \in Nat \ {0}
  <2>1. N \in Nat \ {0} /\ e = [n \in 1 .. N |-> e[n]]
    BY ByNodes
  <2> QED
    BY <2>1
<1>2. \A c : [e EXCEPT ![N].class = c] = [e EXCEPT ![N] = [e[N] EXCEPT !.class = c]]
  BY <1>1
<1>3. CASE e[N].class \in DOMAIN Remade
  BY <1>2, <1>3 DEF Edited, Replaced, MadeAnew
<1>4. CASE e[N].class \notin DOMAIN Remade
  BY <1>4 DEF Edited, Replaced, Under
<1> QED
  BY <1>3, <1>4

\* An edited expression is one, and reads the same columns.
LEMMA EditedIs ==
  ASSUME NEW e, NEW a, IsExpression(e, a), NEW d \in Edited(e)
  PROVE  IsExpression(d, a) /\ RefsOf(d) = RefsOf(e)
<1> DEFINE N == Len(e)
           t == e[N]
<1>1. /\ N \in DOMAIN e /\ t = [class |-> t.class, word |-> t.word, args |-> t.args] /\ t.class \in Classes
      /\ t.class \in {"ref", "constant"} => t.args = <<>>
      /\ e = [n \in 1 .. N |-> e[n]]
  <2>1. N \in Nat \ {0} /\ e = [n \in 1 .. N |-> e[n]] /\ \A n \in DOMAIN e : IsNode(e, n, a)
    BY ByNodes
  <2>2. N \in DOMAIN e
    BY <2>1
  <2> QED
    BY <2>1, <2>2 DEF IsNode
<1> HIDE DEF t
<1>2. ASSUME NEW o \in Others, t.class # "ref"
      PROVE  IsExpression(Replaced(e, o), a) /\ RefsOf(Replaced(e, o)) = RefsOf(e) /\ Len(Replaced(e, o)) = N
  <2> DEFINE v == [o EXCEPT !.args = t.args]
  <2>1. /\ v = [class |-> v.class, word |-> v.word, args |-> v.args] /\ v.args = t.args
        /\ v.class \in Classes \ {"ref", "constant"}
    BY OtherIs
  <2>2. Replaced(e, o) = [e EXCEPT ![N] = v]
    BY DEF Replaced, t
  <2> HIDE DEF v
  <2>3. Len([e EXCEPT ![N] = v]) = N
    BY <1>1
  <2>4. e[Len(e)].class # "ref" /\ v.args = e[Len(e)].args
    BY <1>2, <2>1 DEF t
  <2>5. IsExpression([e EXCEPT ![Len(e)] = v], a) /\ RefsOf([e EXCEPT ![Len(e)] = v]) = RefsOf(e)
    BY <2>1, <2>4, ReplacedIs
  <2> QED
    BY <2>2, <2>3, <2>5
<1>3. CASE t.class \in DOMAIN Remade /\ d = MadeAnew(e)
  <2> DEFINE v == [t EXCEPT !.class = Remade[t.class]]
  <2>1. /\ v = [class |-> v.class, word |-> v.word, args |-> v.args] /\ v.args = t.args
        /\ v.class = Remade[t.class]
    BY <1>1, ClassedIs
  <2>2. d = [e EXCEPT ![N] = v]
    BY <1>3 DEF MadeAnew, t
  <2> HIDE DEF v
  <2>3. v.class \in Classes \ {"ref", "constant"} /\ e[Len(e)].class # "ref" /\ v.args = e[Len(e)].args
    BY <1>3, <2>1, RemadeIs DEF Classes, t
  <2> QED
    BY <2>1, <2>2, <2>3, ReplacedIs
<1>4. ASSUME t.class \in DOMAIN Remade, NEW o \in Others,
             d = Append(Replaced(e, o), [t EXCEPT !.args = <<N>>])
      PROVE  IsExpression(d, a) /\ RefsOf(d) = RefsOf(e)
  <2> DEFINE v == [t EXCEPT !.args = <<N>>]
             c == Replaced(e, o)
  <2>1. /\ v = [class |-> v.class, word |-> v.word, args |-> v.args] /\ v.args = <<N>>
        /\ v.class = t.class
    BY <1>1, NodeIs
  <2>2. v.class \in Classes \ {"ref", "constant"}
    BY <1>4, <2>1, RemadeIs
  <2>3. IsExpression(c, a) /\ RefsOf(c) = RefsOf(e) /\ Len(c) = N
    BY <1>2, <1>4, RemadeIs
  <2>4. d = Append(c, v)
    BY <1>4
  <2> HIDE DEF v, c
  <2>5. v.args = <<Len(c)>>
    BY <2>1, <2>3
  <2>6. IsExpression(Append(c, v), a) /\ RefsOf(Append(c, v)) = RefsOf(c)
    BY <2>1, <2>2, <2>3, <2>5, UnderIs
  <2> QED
    BY <2>3, <2>4, <2>6
<1>5. ASSUME NEW o \in Others, d = Under(e, o) PROVE IsExpression(d, a) /\ RefsOf(d) = RefsOf(e)
  <2> DEFINE v == [o EXCEPT !.args = <<N>>]
  <2>1. /\ v = [class |-> v.class, word |-> v.word, args |-> v.args] /\ v.args = <<N>>
        /\ v.class \in Classes \ {"ref", "constant"}
    BY OtherIs
  <2>2. d = Append(e, v)
    BY <1>5 DEF Under
  <2> HIDE DEF v
  <2> QED
    BY <2>1, <2>2, UnderIs
<1>6. ASSUME NEW o \in Others, Len(t.args) = 1, d = Replaced(e, o) PROVE IsExpression(d, a) /\ RefsOf(d) = RefsOf(e)
  <2>1. t.class # "ref"
    BY <1>1, <1>6
  <2> QED
    BY <1>2, <1>6, <2>1
<1> QED
  BY <1>3, <1>4, <1>5, <1>6, EditedWays DEF t

\* Over the same columns, an expression edited has another text.
LEMMA EditedTells ==
  ASSUME NEW e, NEW a, IsExpression(e, a), NEW d \in Edited(e), d # e, NEW b, NEW text1, NEW text2,
         SameRead(e, b, text1, text2), EndsRead(e, b, text1),
         Text(e, b, text1).known, Text(d, b, text2).known,
         ~ Untold(e, d)
  PROVE  Text(e, b, text1) # Text(d, b, text2)
<1> DEFINE N == Len(e)
           t == e[N]
<1>1. /\ N \in DOMAIN e /\ t = [class |-> t.class, word |-> t.word, args |-> t.args] /\ t.class \in Classes
      /\ t.class \in {"ref", "constant"} => t.args = <<>>
      /\ e = [n \in 1 .. N |-> e[n]] /\ N \in Nat \ {0}
      /\ t.args \in Seq(1 .. N - 1)
  <2>1. N \in Nat \ {0} /\ e = [n \in 1 .. N |-> e[n]] /\ \A n \in DOMAIN e : IsNode(e, n, a)
    BY ByNodes
  <2>2. N \in DOMAIN e
    BY <2>1
  <2> QED
    BY <2>1, <2>2 DEF IsNode
<1>2. IsExpression(d, a)
  BY EditedIs
<1>3. PICK f : NodeTexts(e, b, text1, f) /\ Text(e, b, text1) = f[N]
  BY TextBy
<1>4. PICK g : NodeTexts(d, b, text2, g) /\ Text(d, b, text2) = g[Len(d)]
  BY <1>2, TextBy
<1>5. \A n \in DOMAIN e : e[n].class # "subquery"
  BY <1>3, TextKnown
<1>6. \A n \in DOMAIN d : d[n].class # "subquery"
  BY <1>2, <1>4, TextKnown
<1>7. t.class # "subquery"
  BY <1>1, <1>5
<1>8. Ends(Text(e, b, text1))
  <2>1. \A n \in DOMAIN e : Ends(f[n])
    BY <1>3, TextEnds DEF EndsRead
  <2> QED
    BY <1>1, <1>3, <2>1
<1>9. Text(e, b, text1) = Text(e, b, text2)
  BY TextSame DEF SameRead
<1>10. ASSUME NEW v, v = [class |-> v.class, word |-> v.word, args |-> v.args], v.args = t.args, d = [e EXCEPT ![N] = v],
              v.class \in Classes, t.class \notin {"ref", "constant"}, v.class \notin {"ref", "constant"}
       PROVE  Text(e, b, text1) # Text(d, b, text2)
  <2>1. Len(d) = N /\ d[N] = v /\ N \in DOMAIN d /\ SameTo(e, d, N - 1)
    BY <1>1, <1>10 DEF SameTo
  <2>2. Inner(t) /\ Inner(v)
    BY <1>6, <1>7, <1>10, <2>1 DEF Inner
  <2>3. PICK A : /\ Text(e, b, text1) = Over(HeadOf(t), A)
                 /\ Text(d, b, text2) = Over(HeadOf(v), A)
    <3>1. /\ Len(d) = Len(e) /\ d[Len(e)] = v /\ d[Len(e)].args = e[Len(e)].args
          /\ e[Len(e)].class \notin {"ref", "constant", "subquery"}
          /\ d[Len(e)].class \notin {"ref", "constant", "subquery"}
      BY <1>10, <2>1, <2>2 DEF Inner
    <3>2. TopsOver(e, d, b, text1, text2)
      BY <1>2, <2>1, <3>1, ReplacedText
    <3> QED
      BY <3>1, <3>2 DEF TopsOver
  <2> SUFFICES ASSUME Text(e, b, text1) = Text(d, b, text2) PROVE FALSE
    OBVIOUS
  <2>4. HeadOf(t) = HeadOf(v)
    <3>1. Over(HeadOf(t), A) = Over(HeadOf(v), A)
      BY <2>3
    <3> QED
      BY <3>1, OverTells
  <2>5. ~ Unsaid(t, v)
    BY <2>1 DEF Untold
  <2>6. v.class = t.class /\ v.word = t.word
    <3>1. t.class \in Classes /\ v.class \in Classes
      BY <1>1, <1>10
    <3> QED
      BY <2>2, <2>4, <2>5, <3>1, HeadsTell
  <2>7. v = t
    BY <1>1, <1>10, <2>6
  <2> QED
    BY <1>1, <1>10, <2>7
<1>11. ASSUME t.class \in DOMAIN Remade, NEW o \in Others,
              d = Append(Replaced(e, o), [t EXCEPT !.args = <<N>>])
       PROVE  Text(e, b, text1) # Text(d, b, text2)
  <2> DEFINE w == [o EXCEPT !.args = t.args]
             v == [t EXCEPT !.args = <<N>>]
             c == [e EXCEPT ![N] = w]
  <2>1. /\ w = [class |-> w.class, word |-> w.word, args |-> w.args] /\ w.args = t.args
        /\ w.class \in Classes \ {"ref", "constant"}
    BY OtherIs
  <2>2. /\ v = [class |-> v.class, word |-> v.word, args |-> v.args] /\ v.args = <<N>>
        /\ v.class = t.class /\ v.word = t.word
    BY <1>1, NodeIs
  <2>3. d = Append(c, v)
    BY <1>11 DEF Replaced
  <2>4. Len(c) = N /\ c[N] = w /\ N \in DOMAIN c
    BY <1>1
  <2> HIDE DEF w, v
  <2>5. IsExpression(c, a)
    <3>1. e[Len(e)].class # "ref" /\ w.args = e[Len(e)].args
      BY <1>11, <2>1, RemadeIs
    <3> QED
      BY <2>1, <3>1, ReplacedIs
  <2>6. c = [e EXCEPT ![Len(e)] = w]
    OBVIOUS
  <2> HIDE DEF c
  <2>7. v.class \in Classes \ {"ref", "constant", "subquery"}
    BY <1>11, <2>2, RemadeIs
  <2>8. w.class \in Classes \ {"ref", "constant", "subquery"}
    <3>1. d[N] = w /\ N \in DOMAIN d
      <4>1. v.args = <<Len(c)>> /\ v.class \in Classes \ {"ref", "constant"}
        BY <2>2, <2>4, <2>7
      <4>2. Len(Append(c, v)) = Len(c) + 1 /\ \A n \in DOMAIN c : Append(c, v)[n] = c[n]
        BY <2>2, <2>5, <4>1, UnderIs
      <4>3. DOMAIN d = 1 .. N + 1
        BY <1>2, <2>3, <2>4, <4>2, Nodes
      <4>4. d[N] = c[N]
        BY <2>3, <2>4, <4>2
      <4>5. N \in DOMAIN d
        BY <1>1, <4>3
      <4> QED
        BY <2>4, <4>4, <4>5
    <3> QED
      BY <1>6, <2>1, <3>1
  <2>9. PICK A : /\ \A i \in DOMAIN A : Ends(A[i])
                 /\ Text(e, b, text1) = Over(HeadOf(t), A)
                 /\ Text(c, b, text2) = Over(HeadOf(w), A)
    <3>1. /\ Len(c) = Len(e) /\ c[Len(e)] = w /\ SameTo(e, c, Len(e) - 1)
      BY <1>1, <2>4, <2>6 DEF SameTo
    <3>2. /\ e[Len(e)].class \notin {"ref", "constant", "subquery"} /\ c[Len(e)].args = e[Len(e)].args
          /\ c[Len(e)].class \notin {"ref", "constant", "subquery"}
      BY <1>11, <2>1, <2>8, <3>1, RemadeIs
    <3>3. TopsOver(e, c, b, text1, text2)
      BY <2>5, <3>1, <3>2, ReplacedText
    <3> QED
      BY <3>1, <3>3 DEF TopsOver
  <2>10. Text(d, b, text2) = Over(HeadOf(v), <<Text(c, b, text2)>>)
    <3>1. v.args = <<Len(c)>>
      BY <2>2, <2>4
    <3> QED
      BY <2>2, <2>3, <2>5, <2>7, <3>1, UnderText
  <2> SUFFICES ASSUME Text(e, b, text1) = Text(d, b, text2) PROVE FALSE
    OBVIOUS
  <2>11. A = <<Over(HeadOf(w), A)>>
    <3>1. Over(HeadOf(t), A) = Over(HeadOf(v), <<Text(c, b, text2)>>)
      BY <2>9, <2>10
    <3>2. A = <<Text(c, b, text2)>>
      BY <3>1, OverTells
    <3> QED
      BY <2>9, <3>2
  <2>12. 1 \in DOMAIN A /\ A[1] = Over(HeadOf(w), A) /\ A = <<A[1]>>
    <3> DEFINE o1 == Over(HeadOf(w), A)
    <3> HIDE DEF o1
    <3>1. A = <<o1>>
      BY <2>11 DEF o1
    <3>2. 1 \in DOMAIN A /\ A[1] = o1
      BY <3>1
    <3> QED
      BY <3>1, <3>2 DEF o1
  <2>13. A[1] = Over(HeadOf(w), <<A[1]>>)
    BY <2>12
  <2>14. Ends(A[1])
    BY <2>9, <2>12
  <2> QED
    BY <2>13, <2>14, NotOverItself
<1>12. ASSUME NEW o \in Others, d = Under(e, o) PROVE Text(e, b, text1) # Text(d, b, text2)
  <2> DEFINE v == [o EXCEPT !.args = <<N>>]
  <2>1. /\ v = [class |-> v.class, word |-> v.word, args |-> v.args] /\ v.args = <<N>>
        /\ v.class \in Classes \ {"ref", "constant"}
    BY OtherIs
  <2>2. d = Append(e, v)
    BY <1>12 DEF Under
  <2> HIDE DEF v
  <2>3. v.class # "subquery"
    <3>1. Len(d) = N + 1 /\ d[N + 1] = v
      BY <2>1, <2>2, UnderIs
    <3>2. N + 1 \in DOMAIN d
      BY <1>1, <1>2, <3>1, Nodes
    <3> QED
      BY <1>6, <3>1, <3>2
  <2>4. Text(d, b, text2) = Over(HeadOf(v), <<Text(e, b, text2)>>)
    <3>1. v.class \in Classes \ {"ref", "constant", "subquery"}
      BY <2>1, <2>3
    <3> QED
      BY <2>1, <2>2, <3>1, UnderText
  <2> QED
    BY <1>8, <1>9, <2>4, NotOverItself
<1>13. ASSUME NEW o \in Others, Len(t.args) = 1, d = Replaced(e, o)
       PROVE  Text(e, b, text1) # Text(d, b, text2)
  <2> DEFINE v == [o EXCEPT !.args = t.args]
  <2>1. /\ v = [class |-> v.class, word |-> v.word, args |-> v.args] /\ v.args = t.args
        /\ v.class \in Classes \ {"ref", "constant"}
    BY OtherIs
  <2>2. d = [e EXCEPT ![N] = v]
    BY <1>13 DEF Replaced
  <2> HIDE DEF v
  <2>3. t.class \notin {"ref", "constant"}
    <3>1. t.args # <<>>
      <4>1. Len(t.args) = 1 /\ Len(<<>>) = 0
        BY <1>13
      <4> HIDE DEF t
      <4> QED
        BY <4>1
    <3> QED
      BY <1>1, <3>1
  <2> QED
    BY <1>10, <2>1, <2>2, <2>3
<1>14. CASE t.class \in DOMAIN Remade /\ d = MadeAnew(e)
  <2> DEFINE v == [t EXCEPT !.class = Remade[t.class]]
  <2>1. /\ v = [class |-> v.class, word |-> v.word, args |-> v.args] /\ v.args = t.args
        /\ v.class = Remade[t.class]
    BY <1>1, ClassedIs
  <2>2. d = [e EXCEPT ![N] = v]
    BY <1>14 DEF MadeAnew
  <2> HIDE DEF v
  <2>3. v.class \in Classes \ {"ref", "constant"} /\ t.class \notin {"ref", "constant"}
    BY <1>14, <2>1, RemadeIs DEF Classes
  <2> QED
    BY <1>10, <2>1, <2>2, <2>3
<1> QED
  BY <1>11, <1>12, <1>13, <1>14, EditedWays

-----------------------------------------------------------------------------
(* What a landing records.                                                 *)

LEMMA RecordBy ==
  ASSUME NEW q, IsPlan(q), NEW ty
  PROVE  LET r   == LineageJson(LineageOf(q, ty), q)
             out == Bindings(q)[Len(q)]
             f   == Walk(q, ty)
         IN  /\ DOMAIN r = DOMAIN out
             /\ \A i \in DOMAIN r :
                  /\ out[i] \in ColumnsTo(q, Len(q))
                  /\ Followed(r, i) <=> TextOf(out[i], f).known
                  /\ Followed(r, i) => r[i] = <<"derived", TextOf(out[i], f)>>
                  /\ ~ Followed(r, i) => r[i] = <<"unknown", q>>
<1> DEFINE r   == LineageJson(LineageOf(q, ty), q)
           out == Bindings(q)[Len(q)]
           f   == Walk(q, ty)
<1>1. Ordered(q) /\ Len(q) \in DOMAIN q
  <2>1. Ordered(q)
    BY DEF IsPlan
  <2> QED
    BY <2>1, Places
<1>2. out \in Seq(ColumnsTo(q, Len(q)))
  BY <1>1, BindingsTyped
<1>3. LineageOf(q, ty).columns = TextsOf(out, f)
  BY DEF LineageOf
<1>4. DOMAIN TextsOf(out, f) = DOMAIN out /\ \A i \in DOMAIN out : TextsOf(out, f)[i] = TextOf(out[i], f)
  BY TextsOfIs
<1> HIDE DEF out, f
<1>5. r = [i \in DOMAIN out |-> IF HoldsUnknown(TextOf(out[i], f)) THEN <<"unknown", q>> ELSE <<"derived", TextOf(out[i], f)>>]
  BY <1>3, <1>4 DEF LineageJson
<1> HIDE DEF r
<1>6. ASSUME NEW i \in DOMAIN r
      PROVE  /\ out[i] \in ColumnsTo(q, Len(q))
             /\ Followed(r, i) <=> TextOf(out[i], f).known
             /\ Followed(r, i) => r[i] = <<"derived", TextOf(out[i], f)>>
             /\ ~ Followed(r, i) => r[i] = <<"unknown", q>>
  <2>1. i \in DOMAIN out /\ out[i] \in ColumnsTo(q, Len(q))
    BY <1>2, <1>5
  <2>2. CASE TextOf(out[i], f).known
    <3>1. r[i] = <<"derived", TextOf(out[i], f)>>
      BY <1>5, <2>1, <2>2 DEF HoldsUnknown
    <3>2. Followed(r, i)
      BY <3>1 DEF Followed
    <3> QED
      BY <2>1, <2>2, <3>1, <3>2
  <2>3. CASE ~ TextOf(out[i], f).known
    <3>1. r[i] = <<"unknown", q>>
      BY <1>5, <2>1, <2>3 DEF HoldsUnknown
    <3>2. ~ Followed(r, i)
      BY <3>1 DEF Followed
    <3> QED
      BY <2>1, <2>3, <3>1, <3>2
  <2> QED
    BY <2>2, <2>3
<1>7. DOMAIN r = DOMAIN out
  BY <1>5
<1> QED
  BY <1>6, <1>7 DEF r, out, f

\* What two landings of plans alike record: of the columns followed at both those
\* derived from what was touched moved, and no other.
LEMMA RecordMoves ==
  ASSUME NEW q, NEW p, NEW S, IsPlan(q), IsPlan(p), AlikeBut(q, p, S), NEW ty, NEW uy,
         \A from : Derivations(p, from) => TouchTells(q, p, S, Walk(q, ty), Walk(p, uy), from),
         LeavesStand(q, S, ty, uy), NEW r, NEW s,
         r = LineageJson(LineageOf(q, ty), q), s = LineageJson(LineageOf(p, uy), p)
  PROVE  \A i \in DOMAIN s \cap DOMAIN r :
           Followed(s, i) /\ Followed(r, i) => (s[i] # r[i] <=> DerivedFrom(p, i) \cap S # {})
<1> DEFINE f == Walk(q, ty)
           g == Walk(p, uy)
           out == Bindings(q)[Len(q)]
<1>1. Ordered(q) /\ Bound(q) /\ Ordered(p) /\ Bound(p)
  BY DEF IsPlan
<1>2. Walked(q, ty, f) /\ Walked(p, uy, g)
  BY <1>1, WalkBy DEF Walked
<1>3. PICK from : /\ Derivations(p, from)
                  /\ \A i : LET b == Bindings(p)[Len(p)][i] IN DerivedFrom(p, i) = from[b[1]][b[2]]
  BY <1>1, DerivationsBy
<1>4. TouchTells(q, p, S, f, g, from)
  BY <1>3
<1>5. Bindings(p) = Bindings(q) /\ Len(p) = Len(q)
  <2>1. Bindings(p) = Bindings(q)
    BY <1>1, AlikeOutputs
  <2>2. Len(p) = Len(q)
    BY DEF AlikeBut
  <2> QED
    BY <2>1, <2>2
<1>6. TAKE i \in DOMAIN s \cap DOMAIN r
<1>7. HAVE Followed(s, i) /\ Followed(r, i)
<1>8. /\ out[i] \in ColumnsTo(q, Len(q))
      /\ TextOf(out[i], f).known /\ r[i] = <<"derived", TextOf(out[i], f)>>
  BY <1>6, <1>7, RecordBy
<1>9. TextOf(out[i], g).known /\ s[i] = <<"derived", TextOf(out[i], g)>>
  <2> DEFINE outp == Bindings(p)[Len(p)]
  <2>1. TextOf(outp[i], g).known /\ s[i] = <<"derived", TextOf(outp[i], g)>>
    BY <1>6, <1>7, RecordBy
  <2> QED
    BY <1>5, <2>1
<1> HIDE DEF f, g
<1>10. DerivedFrom(p, i) = from[out[i][1]][out[i][2]]
  BY <1>3, <1>5
<1> HIDE DEF out
<1>11. out[i] = <<out[i][1], out[i][2]>> /\ out[i][1] \in DOMAIN q /\ out[i][2] \in 1 .. Own(q, out[i][1], Bindings(q))
  <2>1. DOMAIN q = 1 .. Len(q)
    BY <1>1, Places
  <2> QED
    BY <1>8, <2>1 DEF ColumnsTo
<1> DEFINE x == out[i][1]
           k == out[i][2]
<1>12. TextOf(<<x, k>>, f) # TextOf(<<x, k>>, g) <=> from[x][k] \cap S # {}
  <2>1. TextOf(<<x, k>>, f).known /\ TextOf(<<x, k>>, g).known /\ x \in DOMAIN q /\ k \in 1 .. Own(q, x, Bindings(q))
    BY <1>8, <1>9, <1>11
  <2> HIDE DEF x, k
  <2> QED
    BY <1>2, <1>3, <1>4, <2>1, DerivedMove
<1>13. TextOf(<<x, k>>, f) = TextOf(out[i], f) /\ TextOf(<<x, k>>, g) = TextOf(out[i], g)
  BY <1>11
<1> QED
  BY <1>8, <1>9, <1>10, <1>12, <1>13
-----------------------------------------------------------------------------
(* A column edited.                                                        *)

IsOperator(q, x) ==
  /\ q[x] = [op |-> q[x].op, of |-> q[x].of, exprs |-> q[x].exprs, kids |-> q[x].kids, width |-> q[x].width]
  /\ q[x].op \in Ops /\ q[x].width \in Nat
  /\ q[x].kids \in Seq(1 .. x - 1) /\ Len(q[x].kids) <= 2
  /\ Passed(q[x]) \cup (IF q[x].op \in {"setop", "cte"} THEN {1} ELSE {}) \subseteq DOMAIN q[x].kids
  /\ q[x].op = "get" => q[x].of \in DOMAIN Tables
  /\ Len(q[x].exprs) \in Nat /\ q[x].exprs = [i \in 1 .. Len(q[x].exprs) |-> q[x].exprs[i]]
  /\ q[x].op \notin Computing => q[x].exprs = <<>>

LEMMA ByOperators ==
  ASSUME NEW q
  PROVE  Ordered(q) <=>
           Len(q) \in Nat \ {0} /\ q = [x \in 1 .. Len(q) |-> q[x]] /\ \A x \in DOMAIN q : IsOperator(q, x)
  BY DEF Ordered, IsOperator

LEMMA BeneathByKids ==
  ASSUME NEW q, NEW p, NEW y, p[y].kids = q[y].kids, NEW out
  PROVE  Beneath(p, y, out) = Beneath(q, y, out)
  BY DEF Beneath

\* p is q with es for the expressions of the operator at x.
WithExprs(q, p, x, es) ==
  /\ Len(p) = Len(q) /\ DOMAIN p = DOMAIN q /\ p = [y \in 1 .. Len(p) |-> p[y]]
  /\ p[x] = [op |-> q[x].op, of |-> q[x].of, exprs |-> es, kids |-> q[x].kids, width |-> q[x].width]
  /\ \A y \in DOMAIN q : y # x => p[y] = q[y]

\* p is q with e for the expression at j of those.
EditOf(q, p, x, j, e) == WithExprs(q, p, x, [q[x].exprs EXCEPT ![j] = e])

LEMMA EditIs ==
  ASSUME NEW q, Ordered(q), NEW x \in DOMAIN q, NEW j \in DOMAIN q[x].exprs, NEW e
  PROVE  EditOf(q, [q EXCEPT ![x].exprs[j] = e], x, j, e)
<1> DEFINE p == [q EXCEPT ![x].exprs[j] = e]
           es == [q[x].exprs EXCEPT ![j] = e]
<1>1. Len(q) \in Nat \ {0} /\ DOMAIN q = 1 .. Len(q) /\ q = [y \in 1 .. Len(q) |-> q[y]] /\ IsOperator(q, x)
  BY ByOperators
<1>2. p = [y \in 1 .. Len(q) |-> IF y = x THEN [q[x] EXCEPT !.exprs = es] ELSE q[y]]
  BY <1>1
<1> HIDE DEF p
<1>3. Len(p) = Len(q) /\ DOMAIN p = DOMAIN q /\ p = [y \in 1 .. Len(p) |-> p[y]]
  BY <1>1, <1>2
<1>4. q[x] = [op |-> q[x].op, of |-> q[x].of, exprs |-> q[x].exprs, kids |-> q[x].kids, width |-> q[x].width]
  BY <1>1 DEF IsOperator
<1> HIDE DEF es
<1>5. [q[x] EXCEPT !.exprs = es] = [op |-> q[x].op, of |-> q[x].of, exprs |-> es, kids |-> q[x].kids, width |-> q[x].width]
  BY <1>4
<1>6. p[x] = [q[x] EXCEPT !.exprs = es] /\ \A y \in DOMAIN q : y # x => p[y] = q[y]
  BY <1>1, <1>2
<1> QED
  BY <1>3, <1>5, <1>6 DEF EditOf, WithExprs, p, es

\* A plan of which one expression is another over the same columns is one.
LEMMA EditPlan ==
  ASSUME NEW q, IsPlan(q), NEW x \in DOMAIN q, NEW j \in DOMAIN q[x].exprs, NEW e,
         IsExpression(e, Len(Beneath(q, x, Bindings(q)))), RefsOf(e) = RefsOf(q[x].exprs[j]),
         NEW p, EditOf(q, p, x, j, e), NEW S, <<x, j>> \notin S => SameSaid(q[x].exprs[j], e)
  PROVE  IsPlan(p) /\ AlikeBut(q, p, S)
<1>1. /\ Ordered(q) /\ Bound(q) /\ Named(q)
      /\ Len(q) \in Nat \ {0} /\ DOMAIN q = 1 .. Len(q) /\ \A y \in DOMAIN q : IsOperator(q, y)
  <2>1. Ordered(q) /\ Bound(q) /\ Named(q)
    BY DEF IsPlan
  <2> QED
    BY <2>1, ByOperators
<1> DEFINE es == [q[x].exprs EXCEPT ![j] = e]
<1>2. WithExprs(q, p, x, es)
  BY DEF EditOf
<1>3. Len(p) = Len(q) /\ DOMAIN p = DOMAIN q /\ p = [y \in 1 .. Len(p) |-> p[y]]
  BY <1>2 DEF WithExprs
<1>4. es = [i \in 1 .. Len(q[x].exprs) |-> IF i = j THEN e ELSE q[x].exprs[i]] /\ Len(q[x].exprs) \in Nat
  BY <1>1 DEF IsOperator
<1>5. Len(es) = Len(q[x].exprs) /\ DOMAIN es = DOMAIN q[x].exprs /\ es[j] = e /\ \A i \in DOMAIN q[x].exprs : i # j => es[i] = q[x].exprs[i]
  <2>1. DOMAIN q[x].exprs = 1 .. Len(q[x].exprs)
    BY <1>1 DEF IsOperator
  <2> QED
    BY <1>4, <2>1
<1>6. /\ p[x] = [op |-> q[x].op, of |-> q[x].of, exprs |-> es, kids |-> q[x].kids, width |-> q[x].width]
      /\ \A y \in DOMAIN q : y # x => p[y] = q[y]
  BY <1>2 DEF WithExprs
<1> HIDE DEF es
<1>7. \A y \in DOMAIN q : p[y].op = q[y].op /\ p[y].of = q[y].of /\ p[y].kids = q[y].kids /\ p[y].width = q[y].width
  BY <1>6
<1>8. \A y \in DOMAIN q : Len(p[y].exprs) = Len(q[y].exprs) /\ DOMAIN p[y].exprs = DOMAIN q[y].exprs
  BY <1>5, <1>6
<1>9. p[x].exprs[j] = e /\ \A y \in DOMAIN q : \A i \in DOMAIN q[y].exprs : <<y, i>> # <<x, j>> => p[y].exprs[i] = q[y].exprs[i]
  BY <1>5, <1>6
<1>10. Ordered(p)
  <2>1. ASSUME NEW y \in DOMAIN p PROVE IsOperator(p, y)
    <3>1. CASE y # x
      <4>1. p[y] = q[y] /\ IsOperator(q, y)
        BY <1>1, <1>3, <1>6, <3>1
      <4> QED
        BY <4>1 DEF IsOperator
    <3>2. CASE y = x
      <4>1. IsOperator(q, x) /\ Passed(p[x]) = Passed(q[x])
        BY <1>1, <1>6 DEF Passed
      <4>2. es = [i \in 1 .. Len(es) |-> es[i]] /\ Len(es) \in Nat
        BY <1>4, <1>5
      <4>3. q[x].op \in Computing
        BY <4>1 DEF IsOperator
      <4>4. /\ p[x].op = q[x].op /\ p[x].of = q[x].of /\ p[x].kids = q[x].kids /\ p[x].width = q[x].width
            /\ p[x].exprs = es
            /\ p[x] = [op |-> p[x].op, of |-> p[x].of, exprs |-> p[x].exprs, kids |-> p[x].kids, width |-> p[x].width]
        BY <1>6
      <4>5. IsOperator(p, x)
        BY <4>1, <4>2, <4>3, <4>4 DEF IsOperator
      <4> QED
        BY <3>2, <4>5
    <3> QED
      BY <3>1, <3>2
  <2> QED
    BY <1>1, <1>3, <2>1, ByOperators
<1>11. AlikeBut(q, p, S)
  <2>1. ASSUME NEW y \in DOMAIN q, NEW i \in DOMAIN q[y].exprs
        PROVE  /\ RefsOf(p[y].exprs[i]) = RefsOf(q[y].exprs[i])
               /\ <<y, i>> \notin S => SameSaid(q[y].exprs[i], p[y].exprs[i])
    <3>1. CASE <<y, i>> = <<x, j>>
      BY <1>9, <3>1
    <3>2. CASE <<y, i>> # <<x, j>>
      BY <1>9, <3>2 DEF SameSaid
    <3> QED
      BY <3>1, <3>2
  <2> QED
    BY <1>3, <1>7, <1>8, <2>1 DEF AlikeBut
<1>12. Bindings(p) = Bindings(q) /\ \A y \in DOMAIN q : \A out : Beneath(p, y, out) = Beneath(q, y, out)
  <2>1. Bindings(p) = Bindings(q)
    BY <1>1, <1>10, <1>11, AlikeOutputs
  <2>2. ASSUME NEW y \in DOMAIN q, NEW out PROVE Beneath(p, y, out) = Beneath(q, y, out)
    <3>1. p[y].kids = q[y].kids
      BY <1>7
    <3> QED
      BY <3>1, BeneathByKids
  <2> QED
    BY <2>1, <2>2
<1>13. Bound(p)
  <2>1. ASSUME NEW y \in DOMAIN p, NEW i \in DOMAIN p[y].exprs
        PROVE  IsExpression(p[y].exprs[i], Len(Beneath(p, y, Bindings(p))))
    <3>1. y \in DOMAIN q /\ i \in DOMAIN q[y].exprs
      BY <1>3, <1>8
    <3>2. Bindings(p) = Bindings(q) /\ Beneath(p, y, Bindings(p)) = Beneath(q, y, Bindings(q))
      BY <1>12, <3>1
    <3>3. CASE <<y, i>> = <<x, j>>
      <4>1. p[y].exprs[i] = e /\ y = x
        BY <1>9, <3>3
      <4> QED
        BY <3>2, <4>1
    <3>4. CASE <<y, i>> # <<x, j>>
      <4>1. p[y].exprs[i] = q[y].exprs[i]
        BY <1>9, <3>1, <3>4
      <4>2. IsExpression(q[y].exprs[i], Len(Beneath(q, y, Bindings(q))))
        BY <1>1, <3>1 DEF Bound
      <4> QED
        BY <3>2, <4>1, <4>2
    <3> QED
      BY <3>3, <3>4
  <2> QED
    BY <2>1 DEF Bound
<1>14. Named(p)
  BY <1>1, <1>3, <1>7 DEF Named
<1> QED
  BY <1>9, <1>10, <1>11, <1>13, <1>14 DEF IsPlan

LEMMA EditedAt ==
  ASSUME NEW q, Ordered(q), NEW x \in DOMAIN q, NEW j \in DOMAIN q[x].exprs, NEW e, NEW p, EditOf(q, p, x, j, e)
  PROVE  /\ p[x].op = q[x].op /\ p[x].exprs[j] = e /\ DOMAIN p[x].exprs = DOMAIN q[x].exprs
         /\ \A i \in DOMAIN q[x].exprs : i # j => p[x].exprs[i] = q[x].exprs[i]
         /\ DOMAIN p = DOMAIN q
         /\ \A y \in DOMAIN q : y # x => p[y] = q[y]
<1> DEFINE es == [q[x].exprs EXCEPT ![j] = e]
<1>1. IsOperator(q, x)
  BY ByOperators
<1>2. q[x].exprs = [i \in 1 .. Len(q[x].exprs) |-> q[x].exprs[i]]
  BY <1>1 DEF IsOperator
<1>3. es[j] = e /\ DOMAIN es = DOMAIN q[x].exprs /\ \A i \in DOMAIN q[x].exprs : i # j => es[i] = q[x].exprs[i]
  BY <1>2
<1>4. WithExprs(q, p, x, es)
  BY DEF EditOf
<1> HIDE DEF es
<1>5. p[x].op = q[x].op /\ p[x].exprs = es /\ DOMAIN p = DOMAIN q /\ \A y \in DOMAIN q : y # x => p[y] = q[y]
  BY <1>4 DEF WithExprs
<1> QED
  BY <1>3, <1>5

LEMMA AlikeNames ==
  ASSUME NEW q, NEW p, NEW S, Ordered(q), Ordered(p), AlikeBut(q, p, S)
  PROVE  Names(p) = Names(q)
<1>1. DOMAIN p = DOMAIN q
  BY AlikeOutputs
<1>2. \A x \in DOMAIN q : p[x].op = q[x].op /\ p[x].of = q[x].of
  BY DEF AlikeBut
<1> QED
  BY <1>1, <1>2 DEF Names

\* An edit that no text tells leaves the expression one of the same text.
LEMMA UnsaidSame ==
  ASSUME NEW e, NEW a, IsExpression(e, a), NEW d \in Edited(e), Untold(e, d)
  PROVE  SameSaid(e, d)
<1> DEFINE N == Len(e)
           t == e[N]
<1>1. N \in Nat \ {0} /\ e = [n \in 1 .. N |-> e[n]] /\ t = [class |-> t.class, word |-> t.word, args |-> t.args]
  <2>1. N \in Nat \ {0} /\ e = [n \in 1 .. N |-> e[n]] /\ \A n \in DOMAIN e : IsNode(e, n, a)
    BY ByNodes
  <2>2. N \in DOMAIN e
    BY <2>1
  <2> QED
    BY <2>1, <2>2 DEF IsNode
<1>2. Inner(t) /\ Inner(d[N]) /\ HeadOf(t) = HeadOf(d[N]) /\ Len(d) = N
  BY UnsaidHeads DEF Untold
<1>3. ASSUME NEW v, v.args = t.args, d = [e EXCEPT ![N] = v] PROVE SameSaid(e, d)
  <2>1. d[N] = v /\ SameTo(e, d, N - 1)
    BY <1>1, <1>3 DEF SameTo
  <2> QED
    BY <1>2, <1>3, <2>1 DEF SameSaid
<1>4. CASE d = MadeAnew(e)
  <2> DEFINE v == [t EXCEPT !.class = Remade[t.class]]
  <2>1. v.args = t.args
    BY <1>1, ClassedIs
  <2>2. d = [e EXCEPT ![N] = v]
    BY <1>4 DEF MadeAnew
  <2> HIDE DEF v
  <2> QED
    BY <1>3, <2>1, <2>2
<1>5. ASSUME NEW o \in Others, d = Replaced(e, o) PROVE SameSaid(e, d)
  <2> DEFINE v == [o EXCEPT !.args = t.args]
  <2>1. v.args = t.args
    BY OtherIs
  <2>2. d = [e EXCEPT ![N] = v]
    BY <1>5 DEF Replaced
  <2> HIDE DEF v
  <2> QED
    BY <1>3, <2>1, <2>2
<1>6. \A c, v : c = [n \in 1 .. N |-> c[n]] => Len(Append(c, v)) = N + 1
  BY <1>1, AppendIs
<1>7. \A o : d # Under(e, o)
  BY <1>1, <1>2, <1>6 DEF Under
<1>8. \A o \in Others : \A v : d # Append(Replaced(e, o), v)
  <2> TAKE o \in Others
  <2>1. Replaced(e, o) = [n \in 1 .. N |-> Replaced(e, o)[n]]
    BY <1>1 DEF Replaced
  <2>2. \A v : Len(Append(Replaced(e, o), v)) = N + 1
    BY <1>6, <2>1
  <2> QED
    BY <1>1, <1>2, <2>2
<1> QED
  BY <1>4, <1>5, <1>7, <1>8, EditedWays

\* One expression edited: of the columns followed at both landings those derived from
\* the column it computes moved, and no other; none where no text tells the edit.
LEMMA EditMoves ==
  ASSUME NEW q, IsPlan(q), NEW x \in DOMAIN q, NEW j \in DOMAIN q[x].exprs,
         NEW e \in Edited(q[x].exprs[j]), e # q[x].exprs[j],
         NEW p, EditOf(q, p, x, j, e), NEW ty, NEW r, NEW s,
         r = LineageJson(LineageOf(q, ty), q), s = LineageJson(LineageOf(p, ty), p),
         NEW S, S = ToldOf(q[x].exprs[j], e, <<x, j>>)
  PROVE  /\ IsPlan(p) /\ Names(p) = Names(q)
         /\ \A i \in DOMAIN s \cap DOMAIN r :
              Followed(s, i) /\ Followed(r, i) => (s[i] # r[i] <=> DerivedFrom(p, i) \cap S # {})
<1> DEFINE B == Bindings(q)
           d == q[x].exprs[j]
           under == Beneath(q, x, B)
<1>1. Ordered(q) /\ Bound(q) /\ Named(q)
  BY DEF IsPlan
<1>2. IsExpression(d, Len(under))
  BY <1>1 DEF Bound
<1>3. IsExpression(e, Len(under)) /\ RefsOf(e) = RefsOf(d)
  BY <1>2, EditedIs
<1>4. IsPlan(p) /\ AlikeBut(q, p, S)
  <2>1. <<x, j>> \notin S => SameSaid(d, e)
    <3>1. <<x, j>> \notin S => Untold(d, e)
      BY DEF ToldOf
    <3> HIDE DEF d
    <3> QED
      BY <1>2, <3>1, UnsaidSame DEF d
  <2> QED
    BY <1>3, <2>1, EditPlan
<1>5. Ordered(p) /\ Bound(p) /\ Named(p)
  BY <1>4 DEF IsPlan
<1>6. q[x].op \in Computing /\ p[x].op = q[x].op /\ p[x].exprs[j] = e
  <2>1. q[x].op \notin Computing => q[x].exprs = <<>>
    BY <1>1 DEF Ordered
  <2> QED
    BY <1>1, <2>1, EditedAt
<1>7. Bindings(p) = B /\ DOMAIN p = DOMAIN q
  BY <1>1, <1>4, <1>5, AlikeOutputs
<1>8. Beneath(p, x, B) = under
  BY BeneathByKids DEF EditOf, WithExprs
<1>9. j \in 1 .. Own(q, x, B) /\ j \in 1 .. Own(p, x, B)
  <2>1. j \in 1 .. Len(q[x].exprs) /\ Len(p[x].exprs) = Len(q[x].exprs)
    BY <1>1, <1>4 DEF Ordered, AlikeBut
  <2> QED
    BY <1>6, <2>1 DEF Own, Computing
<1> DEFINE f == Walk(q, ty)
           g == Walk(p, ty)
<1>10. Walked(q, ty, f) /\ Walked(p, ty, g)
  BY <1>1, <1>5, WalkBy DEF Walked
<1> HIDE DEF f, g
<1>11. TextOf(<<x, j>>, f) = Text(d, under, f)
  BY <1>1, <1>6, <1>9, <1>10, ColumnText
<1>12. TextOf(<<x, j>>, g) = Text(e, under, g)
  <2>1. j \in 1 .. Own(p, x, Bindings(p)) /\ x \in DOMAIN p /\ p[x].op \in Computing
    BY <1>6, <1>7, <1>9
  <2>2. TextOf(<<x, j>>, g) = Text(p[x].exprs[j], Beneath(p, x, Bindings(p)), g)
    BY <1>5, <1>10, <2>1, ColumnText
  <2> QED
    BY <1>6, <1>7, <1>8, <2>2
<1>13. Read(q, x, j, B) = {under[n] : n \in RefsOf(d)}
  BY <1>1, <1>6, <1>9, ReadIs
<1>14. EndsRead(d, under, f)
  <2>1. \A n \in RefsOf(d) : under[n] \in ColumnsTo(q, x - 1)
    <3>1. under \in Seq(ColumnsTo(q, x - 1))
      BY <1>1, BeneathTyped
    <3> HIDE DEF under
    <3> QED
      BY <1>2, <3>1, RefsBound
  <2>2. ColumnsTo(q, x - 1) \subseteq ColumnsTo(q, x)
    BY <1>1, Places DEF ColumnsTo
  <2> QED
    BY <1>10, <2>1, <2>2, WalkEnds DEF EndsRead
<1>15. ASSUME S # {}, TextOf(<<x, j>>, f).known, TextOf(<<x, j>>, g).known, \A c \in Read(q, x, j, B) : TextOf(c, f) = TextOf(c, g)
       PROVE  TextOf(<<x, j>>, f) # TextOf(<<x, j>>, g)
  <2>1. SameRead(d, under, f, g)
    BY <1>13, <1>15 DEF SameRead
  <2>2. ~ Untold(d, e)
    BY <1>15 DEF ToldOf
  <2>3. e \in Edited(d) /\ e # d
    OBVIOUS
  <2>4. Text(d, under, f).known /\ Text(e, under, g).known
    BY <1>11, <1>12, <1>15
  <2> HIDE DEF d, under
  <2>5. Text(d, under, f) # Text(e, under, g)
    BY <1>2, <1>14, <2>1, <2>2, <2>3, <2>4, EditedTells
  <2> QED
    BY <1>11, <1>12, <2>5
<1>16. ASSUME NEW from, Derivations(p, from) PROVE TouchTells(q, p, S, f, g, from)
  <2>1. ASSUME NEW c \in Read(q, x, j, B) PROVE from[c[1]][c[2]] \cap S = {}
    <3>1. c \in ColumnsTo(q, x - 1)
      BY <1>1, <1>9, ReadBefore
    <3>2. c[1] \in 1 .. x - 1 /\ c[2] \in 1 .. Own(q, c[1], B) /\ x \in Nat
      BY <1>1, <3>1, Places DEF ColumnsTo
    <3>3. c[1] \in DOMAIN q
      BY <1>1, <3>2, Places
    <3>4. Own(p, c[1], B) = Own(q, c[1], B)
      BY <1>1, <1>4, <1>5, <3>3, AlikeOutputs
    <3>5. c[2] \in 1 .. Own(p, c[1], Bindings(p)) /\ c[1] \in DOMAIN p
      BY <1>7, <3>2, <3>3, <3>4
    <3>6. from[c[1]][c[2]] \subseteq ColumnsTo(p, c[1])
      BY <1>5, <1>16, <3>5, DerivedWithin
    <3>7. <<x, j>> \notin ColumnsTo(p, c[1])
      BY <3>2 DEF ColumnsTo
    <3>8. S \subseteq {<<x, j>>}
      BY DEF ToldOf
    <3> QED
      BY <3>6, <3>7, <3>8
  <2>2. ASSUME NEW y \in DOMAIN q, NEW i \in 1 .. Own(q, y, B), <<y, i>> \in S PROVE y = x /\ i = j /\ S # {}
    BY <2>2 DEF ToldOf
  <2> HIDE DEF B
  <2> QED
    BY <1>15, <2>1, <2>2 DEF TouchTells, B
<1>17. LeavesStand(q, S, ty, ty)
  BY DEF LeavesStand
<1>18. \A i \in DOMAIN s \cap DOMAIN r : Followed(s, i) /\ Followed(r, i) => (s[i] # r[i] <=> DerivedFrom(p, i) \cap S # {})
  <2>1. \A from : Derivations(p, from) => TouchTells(q, p, S, Walk(q, ty), Walk(p, ty), from)
    BY <1>16 DEF f, g
  <2> QED
    BY <1>4, <1>17, <2>1, RecordMoves
<1>19. Names(p) = Names(q)
  BY <1>1, <1>4, <1>5, AlikeNames
<1> QED
  BY <1>4, <1>18, <1>19

\* The types the columns of a table may come under.
TypesShape(ty) ==
  /\ DOMAIN ty = DOMAIN Tables
  /\ \A t \in DOMAIN Tables : DOMAIN ty[t] = {Tables[t].columns[i] : i \in DOMAIN Tables[t].columns}

TouchedBy(q, t, j) == {<<x, j>> : x \in {y \in DOMAIN q : q[y].op = "get" /\ q[y].of = t}}

\* uy is ty with another type for the column at j of t.
RetypeOf(ty, uy, t, j) ==
  \E v : v # ty[t][Tables[t].columns[j]] /\ uy = [ty EXCEPT ![t][Tables[t].columns[j]] = v]

\* A column that arrives under another type: its leaf differs, and no other.
LEMMA RetypedLeaf ==
  ASSUME NEW ty, TypesShape(ty), NEW t \in DOMAIN Tables, NEW j \in DOMAIN Tables[t].columns,
         NEW uy, RetypeOf(ty, uy, t, j)
  PROVE  /\ TypesShape(uy)
         /\ Leaf(ty, t, j) # Leaf(uy, t, j)
         /\ \A u \in DOMAIN Tables : \A i \in DOMAIN Tables[u].columns :
              <<u, i>> # <<t, j>> => Leaf(ty, u, i) = Leaf(uy, u, i)
<1> DEFINE c == Tables[t].columns[j]
<1>1. t \in DOMAIN ty /\ c \in DOMAIN ty[t]
  BY DEF TypesShape
<1> PICK v : v # ty[t][Tables[t].columns[j]] /\ uy = [ty EXCEPT ![t][Tables[t].columns[j]] = v]
  BY DEF RetypeOf
<1>2. /\ DOMAIN uy = DOMAIN ty
      /\ \A u \in DOMAIN ty : u # t => uy[u] = ty[u]
      /\ uy[t] = [ty[t] EXCEPT ![c] = v]
  BY <1>1
<1>3. TypesShape(uy)
  BY <1>2 DEF TypesShape
<1>4. uy[t][c] = v /\ \A k \in DOMAIN ty[t] : k # c => uy[t][k] = ty[t][k]
  BY <1>1, <1>2
<1>5. Leaf(ty, t, j) # Leaf(uy, t, j)
  <2>1. <<Tables[t].scan, c, ty[t][c]>> # <<Tables[t].scan, c, uy[t][c]>>
    BY <1>4
  <2> QED
    BY <2>1, OverTells DEF Leaf
<1>6. ASSUME NEW u \in DOMAIN Tables, NEW i \in DOMAIN Tables[u].columns, <<u, i>> # <<t, j>>
      PROVE  Leaf(ty, u, i) = Leaf(uy, u, i)
  <2> DEFINE k == Tables[u].columns[i]
  <2>1. uy[u][k] = ty[u][k]
    <3>1. CASE u # t
      <4>1. uy[u] = ty[u]
        BY <1>2, <3>1 DEF TypesShape
      <4> QED
        BY <4>1
    <3>2. CASE u = t
      <4>1. i # j
        BY <1>6, <3>2
      <4>2. k # c
        BY <3>2, <4>1, LineageAssumption
      <4>3. k \in DOMAIN ty[t]
        BY <3>2 DEF TypesShape
      <4> QED
        BY <1>4, <3>2, <4>2, <4>3
    <3> QED
      BY <3>1, <3>2
  <2> QED
    BY <2>1 DEF Leaf
<1> QED
  BY <1>3, <1>5, <1>6

\* A source's column under another type: of the columns followed at both landings
\* those derived from it moved, and no other.
LEMMA RetypeMoves ==
  ASSUME NEW q, IsPlan(q), NEW ty, TypesShape(ty), NEW t \in DOMAIN Tables, NEW j \in DOMAIN Tables[t].columns,
         NEW uy, RetypeOf(ty, uy, t, j),
         NEW r, NEW s, r = LineageJson(LineageOf(q, ty), q), s = LineageJson(LineageOf(q, uy), q)
  PROVE  /\ TypesShape(uy)
         /\ \A i \in DOMAIN s \cap DOMAIN r :
              Followed(s, i) /\ Followed(r, i) => (s[i] # r[i] <=> DerivedFrom(q, i) \cap TouchedBy(q, t, j) # {})
<1> DEFINE S == TouchedBy(q, t, j)
           B == Bindings(q)
           f == Walk(q, ty)
           g == Walk(q, uy)
<1>1. Ordered(q) /\ Bound(q) /\ Named(q)
  BY DEF IsPlan
<1>2. /\ TypesShape(uy)
      /\ Leaf(ty, t, j) # Leaf(uy, t, j)
      /\ \A u \in DOMAIN Tables : \A i \in DOMAIN Tables[u].columns : <<u, i>> # <<t, j>> => Leaf(ty, u, i) = Leaf(uy, u, i)
  BY RetypedLeaf
<1>3. Walked(q, ty, f) /\ Walked(q, uy, g)
  BY <1>1, WalkBy DEF Walked
<1> HIDE DEF f, g
<1>4. AlikeBut(q, q, S)
  BY DEF AlikeBut, SameSaid
<1>5. \A x, i : <<x, i>> \in S <=> x \in DOMAIN q /\ q[x].op = "get" /\ q[x].of = t /\ i = j
  BY DEF TouchedBy
<1> HIDE DEF S
<1>6. \A x \in DOMAIN q : q[x].op = "get" => q[x].of \in DOMAIN Tables /\ 1 .. Own(q, x, B) = DOMAIN Tables[q[x].of].columns
  <2> TAKE x \in DOMAIN q
  <2> HAVE q[x].op = "get"
  <2>1. q[x].of \in DOMAIN Tables
    BY <1>1 DEF Ordered
  <2>2. DOMAIN Tables[q[x].of].columns = 1 .. Len(Tables[q[x].of].columns)
    BY <2>1, LineageAssumption
  <2> QED
    BY <2>1, <2>2 DEF Own
<1>7. LeavesStand(q, S, ty, uy)
  <2> SUFFICES ASSUME NEW x \in DOMAIN q, q[x].op = "get", NEW i \in 1 .. Own(q, x, B), <<x, i>> \notin S
               PROVE  Leaf(ty, q[x].of, i) = Leaf(uy, q[x].of, i)
    BY DEF LeavesStand
  <2>1. q[x].of \in DOMAIN Tables /\ i \in DOMAIN Tables[q[x].of].columns
    BY <1>6
  <2>2. <<q[x].of, i>> # <<t, j>>
    BY <1>5
  <2> QED
    BY <1>2, <2>1, <2>2
<1>8. ASSUME NEW from PROVE TouchTells(q, q, S, f, g, from)
  <2> SUFFICES ASSUME NEW x \in DOMAIN q, NEW i \in 1 .. Own(q, x, B), <<x, i>> \in S
               PROVE  /\ \A c \in Read(q, x, i, B) : from[c[1]][c[2]] \cap S = {}
                      /\ TextOf(<<x, i>>, f) # TextOf(<<x, i>>, g)
    BY DEF TouchTells
  <2>1. q[x].op = "get" /\ q[x].of = t /\ i = j
    BY <1>5
  <2>2. Read(q, x, i, B) = {}
    <3>1. q[x].op \notin Computing \cup {"setop", "cteref"}
      BY <2>1 DEF Computing
    <3> QED
      BY <1>1, <3>1, ReadIs
  <2>3. TextOf(<<x, i>>, f) = Leaf(ty, t, j) /\ TextOf(<<x, i>>, g) = Leaf(uy, t, j)
    BY <1>1, <1>3, <2>1, ColumnText
  <2> QED
    BY <1>2, <2>2, <2>3
<1>9. \A i \in DOMAIN s \cap DOMAIN r : Followed(s, i) /\ Followed(r, i) => (s[i] # r[i] <=> DerivedFrom(q, i) \cap S # {})
  <2>1. \A from : Derivations(q, from) => TouchTells(q, q, S, Walk(q, ty), Walk(q, uy), from)
    BY <1>8 DEF f, g
  <2> QED
    BY <1>4, <1>7, <2>1, RecordMoves
<1> QED
  BY <1>2, <1>9 DEF S
-----------------------------------------------------------------------------
(* Operators put in over the one at x.                                     *)

\* The place a plan beneath is found at, and the place an operator goes to.
At(k, x, n) == IF k < x THEN k ELSE k + n
Place(y, x, n) == IF y <= x THEN y ELSE y + n

\* p is q with n operators put in above x.
InsertOf(q, p, x, n) ==
  /\ n \in Nat /\ Len(p) = Len(q) + n /\ p = [y \in 1 .. Len(p) |-> p[y]]
  /\ \A y \in DOMAIN q :
       p[Place(y, x, n)] =
         [op |-> q[y].op, of |-> q[y].of, exprs |-> q[y].exprs,
          kids |-> [k \in DOMAIN q[y].kids |-> At(q[y].kids[k], x, n)], width |-> q[y].width]

LEMMA InsertIs ==
  ASSUME NEW q, Ordered(q), NEW x \in DOMAIN q, NEW new, Len(new) \in Nat
  PROVE  /\ InsertOf(q, Insert(q, x, new), x, Len(new))
         /\ \A i \in 1 .. Len(new) : Insert(q, x, new)[x + i] = new[i]
<1> DEFINE N == Len(q)
           n == Len(new)
           p == Insert(q, x, new)
<1>1. N \in Nat \ {0} /\ DOMAIN q = 1 .. N /\ n \in Nat /\ x \in 1 .. N /\ \A y \in DOMAIN q : IsOperator(q, y)
  BY ByOperators
<1>2. p = [y \in 1 .. N + n |-> IF y <= x THEN q[y] ELSE IF y <= x + n THEN new[y - x] ELSE Lifted(q[y - n], x, n)]
  BY DEF Insert
<1> HIDE DEF p, n, N
<1>3. Len(p) = N + n /\ p = [y \in 1 .. Len(p) |-> p[y]]
  BY <1>1, <1>2
<1>4. ASSUME NEW i \in 1 .. n PROVE p[x + i] = new[i]
  <2>1. x + i \in 1 .. N + n /\ ~ x + i <= x /\ x + i <= x + n /\ x + i - x = i
    BY <1>1
  <2> DEFINE z == x + i
  <2>2. z \in 1 .. N + n /\ ~ z <= x /\ z <= x + n /\ z - x = i
    BY <1>1, <2>1
  <2> HIDE DEF z
  <2>3. p[z] = new[z - x]
    BY <1>2, <2>2
  <2> QED
    BY <2>2, <2>3 DEF z
<1>5. ASSUME NEW y \in DOMAIN q
      PROVE  p[Place(y, x, n)] =
               [op |-> q[y].op, of |-> q[y].of, exprs |-> q[y].exprs,
                kids |-> [k \in DOMAIN q[y].kids |-> At(q[y].kids[k], x, n)], width |-> q[y].width]
  <2>1. /\ q[y] = [op |-> q[y].op, of |-> q[y].of, exprs |-> q[y].exprs, kids |-> q[y].kids, width |-> q[y].width]
        /\ q[y].kids \in Seq(1 .. y - 1) /\ y \in 1 .. N
    BY <1>1 DEF IsOperator
  <2>2. CASE y <= x
    <3>1. p[Place(y, x, n)] = q[y]
      BY <1>1, <1>2, <2>1, <2>2 DEF Place
    <3>2. \A k \in DOMAIN q[y].kids : At(q[y].kids[k], x, n) = q[y].kids[k]
      BY <1>1, <2>1, <2>2 DEF At
    <3>3. q[y].kids = [k \in DOMAIN q[y].kids |-> q[y].kids[k]]
      BY <2>1
    <3>4. [k \in DOMAIN q[y].kids |-> At(q[y].kids[k], x, n)] = q[y].kids
      BY <3>2, <3>3
    <3> QED
      BY <2>1, <3>1, <3>4
  <2>3. CASE ~ y <= x
    <3>1. Place(y, x, n) = y + n /\ y + n \in 1 .. N + n /\ ~ y + n <= x /\ ~ y + n <= x + n /\ y + n - n = y
      BY <1>1, <2>1, <2>3 DEF Place
    <3>2. p[Place(y, x, n)] = Lifted(q[y], x, n)
      <4> DEFINE z == Place(y, x, n)
      <4>1. z \in 1 .. N + n /\ ~ z <= x /\ ~ z <= x + n /\ z - n = y
        BY <1>1, <2>1, <3>1
      <4> HIDE DEF z
      <4>2. p[z] = Lifted(q[z - n], x, n)
        BY <1>2, <4>1
      <4> QED
        BY <4>1, <4>2 DEF z
    <3>3. [k \in DOMAIN q[y].kids |-> IF q[y].kids[k] < x THEN q[y].kids[k] ELSE q[y].kids[k] + n] =
            [k \in DOMAIN q[y].kids |-> At(q[y].kids[k], x, n)]
      BY DEF At
    <3> DEFINE ks == [k \in DOMAIN q[y].kids |-> At(q[y].kids[k], x, n)]
    <3>4. Lifted(q[y], x, n) = [q[y] EXCEPT !.kids = ks]
      BY <3>3 DEF Lifted
    <3> HIDE DEF ks
    <3>5. [q[y] EXCEPT !.kids = ks] = [op |-> q[y].op, of |-> q[y].of, exprs |-> q[y].exprs, kids |-> ks, width |-> q[y].width]
      BY <2>1
    <3> QED
      BY <3>2, <3>4, <3>5 DEF ks
  <2> QED
    BY <2>2, <2>3
<1>6. InsertOf(q, p, x, n)
  BY <1>1, <1>3, <1>5 DEF InsertOf, N
<1> QED
  BY <1>4, <1>6 DEF p, n

\* Where the operators of q, and what is beneath them, went.
LEMMA PlacesOf ==
  ASSUME NEW N \in Nat, NEW x \in 1 .. N, NEW n \in Nat
  PROVE  /\ \A y \in 1 .. N : Place(y, x, n) \in 1 .. N + n
         /\ \A y \in 1 .. N : \A k \in 1 .. y - 1 : At(k, x, n) \in 1 .. Place(y, x, n) - 1
         /\ \A y \in 1 .. N : y # x => At(y, x, n) = Place(y, x, n)
         /\ Place(x, x, n) = x /\ At(x, x, n) = x + n
         /\ \A y, z \in 1 .. N : Place(y, x, n) = Place(z, x, n) => y = z
         /\ \A y \in 1 .. N : \A i \in 1 .. n : Place(y, x, n) # x + i
         /\ \A y, z \in 1 .. N : At(y, x, n) = At(z, x, n) => y = z
         /\ \A y, z \in 1 .. N : At(z, x, n) < Place(y, x, n) => z < y
  BY DEF Place, At

LEMMA PlacesCover ==
  ASSUME NEW N \in Nat, NEW x \in 1 .. N, NEW n \in Nat, NEW z \in 1 .. N + n
  PROVE  (\E y \in 1 .. N : z = Place(y, x, n)) \/ (\E i \in 1 .. n : z = x + i)
<1>1. CASE z <= x
  <2>1. z \in 1 .. N /\ z = Place(z, x, n)
    BY <1>1 DEF Place
  <2> QED
    BY <2>1
<1>2. CASE z > x /\ z <= x + n
  <2>1. z - x \in 1 .. n /\ z = x + (z - x)
    BY <1>2
  <2> QED
    BY <2>1
<1>3. CASE z > x + n
  <2>1. z - n \in 1 .. N /\ z = Place(z - n, x, n)
    BY <1>3 DEF Place
  <2> QED
    BY <2>1
<1> QED
  BY <1>1, <1>2, <1>3

\* What is found at the places of a plan with operators put in.
LEMMA InsertPlaces ==
  ASSUME NEW q, Ordered(q), NEW x \in DOMAIN q, NEW p, NEW n, InsertOf(q, p, x, n)
  PROVE  /\ Len(q) \in Nat \ {0} /\ DOMAIN q = 1 .. Len(q) /\ DOMAIN p = 1 .. Len(q) + n /\ n \in Nat
         /\ \A y \in DOMAIN q :
              LET z == Place(y, x, n)
              IN  /\ z \in DOMAIN p
                  /\ p[z].op = q[y].op /\ p[z].of = q[y].of /\ p[z].exprs = q[y].exprs /\ p[z].width = q[y].width
                  /\ DOMAIN p[z].kids = DOMAIN q[y].kids
                  /\ \A k \in DOMAIN q[y].kids : p[z].kids[k] = At(q[y].kids[k], x, n)
<1>1. Len(q) \in Nat \ {0} /\ DOMAIN q = 1 .. Len(q) /\ n \in Nat /\ DOMAIN p = 1 .. Len(q) + n
  BY Places DEF InsertOf
<1>2. ASSUME NEW y \in DOMAIN q PROVE Place(y, x, n) \in DOMAIN p
  BY <1>1, PlacesOf
<1>3. ASSUME NEW y \in DOMAIN q
      PROVE  LET z == Place(y, x, n)
             IN  /\ p[z].op = q[y].op /\ p[z].of = q[y].of /\ p[z].exprs = q[y].exprs /\ p[z].width = q[y].width
                 /\ DOMAIN p[z].kids = DOMAIN q[y].kids
                 /\ \A k \in DOMAIN q[y].kids : p[z].kids[k] = At(q[y].kids[k], x, n)
  <2> DEFINE z == Place(y, x, n)
             ks == [k \in DOMAIN q[y].kids |-> At(q[y].kids[k], x, n)]
  <2>1. p[z] = [op |-> q[y].op, of |-> q[y].of, exprs |-> q[y].exprs, kids |-> ks, width |-> q[y].width]
    BY DEF InsertOf
  <2>2. DOMAIN ks = DOMAIN q[y].kids /\ \A k \in DOMAIN q[y].kids : ks[k] = At(q[y].kids[k], x, n)
    OBVIOUS
  <2> HIDE DEF z, ks
  <2> QED
    BY <2>1, <2>2 DEF z
<1> QED
  BY <1>1, <1>2, <1>3

LEMMA InsertOrdered ==
  ASSUME NEW q, Ordered(q), NEW x \in DOMAIN q, NEW p, NEW n, InsertOf(q, p, x, n),
         \A i \in 1 .. n : IsOperator(p, x + i)
  PROVE  Ordered(p)
<1>1. Len(q) \in Nat \ {0} /\ DOMAIN q = 1 .. Len(q) /\ DOMAIN p = 1 .. Len(q) + n /\ n \in Nat
  BY InsertPlaces
<1>2. Len(p) \in Nat \ {0} /\ p = [y \in 1 .. Len(p) |-> p[y]]
  BY <1>1 DEF InsertOf
<1>3. ASSUME NEW y \in DOMAIN q PROVE IsOperator(p, Place(y, x, n))
  <2> DEFINE z == Place(y, x, n)
             ks == [k \in DOMAIN q[y].kids |-> At(q[y].kids[k], x, n)]
  <2>1. p[z] = [op |-> q[y].op, of |-> q[y].of, exprs |-> q[y].exprs, kids |-> ks, width |-> q[y].width]
    BY DEF InsertOf
  <2>2. IsOperator(q, y)
    BY ByOperators
  <2>3. q[y].kids \in Seq(1 .. y - 1)
    BY <2>2 DEF IsOperator
  <2>4. \A k \in 1 .. y - 1 : At(k, x, n) \in 1 .. z - 1
    BY <1>1, PlacesOf
  <2>5. ks \in Seq(1 .. z - 1) /\ Len(ks) = Len(q[y].kids) /\ DOMAIN ks = DOMAIN q[y].kids
    <3> DEFINE w == Len(q[y].kids)
    <3>1. w \in Nat /\ DOMAIN q[y].kids = 1 .. w
      BY <2>3
    <3>2. \A k \in 1 .. w : q[y].kids[k] \in 1 .. y - 1
      BY <3>1, Places
    <3>3. \A k \in 1 .. w : At(q[y].kids[k], x, n) \in 1 .. z - 1
      BY <2>4, <3>2
    <3>4. ks = [k \in 1 .. w |-> At(q[y].kids[k], x, n)]
      BY <3>1
    <3> HIDE DEF ks, w, z
    <3>5. ks \in Seq(1 .. z - 1) /\ Len(ks) = w /\ DOMAIN ks = 1 .. w
      BY <3>1, <3>3, <3>4
    <3> QED
      BY <3>1, <3>5 DEF w
  <2> HIDE DEF ks, z
  <2>6. /\ p[z].op = q[y].op /\ p[z].of = q[y].of /\ p[z].exprs = q[y].exprs /\ p[z].kids = ks /\ p[z].width = q[y].width
        /\ p[z] = [op |-> p[z].op, of |-> p[z].of, exprs |-> p[z].exprs, kids |-> p[z].kids, width |-> p[z].width]
    BY <2>1
  <2>7. Passed(p[z]) = Passed(q[y])
    BY <2>6 DEF Passed
  <2>8. IsOperator(p, z)
    BY <2>2, <2>5, <2>6, <2>7 DEF IsOperator
  <2> QED
    BY <2>8 DEF z
<1>4. ASSUME NEW z \in DOMAIN p PROVE IsOperator(p, z)
  <2>1. Len(q) \in Nat /\ x \in 1 .. Len(q) /\ z \in 1 .. Len(q) + n
    BY <1>1
  <2> DEFINE N == Len(q)
  <2> HIDE DEF N
  <2>2. N \in Nat /\ x \in 1 .. N /\ n \in Nat /\ z \in 1 .. N + n
    BY <1>1, <2>1 DEF N
  <2>3. (\E y \in 1 .. N : z = Place(y, x, n)) \/ (\E i \in 1 .. n : z = x + i)
    BY <2>2, PlacesCover, ZenonT(30)
  <2> QED
    BY <1>1, <1>3, <2>3 DEF N
<1> QED
  BY <1>2, <1>4, ByOperators

-----------------------------------------------------------------------------
(* What is read at the places of a plan with operators put in.             *)

\* The operator at z of p puts out the columns, by their texts, of that at y of q.
Reads(p, z, g, q, y, f) == TextsOf(Bindings(p)[z], g) = TextsOf(Bindings(q)[y], f)

ReadsBeneath(q, p, x, n, y, f, g) == \A k \in 1 .. y - 1 : Reads(p, At(k, x, n), g, q, k, f)

ReadsOwn(q, p, x, n, y, f, g) ==
  \A i \in 1 .. Own(q, y, Bindings(q)) : TextOf(<<Place(y, x, n), i>>, g) = TextOf(<<y, i>>, f)

LEMMA ReadsIs ==
  ASSUME NEW b, NEW g, NEW c, NEW f
  PROVE  TextsOf(b, g) = TextsOf(c, f) <=>
           DOMAIN b = DOMAIN c /\ \A i \in DOMAIN c : TextOf(b[i], g) = TextOf(c[i], f)
  BY DEF TextsOf

LEMMA ConcatTexts ==
  ASSUME NEW S, NEW T, NEW b \in Seq(S), NEW c \in Seq(S), NEW d \in Seq(T), NEW e \in Seq(T), NEW g, NEW f,
         TextsOf(b, g) = TextsOf(d, f), TextsOf(c, g) = TextsOf(e, f)
  PROVE  TextsOf(b \o c, g) = TextsOf(d \o e, f)
<1>1. DOMAIN b = DOMAIN d /\ \A i \in DOMAIN d : TextOf(b[i], g) = TextOf(d[i], f)
  BY ReadsIs
<1>2. DOMAIN c = DOMAIN e /\ \A i \in DOMAIN e : TextOf(c[i], g) = TextOf(e[i], f)
  BY ReadsIs
<1>3. Len(b) = Len(d) /\ Len(c) = Len(e)
  BY <1>1, <1>2
<1>4. /\ DOMAIN (b \o c) = 1 .. Len(d) + Len(e) /\ DOMAIN (d \o e) = 1 .. Len(d) + Len(e)
      /\ \A i \in 1 .. Len(d) + Len(e) :
           /\ (b \o c)[i] = IF i <= Len(d) THEN b[i] ELSE c[i - Len(d)]
           /\ (d \o e)[i] = IF i <= Len(d) THEN d[i] ELSE e[i - Len(d)]
  BY <1>3
<1>5. ASSUME NEW i \in 1 .. Len(d) + Len(e) PROVE TextOf((b \o c)[i], g) = TextOf((d \o e)[i], f)
  <2>1. CASE i <= Len(d)
    BY <1>1, <1>4, <2>1
  <2>2. CASE ~ i <= Len(d)
    <3>1. i - Len(d) \in DOMAIN e
      BY <2>2
    <3> QED
      BY <1>2, <1>4, <2>2, <3>1
  <2> QED
    BY <2>1, <2>2
<1> DEFINE u == b \o c
           v == d \o e
<1>6. DOMAIN u = DOMAIN v /\ \A i \in DOMAIN v : TextOf(u[i], g) = TextOf(v[i], f)
  BY <1>4, <1>5
<1> HIDE DEF u, v
<1>7. TextsOf(u, g) = TextsOf(v, f)
  BY <1>6, ReadsIs
<1> QED
  BY <1>7 DEF u, v

\* The kids of an operator put out what those of it did before.
LEMMA KidReads ==
  ASSUME NEW q, Ordered(q), NEW x \in DOMAIN q, NEW p, Ordered(p), NEW n, InsertOf(q, p, x, n),
         NEW y \in DOMAIN q, NEW f, NEW g, ReadsBeneath(q, p, x, n, y, f, g), NEW k \in DOMAIN q[y].kids
  PROVE  /\ TextsOf(Bindings(p)[p[Place(y, x, n)].kids[k]], g) = TextsOf(Bindings(q)[q[y].kids[k]], f)
         /\ Bindings(p)[p[Place(y, x, n)].kids[k]] \in Seq(ColumnsTo(p, Place(y, x, n) - 1))
         /\ Bindings(q)[q[y].kids[k]] \in Seq(ColumnsTo(q, y - 1))
<1> DEFINE z == Place(y, x, n)
<1>1. z \in DOMAIN p /\ DOMAIN p[z].kids = DOMAIN q[y].kids /\ p[z].kids[k] = At(q[y].kids[k], x, n)
  BY InsertPlaces
<1> HIDE DEF z
<1>2. q[y].kids[k] \in 1 .. y - 1 /\ p[z].kids[k] \in 1 .. z - 1
  BY <1>1, Places
<1>3. Reads(p, p[z].kids[k], g, q, q[y].kids[k], f)
  BY <1>1, <1>2 DEF ReadsBeneath
<1>4. Bindings(q)[q[y].kids[k]] \in Seq(ColumnsTo(q, y - 1))
  BY <1>2, OutputsBefore
<1>5. Bindings(p)[p[z].kids[k]] \in Seq(ColumnsTo(p, z - 1))
  BY <1>1, <1>2, OutputsBefore
<1> QED
  BY <1>3, <1>4, <1>5 DEF Reads, z

LEMMA BeneathReads ==
  ASSUME NEW q, Ordered(q), NEW x \in DOMAIN q, NEW p, Ordered(p), NEW n, InsertOf(q, p, x, n),
         NEW y \in DOMAIN q, NEW f, NEW g, ReadsBeneath(q, p, x, n, y, f, g)
  PROVE  TextsOf(Beneath(p, Place(y, x, n), Bindings(p)), g) = TextsOf(Beneath(q, y, Bindings(q)), f)
<1> DEFINE z == Place(y, x, n)
           b(k) == IF k \in DOMAIN p[z].kids THEN Bindings(p)[p[z].kids[k]] ELSE <<>>
           d(k) == IF k \in DOMAIN q[y].kids THEN Bindings(q)[q[y].kids[k]] ELSE <<>>
           S == ColumnsTo(p, z - 1)
           T == ColumnsTo(q, y - 1)
<1>1. DOMAIN p[z].kids = DOMAIN q[y].kids
  BY InsertPlaces
<1>2. ASSUME NEW k PROVE TextsOf(b(k), g) = TextsOf(d(k), f) /\ b(k) \in Seq(S) /\ d(k) \in Seq(T)
  <2>1. CASE k \in DOMAIN q[y].kids
    BY <1>1, <2>1, KidReads
  <2>2. CASE k \notin DOMAIN q[y].kids
    <3>1. TextsOf(<<>>, g) = TextsOf(<<>>, f)
      BY ReadsIs
    <3> QED
      BY <1>1, <2>2, <3>1
  <2> QED
    BY <2>1, <2>2
<1>3. /\ TextsOf(b(1), g) = TextsOf(d(1), f) /\ b(1) \in Seq(S) /\ d(1) \in Seq(T)
      /\ TextsOf(b(2), g) = TextsOf(d(2), f) /\ b(2) \in Seq(S) /\ d(2) \in Seq(T)
  BY <1>2
<1>4. Beneath(p, z, Bindings(p)) = b(1) \o b(2) /\ Beneath(q, y, Bindings(q)) = d(1) \o d(2)
  BY DEF Beneath
<1> HIDE DEF b, d, S, T, z
<1>5. TextsOf(b(1) \o b(2), g) = TextsOf(d(1) \o d(2), f)
  BY <1>3, ConcatTexts
<1> QED
  BY <1>4, <1>5 DEF z

LEMMA OwnReads ==
  ASSUME NEW q, Ordered(q), NEW x \in DOMAIN q, NEW p, Ordered(p), NEW n, InsertOf(q, p, x, n),
         NEW y \in DOMAIN q, NEW f, NEW g, ReadsBeneath(q, p, x, n, y, f, g)
  PROVE  Own(p, Place(y, x, n), Bindings(p)) = Own(q, y, Bindings(q))
<1> DEFINE z == Place(y, x, n)
<1>1. /\ p[z].op = q[y].op /\ p[z].of = q[y].of /\ p[z].exprs = q[y].exprs /\ p[z].width = q[y].width
  BY InsertPlaces
<1>2. ASSUME q[y].op = "setop" PROVE Len(Bindings(p)[p[z].kids[1]]) = Len(Bindings(q)[q[y].kids[1]])
  <2>1. 1 \in DOMAIN q[y].kids
    BY <1>2 DEF Ordered
  <2> DEFINE b == Bindings(p)[p[z].kids[1]]
             d == Bindings(q)[q[y].kids[1]]
  <2>2. TextsOf(b, g) = TextsOf(d, f) /\ b \in Seq(ColumnsTo(p, z - 1)) /\ d \in Seq(ColumnsTo(q, y - 1))
    BY <2>1, KidReads
  <2> HIDE DEF b, d
  <2>3. DOMAIN b = DOMAIN d
    BY <2>2, ReadsIs
  <2>4. Len(b) = Len(d)
    BY <2>2, <2>3
  <2> QED
    BY <2>4 DEF b, d
<1> HIDE DEF z
<1>3. Own(p, z, Bindings(p)) = Own(q, y, Bindings(q))
  BY <1>1, <1>2 DEF Own
<1> QED
  BY <1>3 DEF z

LEMMA OutputsReads ==
  ASSUME NEW q, Ordered(q), NEW x \in DOMAIN q, NEW p, Ordered(p), NEW n, InsertOf(q, p, x, n),
         NEW y \in DOMAIN q, NEW f, NEW g, ReadsBeneath(q, p, x, n, y, f, g), ReadsOwn(q, p, x, n, y, f, g)
  PROVE  Reads(p, Place(y, x, n), g, q, y, f)
<1> DEFINE z == Place(y, x, n)
           b(k) == IF k \in Passed(p[z]) THEN Bindings(p)[p[z].kids[k]] ELSE <<>>
           d(k) == IF k \in Passed(q[y]) THEN Bindings(q)[q[y].kids[k]] ELSE <<>>
           c == [i \in 1 .. Own(p, z, Bindings(p)) |-> <<z, i>>]
           e == [i \in 1 .. Own(q, y, Bindings(q)) |-> <<y, i>>]
           S == ColumnsTo(p, z)
           T == ColumnsTo(q, y)
<1>1. z \in DOMAIN p /\ z \in Nat /\ y \in Nat /\ Passed(p[z]) = Passed(q[y]) /\ Passed(q[y]) \subseteq DOMAIN q[y].kids
  <2>1. z \in DOMAIN p /\ p[z].op = q[y].op /\ p[z].of = q[y].of
    BY InsertPlaces
  <2>2. Passed(q[y]) \subseteq DOMAIN q[y].kids
    BY DEF Ordered
  <2>3. z \in Nat /\ y \in Nat
    BY <2>1, Places
  <2> HIDE DEF z
  <2> QED
    BY <2>1, <2>2, <2>3 DEF Passed
<1>2. ASSUME NEW k PROVE TextsOf(b(k), g) = TextsOf(d(k), f) /\ b(k) \in Seq(S) /\ d(k) \in Seq(T)
  <2>1. CASE k \in Passed(q[y])
    <3>1. TextsOf(b(k), g) = TextsOf(d(k), f) /\ b(k) \in Seq(ColumnsTo(p, z - 1)) /\ d(k) \in Seq(ColumnsTo(q, y - 1))
      BY <1>1, <2>1, KidReads
    <3>2. ColumnsTo(p, z - 1) \subseteq S /\ ColumnsTo(q, y - 1) \subseteq T
      BY <1>1 DEF ColumnsTo
    <3> HIDE DEF b, d, S, T, z
    <3> QED
      BY <3>1, <3>2
  <2>2. CASE k \notin Passed(q[y])
    <3>1. TextsOf(<<>>, g) = TextsOf(<<>>, f)
      BY ReadsIs
    <3> QED
      BY <1>1, <2>2, <3>1
  <2> QED
    BY <2>1, <2>2
<1>3. /\ TextsOf(b(1), g) = TextsOf(d(1), f) /\ b(1) \in Seq(S) /\ d(1) \in Seq(T)
      /\ TextsOf(b(2), g) = TextsOf(d(2), f) /\ b(2) \in Seq(S) /\ d(2) \in Seq(T)
  BY <1>2
<1>4. Own(p, z, Bindings(p)) = Own(q, y, Bindings(q)) /\ Own(q, y, Bindings(q)) \in Nat
  BY OwnReads, BindingsTyped
<1>5. TextsOf(c, g) = TextsOf(e, f)
  <2>1. DOMAIN c = DOMAIN e /\ \A i \in DOMAIN e : c[i] = <<z, i>> /\ e[i] = <<y, i>>
    BY <1>4
  <2>2. \A i \in DOMAIN e : TextOf(<<z, i>>, g) = TextOf(<<y, i>>, f)
    BY DEF ReadsOwn
  <2> HIDE DEF c, e, z
  <2>3. \A i \in DOMAIN e : TextOf(c[i], g) = TextOf(e[i], f)
    BY <2>1, <2>2
  <2> QED
    BY <2>1, <2>3, ReadsIs
<1>6. c \in Seq(S) /\ e \in Seq(T)
  <2>1. ASSUME NEW i \in 1 .. Own(q, y, Bindings(q)) PROVE <<z, i>> \in S /\ <<y, i>> \in T
    <3>1. z \in 1 .. z /\ y \in 1 .. y /\ i \in Nat
      BY <1>1, <1>4, Places
    <3> HIDE DEF z
    <3> QED
      BY <1>4, <2>1, <3>1 DEF ColumnsTo
  <2> HIDE DEF S, T, z
  <2> QED
    BY <1>4, <2>1
<1>7. OutputsBy(p, z, Bindings(p)) = (b(1) \o b(2)) \o c /\ OutputsBy(q, y, Bindings(q)) = (d(1) \o d(2)) \o e
  BY DEF OutputsBy
<1>8. Bindings(p)[z] = OutputsBy(p, z, Bindings(p)) /\ Bindings(q)[y] = OutputsBy(q, y, Bindings(q))
  BY <1>1, BindingsBy
<1> HIDE DEF b, c, d, e, S, T, z
<1>9. TextsOf(b(1) \o b(2), g) = TextsOf(d(1) \o d(2), f) /\ b(1) \o b(2) \in Seq(S) /\ d(1) \o d(2) \in Seq(T)
  <2>1. TextsOf(b(1) \o b(2), g) = TextsOf(d(1) \o d(2), f)
    BY <1>3, ConcatTexts
  <2> QED
    BY <1>3, <2>1
<1>10. TextsOf((b(1) \o b(2)) \o c, g) = TextsOf((d(1) \o d(2)) \o e, f)
  <2> DEFINE u == b(1) \o b(2)
             v == d(1) \o d(2)
  <2>1. u \in Seq(S) /\ v \in Seq(T) /\ TextsOf(u, g) = TextsOf(v, f)
    BY <1>9
  <2> HIDE DEF u, v
  <2>2. TextsOf(u \o c, g) = TextsOf(v \o e, f)
    BY <1>5, <1>6, <2>1, ConcatTexts
  <2> QED
    BY <2>2 DEF u, v
<1> QED
  BY <1>7, <1>8, <1>10 DEF Reads, z

-----------------------------------------------------------------------------
(* The operators put in by a reshape.                                      *)

\* What each way of reshaping puts in above x, over w columns.
Passing(p, x, n) == n = 1 /\ p[x + 1] = Operator("pass", "none", <<>>, <<x>>)
Projecting(p, x, n, w) == n = 1 /\ p[x + 1] = Operator("project", "none", Refs(w), <<x>>)
Referring(p, x, n, w, name) ==
  /\ n = 2
  /\ p[x + 1] = [op |-> "cteref", of |-> name, exprs |-> <<>>, kids |-> <<>>, width |-> w]
  /\ p[x + 2] = Operator("cte", name, <<>>, <<x, x + 1>>)
Semijoining(p, x, n, t) ==
  /\ n = 2
  /\ p[x + 1] = Operator("get", t, <<>>, <<>>)
  /\ p[x + 2] = Operator("join", "semi", <<>>, <<x, x + 1>>)
Joining(p, x, n, w, t) ==
  /\ n = 3
  /\ p[x + 1] = Operator("get", t, <<>>, <<>>)
  /\ p[x + 2] = Operator("join", "inner", <<>>, <<x, x + 1>>)
  /\ p[x + 3] = Operator("project", "none", Refs(w), <<x + 2>>)
Wraps(p, x, n, w, name) ==
  \/ Passing(p, x, n)
  \/ Projecting(p, x, n, w)
  \/ Referring(p, x, n, w, name)
  \/ \E t \in DOMAIN Tables : Semijoining(p, x, n, t) \/ Joining(p, x, n, w, t)

LEMMA ReshapedWraps ==
  ASSUME NEW q, Ordered(q), NEW x \in DOMAIN q, NEW new \in Reshaped(q, x)
  PROVE  /\ Len(new) \in Nat
         /\ Wraps(Insert(q, x, new), x, Len(new), Len(Bindings(q)[x]), landings)
<1> DEFINE w == Len(Bindings(q)[x])
           all == Refs(w)
           get(t) == Operator("get", t, <<>>, <<>>)
           p == Insert(q, x, new)
           ref == [op |-> "cteref", of |-> landings, exprs |-> <<>>, kids |-> <<>>, width |-> w]
<1>1. w \in Nat /\ x \in Nat
  <2>1. Bindings(q)[x] \in Seq(ColumnsTo(q, x))
    BY BindingsTyped
  <2> HIDE DEF w
  <2>2. Len(Bindings(q)[x]) \in Nat
    BY <2>1
  <2> QED
    BY <2>2, Places DEF w
<1> HIDE DEF w
<1>2. Len(all) = w
  BY <1>1 DEF Refs
<1>3. [Operator("cteref", landings, <<>>, <<>>) EXCEPT !.width = Len(all)] = ref
  BY <1>2 DEF Operator
<1>4. \/ new = <<Operator("pass", "none", <<>>, <<x>>)>>
      \/ new = <<Operator("project", "none", all, <<x>>)>>
      \/ new = <<ref, Operator("cte", landings, <<>>, <<x, x + 1>>)>>
      \/ \E t \in DOMAIN Tables : new = <<get(t), Operator("join", "semi", <<>>, <<x, x + 1>>)>>
      \/ \E t \in DOMAIN Tables :
           new = <<get(t), Operator("join", "inner", <<>>, <<x, x + 1>>), Operator("project", "none", all, <<x + 2>>)>>
  BY <1>3 DEF Reshaped, w
<1> HIDE DEF all, get, p, ref
<1>5. ASSUME Len(new) \in Nat PROVE \A i \in 1 .. Len(new) : p[x + i] = new[i]
  BY <1>5, InsertIs DEF p
<1>6. ASSUME Len(new) = 1 PROVE p[x + 1] = new[1]
  <2>1. Len(new) \in Nat /\ 1 \in 1 .. Len(new)
    BY <1>6
  <2> QED
    BY <1>5, <2>1
<1>7. ASSUME Len(new) = 3 PROVE p[x + 1] = new[1] /\ p[x + 2] = new[2] /\ p[x + 3] = new[3]
  <2>1. Len(new) \in Nat /\ 1 \in 1 .. Len(new) /\ 2 \in 1 .. Len(new) /\ 3 \in 1 .. Len(new)
    BY <1>7
  <2> QED
    BY <1>5, <2>1
<1>8. CASE new = <<Operator("pass", "none", <<>>, <<x>>)>>
  <2>1. Len(new) = 1 /\ new[1] = Operator("pass", "none", <<>>, <<x>>)
    BY <1>8
  <2>2. Len(new) = 1
    BY <2>1, Zenon
  <2>3. Passing(p, x, Len(new))
    <3>1. p[x + 1] = new[1]
      BY <1>6, <2>1
    <3> QED
      BY <2>1, <3>1 DEF Passing
  <2>4. Wraps(p, x, Len(new), w, landings)
    BY <2>3 DEF Wraps
  <2>5. Len(new) \in Nat
    BY <2>2
  <2> QED
    BY <2>4, <2>5 DEF p, w
<1>9. CASE new = <<Operator("project", "none", all, <<x>>)>>
  <2>1. Len(new) = 1 /\ new[1] = Operator("project", "none", all, <<x>>)
    BY <1>9
  <2>2. Len(new) = 1
    BY <2>1, Zenon
  <2>3. Projecting(p, x, Len(new), w)
    <3>1. p[x + 1] = new[1]
      BY <1>6, <2>1
    <3> QED
      BY <2>1, <3>1 DEF Projecting, all
  <2>4. Wraps(p, x, Len(new), w, landings)
    BY <2>3 DEF Wraps
  <2>5. Len(new) \in Nat
    BY <2>2
  <2> QED
    BY <2>4, <2>5 DEF p, w
<1>10. CASE new = <<ref, Operator("cte", landings, <<>>, <<x, x + 1>>)>>
  <2>1. Len(new) = 2 /\ new[1] = ref /\ new[2] = Operator("cte", landings, <<>>, <<x, x + 1>>)
    BY <1>10
  <2>2. Referring(p, x, Len(new), w, landings)
    BY <1>5, <2>1 DEF Referring, ref
  <2> QED
    BY <2>1, <2>2 DEF Wraps, p, w
<1>11. ASSUME NEW t \in DOMAIN Tables, new = <<get(t), Operator("join", "semi", <<>>, <<x, x + 1>>)>>
      PROVE  Len(new) = 2 /\ Semijoining(p, x, Len(new), t)
  <2>1. Len(new) = 2 /\ new[1] = get(t) /\ new[2] = Operator("join", "semi", <<>>, <<x, x + 1>>)
    BY <1>11
  <2> QED
    BY <1>5, <2>1 DEF Semijoining, get
<1>12. ASSUME NEW t \in DOMAIN Tables,
              new = <<get(t), Operator("join", "inner", <<>>, <<x, x + 1>>), Operator("project", "none", all, <<x + 2>>)>>
       PROVE  Len(new) = 3 /\ Joining(p, x, Len(new), w, t)
  <2>1. /\ Len(new) = 3 /\ new[1] = get(t) /\ new[2] = Operator("join", "inner", <<>>, <<x, x + 1>>)
        /\ new[3] = Operator("project", "none", all, <<x + 2>>)
    BY <1>12
  <2>2. p[x + 1] = new[1] /\ p[x + 2] = new[2] /\ p[x + 3] = new[3]
    BY <1>7, <2>1
  <2> QED
    BY <2>1, <2>2 DEF Joining, get, all
<1>13. CASE \E t \in DOMAIN Tables : new = <<get(t), Operator("join", "semi", <<>>, <<x, x + 1>>)>>
  <2>1. Len(new) = 2 /\ \E t \in DOMAIN Tables : Semijoining(p, x, Len(new), t)
    BY <1>11, <1>13
  <2> QED
    BY <2>1 DEF Wraps, p, w
<1>14. CASE \E t \in DOMAIN Tables :
              new = <<get(t), Operator("join", "inner", <<>>, <<x, x + 1>>), Operator("project", "none", all, <<x + 2>>)>>
  <2>1. Len(new) = 3 /\ \E t \in DOMAIN Tables : Joining(p, x, Len(new), w, t)
    BY <1>12, <1>14
  <2> QED
    BY <2>1 DEF Wraps, p, w
<1> QED
  BY <1>4, <1>8, <1>9, <1>10, <1>13, <1>14

\* A reference to a column alone.
LEMMA RefIs ==
  ASSUME NEW a \in Nat, NEW i \in 1 .. a
  PROVE  /\ IsExpression(Ref(i), a)
         /\ RefsOf(Ref(i)) = {i}
         /\ \A b, texts : Text(Ref(i), b, texts) = TextOf(b[i], texts)
<1> DEFINE e == Ref(i)
<1>1. Len(e) = 1 /\ DOMAIN e = {1} /\ e[1] = [class |-> "ref", word |-> i, args |-> <<>>]
  BY DEF Ref
<1>2. e = [n \in 1 .. 1 |-> e[n]]
  BY DEF Ref
<1> HIDE DEF e
<1>3. e[1].class = "ref" /\ e[1].word = i /\ e[1].args = <<>>
  BY <1>1
<1>4. IsNode(e, 1, a)
  <2>1. <<>> \in Seq(1 .. 1 - 1)
    OBVIOUS
  <2>2. e[1].args \in Seq(1 .. 1 - 1)
    BY <1>3, <2>1
  <2> QED
    BY <1>1, <1>3, <2>2 DEF IsNode, Classes
<1>5. IsExpression(e, a)
  <2>1. Len(e) \in Nat \ {0} /\ e = [n \in 1 .. Len(e) |-> e[n]]
    BY <1>1, <1>2
  <2>2. \A n \in DOMAIN e : IsNode(e, n, a)
    BY <1>1, <1>4
  <2> QED
    BY <2>1, <2>2, ByNodes
<1>6. RefsOf(e) = {i}
  BY <1>1, <1>3 DEF RefsOf
<1>7. ASSUME NEW b, NEW texts PROVE Text(e, b, texts) = TextOf(b[i], texts)
  <2>1. PICK node : NodeTexts(e, b, texts, node) /\ Text(e, b, texts) = node[Len(e)]
    BY <1>5, TextBy
  <2>2. node[1] = NodeText(e, 1, b, texts, node)
    BY <1>1, <2>1 DEF NodeTexts
  <2>3. NodeText(e, 1, b, texts, node) = TextOf(b[i], texts)
    BY <1>3 DEF NodeText
  <2> QED
    BY <1>1, <2>1, <2>2, <2>3
<1> QED
  BY <1>5, <1>6, <1>7 DEF e

LEMMA RefsIs ==
  ASSUME NEW w \in Nat
  PROVE  /\ Len(Refs(w)) = w /\ DOMAIN Refs(w) = 1 .. w /\ Refs(w) = [i \in 1 .. w |-> Refs(w)[i]]
         /\ \A i \in 1 .. w : Refs(w)[i] = Ref(i)
  BY DEF Refs

\* They are operators over x and each other.
LEMMA WrapOperators ==
  ASSUME NEW p, NEW x \in Nat \ {0}, NEW n, NEW w \in Nat, NEW name, Wraps(p, x, n, w, name)
  PROVE  n \in Nat \ {0} /\ \A i \in 1 .. n : IsOperator(p, x + i)
<1>1. /\ <<x>> \in Seq(1 .. x + 1 - 1) /\ Len(<<x>>) = 1 /\ DOMAIN <<x>> = {1}
      /\ <<x, x + 1>> \in Seq(1 .. x + 2 - 1) /\ Len(<<x, x + 1>>) = 2 /\ DOMAIN <<x, x + 1>> = {1, 2}
      /\ <<x + 2>> \in Seq(1 .. x + 3 - 1) /\ Len(<<x + 2>>) = 1 /\ DOMAIN <<x + 2>> = {1}
      /\ <<>> \in Seq(1 .. x + 1 - 1)
  OBVIOUS
<1>2. Len(<<>>) = 0 /\ <<>> = [i \in 1 .. Len(<<>>) |-> <<>>[i]]
  OBVIOUS
<1>3. Len(Refs(w)) \in Nat /\ Refs(w) = [i \in 1 .. Len(Refs(w)) |-> Refs(w)[i]]
  BY RefsIs
<1>4. ASSUME Passing(p, x, n) PROVE n = 1 /\ IsOperator(p, x + 1)
  <2> DEFINE v == p[x + 1]
             z == x + 1
             kids == <<x>>
  <2>1. n = 1 /\ v = Operator("pass", "none", <<>>, kids) /\ p[z] = v
    BY <1>4 DEF Passing
  <2>2. kids \in Seq(1 .. z - 1) /\ Len(kids) = 1 /\ DOMAIN kids = {1}
    BY <1>1
  <2> HIDE DEF v, z, kids
  <2>3. /\ v.op = "pass" /\ v.exprs = <<>> /\ v.kids = kids /\ v.width = 0
        /\ v = [op |-> v.op, of |-> v.of, exprs |-> v.exprs, kids |-> v.kids, width |-> v.width]
    BY <2>1 DEF Operator
  <2>4. Passed(v) = {1}
    BY <2>3 DEF Passed
  <2>5. /\ p[z].op = "pass" /\ p[z].exprs = <<>> /\ p[z].kids = kids /\ p[z].width = 0 /\ Passed(p[z]) = {1}
        /\ p[z] = [op |-> p[z].op, of |-> p[z].of, exprs |-> p[z].exprs, kids |-> p[z].kids, width |-> p[z].width]
    BY <2>1, <2>3, <2>4
  <2>6. Len(p[z].exprs) \in Nat /\ p[z].exprs = [i \in 1 .. Len(p[z].exprs) |-> p[z].exprs[i]]
    BY <1>2, <2>5
  <2>7. p[z].kids \in Seq(1 .. z - 1) /\ Len(p[z].kids) <= 2 /\ 1 \in DOMAIN p[z].kids
    <3>1. p[z].kids = kids
      BY <2>5
    <3>2. Len(kids) <= 2 /\ 1 \in DOMAIN kids
      BY <2>2
    <3> QED
      BY <2>2, <3>1, <3>2
  <2>8. IsOperator(p, z)
    BY <2>5, <2>6, <2>7 DEF IsOperator, Ops, Computing
  <2> QED
    BY <2>1, <2>8 DEF z
<1>5. ASSUME NEW z, NEW kids, p[z] = Operator("project", "none", Refs(w), kids), kids \in Seq(1 .. z - 1), Len(kids) = 1
      PROVE  IsOperator(p, z)
  <2> DEFINE v == p[z]
  <2>1. v = Operator("project", "none", Refs(w), kids) /\ p[z] = v
    BY <1>5
  <2> HIDE DEF v
  <2>2. /\ v.op = "project" /\ v.exprs = Refs(w) /\ v.kids = kids /\ v.width = 0
        /\ v = [op |-> v.op, of |-> v.of, exprs |-> v.exprs, kids |-> v.kids, width |-> v.width]
    BY <2>1 DEF Operator
  <2>3. Passed(v) = {}
    BY <2>2 DEF Passed
  <2>4. /\ p[z].op = "project" /\ p[z].exprs = Refs(w) /\ p[z].kids = kids /\ p[z].width = 0 /\ Passed(p[z]) = {}
        /\ p[z] = [op |-> p[z].op, of |-> p[z].of, exprs |-> p[z].exprs, kids |-> p[z].kids, width |-> p[z].width]
    BY <2>1, <2>2, <2>3
  <2>5. kids \in Seq(1 .. z - 1) /\ Len(kids) <= 2
    BY <1>5
  <2> QED
    BY <1>3, <2>4, <2>5 DEF IsOperator, Ops, Computing
<1>6. ASSUME Projecting(p, x, n, w) PROVE n = 1 /\ IsOperator(p, x + 1)
  <2> DEFINE z == x + 1
             kids == <<x>>
  <2>1. n = 1 /\ p[z] = Operator("project", "none", Refs(w), kids)
    BY <1>6 DEF Projecting
  <2>2. kids \in Seq(1 .. z - 1) /\ Len(kids) = 1
    BY <1>1
  <2> HIDE DEF z, kids
  <2>3. IsOperator(p, z)
    BY <1>5, <2>1, <2>2
  <2> QED
    BY <2>1, <2>3 DEF z
<1>7. ASSUME NEW t \in DOMAIN Tables, p[x + 1] = Operator("get", t, <<>>, <<>>) PROVE IsOperator(p, x + 1)
  <2>1. /\ p[x + 1].op = "get" /\ p[x + 1].of = t /\ p[x + 1].exprs = <<>> /\ p[x + 1].kids = <<>> /\ p[x + 1].width = 0
        /\ p[x + 1] = [op |-> "get", of |-> t, exprs |-> <<>>, kids |-> <<>>, width |-> 0]
    BY <1>7 DEF Operator
  <2>2. Passed(p[x + 1]) = {}
    BY <2>1 DEF Passed
  <2> QED
    BY <1>1, <1>2, <2>1, <2>2 DEF IsOperator, Ops, Computing
<1>8. ASSUME NEW of, p[x + 2] = Operator("join", of, <<>>, <<x, x + 1>>), of \in {"semi", "inner"} PROVE IsOperator(p, x + 2)
  <2>1. /\ p[x + 2].op = "join" /\ p[x + 2].exprs = <<>> /\ p[x + 2].kids = <<x, x + 1>> /\ p[x + 2].width = 0
        /\ p[x + 2] = [op |-> "join", of |-> p[x + 2].of, exprs |-> <<>>, kids |-> <<x, x + 1>>, width |-> 0]
    BY <1>8 DEF Operator
  <2>2. Passed(p[x + 2]) \subseteq {1, 2}
    BY <2>1 DEF Passed
  <2> QED
    BY <1>1, <1>2, <2>1, <2>2 DEF IsOperator, Ops, Computing
<1>9. ASSUME Referring(p, x, n, w, name) PROVE n = 2 /\ IsOperator(p, x + 1) /\ IsOperator(p, x + 2)
  <2>1. /\ n = 2
        /\ p[x + 1].op = "cteref" /\ p[x + 1].exprs = <<>> /\ p[x + 1].kids = <<>> /\ p[x + 1].width = w
        /\ p[x + 1] = [op |-> "cteref", of |-> p[x + 1].of, exprs |-> <<>>, kids |-> <<>>, width |-> w]
    BY <1>9 DEF Referring
  <2>2. /\ p[x + 2].op = "cte" /\ p[x + 2].exprs = <<>> /\ p[x + 2].kids = <<x, x + 1>> /\ p[x + 2].width = 0
        /\ p[x + 2] = [op |-> "cte", of |-> p[x + 2].of, exprs |-> <<>>, kids |-> <<x, x + 1>>, width |-> 0]
    BY <1>9 DEF Referring, Operator
  <2>3. Passed(p[x + 1]) = {} /\ Passed(p[x + 2]) = {2}
    BY <2>1, <2>2 DEF Passed
  <2>4. IsOperator(p, x + 1)
    BY <1>1, <1>2, <2>1, <2>3 DEF IsOperator, Ops, Computing
  <2>5. IsOperator(p, x + 2)
    BY <1>1, <1>2, <2>2, <2>3 DEF IsOperator, Ops, Computing
  <2> QED
    BY <2>1, <2>4, <2>5
<1>10. ASSUME NEW t \in DOMAIN Tables, Semijoining(p, x, n, t) PROVE n = 2 /\ IsOperator(p, x + 1) /\ IsOperator(p, x + 2)
  BY <1>7, <1>8, <1>10 DEF Semijoining
<1>11. ASSUME NEW t \in DOMAIN Tables, Joining(p, x, n, w, t)
       PROVE  n = 3 /\ IsOperator(p, x + 1) /\ IsOperator(p, x + 2) /\ IsOperator(p, x + 3)
  <2> DEFINE z == x + 3
             kids == <<x + 2>>
  <2>1. n = 3 /\ p[z] = Operator("project", "none", Refs(w), kids)
    BY <1>11 DEF Joining
  <2>2. kids \in Seq(1 .. z - 1) /\ Len(kids) = 1
    BY <1>1
  <2>3. IsOperator(p, z)
    <3> HIDE DEF z, kids
    <3> QED
      BY <1>5, <2>1, <2>2
  <2>4. IsOperator(p, x + 1) /\ IsOperator(p, x + 2)
    BY <1>7, <1>8, <1>11 DEF Joining
  <2> QED
    BY <2>1, <2>3, <2>4
<1>12. \/ n = 1 /\ IsOperator(p, x + 1)
       \/ n = 2 /\ IsOperator(p, x + 1) /\ IsOperator(p, x + 2)
       \/ n = 3 /\ IsOperator(p, x + 1) /\ IsOperator(p, x + 2) /\ IsOperator(p, x + 3)
  BY <1>4, <1>6, <1>9, <1>10, <1>11 DEF Wraps
<1>13. CASE n = 1 /\ IsOperator(p, x + 1)
  BY <1>13
<1>14. CASE n = 2 /\ IsOperator(p, x + 1) /\ IsOperator(p, x + 2)
  <2>1. \A i \in 1 .. 2 : i = 1 \/ i = 2
    OBVIOUS
  <2> QED
    BY <1>14, <2>1
<1>15. CASE n = 3 /\ IsOperator(p, x + 1) /\ IsOperator(p, x + 2) /\ IsOperator(p, x + 3)
  <2>1. \A i \in 1 .. 3 : i = 1 \/ i = 2 \/ i = 3
    OBVIOUS
  <2> QED
    BY <1>15, <2>1
<1> QED
  BY <1>12, <1>13, <1>14, <1>15

\* What the operators of a reshape put out, and what is beneath them.
LEMMA OutputsOf ==
  ASSUME NEW p, Ordered(p), NEW z \in DOMAIN p
  PROVE  /\ p[z].op = "pass" \/ (p[z].op = "join" /\ p[z].of = "semi") => Bindings(p)[z] = Bindings(p)[p[z].kids[1]]
         /\ p[z].op = "join" /\ p[z].of = "inner" =>
              Bindings(p)[z] = Bindings(p)[p[z].kids[1]] \o Bindings(p)[p[z].kids[2]]
         /\ p[z].op = "cte" => Bindings(p)[z] = Bindings(p)[p[z].kids[2]]
         /\ p[z].op = "cteref" => Own(p, z, Bindings(p)) = p[z].width
         /\ p[z].op = "project" => Own(p, z, Bindings(p)) = Len(p[z].exprs)
         /\ p[z].op \in {"cteref", "project"} => Bindings(p)[z] = [i \in 1 .. Own(p, z, Bindings(p)) |-> <<z, i>>]
<1> DEFINE B == Bindings(p)
           b(k) == IF k \in Passed(p[z]) THEN B[p[z].kids[k]] ELSE <<>>
           c == [i \in 1 .. Own(p, z, B) |-> <<z, i>>]
           S == ColumnsTo(p, z - 1)
           made == p[z].op
           of == p[z].of
           exprs == p[z].exprs
           one == B[p[z].kids[1]]
           two == B[p[z].kids[2]]
           own == Own(p, z, B)
<1>1. B[z] = (b(1) \o b(2)) \o c
  BY BindingsBy DEF OutputsBy
<1>2. exprs = <<>> \/ made \in Computing
  BY DEF Ordered
<1>3. own \in Nat
  BY BindingsTyped
<1>4. ASSUME NEW k \in Passed(p[z]) PROVE B[p[z].kids[k]] \in Seq(S)
  <2>1. p[z].kids[k] \in 1 .. z - 1
    BY Places DEF Ordered
  <2> QED
    BY <2>1, OutputsBefore
<1>5. Passed(p[z]) = CASE made = "cte" -> {2}
    [] made = "join" -> IF of \in {"mark", "semi"} THEN {1} ELSE {1, 2}
    [] made \in {"window", "unnest", "pass", "unfollowed"} -> {1}
    [] OTHER -> {}
  BY DEF Passed
<1>6. /\ made \in {"pass", "cte"} => own = Len(exprs)
      /\ made = "join" /\ of # "mark" => own = 0
      /\ made = "cteref" => own = p[z].width
      /\ made = "project" => own = Len(exprs)
  BY DEF Own
<1>7. own = 0 => c = <<>>
  OBVIOUS
<1>8. /\ 1 \in Passed(p[z]) => b(1) = one /\ one \in Seq(S)
      /\ 2 \in Passed(p[z]) => b(2) = two /\ two \in Seq(S)
      /\ 1 \notin Passed(p[z]) => b(1) = <<>>
      /\ 2 \notin Passed(p[z]) => b(2) = <<>>
  BY <1>4
<1> HIDE DEF b, c, S, one, two, own, made, of, exprs, B
<1>9. ASSUME made = "pass" \/ (made = "join" /\ of = "semi") PROVE B[z] = one
  <2>1. b(1) = one /\ one \in Seq(S) /\ b(2) = <<>>
    BY <1>5, <1>8, <1>9
  <2>2. c = <<>>
    BY <1>2, <1>6, <1>7, <1>9 DEF Computing
  <2>3. (one \o <<>>) \o <<>> = one
    BY <2>1
  <2> QED
    BY <1>1, <2>1, <2>2, <2>3
<1>10. ASSUME made = "join", of = "inner" PROVE B[z] = one \o two
  <2>1. b(1) = one /\ one \in Seq(S) /\ b(2) = two /\ two \in Seq(S)
    BY <1>5, <1>8, <1>10
  <2>2. c = <<>>
    BY <1>6, <1>7, <1>10
  <2>3. (one \o two) \o <<>> = one \o two
    BY <2>1
  <2> QED
    BY <1>1, <2>1, <2>2, <2>3
<1>11. ASSUME made = "cte" PROVE B[z] = two
  <2>1. b(2) = two /\ two \in Seq(S) /\ b(1) = <<>>
    BY <1>5, <1>8, <1>11
  <2>2. c = <<>>
    BY <1>2, <1>6, <1>7, <1>11 DEF Computing
  <2>3. (<<>> \o two) \o <<>> = two
    BY <2>1
  <2> QED
    BY <1>1, <2>1, <2>2, <2>3
<1>12. ASSUME made \in {"cteref", "project"} PROVE B[z] = c
  <2>1. b(2) = <<>> /\ b(1) = <<>>
    BY <1>5, <1>8, <1>12
  <2>2. (<<>> \o <<>>) \o c = c
    BY <1>3 DEF c
  <2> QED
    BY <1>1, <2>1, <2>2
<1> QED
  BY <1>6, <1>9, <1>10, <1>11, <1>12 DEF made, of, exprs, one, two, own, c, B

LEMMA BeneathOne ==
  ASSUME NEW p, Ordered(p), NEW z \in DOMAIN p, NEW k, p[z].kids = <<k>>
  PROVE  Beneath(p, z, Bindings(p)) = Bindings(p)[k]
<1> DEFINE b == Bindings(p)[k]
<1>1. Beneath(p, z, Bindings(p)) = b \o <<>>
  BY DEF Beneath
<1>2. p[z].kids[1] = k /\ 1 \in DOMAIN p[z].kids
  OBVIOUS
<1>3. b \in Seq(ColumnsTo(p, z - 1))
  <2>1. k \in 1 .. z - 1
    BY <1>2, Places
  <2> QED
    BY <2>1, OutputsBefore
<1> HIDE DEF b
<1>4. b \o <<>> = b
  BY <1>3
<1> QED
  BY <1>1, <1>4 DEF b

LEMMA PassOut ==
  ASSUME NEW p, Ordered(p), NEW z \in DOMAIN p, NEW k, p[z].kids[1] = k,
         p[z].op = "pass" \/ (p[z].op = "join" /\ p[z].of = "semi")
  PROVE  Bindings(p)[z] = Bindings(p)[k] /\ p[z].exprs = <<>>
<1>1. p[z].exprs = <<>>
  BY DEF Ordered, Computing
<1>2. Bindings(p)[z] = Bindings(p)[p[z].kids[1]]
  BY OutputsOf
<1> QED
  BY <1>1, <1>2

LEMMA CteOut ==
  ASSUME NEW p, Ordered(p), NEW z \in DOMAIN p, NEW l, p[z].kids[2] = l, p[z].op = "cte"
  PROVE  Bindings(p)[z] = Bindings(p)[l] /\ p[z].exprs = <<>>
<1>1. p[z].exprs = <<>>
  BY DEF Ordered, Computing
<1>2. Bindings(p)[z] = Bindings(p)[p[z].kids[2]]
  BY OutputsOf
<1> QED
  BY <1>1, <1>2

LEMMA RefOut ==
  ASSUME NEW p, Ordered(p), NEW z \in DOMAIN p, NEW w \in Nat, p[z].width = w, p[z].op = "cteref"
  PROVE  Own(p, z, Bindings(p)) = w /\ Bindings(p)[z] = [j \in 1 .. w |-> <<z, j>>] /\ p[z].exprs = <<>>
<1>1. p[z].exprs = <<>>
  BY DEF Ordered, Computing
<1>2. Own(p, z, Bindings(p)) = w
  BY OutputsOf
<1>3. Bindings(p)[z] = [i \in 1 .. Own(p, z, Bindings(p)) |-> <<z, i>>]
  BY OutputsOf
<1> QED
  BY <1>1, <1>2, <1>3

\* A projection of all the columns beneath, or of the first of them.
LEMMA ProjectOut ==
  ASSUME NEW p, Ordered(p), NEW z \in DOMAIN p, NEW w \in Nat, NEW k,
         p[z].op = "project", p[z].exprs = Refs(w), p[z].kids = <<k>>, w <= Len(Bindings(p)[k])
  PROVE  /\ Own(p, z, Bindings(p)) = w /\ Bindings(p)[z] = [i \in 1 .. w |-> <<z, i>>]
         /\ Beneath(p, z, Bindings(p)) = Bindings(p)[k]
         /\ \A i \in DOMAIN p[z].exprs :
              /\ IsExpression(p[z].exprs[i], Len(Beneath(p, z, Bindings(p))))
              /\ p[z].exprs[i] = Ref(i) /\ i \in 1 .. w
<1>1. Len(p[z].exprs) = w /\ DOMAIN p[z].exprs = 1 .. w /\ \A i \in 1 .. w : p[z].exprs[i] = Ref(i)
  BY RefsIs
<1>2. Own(p, z, Bindings(p)) = w
  BY <1>1, OutputsOf
<1>3. Bindings(p)[z] = [i \in 1 .. w |-> <<z, i>>]
  BY <1>2, OutputsOf
<1>4. Beneath(p, z, Bindings(p)) = Bindings(p)[k]
  BY BeneathOne
<1>5. Bindings(p)[k] \in Seq(ColumnsTo(p, z - 1))
  BY <1>4, BeneathTyped
<1>6. ASSUME NEW i \in 1 .. w PROVE IsExpression(Ref(i), Len(Bindings(p)[k]))
  <2>1. Len(Bindings(p)[k]) \in Nat
    BY <1>5
  <2>2. i \in 1 .. Len(Bindings(p)[k])
    BY <2>1
  <2> QED
    BY <2>1, <2>2, RefIs
<1> QED
  BY <1>1, <1>2, <1>3, <1>4, <1>6

LEMMA ProjectReads ==
  ASSUME NEW p, Ordered(p), NEW z \in DOMAIN p, NEW w \in Nat, NEW k,
         p[z].op = "project", p[z].exprs = Refs(w), p[z].kids = <<k>>, w <= Len(Bindings(p)[k]),
         NEW ty, NEW g, Walked(p, ty, g)
  PROVE  \A i \in 1 .. w : TextOf(Bindings(p)[z][i], g) = TextOf(Bindings(p)[k][i], g)
<1> DEFINE B == Bindings(p)
<1> TAKE i \in 1 .. w
<1>1. Own(p, z, B) = w /\ B[z] = [j \in 1 .. w |-> <<z, j>>] /\ Beneath(p, z, B) = B[k] /\ p[z].exprs[i] = Ref(i)
  <2>1. i \in DOMAIN p[z].exprs
    BY RefsIs
  <2> QED
    BY <2>1, ProjectOut
<1>2. B[z][i] = <<z, i>>
  BY <1>1
<1>3. TextOf(<<z, i>>, g) = Text(p[z].exprs[i], Beneath(p, z, B), g)
  <2>1. p[z].op \in Computing /\ i \in 1 .. Own(p, z, B)
    BY <1>1 DEF Computing
  <2> QED
    BY <2>1, ColumnText
<1>4. Text(Ref(i), B[k], g) = TextOf(B[k][i], g)
  <2> DEFINE a == w
  <2>1. a \in Nat /\ i \in 1 .. a
    OBVIOUS
  <2> QED
    BY <2>1, RefIs
<1> QED
  BY <1>1, <1>2, <1>3, <1>4

\* What is put in computes no column but by a reference to one.
WrapRefs(p, x, n) ==
  \A i \in 1 .. n : \A j \in DOMAIN p[x + i].exprs :
    IsExpression(p[x + i].exprs[j], Len(Beneath(p, x + i, Bindings(p)))) /\ p[x + i].exprs[j] = Ref(j)

\* The last of them puts out as many columns as that at x.
LEMMA WrapWidth ==
  ASSUME NEW p, Ordered(p), NEW x \in DOMAIN p, NEW n, NEW w \in Nat, NEW name, Wraps(p, x, n, w, name),
         n \in Nat \ {0}, x + n \in DOMAIN p, Len(Bindings(p)[x]) = w
  PROVE  Len(Bindings(p)[x + n]) = w /\ WrapRefs(p, x, n)
<1> SUFFICES /\ Len(Bindings(p)[x + n]) = w
             /\ \A i \in 1 .. n : \A j \in DOMAIN p[x + i].exprs :
                  /\ IsExpression(p[x + i].exprs[j], Len(Beneath(p, x + i, Bindings(p))))
                  /\ p[x + i].exprs[j] = Ref(j) /\ j \in 1 .. w
  BY DEF WrapRefs
<1> DEFINE B == Bindings(p)
<1>1. x \in Nat \ {0} /\ \A i \in 1 .. n : x + i \in DOMAIN p
  BY Places
<1>2. B[x] \in Seq(ColumnsTo(p, x))
  BY BindingsTyped
<1>3. ASSUME NEW z, NEW i, z = [j \in 1 .. w |-> <<i, j>>] PROVE Len(z) = w
  BY <1>3
<1> HIDE DEF B
<1>4. CASE Passing(p, x, n)
  <2>1. n = 1 /\ p[x + 1].op = "pass" /\ p[x + 1].kids = <<x>> /\ x + 1 \in DOMAIN p
    BY <1>1, <1>4 DEF Passing, Operator
  <2>2. B[x + 1] = B[x] /\ p[x + 1].exprs = <<>>
    <3> DEFINE z == x + 1
    <3>1. z \in DOMAIN p /\ p[z].op = "pass" /\ p[z].kids[1] = x
      BY <2>1
    <3> HIDE DEF z
    <3>2. Bindings(p)[z] = Bindings(p)[x] /\ p[z].exprs = <<>>
      BY <3>1, PassOut
    <3> QED
      BY <3>2 DEF B, z
  <2> QED
    BY <2>1, <2>2 DEF B
<1>5. CASE Projecting(p, x, n, w)
  <2>1. n = 1 /\ p[x + 1].op = "project" /\ p[x + 1].exprs = Refs(w) /\ p[x + 1].kids = <<x>> /\ x + 1 \in DOMAIN p
    BY <1>1, <1>5 DEF Projecting, Operator
  <2> DEFINE z == x + 1
  <2>2. z \in DOMAIN p /\ p[z].op = "project" /\ p[z].exprs = Refs(w) /\ p[z].kids = <<x>> /\ w <= Len(Bindings(p)[x])
    BY <2>1
  <2> HIDE DEF z
  <2>3. /\ Bindings(p)[z] = [j \in 1 .. w |-> <<z, j>>]
        /\ \A j \in DOMAIN p[z].exprs :
             /\ IsExpression(p[z].exprs[j], Len(Beneath(p, z, Bindings(p))))
             /\ p[z].exprs[j] = Ref(j) /\ j \in 1 .. w
    BY <2>2, ProjectOut
  <2>4. Len(Bindings(p)[z]) = w
    BY <1>3, <2>3
  <2> QED
    BY <2>1, <2>3, <2>4 DEF z
<1>6. CASE Referring(p, x, n, w, name)
  <2> DEFINE y == x + 1
             z == x + 2
  <2>1. n = 2 /\ p[y].op = "cteref" /\ p[y].width = w /\ p[z].op = "cte" /\ p[z].kids = <<x, y>>
    BY <1>6 DEF Referring, Operator
  <2>2. y \in DOMAIN p /\ z \in DOMAIN p /\ p[z].kids[2] = y
    BY <1>1, <2>1
  <2>3. \A i \in 1 .. 2 : x + i = y \/ x + i = z
    OBVIOUS
  <2>4. x + n = z
    BY <2>1
  <2> HIDE DEF y, z
  <2>5. Bindings(p)[y] = [j \in 1 .. w |-> <<y, j>>] /\ p[y].exprs = <<>>
    BY <2>1, <2>2, RefOut
  <2>6. Bindings(p)[z] = Bindings(p)[y] /\ p[z].exprs = <<>>
    BY <2>1, <2>2, CteOut
  <2>7. Len(Bindings(p)[z]) = w
    BY <1>3, <2>5, <2>6
  <2>8. \A i \in 1 .. n : p[x + i].exprs = <<>>
    BY <2>1, <2>3, <2>5, <2>6
  <2> QED
    BY <2>4, <2>7, <2>8
<1>7. CASE \E t \in DOMAIN Tables : Semijoining(p, x, n, t)
  <2> DEFINE y == x + 1
             z == x + 2
  <2>1. n = 2 /\ p[y].exprs = <<>> /\ p[z].op = "join" /\ p[z].of = "semi" /\ p[z].kids = <<x, y>>
    BY <1>7 DEF Semijoining, Operator
  <2>2. z \in DOMAIN p /\ p[z].kids[1] = x
    BY <1>1, <2>1
  <2>3. \A i \in 1 .. 2 : x + i = y \/ x + i = z
    OBVIOUS
  <2>4. x + n = z
    BY <2>1
  <2> HIDE DEF y, z
  <2>5. Bindings(p)[z] = Bindings(p)[x] /\ p[z].exprs = <<>>
    BY <2>1, <2>2, PassOut
  <2>6. \A i \in 1 .. n : p[x + i].exprs = <<>>
    BY <2>1, <2>3, <2>5
  <2> QED
    BY <2>4, <2>5, <2>6
<1>8. CASE \E t \in DOMAIN Tables : Joining(p, x, n, w, t)
  <2> DEFINE y == x + 1
             k == x + 2
             z == x + 3
  <2>1. /\ n = 3 /\ p[y].exprs = <<>> /\ p[k].op = "join" /\ p[k].of = "inner" /\ p[k].kids = <<x, y>>
        /\ p[z].op = "project" /\ p[z].exprs = Refs(w) /\ p[z].kids = <<k>>
    <3>1. PICK t \in DOMAIN Tables : Joining(p, x, n, w, t)
      BY <1>8
    <3> QED
      BY <3>1 DEF Joining, Operator
  <2>2. y \in DOMAIN p /\ k \in DOMAIN p /\ z \in DOMAIN p
    <3>1. n = 3
      BY <2>1
    <3> QED
      BY <1>1, <3>1
  <2>3. \A i \in 1 .. 3 : x + i = y \/ x + i = k \/ x + i = z
    OBVIOUS
  <2>4. n = 3 /\ x + n = z
    <3>1. n = 3
      BY <2>1
    <3> QED
      BY <3>1
  <2> HIDE DEF y, z, k
  <2>5. Bindings(p)[k] = Bindings(p)[x] \o Bindings(p)[y] /\ p[k].exprs = <<>>
    <3>1. p[k].op = "join" /\ p[k].of = "inner" /\ p[k].kids = <<x, y>>
      BY <2>1
    <3>2. k \in DOMAIN p
      BY <2>2
    <3>3. p[k].exprs = <<>>
      BY <3>1, <3>2 DEF Ordered, Computing
    <3>4. Bindings(p)[k] = Bindings(p)[p[k].kids[1]] \o Bindings(p)[p[k].kids[2]]
      BY <3>1, <3>2, OutputsOf
    <3>5. p[k].kids[1] = x /\ p[k].kids[2] = y
      BY <3>1
    <3> QED
      BY <3>3, <3>4, <3>5
  <2>6. w <= Len(Bindings(p)[k])
    <3> DEFINE b == Bindings(p)[x]
               c == Bindings(p)[y]
    <3>1. b \in Seq(ColumnsTo(p, x)) /\ c \in Seq(ColumnsTo(p, y)) /\ Len(b) = w
      BY <2>2, BindingsTyped
    <3> HIDE DEF b, c
    <3>2. Len(b \o c) = Len(b) + Len(c) /\ Len(c) \in Nat
      BY <3>1
    <3>3. w <= Len(b \o c)
      BY <3>1, <3>2
    <3> QED
      BY <2>5, <3>3 DEF b, c
  <2>7. /\ Bindings(p)[z] = [j \in 1 .. w |-> <<z, j>>]
        /\ \A j \in DOMAIN p[z].exprs :
             /\ IsExpression(p[z].exprs[j], Len(Beneath(p, z, Bindings(p))))
             /\ p[z].exprs[j] = Ref(j) /\ j \in 1 .. w
    BY <2>1, <2>2, <2>6, ProjectOut
  <2>8. Len(Bindings(p)[z]) = w
    BY <1>3, <2>7
  <2>9. \A i \in 1 .. n : p[x + i].exprs = <<>> \/ x + i = z
    BY <2>1, <2>3, <2>4, <2>5
  <2> QED
    BY <2>4, <2>7, <2>8, <2>9
<1> QED
  BY <1>4, <1>5, <1>6, <1>7, <1>8 DEF Wraps

\* And the columns read as those at x.
LEMMA WrapReads ==
  ASSUME NEW p, Ordered(p), Named(p), NEW ty, NEW g, Walked(p, ty, g),
         NEW x \in DOMAIN p, NEW n, NEW w \in Nat, NEW name, Wraps(p, x, n, w, name),
         n \in Nat \ {0}, x + n \in DOMAIN p, Len(Bindings(p)[x]) = w
  PROVE  \A i \in 1 .. w : TextOf(Bindings(p)[x + n][i], g) = TextOf(Bindings(p)[x][i], g)
<1>1. x \in Nat \ {0} /\ \A i \in 1 .. n : x + i \in DOMAIN p
  BY Places
<1>2. Bindings(p)[x] \in Seq(ColumnsTo(p, x)) /\ DOMAIN Bindings(p)[x] = 1 .. w
  <2>1. Bindings(p)[x] \in Seq(ColumnsTo(p, x))
    BY BindingsTyped
  <2> DEFINE b == Bindings(p)[x]
  <2>2. b \in Seq(ColumnsTo(p, x)) /\ Len(b) = w
    BY <2>1
  <2> HIDE DEF b
  <2>3. DOMAIN b = 1 .. w
    BY <2>2
  <2> QED
    BY <2>1, <2>3 DEF b
<1>3. CASE Passing(p, x, n)
  <2> DEFINE z == x + 1
  <2>1. n = 1 /\ p[z].op = "pass" /\ p[z].kids = <<x>>
    BY <1>3 DEF Passing, Operator
  <2>2. z \in DOMAIN p /\ p[z].kids[1] = x /\ x + n = z
    BY <1>1, <2>1
  <2> HIDE DEF z
  <2>3. Bindings(p)[z] = Bindings(p)[x]
    BY <2>1, <2>2, PassOut
  <2> QED
    BY <2>2, <2>3
<1>4. CASE Projecting(p, x, n, w)
  <2> DEFINE z == x + 1
  <2>1. n = 1 /\ p[z].op = "project" /\ p[z].exprs = Refs(w) /\ p[z].kids = <<x>>
    BY <1>4 DEF Projecting, Operator
  <2>2. z \in DOMAIN p /\ w <= Len(Bindings(p)[x]) /\ x + n = z
    BY <1>1, <2>1
  <2> HIDE DEF z
  <2>3. \A i \in 1 .. w : TextOf(Bindings(p)[z][i], g) = TextOf(Bindings(p)[x][i], g)
    BY <2>1, <2>2, ProjectReads
  <2> QED
    BY <2>2, <2>3
<1>5. CASE Referring(p, x, n, w, name)
  <2> DEFINE y == x + 1
             z == x + 2
  <2>1. /\ n = 2 /\ p[y].op = "cteref" /\ p[y].of = name /\ p[y].width = w
        /\ p[z].op = "cte" /\ p[z].of = name /\ p[z].kids = <<x, y>>
    BY <1>5 DEF Referring, Operator
  <2>2. y \in DOMAIN p /\ z \in DOMAIN p /\ p[z].kids[2] = y /\ p[z].kids[1] = x
    BY <1>1, <2>1
  <2>3. x \in 1 .. y - 1 /\ x + n = z
    BY <1>1, <2>1
  <2> HIDE DEF y, z
  <2>4. x \in Definitions(p, y)
    BY <2>1, <2>2, <2>3 DEF Definitions
  <2>5. CteColumns(p, y, Bindings(p), g) = TextsOf(Bindings(p)[x], g)
    BY <2>2, <2>4, CteRead
  <2>6. Own(p, y, Bindings(p)) = w /\ Bindings(p)[y] = [j \in 1 .. w |-> <<y, j>>]
    BY <2>1, <2>2, RefOut
  <2>7. Bindings(p)[z] = Bindings(p)[y]
    BY <2>1, <2>2, CteOut
  <2>8. ASSUME NEW i \in 1 .. w PROVE TextOf(<<y, i>>, g) = TextOf(Bindings(p)[x][i], g)
    <3>1. TextOf(<<y, i>>, g) = CteText(i, CteColumns(p, y, Bindings(p), g))
      BY <2>1, <2>2, <2>6, ColumnText
    <3>2. i \in DOMAIN TextsOf(Bindings(p)[x], g) /\ TextsOf(Bindings(p)[x], g)[i] = TextOf(Bindings(p)[x][i], g)
      BY <1>2, TextsOfIs
    <3> QED
      BY <2>5, <3>1, <3>2 DEF CteText
  <2>9. \A i \in 1 .. w : Bindings(p)[z][i] = <<y, i>>
    BY <2>6, <2>7
  <2> QED
    BY <2>3, <2>8, <2>9
<1>6. CASE \E t \in DOMAIN Tables : Semijoining(p, x, n, t)
  <2> DEFINE z == x + 2
  <2>1. n = 2 /\ p[z].op = "join" /\ p[z].of = "semi" /\ p[z].kids = <<x, x + 1>>
    BY <1>6 DEF Semijoining, Operator
  <2>2. z \in DOMAIN p /\ p[z].kids[1] = x /\ x + n = z
    BY <1>1, <2>1
  <2> HIDE DEF z
  <2>3. Bindings(p)[z] = Bindings(p)[x]
    BY <2>1, <2>2, PassOut
  <2> QED
    BY <2>2, <2>3
<1>7. CASE \E t \in DOMAIN Tables : Joining(p, x, n, w, t)
  <2> DEFINE y == x + 1
             k == x + 2
             z == x + 3
  <2>1. /\ n = 3 /\ p[k].op = "join" /\ p[k].of = "inner" /\ p[k].kids = <<x, y>>
        /\ p[z].op = "project" /\ p[z].exprs = Refs(w) /\ p[z].kids = <<k>>
    <3>1. PICK t \in DOMAIN Tables : Joining(p, x, n, w, t)
      BY <1>7
    <3> QED
      BY <3>1 DEF Joining, Operator
  <2>2. y \in DOMAIN p /\ k \in DOMAIN p /\ z \in DOMAIN p /\ x + n = z
    <3>1. n = 3
      BY <2>1
    <3> QED
      BY <1>1, <3>1
  <2> HIDE DEF y, z, k
  <2>3. Bindings(p)[k] = Bindings(p)[x] \o Bindings(p)[y]
    <3>1. p[k].op = "join" /\ p[k].of = "inner" /\ p[k].kids = <<x, y>>
      BY <2>1
    <3>2. k \in DOMAIN p
      BY <2>2
    <3>3. Bindings(p)[k] = Bindings(p)[p[k].kids[1]] \o Bindings(p)[p[k].kids[2]]
      BY <3>1, <3>2, OutputsOf
    <3>4. p[k].kids[1] = x /\ p[k].kids[2] = y
      BY <3>1
    <3> QED
      BY <3>3, <3>4
  <2>4. w <= Len(Bindings(p)[k]) /\ \A i \in 1 .. w : Bindings(p)[k][i] = Bindings(p)[x][i]
    <3> DEFINE b == Bindings(p)[x]
               c == Bindings(p)[y]
    <3>1. b \in Seq(ColumnsTo(p, x)) /\ c \in Seq(ColumnsTo(p, y)) /\ Len(b) = w
      BY <2>2, BindingsTyped
    <3> HIDE DEF b, c
    <3>2. Len(b \o c) = Len(b) + Len(c) /\ Len(c) \in Nat /\ \A i \in 1 .. w : (b \o c)[i] = b[i]
      BY <3>1
    <3>3. w <= Len(b \o c)
      BY <3>1, <3>2
    <3> QED
      BY <2>3, <3>2, <3>3 DEF b, c
  <2>5. \A i \in 1 .. w : TextOf(Bindings(p)[z][i], g) = TextOf(Bindings(p)[k][i], g)
    BY <2>1, <2>2, <2>4, ProjectReads
  <2>6. \A i \in 1 .. w : TextOf(Bindings(p)[z][i], g) = TextOf(Bindings(p)[x][i], g)
    BY <2>4, <2>5
  <2> QED
    BY <2>2, <2>6
<1> QED
  BY <1>3, <1>4, <1>5, <1>6, <1>7 DEF Wraps

-----------------------------------------------------------------------------
(* A query reshaped.                                                       *)

OwnsRead(q, p, x, n, f, g) == \A y \in DOMAIN q : ReadsBeneath(q, p, x, n, y, f, g) => ReadsOwn(q, p, x, n, y, f, g)

\* Where each operator's own columns read as before if those beneath do, and what
\* was put in passes them on, all read as before.
LEMMA InsertReads ==
  ASSUME NEW q, Ordered(q), NEW x \in DOMAIN q, NEW p, Ordered(p), NEW n, InsertOf(q, p, x, n), NEW f, NEW g,
         OwnsRead(q, p, x, n, f, g), Reads(p, x, g, q, x, f) => Reads(p, x + n, g, q, x, f)
  PROVE  \A y \in DOMAIN q : Reads(p, At(y, x, n), g, q, y, f) /\ ReadsBeneath(q, p, x, n, y, f, g)
<1> DEFINE Bad == {y \in DOMAIN q : ~ Reads(p, At(y, x, n), g, q, y, f)}
<1>1. Len(q) \in Nat \ {0} /\ DOMAIN q = 1 .. Len(q) /\ n \in Nat
  BY InsertPlaces
<1>2. Bad = {}
  <2> SUFFICES ASSUME Bad # {} PROVE FALSE
    OBVIOUS
  <2>1. PICK y \in Bad : \A z \in Bad : y <= z
    <3>1. Bad \in SUBSET Nat
      BY <1>1
    <3> HIDE DEF Bad
    <3> QED
      BY <3>1, LeastNumber
  <2>2. y \in DOMAIN q /\ ~ Reads(p, At(y, x, n), g, q, y, f)
    OBVIOUS
  <2>3. ASSUME NEW k \in 1 .. y - 1 PROVE Reads(p, At(k, x, n), g, q, k, f)
    <3>1. k \in DOMAIN q /\ ~ y <= k
      BY <1>1, <2>2
    <3> QED
      BY <2>1, <3>1
  <2> HIDE DEF Bad
  <2>4. ReadsBeneath(q, p, x, n, y, f, g)
    BY <2>3 DEF ReadsBeneath
  <2>5. ReadsOwn(q, p, x, n, y, f, g)
    BY <2>2, <2>4 DEF OwnsRead
  <2>6. Reads(p, Place(y, x, n), g, q, y, f)
    BY <2>2, <2>4, <2>5, OutputsReads
  <2>7. (y # x => At(y, x, n) = Place(y, x, n)) /\ Place(x, x, n) = x /\ At(x, x, n) = x + n
    <3> DEFINE N == Len(q)
    <3>1. N \in Nat /\ x \in 1 .. N /\ y \in 1 .. N /\ n \in Nat
      BY <1>1, <2>2
    <3> HIDE DEF N
    <3> QED
      BY <3>1 DEF Place, At
  <2> QED
    BY <2>2, <2>6, <2>7
<1>3. \A y \in DOMAIN q : Reads(p, At(y, x, n), g, q, y, f)
  BY <1>2
<1>4. ASSUME NEW y \in DOMAIN q PROVE ReadsBeneath(q, p, x, n, y, f, g)
  <2>1. \A k \in 1 .. y - 1 : k \in DOMAIN q
    BY <1>1
  <2> QED
    BY <1>3, <2>1 DEF ReadsBeneath
<1> QED
  BY <1>3, <1>4

LEMMA SameWidth ==
  ASSUME NEW S, NEW T, NEW b \in Seq(S), NEW c \in Seq(T), NEW g, NEW f, TextsOf(b, g) = TextsOf(c, f)
  PROVE  Len(b) = Len(c)
<1>1. DOMAIN b = DOMAIN c
  BY ReadsIs
<1> QED
  BY <1>1

\* p is q reshaped above x, by operators that go by a name of their own.
ReshapeOf(q, p, x, n, name) ==
  InsertOf(q, p, x, n) /\ Wraps(p, x, n, Len(Bindings(q)[x]), name) /\ name \notin Names(q)

LEMMA ReshapeOrdered ==
  ASSUME NEW q, Ordered(q), NEW x \in DOMAIN q, NEW p, NEW n, NEW name, ReshapeOf(q, p, x, n, name)
  PROVE  /\ Ordered(p) /\ n \in Nat \ {0} /\ x \in DOMAIN p /\ x + n \in DOMAIN p
         /\ Len(Bindings(q)[x]) \in Nat /\ Bindings(q)[x] \in Seq(ColumnsTo(q, x))
         /\ \A i \in 1 .. n : x + i \in DOMAIN p
<1>1. InsertOf(q, p, x, n) /\ Wraps(p, x, n, Len(Bindings(q)[x]), name)
  BY DEF ReshapeOf
<1>2. Len(q) \in Nat \ {0} /\ DOMAIN q = 1 .. Len(q) /\ DOMAIN p = 1 .. Len(q) + n
  BY <1>1, InsertPlaces
<1>3. Bindings(q)[x] \in Seq(ColumnsTo(q, x))
  BY BindingsTyped
<1> DEFINE w == Len(Bindings(q)[x])
<1>4. w \in Nat
  BY <1>3
<1>5. x \in Nat \ {0}
  BY <1>2
<1> HIDE DEF w
<1>6. n \in Nat \ {0} /\ \A i \in 1 .. n : IsOperator(p, x + i)
  BY <1>1, <1>4, <1>5, WrapOperators DEF w
<1>7. Ordered(p)
  BY <1>1, <1>6, InsertOrdered
<1>8. x \in DOMAIN p /\ x + n \in DOMAIN p /\ \A i \in 1 .. n : x + i \in DOMAIN p
  BY <1>2, <1>6
<1> QED
  BY <1>3, <1>4, <1>6, <1>7, <1>8 DEF w

\* As many columns as before are put out, and beneath each operator.
LEMMA ReshapeWidths ==
  ASSUME NEW q, Ordered(q), NEW x \in DOMAIN q, NEW p, NEW n, NEW name, ReshapeOf(q, p, x, n, name)
  PROVE  /\ Len(Bindings(p)[x]) = Len(Bindings(q)[x])
         /\ \A y \in DOMAIN q : Len(Beneath(p, Place(y, x, n), Bindings(p))) = Len(Beneath(q, y, Bindings(q)))
<1> DEFINE w == Len(Bindings(q)[x])
<1>1. /\ Ordered(p) /\ n \in Nat \ {0} /\ x \in DOMAIN p /\ x + n \in DOMAIN p /\ w \in Nat
      /\ Bindings(q)[x] \in Seq(ColumnsTo(q, x))
  BY ReshapeOrdered
<1>2. InsertOf(q, p, x, n) /\ Wraps(p, x, n, w, name)
  BY DEF ReshapeOf
<1>3. \A b : TextOf(b, <<>>) = Unknown
  BY DEF TextOf
<1>4. ASSUME Reads(p, x, <<>>, q, x, <<>>) PROVE Len(Bindings(p)[x]) = w
  <2>1. Bindings(p)[x] \in Seq(ColumnsTo(p, x))
    BY <1>1, BindingsTyped
  <2>2. TextsOf(Bindings(p)[x], <<>>) = TextsOf(Bindings(q)[x], <<>>)
    BY <1>4 DEF Reads
  <2> QED
    BY <1>1, <2>1, <2>2, SameWidth
<1>5. Bindings(p)[x + n] \in Seq(ColumnsTo(p, x + n))
  BY <1>1, BindingsTyped
<1> HIDE DEF w
<1>6. ASSUME Reads(p, x, <<>>, q, x, <<>>) PROVE Reads(p, x + n, <<>>, q, x, <<>>)
  <2> DEFINE b == Bindings(p)[x + n]
             c == Bindings(q)[x]
  <2>1. Len(b) = w
    BY <1>1, <1>2, <1>4, <1>6, WrapWidth
  <2>2. Len(c) = w
    BY DEF w
  <2>3. b \in Seq(ColumnsTo(p, x + n)) /\ c \in Seq(ColumnsTo(q, x))
    BY <1>1, <1>5
  <2> HIDE DEF b, c
  <2>4. DOMAIN b = DOMAIN c
    BY <2>1, <2>2, <2>3
  <2>5. TextsOf(b, <<>>) = TextsOf(c, <<>>)
    BY <1>3, <2>4, ReadsIs
  <2> QED
    BY <2>5 DEF Reads, b, c
<1>7. OwnsRead(q, p, x, n, <<>>, <<>>)
  BY <1>3 DEF OwnsRead, ReadsOwn
<1> DEFINE none == <<>>
<1>8. /\ OwnsRead(q, p, x, n, none, none) /\ (Reads(p, x, none, q, x, none) => Reads(p, x + n, none, q, x, none))
      /\ (Reads(p, x, none, q, x, none) => Len(Bindings(p)[x]) = w)
  BY <1>4, <1>6, <1>7
<1> HIDE DEF none
<1>9. \A y \in DOMAIN q : Reads(p, At(y, x, n), none, q, y, none) /\ ReadsBeneath(q, p, x, n, y, none, none)
  BY <1>1, <1>2, <1>8, InsertReads
<1>10. Reads(p, x, none, q, x, none)
  <2>1. ReadsOwn(q, p, x, n, x, none, none) /\ ReadsBeneath(q, p, x, n, x, none, none)
    BY <1>8, <1>9 DEF OwnsRead
  <2>2. Reads(p, Place(x, x, n), none, q, x, none)
    BY <1>1, <1>2, <2>1, OutputsReads
  <2>3. x \in Nat
    BY Places
  <2>4. Place(x, x, n) = x
    BY <2>3 DEF Place
  <2> QED
    BY <2>2, <2>4
<1>11. ASSUME NEW y \in DOMAIN q
       PROVE  Len(Beneath(p, Place(y, x, n), Bindings(p))) = Len(Beneath(q, y, Bindings(q)))
  <2> DEFINE z == Place(y, x, n)
             b == Beneath(p, z, Bindings(p))
             c == Beneath(q, y, Bindings(q))
  <2>1. TextsOf(b, none) = TextsOf(c, none)
    BY <1>1, <1>2, <1>9, BeneathReads
  <2>2. z \in DOMAIN p
    BY <1>2, InsertPlaces
  <2>3. c \in Seq(ColumnsTo(q, y - 1))
    BY BeneathTyped
  <2> HIDE DEF z
  <2>4. b \in Seq(ColumnsTo(p, z - 1))
    BY <1>1, <2>2, BeneathTyped
  <2> HIDE DEF b, c
  <2>5. Len(b) = Len(c)
    BY <2>1, <2>3, <2>4, SameWidth
  <2> QED
    BY <2>5 DEF b, c, z
<1> QED
  BY <1>8, <1>10, <1>11 DEF w

\* What is put in goes by the one name.
LEMMA WrapNames ==
  ASSUME NEW p, NEW x \in Nat, NEW n, NEW w, NEW name, Wraps(p, x, n, w, name), NEW i \in 1 .. n
  PROVE  /\ p[x + i].op = "cte" => i = 2
         /\ p[x + i].op \in {"cte", "cteref"} => p[x + i].of = name
<1>1. CASE Passing(p, x, n)
  <2>1. n = 1 /\ p[x + 1].op = "pass"
    BY <1>1 DEF Passing, Operator
  <2>2. i = 1
    BY <2>1
  <2> QED
    BY <2>1, <2>2
<1>2. CASE Projecting(p, x, n, w)
  <2>1. n = 1 /\ p[x + 1].op = "project"
    BY <1>2 DEF Projecting, Operator
  <2>2. i = 1
    BY <2>1
  <2> QED
    BY <2>1, <2>2
<1>3. CASE Referring(p, x, n, w, name)
  <2>1. n = 2 /\ p[x + 1].op = "cteref" /\ p[x + 1].of = name /\ p[x + 2].op = "cte" /\ p[x + 2].of = name
    BY <1>3 DEF Referring, Operator
  <2>2. i = 1 \/ i = 2
    BY <2>1
  <2> QED
    BY <2>1, <2>2
<1>4. CASE \E t \in DOMAIN Tables : Semijoining(p, x, n, t)
  <2>1. n = 2 /\ p[x + 1].op = "get" /\ p[x + 2].op = "join"
    BY <1>4 DEF Semijoining, Operator
  <2>2. i = 1 \/ i = 2
    BY <2>1
  <2> QED
    BY <2>1, <2>2
<1>5. CASE \E t \in DOMAIN Tables : Joining(p, x, n, w, t)
  <2>1. n = 3 /\ p[x + 1].op = "get" /\ p[x + 2].op = "join" /\ p[x + 3].op = "project"
    BY <1>5 DEF Joining, Operator
  <2>2. n = 3
    BY <2>1
  <2>3. i = 1 \/ i = 2 \/ i = 3
    BY <2>2
  <2> QED
    BY <2>1, <2>3
<1> QED
  BY <1>1, <1>2, <1>3, <1>4, <1>5 DEF Wraps

\* The places of the reshaped plan: of the operators it had, and of those put in.
LEMMA ReshapePlaces ==
  ASSUME NEW q, Ordered(q), NEW x \in DOMAIN q, NEW p, NEW n, NEW name, ReshapeOf(q, p, x, n, name), NEW z \in DOMAIN p
  PROVE  (\E y \in DOMAIN q : z = Place(y, x, n)) \/ (\E i \in 1 .. n : z = x + i)
<1> DEFINE N == Len(q)
<1>1. N \in Nat \ {0} /\ DOMAIN q = 1 .. N /\ DOMAIN p = 1 .. N + n /\ n \in Nat
  BY InsertPlaces DEF ReshapeOf
<1> HIDE DEF N
<1>2. N \in Nat /\ x \in 1 .. N /\ n \in Nat /\ z \in 1 .. N + n
  BY <1>1
<1>3. (\E y \in 1 .. N : z = Place(y, x, n)) \/ (\E i \in 1 .. n : z = x + i)
  BY <1>2, PlacesCover, ZenonT(30)
<1> QED
  BY <1>1, <1>3

LEMMA ReshapeNames ==
  ASSUME NEW q, Ordered(q), Named(q), NEW x \in DOMAIN q, NEW p, NEW n, NEW name, ReshapeOf(q, p, x, n, name)
  PROVE  Named(p) /\ Names(p) \subseteq Names(q) \cup {name}
<1>1. InsertOf(q, p, x, n) /\ Wraps(p, x, n, Len(Bindings(q)[x]), name) /\ name \notin Names(q)
  BY DEF ReshapeOf
<1>2. x \in Nat
  BY Places
<1>3. ASSUME NEW i \in 1 .. n
      PROVE  /\ p[x + i].op = "cte" => i = 2
             /\ p[x + i].op \in {"cte", "cteref"} => p[x + i].of = name
  BY <1>1, <1>2, WrapNames
<1>4. ASSUME NEW y \in DOMAIN q PROVE p[Place(y, x, n)].op = q[y].op /\ p[Place(y, x, n)].of = q[y].of
  BY <1>1, InsertPlaces
<1>5. ASSUME NEW y \in DOMAIN q, q[y].op \in {"cte", "cteref"} PROVE q[y].of \in Names(q)
  BY <1>5 DEF Names
<1>6. ASSUME NEW z \in DOMAIN p, p[z].op \in {"cte", "cteref"}
      PROVE  \/ \E y \in DOMAIN q : z = Place(y, x, n) /\ q[y].op = p[z].op /\ q[y].of = p[z].of /\ p[z].of \in Names(q)
             \/ p[z].of = name /\ (p[z].op = "cte" => z = x + 2)
  <2>1. CASE \E y \in DOMAIN q : z = Place(y, x, n)
    BY <1>4, <1>5, <1>6, <2>1
  <2>2. CASE \E i \in 1 .. n : z = x + i
    BY <1>3, <1>6, <2>2
  <2> QED
    BY <2>1, <2>2, ReshapePlaces
<1>7. Names(p) \subseteq Names(q) \cup {name}
  <2> SUFFICES ASSUME NEW z \in DOMAIN p, p[z].op \in {"cte", "cteref"} PROVE p[z].of \in Names(q) \cup {name}
    BY DEF Names
  <2> QED
    BY <1>6
<1>8. ASSUME NEW z \in DOMAIN p, NEW y \in DOMAIN p, p[z].op = "cte", p[y].op = "cte", p[z].of = p[y].of PROVE z = y
  <2>1. CASE p[z].of = name
    <3>1. z = x + 2 /\ y = x + 2
      BY <1>1, <1>6, <1>8, <2>1
    <3> QED
      BY <3>1
  <2>2. CASE p[z].of # name
    <3>1. PICK k \in DOMAIN q : z = Place(k, x, n) /\ q[k].op = "cte" /\ q[k].of = p[z].of
      BY <1>6, <1>8, <2>2
    <3>2. PICK l \in DOMAIN q : y = Place(l, x, n) /\ q[l].op = "cte" /\ q[l].of = p[z].of
      BY <1>6, <1>8, <2>2
    <3>3. k = l
      BY <3>1, <3>2 DEF Named
    <3> QED
      BY <3>1, <3>2, <3>3
  <2> QED
    BY <2>1, <2>2
<1>9. Named(p)
  BY <1>8 DEF Named
<1> QED
  BY <1>7, <1>9

\* What a query is reshaped to is a plan.
LEMMA ReshapePlan ==
  ASSUME NEW q, IsPlan(q), NEW x \in DOMAIN q, NEW p, NEW n, NEW name, ReshapeOf(q, p, x, n, name)
  PROVE  IsPlan(p) /\ Names(p) \subseteq Names(q) \cup {name}
<1>1. Ordered(q) /\ Bound(q) /\ Named(q)
  BY DEF IsPlan
<1>2. InsertOf(q, p, x, n) /\ Wraps(p, x, n, Len(Bindings(q)[x]), name)
  BY DEF ReshapeOf
<1>3. Ordered(p) /\ n \in Nat \ {0} /\ x \in DOMAIN p /\ x + n \in DOMAIN p /\ Len(Bindings(q)[x]) \in Nat
  BY <1>1, ReshapeOrdered
<1>4. ASSUME NEW z \in DOMAIN p, NEW j \in DOMAIN p[z].exprs
      PROVE  IsExpression(p[z].exprs[j], Len(Beneath(p, z, Bindings(p))))
  <2>1. CASE \E y \in DOMAIN q : z = Place(y, x, n)
    <3>1. PICK y \in DOMAIN q : z = Place(y, x, n)
      BY <2>1
    <3>2. p[z].exprs = q[y].exprs
      BY <1>1, <1>2, <3>1, InsertPlaces
    <3>3. IsExpression(q[y].exprs[j], Len(Beneath(q, y, Bindings(q))))
      BY <1>1, <1>4, <3>2 DEF Bound
    <3>4. Len(Beneath(p, z, Bindings(p))) = Len(Beneath(q, y, Bindings(q)))
      BY <1>1, <3>1, ReshapeWidths
    <3> QED
      BY <3>2, <3>3, <3>4
  <2>2. CASE \E i \in 1 .. n : z = x + i
    <3> DEFINE w == Len(Bindings(q)[x])
    <3>1. Len(Bindings(p)[x]) = w /\ w \in Nat /\ Wraps(p, x, n, w, name)
      BY <1>1, <1>2, <1>3, ReshapeWidths
    <3> HIDE DEF w
    <3>2. \A i \in 1 .. n : \A k \in DOMAIN p[x + i].exprs :
            IsExpression(p[x + i].exprs[k], Len(Beneath(p, x + i, Bindings(p))))
      <4>1. WrapRefs(p, x, n)
        BY <1>3, <3>1, WrapWidth
      <4> QED
        BY <4>1 DEF WrapRefs
    <3> QED
      BY <1>4, <2>2, <3>2
  <2> QED
    BY <1>1, <2>1, <2>2, ReshapePlaces
<1>5. Bound(p)
  BY <1>4 DEF Bound
<1> QED
  BY <1>1, <1>3, <1>5, ReshapeNames DEF IsPlan

\* A reference finds the definition it found, where that went.
LEMMA ReshapeDefinitions ==
  ASSUME NEW q, IsPlan(q), NEW x \in DOMAIN q, NEW p, NEW n, NEW name, ReshapeOf(q, p, x, n, name),
         NEW y \in DOMAIN q, q[y].op = "cteref"
  PROVE  /\ \A k \in Definitions(q, y) : At(k, x, n) \in Definitions(p, Place(y, x, n))
         /\ \A l \in Definitions(p, Place(y, x, n)) : \E k \in Definitions(q, y) : l = At(k, x, n)
<1> DEFINE z == Place(y, x, n)
           N == Len(q)
<1>1. Ordered(q) /\ InsertOf(q, p, x, n) /\ Wraps(p, x, n, Len(Bindings(q)[x]), name) /\ name \notin Names(q)
  BY DEF IsPlan, ReshapeOf
<1>2. N \in Nat \ {0} /\ DOMAIN q = 1 .. N /\ n \in Nat
  BY <1>1, InsertPlaces
<1>3. z \in DOMAIN p /\ p[z].of = q[y].of
  BY <1>1, InsertPlaces
<1>4. q[y].of \in Names(q)
  BY DEF Names
<1>5. ASSUME NEW c \in DOMAIN q, q[c].op = "cte"
      PROVE  LET d == Place(c, x, n)
             IN  /\ d \in DOMAIN p /\ p[d].op = "cte" /\ p[d].of = q[c].of /\ p[d].kids[1] = At(q[c].kids[1], x, n)
                 /\ q[c].kids[1] \in 1 .. c - 1
  <2>1. 1 \in DOMAIN q[c].kids
    BY <1>1, <1>5 DEF Ordered
  <2>2. q[c].kids[1] \in 1 .. c - 1
    BY <1>1, <2>1, Places
  <2> QED
    BY <1>1, <1>5, <2>1, <2>2, InsertPlaces
<1>6. ASSUME NEW d \in DOMAIN p, p[d].op = "cte", p[d].of = p[z].of
      PROVE  \E c \in DOMAIN q : d = Place(c, x, n) /\ q[c].op = "cte" /\ q[c].of = q[y].of
  <2>1. CASE \E c \in DOMAIN q : d = Place(c, x, n)
    <3>1. PICK c \in DOMAIN q : d = Place(c, x, n)
      BY <2>1
    <3>2. p[d].op = q[c].op /\ p[d].of = q[c].of
      BY <1>1, <3>1, InsertPlaces
    <3> QED
      BY <1>3, <1>6, <3>1, <3>2
  <2>2. CASE \E i \in 1 .. n : d = x + i
    <3>1. PICK i \in 1 .. n : d = x + i
      BY <2>2
    <3>2. x \in Nat
      BY <1>2
    <3>3. p[x + i].op = "cte" => p[x + i].of = name
      BY <1>1, <3>2, WrapNames
    <3> QED
      BY <1>1, <1>3, <1>4, <1>6, <3>1, <3>3
  <2> QED
    BY <1>1, <2>1, <2>2, ReshapePlaces
<1>7. /\ \A k \in 1 .. y - 1 : At(k, x, n) \in 1 .. z - 1
      /\ \A k \in 1 .. N : At(k, x, n) < z => k < y
  <2> HIDE DEF N
  <2>1. x \in 1 .. N /\ y \in 1 .. N /\ n \in Nat /\ N \in Nat
    BY <1>2
  <2> QED
    BY <2>1 DEF At, Place, z
<1> HIDE DEF z, N
<1>8. ASSUME NEW k \in Definitions(q, y) PROVE At(k, x, n) \in Definitions(p, z)
  <2>1. PICK c \in DOMAIN q : q[c].op = "cte" /\ q[c].of = q[y].of /\ q[c].kids[1] = k
    BY <1>8 DEF Definitions
  <2>2. k \in 1 .. y - 1
    BY <1>8 DEF Definitions
  <2> DEFINE d == Place(c, x, n)
  <2>3. d \in DOMAIN p /\ p[d].op = "cte" /\ p[d].of = p[z].of /\ p[d].kids[1] = At(k, x, n)
    BY <1>3, <1>5, <2>1
  <2> HIDE DEF d
  <2>4. At(k, x, n) \in 1 .. z - 1
    BY <1>7, <2>2
  <2> QED
    BY <2>3, <2>4 DEF Definitions
<1>9. ASSUME NEW l \in Definitions(p, z) PROVE \E k \in Definitions(q, y) : l = At(k, x, n)
  <2>1. PICK d \in DOMAIN p : p[d].op = "cte" /\ p[d].of = p[z].of /\ p[d].kids[1] = l
    BY <1>9 DEF Definitions
  <2>2. l \in 1 .. z - 1
    BY <1>9 DEF Definitions
  <2>3. PICK c \in DOMAIN q : d = Place(c, x, n) /\ q[c].op = "cte" /\ q[c].of = q[y].of
    BY <1>6, <2>1
  <2> DEFINE k == q[c].kids[1]
  <2>4. l = At(k, x, n) /\ k \in 1 .. c - 1
    BY <1>5, <2>1, <2>3
  <2>5. k \in 1 .. N /\ At(k, x, n) < z
    <3>1. z \in Nat
      BY <1>1, <1>3, ReshapeOrdered, Places DEF ReshapeOf
    <3> HIDE DEF k
    <3> QED
      BY <1>2, <2>2, <2>4, <3>1
  <2>6. k \in 1 .. y - 1
    <3>1. k < y
      BY <1>7, <2>5
    <3> HIDE DEF k
    <3> QED
      BY <1>2, <2>5, <3>1
  <2>7. k \in Definitions(q, y)
    BY <2>3, <2>6 DEF Definitions
  <2> QED
    BY <2>4, <2>7
<1> QED
  BY <1>8, <1>9 DEF z

\* Each operator's own columns read as before, if those beneath do.
LEMMA ReshapeOwns ==
  ASSUME NEW q, IsPlan(q), NEW x \in DOMAIN q, NEW p, IsPlan(p), NEW n, NEW name, ReshapeOf(q, p, x, n, name),
         NEW ty, NEW f, NEW g, Walked(q, ty, f), Walked(p, ty, g)
  PROVE  OwnsRead(q, p, x, n, f, g)
<1>1. Ordered(q) /\ Bound(q) /\ Named(q) /\ Ordered(p) /\ Named(p) /\ InsertOf(q, p, x, n)
  BY DEF IsPlan, ReshapeOf
<1> SUFFICES ASSUME NEW y \in DOMAIN q, ReadsBeneath(q, p, x, n, y, f, g), NEW i \in 1 .. Own(q, y, Bindings(q))
             PROVE  TextOf(<<Place(y, x, n), i>>, g) = TextOf(<<y, i>>, f)
  BY DEF OwnsRead, ReadsOwn
<1> DEFINE z == Place(y, x, n)
<1>2. /\ z \in DOMAIN p /\ p[z].op = q[y].op /\ p[z].of = q[y].of /\ p[z].exprs = q[y].exprs
      /\ DOMAIN p[z].kids = DOMAIN q[y].kids
  BY <1>1, InsertPlaces
<1>3. i \in 1 .. Own(p, z, Bindings(p))
  BY <1>1, OwnReads
<1>4. ASSUME NEW k \in DOMAIN q[y].kids
      PROVE  TextsOf(Bindings(p)[p[z].kids[k]], g) = TextsOf(Bindings(q)[q[y].kids[k]], f)
  BY <1>1, KidReads
<1>5. TextsOf(Beneath(p, z, Bindings(p)), g) = TextsOf(Beneath(q, y, Bindings(q)), f)
  BY <1>1, BeneathReads
<1>6. CASE q[y].op \in {"get", "values", "join", "recursive"}
  <2> HIDE DEF z
  <2>1. /\ q[y].op = "get" => TextOf(<<y, i>>, f) = Leaf(ty, q[y].of, i) /\ TextOf(<<z, i>>, g) = Leaf(ty, p[z].of, i)
        /\ q[y].op = "values" => TextOf(<<y, i>>, f) = TextOf(<<z, i>>, g)
        /\ q[y].op = "join" => TextOf(<<y, i>>, f) = TextOf(<<z, i>>, g)
        /\ q[y].op = "recursive" => TextOf(<<y, i>>, f) = TextOf(<<z, i>>, g)
    BY <1>1, <1>2, <1>3, ColumnText
  <2> QED
    BY <1>2, <1>6, <2>1 DEF z
<1>7. CASE q[y].op = "setop"
  <2>1. Sides(p, z, g) = Sides(q, y, f)
    BY <1>2, <1>4 DEF Sides
  <2> HIDE DEF z
  <2>2. TextOf(<<y, i>>, f) = SidesText(q[y].of, i, Sides(q, y, f))
    BY <1>1, <1>7, ColumnText
  <2>3. TextOf(<<z, i>>, g) = SidesText(p[z].of, i, Sides(p, z, g))
    BY <1>1, <1>2, <1>3, <1>7, ColumnText
  <2> QED
    BY <1>2, <2>1, <2>2, <2>3 DEF z
<1>8. CASE q[y].op = "cteref"
  <2> DEFINE c == CteColumns(q, y, Bindings(q), f)
             d == CteColumns(p, z, Bindings(p), g)
  <2>1. /\ \A k \in Definitions(q, y) : At(k, x, n) \in Definitions(p, z)
        /\ \A l \in Definitions(p, z) : \E k \in Definitions(q, y) : l = At(k, x, n)
    BY <1>8, ReshapeDefinitions
  <2>2. c = d
    <3>1. CASE Definitions(q, y) = {}
      <4>1. Definitions(p, z) = {}
        BY <2>1, <3>1
      <4> HIDE DEF z
      <4>2. c = <<>>
        BY <1>1, <3>1, CteRead
      <4>3. d = <<>>
        BY <1>1, <1>2, <4>1, CteRead
      <4> QED
        BY <4>2, <4>3
    <3>2. CASE Definitions(q, y) # {}
      <4>1. PICK k \in Definitions(q, y) : TRUE
        BY <3>2
      <4> DEFINE l == At(k, x, n)
      <4>2. l \in Definitions(p, z)
        BY <2>1
      <4>3. c = TextsOf(Bindings(q)[k], f)
        BY <1>1, CteRead
      <4>4. k \in 1 .. y - 1
        BY DEF Definitions
      <4>5. Reads(p, l, g, q, k, f)
        BY <4>4 DEF ReadsBeneath
      <4> HIDE DEF z, l
      <4>6. d = TextsOf(Bindings(p)[l], g)
        BY <1>1, <1>2, <4>2, CteRead
      <4> QED
        BY <4>3, <4>5, <4>6 DEF Reads
    <3> QED
      BY <3>1, <3>2
  <2>3. TextOf(<<y, i>>, f) = CteText(i, c)
    BY <1>1, <1>8, ColumnText
  <2> HIDE DEF z
  <2>4. TextOf(<<z, i>>, g) = CteText(i, d)
    BY <1>1, <1>2, <1>3, <1>8, ColumnText
  <2> HIDE DEF c, d
  <2> QED
    BY <2>2, <2>3, <2>4 DEF z
<1>9. CASE q[y].op \in Computing
  <2> DEFINE e == q[y].exprs[i]
             b == Beneath(q, y, Bindings(q))
             c == Beneath(p, z, Bindings(p))
  <2>1. TextOf(<<y, i>>, f) = Text(e, b, f)
    BY <1>1, <1>9, ColumnText
  <2>2. i \in DOMAIN q[y].exprs
    BY <1>1, <1>9, ReadIs
  <2>3. IsExpression(e, Len(b))
    BY <1>1, <2>2 DEF Bound
  <2>4. b \in Seq(ColumnsTo(q, y - 1))
    BY <1>1, BeneathTyped
  <2> HIDE DEF z
  <2>5. TextOf(<<z, i>>, g) = Text(p[z].exprs[i], c, g)
    BY <1>1, <1>2, <1>3, <1>9, ColumnText
  <2>6. p[z].exprs[i] = e
    BY <1>2
  <2> HIDE DEF b, c, e
  <2>7. ASSUME NEW r \in RefsOf(e) PROVE TextOf(c[r], g) = TextOf(b[r], f)
    <3>1. r \in 1 .. Len(b)
      BY <2>3, RefsBound
    <3>2. r \in DOMAIN b
      BY <2>4, <3>1
    <3>3. TextsOf(c, g) = TextsOf(b, f)
      BY <1>5 DEF b, c
    <3> QED
      BY <3>2, <3>3, ReadsIs
  <2>8. Text(e, c, g) = Text(e, b, f)
    BY <2>3, <2>7, TextSame
  <2> QED
    BY <2>1, <2>5, <2>6, <2>8 DEF z
<1>10. q[y].op \in Computing \cup {"get", "setop", "cteref", "values", "join", "recursive"}
  BY <1>1, ReadIs
<1> QED
  BY <1>6, <1>7, <1>8, <1>9, <1>10

\* The columns of a query reshaped read as they did, and the landing tells no other
\* change than that of the SQL.
LEMMA ReshapeRecord ==
  ASSUME NEW q, IsPlan(q), NEW x \in DOMAIN q, NEW p, NEW n, NEW name, ReshapeOf(q, p, x, n, name), NEW ty,
         NEW r, NEW s, r = LineageJson(LineageOf(q, ty), q), s = LineageJson(LineageOf(p, ty), p)
  PROVE  /\ DOMAIN s = DOMAIN r
         /\ \A i \in DOMAIN s : (Followed(s, i) <=> Followed(r, i)) /\ (s[i] # r[i] <=> ~ Followed(s, i))
<1> DEFINE f == Walk(q, ty)
           g == Walk(p, ty)
           w == Len(Bindings(q)[x])
<1>1. IsPlan(p)
  BY ReshapePlan
<1>2. Ordered(q) /\ Bound(q) /\ Named(q) /\ Ordered(p) /\ Bound(p) /\ Named(p)
  BY <1>1 DEF IsPlan
<1>3. Walked(q, ty, f) /\ Walked(p, ty, g)
  BY <1>2, WalkBy DEF Walked
<1>4. InsertOf(q, p, x, n) /\ Wraps(p, x, n, w, name)
  BY DEF ReshapeOf
<1>5. /\ n \in Nat \ {0} /\ x \in DOMAIN p /\ x + n \in DOMAIN p /\ w \in Nat
      /\ Bindings(q)[x] \in Seq(ColumnsTo(q, x)) /\ Len(Bindings(p)[x]) = w
  BY <1>2, ReshapeOrdered, ReshapeWidths
<1> DEFINE out == Bindings(q)[Len(q)]
           outp == Bindings(p)[Len(p)]
<1>6. /\ DOMAIN r = DOMAIN out
      /\ \A i \in DOMAIN r :
           /\ Followed(r, i) <=> TextOf(out[i], f).known
           /\ Followed(r, i) => r[i] = <<"derived", TextOf(out[i], f)>>
           /\ ~ Followed(r, i) => r[i] = <<"unknown", q>>
  BY RecordBy
<1>7. /\ DOMAIN s = DOMAIN outp
      /\ \A i \in DOMAIN s :
           /\ Followed(s, i) <=> TextOf(outp[i], g).known
           /\ Followed(s, i) => s[i] = <<"derived", TextOf(outp[i], g)>>
           /\ ~ Followed(s, i) => s[i] = <<"unknown", p>>
  BY <1>1, RecordBy
<1> HIDE DEF f, g, w, out, outp
<1>8. ASSUME Reads(p, x, g, q, x, f) PROVE Reads(p, x + n, g, q, x, f)
  <2>1. /\ Ordered(p) /\ x \in DOMAIN p /\ w \in Nat /\ Wraps(p, x, n, w, name)
        /\ n \in Nat \ {0} /\ x + n \in DOMAIN p /\ Len(Bindings(p)[x]) = w
    BY <1>2, <1>4, <1>5
  <2>2. Len(Bindings(p)[x + n]) = w
    BY <2>1, WrapWidth
  <2>3. \A i \in 1 .. w : TextOf(Bindings(p)[x + n][i], g) = TextOf(Bindings(p)[x][i], g)
    BY <1>2, <1>3, <2>1, WrapReads
  <2> DEFINE b == Bindings(p)[x + n]
             c == Bindings(p)[x]
             d == Bindings(q)[x]
  <2>4. b \in Seq(ColumnsTo(p, x + n)) /\ c \in Seq(ColumnsTo(p, x)) /\ Len(b) = w /\ Len(c) = w
    BY <1>2, <1>5, <2>2, BindingsTyped
  <2>5. TextsOf(c, g) = TextsOf(d, f)
    BY <1>8 DEF Reads
  <2>6. \A i \in 1 .. w : TextOf(b[i], g) = TextOf(c[i], g)
    BY <2>3
  <2> HIDE DEF b, c, d
  <2>7. DOMAIN b = 1 .. w /\ DOMAIN c = 1 .. w
    BY <2>4
  <2>8. DOMAIN c = DOMAIN d /\ \A i \in DOMAIN d : TextOf(c[i], g) = TextOf(d[i], f)
    BY <2>5, ReadsIs
  <2>9. DOMAIN b = DOMAIN d /\ \A i \in DOMAIN d : TextOf(b[i], g) = TextOf(d[i], f)
    BY <2>6, <2>7, <2>8
  <2>10. TextsOf(b, g) = TextsOf(d, f)
    BY <2>9, ReadsIs
  <2> QED
    BY <2>10 DEF Reads, b, d
<1>9. OwnsRead(q, p, x, n, f, g)
  BY <1>1, <1>3, ReshapeOwns
<1>10. \A y \in DOMAIN q : Reads(p, At(y, x, n), g, q, y, f)
  BY <1>2, <1>4, <1>8, <1>9, InsertReads
<1>11. Len(q) \in Nat \ {0} /\ DOMAIN q = 1 .. Len(q) /\ Len(p) = Len(q) + n
  BY <1>2, <1>4, InsertPlaces DEF InsertOf
<1>12. At(Len(q), x, n) = Len(p) /\ Len(q) \in DOMAIN q
  <2> DEFINE N == Len(q)
             M == Len(p)
  <2>1. N \in Nat \ {0} /\ x \in 1 .. N /\ M = N + n /\ N \in 1 .. N
    BY <1>11
  <2> HIDE DEF N, M
  <2>2. At(N, x, n) = M
    BY <1>5, <2>1 DEF At
  <2> QED
    BY <1>11, <2>1, <2>2 DEF N, M
<1>13. TextsOf(outp, g) = TextsOf(out, f)
  <2>1. Reads(p, Len(p), g, q, Len(q), f)
    BY <1>10, <1>12
  <2> QED
    BY <2>1 DEF Reads, out, outp
<1>14. DOMAIN outp = DOMAIN out /\ \A i \in DOMAIN out : TextOf(outp[i], g) = TextOf(out[i], f)
  BY <1>13, ReadsIs
<1>15. p # q
  <2>1. Len(p) # Len(q)
    <3> DEFINE N == Len(q)
               M == Len(p)
    <3>1. N \in Nat /\ M = N + n
      BY <1>11
    <3> HIDE DEF N, M
    <3>2. M # N
      BY <1>5, <3>1
    <3> QED
      BY <3>2 DEF M, N
  <2> QED
    BY <2>1
<1>16. ASSUME NEW i \in DOMAIN s PROVE (Followed(s, i) <=> Followed(r, i)) /\ (s[i] # r[i] <=> ~ Followed(s, i))
  <2>1. i \in DOMAIN r /\ TextOf(outp[i], g) = TextOf(out[i], f) /\ (Followed(s, i) <=> Followed(r, i))
    BY <1>6, <1>7, <1>14
  <2>2. CASE Followed(s, i)
    <3>1. s[i] = r[i]
      BY <1>6, <1>7, <2>1, <2>2
    <3> QED
      BY <2>1, <2>2, <3>1
  <2>3. CASE ~ Followed(s, i)
    <3>1. s[i] = <<"unknown", p>> /\ r[i] = <<"unknown", q>>
      BY <1>6, <1>7, <2>1, <2>3
    <3>2. s[i] # r[i]
      BY <1>15, <3>1
    <3> QED
      BY <2>1, <2>3, <3>2
  <2> QED
    BY <2>2, <2>3
<1> QED
  BY <1>6, <1>7, <1>14, <1>16

\* A query edited: a plan of as many columns, of whose unfollowed ones any edit tells.
LEMMA EditRecord ==
  ASSUME NEW q, IsPlan(q), NEW x \in DOMAIN q, NEW j \in DOMAIN q[x].exprs,
         NEW e \in Edited(q[x].exprs[j]), e # q[x].exprs[j],
         NEW p, EditOf(q, p, x, j, e), NEW ty, NEW r, NEW s,
         r = LineageJson(LineageOf(q, ty), q), s = LineageJson(LineageOf(p, ty), p)
  PROVE  /\ IsPlan(p) /\ Names(p) = Names(q)
         /\ \A i \in DOMAIN s : ~ Followed(s, i) => s[i] # r[i]
<1>1. Ordered(q) /\ IsExpression(q[x].exprs[j], Len(Beneath(q, x, Bindings(q))))
  BY DEF IsPlan, Bound
<1> DEFINE S == {<<x, j>>}
<1>2. IsExpression(e, Len(Beneath(q, x, Bindings(q)))) /\ RefsOf(e) = RefsOf(q[x].exprs[j]) /\ <<x, j>> \in S
  BY <1>1, EditedIs
<1> HIDE DEF S
<1>3. IsPlan(p) /\ AlikeBut(q, p, S)
  BY <1>2, EditPlan
<1>4. Ordered(p)
  BY <1>3 DEF IsPlan
<1>5. Names(p) = Names(q)
  BY <1>1, <1>3, <1>4, AlikeNames
<1>6. Bindings(p) = Bindings(q)
  BY <1>1, <1>3, <1>4, AlikeOutputs
<1>7. Len(p) = Len(q)
  BY <1>3 DEF AlikeBut
<1>8. p # q
  BY <1>1, EditedAt
<1>9. ASSUME NEW i \in DOMAIN s, ~ Followed(s, i) PROVE s[i] # r[i]
  <2>1. i \in DOMAIN Bindings(p)[Len(p)] /\ s[i] = <<"unknown", p>>
    BY <1>3, <1>9, RecordBy
  <2>2. i \in DOMAIN r
    BY <1>6, <1>7, <2>1, RecordBy
  <2>3. r[i] = <<"unknown", q>> \/ Followed(r, i)
    BY <2>2, RecordBy
  <2> QED
    BY <1>8, <1>9, <2>1, <2>3 DEF Followed
<1> QED
  BY <1>3, <1>5, <1>9

-----------------------------------------------------------------------------
(* The landings of a recipe.                                               *)

\* The query is a plan that leaves the names of landings to come alone; what was
\* recorded last is its lineage.
LineageInv ==
  /\ IsPlan(query)
  /\ Names(query) \cap (landings .. MaxLandings) = {} /\ landings \in Nat
  /\ TypesShape(types)
  /\ record = LineageJson(LineageOf(query, types), query)

\* What a landing's record tells, of the one before it.
LineageTold == ShapeFree /\ RetypeTells /\ EditTells

LEMMA FirstLandingInv ==
  ASSUME FirstLanding
  PROVE  LineageInv /\ LineageTold
<1>1. query \in Seeds /\ landings = 0 /\ change.step = "reshape"
  BY DEF FirstLanding
<1>2. IsPlan(query) /\ Names(query) \cap (0 .. MaxLandings) = {}
  BY <1>1, LineageAssumption
<1>3. TypesShape(types)
  BY DEF FirstLanding, TypesShape
<1>4. record = LineageJson(LineageOf(query, types), query)
  BY DEF FirstLanding
<1>5. Names(query) \cap (landings .. MaxLandings) = {} /\ landings \in Nat
  BY <1>1, <1>2
<1>6. LineageInv
  BY <1>2, <1>3, <1>4, <1>5 DEF LineageInv
<1>7. LineageTold
  BY <1>1 DEF LineageTold, ShapeFree, RetypeTells, EditTells
<1> QED
  BY <1>6, <1>7

LEMMA ReshapeStep ==
  ASSUME LineageInv, Reshape
  PROVE  LineageInv' /\ LineageTold'
<1>1. PICK x \in DOMAIN query : \E new \in Reshaped(query, x) :
        Land(Insert(query, x, new), types, [step |-> "reshape", touched |-> {}, told |-> {}])
  BY DEF Reshape
<1>2. PICK new \in Reshaped(query, x) : Land(Insert(query, x, new), types, [step |-> "reshape", touched |-> {}, told |-> {}])
  BY <1>1
<1> DEFINE n == Len(new)
<1>3. /\ landings < MaxLandings /\ landings' = landings + 1 /\ types' = types /\ before' = record
      /\ query' = Insert(query, x, new) /\ record' = LineageJson(LineageOf(query', types'), query')
      /\ change'.step = "reshape"
  BY <1>2 DEF Land
<1>4. /\ IsPlan(query) /\ TypesShape(types) /\ landings \in Nat
      /\ Names(query) \cap (landings .. MaxLandings) = {}
      /\ record = LineageJson(LineageOf(query, types), query)
  BY DEF LineageInv
<1>5. Ordered(query)
  BY <1>4 DEF IsPlan
<1>6. ReshapeOf(query, query', x, n, landings)
  <2>1. n \in Nat /\ Wraps(query', x, n, Len(Bindings(query)[x]), landings)
    BY <1>3, <1>5, ReshapedWraps
  <2>2. InsertOf(query, query', x, n)
    BY <1>3, <1>5, <2>1, InsertIs
  <2>3. landings \in landings .. MaxLandings
    BY <1>3, <1>4, LineageAssumption
  <2>4. landings \notin Names(query)
    BY <1>4, <2>3
  <2> QED
    BY <2>1, <2>2, <2>4 DEF ReshapeOf
<1> HIDE DEF n
<1>7. IsPlan(query') /\ Names(query') \subseteq Names(query) \cup {landings}
  BY <1>4, <1>6, ReshapePlan
<1>8. /\ DOMAIN record' = DOMAIN record
      /\ \A i \in DOMAIN record' :
           (Followed(record', i) <=> Followed(record, i)) /\ (record'[i] # record[i] <=> ~ Followed(record', i))
  <2> DEFINE s == record'
             p == query'
             ty == types
  <2>1. s = LineageJson(LineageOf(p, ty), p) /\ record = LineageJson(LineageOf(query, ty), query)
    BY <1>3, <1>4
  <2>2. ReshapeOf(query, p, x, n, landings)
    BY <1>6
  <2> HIDE DEF s, p, ty
  <2>3. /\ DOMAIN s = DOMAIN record
        /\ \A i \in DOMAIN s : (Followed(s, i) <=> Followed(record, i)) /\ (s[i] # record[i] <=> ~ Followed(s, i))
    BY <1>4, <2>1, <2>2, ReshapeRecord
  <2> QED
    BY <2>3 DEF s
<1>9. Names(query') \cap (landings' .. MaxLandings) = {} /\ landings' \in Nat
  <2>1. landings \notin landings + 1 .. MaxLandings
    BY <1>4
  <2>2. (landings + 1 .. MaxLandings) \subseteq (landings .. MaxLandings)
    BY <1>4, LineageAssumption
  <2> QED
    BY <1>3, <1>4, <1>7, <2>1, <2>2
<1>10. LineageInv'
  BY <1>3, <1>4, <1>7, <1>9 DEF LineageInv
<1>11. LineageTold'
  BY <1>3, <1>8 DEF LineageTold, ShapeFree, RetypeTells, EditTells, Followed, Differs
<1> QED
  BY <1>10, <1>11

LEMMA EditStep ==
  ASSUME LineageInv, Edit
  PROVE  LineageInv' /\ LineageTold'
<1> DEFINE Landed(x, j, e) == Land([query EXCEPT ![x].exprs[j] = e], types, [step |-> "edit", touched |-> {<<x, j>>}, told |-> ToldOf(query[x].exprs[j], e, <<x, j>>)])
<1>1. PICK x \in DOMAIN query : \E j \in DOMAIN query[x].exprs :
         \E e \in Edited(query[x].exprs[j]) \ {query[x].exprs[j]} : Landed(x, j, e)
  BY DEF Edit
<1>2. PICK j \in DOMAIN query[x].exprs : \E e \in Edited(query[x].exprs[j]) \ {query[x].exprs[j]} : Landed(x, j, e)
  BY <1>1
<1>3. PICK e \in Edited(query[x].exprs[j]) \ {query[x].exprs[j]} : Landed(x, j, e)
  BY <1>2
<1>4. /\ landings < MaxLandings /\ landings' = landings + 1 /\ types' = types /\ before' = record
      /\ query' = [query EXCEPT ![x].exprs[j] = e] /\ record' = LineageJson(LineageOf(query', types'), query')
      /\ change'.step = "edit" /\ change'.told = ToldOf(query[x].exprs[j], e, <<x, j>>)
  BY <1>3 DEF Land
<1>5. /\ IsPlan(query) /\ TypesShape(types) /\ landings \in Nat
      /\ Names(query) \cap (landings .. MaxLandings) = {}
      /\ record = LineageJson(LineageOf(query, types), query)
  BY DEF LineageInv
<1>6. Ordered(query)
  BY <1>5 DEF IsPlan
<1>7. e \in Edited(query[x].exprs[j]) /\ e # query[x].exprs[j]
  OBVIOUS
<1>8. EditOf(query, query', x, j, e)
  BY <1>4, <1>6, EditIs
<1> DEFINE s == record'
           p == query'
           ty == types
<1>9. /\ s = LineageJson(LineageOf(p, ty), p) /\ record = LineageJson(LineageOf(query, ty), query)
      /\ EditOf(query, p, x, j, e)
  BY <1>4, <1>5, <1>8
<1> HIDE DEF s, p, ty
<1>10. IsPlan(p) /\ Names(p) = Names(query) /\ \A i \in DOMAIN s : ~ Followed(s, i) => s[i] # record[i]
  BY <1>5, <1>7, <1>9, EditRecord
<1>11. PICK told : told = ToldOf(query[x].exprs[j], e, <<x, j>>)
  OBVIOUS
<1>12. \A i \in DOMAIN s \cap DOMAIN record :
         Followed(s, i) /\ Followed(record, i) => (s[i] # record[i] <=> DerivedFrom(p, i) \cap told # {})
  BY <1>5, <1>7, <1>9, <1>11, EditMoves
<1>13. Names(query') \cap (landings' .. MaxLandings) = {} /\ landings' \in Nat
  <2>1. (landings + 1 .. MaxLandings) \subseteq (landings .. MaxLandings)
    BY <1>5, LineageAssumption
  <2>2. Names(query') = Names(query)
    BY <1>10 DEF p
  <2> QED
    BY <1>4, <1>5, <2>1, <2>2
<1>14. LineageInv'
  <2>1. IsPlan(query')
    BY <1>10 DEF p
  <2> QED
    BY <1>4, <1>5, <1>13, <2>1 DEF LineageInv
<1>15. EditTells'
  <2>1. \A i \in DOMAIN record' : Followed(record', i) \/ record'[i] # record[i]
    BY <1>10 DEF s
  <2>2. \A i \in DOMAIN record' \cap DOMAIN record :
          Followed(record', i) /\ Followed(record, i) =>
            (record'[i] # record[i] <=> DerivedFrom(query', i) \cap told # {})
    BY <1>12 DEF s, p
  <2>3. change'.told = told
    BY <1>4, <1>11
  <2>4. ToldMoved'
    BY <1>4, <2>2, <2>3 DEF ToldMoved, Differs
  <2> QED
    BY <1>4, <2>1, <2>4 DEF EditTells, Differs
<1>16. ShapeFree' /\ RetypeTells'
  BY <1>4 DEF ShapeFree, RetypeTells
<1>17. LineageTold'
  BY <1>15, <1>16 DEF LineageTold
<1> QED
  BY <1>14, <1>17

LEMMA RetypeStep ==
  ASSUME LineageInv, Retype
  PROVE  LineageInv' /\ LineageTold'
<1> DEFINE leaves(t, j) == {<<x, j>> : x \in {y \in DOMAIN query : query[y].op = "get" /\ query[y].of = t}}
           Landed(t, j, v) ==
             /\ v # types[t][Tables[t].columns[j]]
             /\ Land(query, [types EXCEPT ![t][Tables[t].columns[j]] = v],
                     [step |-> "retype", touched |-> leaves(t, j), told |-> leaves(t, j)])
<1>1. PICK t \in DOMAIN Tables : \E j \in DOMAIN Tables[t].columns : \E v \in ColumnTypes : Landed(t, j, v)
  BY DEF Retype
<1>2. PICK j \in DOMAIN Tables[t].columns : \E v \in ColumnTypes : Landed(t, j, v)
  BY <1>1
<1>3. PICK v \in ColumnTypes : Landed(t, j, v)
  BY <1>2
<1>4. /\ landings < MaxLandings /\ landings' = landings + 1 /\ query' = query /\ before' = record
      /\ types' = [types EXCEPT ![t][Tables[t].columns[j]] = v]
      /\ record' = LineageJson(LineageOf(query', types'), query')
      /\ change'.step = "retype" /\ change'.told = TouchedBy(query, t, j)
  BY <1>3 DEF Land, TouchedBy
<1>5. /\ IsPlan(query) /\ TypesShape(types) /\ landings \in Nat
      /\ Names(query) \cap (landings .. MaxLandings) = {}
      /\ record = LineageJson(LineageOf(query, types), query)
  BY DEF LineageInv
<1> DEFINE s == record'
           uy == types'
<1>6. /\ s = LineageJson(LineageOf(query, uy), query) /\ record = LineageJson(LineageOf(query, types), query)
      /\ RetypeOf(types, uy, t, j)
  BY <1>3, <1>4, <1>5 DEF RetypeOf
<1> HIDE DEF s, uy
<1>7. /\ TypesShape(uy)
      /\ \A i \in DOMAIN s \cap DOMAIN record :
           Followed(s, i) /\ Followed(record, i) =>
             (s[i] # record[i] <=> DerivedFrom(query, i) \cap TouchedBy(query, t, j) # {})
  BY <1>5, <1>6, RetypeMoves
<1>8. Names(query') \cap (landings' .. MaxLandings) = {} /\ landings' \in Nat
  <2>1. (landings + 1 .. MaxLandings) \subseteq (landings .. MaxLandings)
    BY <1>5, LineageAssumption
  <2> QED
    BY <1>4, <1>5, <2>1
<1>9. LineageInv'
  <2>1. TypesShape(types')
    BY <1>7 DEF uy
  <2>2. IsPlan(query')
    BY <1>4, <1>5
  <2>3. record' = LineageJson(LineageOf(query', types'), query')
    BY <1>4
  <2> QED
    BY <1>8, <2>1, <2>2, <2>3 DEF LineageInv
<1>10. ToldMoved'
  <2>1. \A i \in DOMAIN record' \cap DOMAIN record :
          Followed(record', i) /\ Followed(record, i) =>
            (record'[i] # record[i] <=> DerivedFrom(query, i) \cap TouchedBy(query, t, j) # {})
    BY <1>7 DEF s
  <2> QED
    BY <1>4, <2>1 DEF ToldMoved, Differs
<1>11. LineageTold'
  BY <1>4, <1>10 DEF LineageTold, ShapeFree, RetypeTells, EditTells
<1> QED
  BY <1>9, <1>11

LEMMA LineageInductive ==
  LineageSpec => [](LineageInv /\ LineageTold)
<1>1. FirstLanding => LineageInv /\ LineageTold
  BY FirstLandingInv
<1>2. LineageInv /\ LineageTold /\ [LandAgain]_lineageVars => LineageInv' /\ LineageTold'
  <2> SUFFICES ASSUME LineageInv, LineageTold, [LandAgain]_lineageVars PROVE LineageInv' /\ LineageTold'
    OBVIOUS
  <2>1. CASE Reshape
    BY <2>1, ReshapeStep
  <2>2. CASE Edit
    BY <2>2, EditStep
  <2>3. CASE Retype
    BY <2>3, RetypeStep
  <2>4. CASE UNCHANGED lineageVars
    BY <2>4 DEF lineageVars, LineageInv, LineageTold, ShapeFree, RetypeTells, EditTells, ToldMoved, Differs
  <2> QED
    BY <2>1, <2>2, <2>3, <2>4 DEF LandAgain
<1> QED
  BY <1>1, <1>2, PTL DEF LineageSpec

\* "A filter, an order or a limit changes the rows, not what a column is": over any
\* queries, tables and types, and after any landings before it, a landing of a query
\* reshaped records of each column what the one before it did; of a column that
\* could not be followed it tells that the SQL changed (LineageOf, LineageJson).
THEOREM LineageShape == LineageSpec => []ShapeFree
<1>1. LineageTold => ShapeFree
  BY DEF LineageTold
<1> QED
  BY <1>1, LineageInductive, PTL

\* A source's column that arrives under another type moves the columns derived from
\* it, through any plan, and no other (the leaf of a scan, Walk and Text).
THEOREM LineageRetype == LineageSpec => []RetypeTells
<1>1. LineageTold => RetypeTells
  BY DEF LineageTold
<1> QED
  BY <1>1, LineageInductive, PTL

\* A column computed otherwise moves the columns derived from it and no other, wherever
\* in the plan; edited to what Text writes alike it moves none: another condition,
\* operator or case, a window of another frame.
THEOREM LineageEdit == LineageSpec => []EditTells
<1>1. LineageTold => EditTells
  BY DEF LineageTold
<1> QED
  BY <1>1, LineageInductive, PTL
=============================================================================
