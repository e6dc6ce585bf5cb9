-------------------------- MODULE GroundingProofs --------------------------
(***************************************************************************)
(* What a grounding owes its readers, for every set of actors and sqls and   *)
(* every bound: the view and its gloss when one connection glosses, and the  *)
(* claims on the view when any number do.  And what the validator keeps that *)
(* admits its body, as every other: for any schemas and documents.           *)
(***************************************************************************)
EXTENDS MCGrounding, Schema, StoreRowsProofs, TLAPS

\* The sql of the newest row, whichever actor's; Stop for a stop.
NewestBody == {r.body : r \in Newest(glossary)}
LiveSqls   == {v.sql : v \in Live}

Types ==
  /\ lake \in Nat
  /\ views \subseteq [sql : Sqls, begin : Nat, end : Nat]
  /\ \A r \in glossary : r.body \in Bodies
  /\ pc \in [Conns -> {"idle", "checked", "compared", "making", "made", "claiming"}]
  /\ gloss \in [Conns -> [actor : Actors \cup {Human}, body : Bodies]]
  /\ standing \in [Conns -> SUBSET Sqls]

\* How view and rows stand at each query of the one statement: level until the
\* view is made, the view ahead by the one gloss then.
Level(c) ==
  /\ pc[c] # "made" => \A v \in Live : NewestBody = {v.sql}
  /\ pc[c] \in {"compared", "making"} =>
       gloss[c].body # Stop /\ standing[c] = NewestBody \ {Stop}
  /\ pc[c] = "making" => gloss[c].body \notin standing[c] \/ Live = {}
  /\ pc[c] = "made" => LiveSqls = {gloss[c].body} \ {Stop}

OthersIdle(c) == \A d \in Conns \ {c} : pc[d] = "idle"

DoorInv(c) == Types /\ Numbered(glossary) /\ Level(c) /\ OthersIdle(c)

\* The steps of one connection whose glosses come to their end.
Statement(c) ==
  \/ \E actor \in Actors, body \in Bodies : CheckName(c, actor, body)
  \/ Refuse(c) \/ Unmake(c) \/ Compare(c) \/ Look(c) \/ Make(c) \/ MakeFails(c) \/ Insert(c)
  \/ DropByHand(c) \/ LandTable(c) \/ AdmitClaim(c) \/ LandClaim(c)
  \/ UNCHANGED vars

\* Ended leaves no definition live ...
LEMMA EndedLeavesNone ==
  ASSUME Types
  PROVE  \A v \in Ended : v.end # 0 /\ v \in [sql : Sqls, begin : Nat, end : Nat]
BY DEF Types, Ended, Live

\* ... and changes none when none was.
LEMMA EndedOfNone ==
  ASSUME Types, Live = {}
  PROVE  Ended = views
<1>1. \A v \in views : v.end # 0
  BY DEF Live
<1> QED
  BY <1>1 DEF Ended

\* A gloss that lands is the newest row, alone.
LEMMA InsertedIsNewest ==
  ASSUME NEW c \in Conns, Numbered(glossary), Insert(c)
  PROVE  NewestBody' = {gloss[c].body} /\ Numbered(glossary')
<1> DEFINE row == [seq |-> TopSeq(glossary) + 1, actor |-> gloss[c].actor, body |-> gloss[c].body]
<1>1. glossary' = glossary \cup {row} /\ row.seq = TopSeq(glossary) + 1
  BY DEF Insert
<1>2. Newest(glossary') = {row} /\ Numbered(glossary')
  <2> HIDE DEF row
  <2> QED
    BY <1>1, NextIsNewest
<1> QED
  BY <1>2 DEF NewestBody

\* The start is level.
LEMMA DoorInit == ASSUME NEW c \in Conns PROVE Init => DoorInv(c)
BY DEF Init, DoorInv, Types, Numbered, Level, Live, NoGloss, Bodies, OthersIdle

\* Each step of the one connection keeps the view and the rows level.
LEMMA OthersStep ==
  ASSUME NEW c \in Conns, DoorInv(c), Statement(c) PROVE OthersIdle(c)'
BY DEF DoorInv, Types, OthersIdle, Statement, CheckName, Refuse, Unmake, Compare, Look, Make, MakeFails, Insert,
       DropByHand, LandTable, AdmitClaim, LandClaim, vars

LEMMA DoorStep ==
  ASSUME NEW c \in Conns
  PROVE  DoorInv(c) /\ Statement(c) => DoorInv(c)'
<1> SUFFICES ASSUME DoorInv(c), Statement(c) PROVE DoorInv(c)'
  OBVIOUS
<1>0. OthersIdle(c)'
  BY OthersStep
<1> USE <1>0 DEF DoorInv
<1>1. ASSUME NEW actor \in Actors, NEW body \in Bodies, CheckName(c, actor, body)
      PROVE  DoorInv(c)'
  BY <1>1 DEF CheckName, Types, Level, Live, LiveSqls, NewestBody
<1>2. CASE Unmake(c)
  <2>1. Live' = {} /\ Types'
    BY <1>2, EndedLeavesNone DEF Unmake, Live, Types
  <2> QED
    BY <1>2, <2>1 DEF Unmake, Types, Level, LiveSqls
<1>3. CASE Compare(c)
  <2>1. Types'
    BY <1>3 DEF Compare, Types, Newest, NewestBody, Bodies
  <2> QED
    BY <1>3, <2>1 DEF Compare, Types, Level, Live, LiveSqls, NewestBody
<1>4. CASE Look(c)
  <2>1. Types' /\ Numbered(glossary')
    BY <1>4 DEF Look, Types
  <2>2. CASE gloss[c].body \in standing[c] /\ Live # {}
    <3>1. LiveSqls = {gloss[c].body} /\ gloss[c].body # Stop
      BY <1>4, <2>2 DEF Look, Level, LiveSqls
    <3> QED
      BY <1>4, <2>1, <2>2, <3>1 DEF Look, Level, Types, Live, LiveSqls
  <2>3. CASE ~ (gloss[c].body \in standing[c] /\ Live # {})
    BY <1>4, <2>1, <2>3 DEF Look, Level, Types, Live, LiveSqls, NewestBody
  <2> QED
    BY <2>2, <2>3
<1>5. CASE Make(c)
  <2> DEFINE made == [sql |-> gloss[c].body, begin |-> lake + 1, end |-> 0]
  <2>1. gloss[c].body # Stop /\ gloss[c].body \in Sqls
    BY <1>5 DEF Make, Level, Types, Bodies
  <2>2. views' = Ended \cup {made} /\ lake + 1 \in Nat
    BY <1>5 DEF Make, Types
  <2>3. Live' = {made}
    BY <2>2, EndedLeavesNone DEF Live
  <2>4. Types'
    BY <1>5, <2>1, <2>2, EndedLeavesNone DEF Make, Types
  <2> QED
    BY <1>5, <2>1, <2>3, <2>4 DEF Make, Types, Level, LiveSqls
<1>6. CASE MakeFails(c)
  BY <1>6 DEF MakeFails, Types, Level, Live, LiveSqls, NewestBody
<1>7. CASE Insert(c)
  <2>1. NewestBody' = {gloss[c].body} /\ Numbered(glossary')
    BY <1>7, InsertedIsNewest
  <2>2. Types' /\ Live' = Live /\ pc'[c] = "idle"
    BY <1>7 DEF Insert, Types, Live, Bodies
  <2>3. \A v \in Live : v.sql = gloss[c].body
    BY <1>7 DEF Insert, Level, LiveSqls
  <2> QED
    BY <2>1, <2>2, <2>3 DEF Level
<1>8. CASE DropByHand(c)
  <2>1. Live' = {} /\ Types'
    BY <1>8, EndedLeavesNone DEF DropByHand, Live, Types
  <2> QED
    BY <1>8, <2>1 DEF DropByHand, Types, Level
<1>9. CASE LandTable(c)
  BY <1>9 DEF LandTable, Types, Level, Live, LiveSqls, NewestBody
<1>10. CASE AdmitClaim(c)
  BY <1>10 DEF AdmitClaim, Types, Level, Live, LiveSqls, NewestBody
<1>11. CASE LandClaim(c)
  BY <1>11 DEF LandClaim, Types, Level, Live, LiveSqls, NewestBody
<1>12. CASE UNCHANGED vars
  BY <1>12 DEF vars, Types, Level, Live, LiveSqls, NewestBody
<1>13. CASE Refuse(c)
  BY <1>12, <1>13 DEF Refuse
<1> QED
  BY <1>1, <1>2, <1>3, <1>4, <1>5, <1>6, <1>7, <1>8, <1>9, <1>10, <1>11, <1>12, <1>13 DEF Statement

\* A step that ends or makes no definition leaves every claim as stale as it was;
\* one that does changes what the view carries.
LEMMA ClaimStep ==
  ASSUME NEW c \in Conns, DoorInv(c), Statement(c), NEW cl \in claims,
         ~ Stale(cl), Stale(cl)'
  PROVE  LiveSqls # LiveSqls'
<1>0. views' # views
  BY DEF Stale, StoodAt, Live
<1>1. CASE Unmake(c)
  <2>1. Live # {}
    BY <1>0, <1>1, EndedOfNone DEF Unmake, DoorInv
  <2>2. Live' = {}
    BY <1>1, EndedLeavesNone DEF Unmake, Live, DoorInv
  <2> QED
    BY <2>1, <2>2 DEF LiveSqls
<1>2. CASE DropByHand(c)
  <2>1. Live # {} /\ Live' = {}
    BY <1>2, EndedLeavesNone DEF DropByHand, Live, DoorInv
  <2> QED
    BY <2>1 DEF LiveSqls
<1>3. CASE Make(c)
  <2> DEFINE made == [sql |-> gloss[c].body, begin |-> lake + 1, end |-> 0]
  <2>1. Live' = {made}
    BY <1>3, EndedLeavesNone DEF Make, Live, DoorInv
  <2>2. LiveSqls' = {gloss[c].body}
    BY <2>1 DEF LiveSqls
  <2>3. \A v \in Live : v.sql # gloss[c].body
    BY <1>3 DEF Make, DoorInv, Level
  <2> QED
    BY <2>2, <2>3 DEF LiveSqls
<1> QED
  BY <1>0, <1>1, <1>2, <1>3
  DEF Statement, vars, CheckName, Refuse, Compare, Look, MakeFails, Insert, LandTable, AdmitClaim, LandClaim

-----------------------------------------------------------------------------
\* With one connection, no gloss deleted and none cut off, the live view carries
\* the sql of the newest gloss whenever no statement is under way, be it the one
\* that serves or not: Ground compares rows and never reads the view's own definition.
THEOREM OneDoorViewIsNewest ==
  ASSUME NEW c, Conns = {c} PROVE KeepSpec => []ViewIsNewest
<1>1. Init => DoorInv(c)
  BY DoorInit
<1>2. DoorInv(c) /\ [Keep]_vars => DoorInv(c)'
  BY DoorStep DEF Keep, Statement
<1>3. DoorInv(c) => ViewIsNewest
  BY DEF DoorInv, Level, ViewIsNewest, Idle, NewestBody
<1> QED
  BY <1>1, <1>2, <1>3, PTL DEF KeepSpec

\* ... a gloss that lands leaves the view as it says ...
THEOREM OneDoorTakesEffect ==
  ASSUME NEW c, Conns = {c} PROVE KeepSpec => GlossTakesEffect
<1>1. Init => DoorInv(c)
  BY DoorInit
<1>2. DoorInv(c) /\ [Keep]_vars => DoorInv(c)'
  BY DoorStep DEF Keep, Statement
<1>3. DoorInv(c) => TakesEffect
  BY DEF DoorInv, Level, LiveSqls, TakesEffect
<1> QED
  BY <1>1, <1>2, <1>3, PTL DEF KeepSpec, GlossTakesEffect

\* ... and a claim on the view goes stale only when the view comes to carry
\* another sql or is dropped: the same sql again keeps its version.
THEOREM OneDoorClaimsStand ==
  ASSUME NEW c, Conns = {c} PROVE KeepSpec => ClaimsStand
<1>1. Init => DoorInv(c)
  BY DoorInit
<1>2. DoorInv(c) /\ [Keep]_vars => DoorInv(c)'
  BY DoorStep DEF Keep, Statement
<1>3. DoorInv(c) /\ [Keep]_vars =>
        \A cl \in claims : ~ Stale(cl) /\ Stale(cl)' =>
          {v.sql : v \in Live} # {v.sql : v \in Live'}
  BY ClaimStep DEF LiveSqls, Keep, Statement
<1> QED
  BY <1>1, <1>2, <1>3, PTL DEF KeepSpec, ClaimsStand

-----------------------------------------------------------------------------
(* The same of the door of MCGrounding, alone open among any connections.    *)

LEMMA DoorAlone ==
  ASSUME Door \in Conns
  PROVE  /\ MCInit => (Alone => DoorInv(Door))
         /\ (Alone => DoorInv(Door)) /\ [MCNext]_<<vars, open>> =>
              /\ (Alone => DoorInv(Door))'
              /\ Alone => Statement(Door)
<1>1. MCInit => (Alone => DoorInv(Door))
  BY DoorInit DEF MCInit
<1>2. ASSUME [MCNext]_<<vars, open>> PROVE open' = open /\ (Alone => Statement(Door))
  BY <1>2 DEF MCNext, Same, Alone, Statement
<1>3. ASSUME Alone => DoorInv(Door), [MCNext]_<<vars, open>>, Alone' PROVE DoorInv(Door)'
  BY <1>2, <1>3, DoorStep DEF Alone
<1> QED
  BY <1>1, <1>2, <1>3

\* Of one connection among any, the live view carries the serving grounding's sql,
\* or a stop has ended it, once the newest gloss is the one that serves.
THEOREM DoorServing == ASSUME Door \in Conns PROVE MCSpec => []DoorViewServes
<1>1. (Alone => DoorInv(Door)) => DoorViewServes
  BY DEF DoorInv, Level, DoorViewServes, ViewServes, Idle, NewestBody
<1> QED
  BY <1>1, DoorAlone, PTL DEF MCSpec

\* Each gloss that lands leaves the view as it says, also over a view dropped by hand.
THEOREM DoorEffect == ASSUME Door \in Conns PROVE MCSpec => DoorTakesEffect
<1>1. Alone /\ (Alone => DoorInv(Door)) /\ [MCNext]_<<vars, open>> => TakesEffect
  <2> SUFFICES ASSUME Alone, DoorInv(Door), Statement(Door), NEW c \in Conns, pc[c] = "made", pc'[c] = "idle"
               PROVE  {v.sql : v \in Live} = {gloss[c].body} \ {Stop}
    BY DoorAlone DEF TakesEffect
  <2>1. c = Door
    BY DEF DoorInv, OthersIdle
  <2> QED
    BY <2>1 DEF DoorInv, Level, LiveSqls
<1>2. (Alone => DoorInv(Door)) /\ [MCNext]_<<vars, open>> => [Alone => TakesEffect]_vars
  BY <1>1
<1> QED
  BY <1>2, DoorAlone, PTL DEF MCSpec, DoorTakesEffect

\* A claim on the view goes stale only when the view comes to carry another sql.
THEOREM DoorClaims == ASSUME Door \in Conns PROVE MCSpec => DoorClaimsStand
<1>1. (Alone => DoorInv(Door)) /\ [MCNext]_<<vars, open>> =>
        [Alone => \A cl \in claims : ~ Stale(cl) /\ Stale(cl)' =>
           {v.sql : v \in Live} # {v.sql : v \in Live'}]_vars
  BY DoorAlone, ClaimStep DEF LiveSqls
<1> QED
  BY <1>1, DoorAlone, PTL DEF MCSpec, DoorClaimsStand

-----------------------------------------------------------------------------
(* Claims, whatever any connection makes, drops, deletes or leaves cut off.  *)

\* A definition of the lake, which begins with a snapshot taken and ends, if at
\* all, with a later one.
IsDefinition(v) ==
  /\ v = [sql |-> v.sql, begin |-> v.begin, end |-> v.end]
  /\ v.begin \in Nat /\ v.begin <= lake
  /\ v.end \in Nat /\ v.end <= lake
  /\ v.end = 0 \/ v.begin < v.end

Before(v, w) == v.end # 0 /\ v.end <= w.begin

\* No two definitions stand at once.
History ==
  /\ lake \in Nat
  /\ \A v \in views : IsDefinition(v)
  /\ \A v, w \in views : v = w \/ Before(v, w) \/ Before(w, v)

\* What a claim was written over is a definition that stood at its snapshot, as it
\* was while it was live.
WrittenOver(cl, v) ==
  v \in StoodAt(cl) /\ cl.of = {[sql |-> v.sql, begin |-> v.begin, end |-> 0]}

Founded ==
  \A cl \in claims :
    /\ cl.snapshot \in Nat /\ cl.snapshot <= lake
    /\ cl.of # {} => \E v \in views : WrittenOver(cl, v)

\* The views are left alone, or a commit ends the live one, or makes another too.
Kept == views' = views /\ lake' \in {lake, lake + 1}
Begun(sql) == [sql |-> sql, begin |-> lake + 1, end |-> 0]
Moved(made) == views' = Ended \cup made /\ lake' = lake + 1

LEMMA Moves ==
  ASSUME History, [Next]_vars
  PROVE  /\ Kept \/ Moved({}) \/ \E sql : Moved({Begun(sql)})
         /\ claims' = claims
              \/ (claims' = claims \cup {[snapshot |-> lake, of |-> Live]}
                  /\ UNCHANGED <<views, lake>>)
<1>1. ASSUME Live = {} PROVE Ended = views
  <2>1. \A v \in views : v.end # 0
    BY <1>1 DEF Live
  <2> QED
    BY <1>1, <2>1 DEF Ended
<1>2. ASSUME NEW c \in Conns, Unmake(c)
      PROVE  (Kept \/ Moved({})) /\ claims' = claims
  BY <1>1, <1>2 DEF Unmake, Kept, Moved
<1>3. ASSUME NEW c \in Conns, Make(c)
      PROVE  Moved({Begun(gloss[c].body)}) /\ claims' = claims
  BY <1>3 DEF Make, Moved, Begun
<1>4. ASSUME NEW c \in Conns, DropByHand(c)
      PROVE  Moved({}) /\ claims' = claims
  BY <1>4 DEF DropByHand, Moved
<1>5. ASSUME NEW c \in Conns, LandClaim(c)
      PROVE  /\ UNCHANGED <<views, lake>>
             /\ claims' = claims \cup {[snapshot |-> lake, of |-> Live]}
  BY <1>5 DEF LandClaim
<1>6. ASSUME UNCHANGED vars PROVE Kept /\ claims' = claims
  BY <1>6 DEF vars, Kept
<1>7. CASE \E c \in Conns, actor \in Actors, body \in Bodies : CheckName(c, actor, body)
  BY <1>7 DEF CheckName, Kept
<1>8. CASE \E c \in Conns : Unmake(c)
  BY <1>2, <1>8
<1>9. CASE \E c \in Conns : Make(c)
  BY <1>3, <1>9
<1>10. CASE \E c \in Conns : DropByHand(c)
  BY <1>4, <1>10
<1>11. CASE \E c \in Conns : LandClaim(c)
  BY <1>5, <1>11 DEF Kept
<1>12. CASE \E c \in Conns : \/ Compare(c) \/ Look(c) \/ MakeFails(c) \/ Insert(c)
                              \/ LandTable(c) \/ AdmitClaim(c) \/ Delete(c) \/ InsertFails(c)
  BY <1>12 DEF Compare, Look, MakeFails, Insert, LandTable, AdmitClaim, Delete, InsertFails, Kept
<1>13. CASE UNCHANGED vars
  BY <1>6, <1>13
<1>14. CASE \E c \in Conns : Refuse(c)
  BY <1>6, <1>14 DEF Refuse
<1> QED
  BY <1>7, <1>8, <1>9, <1>10, <1>11, <1>12, <1>13, <1>14 DEF Next, Deleting, Keep

\* A definition after the step: one that had ended, the live one ended now, or the
\* one made.
LEMMA DefinitionAfter ==
  ASSUME NEW made, Moved(made), NEW v \in views'
  PROVE  \/ v \in views /\ v.end # 0
         \/ \E w \in Live : v = [sql |-> w.sql, begin |-> w.begin, end |-> lake + 1]
         \/ v \in made
BY DEF Moved, Ended

LEMMA HistoryMoves ==
  ASSUME History, NEW made, Moved(made), made = {} \/ \E sql : made = {Begun(sql)}
  PROVE  History'
<1>1. lake' \in Nat /\ lake' = lake + 1 /\ lake \in Nat
  BY DEF History, Moved
<1>2. ASSUME NEW v \in views' PROVE IsDefinition(v)'
  BY <1>1, <1>2, DefinitionAfter DEF History, IsDefinition, Live, Begun
<1>3. ASSUME NEW v \in views', NEW w \in views'
      PROVE  v = w \/ Before(v, w) \/ Before(w, v)
  BY <1>1, <1>3, DefinitionAfter DEF History, IsDefinition, Live, Begun, Before
<1> QED
  BY <1>1, <1>2, <1>3 DEF History

LEMMA HistoryStep == History /\ [Next]_vars => History'
<1> SUFFICES ASSUME History, [Next]_vars PROVE History'
  OBVIOUS
<1>1. CASE Kept
  BY <1>1 DEF Kept, History, IsDefinition
<1>2. CASE Moved({})
  BY <1>2, HistoryMoves
<1>3. ASSUME NEW sql, Moved({Begun(sql)}) PROVE History'
  BY <1>3, HistoryMoves
<1> QED
  BY <1>1, <1>2, <1>3, Moves

\* What stood at a snapshot that is past stood there still after the step.
LEMMA StoodBefore ==
  ASSUME History, NEW cl, cl.snapshot \in Nat, cl.snapshot <= lake,
         NEW v \in StoodAt(cl), [Next]_vars
  PROVE  \E w \in StoodAt(cl)' : w.sql = v.sql /\ w.begin = v.begin
<1>1. CASE Kept
  BY <1>1 DEF Kept, StoodAt
<1>2. ASSUME NEW made, Moved(made)
      PROVE  \E w \in StoodAt(cl)' : w.sql = v.sql /\ w.begin = v.begin
  <2> DEFINE ended == [sql |-> v.sql, begin |-> v.begin, end |-> lake + 1]
  <2>1. CASE v.end = 0
    <3>1. ended \in views'
      BY <1>2, <2>1 DEF Moved, Ended, Live, StoodAt
    <3>2. ended \in StoodAt(cl)'
      BY <3>1 DEF StoodAt, History
    <3> QED
      BY <3>2
  <2>2. CASE v.end # 0
    BY <1>2, <2>2 DEF Moved, Ended, StoodAt
  <2> QED
    BY <2>1, <2>2
<1> QED
  BY <1>1, <1>2, Moves

LEMMA FoundedStep == History /\ Founded /\ [Next]_vars => Founded'
<1> SUFFICES ASSUME History, Founded, [Next]_vars PROVE Founded'
  OBVIOUS
<1>1. lake \in Nat /\ lake' \in {lake, lake + 1}
  BY Moves DEF History, Kept, Moved
<1>2. ASSUME NEW cl \in claims
      PROVE  /\ cl.snapshot \in Nat /\ cl.snapshot <= lake'
             /\ cl.of # {} => \E v \in views' : WrittenOver(cl, v)'
  <2>1. cl.snapshot \in Nat /\ cl.snapshot <= lake
    BY <1>2 DEF Founded
  <2>2. ASSUME cl.of # {} PROVE \E v \in views' : WrittenOver(cl, v)'
    <3>1. PICK v \in views : WrittenOver(cl, v)
      BY <1>2, <2>2 DEF Founded
    <3>2. PICK w \in StoodAt(cl)' : w.sql = v.sql /\ w.begin = v.begin
      BY <2>1, <3>1, StoodBefore DEF WrittenOver
    <3> QED
      BY <3>1, <3>2 DEF WrittenOver, StoodAt
  <2> QED
    BY <1>1, <2>1, <2>2
<1>3. ASSUME UNCHANGED <<views, lake>>, NEW cl, cl = [snapshot |-> lake, of |-> Live]
      PROVE  /\ cl.snapshot \in Nat /\ cl.snapshot <= lake'
             /\ cl.of # {} => \E v \in views' : WrittenOver(cl, v)'
  <2>1. ASSUME NEW v \in Live
        PROVE  /\ v \in views /\ v.end = 0 /\ v \in StoodAt(cl)'
               /\ v = [sql |-> v.sql, begin |-> v.begin, end |-> 0] /\ Live = {v}
    BY <1>3, <2>1 DEF History, IsDefinition, Live, StoodAt, Before
  <2> QED
    BY <1>1, <1>3, <2>1 DEF WrittenOver
<1> QED
  BY <1>2, <1>3, Moves DEF Founded

LEMMA ClaimsInit == Init => History /\ Founded
BY DEF Init, History, Founded

\* A claim is stale exactly when the definition it was written over is not the live
\* one, on any number of connections, glosses deleted and cut off.
THEOREM ClaimsAlwaysTell == Spec => []ClaimsTell
<1>1. ASSUME History, Founded, NEW cl \in claims, cl.of # {}
      PROVE  Stale(cl) <=> Live # cl.of
  <2>1. PICK v \in views : WrittenOver(cl, v)
    BY <1>1 DEF Founded
  <2>2. /\ cl.snapshot \in Nat /\ v \in StoodAt(cl)
        /\ cl.of = {[sql |-> v.sql, begin |-> v.begin, end |-> 0]}
    BY <1>1, <2>1 DEF Founded, WrittenOver
  <2>3. CASE v.end = 0
    <3>1. Live = {v} /\ cl.of = {v}
      BY <1>1, <2>2, <2>3 DEF History, IsDefinition, Live, Before
    <3> QED
      BY <2>2, <3>1 DEF Stale, StoodAt
  <2>4. CASE v.end # 0
    <3>1. ASSUME NEW w \in Live PROVE w.begin > cl.snapshot /\ w.begin > v.begin
      BY <1>1, <2>2, <2>4, <3>1 DEF History, IsDefinition, Live, Before, StoodAt
    <3>2. Stale(cl)
      BY <1>1, <2>2, <3>1 DEF Stale, History, IsDefinition, Live
    <3>3. [sql |-> v.sql, begin |-> v.begin, end |-> 0] \notin Live
      BY <1>1, <3>1 DEF History, IsDefinition
    <3> QED
      BY <2>2, <3>2, <3>3
  <2> QED
    BY <2>3, <2>4
<1>2. History /\ Founded => ClaimsTell
  BY <1>1 DEF ClaimsTell
<1> QED
  BY <1>2, ClaimsInit, HistoryStep, FoundedStep, PTL DEF Spec

\* A claim once stale is stale for good: a view made again under the name, by
\* whichever connection, does not bring it back.
THEOREM StaleIsForGood == Spec => StaleStays
<1>1. ASSUME History, Founded, [Next]_vars, NEW cl \in claims, Stale(cl)
      PROVE  Stale(cl)'
  <2>1. lake \in Nat /\ cl.snapshot \in Nat /\ cl.snapshot <= lake
    BY <1>1 DEF History, Founded
  <2>2. StoodAt(cl)' # {}
    BY <1>1, <2>1, StoodBefore DEF Stale
  <2>3. CASE Kept
    BY <1>1, <2>3 DEF Kept, Stale, StoodAt, Live
  <2>4. ASSUME NEW made, Moved(made), made = {} \/ \E sql : made = {Begun(sql)}
        PROVE  \A v \in Live' : ~ v.begin <= cl.snapshot
    <3>1. ASSUME NEW v \in Live' PROVE v \in made
      BY <2>1, <2>4, <3>1, DefinitionAfter DEF Live
    <3> QED
      BY <2>1, <2>4, <3>1 DEF Begun
  <2>5. CASE ~ Kept
    <3>1. \A v \in Live' : ~ v.begin <= cl.snapshot
      BY <1>1, <2>4, <2>5, Moves
    <3> QED
      BY <2>2, <3>1 DEF Stale
  <2> QED
    BY <2>3, <2>5
<1>2. History /\ Founded /\ [Next]_vars => \A cl \in claims : Stale(cl) => Stale(cl)'
  BY <1>1
<1>3. History /\ Founded /\ [Next]_vars
        => [\A cl \in claims : Stale(cl) => Stale(cl)']_vars
  BY <1>2
<1> QED
  BY <1>3, ClaimsInit, HistoryStep, FoundedStep, PTL DEF Spec, StaleStays

-----------------------------------------------------------------------------
(* Recursive functions on a set whose elements have depths: there is one, and  *)
(* only one.                                                               *)

\* A set of elements with depths has one of least depth.
LEMMA LeastDeep ==
  ASSUME NEW D, NEW depth \in [D -> Nat], NEW T \in SUBSET D, T # {}
  PROVE  \E x \in T : \A y \in T : depth[x] <= depth[y]
<1> DEFINE S == {depth[x] : x \in T}
<1>1. S \in SUBSET Nat /\ S # {}
  OBVIOUS
<1>2. \A x \in T : depth[x] \in S
  OBVIOUS
<1>3. \A n \in S : \E x \in T : n = depth[x]
  OBVIOUS
<1> HIDE DEF S
<1>4. PICK n \in S : \A m \in S : n <= m
  BY <1>1, LeastNumber
<1>5. PICK x \in T : n = depth[x]
  BY <1>3
<1> QED
  BY <1>2, <1>4, <1>5

\* Two functions that agree where they agree on all less deep are the same.
LEMMA AgreeByDepth ==
  ASSUME NEW D, NEW depth \in [D -> Nat], NEW f, NEW g,
         \A x \in D : (\A y \in D : depth[y] < depth[x] => f[y] = g[y]) => f[x] = g[x]
  PROVE  \A x \in D : f[x] = g[x]
<1> DEFINE T == {x \in D : f[x] # g[x]}
<1> SUFFICES ASSUME T # {} PROVE FALSE
  OBVIOUS
<1>1. T \in SUBSET D
  OBVIOUS
<1>2. PICK x \in T : \A y \in T : depth[x] <= depth[y]
  <2> HIDE DEF T
  <2> QED
    BY <1>1, LeastDeep
<1>3. ASSUME NEW y \in D, depth[y] < depth[x] PROVE f[y] = g[y]
  <2> SUFFICES ASSUME f[y] # g[y] PROVE FALSE
    OBVIOUS
  <2>1. y \in T /\ depth[x] \in Nat /\ depth[y] \in Nat
    OBVIOUS
  <2>2. depth[x] <= depth[y]
    BY <1>2, <2>1
  <2> QED
    BY <1>3, <2>1, <2>2
<1> QED
  BY <1>3

\* F[f] is, of each element, told by f of the less deep.
ReadsLess(D, R, depth, F) ==
  \A f, g \in [D -> R] : \A x \in D :
    (\A y \in D : depth[y] < depth[x] => f[y] = g[y]) => F[f][x] = F[g][x]

Defined(D, R, F) == \E f \in [D -> R] : f = F[f]

\* A step that reads only what is less deep has a fixed point: a recursive function
\* of it is defined.
LEMMA DefinedByDepth ==
  ASSUME NEW D, NEW R, R # {}, NEW depth \in [D -> Nat],
         NEW F \in [[D -> R] -> [D -> R]], ReadsLess(D, R, depth, F)
  PROVE  Defined(D, R, F)
<1> USE DEF ReadsLess, Defined
<1> DEFINE Solves(h, n) == \A x \in D : depth[x] < n => h[x] = F[h][x]
           Unsolved == {n \in Nat : ~ \E h \in [D -> R] : Solves(h, n)}
<1>1. Unsolved = {}
  <2> SUFFICES ASSUME Unsolved # {} PROVE FALSE
    OBVIOUS
  <2>1. PICK n \in Unsolved : \A m \in Unsolved : n <= m
    <3>1. Unsolved \in SUBSET Nat
      OBVIOUS
    <3> HIDE DEF Unsolved
    <3> QED
      BY <3>1, LeastNumber
  <2>2. n \in Nat /\ ~ \E h \in [D -> R] : Solves(h, n)
    OBVIOUS
  <2>3. PICK r \in R : TRUE
    OBVIOUS
  <2>4. n # 0
    <3>1. [x \in D |-> r] \in [D -> R]
      OBVIOUS
    <3>2. Solves([x \in D |-> r], 0)
      OBVIOUS
    <3> HIDE DEF Solves
    <3> QED
      BY <2>2, <3>1, <3>2
  <2>5. PICK h \in [D -> R] : Solves(h, n - 1)
    <3>1. n - 1 \in Nat /\ ~ n <= n - 1
      BY <2>2, <2>4
    <3>2. n - 1 \notin Unsolved
      BY <2>1, <3>1
    <3> QED
      BY <3>1, <3>2
  <2>6. F[h] \in [D -> R]
    OBVIOUS
  <2>7. ASSUME NEW x \in D, depth[x] < n PROVE F[h][x] = F[F[h]][x]
    <3>1. ASSUME NEW y \in D, depth[y] < depth[x] PROVE h[y] = F[h][y]
      <4>1. depth[x] \in Nat /\ depth[y] \in Nat /\ n \in Nat
        BY <2>2
      <4>2. depth[y] < n - 1
        BY <2>7, <3>1, <4>1
      <4> QED
        BY <2>5, <4>2
    <3> QED
      BY <2>6, <3>1
  <2>8. Solves(F[h], n)
    BY <2>7
  <2> HIDE DEF Solves
  <2> QED
    BY <2>2, <2>6, <2>8
<1>2. ASSUME NEW g \in [D -> R], NEW h \in [D -> R], NEW m \in Nat, NEW n \in Nat,
             Solves(g, m), Solves(h, n), NEW x \in D, depth[x] < m, depth[x] < n
      PROVE  g[x] = h[x]
  <2> DEFINE T == {y \in D : depth[y] < m /\ depth[y] < n /\ g[y] # h[y]}
  <2> SUFFICES ASSUME T # {} PROVE FALSE
    BY <1>2
  <2>1. T \in SUBSET D
    OBVIOUS
  <2>2. PICK y \in T : \A z \in T : depth[y] <= depth[z]
    <3> HIDE DEF T
    <3> QED
      BY <2>1, LeastDeep
  <2>3. y \in D /\ depth[y] < m /\ depth[y] < n /\ depth[y] \in Nat /\ g[y] # h[y]
    OBVIOUS
  <2>4. ASSUME NEW z \in D, depth[z] < depth[y] PROVE g[z] = h[z]
    <3> SUFFICES ASSUME g[z] # h[z] PROVE FALSE
      OBVIOUS
    <3>1. depth[z] \in Nat /\ depth[z] < m /\ depth[z] < n /\ ~ depth[y] <= depth[z]
      BY <2>3, <2>4
    <3> QED
      BY <2>2, <3>1
  <2>5. F[g][y] = F[h][y]
    BY <2>3, <2>4
  <2>6. g[y] = F[g][y] /\ h[y] = F[h][y]
    BY <1>2, <2>3
  <2> QED
    BY <2>3, <2>5, <2>6
<1> DEFINE sol == [n \in Nat |-> CHOOSE h \in [D -> R] : Solves(h, n)]
           f == [x \in D |-> sol[depth[x] + 1][x]]
<1>3. \A n \in Nat : sol[n] \in [D -> R] /\ Solves(sol[n], n)
  <2> TAKE n \in Nat
  <2>1. \E h \in [D -> R] : Solves(h, n)
    BY <1>1
  <2>2. sol[n] = CHOOSE h \in [D -> R] : Solves(h, n)
    OBVIOUS
  <2> HIDE DEF Solves, sol
  <2> QED
    BY <2>1, <2>2
<1>4. \A x \in D : depth[x] \in Nat /\ depth[x] + 1 \in Nat
  OBVIOUS
<1>5. f \in [D -> R] /\ \A x \in D : f[x] = sol[depth[x] + 1][x]
  <2> HIDE DEF sol
  <2> QED
    BY <1>3, <1>4
<1>6. ASSUME NEW x \in D PROVE f[x] = F[f][x]
  <2> DEFINE h == sol[depth[x] + 1]
  <2>1. h \in [D -> R] /\ Solves(h, depth[x] + 1) /\ f[x] = h[x]
    BY <1>3, <1>4, <1>5
  <2>2. ASSUME NEW y \in D, depth[y] < depth[x] PROVE f[y] = h[y]
    <3>1. sol[depth[y] + 1] \in [D -> R] /\ Solves(sol[depth[y] + 1], depth[y] + 1)
      BY <1>3, <1>4
    <3>2. depth[y] < depth[y] + 1 /\ depth[y] < depth[x] + 1
      BY <1>4, <2>2
    <3>3. sol[depth[y] + 1][y] = h[y]
      <4> HIDE DEF Solves, sol, h
      <4> QED
        BY <1>2, <1>4, <2>1, <3>1, <3>2
    <3> QED
      BY <1>5, <3>3
  <2>3. F[f][x] = F[h][x]
    <3> HIDE DEF f, h
    <3> QED
      BY <1>5, <2>1, <2>2
  <2>4. h[x] = F[h][x]
    <3>1. depth[x] < depth[x] + 1
      BY <1>4
    <3> QED
      BY <2>1, <3>1
  <2> QED
    BY <2>1, <2>3, <2>4
<1>7. F[f] \in [D -> R]
  BY <1>5
<1> HIDE DEF f
<1>8. f = F[f]
  BY <1>5, <1>6, <1>7
<1> QED
  BY <1>5, <1>8

-----------------------------------------------------------------------------
(* JSON values.                                                            *)

\* The assumption on the values, for one of them.
LEMMA JsonIs ==
  ASSUME NEW v \in JsonValues
  PROVE  IsJson(v) /\ JsonDepth[v] \in Nat /\ v # None /\ v.t # "none"
<1>1. IsJson(v) /\ JsonDepth[v] \in Nat
  BY JsonAssumption
<1>2. v.t # "none"
  BY <1>1 DEF IsJson
<1> QED
  BY <1>1, <1>2 DEF None

\* Its items and the values of its members are values less deep.
LEMMA PartsWithin ==
  ASSUME NEW v \in JsonValues
  PROVE  /\ \A e \in Items(v) : e \in JsonValues /\ JsonDepth[e] < JsonDepth[v]
         /\ \A m \in Members(v) : m.value \in JsonValues /\ JsonDepth[m.value] < JsonDepth[v]
<1>1. \A part \in Parts(v) : part \in JsonValues /\ JsonDepth[part] < JsonDepth[v]
  BY JsonAssumption
<1>2. /\ \A e \in Items(v) : e \in Parts(v)
      /\ \A m \in Members(v) : m.value \in Parts(v)
  BY DEF Parts
<1> QED
  BY <1>1, <1>2

\* An array lists its items ...
LEMMA ItemsAre ==
  ASSUME NEW v \in JsonValues, v.t = "array"
  PROVE  /\ Len(v.items) \in Nat /\ DOMAIN v.items = 1 .. Len(v.items)
         /\ \A i \in DOMAIN v.items : v.items[i] \in Items(v)
         /\ \A e \in Items(v) : \E i \in DOMAIN v.items : e = v.items[i]
<1>1. v.items \in Seq(Items(v))
  BY JsonIs DEF IsJson
<1>2. Items(v) = {v.items[i] : i \in DOMAIN v.items}
  BY DEF Items, Range
<1>3. Len(v.items) \in Nat /\ DOMAIN v.items = 1 .. Len(v.items)
  BY <1>1
<1> QED
  BY <1>2, <1>3

\* ... and an object its members.
LEMMA MembersAre ==
  ASSUME NEW v \in JsonValues, v.t = "object"
  PROVE  /\ Len(v.members) \in Nat /\ DOMAIN v.members = 1 .. Len(v.members)
         /\ \A i \in DOMAIN v.members : v.members[i] \in Members(v)
         /\ \A m \in Members(v) : m.key \in STRING /\ \E i \in DOMAIN v.members : m = v.members[i]
<1>1. v.members \in Seq([key : STRING, value : Parts(v)])
  BY JsonIs DEF IsJson
<1>2. Members(v) = {v.members[i] : i \in DOMAIN v.members}
  BY DEF Members, Range
<1>3. Len(v.members) \in Nat /\ DOMAIN v.members = 1 .. Len(v.members)
  BY <1>1
<1>4. \A i \in DOMAIN v.members : v.members[i].key \in STRING
  <2> DEFINE M == [key : STRING, value : Parts(v)]
  <2>1. \A m \in M : m.key \in STRING
    OBVIOUS
  <2>2. v.members \in Seq(M)
    BY <1>1
  <2> HIDE DEF M
  <2>3. \A i \in DOMAIN v.members : v.members[i] \in M
    BY <2>2
  <2> QED
    BY <2>1, <2>3
<1> QED
  BY <1>2, <1>3, <1>4

\* The one of a key is there when a member has the key, and is a member's value.
LEMMA GetIs ==
  ASSUME NEW v \in JsonValues, NEW key
  PROVE  /\ (\E m \in Members(v) : m.key = key) <=> Get(v, key) # None
         /\ Get(v, key) # None =>
              /\ \E m \in Members(v) : m.key = key /\ Get(v, key) = m.value
              /\ Get(v, key) \in JsonValues /\ JsonDepth[Get(v, key)] < JsonDepth[v]
<1>1. CASE ~ \E m \in Members(v) : m.key = key
  BY <1>1 DEF Get
<1>2. CASE \E m \in Members(v) : m.key = key
  <2>1. v.t = "object"
    BY <1>2 DEF Members
  <2> DEFINE S == {i \in DOMAIN v.members : v.members[i].key = key}
             F(i) == v.members[i].key = key /\ \A j \in 1 .. i - 1 : v.members[j].key # key
             first == CHOOSE i \in DOMAIN v.members : F(i)
  <2>2. S \in SUBSET Nat /\ S # {}
    BY <1>2, <2>1, MembersAre
  <2>3. PICK n \in S : \A k \in S : n <= k
    <3> HIDE DEF S
    <3> QED
      BY <2>2, LeastNumber
  <2>4. n \in DOMAIN v.members /\ F(n)
    <3>1. n \in DOMAIN v.members /\ v.members[n].key = key /\ n \in 1 .. Len(v.members) /\ Len(v.members) \in Nat
      BY <2>1, MembersAre
    <3>2. ASSUME NEW j \in 1 .. n - 1 PROVE v.members[j].key # key
      <4>1. j \in DOMAIN v.members /\ ~ n <= j
        BY <2>1, <3>1, MembersAre
      <4> QED
        BY <2>3, <4>1
    <3> QED
      BY <3>1, <3>2
  <2>5. first \in DOMAIN v.members /\ F(first)
    <3> HIDE DEF F
    <3> QED
      BY <2>4
  <2>6. Get(v, key) = v.members[first].value
    BY <1>2 DEF Get
  <2>7. v.members[first] \in Members(v) /\ v.members[first].key = key
    <3> HIDE DEF first
    <3> QED
      BY <2>1, <2>5, MembersAre
  <2> HIDE DEF first
  <2>8. Get(v, key) \in JsonValues /\ JsonDepth[Get(v, key)] < JsonDepth[v]
    BY <2>6, <2>7, PartsWithin
  <2> QED
    BY <1>2, <2>6, <2>7, <2>8, JsonIs
<1> QED
  BY <1>1, <1>2

\* What is no object has none.
LEMMA GetOfOther ==
  ASSUME NEW v, NEW key, v.t # "object"
  PROVE  Get(v, key) = None
BY DEF Get, Members

LEMMA GetOfNone ==
  ASSUME NEW key
  PROVE  Get(None, key) = None /\ None.t = "none"
<1>1. None.t = "none"
  BY DEF None
<1> QED
  BY <1>1, GetOfOther

\* A key of a key's value is as much a part.
LEMMA GetTwice ==
  ASSUME NEW v \in JsonValues, NEW key, NEW inner, Get(Get(v, key), inner) # None
  PROVE  /\ Get(v, key) # None
         /\ Get(Get(v, key), inner) \in JsonValues
         /\ JsonDepth[Get(Get(v, key), inner)] < JsonDepth[v]
<1>1. Get(v, key) # None
  BY GetOfNone
<1>2. Get(v, key) \in JsonValues /\ JsonDepth[Get(v, key)] < JsonDepth[v]
  BY <1>1, GetIs
<1> DEFINE w == Get(v, key)
<1>3. Get(w, inner) \in JsonValues /\ JsonDepth[Get(w, inner)] < JsonDepth[w]
  <2>1. w \in JsonValues /\ Get(w, inner) # None
    BY <1>2
  <2> HIDE DEF w
  <2> QED
    BY <2>1, GetIs
<1>4. JsonDepth[Get(w, inner)] \in Nat /\ JsonDepth[w] \in Nat /\ JsonDepth[v] \in Nat
  <2>1. w \in JsonValues
    BY <1>2
  <2> HIDE DEF w
  <2> QED
    BY <1>3, <2>1, JsonIs
<1> QED
  BY <1>1, <1>2, <1>3, <1>4

\* An item of a key's value too.
LEMMA ItemsOfGet ==
  ASSUME NEW v \in JsonValues, NEW key
  PROVE  \A e \in Items(Get(v, key)) : e \in JsonValues /\ JsonDepth[e] < JsonDepth[v]
<1>1. CASE Get(v, key) = None
  BY <1>1, GetOfNone DEF Items
<1>2. CASE Get(v, key) # None
  <2> DEFINE w == Get(v, key)
  <2>1. w \in JsonValues /\ JsonDepth[w] < JsonDepth[v]
    BY <1>2, GetIs
  <2> HIDE DEF w
  <2>2. \A e \in Items(w) : e \in JsonValues /\ JsonDepth[e] < JsonDepth[w]
    BY <2>1, PartsWithin
  <2>3. JsonDepth[w] \in Nat /\ JsonDepth[v] \in Nat /\ \A e \in Items(w) : JsonDepth[e] \in Nat
    BY <2>1, <2>2, JsonIs
  <2>4. \A e \in Items(w) : e \in JsonValues /\ JsonDepth[e] < JsonDepth[v]
    BY <2>1, <2>2, <2>3
  <2> QED
    BY <2>4 DEF w
<1> QED
  BY <1>1, <1>2

-----------------------------------------------------------------------------
(* The recursive functions of a schema and a value.                        *)

\* Two functions that agree on every pair whose schema is less deep.
Shares(f, g, s) == \A t, v \in JsonValues : JsonDepth[t] < JsonDepth[s] => f[<<t, v>>] = g[<<t, v>>]

LEMMA PairsDefine ==
  ASSUME NEW R, R # {},
         NEW F \in [[JsonPairs -> R] -> [JsonPairs -> R]],
         \A f, g \in [JsonPairs -> R] : \A s, v \in JsonValues :
           Shares(f, g, s) => F[f][<<s, v>>] = F[g][<<s, v>>]
  PROVE  Defined(JsonPairs, R, F)
<1> DEFINE depth == [p \in JsonPairs |-> JsonDepth[p[1]]]
<1>1. \A p \in JsonPairs : p = <<p[1], p[2]>> /\ p[1] \in JsonValues /\ p[2] \in JsonValues
  BY DEF JsonPairs
<1>2. \A t, v \in JsonValues : <<t, v>> \in JsonPairs /\ depth[<<t, v>>] = JsonDepth[t]
  BY DEF JsonPairs
<1>3. depth \in [JsonPairs -> Nat]
  BY <1>1, JsonIs
<1>4. ASSUME NEW f \in [JsonPairs -> R], NEW g \in [JsonPairs -> R], NEW p \in JsonPairs,
             \A q \in JsonPairs : depth[q] < depth[p] => f[q] = g[q]
      PROVE  F[f][p] = F[g][p]
  <2> HIDE DEF depth
  <2>1. p = <<p[1], p[2]>> /\ p[1] \in JsonValues /\ p[2] \in JsonValues
    BY <1>1
  <2>2. depth[p] = JsonDepth[p[1]]
    BY <1>2, <2>1
  <2>3. Shares(f, g, p[1])
    BY <1>2, <1>4, <2>2 DEF Shares
  <2>4. F[f][<<p[1], p[2]>>] = F[g][<<p[1], p[2]>>]
    BY <2>1, <2>3
  <2> QED
    BY <2>1, <2>4
<1>5. \A f, g \in [JsonPairs -> R] : \A p \in JsonPairs :
        (\A q \in JsonPairs : depth[q] < depth[p] => f[q] = g[q]) => F[f][p] = F[g][p]
  BY <1>4
<1> HIDE DEF depth
<1>6. ReadsLess(JsonPairs, R, depth, F)
  BY <1>5 DEF ReadsLess
<1> QED
  BY <1>3, <1>6, DefinedByDepth

\* Two functions that agree where they share what is less deep.
Follow(f, g) == \A s, v \in JsonValues : Shares(f, g, s) => f[<<s, v>>] = g[<<s, v>>]

SameOnPairs(f, g) == \A s, v \in JsonValues : f[<<s, v>>] = g[<<s, v>>]

LEMMA PairsAgree ==
  ASSUME NEW f, NEW g, Follow(f, g)
  PROVE  SameOnPairs(f, g)
<1> DEFINE T == {s \in JsonValues : \E v \in JsonValues : f[<<s, v>>] # g[<<s, v>>]}
<1> SUFFICES ASSUME T # {} PROVE FALSE
  BY DEF SameOnPairs
<1>1. T \in SUBSET JsonValues /\ JsonDepth \in [JsonValues -> Nat]
  BY JsonAssumption
<1>2. PICK s \in T : \A t \in T : JsonDepth[s] <= JsonDepth[t]
  <2> HIDE DEF T
  <2> QED
    BY <1>1, LeastDeep
<1>3. Shares(f, g, s)
  <2>1. SUFFICES ASSUME NEW t \in JsonValues, NEW v \in JsonValues, JsonDepth[t] < JsonDepth[s],
                        f[<<t, v>>] # g[<<t, v>>]
                 PROVE  FALSE
    BY DEF Shares
  <2>2. t \in T
    BY <2>1
  <2>3. JsonDepth[s] <= JsonDepth[t] /\ JsonDepth[t] \in Nat /\ JsonDepth[s] \in Nat
    BY <1>1, <1>2, <2>2
  <2> QED
    BY <2>1, <2>3
<1>4. s \in JsonValues /\ \E v \in JsonValues : f[<<s, v>>] # g[<<s, v>>]
  OBVIOUS
<1> HIDE DEF T
<1> QED
  BY <1>3, <1>4 DEF Follow

LEMMA EqualsReads ==
  ASSUME NEW f, NEW g, NEW a \in JsonValues, NEW b \in JsonValues, Shares(f, g, a)
  PROVE  EqualsBy(f, a, b) = EqualsBy(g, a, b)
<1>1. ASSUME a.t = b.t, NEW m \in Members(a), Get(b, m.key) # None
      PROVE  f[<<m.value, Get(b, m.key)>>] = g[<<m.value, Get(b, m.key)>>]
  <2>1. m.value \in JsonValues /\ JsonDepth[m.value] < JsonDepth[a] /\ Get(b, m.key) \in JsonValues
    BY <1>1, PartsWithin, GetIs
  <2> QED
    BY <2>1 DEF Shares
<1>2. ASSUME a.t = "array", b.t = "array", Len(a.items) = Len(b.items), NEW i \in DOMAIN a.items
      PROVE  f[<<a.items[i], b.items[i]>>] = g[<<a.items[i], b.items[i]>>]
  <2>1. a.items[i] \in Items(a) /\ b.items[i] \in Items(b)
    BY <1>2, ItemsAre
  <2>2. a.items[i] \in JsonValues /\ JsonDepth[a.items[i]] < JsonDepth[a] /\ b.items[i] \in JsonValues
    BY <2>1, PartsWithin
  <2> QED
    BY <2>2 DEF Shares
<1> QED
  BY <1>1, <1>2 DEF EqualsBy

LEMMA EqualsIs ==
  ASSUME NEW a \in JsonValues, NEW b \in JsonValues
  PROVE  Equals[<<a, b>>] = EqualsBy(Equals, a, b)
<1> DEFINE F == [f \in [JsonPairs -> BOOLEAN] |-> [p \in JsonPairs |-> EqualsBy(f, p[1], p[2])]]
<1>1. \A f, x, y : EqualsBy(f, x, y) \in BOOLEAN
  BY DEF EqualsBy
<1>2. F \in [[JsonPairs -> BOOLEAN] -> [JsonPairs -> BOOLEAN]]
  BY <1>1
<1>3. ASSUME NEW f \in [JsonPairs -> BOOLEAN], NEW g \in [JsonPairs -> BOOLEAN],
             NEW x \in JsonValues, NEW y \in JsonValues, Shares(f, g, x)
      PROVE  F[f][<<x, y>>] = F[g][<<x, y>>]
  BY <1>3, EqualsReads DEF JsonPairs
<1>4. Defined(JsonPairs, BOOLEAN, F)
  <2>1. \A f, g \in [JsonPairs -> BOOLEAN] : \A s, v \in JsonValues :
          Shares(f, g, s) => F[f][<<s, v>>] = F[g][<<s, v>>]
    BY <1>3
  <2> HIDE DEF F
  <2> QED
    BY <1>2, <2>1, PairsDefine
<1>5. PICK f : f = [p \in JsonPairs |-> EqualsBy(f, p[1], p[2])]
  BY <1>4 DEF Defined
<1>6. Equals = [p \in JsonPairs |-> EqualsBy(Equals, p[1], p[2])]
  BY <1>5 DEF Equals
<1> QED
  BY <1>6 DEF JsonPairs

LEMMA SameReads ==
  ASSUME NEW f, NEW g, NEW a \in JsonValues, NEW b \in JsonValues, Shares(f, g, a)
  PROVE  SameBy(f, a, b) = SameBy(g, a, b)
<1>1. ASSUME NEW m \in Members(a), NEW n \in Members(b)
      PROVE  f[<<m.value, n.value>>] = g[<<m.value, n.value>>]
  <2>1. m.value \in JsonValues /\ JsonDepth[m.value] < JsonDepth[a] /\ n.value \in JsonValues
    BY PartsWithin
  <2> QED
    BY <2>1 DEF Shares
<1>2. ASSUME a.t = "array", b.t = "array", Len(a.items) = Len(b.items), NEW i \in DOMAIN a.items
      PROVE  f[<<a.items[i], b.items[i]>>] = g[<<a.items[i], b.items[i]>>]
  <2>1. a.items[i] \in Items(a) /\ b.items[i] \in Items(b)
    BY <1>2, ItemsAre
  <2>2. a.items[i] \in JsonValues /\ JsonDepth[a.items[i]] < JsonDepth[a] /\ b.items[i] \in JsonValues
    BY <2>1, PartsWithin
  <2> QED
    BY <2>2 DEF Shares
<1>3. CASE a.t = "array" /\ b.t = "array"
  BY <1>2, <1>3 DEF SameBy, IsNumber
<1>4. CASE a.t = "object" /\ b.t = "object"
  <2>1. (\A m \in Members(a), n \in Members(b) : m.key = n.key => f[<<m.value, n.value>>])
          <=> (\A m \in Members(a), n \in Members(b) : m.key = n.key => g[<<m.value, n.value>>])
    BY <1>1
  <2> QED
    BY <1>4, <2>1 DEF SameBy, IsNumber
<1>5. CASE ~ (a.t = "array" /\ b.t = "array") /\ ~ (a.t = "object" /\ b.t = "object")
  BY <1>5 DEF SameBy
<1> QED
  BY <1>3, <1>4, <1>5

LEMMA SameIs ==
  ASSUME NEW a \in JsonValues, NEW b \in JsonValues
  PROVE  SameValue[<<a, b>>] = SameBy(SameValue, a, b)
<1> DEFINE F == [f \in [JsonPairs -> BOOLEAN] |-> [p \in JsonPairs |-> SameBy(f, p[1], p[2])]]
<1>1. \A f, x, y : SameBy(f, x, y) \in BOOLEAN
  BY DEF SameBy
<1>2. F \in [[JsonPairs -> BOOLEAN] -> [JsonPairs -> BOOLEAN]]
  BY <1>1
<1>3. ASSUME NEW f \in [JsonPairs -> BOOLEAN], NEW g \in [JsonPairs -> BOOLEAN],
             NEW x \in JsonValues, NEW y \in JsonValues, Shares(f, g, x)
      PROVE  F[f][<<x, y>>] = F[g][<<x, y>>]
  BY <1>3, SameReads DEF JsonPairs
<1>4. Defined(JsonPairs, BOOLEAN, F)
  <2>1. \A f, g \in [JsonPairs -> BOOLEAN] : \A s, v \in JsonValues :
          Shares(f, g, s) => F[f][<<s, v>>] = F[g][<<s, v>>]
    BY <1>3
  <2> HIDE DEF F
  <2> QED
    BY <1>2, <2>1, PairsDefine
<1>5. PICK f : f = [p \in JsonPairs |-> SameBy(f, p[1], p[2])]
  BY <1>4 DEF Defined
<1>6. SameValue = [p \in JsonPairs |-> SameBy(SameValue, p[1], p[2])]
  BY <1>5 DEF SameValue
<1> QED
  BY <1>6 DEF JsonPairs

LEMMA CheckMemberReads ==
  ASSUME NEW f, NEW g, NEW s \in JsonValues, NEW m, m.value \in JsonValues, Shares(f, g, s)
  PROVE  CheckMember(f, s, m) = CheckMember(g, s, m)
<1> DEFINE property == Get(Get(s, "properties"), m.key)
           additional == Get(s, "additionalProperties")
<1>1. property # None => f[<<property, m.value>>] = g[<<property, m.value>>]
  <2> SUFFICES ASSUME property # None PROVE f[<<property, m.value>>] = g[<<property, m.value>>]
    OBVIOUS
  <2>1. property \in JsonValues /\ JsonDepth[property] < JsonDepth[s]
    BY GetTwice
  <2> HIDE DEF property
  <2> QED
    BY <2>1 DEF Shares
<1>2. additional.t = "object" => f[<<additional, m.value>>] = g[<<additional, m.value>>]
  <2> SUFFICES ASSUME additional.t = "object" PROVE f[<<additional, m.value>>] = g[<<additional, m.value>>]
    OBVIOUS
  <2>1. additional \in JsonValues /\ JsonDepth[additional] < JsonDepth[s]
    BY GetIs DEF None
  <2> HIDE DEF additional
  <2> QED
    BY <2>1 DEF Shares
<1> QED
  BY <1>1, <1>2 DEF CheckMember

LEMMA CheckPartsRead ==
  ASSUME NEW f, NEW g, NEW s \in JsonValues, NEW v \in JsonValues, Shares(f, g, s)
  PROVE  /\ v.t = "object" => CheckObject(f, s, v) = CheckObject(g, s, v)
         /\ v.t = "array" => CheckItems(f, s, v) = CheckItems(g, s, v)
<1>1. ASSUME v.t = "object" PROVE CheckObject(f, s, v) = CheckObject(g, s, v)
  <2>1. \A i \in DOMAIN v.members : CheckMember(f, s, v.members[i]) = CheckMember(g, s, v.members[i])
    <3> TAKE i \in DOMAIN v.members
    <3>1. v.members[i].value \in JsonValues
      BY <1>1, MembersAre, PartsWithin
    <3> QED
      BY <3>1, CheckMemberReads
  <2>2. [i \in DOMAIN v.members |-> CheckMember(f, s, v.members[i])]
          = [i \in DOMAIN v.members |-> CheckMember(g, s, v.members[i])]
    BY <2>1
  <2> QED
    BY <2>2 DEF CheckObject
<1>2. ASSUME v.t = "array" PROVE CheckItems(f, s, v) = CheckItems(g, s, v)
  <2> DEFINE items == Get(s, "items")
  <2>1. CASE items.t # "object"
    BY <2>1 DEF CheckItems
  <2>2. CASE items.t = "object"
    <3>1. items \in JsonValues /\ JsonDepth[items] < JsonDepth[s]
      BY <2>2, GetIs DEF None
    <3>2. \A i \in DOMAIN v.items : v.items[i] \in JsonValues
      BY <1>2, ItemsAre, PartsWithin
    <3> HIDE DEF items
    <3>3. \A i \in DOMAIN v.items : f[<<items, v.items[i]>>] = g[<<items, v.items[i]>>]
      BY <3>1, <3>2 DEF Shares
    <3>4. [i \in DOMAIN v.items |-> Within(<<"item", i - 1>>, f[<<items, v.items[i]>>])]
            = [i \in DOMAIN v.items |-> Within(<<"item", i - 1>>, g[<<items, v.items[i]>>])]
      BY <3>3
    <3> QED
      BY <2>2, <3>4 DEF CheckItems, items
  <2> QED
    BY <2>1, <2>2
<1> QED
  BY <1>1, <1>2

LEMMA MatchesRead ==
  ASSUME NEW f, NEW g, NEW s \in JsonValues, NEW v \in JsonValues, Shares(f, g, s), NEW key
  PROVE  Get(s, key).t = "array" =>
           /\ [i \in DOMAIN Get(s, key).items |-> f[<<Get(s, key).items[i], v>>]]
                = [i \in DOMAIN Get(s, key).items |-> g[<<Get(s, key).items[i], v>>]]
           /\ Matches(f, Get(s, key), v) = Matches(g, Get(s, key), v)
<1> DEFINE entries == Get(s, key)
<1> SUFFICES ASSUME entries.t = "array"
             PROVE  /\ [i \in DOMAIN entries.items |-> f[<<entries.items[i], v>>]]
                         = [i \in DOMAIN entries.items |-> g[<<entries.items[i], v>>]]
                    /\ Matches(f, entries, v) = Matches(g, entries, v)
  OBVIOUS
<1>1. entries \in JsonValues
  BY GetIs DEF None
<1>2. \A e \in Items(entries) : e \in JsonValues /\ JsonDepth[e] < JsonDepth[s]
  BY ItemsOfGet
<1> HIDE DEF entries
<1>3. \A i \in DOMAIN entries.items : f[<<entries.items[i], v>>] = g[<<entries.items[i], v>>]
  BY <1>1, <1>2, ItemsAre DEF Shares
<1> QED
  BY <1>3 DEF Matches

LEMMA CheckCombinatorsReads ==
  ASSUME NEW f, NEW g, NEW s \in JsonValues, NEW v \in JsonValues, Shares(f, g, s)
  PROVE  CheckCombinators(f, s, v) = CheckCombinators(g, s, v)
<1> DEFINE all == Get(s, "allOf")
           any == Get(s, "anyOf")
           one == Get(s, "oneOf")
           negated == Get(s, "not")
<1>1. all.t = "array" =>
        [i \in DOMAIN all.items |-> f[<<all.items[i], v>>]] = [i \in DOMAIN all.items |-> g[<<all.items[i], v>>]]
  BY MatchesRead
<1>2. any.t = "array" => Matches(f, any, v) = Matches(g, any, v)
  BY MatchesRead
<1>3. one.t = "array" => Matches(f, one, v) = Matches(g, one, v)
  BY MatchesRead
<1>4. negated.t = "object" => f[<<negated, v>>] = g[<<negated, v>>]
  <2> SUFFICES ASSUME negated.t = "object" PROVE f[<<negated, v>>] = g[<<negated, v>>]
    OBVIOUS
  <2>1. negated \in JsonValues /\ JsonDepth[negated] < JsonDepth[s]
    BY GetIs DEF None
  <2> HIDE DEF negated
  <2> QED
    BY <2>1 DEF Shares
<1>5. /\ (IF all.t = "array" THEN First([i \in DOMAIN all.items |-> f[<<all.items[i], v>>]]) ELSE Ok)
           = (IF all.t = "array" THEN First([i \in DOMAIN all.items |-> g[<<all.items[i], v>>]]) ELSE Ok)
      /\ RefuseIf(any.t = "array" /\ Matches(f, any, v) = {}, "anyOf")
           = RefuseIf(any.t = "array" /\ Matches(g, any, v) = {}, "anyOf")
      /\ RefuseIf(one.t = "array" /\ Cardinality(Matches(f, one, v)) # 1, "oneOf")
           = RefuseIf(one.t = "array" /\ Cardinality(Matches(g, one, v)) # 1, "oneOf")
      /\ RefuseIf(negated.t = "object" /\ f[<<negated, v>>] = Ok, "not")
           = RefuseIf(negated.t = "object" /\ g[<<negated, v>>] = Ok, "not")
  <2> HIDE DEF all, any, one, negated
  <2> QED
    BY <1>1, <1>2, <1>3, <1>4 DEF RefuseIf
<1> QED
  BY <1>5 DEF CheckCombinators

LEMMA CheckReads ==
  ASSUME NEW f, NEW g, NEW s \in JsonValues, NEW v \in JsonValues, Shares(f, g, s)
  PROVE  CheckBy(f, s, v) = CheckBy(g, s, v)
<1>1. /\ v.t = "object" => CheckObject(f, s, v) = CheckObject(g, s, v)
      /\ v.t = "array" => CheckItems(f, s, v) = CheckItems(g, s, v)
  BY CheckPartsRead
<1>2. CheckCombinators(f, s, v) = CheckCombinators(g, s, v)
  BY CheckCombinatorsReads
<1>3. /\ (IF v.t = "object" THEN CheckObject(f, s, v) ELSE Ok) = (IF v.t = "object" THEN CheckObject(g, s, v) ELSE Ok)
      /\ (IF v.t = "array" THEN CheckItems(f, s, v) ELSE Ok) = (IF v.t = "array" THEN CheckItems(g, s, v) ELSE Ok)
  BY <1>1
<1> QED
  BY <1>2, <1>3 DEF CheckBy

\* The first of the checks that names a violation: none names one, or it is theirs.
LEMMA FirstIs ==
  ASSUME NEW checks, NEW n \in Nat, DOMAIN checks = 1 .. n
  PROVE  /\ First(checks) = Ok <=> \A i \in DOMAIN checks : checks[i] = Ok
         /\ First(checks) # Ok => \E i \in DOMAIN checks : First(checks) = checks[i]
<1>1. CASE \A i \in DOMAIN checks : checks[i] = Ok
  BY <1>1 DEF First
<1>2. CASE \E i \in DOMAIN checks : checks[i] # Ok
  <2> DEFINE S == {i \in DOMAIN checks : checks[i] # Ok}
             Earliest(i) == checks[i] # Ok /\ \A j \in 1 .. i - 1 : checks[j] = Ok
             first == CHOOSE i \in DOMAIN checks : Earliest(i)
  <2>1. PICK k \in S : \A i \in S : k <= i
    <3>1. S \in SUBSET Nat /\ S # {}
      BY <1>2
    <3> HIDE DEF S
    <3> QED
      BY <3>1, LeastNumber
  <2>2. k \in DOMAIN checks /\ Earliest(k)
    <3>1. k \in 1 .. n /\ checks[k] # Ok
      OBVIOUS
    <3>2. ASSUME NEW j \in 1 .. k - 1 PROVE checks[j] = Ok
      <4>1. j \in DOMAIN checks /\ ~ k <= j
        BY <3>1
      <4> QED
        BY <2>1, <4>1
    <3> QED
      BY <3>1, <3>2
  <2>3. first \in DOMAIN checks /\ Earliest(first)
    <3> HIDE DEF Earliest
    <3> QED
      BY <2>2
  <2>4. First(checks) = checks[first]
    BY <1>2 DEF First
  <2> HIDE DEF first
  <2> QED
    BY <1>2, <2>3, <2>4
<1> QED
  BY <1>1, <1>2

LEMMA ElseIs ==
  ASSUME NEW a, NEW b
  PROVE  /\ (a ?? b) = Ok <=> a = Ok /\ b = Ok
         /\ (a ?? b) = a \/ (a ?? b) = b
BY DEF ??

\* A violation names a keyword that is not "ok", where it is found.
LEMMA ViolationIs ==
  ASSUME NEW keyword \in Keywords \ {"ok"}
  PROVE  /\ Violation(keyword) # Ok
         /\ Violation(keyword) \in Verdicts /\ Ok \in Verdicts
         /\ Violation(keyword).at = <<>> /\ Ok.at = <<>>
         /\ Violation(keyword).by = keyword
<1>1. Violation(keyword).by = keyword /\ Ok.by = "ok"
  BY DEF Violation, Ok
<1>2. Violation(keyword) \in Verdicts /\ Ok \in Verdicts
  BY DEF Violation, Ok, Verdicts, Keywords
<1>3. Violation(keyword).at = <<>> /\ Ok.at = <<>>
  BY DEF Violation, Ok
<1> QED
  BY <1>1, <1>2, <1>3

LEMMA WithinIs ==
  ASSUME NEW step \in Steps, NEW found \in Verdicts
  PROVE  /\ Within(step, found) \in Verdicts
         /\ Within(step, found) = Ok <=> found = Ok
         /\ found # Ok => /\ Within(step, found).at = <<step>> \o found.at
                            /\ Within(step, found).by = found.by
<1>1. found.at \in Seq(Steps) /\ found.by \in Keywords
  BY DEF Verdicts
<1>2. <<step>> \o found.at \in Seq(Steps) /\ <<step>> \o found.at # <<>>
  BY <1>1
<1>3. CASE found = Ok
  BY <1>3 DEF Within
<1>4. CASE found # Ok
  <2> DEFINE at == <<step>> \o found.at
             here == [at |-> at, by |-> found.by]
  <2>1. Within(step, found) = here
    BY <1>4 DEF Within
  <2>2. here.at = at /\ here.by = found.by
    OBVIOUS
  <2>3. here \in Verdicts
    BY <1>1, <1>2 DEF Verdicts
  <2>4. here # Ok
    <3>1. Ok.at = <<>>
      BY DEF Ok
    <3> QED
      BY <1>2, <2>2, <3>1
  <2> HIDE DEF here
  <2> QED
    BY <1>4, <2>1, <2>2, <2>3, <2>4
<1> QED
  BY <1>3, <1>4

\* Of verdicts on the parts, the check makes a verdict.
LEMMA CheckTyped ==
  ASSUME NEW f, NEW s \in JsonValues, NEW v \in JsonValues,
         \A t, w \in JsonValues : f[<<t, w>>] \in Verdicts
  PROVE  CheckBy(f, s, v) \in Verdicts
<1>0. Ok \in Verdicts /\ \A keyword \in Keywords : Violation(keyword) \in Verdicts
  BY DEF Ok, Violation, Verdicts, Keywords
<1>1. \A condition, keyword : keyword \in Keywords => RefuseIf(condition, keyword) \in Verdicts
  BY <1>0 DEF RefuseIf
<1>2. \A a, b \in Verdicts : (a ?? b) \in Verdicts
  BY DEF ??
<1>3. ASSUME NEW checks, NEW n \in Nat, DOMAIN checks = 1 .. n, \A i \in DOMAIN checks : checks[i] \in Verdicts
      PROVE  First(checks) \in Verdicts
  BY <1>0, <1>3, FirstIs
<1>4. CheckType(Get(s, "type"), v) \in Verdicts /\ CheckEquals(s, v) \in Verdicts /\ CheckBounds(s, v) \in Verdicts
  <2>1. CheckType(Get(s, "type"), v) \in Verdicts
    BY <1>1 DEF CheckType, Keywords
  <2>2. CheckEquals(s, v) \in Verdicts
    BY <1>1, <1>2 DEF CheckEquals, Keywords
  <2>3. CheckBounds(s, v) \in Verdicts
    BY <1>0, <1>1, <1>2 DEF CheckBounds, Keywords
  <2> QED
    BY <2>1, <2>2, <2>3
<1>5. ASSUME v.t = "object" PROVE CheckObject(f, s, v) \in Verdicts
  <2> DEFINE checks == [i \in DOMAIN v.members |-> CheckMember(f, s, v.members[i])]
  <2>1. ASSUME NEW i \in DOMAIN v.members PROVE checks[i] \in Verdicts
    <3> DEFINE m == v.members[i]
               property == Get(Get(s, "properties"), m.key)
               additional == Get(s, "additionalProperties")
    <3>1. m.value \in JsonValues /\ <<"key", m.key>> \in Steps
      <4>1. m \in Members(v) /\ m.key \in STRING
        BY <1>5, MembersAre
      <4> HIDE DEF m
      <4> QED
        BY <4>1, PartsWithin DEF Steps
    <3>2. property # None => f[<<property, m.value>>] \in Verdicts
      <4>1. property # None => property \in JsonValues
        BY GetTwice
      <4> QED
        BY <3>1, <4>1
    <3>3. additional.t = "object" => f[<<additional, m.value>>] \in Verdicts
      <4>1. additional.t = "object" => additional \in JsonValues
        BY GetIs DEF None
      <4> QED
        BY <3>1, <4>1
    <3>4. CheckMember(f, s, m) \in Verdicts
      <4>1. RefuseIf(additional = BoolV(FALSE), "additionalProperties") \in Verdicts
        BY <1>1 DEF Keywords
      <4> HIDE DEF m
      <4> QED
        BY <3>1, <3>2, <3>3, <4>1, WithinIs DEF CheckMember
    <3> QED
      BY <3>4
  <2>2. First(checks) \in Verdicts
    <3>1. Len(v.members) \in Nat /\ DOMAIN checks = 1 .. Len(v.members)
      BY <1>5, MembersAre
    <3>2. \A i \in DOMAIN checks : checks[i] \in Verdicts
      BY <2>1
    <3> HIDE DEF checks
    <3> QED
      BY <1>3, <3>1, <3>2
  <2> QED
    BY <1>1, <1>2, <2>2 DEF CheckObject, Keywords
<1>6. ASSUME v.t = "array" PROVE CheckItems(f, s, v) \in Verdicts
  <2> DEFINE items == Get(s, "items")
             checks == [i \in DOMAIN v.items |-> Within(<<"item", i - 1>>, f[<<items, v.items[i]>>])]
  <2>1. CASE items.t # "object"
    BY <1>0, <2>1 DEF CheckItems
  <2>2. CASE items.t = "object"
    <3>1. items \in JsonValues
      BY <2>2, GetIs DEF None
    <3>2. Len(v.items) \in Nat /\ DOMAIN v.items = 1 .. Len(v.items)
            /\ \A i \in DOMAIN v.items : v.items[i] \in JsonValues
      BY <1>6, ItemsAre, PartsWithin
    <3>3. \A i \in DOMAIN v.items : checks[i] \in Verdicts
      <4> TAKE i \in DOMAIN v.items
      <4>1. <<"item", i - 1>> \in Steps
        BY <3>2 DEF Steps
      <4>2. f[<<items, v.items[i]>>] \in Verdicts
        <5> HIDE DEF items
        <5> QED
          BY <3>1, <3>2
      <4> QED
        BY <4>1, <4>2, WithinIs
    <3>4. DOMAIN checks = DOMAIN v.items
      OBVIOUS
    <3>5. First(checks) \in Verdicts
      <4> HIDE DEF checks
      <4> QED
        BY <1>3, <3>2, <3>3, <3>4
    <3> QED
      BY <2>2, <3>5 DEF CheckItems
  <2> QED
    BY <2>1, <2>2
<1>7. CheckCombinators(f, s, v) \in Verdicts
  <2> DEFINE all == Get(s, "allOf")
             checks == [i \in DOMAIN all.items |-> f[<<all.items[i], v>>]]
  <2>1. all.t = "array" => First(checks) \in Verdicts
    <3> SUFFICES ASSUME all.t = "array" PROVE First(checks) \in Verdicts
      OBVIOUS
    <3>1. all \in JsonValues
      BY GetIs DEF None
    <3>2. Len(all.items) \in Nat /\ DOMAIN all.items = 1 .. Len(all.items)
            /\ \A i \in DOMAIN all.items : all.items[i] \in JsonValues
      <4> HIDE DEF all
      <4> QED
        BY <3>1, ItemsAre, PartsWithin
    <3>3. DOMAIN checks = DOMAIN all.items /\ \A i \in DOMAIN checks : checks[i] \in Verdicts
      <4> HIDE DEF all
      <4> QED
        BY <3>2
    <3> HIDE DEF checks
    <3> QED
      BY <1>3, <3>2, <3>3
  <2>2. (IF all.t = "array" THEN First(checks) ELSE Ok) \in Verdicts
    BY <1>0, <2>1
  <2> QED
    BY <1>1, <1>2, <2>2 DEF CheckCombinators, Keywords
<1> QED
  <2>1. (IF v.t = "object" THEN CheckObject(f, s, v) ELSE Ok) \in Verdicts
    BY <1>0, <1>5
  <2>2. (IF v.t = "array" THEN CheckItems(f, s, v) ELSE Ok) \in Verdicts
    BY <1>0, <1>6
  <2>3. RefuseIf(s = BoolV(FALSE), "false") \in Verdicts /\ Violation("schema") \in Verdicts
    BY <1>0, <1>1 DEF Keywords
  <2> QED
    BY <1>2, <1>4, <1>7, <2>1, <2>2, <2>3 DEF CheckBy

LEMMA CheckIs ==
  ASSUME NEW s \in JsonValues, NEW v \in JsonValues
  PROVE  Check[<<s, v>>] = CheckBy(Check, s, v) /\ Check[<<s, v>>] \in Verdicts
<1> DEFINE F == [f \in [JsonPairs -> Verdicts] |-> [p \in JsonPairs |-> CheckBy(f, p[1], p[2])]]
<1>1. F \in [[JsonPairs -> Verdicts] -> [JsonPairs -> Verdicts]]
  <2> SUFFICES ASSUME NEW f \in [JsonPairs -> Verdicts], NEW p \in JsonPairs
               PROVE  CheckBy(f, p[1], p[2]) \in Verdicts
    OBVIOUS
  <2>1. \A t, w \in JsonValues : f[<<t, w>>] \in Verdicts
    BY DEF JsonPairs
  <2>2. p[1] \in JsonValues /\ p[2] \in JsonValues
    BY DEF JsonPairs
  <2> QED
    BY <2>1, <2>2, CheckTyped
<1>2. ASSUME NEW f \in [JsonPairs -> Verdicts], NEW g \in [JsonPairs -> Verdicts],
             NEW x \in JsonValues, NEW y \in JsonValues, Shares(f, g, x)
      PROVE  F[f][<<x, y>>] = F[g][<<x, y>>]
  BY <1>2, CheckReads DEF JsonPairs
<1>3. Defined(JsonPairs, Verdicts, F)
  <2>1. \A f, g \in [JsonPairs -> Verdicts] : \A t, w \in JsonValues :
          Shares(f, g, t) => F[f][<<t, w>>] = F[g][<<t, w>>]
    BY <1>2
  <2>2. Verdicts # {}
    <3>1. Ok \in Verdicts
      BY DEF Ok, Verdicts, Keywords
    <3> QED
      BY <3>1
  <2> HIDE DEF F
  <2> QED
    BY <1>1, <2>1, <2>2, PairsDefine
<1>4. PICK f \in [JsonPairs -> Verdicts] : f = [p \in JsonPairs |-> CheckBy(f, p[1], p[2])]
  BY <1>3 DEF Defined
<1>5. Check = [p \in JsonPairs |-> CheckBy(Check, p[1], p[2])]
  BY <1>4 DEF Check
<1>6. \A t, w \in JsonValues : /\ <<t, w>> \in JsonPairs
                               /\ Check[<<t, w>>] = CheckBy(Check, t, w)
                               /\ f[<<t, w>>] = CheckBy(f, t, w)
  BY <1>4, <1>5 DEF JsonPairs
<1>7. Follow(Check, f)
  BY <1>6, CheckReads DEF Follow
<1>8. SameOnPairs(Check, f)
  BY <1>7, PairsAgree
<1> QED
  BY <1>4, <1>6, <1>8 DEF SameOnPairs

LEMMA MeetsReads ==
  ASSUME NEW f, NEW g, NEW s \in JsonValues, NEW v \in JsonValues, Shares(f, g, s),
         NEW read
  PROVE  MeetsBy(f, read, s, v) = MeetsBy(g, read, s, v)
<1>1. ASSUME NEW k \in Members(s) PROVE Asks(f, read, s, k, v) = Asks(g, read, s, k, v)
  <2>1. k.value \in JsonValues /\ JsonDepth[k.value] < JsonDepth[s]
    BY PartsWithin
  <2>2. \A w \in JsonValues : f[<<k.value, w>>] = g[<<k.value, w>>]
    BY <2>1 DEF Shares
  <2>3. \A p \in Members(k.value) : \A w \in JsonValues : f[<<p.value, w>>] = g[<<p.value, w>>]
    <3> TAKE p \in Members(k.value)
    <3>1. p.value \in JsonValues /\ JsonDepth[p.value] < JsonDepth[k.value]
      BY <2>1, PartsWithin
    <3>2. JsonDepth[p.value] \in Nat /\ JsonDepth[k.value] \in Nat /\ JsonDepth[s] \in Nat
      BY <2>1, <3>1, JsonIs
    <3>3. JsonDepth[p.value] < JsonDepth[s]
      BY <2>1, <3>1, <3>2
    <3> QED
      BY <3>1, <3>3 DEF Shares
  <2>4. \A e \in Items(k.value) : \A w \in JsonValues : f[<<e, w>>] = g[<<e, w>>]
    <3> TAKE e \in Items(k.value)
    <3>1. e \in JsonValues /\ JsonDepth[e] < JsonDepth[k.value]
      BY <2>1, PartsWithin
    <3>2. JsonDepth[e] \in Nat /\ JsonDepth[k.value] \in Nat /\ JsonDepth[s] \in Nat
      BY <2>1, <3>1, JsonIs
    <3>3. JsonDepth[e] < JsonDepth[s]
      BY <2>1, <3>1, <3>2
    <3> QED
      BY <3>1, <3>3 DEF Shares
  <2>5. \A m \in Members(v) : m.value \in JsonValues
    BY PartsWithin
  <2>6. \A item \in Items(v) : item \in JsonValues
    BY PartsWithin
  <2>7. k.value.t = "array" =>
          {i \in DOMAIN k.value.items : f[<<k.value.items[i], v>>]}
            = {i \in DOMAIN k.value.items : g[<<k.value.items[i], v>>]}
    <3> SUFFICES ASSUME k.value.t = "array"
                 PROVE  \A i \in DOMAIN k.value.items : f[<<k.value.items[i], v>>] = g[<<k.value.items[i], v>>]
      OBVIOUS
    <3>1. \A i \in DOMAIN k.value.items : k.value.items[i] \in Items(k.value)
      BY <2>1, ItemsAre
    <3> QED
      BY <2>4, <3>1
  <2>8. /\ f[<<k.value, v>>] = g[<<k.value, v>>]
        /\ \A item \in Items(v) : f[<<k.value, item>>] = g[<<k.value, item>>]
        /\ \A m \in Members(v) : f[<<k.value, m.value>>] = g[<<k.value, m.value>>]
        /\ \A p \in Members(k.value) : \A m \in Members(v) : f[<<p.value, m.value>>] = g[<<p.value, m.value>>]
        /\ \A e \in Items(k.value) : f[<<e, v>>] = g[<<e, v>>]
    BY <2>2, <2>3, <2>4, <2>5, <2>6
  <2>9. k.value.t = "array" =>
          Cardinality({i \in DOMAIN k.value.items : f[<<k.value.items[i], v>>]})
            = Cardinality({i \in DOMAIN k.value.items : g[<<k.value.items[i], v>>]})
    BY <2>7
  <2>10. (\A item \in Items(v) : f[<<k.value, item>>]) <=> (\A item \in Items(v) : g[<<k.value, item>>])
    BY <2>8
  <2>11. (\A p \in Members(k.value), m \in Members(v) : p.key = m.key => f[<<p.value, m.value>>])
           <=> (\A p \in Members(k.value), m \in Members(v) : p.key = m.key => g[<<p.value, m.value>>])
    BY <2>8
  <2>12. (\A m \in Members(v) : Get(Get(s, "properties"), m.key) = None => f[<<k.value, m.value>>])
           <=> (\A m \in Members(v) : Get(Get(s, "properties"), m.key) = None => g[<<k.value, m.value>>])
    BY <2>8
  <2>13. /\ (\A e \in Items(k.value) : f[<<e, v>>]) <=> (\A e \in Items(k.value) : g[<<e, v>>])
         /\ (\E e \in Items(k.value) : f[<<e, v>>]) <=> (\E e \in Items(k.value) : g[<<e, v>>])
    BY <2>8
  <2> QED
    BY <2>8, <2>9, <2>10, <2>11, <2>12, <2>13 DEF Asks
<1>2. (\A k \in Members(s) : Asks(f, read, s, k, v)) <=> (\A k \in Members(s) : Asks(g, read, s, k, v))
  BY <1>1
<1> QED
  BY <1>2 DEF MeetsBy

LEMMA MeetsIs ==
  ASSUME NEW s \in JsonValues, NEW v \in JsonValues
  PROVE  Meets[<<s, v>>] <=> MeetsBy(Meets, FALSE, s, v)
<1> DEFINE F == [f \in [JsonPairs -> BOOLEAN] |-> [p \in JsonPairs |-> MeetsBy(f, FALSE, p[1], p[2])]]
<1>1. F \in [[JsonPairs -> BOOLEAN] -> [JsonPairs -> BOOLEAN]]
  <2>1. \A f, x, y : MeetsBy(f, FALSE, x, y) \in BOOLEAN
    BY DEF MeetsBy
  <2> QED
    BY <2>1
<1>2. ASSUME NEW f \in [JsonPairs -> BOOLEAN], NEW g \in [JsonPairs -> BOOLEAN],
             NEW x \in JsonValues, NEW y \in JsonValues, Shares(f, g, x)
      PROVE  F[f][<<x, y>>] = F[g][<<x, y>>]
  <2>1. \A read : MeetsBy(f, read, x, y) = MeetsBy(g, read, x, y)
    BY <1>2, MeetsReads
  <2>2. MeetsBy(f, FALSE, x, y) = MeetsBy(g, FALSE, x, y)
    BY <2>1, Zenon
  <2>3. <<x, y>> \in JsonPairs /\ <<x, y>>[1] = x /\ <<x, y>>[2] = y
    BY DEF JsonPairs
  <2> QED
    BY <2>2, <2>3
<1>3. Defined(JsonPairs, BOOLEAN, F)
  <2>1. \A f, g \in [JsonPairs -> BOOLEAN] : \A t, w \in JsonValues :
          Shares(f, g, t) => F[f][<<t, w>>] = F[g][<<t, w>>]
    BY <1>2
  <2> HIDE DEF F
  <2> QED
    BY <1>1, <2>1, PairsDefine
<1>4. PICK f : f = [p \in JsonPairs |-> MeetsBy(f, FALSE, p[1], p[2])]
  BY <1>3 DEF Defined
<1>5. Meets = [p \in JsonPairs |-> MeetsBy(Meets, FALSE, p[1], p[2])]
  BY <1>4 DEF Meets
<1>6. <<s, v>> \in JsonPairs /\ <<s, v>>[1] = s /\ <<s, v>>[2] = v
  BY DEF JsonPairs
<1> QED
  BY <1>5, <1>6

LEMMA MeetsAsReadIs ==
  ASSUME NEW s \in JsonValues, NEW v \in JsonValues
  PROVE  MeetsAsRead[<<s, v>>] <=> MeetsBy(MeetsAsRead, TRUE, s, v)
<1> DEFINE F == [f \in [JsonPairs -> BOOLEAN] |-> [p \in JsonPairs |-> MeetsBy(f, TRUE, p[1], p[2])]]
<1>1. F \in [[JsonPairs -> BOOLEAN] -> [JsonPairs -> BOOLEAN]]
  <2>1. \A f, x, y : MeetsBy(f, TRUE, x, y) \in BOOLEAN
    BY DEF MeetsBy
  <2> QED
    BY <2>1
<1>2. ASSUME NEW f \in [JsonPairs -> BOOLEAN], NEW g \in [JsonPairs -> BOOLEAN],
             NEW x \in JsonValues, NEW y \in JsonValues, Shares(f, g, x)
      PROVE  F[f][<<x, y>>] = F[g][<<x, y>>]
  <2>1. \A read : MeetsBy(f, read, x, y) = MeetsBy(g, read, x, y)
    BY <1>2, MeetsReads
  <2>2. MeetsBy(f, TRUE, x, y) = MeetsBy(g, TRUE, x, y)
    BY <2>1, Zenon
  <2>3. <<x, y>> \in JsonPairs /\ <<x, y>>[1] = x /\ <<x, y>>[2] = y
    BY DEF JsonPairs
  <2> QED
    BY <2>2, <2>3
<1>3. Defined(JsonPairs, BOOLEAN, F)
  <2>1. \A f, g \in [JsonPairs -> BOOLEAN] : \A t, w \in JsonValues :
          Shares(f, g, t) => F[f][<<t, w>>] = F[g][<<t, w>>]
    BY <1>2
  <2> HIDE DEF F
  <2> QED
    BY <1>1, <2>1, PairsDefine
<1>4. PICK f : f = [p \in JsonPairs |-> MeetsBy(f, TRUE, p[1], p[2])]
  BY <1>3 DEF Defined
<1>5. MeetsAsRead = [p \in JsonPairs |-> MeetsBy(MeetsAsRead, TRUE, p[1], p[2])]
  BY <1>4 DEF MeetsAsRead
<1>6. <<s, v>> \in JsonPairs /\ <<s, v>>[1] = s /\ <<s, v>>[2] = v
  BY DEF JsonPairs
<1> QED
  BY <1>5, <1>6

LEMMA SchemaOfKeyIs ==
  ASSUME NEW s \in JsonValues, NEW key, SchemaOfKey(s, key) # None
  PROVE  SchemaOfKey(s, key) \in JsonValues /\ JsonDepth[SchemaOfKey(s, key)] < JsonDepth[s]
<1>1. CASE Get(Get(s, "properties"), key) # None
  BY <1>1, GetTwice DEF SchemaOfKey
<1>2. CASE Get(Get(s, "properties"), key) = None
  BY <1>2, GetIs DEF SchemaOfKey
<1> QED
  BY <1>1, <1>2

LEMMA LeadsRead ==
  ASSUME NEW f, NEW g, NEW s \in JsonValues, NEW v \in JsonValues, Shares(f, g, s)
  PROVE  LeadsBy(f, s, v) = LeadsBy(g, s, v)
<1>1. LedByAll(f, s, v) = LedByAll(g, s, v)
  <2>1. \A e \in Items(Get(s, "allOf")) : f[<<e, v>>] = g[<<e, v>>]
    BY ItemsOfGet DEF Shares
  <2>2. {f[<<e, v>>] : e \in Items(Get(s, "allOf"))} = {g[<<e, v>>] : e \in Items(Get(s, "allOf"))}
    BY <2>1
  <2> QED
    BY <2>2 DEF LedByAll
<1>2. LedByKeys(f, s, v) = LedByKeys(g, s, v)
  <2> DEFINE M == {m \in Members(v) : SchemaOfKey(s, m.key) # None}
  <2>1. ASSUME NEW m \in M
        PROVE  f[<<SchemaOfKey(s, m.key), m.value>>] = g[<<SchemaOfKey(s, m.key), m.value>>]
    <3>1. SchemaOfKey(s, m.key) # None /\ m \in Members(v)
      OBVIOUS
    <3>2. m.value \in JsonValues
      BY <3>1, PartsWithin
    <3>3. SchemaOfKey(s, m.key) \in JsonValues /\ JsonDepth[SchemaOfKey(s, m.key)] < JsonDepth[s]
      BY <3>1, SchemaOfKeyIs
    <3> QED
      BY <3>2, <3>3 DEF Shares
  <2>2. {Beneath(<<"key", m.key>>, f[<<SchemaOfKey(s, m.key), m.value>>]) : m \in M}
          = {Beneath(<<"key", m.key>>, g[<<SchemaOfKey(s, m.key), m.value>>]) : m \in M}
    <3> HIDE DEF M
    <3> QED
      BY <2>1
  <2> QED
    BY <2>2 DEF LedByKeys
<1>3. LedByItems(f, s, v) = LedByItems(g, s, v)
  <2> DEFINE items == Get(s, "items")
  <2>1. CASE ~ (items # None /\ v.t = "array")
    BY <2>1 DEF LedByItems
  <2>2. CASE items # None /\ v.t = "array"
    <3>1. items \in JsonValues /\ JsonDepth[items] < JsonDepth[s]
      BY <2>2, GetIs
    <3>2. \A i \in DOMAIN v.items : v.items[i] \in JsonValues
      BY <2>2, ItemsAre, PartsWithin
    <3> HIDE DEF items
    <3>3. \A i \in DOMAIN v.items : f[<<items, v.items[i]>>] = g[<<items, v.items[i]>>]
      BY <3>1, <3>2 DEF Shares
    <3>4. {Beneath(<<"item", i - 1>>, f[<<items, v.items[i]>>]) : i \in DOMAIN v.items}
            = {Beneath(<<"item", i - 1>>, g[<<items, v.items[i]>>]) : i \in DOMAIN v.items}
      BY <3>3
    <3> QED
      BY <2>2, <3>4 DEF LedByItems, items
  <2> QED
    BY <2>1, <2>2
<1> QED
  BY <1>1, <1>2, <1>3 DEF LeadsBy

LeadRecords == [at : Seq(Steps), schema : JsonValues, value : JsonValues]

LEMMA BeneathTyped ==
  ASSUME NEW step \in Steps, NEW leads \in SUBSET LeadRecords
  PROVE  Beneath(step, leads) \in SUBSET LeadRecords
<1>1. ASSUME NEW lead \in LeadRecords
      PROVE  [at |-> <<step>> \o lead.at, schema |-> lead.schema, value |-> lead.value] \in LeadRecords
  <2>1. lead.at \in Seq(Steps) /\ lead.schema \in JsonValues /\ lead.value \in JsonValues
    BY DEF LeadRecords
  <2>2. <<step>> \o lead.at \in Seq(Steps)
    BY <2>1
  <2> QED
    BY <2>1, <2>2 DEF LeadRecords
<1> QED
  BY <1>1 DEF Beneath

LEMMA LeadsTyped ==
  ASSUME NEW f, NEW s \in JsonValues, NEW v \in JsonValues,
         \A t, w \in JsonValues : f[<<t, w>>] \in SUBSET LeadRecords
  PROVE  LeadsBy(f, s, v) \in SUBSET LeadRecords
<1>1. [at |-> <<>>, schema |-> s, value |-> v] \in LeadRecords
  BY DEF LeadRecords
<1>2. LedByAll(f, s, v) \in SUBSET LeadRecords
  BY ItemsOfGet DEF LedByAll
<1>3. LedByKeys(f, s, v) \in SUBSET LeadRecords
  <2>1. ASSUME NEW m \in Members(v), SchemaOfKey(s, m.key) # None
        PROVE  Beneath(<<"key", m.key>>, f[<<SchemaOfKey(s, m.key), m.value>>]) \in SUBSET LeadRecords
    <3>1. m.value \in JsonValues /\ SchemaOfKey(s, m.key) \in JsonValues
      BY <2>1, PartsWithin, SchemaOfKeyIs
    <3>2. <<"key", m.key>> \in Steps
      <4>1. v.t = "object"
        BY DEF Members
      <4>2. m.key \in STRING
        BY <4>1, MembersAre
      <4> QED
        BY <4>2 DEF Steps
    <3>3. f[<<SchemaOfKey(s, m.key), m.value>>] \in SUBSET LeadRecords
      BY <3>1
    <3> QED
      BY <3>2, <3>3, BeneathTyped
  <2> QED
    BY <2>1 DEF LedByKeys
<1>4. LedByItems(f, s, v) \in SUBSET LeadRecords
  <2> DEFINE items == Get(s, "items")
  <2>1. CASE ~ (items # None /\ v.t = "array")
    BY <2>1 DEF LedByItems
  <2>2. CASE items # None /\ v.t = "array"
    <3>1. items \in JsonValues
      BY <2>2, GetIs
    <3>2. ASSUME NEW i \in DOMAIN v.items
          PROVE  Beneath(<<"item", i - 1>>, f[<<items, v.items[i]>>]) \in SUBSET LeadRecords
      <4>1. v.items[i] \in JsonValues /\ i - 1 \in Nat
        BY <2>2, ItemsAre, PartsWithin
      <4>2. <<"item", i - 1>> \in Steps
        BY <4>1 DEF Steps
      <4> HIDE DEF items
      <4>3. f[<<items, v.items[i]>>] \in SUBSET LeadRecords
        BY <3>1, <4>1
      <4> QED
        BY <4>2, <4>3, BeneathTyped
    <3> QED
      BY <2>2, <3>2 DEF LedByItems
  <2> QED
    BY <2>1, <2>2
<1> QED
  BY <1>1, <1>2, <1>3, <1>4 DEF LeadsBy

LEMMA LeadsIs ==
  ASSUME NEW s \in JsonValues, NEW v \in JsonValues
  PROVE  Leads[<<s, v>>] = LeadsBy(Leads, s, v)
<1> DEFINE R == SUBSET LeadRecords
           F == [f \in [JsonPairs -> R] |-> [p \in JsonPairs |-> LeadsBy(f, p[1], p[2])]]
<1>1. F \in [[JsonPairs -> R] -> [JsonPairs -> R]]
  <2> SUFFICES ASSUME NEW f \in [JsonPairs -> R], NEW p \in JsonPairs
               PROVE  LeadsBy(f, p[1], p[2]) \in R
    OBVIOUS
  <2>1. \A t, w \in JsonValues : f[<<t, w>>] \in SUBSET LeadRecords
    BY DEF JsonPairs
  <2>2. p[1] \in JsonValues /\ p[2] \in JsonValues
    BY DEF JsonPairs
  <2> QED
    BY <2>1, <2>2, LeadsTyped
<1>2. ASSUME NEW f \in [JsonPairs -> R], NEW g \in [JsonPairs -> R],
             NEW x \in JsonValues, NEW y \in JsonValues, Shares(f, g, x)
      PROVE  F[f][<<x, y>>] = F[g][<<x, y>>]
  BY <1>2, LeadsRead DEF JsonPairs
<1>3. Defined(JsonPairs, R, F)
  <2>1. \A f, g \in [JsonPairs -> R] : \A t, w \in JsonValues :
          Shares(f, g, t) => F[f][<<t, w>>] = F[g][<<t, w>>]
    BY <1>2
  <2>2. R # {}
    OBVIOUS
  <2> HIDE DEF F, R
  <2> QED
    BY <1>1, <2>1, <2>2, PairsDefine
<1>4. PICK f : f = [p \in JsonPairs |-> LeadsBy(f, p[1], p[2])]
  BY <1>3 DEF Defined
<1>5. Leads = [p \in JsonPairs |-> LeadsBy(Leads, p[1], p[2])]
  BY <1>4 DEF Leads
<1> QED
  BY <1>5 DEF JsonPairs

-----------------------------------------------------------------------------
(* The validator against json-schema.org: each of its checks passes exactly    *)
(* what the keywords it is of ask, where it does so of the schemas within.     *)

\* Schemas have their own schemas ...
LEMMA FitSchemas ==
  ASSUME WellFormed, NEW s \in Schemas, NEW k \in Members(s)
  PROVE  SchemasOf(k) \subseteq Schemas /\ KeywordFits(k)
<1>1. k \in UNION {Members(t) : t \in Schemas}
  OBVIOUS
<1>2. SchemasOf(k) \subseteq Schemas
  BY <1>1 DEF WellFormed
<1>3. KeywordFits(k)
  BY DEF WellFormed
<1> QED
  BY <1>2, <1>3

\* Where no key comes twice, each member's value is the one of its key.
LEMMA OneMember ==
  ASSUME NEW v \in JsonValues, v.t = "object" => OneEach(v.members), NEW m \in Members(v)
  PROVE  m.value = Get(v, m.key) /\ Get(v, m.key) # None
<1>1. v.t = "object"
  BY DEF Members
<1>2. Get(v, m.key) # None /\ \E n \in Members(v) : n.key = m.key /\ Get(v, m.key) = n.value
  BY GetIs
<1>3. PICK n \in Members(v) : n.key = m.key /\ Get(v, m.key) = n.value
  BY <1>2
<1>4. PICK i \in DOMAIN v.members : m = v.members[i]
  BY <1>1, MembersAre
<1>5. PICK j \in DOMAIN v.members : n = v.members[j]
  BY <1>1, MembersAre
<1>6. i = j
  BY <1>1, <1>3, <1>4, <1>5 DEF OneEach
<1> QED
  BY <1>2, <1>3, <1>4, <1>5, <1>6

\* ... and the value of a keyword is that of the one member with it.
LEMMA KeywordIs ==
  ASSUME WellFormed, NEW s \in Schemas, NEW key
  PROVE  /\ \A k \in Members(s) : k.key = key => k.value = Get(s, key) /\ Get(s, key) # None
         /\ Get(s, key) # None => \E k \in Members(s) : k.key = key /\ k.value = Get(s, key)
<1>1. s \in JsonValues /\ (s.t = "object" => OneEach(s.members))
  BY JsonAssumption DEF WellFormed
<1>2. Get(s, key) # None => \E k \in Members(s) : k.key = key /\ Get(s, key) = k.value
  BY <1>1, GetIs
<1>3. \A k \in Members(s) : k.value = Get(s, k.key) /\ Get(s, k.key) # None
  BY <1>1, OneMember
<1> QED
  BY <1>2, <1>3

LEMMA DoubleIs ==
  ASSUME NEW v \in JsonValues, IsNumber(v)
  PROVE  /\ v.half \in Int /\ Double[v.half] \in Int
         /\ Recast[Double[v.half]] \in Int /\ Size[Double[v.half]] \in Nat
         /\ v.t = "number" \/ v.half \in -(2 * Precise) .. 2 * Precise => Double[v.half] = v.half
<1>1. v \in Numbers /\ v.half \in Halves /\ Double[v.half] \in Doubles
  BY DEF Numbers, Halves, Doubles
<1>2. v.half \in Int
  BY JsonIs DEF IsJson
<1> QED
  BY <1>1, <1>2, NumberAssumption

LEMMA HasTypeSays ==
  ASSUME NEW v \in JsonValues, NEW name
  PROVE  HasType(v, name) <=> TypeSays(TRUE, name, v)
BY DEF HasType, TypeSays, IsWhole, NumberOf, IsNumber

\* What the keywords of each check ask.
AsksType(read, k, v) ==
  k.key = "type" =>
    \E name \in IF k.value.t = "array" THEN Items(k.value) ELSE {k.value} : TypeSays(read, name.s, v)

AsksEquals(read, k, v) ==
  /\ k.key = "const" => Alike(read, k.value, v)
  /\ k.key = "enum" => \E option \in Items(k.value) : Alike(read, option, v)

AsksBounds(read, k, v) ==
  /\ k.key = "minimum" => (IsNumber(v) => NumberOf(read, v) >= NumberOf(read, k.value))
  /\ k.key = "maximum" => (IsNumber(v) => NumberOf(read, v) <= NumberOf(read, k.value))
  /\ k.key = "minLength" => (v.t = "string" => 2 * LengthOf(read, v) >= CountOf(read, k.value))
  /\ k.key = "maxLength" => (v.t = "string" => 2 * LengthOf(read, v) <= CountOf(read, k.value))
  /\ k.key = "minItems" => (v.t = "array" => 2 * Len(v.items) >= CountOf(read, k.value))
  /\ k.key = "maxItems" => (v.t = "array" => 2 * Len(v.items) <= CountOf(read, k.value))

AsksObject(meets, s, k, v) ==
  /\ k.key = "required" =>
       (v.t = "object" => {name.s : name \in Items(k.value)} \subseteq {m.key : m \in Members(v)})
  /\ k.key = "properties" =>
       \A p \in Members(k.value), m \in Members(v) : p.key = m.key => meets[<<p.value, m.value>>]
  /\ k.key = "additionalProperties" =>
       \A m \in Members(v) : Get(Get(s, "properties"), m.key) = None => meets[<<k.value, m.value>>]

AsksItems(meets, k, v) == k.key = "items" => \A item \in Items(v) : meets[<<k.value, item>>]

AsksSchemas(meets, k, v) ==
  /\ k.key = "allOf" => \A entry \in Items(k.value) : meets[<<entry, v>>]
  /\ k.key = "anyOf" => \E entry \in Items(k.value) : meets[<<entry, v>>]
  /\ k.key = "oneOf" =>
       k.value.t = "array" /\ Cardinality({i \in DOMAIN k.value.items : meets[<<k.value.items[i], v>>]}) = 1
  /\ k.key = "not" => ~ meets[<<k.value, v>>]

LEMMA AsksAre ==
  ASSUME NEW meets, NEW read, NEW s, NEW k, NEW v
  PROVE  Asks(meets, read, s, k, v) <=>
           /\ AsksType(read, k, v) /\ AsksEquals(read, k, v) /\ AsksBounds(read, k, v)
           /\ AsksObject(meets, s, k, v) /\ AsksItems(meets, k, v) /\ AsksSchemas(meets, k, v)
BY DEF Asks, AsksType, AsksEquals, AsksBounds, AsksObject, AsksItems, AsksSchemas

LEMMA TypeAgrees ==
  ASSUME WellFormed, NEW s \in Schemas, NEW v \in JsonValues
  PROVE  CheckType(Get(s, "type"), v) = Ok <=> \A k \in Members(s) : AsksType(TRUE, k, v)
<1> DEFINE type == Get(s, "type")
           names == IF type.t = "array" THEN Items(type) ELSE {type}
           refuses == \/ type.t = "string" /\ ~ HasType(v, type.s)
                      \/ type.t = "array" /\ \A name \in Items(type) : name.t = "string" => ~ HasType(v, name.s)
<1>1. CheckType(type, v) = Ok <=> ~ refuses
  BY ViolationIs DEF CheckType, RefuseIf, Keywords
<1>2. (\A k \in Members(s) : AsksType(TRUE, k, v)) <=> (type # None => \E name \in names : TypeSays(TRUE, name.s, v))
  <2>1. \A k \in Members(s) : k.key = "type" => k.value = type /\ type # None
    BY KeywordIs
  <2>2. type # None => \E k \in Members(s) : k.key = "type" /\ k.value = type
    BY KeywordIs
  <2> HIDE DEF type
  <2> QED
    BY <2>1, <2>2 DEF AsksType
<1>3. type # None => IF type.t = "array" THEN \A name \in Items(type) : name.t = "string" ELSE type.t = "string"
  <2> SUFFICES ASSUME type # None
               PROVE  IF type.t = "array" THEN \A name \in Items(type) : name.t = "string" ELSE type.t = "string"
    OBVIOUS
  <2>1. PICK k \in Members(s) : k.key = "type" /\ k.value = type
    BY KeywordIs
  <2>2. KeywordFits(k)
    BY FitSchemas
  <2> HIDE DEF type
  <2> QED
    BY <2>1, <2>2 DEF KeywordFits
<1>4. refuses <=> ~ (type # None => \E name \in names : TypeSays(TRUE, name.s, v))
  <2>1. CASE type = None
    <3>1. type.t = "none"
      BY <2>1, GetOfNone
    <3> QED
      BY <2>1, <3>1
  <2>2. CASE type # None /\ type.t = "array"
    <3>1. \A name \in Items(type) : name.t = "string" /\ (HasType(v, name.s) <=> TypeSays(TRUE, name.s, v))
      BY <1>3, <2>2, HasTypeSays
    <3> HIDE DEF type
    <3> QED
      BY <2>2, <3>1
  <2>3. CASE type # None /\ type.t # "array"
    <3>1. type.t = "string" /\ (HasType(v, type.s) <=> TypeSays(TRUE, type.s, v))
      BY <1>3, <2>3, HasTypeSays
    <3> HIDE DEF type
    <3> QED
      BY <2>3, <3>1
  <2> QED
    BY <2>1, <2>2, <2>3
<1> QED
  BY <1>1, <1>2, <1>4

LEMMA EqualsAgree ==
  ASSUME WellFormed, NEW s \in Schemas, NEW v \in JsonValues
  PROVE  CheckEquals(s, v) = Ok <=> \A k \in Members(s) : AsksEquals(TRUE, k, v)
<1> DEFINE constant == Get(s, "const")
           options == Get(s, "enum")
<1>0. s \in JsonValues
  BY JsonAssumption
<1>1. CheckEquals(s, v) = Ok <=>
        /\ ~ (constant # None /\ ~ Equals[<<constant, v>>])
        /\ ~ (options.t = "array" /\ \A option \in Items(options) : ~ Equals[<<option, v>>])
  <2>1. RefuseIf(constant # None /\ ~ Equals[<<constant, v>>], "const") = Ok
          <=> ~ (constant # None /\ ~ Equals[<<constant, v>>])
    BY ViolationIs DEF RefuseIf, Keywords
  <2>2. RefuseIf(options.t = "array" /\ \A option \in Items(options) : ~ Equals[<<option, v>>], "enum") = Ok
          <=> ~ (options.t = "array" /\ \A option \in Items(options) : ~ Equals[<<option, v>>])
    BY ViolationIs DEF RefuseIf, Keywords
  <2> QED
    BY <2>1, <2>2, ElseIs DEF CheckEquals
<1>2. /\ \A k \in Members(s) : k.key = "const" => k.value = constant /\ constant # None
      /\ constant # None => \E k \in Members(s) : k.key = "const" /\ k.value = constant
      /\ \A k \in Members(s) : k.key = "enum" => k.value = options /\ options # None
      /\ options # None => \E k \in Members(s) : k.key = "enum" /\ k.value = options
  BY KeywordIs
<1>3. \A c : Alike(TRUE, c, v) <=> Equals[<<c, v>>]
  BY DEF Alike
<1>4. options # None => options.t = "array"
  <2> SUFFICES ASSUME options # None PROVE options.t = "array"
    OBVIOUS
  <2>1. PICK k \in Members(s) : k.key = "enum" /\ k.value = options
    BY <1>2
  <2>2. KeywordFits(k)
    BY FitSchemas
  <2> HIDE DEF options
  <2> QED
    BY <2>1, <2>2 DEF KeywordFits
<1>5. None.t # "array"
  BY GetOfNone
<1> HIDE DEF constant, options
<1>6. (\A k \in Members(s) : AsksEquals(TRUE, k, v)) <=>
        /\ constant # None => Alike(TRUE, constant, v)
        /\ options # None => \E option \in Items(options) : Alike(TRUE, option, v)
  BY <1>2 DEF AsksEquals
<1>7. (\E option \in Items(options) : Equals[<<option, v>>]) \/ \A option \in Items(options) : ~ Equals[<<option, v>>]
  OBVIOUS
<1> QED
  BY <1>1, <1>3, <1>4, <1>5, <1>6, <1>7

\* The bounds of a schema are numbers, and so doubles.
LEMMA BoundIs ==
  ASSUME WellFormed, NEW s \in Schemas, NEW key \in {"minimum", "maximum"} \cup Counts
  PROVE  /\ Get(s, key) # None <=> IsNumber(Get(s, key))
         /\ IsNumber(Get(s, key)) =>
              Double[Get(s, key).half] \in Int /\ Size[Double[Get(s, key).half]] \in Nat
<1>1. CASE Get(s, key) = None
  BY <1>1, GetOfNone DEF IsNumber
<1>2. CASE Get(s, key) # None
  <2> DEFINE bound == Get(s, key)
  <2>1. PICK k \in Members(s) : k.key = key /\ k.value = bound
    BY <1>2, KeywordIs
  <2>2. KeywordFits(k)
    BY FitSchemas
  <2>3. bound \in JsonValues
    BY <1>2, JsonAssumption, GetIs
  <2> HIDE DEF bound
  <2>4. IsNumber(bound)
    BY <2>1, <2>2 DEF KeywordFits
  <2>5. Double[bound.half] \in Int /\ Size[Double[bound.half]] \in Nat
    BY <2>3, <2>4, DoubleIs
  <2> QED
    BY <1>2, <2>4, <2>5 DEF bound
<1> QED
  BY <1>1, <1>2

LEMMA BoundsAgree ==
  ASSUME WellFormed, NEW s \in Schemas, NEW v \in JsonValues
  PROVE  CheckBounds(s, v) = Ok <=> \A k \in Members(s) : AsksBounds(TRUE, k, v)
<1> DEFINE of(key) == Get(s, key)
           bound(key) == Double[of(key).half]
           keys == {"minimum", "maximum"} \cup Counts
<1>1. (\A k \in Members(s) : AsksBounds(TRUE, k, v)) <=>
        /\ of("minimum") # None => (IsNumber(v) => Double[v.half] >= bound("minimum"))
        /\ of("maximum") # None => (IsNumber(v) => Double[v.half] <= bound("maximum"))
        /\ of("minLength") # None => (v.t = "string" => 2 * v.bytes >= 2 * Size[bound("minLength")])
        /\ of("maxLength") # None => (v.t = "string" => 2 * v.bytes <= 2 * Size[bound("maxLength")])
        /\ of("minItems") # None => (v.t = "array" => 2 * Len(v.items) >= 2 * Size[bound("minItems")])
        /\ of("maxItems") # None => (v.t = "array" => 2 * Len(v.items) <= 2 * Size[bound("maxItems")])
  <2>1. \A key \in keys : \A k \in Members(s) : k.key = key => k.value = of(key) /\ of(key) # None
    BY KeywordIs
  <2>2. \A key \in keys : of(key) # None => \E k \in Members(s) : k.key = key /\ k.value = of(key)
    BY KeywordIs
  <2>3. \A w : /\ NumberOf(TRUE, w) = Double[w.half] /\ LengthOf(TRUE, w) = w.bytes
               /\ CountOf(TRUE, w) = 2 * Size[Double[w.half]]
    BY DEF NumberOf, LengthOf, CountOf
  <2> HIDE DEF of
  <2>4. /\ \A k \in Members(s) : k.key = "minimum" => k.value = of("minimum") /\ of("minimum") # None
        /\ of("minimum") # None => \E k \in Members(s) : k.key = "minimum" /\ k.value = of("minimum")
        /\ \A k \in Members(s) : k.key = "maximum" => k.value = of("maximum") /\ of("maximum") # None
        /\ of("maximum") # None => \E k \in Members(s) : k.key = "maximum" /\ k.value = of("maximum")
        /\ \A k \in Members(s) : k.key = "minLength" => k.value = of("minLength") /\ of("minLength") # None
        /\ of("minLength") # None => \E k \in Members(s) : k.key = "minLength" /\ k.value = of("minLength")
        /\ \A k \in Members(s) : k.key = "maxLength" => k.value = of("maxLength") /\ of("maxLength") # None
        /\ of("maxLength") # None => \E k \in Members(s) : k.key = "maxLength" /\ k.value = of("maxLength")
        /\ \A k \in Members(s) : k.key = "minItems" => k.value = of("minItems") /\ of("minItems") # None
        /\ of("minItems") # None => \E k \in Members(s) : k.key = "minItems" /\ k.value = of("minItems")
        /\ \A k \in Members(s) : k.key = "maxItems" => k.value = of("maxItems") /\ of("maxItems") # None
        /\ of("maxItems") # None => \E k \in Members(s) : k.key = "maxItems" /\ k.value = of("maxItems")
    BY <2>1, <2>2 DEF Counts
  <2>5. (\A k \in Members(s) : AsksBounds(TRUE, k, v)) <=>
          \A k \in Members(s) :
            /\ k.key = "minimum" => (IsNumber(v) => Double[v.half] >= Double[k.value.half])
            /\ k.key = "maximum" => (IsNumber(v) => Double[v.half] <= Double[k.value.half])
            /\ k.key = "minLength" => (v.t = "string" => 2 * v.bytes >= 2 * Size[Double[k.value.half]])
            /\ k.key = "maxLength" => (v.t = "string" => 2 * v.bytes <= 2 * Size[Double[k.value.half]])
            /\ k.key = "minItems" => (v.t = "array" => 2 * Len(v.items) >= 2 * Size[Double[k.value.half]])
            /\ k.key = "maxItems" => (v.t = "array" => 2 * Len(v.items) <= 2 * Size[Double[k.value.half]])
    BY <2>3 DEF AsksBounds
  <2> QED
    BY <2>4, <2>5
<1>2. \A keyword \in keys : Violation(keyword) # Ok
  BY ViolationIs DEF Keywords, Counts
<1>3. \A key \in keys : /\ of(key) # None <=> IsNumber(of(key))
                        /\ IsNumber(of(key)) => bound(key) \in Int /\ Size[bound(key)] \in Nat
  BY BoundIs
<1>4. CASE IsNumber(v)
  <2>1. Double[v.half] \in Int /\ v.t # "string" /\ v.t # "array"
    BY <1>4, DoubleIs DEF IsNumber
  <2>2. CheckBounds(s, v) = Ok <=>
          /\ ~ (IsNumber(of("minimum")) /\ Double[v.half] < bound("minimum"))
          /\ ~ (IsNumber(of("maximum")) /\ Double[v.half] > bound("maximum"))
    BY <1>2, <1>4, ElseIs DEF CheckBounds, RefuseIf
  <2>3. \A key \in {"minimum", "maximum"} :
          /\ of(key) # None <=> IsNumber(of(key))
          /\ IsNumber(of(key)) => bound(key) \in Int
    BY <1>3
  <2>4. \A m \in Int : (Double[v.half] < m <=> ~ (Double[v.half] >= m)) /\ (Double[v.half] > m <=> ~ (Double[v.half] <= m))
    BY <2>1
  <2> HIDE DEF of, bound
  <2> QED
    BY <1>1, <1>4, <2>1, <2>2, <2>3, <2>4
<1>5. CASE v.t = "string"
  <2> DEFINE n == v.bytes
  <2>1. n \in Nat /\ ~ IsNumber(v) /\ v.t # "array"
    BY <1>5, JsonIs DEF IsJson, IsNumber
  <2>2. CheckBounds(s, v) = Ok <=>
          /\ ~ (IsNumber(of("minLength")) /\ n < Size[bound("minLength")])
          /\ ~ (IsNumber(of("maxLength")) /\ n > Size[bound("maxLength")])
    BY <1>2, <1>5, <2>1, ElseIs DEF CheckBounds, RefuseIf, Counts
  <2>3. \A m \in Nat : (n < m <=> ~ (2 * n >= 2 * m)) /\ (n > m <=> ~ (2 * n <= 2 * m))
    BY <2>1
  <2> HIDE DEF of, bound
  <2> QED
    BY <1>1, <1>3, <1>5, <2>1, <2>2, <2>3 DEF Counts
<1>6. CASE v.t = "array"
  <2> DEFINE n == Len(v.items)
  <2>1. n \in Nat /\ ~ IsNumber(v) /\ v.t # "string"
    BY <1>6, ItemsAre DEF IsNumber
  <2> HIDE DEF n
  <2>2. CheckBounds(s, v) = Ok <=>
          /\ ~ (IsNumber(of("minItems")) /\ n < Size[bound("minItems")])
          /\ ~ (IsNumber(of("maxItems")) /\ n > Size[bound("maxItems")])
    BY <1>2, <1>6, <2>1, ElseIs DEF CheckBounds, RefuseIf, n, Counts
  <2>3. \A m \in Nat : (n < m <=> ~ (2 * n >= 2 * m)) /\ (n > m <=> ~ (2 * n <= 2 * m))
    BY <2>1
  <2> HIDE DEF of, bound
  <2> QED
    BY <1>1, <1>3, <1>6, <2>1, <2>2, <2>3 DEF n, Counts
<1>7. CASE ~ IsNumber(v) /\ v.t # "string" /\ v.t # "array"
  <2>1. CheckBounds(s, v) = Ok
    BY <1>7 DEF CheckBounds
  <2> QED
    BY <1>1, <1>7, <2>1
<1> QED
  BY <1>4, <1>5, <1>6, <1>7

\* A schema admits what meets it; so do those less deep.
Agrees(t) == \A w \in JsonValues : Check[<<t, w>>] = Ok <=> MeetsAsRead[<<t, w>>]
AgreeBelow(s) == \A t \in Schemas : JsonDepth[t] < JsonDepth[s] => Agrees(t)

\* The schemas within a schema, by the keyword that holds them.
LEMMA HeldSchemas ==
  ASSUME WellFormed, NEW s \in Schemas, AgreeBelow(s)
  PROVE  /\ \A key \in {"items", "not", "additionalProperties"} :
              Get(s, key) # None => /\ Get(s, key) \in Schemas /\ JsonDepth[Get(s, key)] < JsonDepth[s]
                                    /\ Agrees(Get(s, key))
         /\ \A key \in {"allOf", "anyOf", "oneOf"} : \A e \in Items(Get(s, key)) :
              e \in Schemas /\ JsonDepth[e] < JsonDepth[s] /\ Agrees(e)
         /\ \A key : Get(Get(s, "properties"), key) # None =>
              /\ Get(Get(s, "properties"), key) \in Schemas
              /\ JsonDepth[Get(Get(s, "properties"), key)] < JsonDepth[s]
              /\ Agrees(Get(Get(s, "properties"), key))
<1>0. s \in JsonValues
  BY JsonAssumption
<1>1. ASSUME NEW key \in {"items", "not", "additionalProperties"}, Get(s, key) # None
      PROVE  Get(s, key) \in Schemas /\ JsonDepth[Get(s, key)] < JsonDepth[s]
  <2> DEFINE held == Get(s, key)
  <2>1. PICK k \in Members(s) : k.key = key /\ k.value = held
    BY <1>1, KeywordIs
  <2>2. SchemasOf(k) \subseteq Schemas
    BY FitSchemas
  <2>3. SchemasOf(k) = {held}
    BY <2>1 DEF SchemasOf
  <2>4. JsonDepth[held] < JsonDepth[s]
    BY <1>0, <1>1, GetIs
  <2> QED
    BY <2>2, <2>3, <2>4
<1>2. ASSUME NEW key \in {"allOf", "anyOf", "oneOf"}, NEW e \in Items(Get(s, key))
      PROVE  e \in Schemas /\ JsonDepth[e] < JsonDepth[s]
  <2> DEFINE list == Get(s, key)
  <2>1. list # None
    BY GetOfNone DEF Items
  <2>2. PICK k \in Members(s) : k.key = key /\ k.value = list
    BY <2>1, KeywordIs
  <2>3. SchemasOf(k) \subseteq Schemas
    BY FitSchemas
  <2>4. SchemasOf(k) = Items(list)
    BY <2>2 DEF SchemasOf
  <2>5. JsonDepth[e] < JsonDepth[s]
    BY <1>0, ItemsOfGet
  <2> QED
    BY <2>3, <2>4, <2>5
<1>3. ASSUME NEW key, Get(Get(s, "properties"), key) # None
      PROVE  /\ Get(Get(s, "properties"), key) \in Schemas
             /\ JsonDepth[Get(Get(s, "properties"), key)] < JsonDepth[s]
  <2> DEFINE properties == Get(s, "properties")
  <2>1. properties # None /\ JsonDepth[Get(properties, key)] < JsonDepth[s]
    BY <1>0, <1>3, GetTwice
  <2>2. PICK k \in Members(s) : k.key = "properties" /\ k.value = properties
    BY <2>1, KeywordIs
  <2>3. SchemasOf(k) \subseteq Schemas
    BY FitSchemas
  <2>4. SchemasOf(k) = {p.value : p \in Members(properties)}
    BY <2>2 DEF SchemasOf
  <2>5. properties \in JsonValues
    BY <1>0, <2>1, GetIs
  <2> HIDE DEF properties
  <2>6. \E p \in Members(properties) : Get(properties, key) = p.value
    BY <1>3, <2>5, GetIs DEF properties
  <2>7. Get(properties, key) \in Schemas
    BY <2>3, <2>4, <2>6
  <2> QED
    BY <2>1, <2>7 DEF properties
<1> QED
  BY <1>1, <1>2, <1>3 DEF AgreeBelow

\* A member is checked by its property, else by the additional schema.
LEMMA MemberAgrees ==
  ASSUME WellFormed, NEW s \in Schemas, AgreeBelow(s), NEW v \in JsonValues, NEW m \in Members(v)
  PROVE  CheckMember(Check, s, m) = Ok <=>
           /\ Get(Get(s, "properties"), m.key) # None => MeetsAsRead[<<Get(Get(s, "properties"), m.key), m.value>>]
           /\ Get(Get(s, "properties"), m.key) = None /\ Get(s, "additionalProperties") # None =>
                MeetsAsRead[<<Get(s, "additionalProperties"), m.value>>]
<1> DEFINE property == Get(Get(s, "properties"), m.key)
           additional == Get(s, "additionalProperties")
<1>1. m.value \in JsonValues /\ <<"key", m.key>> \in Steps
  <2>1. v.t = "object"
    BY DEF Members
  <2>2. m.key \in STRING
    BY <2>1, MembersAre
  <2> QED
    BY <2>2, PartsWithin DEF Steps
<1>2. \A t \in JsonValues :
        Within(<<"key", m.key>>, Check[<<t, m.value>>]) = Ok <=> Check[<<t, m.value>>] = Ok
  BY <1>1, CheckIs, WithinIs
<1>3. property # None =>
        (Within(<<"key", m.key>>, Check[<<property, m.value>>]) = Ok <=> MeetsAsRead[<<property, m.value>>])
  <2>1. property # None => property \in JsonValues /\ Agrees(property)
    BY HeldSchemas, JsonAssumption
  <2> HIDE DEF property
  <2> QED
    BY <1>1, <1>2, <2>1 DEF Agrees
<1>4. additional # None => additional \in Schemas /\ additional \in JsonValues /\ Agrees(additional)
  BY HeldSchemas, JsonAssumption
<1>5. additional.t = "object" =>
        (Within(<<"key", m.key>>, Check[<<additional, m.value>>]) = Ok <=> MeetsAsRead[<<additional, m.value>>])
  <2>1. additional.t = "object" => additional # None
    BY GetOfNone
  <2> HIDE DEF additional
  <2> QED
    BY <1>1, <1>2, <1>4, <2>1 DEF Agrees
<1>6. additional # None /\ additional.t # "object" =>
        (additional = BoolV(FALSE) <=> ~ MeetsAsRead[<<additional, m.value>>])
  <2> SUFFICES ASSUME additional # None, additional.t # "object"
               PROVE  additional = BoolV(FALSE) <=> ~ MeetsAsRead[<<additional, m.value>>]
    OBVIOUS
  <2>1. additional.t = "boolean"
    BY <1>4 DEF WellFormed
  <2>2. additional \in {BoolV(TRUE), BoolV(FALSE)}
    BY <1>4, <2>1, JsonIs DEF IsJson
  <2>3. BoolV(TRUE) # BoolV(FALSE)
    <3>1. BoolV(TRUE).b # BoolV(FALSE).b
      BY DEF BoolV
    <3> QED
      BY <3>1
  <2>4. MeetsAsRead[<<additional, m.value>>] <=> additional = BoolV(TRUE)
    <3>1. MeetsAsRead[<<additional, m.value>>] <=> MeetsBy(MeetsAsRead, TRUE, additional, m.value)
      BY <1>1, <1>4, MeetsAsReadIs
    <3> HIDE DEF additional
    <3> QED
      BY <2>1, <3>1 DEF MeetsBy
  <2> HIDE DEF additional
  <2> QED
    BY <2>2, <2>3, <2>4
<1>7. additional = None => additional.t # "object" /\ additional # BoolV(FALSE)
  <2>1. BoolV(FALSE).t = "boolean"
    BY DEF BoolV
  <2> QED
    BY <2>1, GetOfNone
<1>8. Violation("additionalProperties") # Ok
  BY ViolationIs DEF Keywords
<1>9. CheckMember(Check, s, m) =
        IF property # None THEN Within(<<"key", m.key>>, Check[<<property, m.value>>])
        ELSE IF additional.t = "object" THEN Within(<<"key", m.key>>, Check[<<additional, m.value>>])
        ELSE RefuseIf(additional = BoolV(FALSE), "additionalProperties")
  BY DEF CheckMember
<1> HIDE DEF property, additional
<1>10. CheckMember(Check, s, m) = Ok <=>
         /\ property # None => MeetsAsRead[<<property, m.value>>]
         /\ property = None /\ additional # None => MeetsAsRead[<<additional, m.value>>]
  BY <1>3, <1>5, <1>6, <1>7, <1>8, <1>9 DEF RefuseIf
<1> QED
  BY <1>10 DEF property, additional

LEMMA ObjectAgrees ==
  ASSUME WellFormed, NEW s \in Schemas, AgreeBelow(s), NEW v \in JsonValues, v.t = "object"
  PROVE  CheckObject(Check, s, v) = Ok <=> \A k \in Members(s) : AsksObject(MeetsAsRead, s, k, v)
<1> DEFINE required == Get(s, "required")
           properties == Get(s, "properties")
           additional == Get(s, "additionalProperties")
           missing == \E name \in Items(required) : name.t = "string" /\ Get(v, name.s) = None
           checks == [i \in DOMAIN v.members |-> CheckMember(Check, s, v.members[i])]
           Passes(m) == /\ Get(properties, m.key) # None => MeetsAsRead[<<Get(properties, m.key), m.value>>]
                        /\ Get(properties, m.key) = None /\ additional # None => MeetsAsRead[<<additional, m.value>>]
<1>0. s \in JsonValues
  BY JsonAssumption
<1>1. CheckObject(Check, s, v) = Ok <=> ~ missing /\ First(checks) = Ok
  <2>1. RefuseIf(missing, "required") = Ok <=> ~ missing
    BY ViolationIs DEF RefuseIf, Keywords
  <2>2. CheckObject(Check, s, v) = (RefuseIf(missing, "required") ?? First(checks))
    BY DEF CheckObject
  <2> HIDE DEF missing, checks
  <2> QED
    BY <2>1, <2>2, ElseIs
<1>2. First(checks) = Ok <=> \A m \in Members(v) : Passes(m)
  <2>1. Len(v.members) \in Nat /\ DOMAIN v.members = 1 .. Len(v.members)
    BY MembersAre
  <2>2. DOMAIN checks = DOMAIN v.members /\ \A i \in DOMAIN v.members : checks[i] = CheckMember(Check, s, v.members[i])
    OBVIOUS
  <2>3. First(checks) = Ok <=> \A i \in DOMAIN v.members : checks[i] = Ok
    <3> HIDE DEF checks
    <3> QED
      BY <2>1, <2>2, FirstIs
  <2>4. /\ \A i \in DOMAIN v.members : v.members[i] \in Members(v)
        /\ \A m \in Members(v) : \E i \in DOMAIN v.members : m = v.members[i]
    BY MembersAre
  <2>5. \A m \in Members(v) : CheckMember(Check, s, m) = Ok <=> Passes(m)
    BY MemberAgrees
  <2> HIDE DEF checks, Passes
  <2> QED
    BY <2>2, <2>3, <2>4, <2>5
<1>3. /\ \A k \in Members(s) : k.key = "required" => k.value = required /\ required # None
      /\ required # None => \E k \in Members(s) : k.key = "required" /\ k.value = required
      /\ \A k \in Members(s) : k.key = "properties" => k.value = properties /\ properties # None
      /\ properties # None => \E k \in Members(s) : k.key = "properties" /\ k.value = properties
      /\ \A k \in Members(s) : k.key = "additionalProperties" => k.value = additional /\ additional # None
      /\ additional # None => \E k \in Members(s) : k.key = "additionalProperties" /\ k.value = additional
  BY KeywordIs
<1>4. ~ missing <=> (required # None => {name.s : name \in Items(required)} \subseteq {m.key : m \in Members(v)})
  <2>1. CASE required = None
    <3>1. Items(required) = {}
      BY <2>1, GetOfNone DEF Items
    <3> QED
      BY <2>1, <3>1
  <2>2. CASE required # None
    <3>1. PICK k \in Members(s) : k.key = "required" /\ k.value = required
      BY <1>3, <2>2
    <3>2. KeywordFits(k)
      BY FitSchemas
    <3> HIDE DEF required
    <3>3. \A name \in Items(required) : name.t = "string"
      BY <3>1, <3>2 DEF KeywordFits
    <3>4. \A key : Get(v, key) # None <=> key \in {m.key : m \in Members(v)}
      <4>1. \A key : Get(v, key) # None <=> \E m \in Members(v) : m.key = key
        BY GetIs
      <4> QED
        BY <4>1
    <3> QED
      BY <2>2, <3>3, <3>4
  <2> QED
    BY <2>1, <2>2
<1>5. (\A m \in Members(v) : Get(properties, m.key) # None => MeetsAsRead[<<Get(properties, m.key), m.value>>])
        <=> (properties # None =>
               \A p \in Members(properties), m \in Members(v) : p.key = m.key => MeetsAsRead[<<p.value, m.value>>])
  <2>1. CASE properties = None
    <3>1. \A key : Get(properties, key) = None
      BY <2>1, GetOfNone
    <3> QED
      BY <2>1, <3>1
  <2>2. CASE properties # None
    <3>1. PICK k \in Members(s) : k.key = "properties" /\ k.value = properties
      BY <1>3, <2>2
    <3>2. KeywordFits(k)
      BY FitSchemas
    <3>3. properties \in JsonValues
      BY <1>0, <2>2, GetIs
    <3> HIDE DEF properties
    <3>4. OneEach(properties.members)
      BY <3>1, <3>2 DEF KeywordFits
    <3>5. \A p \in Members(properties) : p.value = Get(properties, p.key) /\ Get(properties, p.key) # None
      BY <3>3, <3>4, OneMember
    <3>6. \A key : Get(properties, key) # None => \E p \in Members(properties) : p.key = key
      BY <3>3, GetIs
    <3> QED
      BY <2>2, <3>5, <3>6
  <2> QED
    BY <2>1, <2>2
<1>6. (\A k \in Members(s) : AsksObject(MeetsAsRead, s, k, v)) <=>
        /\ required # None => {name.s : name \in Items(required)} \subseteq {m.key : m \in Members(v)}
        /\ properties # None =>
             \A p \in Members(properties), m \in Members(v) : p.key = m.key => MeetsAsRead[<<p.value, m.value>>]
        /\ additional # None =>
             \A m \in Members(v) : Get(properties, m.key) = None => MeetsAsRead[<<additional, m.value>>]
  <2>1. \A k \in Members(s) : AsksObject(MeetsAsRead, s, k, v) <=>
          /\ k.key = "required" => {name.s : name \in Items(k.value)} \subseteq {m.key : m \in Members(v)}
          /\ k.key = "properties" =>
               \A p \in Members(k.value), m \in Members(v) : p.key = m.key => MeetsAsRead[<<p.value, m.value>>]
          /\ k.key = "additionalProperties" =>
               \A m \in Members(v) : Get(properties, m.key) = None => MeetsAsRead[<<k.value, m.value>>]
    BY DEF AsksObject
  <2> DEFINE NamesIn(w) == {name.s : name \in Items(w)} \subseteq {m.key : m \in Members(v)}
             OfProperties(w) == \A p \in Members(w), m \in Members(v) : p.key = m.key => MeetsAsRead[<<p.value, m.value>>]
             OfOthers(w) == \A m \in Members(v) : Get(properties, m.key) = None => MeetsAsRead[<<w, m.value>>]
  <2>2. \A k \in Members(s) : AsksObject(MeetsAsRead, s, k, v) <=>
          /\ k.key = "required" => NamesIn(k.value)
          /\ k.key = "properties" => OfProperties(k.value)
          /\ k.key = "additionalProperties" => OfOthers(k.value)
    BY <2>1
  <2> HIDE DEF NamesIn, OfProperties, OfOthers
  <2>3. (\A k \in Members(s) : AsksObject(MeetsAsRead, s, k, v)) <=>
          /\ required # None => NamesIn(required)
          /\ properties # None => OfProperties(properties)
          /\ additional # None => OfOthers(additional)
    <3> HIDE DEF required, properties, additional
    <3> QED
      BY <1>3, <2>2
  <2> QED
    BY <2>3 DEF NamesIn, OfProperties, OfOthers
<1> HIDE DEF required, properties, additional, missing, checks
<1>7. (\A m \in Members(v) : Passes(m)) <=>
        /\ \A m \in Members(v) : Get(properties, m.key) # None => MeetsAsRead[<<Get(properties, m.key), m.value>>]
        /\ additional # None =>
             \A m \in Members(v) : Get(properties, m.key) = None => MeetsAsRead[<<additional, m.value>>]
  OBVIOUS
<1> HIDE DEF Passes
<1> QED
  BY <1>1, <1>2, <1>4, <1>5, <1>6, <1>7

LEMMA ItemsAgree ==
  ASSUME WellFormed, NEW s \in Schemas, AgreeBelow(s), NEW v \in JsonValues, v.t = "array"
  PROVE  CheckItems(Check, s, v) = Ok <=> \A k \in Members(s) : AsksItems(MeetsAsRead, k, v)
<1> DEFINE items == Get(s, "items")
           checks == [i \in DOMAIN v.items |-> Within(<<"item", i - 1>>, Check[<<items, v.items[i]>>])]
<1>1. /\ \A k \in Members(s) : k.key = "items" => k.value = items /\ items # None
      /\ items # None => \E k \in Members(s) : k.key = "items" /\ k.value = items
  BY KeywordIs
<1>2. (\A k \in Members(s) : AsksItems(MeetsAsRead, k, v)) <=> (items # None => \A item \in Items(v) : MeetsAsRead[<<items, item>>])
  <2> HIDE DEF items
  <2> QED
    BY <1>1 DEF AsksItems
<1>3. CASE items = None
  <2>1. items.t # "object"
    BY <1>3, GetOfNone
  <2> QED
    BY <1>2, <1>3, <2>1 DEF CheckItems
<1>4. CASE items # None
  <2>1. items \in JsonValues /\ Agrees(items)
    BY <1>4, HeldSchemas, JsonAssumption
  <2>2. items.t = "object"
    <3>1. PICK k \in Members(s) : k.key = "items" /\ k.value = items
      BY <1>1, <1>4
    <3>2. KeywordFits(k)
      BY FitSchemas
    <3> HIDE DEF items
    <3> QED
      BY <3>1, <3>2 DEF KeywordFits
  <2>3. /\ Len(v.items) \in Nat /\ DOMAIN v.items = 1 .. Len(v.items)
        /\ \A i \in DOMAIN v.items : v.items[i] \in Items(v) /\ v.items[i] \in JsonValues
        /\ \A e \in Items(v) : \E i \in DOMAIN v.items : e = v.items[i]
    BY ItemsAre, PartsWithin
  <2>4. CheckItems(Check, s, v) = First(checks)
    BY <2>2 DEF CheckItems
  <2>5. DOMAIN checks = DOMAIN v.items
    OBVIOUS
  <2>6. First(checks) = Ok <=> \A i \in DOMAIN v.items : checks[i] = Ok
    <3> HIDE DEF checks
    <3> QED
      BY <2>3, <2>5, FirstIs
  <2>7. ASSUME NEW i \in DOMAIN v.items PROVE checks[i] = Ok <=> MeetsAsRead[<<items, v.items[i]>>]
    <3>1. checks[i] = Within(<<"item", i - 1>>, Check[<<items, v.items[i]>>])
      OBVIOUS
    <3>2. <<"item", i - 1>> \in Steps
      BY <2>3 DEF Steps
    <3> HIDE DEF checks, items
    <3>3. Check[<<items, v.items[i]>>] \in Verdicts
      BY <2>1, <2>3, CheckIs
    <3>4. checks[i] = Ok <=> Check[<<items, v.items[i]>>] = Ok
      BY <3>1, <3>2, <3>3, WithinIs
    <3> QED
      BY <2>1, <2>3, <3>4 DEF Agrees
  <2> HIDE DEF checks, items
  <2> QED
    BY <1>2, <1>4, <2>3, <2>4, <2>6, <2>7
<1> QED
  BY <1>3, <1>4

\* The schemas listed under a keyword that admit the value are those it meets.
LEMMA MatchesAre ==
  ASSUME WellFormed, NEW s \in Schemas, AgreeBelow(s), NEW v \in JsonValues,
         NEW key \in {"allOf", "anyOf", "oneOf"}, Get(s, key) # None
  PROVE  /\ Get(s, key) \in JsonValues /\ Get(s, key).t = "array"
         /\ \A i \in DOMAIN Get(s, key).items :
              Check[<<Get(s, key).items[i], v>>] = Ok <=> MeetsAsRead[<<Get(s, key).items[i], v>>]
         /\ Matches(Check, Get(s, key), v) = {i \in DOMAIN Get(s, key).items : MeetsAsRead[<<Get(s, key).items[i], v>>]}
<1> DEFINE list == Get(s, key)
<1>1. list \in JsonValues
  BY JsonAssumption, GetIs
<1>2. PICK k \in Members(s) : k.key = key /\ k.value = list
  BY KeywordIs
<1>3. KeywordFits(k)
  BY FitSchemas
<1>4. \A e \in Items(list) : Agrees(e)
  BY HeldSchemas
<1> HIDE DEF list
<1>5. list.t = "array"
  BY <1>2, <1>3 DEF KeywordFits
<1>6. \A i \in DOMAIN list.items : Check[<<list.items[i], v>>] = Ok <=> MeetsAsRead[<<list.items[i], v>>]
  BY <1>1, <1>4, <1>5, ItemsAre DEF Agrees
<1>7. Matches(Check, list, v) = {i \in DOMAIN list.items : MeetsAsRead[<<list.items[i], v>>]}
  BY <1>6 DEF Matches
<1> QED
  BY <1>1, <1>5, <1>6, <1>7 DEF list

LEMMA SchemasAgree ==
  ASSUME WellFormed, NEW s \in Schemas, AgreeBelow(s), NEW v \in JsonValues
  PROVE  CheckCombinators(Check, s, v) = Ok <=> \A k \in Members(s) : AsksSchemas(MeetsAsRead, k, v)
<1> DEFINE all == Get(s, "allOf")
           any == Get(s, "anyOf")
           one == Get(s, "oneOf")
           negated == Get(s, "not")
           checks == [i \in DOMAIN all.items |-> Check[<<all.items[i], v>>]]
           ofAll == IF all.t = "array" THEN First(checks) ELSE Ok
           ofAny == any.t = "array" /\ Matches(Check, any, v) = {}
           ofOne == one.t = "array" /\ Cardinality(Matches(Check, one, v)) # 1
           ofNot == negated.t = "object" /\ Check[<<negated, v>>] = Ok
<1>1. CheckCombinators(Check, s, v) = Ok <=> ofAll = Ok /\ ~ ofAny /\ ~ ofOne /\ ~ ofNot
  <2>1. /\ RefuseIf(ofAny, "anyOf") = Ok <=> ~ ofAny
        /\ RefuseIf(ofOne, "oneOf") = Ok <=> ~ ofOne
        /\ RefuseIf(ofNot, "not") = Ok <=> ~ ofNot
    <3>1. Violation("anyOf") # Ok /\ Violation("oneOf") # Ok /\ Violation("not") # Ok
      BY ViolationIs DEF Keywords
    <3> HIDE DEF ofAny, ofOne, ofNot
    <3> QED
      BY <3>1 DEF RefuseIf
  <2>2. CheckCombinators(Check, s, v)
          = (ofAll ?? RefuseIf(ofAny, "anyOf") ?? RefuseIf(ofOne, "oneOf") ?? RefuseIf(ofNot, "not"))
    BY DEF CheckCombinators
  <2> HIDE DEF ofAll, ofAny, ofOne, ofNot
  <2> QED
    BY <2>1, <2>2, ElseIs
<1>2. /\ \A k \in Members(s) : k.key = "allOf" => k.value = all /\ all # None
      /\ all # None => \E k \in Members(s) : k.key = "allOf" /\ k.value = all
      /\ \A k \in Members(s) : k.key = "anyOf" => k.value = any /\ any # None
      /\ any # None => \E k \in Members(s) : k.key = "anyOf" /\ k.value = any
      /\ \A k \in Members(s) : k.key = "oneOf" => k.value = one /\ one # None
      /\ one # None => \E k \in Members(s) : k.key = "oneOf" /\ k.value = one
      /\ \A k \in Members(s) : k.key = "not" => k.value = negated /\ negated # None
      /\ negated # None => \E k \in Members(s) : k.key = "not" /\ k.value = negated
  BY KeywordIs
<1>3. (\A k \in Members(s) : AsksSchemas(MeetsAsRead, k, v)) <=>
        /\ all # None => \A entry \in Items(all) : MeetsAsRead[<<entry, v>>]
        /\ any # None => \E entry \in Items(any) : MeetsAsRead[<<entry, v>>]
        /\ one # None =>
             one.t = "array" /\ Cardinality({i \in DOMAIN one.items : MeetsAsRead[<<one.items[i], v>>]}) = 1
        /\ negated # None => ~ MeetsAsRead[<<negated, v>>]
  <2> DEFINE All(w) == \A entry \in Items(w) : MeetsAsRead[<<entry, v>>]
             Any(w) == \E entry \in Items(w) : MeetsAsRead[<<entry, v>>]
             One(w) == w.t = "array" /\ Cardinality({i \in DOMAIN w.items : MeetsAsRead[<<w.items[i], v>>]}) = 1
  <2>1. \A k \in Members(s) : AsksSchemas(MeetsAsRead, k, v) <=>
          /\ k.key = "allOf" => All(k.value)
          /\ k.key = "anyOf" => Any(k.value)
          /\ k.key = "oneOf" => One(k.value)
          /\ k.key = "not" => ~ MeetsAsRead[<<k.value, v>>]
    BY DEF AsksSchemas
  <2> HIDE DEF All, Any, One
  <2>2. (\A k \in Members(s) : AsksSchemas(MeetsAsRead, k, v)) <=>
          /\ all # None => All(all)
          /\ any # None => Any(any)
          /\ one # None => One(one)
          /\ negated # None => ~ MeetsAsRead[<<negated, v>>]
    <3> HIDE DEF all, any, one, negated
    <3> QED
      BY <1>2, <2>1
  <2> QED
    BY <2>2 DEF All, Any, One
<1>4. ofAll = Ok <=> (all # None => \A entry \in Items(all) : MeetsAsRead[<<entry, v>>])
  <2>1. CASE all = None
    <3>1. all.t # "array"
      BY <2>1, GetOfNone
    <3> QED
      BY <2>1, <3>1
  <2>2. CASE all # None
    <3>1. /\ all \in JsonValues /\ all.t = "array"
          /\ \A i \in DOMAIN all.items : Check[<<all.items[i], v>>] = Ok <=> MeetsAsRead[<<all.items[i], v>>]
      BY <2>2, MatchesAre
    <3>2. /\ Len(all.items) \in Nat /\ DOMAIN all.items = 1 .. Len(all.items)
          /\ \A i \in DOMAIN all.items : all.items[i] \in Items(all)
          /\ \A e \in Items(all) : \E i \in DOMAIN all.items : e = all.items[i]
      <4> HIDE DEF all
      <4> QED
        BY <3>1, ItemsAre
    <3>3. DOMAIN checks = DOMAIN all.items /\ \A i \in DOMAIN all.items : checks[i] = Check[<<all.items[i], v>>]
      OBVIOUS
    <3>4. First(checks) = Ok <=> \A i \in DOMAIN all.items : checks[i] = Ok
      <4> HIDE DEF all, checks
      <4> QED
        BY <3>2, <3>3, FirstIs
    <3>5. ofAll = First(checks)
      BY <3>1
    <3>6. (\A i \in DOMAIN all.items : MeetsAsRead[<<all.items[i], v>>]) <=> (\A e \in Items(all) : MeetsAsRead[<<e, v>>])
      <4> HIDE DEF all
      <4> QED
        BY <3>2
    <3>7. First(checks) = Ok <=> \A i \in DOMAIN all.items : MeetsAsRead[<<all.items[i], v>>]
      <4> HIDE DEF all, checks
      <4> QED
        BY <3>1, <3>3, <3>4
    <3> HIDE DEF all, checks, ofAll
    <3> QED
      BY <2>2, <3>5, <3>6, <3>7
  <2> QED
    BY <2>1, <2>2
<1>5. ~ ofAny <=> (any # None => \E entry \in Items(any) : MeetsAsRead[<<entry, v>>])
  <2>1. CASE any = None
    <3>1. any.t # "array"
      BY <2>1, GetOfNone
    <3> QED
      BY <2>1, <3>1
  <2>2. CASE any # None
    <3>1. /\ any \in JsonValues /\ any.t = "array"
          /\ Matches(Check, any, v) = {i \in DOMAIN any.items : MeetsAsRead[<<any.items[i], v>>]}
      BY <2>2, MatchesAre
    <3> HIDE DEF any
    <3>2. /\ \A i \in DOMAIN any.items : any.items[i] \in Items(any)
          /\ \A e \in Items(any) : \E i \in DOMAIN any.items : e = any.items[i]
      BY <3>1, ItemsAre
    <3>3. {i \in DOMAIN any.items : MeetsAsRead[<<any.items[i], v>>]} = {} <=> ~ \E e \in Items(any) : MeetsAsRead[<<e, v>>]
      BY <3>2
    <3> QED
      BY <2>2, <3>1, <3>3
  <2> QED
    BY <2>1, <2>2
<1>6. ~ ofOne <=> (one # None =>
                     one.t = "array" /\ Cardinality({i \in DOMAIN one.items : MeetsAsRead[<<one.items[i], v>>]}) = 1)
  <2>1. CASE one = None
    <3>1. one.t # "array"
      BY <2>1, GetOfNone
    <3> QED
      BY <2>1, <3>1
  <2>2. CASE one # None
    <3>1. /\ one.t = "array"
          /\ Matches(Check, one, v) = {i \in DOMAIN one.items : MeetsAsRead[<<one.items[i], v>>]}
      BY <2>2, MatchesAre
    <3> QED
      BY <2>2, <3>1
  <2> QED
    BY <2>1, <2>2
<1>7. ~ ofNot <=> (negated # None => ~ MeetsAsRead[<<negated, v>>])
  <2>1. CASE negated = None
    <3>1. negated.t # "object"
      BY <2>1, GetOfNone
    <3> QED
      BY <2>1, <3>1
  <2>2. CASE negated # None
    <3>1. Agrees(negated)
      BY <2>2, HeldSchemas
    <3>2. PICK k \in Members(s) : k.key = "not" /\ k.value = negated
      BY <1>2, <2>2
    <3>3. KeywordFits(k)
      BY FitSchemas
    <3>4. negated.t = "object"
      <4> HIDE DEF negated
      <4> QED
        BY <3>2, <3>3 DEF KeywordFits
    <3>5. Check[<<negated, v>>] = Ok <=> MeetsAsRead[<<negated, v>>]
      BY <3>1 DEF Agrees
    <3> QED
      BY <2>2, <3>4, <3>5
  <2> QED
    BY <2>1, <2>2
<1> HIDE DEF all, any, one, negated, ofAll, ofAny, ofOne, ofNot
<1> QED
  BY <1>1, <1>3, <1>4, <1>5, <1>6, <1>7

\* The whole check, where the schemas within agree.
LEMMA CheckAgrees ==
  ASSUME WellFormed, NEW s \in Schemas, AgreeBelow(s)
  PROVE  Agrees(s)
<1> SUFFICES ASSUME NEW v \in JsonValues PROVE Check[<<s, v>>] = Ok <=> MeetsAsRead[<<s, v>>]
  BY DEF Agrees
<1>1. /\ s \in JsonValues
      /\ s.t \in {"boolean", "object"}
      /\ Check[<<s, v>>] = CheckBy(Check, s, v)
      /\ MeetsAsRead[<<s, v>>] <=> MeetsBy(MeetsAsRead, TRUE, s, v)
  BY JsonAssumption, CheckIs, MeetsAsReadIs DEF WellFormed
<1>2. CASE s.t = "boolean"
  <2>1. s \in {BoolV(TRUE), BoolV(FALSE)}
    BY <1>1, <1>2, JsonIs DEF IsJson
  <2>2. BoolV(TRUE) # BoolV(FALSE)
    <3>1. BoolV(TRUE).b # BoolV(FALSE).b
      BY DEF BoolV
    <3> QED
      BY <3>1
  <2>3. Violation("false") # Ok
    BY ViolationIs DEF Keywords
  <2>4. CheckBy(Check, s, v) = Ok <=> s # BoolV(FALSE)
    BY <1>2, <2>3 DEF CheckBy, RefuseIf
  <2>5. MeetsBy(MeetsAsRead, TRUE, s, v) <=> s = BoolV(TRUE)
    BY <1>2 DEF MeetsBy
  <2> QED
    BY <1>1, <2>1, <2>2, <2>4, <2>5
<1>3. CASE s.t = "object"
  <2> DEFINE ofObject == IF v.t = "object" THEN CheckObject(Check, s, v) ELSE Ok
             ofItems == IF v.t = "array" THEN CheckItems(Check, s, v) ELSE Ok
  <2>1. CheckBy(Check, s, v) = Ok <=>
          /\ CheckType(Get(s, "type"), v) = Ok /\ CheckEquals(s, v) = Ok /\ CheckBounds(s, v) = Ok
          /\ ofObject = Ok /\ ofItems = Ok /\ CheckCombinators(Check, s, v) = Ok
    <3>1. CheckBy(Check, s, v) =
            (CheckType(Get(s, "type"), v) ?? CheckEquals(s, v) ?? CheckBounds(s, v)
               ?? ofObject ?? ofItems ?? CheckCombinators(Check, s, v))
      BY <1>3 DEF CheckBy
    <3> HIDE DEF ofObject, ofItems
    <3> QED
      BY <3>1, ElseIs
  <2>2. ofObject = Ok <=> \A k \in Members(s) : AsksObject(MeetsAsRead, s, k, v)
    <3>1. CASE v.t = "object"
      BY <3>1, ObjectAgrees
    <3>2. CASE v.t # "object"
      <4>1. Members(v) = {}
        BY <3>2 DEF Members
      <4> QED
        BY <3>2, <4>1 DEF AsksObject
    <3> QED
      BY <3>1, <3>2
  <2>3. ofItems = Ok <=> \A k \in Members(s) : AsksItems(MeetsAsRead, k, v)
    <3>1. CASE v.t = "array"
      BY <3>1, ItemsAgree
    <3>2. CASE v.t # "array"
      <4>1. Items(v) = {}
        BY <3>2 DEF Items
      <4> QED
        BY <3>2, <4>1 DEF AsksItems
    <3> QED
      BY <3>1, <3>2
  <2>4. /\ CheckType(Get(s, "type"), v) = Ok <=> \A k \in Members(s) : AsksType(TRUE, k, v)
        /\ CheckEquals(s, v) = Ok <=> \A k \in Members(s) : AsksEquals(TRUE, k, v)
        /\ CheckBounds(s, v) = Ok <=> \A k \in Members(s) : AsksBounds(TRUE, k, v)
        /\ CheckCombinators(Check, s, v) = Ok <=> \A k \in Members(s) : AsksSchemas(MeetsAsRead, k, v)
    BY TypeAgrees, EqualsAgree, BoundsAgree, SchemasAgree
  <2>5. MeetsBy(MeetsAsRead, TRUE, s, v) <=> \A k \in Members(s) : Asks(MeetsAsRead, TRUE, s, k, v)
    BY <1>3 DEF MeetsBy
  <2>6. \A k \in Members(s) : Asks(MeetsAsRead, TRUE, s, k, v) <=>
          /\ AsksType(TRUE, k, v) /\ AsksEquals(TRUE, k, v) /\ AsksBounds(TRUE, k, v)
          /\ AsksObject(MeetsAsRead, s, k, v) /\ AsksItems(MeetsAsRead, k, v) /\ AsksSchemas(MeetsAsRead, k, v)
    BY AsksAre
  <2> HIDE DEF ofObject, ofItems
  <2> QED
    BY <1>1, <2>1, <2>2, <2>3, <2>4, <2>5, <2>6
<1> QED
  BY <1>1, <1>2, <1>3

\* So every schema of them agrees, by the depth of schemas.
LEMMA AllAgree ==
  ASSUME WellFormed
  PROVE  \A s \in Schemas : Agrees(s)
<1> DEFINE T == {s \in Schemas : ~ Agrees(s)}
<1> SUFFICES ASSUME T # {} PROVE FALSE
  OBVIOUS
<1>1. T \in SUBSET JsonValues /\ JsonDepth \in [JsonValues -> Nat]
  BY JsonAssumption
<1>2. PICK s \in T : \A t \in T : JsonDepth[s] <= JsonDepth[t]
  <2> HIDE DEF T
  <2> QED
    BY <1>1, LeastDeep
<1>3. s \in Schemas /\ ~ Agrees(s)
  OBVIOUS
<1>4. AgreeBelow(s)
  <2> SUFFICES ASSUME NEW t \in Schemas, JsonDepth[t] < JsonDepth[s], ~ Agrees(t) PROVE FALSE
    BY DEF AgreeBelow
  <2>1. t \in T
    OBVIOUS
  <2>2. JsonDepth[s] <= JsonDepth[t] /\ JsonDepth[s] \in Nat /\ JsonDepth[t] \in Nat
    BY <1>1, <1>2, <2>1
  <2> QED
    BY <2>2
<1> QED
  BY <1>3, <1>4, CheckAgrees

-----------------------------------------------------------------------------
(* Values read as they are written: what json-schema.org asks of them is what is *)
(* asked of them as read.                                                   *)

\* What a value holds, by its parts.
LEMMA HoldsIs ==
  ASSUME NEW v \in JsonValues
  PROVE  v \in Holds[v] /\ \A part \in Parts(v) : Holds[part] \subseteq Holds[v]
<1> DEFINE R == SUBSET JsonValues
           F == [f \in [JsonValues -> R] |-> [w \in JsonValues |-> HoldsBy(f, w)]]
<1>1. \A w \in JsonValues : \A part \in Parts(w) : part \in JsonValues /\ JsonDepth[part] < JsonDepth[w]
  BY JsonAssumption
<1>2. F \in [[JsonValues -> R] -> [JsonValues -> R]]
  <2>1. ASSUME NEW f \in [JsonValues -> R], NEW w \in JsonValues PROVE HoldsBy(f, w) \in R
    BY <1>1 DEF HoldsBy
  <2> QED
    BY <2>1
<1>3. ReadsLess(JsonValues, R, JsonDepth, F)
  <2>1. ASSUME NEW f \in [JsonValues -> R], NEW g \in [JsonValues -> R], NEW w \in JsonValues,
               \A y \in JsonValues : JsonDepth[y] < JsonDepth[w] => f[y] = g[y]
        PROVE  F[f][w] = F[g][w]
    <3>1. \A part \in Parts(w) : f[part] = g[part]
      BY <1>1, <2>1
    <3>2. HoldsBy(f, w) = HoldsBy(g, w)
      BY <3>1 DEF HoldsBy
    <3> QED
      BY <3>2
  <2> HIDE DEF F
  <2> QED
    BY <2>1 DEF ReadsLess
<1>4. Defined(JsonValues, R, F)
  <2>1. JsonDepth \in [JsonValues -> Nat] /\ R # {}
    BY JsonAssumption
  <2> HIDE DEF F, R
  <2> QED
    BY <1>2, <1>3, <2>1, DefinedByDepth
<1>5. PICK f : f = [w \in JsonValues |-> HoldsBy(f, w)]
  BY <1>4 DEF Defined
<1>6. Holds = [w \in JsonValues |-> HoldsBy(Holds, w)]
  BY <1>5 DEF Holds
<1>7. Holds[v] = {v} \cup UNION {Holds[part] : part \in Parts(v)}
  BY <1>6 DEF HoldsBy
<1> QED
  BY <1>7

\* Of what two values within are, as of those themselves.
LEMMA ExactlyWithin ==
  ASSUME NEW s \in JsonValues, NEW v \in JsonValues, Exactly(s, v)
  PROVE  /\ IsExact(s) /\ IsExact(v)
         /\ \A part \in Parts(s) : IsExact(part) /\ \A w \in {v} \cup Parts(v) : Exactly(part, w)
         /\ \A part \in Parts(s) : \A e \in Parts(part) : \A w \in {v} \cup Parts(v) : Exactly(e, w)
<1>1. \A part \in Parts(s) : part \in JsonValues
  BY JsonAssumption
<1>2. \A w \in Parts(v) : w \in JsonValues
  BY JsonAssumption
<1>3. \A part \in Parts(s) : \A e \in Parts(part) : e \in JsonValues
  BY <1>1, JsonAssumption
<1>4. /\ s \in Holds[s] /\ v \in Holds[v]
      /\ \A part \in Parts(s) : part \in Holds[part] /\ Holds[part] \subseteq Holds[s]
      /\ \A w \in {v} \cup Parts(v) : Holds[w] \subseteq Holds[v]
  BY <1>1, <1>2, HoldsIs
<1>5. \A part \in Parts(s) : \A e \in Parts(part) : Holds[e] \subseteq Holds[s]
  BY <1>1, <1>4, HoldsIs
<1> QED
  BY <1>4, <1>5 DEF Exactly

LEMMA ExactNumber ==
  ASSUME NEW v \in JsonValues, IsNumber(v), IsExact(v)
  PROVE  /\ Double[v.half] = v.half
         /\ Recast[v.half] = v.half <=> v.half % 2 = 0
         /\ v.half % 2 = 0 /\ v.half >= 0 => 2 * Size[v.half] = v.half
<1>1. v.half \in Int /\ v.half \in -(2 * Precise) .. 2 * Precise
  BY JsonIs DEF IsExact, IsJson
<1>2. Double[v.half] = v.half
  BY <1>1, DoubleIs
<1>3. v.half \in Doubles
  BY <1>2 DEF Doubles, Halves, Numbers
<1>4. Precise \in Nat /\ Widest \in Nat /\ Precise < Widest
  BY NumberAssumption
<1>5. -(2 * Widest) <= v.half /\ v.half < 2 * Widest /\ v.half < 4 * Widest
  BY <1>1, <1>4
<1>6. Recast[v.half] = IF v.half >= 0 THEN v.half - (v.half % 2) ELSE v.half + (v.half % 2)
  BY <1>3, <1>5, NumberAssumption
<1>7. 0 <= v.half => Size[v.half] = v.half \div 2
  BY <1>3, <1>5, NumberAssumption
<1>8. v.half % 2 \in {0, 1}
  BY <1>1
<1>9. v.half % 2 = 0 /\ v.half >= 0 => 2 * (v.half \div 2) = v.half
  BY <1>1
<1> QED
  BY <1>1, <1>2, <1>6, <1>7, <1>8, <1>9

LEMMA TypeExact ==
  ASSUME NEW v \in JsonValues, IsExact(v), NEW k
  PROVE  AsksType(FALSE, k, v) <=> AsksType(TRUE, k, v)
<1>1. ASSUME IsNumber(v) PROVE (v.half % 2 = 0) <=> (v.t = "integer" \/ Double[v.half] = Recast[Double[v.half]])
  <2>1. v.t = "integer" => v.half % 2 = 0
    BY JsonIs DEF IsJson
  <2> QED
    BY <1>1, <2>1, ExactNumber
<1>2. \A name : TypeSays(FALSE, name, v) <=> TypeSays(TRUE, name, v)
  BY <1>1 DEF TypeSays, IsWhole, NumberOf
<1> QED
  BY <1>2 DEF AsksType

\* Of a constant that is no number and holds none, both equalities are identity.
LEMMA PlainEquals ==
  ASSUME NEW a \in JsonValues, IsPlain(a), NEW v \in JsonValues
  PROVE  (Equals[<<a, v>>] <=> a = v) /\ (SameValue[<<a, v>>] <=> a = v)
<1>1. Equals[<<a, v>>] <=> a = v
  <2>1. Equals[<<a, v>>] = EqualsBy(Equals, a, v)
    BY EqualsIs
  <2> QED
    BY <2>1 DEF EqualsBy, IsPlain
<1>2. SameValue[<<a, v>>] <=> a = v
  <2>1. SameValue[<<a, v>>] = SameBy(SameValue, a, v)
    BY SameIs
  <2> QED
    BY <2>1 DEF SameBy, IsPlain, IsNumber
<1> QED
  BY <1>1, <1>2

LEMMA EqualsExact ==
  ASSUME NEW s \in JsonValues, IsExact(s), NEW v \in JsonValues, NEW k \in Members(s)
  PROVE  AsksEquals(FALSE, k, v) <=> AsksEquals(TRUE, k, v)
<1>1. k.value \in JsonValues /\ \A option \in Items(k.value) : option \in JsonValues
  BY PartsWithin
<1>2. \A c : (Alike(TRUE, c, v) <=> Equals[<<c, v>>]) /\ (Alike(FALSE, c, v) <=> SameValue[<<c, v>>])
  BY DEF Alike
<1>3. k.key = "const" => (Alike(TRUE, k.value, v) <=> Alike(FALSE, k.value, v))
  BY <1>1, <1>2, PlainEquals DEF IsExact
<1>4. k.key = "enum" => \A option \in Items(k.value) : Alike(TRUE, option, v) <=> Alike(FALSE, option, v)
  BY <1>1, <1>2, PlainEquals DEF IsExact
<1> QED
  BY <1>3, <1>4 DEF AsksEquals

LEMMA BoundsExact ==
  ASSUME NEW s \in JsonValues, IsExact(s), NEW v \in JsonValues, IsExact(v), NEW k \in Members(s),
         KeywordFits(k), IsExact(k.value)
  PROVE  AsksBounds(FALSE, k, v) <=> AsksBounds(TRUE, k, v)
<1>1. k.value \in JsonValues
  BY PartsWithin
<1>2. k.key \in {"minimum", "maximum"} => NumberOf(TRUE, k.value) = NumberOf(FALSE, k.value)
  BY <1>1, ExactNumber DEF KeywordFits, NumberOf
<1>3. k.key \in Counts => CountOf(TRUE, k.value) = CountOf(FALSE, k.value)
  <2> SUFFICES ASSUME k.key \in Counts PROVE CountOf(TRUE, k.value) = CountOf(FALSE, k.value)
    OBVIOUS
  <2>1. IsNumber(k.value) /\ k.value.half % 2 = 0 /\ k.value.half >= 0
    BY DEF KeywordFits, IsExact
  <2>2. Double[k.value.half] = k.value.half /\ 2 * Size[k.value.half] = k.value.half
    BY <1>1, <2>1, ExactNumber
  <2> QED
    BY <2>2 DEF CountOf
<1>4. IsNumber(v) => NumberOf(TRUE, v) = NumberOf(FALSE, v)
  BY ExactNumber DEF NumberOf
<1>5. v.t = "string" => LengthOf(TRUE, v) = LengthOf(FALSE, v)
  BY DEF IsExact, LengthOf
<1> QED
  BY <1>2, <1>3, <1>4, <1>5 DEF AsksBounds, Counts

\* A schema asks the same of a value read either way; so do those less deep.
SameRead(t) == \A w \in JsonValues : Exactly(t, w) => (Meets[<<t, w>>] <=> MeetsAsRead[<<t, w>>])

LEMMA AsksExact ==
  ASSUME WellFormed, NEW s \in Schemas, NEW v \in JsonValues, Exactly(s, v), NEW k \in Members(s),
         \A t \in Schemas : JsonDepth[t] < JsonDepth[s] => SameRead(t)
  PROVE  Asks(Meets, FALSE, s, k, v) <=> Asks(MeetsAsRead, TRUE, s, k, v)
<1>1. s \in JsonValues /\ k.value \in Parts(s)
  BY JsonAssumption DEF Parts
<1>2. k.value \in JsonValues /\ JsonDepth[k.value] < JsonDepth[s] /\ JsonDepth[s] \in Nat /\ JsonDepth[k.value] \in Nat
  BY <1>1, PartsWithin, JsonIs
<1>3. /\ IsExact(s) /\ IsExact(v) /\ IsExact(k.value)
      /\ \A w \in {v} \cup Parts(v) : Exactly(k.value, w)
      /\ \A e \in Parts(k.value) : \A w \in {v} \cup Parts(v) : Exactly(e, w)
  BY <1>1, ExactlyWithin
<1>4. SchemasOf(k) \subseteq Schemas /\ KeywordFits(k)
  BY FitSchemas
<1>5. SchemasOf(k) \subseteq {k.value} \cup Parts(k.value)
  BY DEF SchemasOf, Parts
<1>6. \A e \in Parts(k.value) : JsonDepth[e] < JsonDepth[s]
  <2> TAKE e \in Parts(k.value)
  <2>1. e \in JsonValues /\ JsonDepth[e] < JsonDepth[k.value]
    BY <1>2, JsonAssumption
  <2> QED
    BY <1>2, <2>1, JsonIs
<1>7. \A w \in {v} \cup Parts(v) : w \in JsonValues
  BY JsonAssumption
<1>8. \A t \in SchemasOf(k) : \A w \in {v} \cup Parts(v) : Meets[<<t, w>>] <=> MeetsAsRead[<<t, w>>]
  <2> TAKE t \in SchemasOf(k)
  <2>1. SameRead(t)
    BY <1>2, <1>4, <1>5, <1>6
  <2> QED
    BY <1>3, <1>5, <1>7, <2>1 DEF SameRead
<1>9. /\ \A item \in Items(v) : item \in {v} \cup Parts(v)
      /\ \A m \in Members(v) : m.value \in {v} \cup Parts(v)
  BY DEF Parts
<1>10. AsksType(FALSE, k, v) <=> AsksType(TRUE, k, v)
  BY <1>3, TypeExact
<1>11. AsksEquals(FALSE, k, v) <=> AsksEquals(TRUE, k, v)
  BY <1>1, <1>3, EqualsExact
<1>12. AsksBounds(FALSE, k, v) <=> AsksBounds(TRUE, k, v)
  BY <1>1, <1>3, <1>4, BoundsExact
<1>13. AsksObject(Meets, s, k, v) <=> AsksObject(MeetsAsRead, s, k, v)
  <2>1. k.key = "properties" => \A p \in Members(k.value), m \in Members(v) :
          Meets[<<p.value, m.value>>] <=> MeetsAsRead[<<p.value, m.value>>]
    BY <1>8, <1>9 DEF SchemasOf
  <2>2. k.key = "additionalProperties" => \A m \in Members(v) :
          Meets[<<k.value, m.value>>] <=> MeetsAsRead[<<k.value, m.value>>]
    BY <1>8, <1>9 DEF SchemasOf
  <2> QED
    BY <2>1, <2>2 DEF AsksObject
<1>14. AsksItems(Meets, k, v) <=> AsksItems(MeetsAsRead, k, v)
  <2>1. k.key = "items" => \A item \in Items(v) : Meets[<<k.value, item>>] <=> MeetsAsRead[<<k.value, item>>]
    BY <1>8, <1>9 DEF SchemasOf
  <2> QED
    BY <2>1 DEF AsksItems
<1>15. AsksSchemas(Meets, k, v) <=> AsksSchemas(MeetsAsRead, k, v)
  <2>1. k.key \in {"allOf", "anyOf", "oneOf"} => \A e \in Items(k.value) : Meets[<<e, v>>] <=> MeetsAsRead[<<e, v>>]
    BY <1>8 DEF SchemasOf
  <2>2. k.key = "not" => (Meets[<<k.value, v>>] <=> MeetsAsRead[<<k.value, v>>])
    BY <1>8 DEF SchemasOf
  <2>3. k.key = "oneOf" /\ k.value.t = "array" =>
          {i \in DOMAIN k.value.items : Meets[<<k.value.items[i], v>>]}
            = {i \in DOMAIN k.value.items : MeetsAsRead[<<k.value.items[i], v>>]}
    <3> SUFFICES ASSUME k.key = "oneOf", k.value.t = "array"
                 PROVE  \A i \in DOMAIN k.value.items :
                          Meets[<<k.value.items[i], v>>] <=> MeetsAsRead[<<k.value.items[i], v>>]
      OBVIOUS
    <3>1. \A i \in DOMAIN k.value.items : k.value.items[i] \in Items(k.value)
      BY <1>2, ItemsAre
    <3> QED
      BY <2>1, <3>1
  <2>4. k.key = "oneOf" /\ k.value.t = "array" =>
          Cardinality({i \in DOMAIN k.value.items : Meets[<<k.value.items[i], v>>]})
            = Cardinality({i \in DOMAIN k.value.items : MeetsAsRead[<<k.value.items[i], v>>]})
    BY <2>3
  <2> QED
    BY <2>1, <2>2, <2>4 DEF AsksSchemas
<1> QED
  BY <1>10, <1>11, <1>12, <1>13, <1>14, <1>15, AsksAre

LEMMA SchemaExact ==
  ASSUME WellFormed, NEW s \in Schemas,
         \A t \in Schemas : JsonDepth[t] < JsonDepth[s] => SameRead(t)
  PROVE  SameRead(s)
<1> SUFFICES ASSUME NEW v \in JsonValues, Exactly(s, v) PROVE Meets[<<s, v>>] <=> MeetsAsRead[<<s, v>>]
  BY DEF SameRead
<1>1. s \in JsonValues
  BY JsonAssumption
<1>2. \A k \in Members(s) : Asks(Meets, FALSE, s, k, v) <=> Asks(MeetsAsRead, TRUE, s, k, v)
  BY AsksExact
<1>3. MeetsBy(Meets, FALSE, s, v) <=> MeetsBy(MeetsAsRead, TRUE, s, v)
  BY <1>2 DEF MeetsBy
<1> QED
  BY <1>1, <1>3, MeetsIs, MeetsAsReadIs

LEMMA AllSame ==
  ASSUME WellFormed
  PROVE  \A s \in Schemas : SameRead(s)
<1> DEFINE T == {s \in Schemas : ~ SameRead(s)}
<1> SUFFICES ASSUME T # {} PROVE FALSE
  OBVIOUS
<1>1. T \in SUBSET JsonValues /\ JsonDepth \in [JsonValues -> Nat]
  BY JsonAssumption
<1>2. PICK s \in T : \A t \in T : JsonDepth[s] <= JsonDepth[t]
  <2> HIDE DEF T
  <2> QED
    BY <1>1, LeastDeep
<1>3. s \in Schemas /\ ~ SameRead(s)
  OBVIOUS
<1>4. ASSUME NEW t \in Schemas, JsonDepth[t] < JsonDepth[s] PROVE SameRead(t)
  <2> SUFFICES ASSUME ~ SameRead(t) PROVE FALSE
    OBVIOUS
  <2>1. t \in T
    OBVIOUS
  <2>2. JsonDepth[s] <= JsonDepth[t] /\ JsonDepth[s] \in Nat /\ JsonDepth[t] \in Nat
    BY <1>1, <1>2, <2>1
  <2> QED
    BY <1>4, <2>2
<1> QED
  BY <1>3, <1>4, SchemaExact

-----------------------------------------------------------------------------
(* The violation named: the check that found it, and where that was called.    *)

\* A check of the schema's own keywords blames the value itself.
LEMMA OwnBlame ==
  ASSUME NEW condition, NEW keyword \in Keywords \ {"ok"}
  PROVE  RefuseIf(condition, keyword) = Ok \/ RefuseIf(condition, keyword).at = <<>>
BY ViolationIs DEF RefuseIf

\* Where a violation comes from: the value itself, or a check called on a part of
\* the schema.
Blamed(found, s, v) ==
  \/ found.at = <<>>
  \/ \E m \in Members(v) :
       /\ SchemaOfKey(s, m.key) # None
       /\ found = Within(<<"key", m.key>>, Check[<<SchemaOfKey(s, m.key), m.value>>])
  \/ /\ v.t = "array" /\ Get(s, "items") # None
     /\ \E i \in DOMAIN v.items : found = Within(<<"item", i - 1>>, Check[<<Get(s, "items"), v.items[i]>>])
  \/ \E entry \in Items(Get(s, "allOf")) : found = Check[<<entry, v>>]

LEMMA ElseBlames ==
  ASSUME NEW a, NEW b, NEW s, NEW v, a = Ok \/ Blamed(a, s, v), b = Ok \/ Blamed(b, s, v)
  PROVE  (a ?? b) = Ok \/ Blamed(a ?? b, s, v)
BY DEF ??

LEMMA OwnBlamed ==
  ASSUME NEW condition, NEW keyword \in Keywords \ {"ok"}, NEW s, NEW v
  PROVE  RefuseIf(condition, keyword) = Ok \/ Blamed(RefuseIf(condition, keyword), s, v)
BY OwnBlame DEF Blamed

LEMMA ObjectBlames ==
  ASSUME NEW s \in JsonValues, NEW v \in JsonValues, v.t = "object"
  PROVE  CheckObject(Check, s, v) = Ok \/ Blamed(CheckObject(Check, s, v), s, v)
<1> DEFINE checks == [i \in DOMAIN v.members |-> CheckMember(Check, s, v.members[i])]
           missing == \E name \in Items(Get(s, "required")) : name.t = "string" /\ Get(v, name.s) = None
<1>1. ASSUME NEW m \in Members(v)
      PROVE  CheckMember(Check, s, m) = Ok \/ Blamed(CheckMember(Check, s, m), s, v)
  <2> DEFINE property == Get(Get(s, "properties"), m.key)
             additional == Get(s, "additionalProperties")
  <2>1. CASE property # None
    <3>1. SchemaOfKey(s, m.key) = property
      BY <2>1 DEF SchemaOfKey
    <3>2. CheckMember(Check, s, m) = Within(<<"key", m.key>>, Check[<<property, m.value>>])
      BY <2>1 DEF CheckMember
    <3> QED
      BY <2>1, <3>1, <3>2 DEF Blamed
  <2>2. CASE property = None /\ additional.t = "object"
    <3>1. SchemaOfKey(s, m.key) = additional
      BY <2>2 DEF SchemaOfKey
    <3>2. CheckMember(Check, s, m) = Within(<<"key", m.key>>, Check[<<additional, m.value>>])
      BY <2>2 DEF CheckMember
    <3>3. additional # None
      BY <2>2, GetOfNone
    <3> QED
      BY <2>2, <3>1, <3>2, <3>3 DEF Blamed
  <2>3. CASE property = None /\ additional.t # "object"
    <3> DEFINE closed == additional = BoolV(FALSE)
    <3>1. CheckMember(Check, s, m) = RefuseIf(closed, "additionalProperties")
      BY <2>3 DEF CheckMember
    <3> HIDE DEF closed
    <3> QED
      BY <3>1, OwnBlamed DEF Keywords
  <2> QED
    BY <2>1, <2>2, <2>3
<1>2. First(checks) = Ok \/ Blamed(First(checks), s, v)
  <2>1. /\ Len(v.members) \in Nat /\ DOMAIN checks = 1 .. Len(v.members)
        /\ \A i \in DOMAIN v.members : v.members[i] \in Members(v)
    BY MembersAre
  <2>2. \A i \in DOMAIN checks : checks[i] = Ok \/ Blamed(checks[i], s, v)
    BY <1>1, <2>1
  <2> HIDE DEF checks
  <2> QED
    BY <2>1, <2>2, FirstIs
<1>3. CheckObject(Check, s, v) = (RefuseIf(missing, "required") ?? First(checks))
  BY DEF CheckObject
<1>4. RefuseIf(missing, "required") = Ok \/ Blamed(RefuseIf(missing, "required"), s, v)
  <2> HIDE DEF missing
  <2> QED
    BY OwnBlamed DEF Keywords
<1> HIDE DEF checks, missing
<1> QED
  BY <1>2, <1>3, <1>4, ElseBlames

LEMMA ItemsBlame ==
  ASSUME NEW s \in JsonValues, NEW v \in JsonValues, v.t = "array"
  PROVE  CheckItems(Check, s, v) = Ok \/ Blamed(CheckItems(Check, s, v), s, v)
<1> DEFINE items == Get(s, "items")
           checks == [i \in DOMAIN v.items |-> Within(<<"item", i - 1>>, Check[<<items, v.items[i]>>])]
<1>1. CASE items.t # "object"
  BY <1>1 DEF CheckItems
<1>2. CASE items.t = "object"
  <2>1. items # None
    BY <1>2, GetOfNone
  <2>2. Len(v.items) \in Nat /\ DOMAIN checks = 1 .. Len(v.items)
    BY ItemsAre
  <2>3. \A i \in DOMAIN checks : Blamed(checks[i], s, v)
    BY <2>1 DEF Blamed
  <2>4. CheckItems(Check, s, v) = First(checks)
    BY <1>2 DEF CheckItems
  <2> HIDE DEF checks
  <2> QED
    BY <2>2, <2>3, <2>4, FirstIs
<1> QED
  BY <1>1, <1>2

LEMMA SchemasBlame ==
  ASSUME NEW s \in JsonValues, NEW v \in JsonValues
  PROVE  CheckCombinators(Check, s, v) = Ok \/ Blamed(CheckCombinators(Check, s, v), s, v)
<1> DEFINE all == Get(s, "allOf")
           any == Get(s, "anyOf")
           one == Get(s, "oneOf")
           negated == Get(s, "not")
           checks == [i \in DOMAIN all.items |-> Check[<<all.items[i], v>>]]
           ofAll == IF all.t = "array" THEN First(checks) ELSE Ok
           ofAny == any.t = "array" /\ Matches(Check, any, v) = {}
           ofOne == one.t = "array" /\ Cardinality(Matches(Check, one, v)) # 1
           ofNot == negated.t = "object" /\ Check[<<negated, v>>] = Ok
<1>1. CheckCombinators(Check, s, v)
        = (ofAll ?? RefuseIf(ofAny, "anyOf") ?? RefuseIf(ofOne, "oneOf") ?? RefuseIf(ofNot, "not"))
  BY DEF CheckCombinators
<1>2. ofAll = Ok \/ Blamed(ofAll, s, v)
  <2>1. CASE all.t # "array"
    BY <2>1
  <2>2. CASE all.t = "array"
    <3>1. all \in JsonValues
      BY <2>2, GetOfNone, GetIs
    <3>2. /\ Len(all.items) \in Nat /\ DOMAIN all.items = 1 .. Len(all.items)
          /\ \A i \in DOMAIN all.items : all.items[i] \in Items(all)
      <4> HIDE DEF all
      <4> QED
        BY <2>2, <3>1, ItemsAre
    <3>3. DOMAIN checks = DOMAIN all.items /\ \A i \in DOMAIN checks : Blamed(checks[i], s, v)
      BY <3>2 DEF Blamed
    <3>4. ofAll = First(checks)
      BY <2>2
    <3> HIDE DEF checks, ofAll
    <3> QED
      BY <3>2, <3>3, <3>4, FirstIs
  <2> QED
    BY <2>1, <2>2
<1> HIDE DEF ofAll, ofAny, ofOne, ofNot
<1>3. /\ RefuseIf(ofAny, "anyOf") = Ok \/ Blamed(RefuseIf(ofAny, "anyOf"), s, v)
      /\ RefuseIf(ofOne, "oneOf") = Ok \/ Blamed(RefuseIf(ofOne, "oneOf"), s, v)
      /\ RefuseIf(ofNot, "not") = Ok \/ Blamed(RefuseIf(ofNot, "not"), s, v)
  BY OwnBlamed DEF Keywords
<1> DEFINE toAny == ofAll ?? RefuseIf(ofAny, "anyOf")
           toOne == toAny ?? RefuseIf(ofOne, "oneOf")
<1>4. toAny = Ok \/ Blamed(toAny, s, v)
  BY <1>2, <1>3, ElseBlames
<1>5. CheckCombinators(Check, s, v) = (toOne ?? RefuseIf(ofNot, "not"))
  BY <1>1
<1> HIDE DEF toAny
<1>6. toOne = Ok \/ Blamed(toOne, s, v)
  BY <1>3, <1>4, ElseBlames
<1> HIDE DEF toOne
<1> QED
  BY <1>3, <1>5, <1>6, ElseBlames

LEMMA CheckBlames ==
  ASSUME NEW s \in JsonValues, NEW v \in JsonValues, Check[<<s, v>>] # Ok
  PROVE  Blamed(Check[<<s, v>>], s, v)
<1> DEFINE ofObject == IF v.t = "object" THEN CheckObject(Check, s, v) ELSE Ok
           ofItems == IF v.t = "array" THEN CheckItems(Check, s, v) ELSE Ok
<1>1. Check[<<s, v>>] = CheckBy(Check, s, v)
  BY CheckIs
<1>2. CASE s.t = "boolean"
  <2> DEFINE closed == s = BoolV(FALSE)
  <2>1. CheckBy(Check, s, v) = RefuseIf(closed, "false")
    BY <1>2 DEF CheckBy
  <2> HIDE DEF closed
  <2> QED
    BY <1>1, <2>1, OwnBlamed DEF Keywords
<1>3. CASE s.t \notin {"boolean", "object"}
  <2>1. CheckBy(Check, s, v) = Violation("schema")
    BY <1>3 DEF CheckBy
  <2>2. Violation("schema").at = <<>>
    BY ViolationIs DEF Keywords
  <2> QED
    BY <1>1, <2>1, <2>2 DEF Blamed
<1>4. CASE s.t = "object"
  <2>1. CheckBy(Check, s, v) =
          (CheckType(Get(s, "type"), v) ?? CheckEquals(s, v) ?? CheckBounds(s, v)
             ?? ofObject ?? ofItems ?? CheckCombinators(Check, s, v))
    BY <1>4 DEF CheckBy
  <2>2. CheckType(Get(s, "type"), v) = Ok \/ Blamed(CheckType(Get(s, "type"), v), s, v)
    BY OwnBlamed DEF CheckType, Keywords
  <2>3. CheckEquals(s, v) = Ok \/ Blamed(CheckEquals(s, v), s, v)
    BY OwnBlamed, ElseBlames DEF CheckEquals, Keywords
  <2>4. CheckBounds(s, v) = Ok \/ Blamed(CheckBounds(s, v), s, v)
    BY OwnBlamed, ElseBlames DEF CheckBounds, Keywords
  <2>5. ofObject = Ok \/ Blamed(ofObject, s, v)
    BY ObjectBlames
  <2>6. ofItems = Ok \/ Blamed(ofItems, s, v)
    BY ItemsBlame
  <2>7. CheckCombinators(Check, s, v) = Ok \/ Blamed(CheckCombinators(Check, s, v), s, v)
    BY SchemasBlame
  <2> DEFINE toEquals == CheckType(Get(s, "type"), v) ?? CheckEquals(s, v)
             toBounds == toEquals ?? CheckBounds(s, v)
             toObject == toBounds ?? ofObject
             toItems == toObject ?? ofItems
  <2>8. CheckBy(Check, s, v) = (toItems ?? CheckCombinators(Check, s, v))
    BY <2>1
  <2> HIDE DEF ofObject, ofItems
  <2>9. toEquals = Ok \/ Blamed(toEquals, s, v)
    BY <2>2, <2>3, ElseBlames
  <2> HIDE DEF toEquals
  <2>10. toBounds = Ok \/ Blamed(toBounds, s, v)
    BY <2>4, <2>9, ElseBlames
  <2> HIDE DEF toBounds
  <2>11. toObject = Ok \/ Blamed(toObject, s, v)
    BY <2>5, <2>10, ElseBlames
  <2> HIDE DEF toObject
  <2>12. toItems = Ok \/ Blamed(toItems, s, v)
    BY <2>6, <2>11, ElseBlames
  <2> HIDE DEF toItems
  <2>13. CheckBy(Check, s, v) = Ok \/ Blamed(CheckBy(Check, s, v), s, v)
    BY <2>7, <2>8, <2>12, ElseBlames
  <2> QED
    BY <1>1, <2>13
<1> QED
  BY <1>2, <1>3, <1>4

\* On the path of a violation lies a value that a schema of that path refuses.
LeadTells(s, v) ==
  Check[<<s, v>>] # Ok =>
    \E lead \in Leads[<<s, v>>] :
      /\ lead.at = Check[<<s, v>>].at
      /\ lead.schema \in Schemas /\ lead.value \in JsonValues
      /\ Check[<<lead.schema, lead.value>>] = Violation(Check[<<s, v>>].by)
      /\ Check[<<lead.schema, lead.value>>] # Ok

LEMMA BeneathIs ==
  ASSUME NEW step, NEW leads, NEW lead \in leads
  PROVE  \E beneath \in Beneath(step, leads) :
           beneath.at = <<step>> \o lead.at /\ beneath.schema = lead.schema /\ beneath.value = lead.value
<1> DEFINE beneath == [at |-> <<step>> \o lead.at, schema |-> lead.schema, value |-> lead.value]
<1>1. beneath \in Beneath(step, leads)
  BY DEF Beneath
<1>2. beneath.at = <<step>> \o lead.at /\ beneath.schema = lead.schema /\ beneath.value = lead.value
  OBVIOUS
<1> QED
  BY <1>1, <1>2

\* A lead of a part, beneath it, is one of the whole's.
LEMMA WithinTells ==
  ASSUME NEW step \in Steps, NEW s \in JsonValues, NEW v \in JsonValues,
         NEW t \in JsonValues, NEW w \in JsonValues, LeadTells(t, w),
         Check[<<s, v>>] # Ok, Check[<<s, v>>] = Within(step, Check[<<t, w>>]),
         Beneath(step, Leads[<<t, w>>]) \subseteq Leads[<<s, v>>]
  PROVE  LeadTells(s, v)
<1> DEFINE found == Check[<<t, w>>]
<1>1. found \in Verdicts
  BY CheckIs
<1>2. found # Ok /\ Check[<<s, v>>].at = <<step>> \o found.at /\ Check[<<s, v>>].by = found.by
  <2>1. Check[<<s, v>>] # Ok /\ Check[<<s, v>>] = Within(step, found)
    OBVIOUS
  <2> HIDE DEF found
  <2> QED
    BY <1>1, <2>1, WithinIs
<1>3. PICK lead \in Leads[<<t, w>>] :
        /\ lead.at = found.at
        /\ lead.schema \in Schemas /\ lead.value \in JsonValues
        /\ Check[<<lead.schema, lead.value>>] = Violation(found.by)
        /\ Check[<<lead.schema, lead.value>>] # Ok
  BY <1>2 DEF LeadTells
<1>4. PICK beneath \in Beneath(step, Leads[<<t, w>>]) :
        beneath.at = <<step>> \o lead.at /\ beneath.schema = lead.schema /\ beneath.value = lead.value
  BY BeneathIs
<1> HIDE DEF found
<1> QED
  BY <1>2, <1>3, <1>4 DEF LeadTells

LEMMA CheckTells ==
  ASSUME WellFormed, NEW s \in Schemas, NEW v \in JsonValues,
         \A t \in Schemas : JsonDepth[t] < JsonDepth[s] => \A w \in JsonValues : LeadTells(t, w)
  PROVE  LeadTells(s, v)
<1> SUFFICES ASSUME Check[<<s, v>>] # Ok PROVE LeadTells(s, v)
  BY DEF LeadTells
<1> DEFINE found == Check[<<s, v>>]
<1>1. s \in JsonValues /\ found \in Verdicts /\ Blamed(found, s, v)
  BY JsonAssumption, CheckIs, CheckBlames
<1>2. Leads[<<s, v>>] = LeadsBy(Leads, s, v)
  BY <1>1, LeadsIs
<1>3. AgreeBelow(s)
  BY AllAgree DEF AgreeBelow
<1>4. CASE found.at = <<>>
  <2> DEFINE here == [at |-> <<>>, schema |-> s, value |-> v]
  <2>1. here \in Leads[<<s, v>>] /\ here.at = <<>> /\ here.schema = s /\ here.value = v
    BY <1>2 DEF LeadsBy
  <2>2. found = Violation(found.by)
    <3> HIDE DEF found
    <3> QED
      BY <1>1, <1>4 DEF Verdicts, Violation
  <2> HIDE DEF here
  <2> QED
    BY <1>4, <2>1, <2>2 DEF LeadTells
<1>5. ASSUME NEW m \in Members(v), SchemaOfKey(s, m.key) # None,
             found = Within(<<"key", m.key>>, Check[<<SchemaOfKey(s, m.key), m.value>>])
      PROVE  LeadTells(s, v)
  <2> DEFINE t == SchemaOfKey(s, m.key)
  <2>1. m.value \in JsonValues /\ <<"key", m.key>> \in Steps
    <3>1. v.t = "object"
      BY DEF Members
    <3>2. m.key \in STRING
      BY <3>1, MembersAre
    <3> QED
      BY <3>2, PartsWithin DEF Steps
  <2>2. t \in Schemas /\ JsonDepth[t] < JsonDepth[s]
    BY <1>3, <1>5, HeldSchemas DEF SchemaOfKey
  <2>3. t \in JsonValues /\ LeadTells(t, m.value)
    BY <2>1, <2>2, JsonAssumption
  <2>4. Beneath(<<"key", m.key>>, Leads[<<t, m.value>>]) \subseteq Leads[<<s, v>>]
    BY <1>2, <1>5 DEF LeadsBy, LedByKeys
  <2> HIDE DEF t
  <2> QED
    BY <1>1, <1>5, <2>1, <2>3, <2>4, WithinTells DEF t
<1>6. ASSUME v.t = "array", Get(s, "items") # None, NEW i \in DOMAIN v.items,
             found = Within(<<"item", i - 1>>, Check[<<Get(s, "items"), v.items[i]>>])
      PROVE  LeadTells(s, v)
  <2> DEFINE t == Get(s, "items")
             w == v.items[i]
  <2>1. w \in JsonValues /\ i - 1 \in Nat
    BY <1>6, ItemsAre, PartsWithin
  <2>2. <<"item", i - 1>> \in Steps
    BY <2>1 DEF Steps
  <2>3. t \in Schemas /\ JsonDepth[t] < JsonDepth[s]
    BY <1>3, <1>6, HeldSchemas
  <2>4. t \in JsonValues /\ LeadTells(t, w)
    BY <2>1, <2>3, JsonAssumption
  <2>5. Beneath(<<"item", i - 1>>, Leads[<<t, w>>]) \subseteq Leads[<<s, v>>]
    BY <1>2, <1>6 DEF LeadsBy, LedByItems
  <2> HIDE DEF t, w
  <2> QED
    BY <1>1, <1>6, <2>1, <2>2, <2>4, <2>5, WithinTells DEF t, w
<1>7. ASSUME NEW t \in Items(Get(s, "allOf")), found = Check[<<t, v>>]
      PROVE  LeadTells(s, v)
  <2>1. t \in Schemas /\ JsonDepth[t] < JsonDepth[s]
    BY <1>3, HeldSchemas
  <2>2. LeadTells(t, v)
    BY <2>1
  <2>3. Leads[<<t, v>>] \subseteq Leads[<<s, v>>]
    BY <1>2 DEF LeadsBy, LedByAll
  <2> QED
    BY <1>7, <2>2, <2>3 DEF LeadTells
<1> QED
  BY <1>1, <1>4, <1>5, <1>6, <1>7 DEF Blamed

LEMMA AllTell ==
  ASSUME WellFormed
  PROVE  \A s \in Schemas, v \in JsonValues : LeadTells(s, v)
<1> DEFINE Tells(s) == \A v \in JsonValues : LeadTells(s, v)
           T == {s \in Schemas : ~ Tells(s)}
<1> SUFFICES ASSUME T # {} PROVE FALSE
  OBVIOUS
<1>1. T \in SUBSET JsonValues /\ JsonDepth \in [JsonValues -> Nat]
  BY JsonAssumption
<1>2. PICK s \in T : \A t \in T : JsonDepth[s] <= JsonDepth[t]
  <2> HIDE DEF T
  <2> QED
    BY <1>1, LeastDeep
<1>3. ASSUME NEW t \in Schemas, JsonDepth[t] < JsonDepth[s], ~ Tells(t) PROVE FALSE
  <2>1. t \in T
    BY <1>3
  <2>2. JsonDepth[s] <= JsonDepth[t] /\ JsonDepth[s] \in Nat /\ JsonDepth[t] \in Nat
    BY <1>1, <1>2, <2>1
  <2> QED
    BY <1>3, <2>2
<1>4. \A t \in Schemas : JsonDepth[t] < JsonDepth[s] => \A w \in JsonValues : LeadTells(t, w)
  BY <1>3
<1> QED
  BY <1>4, CheckTells

-----------------------------------------------------------------------------
(* A call answers with the check of its schema and its document.              *)

SchemaInv == SchemaTypeOK /\ (Asked => verdict = Check[<<schema, document>>])

LEMMA SchemaInvariant == SchemaSpec => []SchemaInv
<1>1. SchemaInit => SchemaInv
  BY DEF SchemaInit, SchemaInv, SchemaTypeOK, Asked
<1>2. SchemaInv /\ [SchemaNext]_schemaVars => SchemaInv'
  <2> SUFFICES ASSUME SchemaInv, [SchemaNext]_schemaVars PROVE SchemaInv'
    OBVIOUS
  <2>1. CASE JsonSchemaCheck
    <3>1. schema \in JsonValues /\ document \in JsonValues
      BY JsonAssumption DEF SchemaInv, SchemaTypeOK
    <3>2. Check[<<schema, document>>] \in Verdicts
      BY <3>1, CheckIs
    <3> QED
      BY <2>1, <3>2 DEF SchemaInv, SchemaTypeOK, JsonSchemaCheck, Asked
  <2>2. CASE UNCHANGED schemaVars
    BY <2>2 DEF schemaVars, SchemaInv, SchemaTypeOK, Asked
  <2> QED
    BY <2>1, <2>2 DEF SchemaNext
<1> QED
  BY <1>1, <1>2, PTL DEF SchemaSpec

\* json_schema_check admits a document exactly when it meets each keyword at every
\* depth, its numbers and lengths as they are read: no early return, no order of the
\* checks and no nesting loses one, whatever the schemas and the documents.  Where
\* the numbers are doubles, the lengths bytes and the constants no numbers, that is
\* what json-schema.org asks.
THEOREM ValidatorAdmits == ASSUME WellFormed PROVE SchemaSpec => []AdmitsWhatMeets
<1>1. SchemaInv => AdmitsWhatMeets
  <2> SUFFICES ASSUME SchemaInv, Asked
               PROVE  /\ verdict = Ok <=> MeetsAsRead[<<schema, document>>]
                      /\ Exactly(schema, document) => (verdict = Ok <=> Meets[<<schema, document>>])
    BY DEF AdmitsWhatMeets
  <2>1. schema \in Schemas /\ document \in JsonValues /\ verdict = Check[<<schema, document>>]
    BY JsonAssumption DEF SchemaInv, SchemaTypeOK
  <2>2. Agrees(schema) /\ SameRead(schema)
    BY <2>1, AllAgree, AllSame
  <2> QED
    BY <2>1, <2>2 DEF Agrees, SameRead
<1> QED
  BY <1>1, SchemaInvariant, PTL

\* The violation it names is one: at that place lies a value which a schema of the
\* way there refuses by that keyword, and which does not meet it.
THEOREM ValidatorBlames == ASSUME WellFormed PROVE SchemaSpec => []BlameTells
<1>1. SchemaInv => BlameTells
  <2> SUFFICES ASSUME SchemaInv, Asked, verdict # Ok
               PROVE  \E lead \in Leads[<<schema, document>>] :
                        /\ lead.at = verdict.at
                        /\ ~ MeetsAsRead[<<lead.schema, lead.value>>]
                        /\ Check[<<lead.schema, lead.value>>] = Violation(verdict.by)
    BY DEF BlameTells
  <2>1. schema \in Schemas /\ schema \in JsonValues /\ document \in JsonValues /\ verdict = Check[<<schema, document>>]
    BY JsonAssumption DEF SchemaInv, SchemaTypeOK
  <2>2. verdict \in Verdicts /\ LeadTells(schema, document)
    BY <2>1, AllTell, CheckIs
  <2>3. PICK lead \in Leads[<<schema, document>>] :
          /\ lead.at = verdict.at
          /\ lead.schema \in Schemas /\ lead.value \in JsonValues
          /\ Check[<<lead.schema, lead.value>>] = Violation(verdict.by)
          /\ Check[<<lead.schema, lead.value>>] # Ok
    BY <2>1, <2>2 DEF LeadTells
  <2>4. Agrees(lead.schema)
    BY <2>3, AllAgree
  <2> QED
    BY <2>3, <2>4 DEF Agrees
<1> QED
  BY <1>1, SchemaInvariant, PTL

\* The value of a key of an admitted object is admitted by that key's property.
LEMMA PropertyAdmits ==
  ASSUME NEW s \in JsonValues, NEW v \in JsonValues, Check[<<s, v>>] = Ok,
         NEW key, Get(v, key) # None, Get(Get(s, "properties"), key) # None
  PROVE  Check[<<Get(Get(s, "properties"), key), Get(v, key)>>] = Ok
<1> DEFINE property == Get(Get(s, "properties"), key)
           checks == [i \in DOMAIN v.members |-> CheckMember(Check, s, v.members[i])]
<1>1. s.t = "object" /\ v.t = "object"
  BY GetOfOther, GetOfNone
<1>2. PICK m \in Members(v) : m.key = key /\ Get(v, key) = m.value
  BY GetIs
<1>3. property \in JsonValues /\ m.value \in JsonValues /\ <<"key", key>> \in Steps
  BY <1>1, <1>2, GetTwice, PartsWithin, MembersAre DEF Steps
<1>4. CheckObject(Check, s, v) = Ok
  <2> DEFINE ofObject == IF v.t = "object" THEN CheckObject(Check, s, v) ELSE Ok
             ofItems == IF v.t = "array" THEN CheckItems(Check, s, v) ELSE Ok
  <2>1. CheckBy(Check, s, v) =
          (CheckType(Get(s, "type"), v) ?? CheckEquals(s, v) ?? CheckBounds(s, v)
             ?? ofObject ?? ofItems ?? CheckCombinators(Check, s, v))
    BY <1>1 DEF CheckBy
  <2>2. ofObject = CheckObject(Check, s, v)
    BY <1>1
  <2>3. CheckBy(Check, s, v) = Ok
    BY CheckIs
  <2> HIDE DEF ofObject, ofItems
  <2> QED
    BY <2>1, <2>2, <2>3, ElseIs
<1>5. First(checks) = Ok
  <2> DEFINE missing == \E name \in Items(Get(s, "required")) : name.t = "string" /\ Get(v, name.s) = None
  <2>1. CheckObject(Check, s, v) = (RefuseIf(missing, "required") ?? First(checks))
    BY DEF CheckObject
  <2> HIDE DEF missing, checks
  <2> QED
    BY <1>4, <2>1, ElseIs
<1>6. CheckMember(Check, s, m) = Ok
  <2>1. Len(v.members) \in Nat /\ DOMAIN checks = 1 .. Len(v.members)
    BY <1>1, MembersAre
  <2>2. \A i \in DOMAIN checks : checks[i] = Ok
    <3> HIDE DEF checks
    <3> QED
      BY <1>5, <2>1, FirstIs
  <2>3. \E i \in DOMAIN v.members : m = v.members[i]
    BY <1>1, MembersAre
  <2> QED
    BY <2>2, <2>3
<1>7. Within(<<"key", key>>, Check[<<property, m.value>>]) = Ok
  BY <1>2, <1>6 DEF CheckMember
<1>8. Check[<<property, m.value>>] \in Verdicts
  BY <1>3, CheckIs
<1> HIDE DEF property
<1>9. Check[<<property, m.value>>] = Ok
  <2> DEFINE found == Check[<<property, m.value>>]
  <2>1. found \in Verdicts /\ Within(<<"key", key>>, found) = Ok
    BY <1>7, <1>8
  <2>2. found = Ok
    <3> HIDE DEF found
    <3> QED
      BY <1>3, <2>1, WithinIs
  <2> QED
    BY <2>2
<1> QED
  BY <1>2, <1>9 DEF property

\* Of an enum that admits a text, that text is an option.
LEMMA EnumAdmits ==
  ASSUME NEW s \in JsonValues, NEW v \in JsonValues, Check[<<s, v>>] = Ok,
         Get(s, "enum").t = "array", v.t = "string"
  PROVE  \E option \in Items(Get(s, "enum")) : option = v
<1> DEFINE options == Get(s, "enum")
           unequal == options.t = "array" /\ \A option \in Items(options) : ~ Equals[<<option, v>>]
           differs == Get(s, "const") # None /\ ~ Equals[<<Get(s, "const"), v>>]
<1>1. s.t = "object"
  BY GetOfOther, GetOfNone
<1>2. CheckEquals(s, v) = Ok
  <2> DEFINE ofObject == IF v.t = "object" THEN CheckObject(Check, s, v) ELSE Ok
             ofItems == IF v.t = "array" THEN CheckItems(Check, s, v) ELSE Ok
  <2>1. CheckBy(Check, s, v) =
          (CheckType(Get(s, "type"), v) ?? CheckEquals(s, v) ?? CheckBounds(s, v)
             ?? ofObject ?? ofItems ?? CheckCombinators(Check, s, v))
    BY <1>1 DEF CheckBy
  <2>2. CheckBy(Check, s, v) = Ok
    BY CheckIs
  <2> HIDE DEF ofObject, ofItems
  <2> QED
    BY <2>1, <2>2, ElseIs
<1>3. RefuseIf(unequal, "enum") = Ok
  <2>1. CheckEquals(s, v) = (RefuseIf(differs, "const") ?? RefuseIf(unequal, "enum"))
    BY DEF CheckEquals
  <2> HIDE DEF differs, unequal
  <2> QED
    BY <1>2, <2>1, ElseIs
<1>4. ~ unequal
  <2> HIDE DEF unequal
  <2> QED
    BY <1>3, ViolationIs DEF RefuseIf, Keywords
<1>5. PICK option \in Items(options) : Equals[<<option, v>>]
  BY <1>4
<1>6. option \in JsonValues
  BY ItemsOfGet
<1>7. EqualsBy(Equals, option, v)
  BY <1>5, <1>6, EqualsIs
<1>8. option = v
  BY <1>7 DEF EqualsBy
<1> QED
  BY <1>8

\* The enum of a WHEN's literal, read off the sibling's schema, and the validator
\* of the sibling's bodies never part: what a body of that value was admitted by
\* does not refuse it.
THEOREM WhenAdmits == SchemaSpec => []WhenAdmitsGlossed
<1>1. SchemaInv => WhenAdmitsGlossed
  <2> DEFINE value == Get(document, "value")
             property == Get(Get(schema, "properties"), "value")
             options == Get(property, "enum")
             others == \A option \in Items(options) : ~ (option.t = "string" /\ option.s = value.s)
             refused == options.t = "array" /\ others
  <2> SUFFICES ASSUME SchemaInv, Asked, verdict = Ok, value.t = "string"
               PROVE  ValueEnumCheck(schema, value.s) = Ok
    BY DEF WhenAdmitsGlossed
  <2>1. schema \in JsonValues /\ document \in JsonValues /\ Check[<<schema, document>>] = Ok
    BY JsonAssumption DEF SchemaInv, SchemaTypeOK
  <2>2. ValueEnumCheck(schema, value.s) = RefuseIf(refused, "enum")
    BY DEF ValueEnumCheck
  <2>3. ~ refused
    <3> SUFFICES ASSUME options.t = "array", others PROVE FALSE
      OBVIOUS
    <3>1. value # None /\ value \in JsonValues
      BY <2>1, GetOfNone, GetIs
    <3>2. property # None
      BY GetOfNone
    <3>3. property \in JsonValues
      BY <2>1, <3>2, GetTwice
    <3>4. Check[<<property, value>>] = Ok
      BY <2>1, <3>1, <3>2, PropertyAdmits
    <3>5. \E option \in Items(options) : option = value
      BY <3>1, <3>3, <3>4, EnumAdmits
    <3> QED
      BY <3>5
  <2> HIDE DEF refused
  <2> QED
    BY <2>2, <2>3 DEF RefuseIf
<1> QED
  BY <1>1, SchemaInvariant, PTL

=============================================================================
