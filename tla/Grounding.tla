----------------------------- MODULE Grounding -----------------------------
(***************************************************************************)
(* A grounding and its view (glossql_store.cpp, Ground and GlossWriteExec; *)
(* SPEC.md section 5.2): a gloss of a QUERY aspect makes the view of that   *)
(* name carry its sql, a stop drops it, and the same sql again keeps the    *)
(* view and its version, so that what is glossed on the view stands.        *)
(*                                                                         *)
(* One dataset and one metric.  An action is one query of the statement;    *)
(* the view is made before the gloss lands, each a commit of its own.  A    *)
(* landed table has the same name space as the view.  A claim is a gloss on *)
(* the view or a column of it, which carries the lake's snapshot and is     *)
(* stale once the definition that stood at it is no longer the live one.    *)
(* `of`, the definition a claim was written over, is a history field.       *)
(***************************************************************************)
EXTENDS StoreRows, Integers, FiniteSets

CONSTANTS
  Conns,     \* connections
  Actors,    \* who glosses: human, agent
  Human,     \* the one whose slot is served first
  Sqls,      \* the sql a grounding carries
  Unbound,   \* those that do not bind
  Stop,      \* the body with a stop in place of sql
  MaxRows,   \* bound: the highest seq
  MaxLake,   \* bound: the lake's snapshots
  MaxClaims  \* bound: claims

ASSUME ConstantsAssumption ==
  /\ Unbound \subseteq Sqls /\ Stop \notin Sqls
  /\ MaxRows \in Nat /\ MaxLake \in Nat /\ MaxClaims \in Nat

Bodies == Sqls \cup {Stop}

VARIABLES
  lake,      \* the lake's current snapshot
  views,     \* the view's definitions: sql, begin, end; end 0 while it is live
  table,     \* a table was landed under the name
  glossary,  \* the metric's rows: seq, actor, body
  claims,    \* the glosses on the view: the snapshot written at
  pc,        \* per connection: where its statement is
  gloss,     \* per connection: the actor and body of its gloss
  standing   \* per connection: the sql it read off the newest row, if any

vars == <<lake, views, table, glossary, claims, pc, gloss, standing>>

Live == {v \in views : v.end = 0}

\* no gloss under way
NoGloss == [actor |-> Human, body |-> Stop]

Init ==
  /\ lake = 0
  /\ views = {}
  /\ table = FALSE
  /\ glossary = {}
  /\ claims = {}
  /\ pc = [c \in Conns |-> "idle"]
  /\ gloss = [c \in Conns |-> NoGloss]
  /\ standing = [c \in Conns |-> {}]

-----------------------------------------------------------------------------
(* GLOSS metric ON dataset.                                                 *)

\* The name is not a landed table's: else the gloss is refused.
CheckName(c, actor, body) ==
  /\ pc[c] = "idle"
  /\ TopSeq(glossary) < MaxRows
  /\ ~ table
  /\ gloss' = [gloss EXCEPT ![c] = [actor |-> actor, body |-> body]]
  /\ pc' = [pc EXCEPT ![c] = "checked"]
  /\ UNCHANGED <<lake, views, table, glossary, claims, standing>>

\* A gloss refused: on a landed table's name, or with a body that does not meet
\* the grounding contract.
Refuse(c) ==
  /\ pc[c] = "idle"
  /\ UNCHANGED vars

\* The live definition ends with the commit that drops or replaces it.
Ended ==
  {v \in views : v.end # 0}
    \cup {[sql |-> v.sql, begin |-> v.begin, end |-> lake + 1] : v \in Live}

\* A stop: DROP VIEW IF EXISTS, which is a commit when there is one.
Unmake(c) ==
  /\ pc[c] = "checked"
  /\ gloss[c].body = Stop
  /\ lake < MaxLake
  /\ ~ table
  /\ lake' = IF Live = {} THEN lake ELSE lake + 1
  /\ views' = Ended
  /\ pc' = [pc EXCEPT ![c] = "made"]
  /\ UNCHANGED <<table, glossary, claims, gloss, standing>>

\* The sql of the human's newest row, what is served, in place of the newest's.
CompareServed(c) ==
  /\ pc[c] = "checked"
  /\ gloss[c].body # Stop
  /\ standing' = [standing EXCEPT ![c] =
       {r.body : r \in Newest({r \in glossary : r.actor = Human})} \ {Stop}]
  /\ pc' = [pc EXCEPT ![c] = "compared"]
  /\ UNCHANGED <<lake, views, table, glossary, claims, gloss>>

\* The sql of the newest row, whichever actor's.
Compare(c) ==
  /\ pc[c] = "checked"
  /\ gloss[c].body # Stop
  /\ standing' = [standing EXCEPT ![c] = {r.body : r \in Newest(glossary)} \ {Stop}]
  /\ pc' = [pc EXCEPT ![c] = "compared"]
  /\ UNCHANGED <<lake, views, table, glossary, claims, gloss>>

\* The view kept on the newest row's word, be it live or not.
LookNoView(c) ==
  /\ pc[c] = "compared"
  /\ pc' = [pc EXCEPT ![c] = IF gloss[c].body \in standing[c] THEN "made" ELSE "making"]
  /\ UNCHANGED <<lake, views, table, glossary, claims, gloss, standing>>

\* The same sql, and a view is live: it is kept.
Look(c) ==
  /\ pc[c] = "compared"
  /\ pc' = [pc EXCEPT ![c] =
       IF gloss[c].body \in standing[c] /\ Live # {} THEN "made" ELSE "making"]
  /\ UNCHANGED <<lake, views, table, glossary, claims, gloss, standing>>

\* CREATE OR REPLACE VIEW, which a table of that name or an unbound sql refuses.
Make(c) ==
  /\ pc[c] = "making"
  /\ lake < MaxLake
  /\ gloss[c].body \notin Unbound
  /\ ~ table
  /\ lake' = lake + 1
  /\ views' = Ended \cup {[sql |-> gloss[c].body, begin |-> lake + 1, end |-> 0]}
  /\ pc' = [pc EXCEPT ![c] = "made"]
  /\ UNCHANGED <<table, glossary, claims, gloss, standing>>

\* The sql does not bind, a table has the name, or the lake refuses the commit.
MakeFails(c) ==
  /\ \/ pc[c] = "making"
     \/ pc[c] = "checked" /\ gloss[c].body = Stop
  /\ pc' = [pc EXCEPT ![c] = "idle"]
  /\ UNCHANGED <<lake, views, table, glossary, claims, gloss, standing>>

\* The gloss lands.
Insert(c) ==
  /\ pc[c] = "made"
  /\ glossary' = glossary \cup
       {[seq |-> TopSeq(glossary) + 1, actor |-> gloss[c].actor, body |-> gloss[c].body]}
  /\ pc' = [pc EXCEPT ![c] = "idle"]
  /\ UNCHANGED <<lake, views, table, claims, gloss, standing>>

\* The statement is interrupted or the process ends, the view made.
InsertFails(c) ==
  /\ pc[c] = "made"
  /\ pc' = [pc EXCEPT ![c] = "idle"]
  /\ UNCHANGED <<lake, views, table, glossary, claims, gloss, standing>>

-----------------------------------------------------------------------------
(* What else moves the name.                                               *)

\* DROP VIEW by a caller.
DropByHand(c) ==
  /\ pc[c] = "idle"
  /\ lake < MaxLake
  /\ Live # {}
  /\ lake' = lake + 1
  /\ views' = Ended
  /\ UNCHANGED <<table, glossary, claims, pc, gloss, standing>>

\* A recipe lands under the name: CREATE OR REPLACE TABLE, refused over a view.
LandTable(c) ==
  /\ pc[c] = "idle"
  /\ lake < MaxLake
  /\ Live = {}
  /\ lake' = lake + 1
  /\ table' = TRUE
  /\ UNCHANGED <<views, glossary, claims, pc, gloss, standing>>

\* DELETE FROM glossary: the view is left as it is.
Delete(c) ==
  /\ pc[c] = "idle"
  /\ \E D \in SUBSET glossary : D # {} /\ glossary' = glossary \ D
  /\ UNCHANGED <<lake, views, table, claims, pc, gloss, standing>>

-----------------------------------------------------------------------------
(* A gloss on the view.                                                    *)

\* The view is there ...
AdmitClaim(c) ==
  /\ pc[c] = "idle"
  /\ Live # {}
  /\ Cardinality(claims) < MaxClaims
  /\ pc' = [pc EXCEPT ![c] = "claiming"]
  /\ UNCHANGED <<lake, views, table, glossary, claims, gloss, standing>>

\* ... and the claim is written at the lake's snapshot.
LandClaim(c) ==
  /\ pc[c] = "claiming"
  /\ claims' = claims \cup {[snapshot |-> lake, of |-> Live]}
  /\ pc' = [pc EXCEPT ![c] = "idle"]
  /\ UNCHANGED <<lake, views, table, glossary, gloss, standing>>

\* A definition that stood at the claim's snapshot.
StoodAt(claim) ==
  {v \in views : v.begin <= claim.snapshot /\ (v.end = 0 \/ v.end > claim.snapshot)}

\* A claim that any live definition freshens.
StaleAnyLive(claim) == StoodAt(claim) # {} /\ Live = {}

\* The definition that stood at the write is no longer the live one.
Stale(claim) ==
  /\ StoodAt(claim) # {}
  /\ ~ \E v \in Live : v.begin <= claim.snapshot

-----------------------------------------------------------------------------
\* Statements that come to their end, no gloss deleted.
Keep ==
  \/ \E c \in Conns, actor \in Actors, body \in Bodies : CheckName(c, actor, body)
  \/ \E c \in Conns : Refuse(c)
  \/ \E c \in Conns : Unmake(c)
  \/ \E c \in Conns : Compare(c)
  \/ \E c \in Conns : Look(c)
  \/ \E c \in Conns : Make(c)
  \/ \E c \in Conns : MakeFails(c)
  \/ \E c \in Conns : Insert(c)
  \/ \E c \in Conns : DropByHand(c)
  \/ \E c \in Conns : LandTable(c)
  \/ \E c \in Conns : AdmitClaim(c)
  \/ \E c \in Conns : LandClaim(c)

\* Glosses are deleted as well.
Deleting == Keep \/ \E c \in Conns : Delete(c)

\* A gloss may also be cut off between its view and its row.
Next == Deleting \/ \E c \in Conns : InsertFails(c)

Spec == Init /\ [][Next]_vars

KeepSpec == Init /\ [][Keep]_vars

DeletingSpec == Init /\ [][Deleting]_vars

-----------------------------------------------------------------------------
(* What a grounding owes its readers.                                      *)

Idle == \A c \in Conns : pc[c] = "idle"

\* Seqs number the rows landed, one definition at most is live, a definition
\* begins and ends at snapshots of the lake and no two overlap.
TypeOK ==
  /\ lake \in 0 .. MaxLake /\ table \in BOOLEAN
  /\ \A v \in views : /\ v.sql \in Sqls \ Unbound
                      /\ v.begin \in 1 .. lake
                      /\ v.end = 0 \/ v.end \in v.begin + 1 .. lake
  /\ \A v, w \in views : v # w => \/ v.end # 0 /\ v.end <= w.begin
                                  \/ w.end # 0 /\ w.end <= v.begin
  /\ \A r \in glossary : r.seq \in 1 .. MaxRows + Cardinality(Conns) /\ r.actor \in Actors /\ r.body \in Bodies
  /\ \A q, r \in glossary : q.seq = r.seq => q = r
  /\ \A cl \in claims : cl.snapshot \in 0 .. lake /\ cl.of \subseteq [sql : Sqls, begin : 1 .. lake, end : {0}]
  /\ pc \in [Conns -> {"idle", "checked", "compared", "making", "made", "claiming"}]
  /\ gloss \in [Conns -> [actor : Actors \cup {Human}, body : Bodies]]
  /\ standing \in [Conns -> SUBSET Sqls]

\* The live view carries the sql of the newest gloss, whoever's, and a stop ended
\* it: what Ground keeps, which is what serves only when the newest gloss does.
ViewIsNewest ==
  Idle => \A v \in Live : {r.body : r \in Newest(glossary)} = {v.sql}

\* A gloss that lands leaves the view as it says: there, carrying its sql, or
\* gone -- also when the view had been dropped by hand and the sql is the same.
TakesEffect ==
  \A c \in Conns : pc[c] = "made" /\ pc'[c] = "idle" =>
    {v.sql : v \in Live} = {gloss[c].body} \ {Stop}

GlossTakesEffect == [][TakesEffect]_vars

\* The same sql again keeps the view and its version: a claim goes stale only
\* when the view comes to carry another sql or is dropped.
ClaimsStand ==
  [][\A cl \in claims : ~ Stale(cl) /\ Stale(cl)' =>
       {v.sql : v \in Live} # {v.sql : v \in Live'}]_vars

\* A claim on a view is stale exactly when the definition it was written over is
\* not the live one, whoever made or dropped views in between.
ClaimsTell ==
  \A cl \in claims : cl.of # {} => (Stale(cl) <=> Live # cl.of)

\* Whatever the other connections do, a claim once stale is stale for good: a
\* view made again under the name does not bring it back.
StaleStays == [][\A cl \in claims : Stale(cl) => Stale(cl)']_vars

\* The grounding served: the human's newest row, the agent's when there is none.
Serving ==
  LET human == {r \in glossary : r.actor = Human}
  IN  Newest(IF human = {} THEN glossary ELSE human)

\* "The dataset's schema holds a view under the metric's name carrying the
\* serving grounding's sql", and a stop ends it (Ground; SPEC 5.2).
ViewServes ==
  Idle => \A v \in Live : {r.body : r \in Serving} = {v.sql}

=============================================================================
