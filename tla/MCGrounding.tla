---------------------------- MODULE MCGrounding ----------------------------
(* Grounding under the two disciplines it is checked under: one connection,  *)
(* whose glosses come to their end and are not deleted, or every connection  *)
(* open, glosses deleted and cut off.                                       *)
EXTENDS Grounding

CONSTANTS
  Door,                            \* the one connection of an instance with one
  FewActors, FewRows, FewLake, FewClaims
                                   \* bounds with every connection open

VARIABLE open      \* the connections open

Alone == open = {Door}
Same  == UNCHANGED open

Rises == Alone \/ lake < FewLake

MCInit == Init /\ open \in {Conns, {Door}}

MCNext ==
  \/ \E c \in open, actor \in Actors, body \in Bodies :
       /\ Alone \/ (actor \in FewActors /\ TopSeq(glossary) < FewRows)
       /\ CheckName(c, actor, body) /\ Same
  \/ \E c \in open : Refuse(c) /\ Same
  \/ \E c \in open : Rises /\ Unmake(c) /\ Same
  \/ \E c \in open : Compare(c) /\ Same
  \/ \E c \in open : Look(c) /\ Same
  \/ \E c \in open : Rises /\ Make(c) /\ Same
  \/ \E c \in open : MakeFails(c) /\ Same
  \/ \E c \in open : Insert(c) /\ Same
  \/ \E c \in open : ~ Alone /\ InsertFails(c) /\ Same
  \/ \E c \in open : Rises /\ DropByHand(c) /\ Same
  \/ \E c \in open : Rises /\ LandTable(c) /\ Same
  \/ \E c \in open : ~ Alone /\ Delete(c) /\ Same
  \/ \E c \in open : (Alone \/ Cardinality(claims) < FewClaims) /\ AdmitClaim(c) /\ Same
  \/ \E c \in open : LandClaim(c) /\ Same

MCSpec == MCInit /\ [][MCNext]_<<vars, open>>

\* With one connection, once the newest gloss is the one that serves -- a human's
\* over any, an agent's while there is no human's -- the live view carries the
\* serving grounding's sql and a stop has ended it (SPEC 5.2), whatever was glossed,
\* stopped or dropped before.  While an agent's gloss lies over a human's it does
\* not: that is ViewServes without the condition.
DoorViewServes == Alone /\ Newest(glossary) = Serving => ViewServes

\* With one connection, a gloss that lands leaves the view as it says, also when
\* the view had been dropped by hand and the sql is the same again.
DoorTakesEffect == [][Alone => TakesEffect]_vars

\* With one connection, the same sql again keeps the view and its version, and
\* what is claimed of it stands.
DoorClaimsStand ==
  [][Alone => \A cl \in claims : ~ Stale(cl) /\ Stale(cl)' =>
       {v.sql : v \in Live} # {v.sql : v \in Live'}]_vars
=============================================================================
