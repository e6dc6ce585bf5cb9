------------------------- MODULE MCMeasurementsOpen -------------------------
(* Measurements under the two disciplines it is checked under: one connection *)
(* that deletes no gloss, or every connection open, glosses deleted.          *)
EXTENDS MCMeasurements

CONSTANTS
  Door,          \* the one connection of an instance with one
  FewBodies, FewClock, FewLanded,
                 \* bounds: bodies, declarations and glosses, landed rows, with
                 \* every connection open
  Frail          \* bound: the bodies whose declarations may fail halfway

VARIABLE open      \* the connections open

Alone == open = {Door}
Same  == UNCHANGED open

Ticks == Alone \/ clock < FewClock

MCInit == Init /\ open \in {Conns, {Door}}

MCNext ==
  \/ \E c \in open, t \in Tables : Write(c, t) /\ Same
  \/ \E c \in open, t \in Tables : Define(c, t) /\ Same
  \/ \E c \in open, r \in Relations : Drop(c, r) /\ Same
  \/ \E c \in open : Ticks /\ BeginGloss(c) /\ Same
  \/ \E c \in open : CommitGloss(c) /\ Same
  \/ \E c \in open : ~ Alone /\ DeleteGloss(c) /\ Same
  \/ \E c \in open : Ticks /\ LandOther(c) /\ Same
  \/ \E c \in open, body \in Bodies :
       Ticks /\ (Alone \/ body \in FewBodies) /\ DeclareMacro(c, body) /\ Same
  \/ \E c \in open : DeclareRow(c) /\ Same
  \/ \E c \in open : work[c].value \subseteq Frail /\ DeclareFails(c) /\ Same
  \/ \E c \in open : Answer(c) /\ Same
  \/ \E c \in open :
       (Alone \/ Cardinality(measurements) < FewLanded) /\ Miss(c) /\ Same
  \/ \E c \in open : PlanReads(c) /\ Same
  \/ \E c \in open : RunBody(c) /\ Same
  \/ \E c \in open : TakePin(c) /\ Same
  \/ \E c \in open : Land(c) /\ Same
  \/ \E c \in open : ExtractFails(c) /\ Same

MCSpec == MCInit /\ [][MCNext]_<<vars, open>>

\* With one connection, and no gloss deleted, what an extraction would serve is what
\* its body would compute, and that body the declared one while the macro is; whichever
\* declarations fail halfway.
DoorStandsCurrent == Alone => StandsCurrent
=============================================================================
