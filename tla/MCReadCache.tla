---------------------------- MODULE MCReadCache ----------------------------
(* ReadCache under the two disciplines it keeps its promise under: every    *)
(* connection open and no gloss deleted, or the door's one connection, which *)
(* deletes as well.                                                         *)
EXTENDS ReadCache

CONSTANTS
  Door,      \* the one connection of an instance with one
  FewKeys,   \* bound: what is read with every connection open
  FewClock   \* bound: the statements that write the store then

VARIABLE open      \* the connections open

Alone == open = {Door}
Same  == UNCHANGED open
InBound(K) == Alone \/ K \subseteq FewKeys

MCInit == Init /\ open \in {Conns, {Door}}

MCNext ==
  \/ \E c \in open, rel \in Relations : (Alone \/ clock < FewClock) /\ BeginWrite(c, rel) /\ Same
  \/ \E c \in open : CommitWrite(c) /\ Same
  \/ \E c \in open : LakeCommit(c) /\ Same
  \/ \E c \in open, K \in BindKeys : InBound(K) /\ Bind(c, K) /\ Same
  \/ \E c \in open, k \in Keys : Hit(c, k) /\ Same
  \/ \E c \in open, k \in Keys : LandSlots(c, k) /\ Same
  \/ \E c \in open : JudgedRows(c) /\ Same
  \/ \E c \in open, k \in Keys : PlainRows(c, k) /\ Same
  \/ \E c \in open : Put(c) /\ Same
  \/ \E c \in open : FillFails(c) /\ Same
  \/ Evict /\ Same
  \/ \E c \in open : Alone /\ Delete(c) /\ Same

MCSpec == MCInit /\ [][MCNext]_<<vars, open>>

\* One connection's binds serve the store as it stood when they began, all the
\* views of one cells read together.
DoorServesAsked == Alone => ServedAsked
=============================================================================
