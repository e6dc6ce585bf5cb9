---------------------------- MODULE MCLandingOpen ----------------------------
(* Landing under the three disciplines it is checked under: one connection     *)
(* while the source stands still, whose statements come to their end or are cut *)
(* off; or every connection open, statements cut off and the source moving at   *)
(* any time.                                                                   *)
EXTENDS MCLanding

CONSTANTS
  Door,                      \* the one connection of an instance with one
  FewContents, FewRecipes, FewLake
                             \* bounds: contents and recipes where statements are
                             \* cut off, snapshots with every connection open

VARIABLES
  open,      \* the connections open
  cuts       \* statements may be cut off

Alone == open = {Door}
Same  == UNCHANGED <<open, cuts>>

Rises == Alone \/ lake < FewLake
Sent(content) == cuts => content \in FewContents

MCInit ==
  /\ Init
  /\ open \in {Conns, {Door}} /\ cuts \in BOOLEAN
  /\ Alone \/ cuts
  /\ Sent(source)

MCNext ==
  \/ (Alone => Idle) /\ SourceMoves /\ Sent(source') /\ Same
  \/ \E c \in open : Rises /\ DropTable(c) /\ Same
  \/ \E c \in open : Gloss(c) /\ Same
  \/ \E c \in open : Answer(c) /\ Same
  \/ \E c \in open, recipe \in Recipes :
       (cuts => recipe \in FewRecipes) /\ BeginDeclare(c, recipe) /\ Same
  \/ \E c \in open : BeginImport(c) /\ Same
  \/ \E c \in open : KeyOnce(c) /\ Same
  \/ \E c \in open : Rises /\ Replace(c) /\ Same
  \/ \E c \in open : Rises /\ Merge(c) /\ Same
  \/ \E c \in open : CountRows(c) /\ Same
  \/ \E c \in open : ReadSnapshot(c) /\ Same
  \/ \E c \in open : ReadLineage(c) /\ Same
  \/ \E c \in open : Record(c) /\ Same
  \/ \E c \in open : InsertRecipe(c) /\ Same
  \/ \E c \in open : LandFails(c) /\ Same
  \/ \E c \in open : cuts /\ Cut(c) /\ Same

MCSpec == MCInit /\ [][MCNext]_<<vars, open, cuts>>

\* With one connection, statements cut off or not, a gloss reads stale exactly when its
\* column was retyped or the records of its landing and of the table's differ in what
\* they tell of it.
DoorStaleTells == Alone => StaleTells

\* With one connection, statements cut off or not, a landing's record is of the table as
\* it is, until the next landing.
DoorRecordTells == Alone => RecordTells

\* With one connection, a record carries the snapshot its landing made.
DoorSnapshotIsLandings == Alone => SnapshotIsLandings

\* With one connection whose statements come to their end, each key that is there is in
\* the table once, whatever the source sends.
DoorKeysOnce == Alone /\ ~ cuts => KeysOnce
=============================================================================
