------------------------------- MODULE MCKits -------------------------------
(* The loader under the two disciplines it is checked under: one connection    *)
(* and files that change, or two connections that load one text, declaring no *)
(* key twice.  With one, things are declared and dropped by hand in between. *)
EXTENDS Kits

CONSTANTS
  Door,
  kpi, sales, sql,           \* names
  role, unit, v1, v2, ext, orders

VARIABLE open      \* the connections open

Alone == open = {Door}

\* Two files of one name, and one of another.
MCPaths == {<< <<sales>>, <<Kit, sql>> >>, << <<kpi>>, <<sales, sql>> >>}

First == <<LoadLine(ext), Declares(role, v1), Declares(unit, v1), Creates(orders)>>
Later == <<LoadLine(ext), Declares(role, v2), Declares(unit, v2)>>
Twice == <<Declares(role, v2), Declares(role, v1)>>

MCTexts == {First, Later, Twice}
MCHash == [t \in MCTexts |-> t]

\* No key is declared twice.
OnceEach(t) ==
  \A i, j \in DOMAIN t :
    t[i].kind = "DECLARE" /\ t[j].kind = "DECLARE" /\ t[i].what = t[j].what => i = j

Resting == \A c \in Conns : load[c].at \notin {"read", "run"}

MCInit ==
  /\ Init /\ \A p \in Paths : files[p] # None
  /\ \/ open = {Door}
     \/ open = Conns /\ \E t \in Texts : OnceEach(t) /\ files = [p \in Paths |-> t]

Same == UNCHANGED open

MCNext ==
  \/ \E c \in open, p \in Paths : ReadScript(c, p) /\ Same
  \/ \E c \in open : AskStands(c) /\ Same
  \/ \E c \in open : Step(c) /\ Same
  \/ \E c \in open : Stop(c) /\ Same
  \/ \E c \in open : Finish(c) /\ Same
  \/ \E p \in Paths, t \in Texts : Alone /\ Resting /\ EditFile(p, t) /\ Same
  \/ \E k \in Keys, v \in Values : Alone /\ Resting /\ DeclareByHand(k, v) /\ Same
  \/ \E t \in Tables : Alone /\ Resting /\ DropTable(t) /\ Same
  \/ \E k \in AspectKeys : Gloss(k) /\ Same
  \/ Restart /\ Same

MCSpec == MCInit /\ [][MCNext]_<<vars, open>>

\* "Run again with that text the kit stands": with one connection, a load of the
\* text its name was last recorded with writes nothing up to its end.
DoorAgainQuiet ==
  [][Alone => \A c \in Conns :
       /\ load[c].at = "run" /\ load'[c] # load[c]
       /\ \E r \in NewestKit(KitName(load[c].location)) : r.hash = ScriptHash(load[c].text)
       => UNCHANGED store]_vars

\* One connection that only loads, over files that change.
LoadsSpec ==
  /\ MCInit /\ Alone
  /\ [][ \/ \E p \in Paths : ReadScript(Door, p) /\ Same
         \/ (AskStands(Door) \/ Step(Door) \/ Stop(Door) \/ Finish(Door)) /\ Same
         \/ \E p \in Paths, t \in Texts : Resting /\ EditFile(p, t) /\ Same
         \/ \E k \in AspectKeys : Gloss(k) /\ Same ]_<<vars, open>>

\* Every connection, and whatever happens by hand, at any time.
OpenSpec == Init /\ open = Conns /\ [][Next /\ Same]_<<vars, open>>
=============================================================================
