------------------------------ MODULE Collapse ------------------------------
(***************************************************************************)
(* What is read of the glossary (glossql_store.cpp, SlotsSQL, VerdictsSQL,   *)
(* OwedSQL, CollapsedSQL; SPEC.md sections 5.3 and 7): the slots on a subject *)
(* under an aspect, what the witnesses' detectors make of them, and the one  *)
(* row that collapses them.                                                  *)
(*                                                                         *)
(* A detector's script is a function of how many bodies its slots tell apart: *)
(* to a score, to Nothing (it serves no row), or to Fails (it cannot answer,  *)
(* or answers outside the attest schema).  How a voice's inputs are pinned is *)
(* Measurements' to say: here its input is its subject.                       *)
(***************************************************************************)
EXTENDS Glossary

CONSTANT Fails

ASSUME FailsAssumption == Fails \notin Bodies \cup Int \cup {Nothing}

-----------------------------------------------------------------------------
(* Slots and voices.                                                       *)

\* The newest measurement of each function that speaks here.
VoicesOn(subject, aspect) ==
  {m \in measurements :
     /\ m.subject = subject /\ m.aspect = aspect
     /\ \A n \in measurements :
          (n.subject = subject /\ n.aspect = aspect /\ n.function = m.function) => n.seq <= m.seq}

GlossesOn(subject, aspect) == UNION {SlotOf(subject, aspect, actor) : actor \in Actors}

\* A gloss is stale once its subject changed after it.
GlossStale(g) == changed[g.subject] > g.seq

\* The slots a read holds, each in its rank of precedence.
Slots(subject, aspect) ==
  {[rank |-> IF g.actor = Human THEN 0 ELSE 1, seq |-> g.seq, body |-> g.body, stale |-> GlossStale(g)]
     : g \in GlossesOn(subject, aspect)}
  \cup
  {[rank |-> 2, seq |-> m.seq, body |-> m.body, stale |-> VoiceStale(m)]
     : m \in VoicesOn(subject, aspect)}

\* The newest of all.
PickedNewest(slots) == {p \in slots : \A q \in slots : q.seq <= p.seq}

\* Human over agent over function, the newest among functions.
Picked(slots) ==
  {p \in slots : \A q \in slots : p.rank < q.rank \/ (p.rank = q.rank /\ q.seq <= p.seq)}

-----------------------------------------------------------------------------
(* Verdicts.                                                               *)

Standing == UNION {WitnessOn(a) : a \in Aspects}

\* The newest script under the detector's name that was declared without RETURNS.
ScriptOf(w) ==
  {r.text.script : r \in Newest({r \in functions : r.text.name = w.detector /\ r.text.returns = Nothing})}

Score(script, slots) == script[Cardinality({s.body : s \in slots})]

Spoken(aspect) == {s \in Subjects : Slots(s, aspect) # {}}

\* The detector cannot answer for one subject: it is an error on every one.
Broken(w) ==
  \/ ScriptOf(w) = {}
  \/ \E s \in Spoken(w.aspect), script \in ScriptOf(w) : Score(script, Slots(s, w.aspect)) = Fails

\* A failed detector's verdict is the highest there is.
VerdictsErrorHigh(w, subject) ==
  IF w.detector = Nothing \/ subject \notin Spoken(w.aspect) THEN {}
  ELSE IF Broken(w) THEN {[witness |-> w.name, error |-> TRUE, score |-> 100]}
  ELSE {[witness |-> w.name, error |-> FALSE, score |-> Score(script, Slots(subject, w.aspect))]
          : script \in {s \in ScriptOf(w) : Score(s, Slots(subject, w.aspect)) # Nothing}}

\* The verdicts of a witness on a subject: one, an error of score 0, or none.
Verdicts(w, subject) ==
  IF w.detector = Nothing \/ subject \notin Spoken(w.aspect) THEN {}
  ELSE IF Broken(w) THEN {[witness |-> w.name, error |-> TRUE, score |-> 0]}
  ELSE {[witness |-> w.name, error |-> FALSE, score |-> Score(script, Slots(subject, w.aspect))]
          : script \in {s \in ScriptOf(w) : Score(s, Slots(subject, w.aspect)) # Nothing}}

\* An error is not a judgment: any other verdict outranks it.
Outranks(u, v) == (~ u.error /\ v.error) \/ (u.error = v.error /\ u.score > v.score)

\* Every verdict with the threshold of each standing witness of its name; the
\* one that outranks the others is the judgment, either of two that tie.
Judged(subject, aspect) ==
  LET verdicts == UNION {Verdicts(w, subject) : w \in WitnessOn(aspect)}
      joined == {[score |-> vw[1].score, error |-> vw[1].error, threshold |-> vw[2].threshold]
                   : vw \in {p \in verdicts \X Standing : p[1].witness = p[2].name}}
  IN {u \in joined : \A v \in joined : ~ Outranks(v, u)}

-----------------------------------------------------------------------------
(* The collapsed read.                                                     *)

Exceeds(j) == j.threshold # Nothing /\ j.score > j.threshold

\* The sibling's newest ruling, whoever spoke.
RulingNewest(subject, aspect) ==
  {g.body : g \in Newest(GlossesOn(subject, aspect))}

\* The sibling's winning slot, human over agent; a function rules nothing.
Ruling(subject, aspect) ==
  {p.body : p \in Picked({s \in Slots(subject, aspect) : s.rank < 2})}

\* A witnessed aspect is owed on the subjects of its grain, under a WHEN only
\* while the sibling is ruled so.
Owed(subject, aspect) ==
  /\ WitnessOn(aspect) # {}
  /\ \E d \in AspectOf(aspect) :
       /\ subject \in d.grain
       /\ d.when # Nothing => d.when.value \in Ruling(subject, d.when.aspect)

\* The row of a slot that is picked, under a judgment or none.
RowOf(p, withheld) ==
  [value |-> IF withheld THEN Nothing ELSE p.body,
   state |-> IF withheld THEN "contested" ELSE IF p.stale THEN "stale" ELSE "current"]

\* The rows a read may answer with: at most one, but for judgments that tie.
Rows(subject, aspect) ==
  LET slots == Slots(subject, aspect)
      judged == Judged(subject, aspect)
  IN IF slots # {}
     THEN {RowOf(p, withheld) : p \in Picked(slots),
             withheld \in IF judged = {} THEN {FALSE} ELSE {Exceeds(j) : j \in judged}}
     ELSE {[value |-> Nothing, state |-> "unassessed"] : o \in {w \in WitnessOn(aspect) : Owed(subject, aspect)}}

-----------------------------------------------------------------------------
(* What a reader of the collapsed row may take from it.                    *)

\* The human's slot is served, or withheld and said so, whatever agents and
\* functions say after it (SPEC.md 5.3, the precedence pick).
HumanServed ==
  \A s \in Subjects, a \in Aspects : \A g \in SlotOf(s, a, Human) :
    \A row \in Rows(s, a) : row.value = g.body \/ row.state = "contested"

\* The detector of w answers for every subject spoken of under the aspect, and
\* scores this one's slots above the threshold.
Above(w, threshold, subject, aspect) ==
  \E script \in IF w.detector = Nothing THEN {} ELSE ScriptOf(w) :
    /\ threshold # Nothing
    /\ \A t \in Spoken(aspect) : Score(script, Slots(t, aspect)) # Fails
    /\ Score(script, Slots(subject, aspect)) \in Int
    /\ Score(script, Slots(subject, aspect)) > threshold

\* The standing witnesses a verdict finds by the name of w: w itself, and those of
\* other aspects declared under its name.
Namesakes(w) == {u \in Standing : u.name = w.name}

\* A value is withheld exactly when the witness standing on its aspect has its
\* detector score this aspect's slots above the threshold of a witness of its name:
\* not on another name's threshold or score, not by a detector that failed, and
\* never beside one that did not.  Where namesakes' thresholds disagree the row may
\* be either, as the join by name has it (glossql_store.cpp 1431-1433).
Withheld ==
  \A s \in Subjects, a \in Aspects : Slots(s, a) # {} =>
    LET contested == {row.state = "contested" : row \in Rows(s, a)}
    IN /\ WitnessOn(a) = {} => contested = {FALSE}
       /\ \A w \in WitnessOn(a) :
            contested = {Above(w, u.threshold, s, a) : u \in Namesakes(w)}

\* Verdicts are computed "from each witness's own slots against its own threshold"
\* (SPEC.md 582), and no namesake's.
WithheldByItsOwn ==
  \A s \in Subjects, a \in Aspects : Slots(s, a) # {} =>
    \A row \in Rows(s, a) :
      row.state = "contested" <=> \E w \in WitnessOn(a) : Above(w, w.threshold, s, a)

\* "The read never hides" a gap and invents none: a subject has no row under an
\* aspect exactly when nobody spoke and the aspect is not owed; a spoken slot is
\* served whatever its sibling is ruled to be, and by the human's ruling first.
GapsShown ==
  LET Says(s, a, actor) == {g.body : g \in SlotOf(s, a, actor)}
      RuledSo(s, when) ==
        IF Says(s, when.aspect, Human) # {} THEN when.value \in Says(s, when.aspect, Human)
        ELSE \E actor \in Actors : when.value \in Says(s, when.aspect, actor)
  IN \A s \in Subjects, a \in Aspects :
       /\ Slots(s, a) # {} => \A row \in Rows(s, a) : row.state # "unassessed"
       /\ Rows(s, a) = {} <=>
            /\ Slots(s, a) = {}
            /\ WitnessOn(a) # {} =>
                 \A d \in AspectOf(a) : s \notin d.grain \/ (d.when # Nothing /\ ~ RuledSo(s, d.when))

\* Whatever is served as current is what its aspect would admit today.
ServedConform ==
  \A s \in Subjects, a \in Aspects : \A row \in Rows(s, a) :
    row.state = "current" => \E d \in AspectOf(a) :
      IF d.kind = "QUERY" THEN row.value \in Contract ELSE row.value \in Admits[d.schema]

=============================================================================
