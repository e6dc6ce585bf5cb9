-------------------------- MODULE MeasurementsProofs --------------------------
(***************************************************************************)
(* What a measurement that stands owes its reader, for any bodies, tables and *)
(* bounds: what its pin says of the inputs is what the body saw.             *)
(***************************************************************************)
EXTENDS MCMeasurementsOpen, StoreRowsProofs, TLAPS

\* A pin follows what these bodies read: no measurements; with a file, the dataset's
\* alone; else a view only where the subject stands on it.
Followed ==
  \A b \in Bodies :
    /\ Landed \notin Inputs[b]
    /\ All \in Inputs[b] =>
         /\ Inputs[b] \cap Tables \subseteq Dataset
         /\ View \in Inputs[b] => Tables \subseteq Dataset
    /\ All \notin Inputs[b] /\ View \in Inputs[b] => SubjectOnView

\* No body reads the glossary.
NoneTold == \A b \in Bodies : Glossary \notin Inputs[b]

-----------------------------------------------------------------------------
(* The world as it was: relations, the view and the glossary.                *)

ContentOf(o, i) ==
  CASE i \in Tables  -> <<o.at[i]>>
    [] i = View      -> <<o.at[View], o.viewOn, o.at[o.viewOn]>>
    [] OTHER         -> <<o.glossary>>

\* A past glossary is the part of the present one up to its top.
Appended(o) ==
  /\ o.glossary \subseteq glossary
  /\ \A r \in glossary \ o.glossary : TopSeq(o.glossary) < r.seq

\* A past world: snapshots are not taken twice, so the same definition of the view is
\* over the same table; and the glossary has only grown, where a body reads it.
AsOf(o) ==
  /\ o.at \in [Relations -> Nat] /\ \A r \in Relations : o.at[r] <= lake
  /\ o.viewOn \in Tables
  /\ o.at[View] = at[View] /\ at[View] > 0 => o.viewOn = viewOn
  /\ NoneTold \/ Appended(o)

Now == [at |-> at, viewOn |-> viewOn, glossary |-> glossary]

\* What the body saw, named and pinned in that world.
ReadsIn(o, b) ==
  IF All \in Inputs[b] THEN {All}
  ELSE (Inputs[b] \ {View})
         \cup (IF View \in Inputs[b] THEN {o.viewOn} ELSE {})
         \cup (IF SubjectOnView THEN {View} ELSE {})

SawIn(o, b, value) ==
  value = {[body |-> b, saw |-> {<<i, ContentOf(o, i)>> : i \in Read(b)}]}

PinnedIn(o, reads, pin) ==
  /\ \A r \in Relations : r \in Dataset \cup reads =>
       \A x : <<r, x>> \in pin <=> x = o.at[r] /\ x > 0
  /\ \A x : <<Glossary, x>> \in pin <=> x = TopSeq(o.glossary)

ComputedIn(o, b, value, reads, pin) ==
  /\ b \in Bodies
  /\ SawIn(o, b, value)
  /\ reads = ReadsIn(o, b)
  /\ PinnedIn(o, reads, pin)
  /\ View \in Inputs[b] => o.at[View] > 0

World ==
  /\ lake \in Nat
  /\ at \in [Relations -> Nat] /\ \A r \in Relations : at[r] <= lake
  /\ viewOn \in Tables

\* The legs, one of each relation that is there and one of the glossary.
LEMMA LegsAre ==
  ASSUME World
  PROVE  /\ \A r \in Relations : \A x : <<r, x>> \in Legs <=> x = at[r] /\ x > 0
         /\ \A x : <<Glossary, x>> \in Legs <=> x = TopSeq(glossary)
<1>1. ASSUME NEW r \in Relations, NEW x PROVE <<r, x>> \in Legs <=> x = at[r] /\ x > 0
  BY <1>1, NamesAssumption DEF Legs, World
<1>2. ASSUME NEW x PROVE <<Glossary, x>> \in Legs <=> x = TopSeq(glossary)
  BY <1>2, NamesAssumption DEF Legs
<1> QED BY <1>1, <1>2

\* While the legs a row's reads select are as pinned, a relation among them is as it was ...
LEMMA SameLeg ==
  ASSUME World, NEW o, o.at \in [Relations -> Nat], NEW m,
         PinnedIn(o, m.reads, m.pin), Selected(m, m.pin) = Selected(m, Legs),
         NEW r \in Relations, r \in Dataset \cup m.reads,
         r \in NamesOf(m) \/ (Star \in NamesOf(m) /\ r \in Dataset)
  PROVE  at[r] = o.at[r]
<1>1. \A x : <<r, x>> \in m.pin <=> <<r, x>> \in Legs
  BY DEF Selected
<1>2. \A x : (x = o.at[r] /\ x > 0) <=> (x = at[r] /\ x > 0)
  BY <1>1, LegsAre DEF PinnedIn
<1>3. at[r] \in Nat /\ o.at[r] \in Nat
  BY DEF World
<1> QED BY <1>2, <1>3

\* ... and so is the glossary.
LEMMA SameTop ==
  ASSUME World, NEW o, NEW m,
         PinnedIn(o, m.reads, m.pin), Selected(m, m.pin) = Selected(m, Legs),
         Glossary \in NamesOf(m)
  PROVE  TopSeq(o.glossary) = TopSeq(glossary)
<1>1. \A x : <<Glossary, x>> \in m.pin <=> <<Glossary, x>> \in Legs
  BY DEF Selected
<1> QED BY <1>1, LegsAre DEF PinnedIn

LEMMA SameGlossary ==
  ASSUME NEW o, Appended(o), Numbered(glossary), TopSeq(o.glossary) = TopSeq(glossary)
  PROVE  o.glossary = glossary
<1>1. TopSeq(glossary) \in Nat /\ \A r \in glossary : r.seq \in Nat /\ r.seq <= TopSeq(glossary)
  BY TopSeqBounds
<1> QED BY <1>1 DEF Appended

\* So the body would see the same.
LEMMA SeesTheSame ==
  ASSUME World, Followed, NoneTold \/ Numbered(glossary),
         NEW o, AsOf(o), NEW b, NEW m, ComputedIn(o, b, m.value, m.reads, m.pin), Stands(m)
  PROVE  m.value = {Compute(b)}
<1> USE DEF ComputedIn, Stands
<1>0. b \in Bodies /\ Inputs[b] \subseteq Relations \cup {Glossary, Landed, Star, All}
      /\ o.at \in [Relations -> Nat] /\ o.viewOn \in Tables
  BY ConstantsAssumption DEF AsOf
<1>1. ASSUME NEW r \in Relations, r \in Dataset \cup m.reads,
             r \in NamesOf(m) \/ (Star \in NamesOf(m) /\ r \in Dataset)
      PROVE  at[r] = o.at[r]
  BY <1>0, <1>1, SameLeg
<1>2. Read(b) \subseteq Tables \cup {View, Glossary}
  BY <1>0, NamesAssumption DEF Followed, Read, Relations
<1>3. ASSUME NEW r \in Relations,
             \/ r \in Read(b)
             \/ View \in Read(b) /\ r = o.viewOn
      PROVE  at[r] = o.at[r]
  <2>1. CASE All \in Inputs[b]
    <3>1. m.reads = {All} /\ Star \in NamesOf(m)
      BY <2>1 DEF ReadsIn, NamesOf
    <3>2. r \in Dataset
      <4>1. View \notin Tables /\ View \in Dataset
        BY ConstantsAssumption
      <4>2. CASE r \in Read(b) /\ r # View
        BY <1>0, <2>1, <4>2, NamesAssumption DEF Followed, Read, Relations
      <4>3. CASE r = View
        BY <4>1, <4>3
      <4>4. CASE View \in Read(b) /\ r = o.viewOn
        <5>1. View \in Inputs[b]
          BY <4>1, <4>4 DEF Read
        <5> QED BY <1>0, <2>1, <4>4, <5>1 DEF Followed
      <4> QED BY <1>3, <4>2, <4>3, <4>4
    <3> QED BY <1>1, <3>1, <3>2
  <2>2. CASE All \notin Inputs[b]
    <3>1. All \notin m.reads
      BY <1>0, <2>2, NamesAssumption DEF ReadsIn, Relations
    <3>2. NamesOf(m) = m.reads
      BY <3>1 DEF NamesOf
    <3>3. r \in m.reads \/ (Star \in m.reads /\ r \in Dataset)
      <4>0. View \notin Tables /\ View \in Relations /\ Star # View
        BY ConstantsAssumption, NamesAssumption DEF Relations
      <4>1. CASE r \in Read(b) /\ r # View
        BY <2>2, <4>0, <4>1 DEF Read, ReadsIn
      <4>2. ASSUME View \in Read(b), r \in {View, o.viewOn} PROVE r \in m.reads
        <5>1. View \in Inputs[b]
          BY <4>0, <4>2 DEF Read
        <5>2. SubjectOnView
          BY <1>0, <2>2, <5>1 DEF Followed
        <5> QED BY <2>2, <4>2, <5>1, <5>2 DEF ReadsIn
      <4> QED BY <1>3, <4>1, <4>2
    <3> QED BY <1>1, <3>2, <3>3
  <2> QED BY <2>1, <2>2
<1>4. ASSUME View \in Read(b) PROVE viewOn = o.viewOn
  <2>1. View \in Inputs[b] /\ View \in Relations
    BY <1>4, ConstantsAssumption DEF Read, Relations
  <2>2. at[View] = o.at[View] /\ at[View] > 0
    BY <1>3, <1>4, <2>1
  <2> QED BY <2>2 DEF AsOf
<1>5. ASSUME Glossary \in Read(b) PROVE glossary = o.glossary
  <2>1. Glossary \in Inputs[b]
    BY <1>5, NamesAssumption DEF Read, Relations
  <2>2. Appended(o) /\ Numbered(glossary)
    BY <1>0, <2>1 DEF AsOf, NoneTold
  <2>3. Glossary \in NamesOf(m)
    <3>1. <<Glossary, TopSeq(o.glossary)>> \in m.pin
      BY DEF PinnedIn
    <3>2. All \notin Inputs[b] => Glossary \in m.reads
      BY <2>1, <1>0, ConstantsAssumption, NamesAssumption DEF ReadsIn, Relations
    <3>3. CASE All \in m.reads
      BY <3>1, <3>3 DEF NamesOf
    <3>4. CASE All \notin m.reads
      BY <3>2, <3>4 DEF ReadsIn, NamesOf
    <3> QED BY <3>3, <3>4
  <2>4. TopSeq(o.glossary) = TopSeq(glossary)
    BY <2>3, SameTop
  <2> QED BY <2>2, <2>4, SameGlossary
<1>6. ASSUME NEW i \in Read(b) PROVE Content(i) = ContentOf(o, i)
  <2>1. CASE i \in Tables
    <3>1. at[i] = o.at[i]
      BY <1>3, <2>1 DEF Relations
    <3>2. Content(i) = <<at[i]>>
      BY <2>1, ConstantsAssumption, NamesAssumption DEF Content, Relations
    <3>3. ContentOf(o, i) = <<o.at[i]>>
      BY <2>1, ConstantsAssumption DEF ContentOf
    <3> QED BY <3>1, <3>2, <3>3
  <2>2. CASE i = View
    <3>1. View \in Read(b) /\ View \in Relations /\ o.viewOn \in Relations /\ View \notin Tables
      BY <1>0, <2>2, ConstantsAssumption DEF Relations
    <3>2. at[View] = o.at[View] /\ at[o.viewOn] = o.at[o.viewOn] /\ viewOn = o.viewOn
      BY <1>3, <1>4, <3>1
    <3>3. Content(View) = <<at[View], viewOn, at[viewOn]>>
      BY <3>1, NamesAssumption DEF Content
    <3>4. ContentOf(o, View) = <<o.at[View], o.viewOn, o.at[o.viewOn]>>
      BY <3>1 DEF ContentOf
    <3> QED BY <2>2, <3>2, <3>3, <3>4
  <2>3. CASE i = Glossary
    <3>1. i \notin Tables /\ i # View
      BY <2>3, NamesAssumption DEF Relations
    <3> QED BY <1>5, <2>3, <3>1 DEF Content, ContentOf
  <2> QED BY <1>2, <2>1, <2>2, <2>3
<1>7. {<<i, Content(i)>> : i \in Read(b)} = {<<i, ContentOf(o, i)>> : i \in Read(b)}
  BY <1>6
<1> QED
  BY <1>7 DEF SawIn, Compute

-----------------------------------------------------------------------------
(* Steps, on any number of connections.                                     *)

IsWork(w) == DOMAIN w = {"reads", "value", "pin", "row", "clean"}

Typed ==
  /\ World
  /\ macro = {} \/ \E b \in Bodies : macro = {b}
  /\ pc \in [Conns -> {"idle", "glossing", "declaring", "missed", "planned", "ran", "pinned"}]
  /\ DOMAIN work = Conns
  /\ \A c \in Conns : IsWork(work[c])

\* The glossary grows by rows above its top.
Grows ==
  /\ Numbered(glossary)
  /\ glossary \subseteq glossary'
  /\ \A r \in glossary' \ glossary : r.seq \in Nat /\ TopSeq(glossary) < r.seq

LEMMA StirredIs ==
  ASSUME Typed
  PROVE  /\ DOMAIN Stirred(work) = Conns
         /\ \A c \in Conns :
              /\ IsWork(Stirred(work)[c])
              /\ Stirred(work)[c].clean = (work[c].clean /\ pc[c] = "pinned")
              /\ Stirred(work)[c].value = work[c].value
              /\ Stirred(work)[c].reads = work[c].reads
              /\ Stirred(work)[c].pin = work[c].pin
              /\ Stirred(work)[c].row = work[c].row
BY DEF Typed, IsWork, Stirred

LEMMA NoWorkIs == IsWork(NoWork) /\ NoWork.clean = FALSE
BY DEF NoWork, IsWork

LEMMA TypedStep == Typed /\ [Next]_vars => Typed'
<1> SUFFICES ASSUME Typed, [Next]_vars PROVE Typed'
  OBVIOUS
<1> USE DEF Typed, World
<1>1. ASSUME NEW c \in Conns, NEW t \in Tables, Write(c, t) PROVE Typed'
  BY <1>1, StirredIs DEF Write, Relations
<1>2. ASSUME NEW c \in Conns, NEW t \in Tables, Define(c, t) PROVE Typed'
  BY <1>2, StirredIs DEF Define, Relations
<1>3. ASSUME NEW c \in Conns, NEW r \in Relations, Drop(c, r) PROVE Typed'
  BY <1>3, StirredIs DEF Drop
<1>4. ASSUME NEW c \in Conns, BeginGloss(c) PROVE Typed'
  BY <1>4 DEF BeginGloss, IsWork
<1>5. ASSUME NEW c \in Conns, CommitGloss(c) PROVE Typed'
  BY <1>5, StirredIs, NoWorkIs DEF CommitGloss
<1>6. ASSUME NEW c \in Conns, DeleteGloss(c) \/ LandOther(c) PROVE Typed'
  BY <1>6, StirredIs DEF DeleteGloss, LandOther
<1>7. ASSUME NEW c \in Conns, NEW body \in Bodies, DeclareMacro(c, body) PROVE Typed'
  <2>1. /\ DOMAIN work' = Conns
        /\ \A d \in Conns : IsWork(work'[d])
    BY <1>7, StirredIs DEF DeclareMacro, IsWork
  <2> QED BY <1>7, <2>1 DEF DeclareMacro
<1>8. ASSUME NEW c \in Conns, DeclareRow(c) \/ DeclareFails(c) \/ ExtractFails(c) \/ Land(c) PROVE Typed'
  BY <1>8, NoWorkIs DEF DeclareRow, DeclareFails, ExtractFails, Land
<1>9. ASSUME NEW c \in Conns, Answer(c) \/ Miss(c) PROVE Typed'
  BY <1>9 DEF Answer, Miss, vars
<1>10. ASSUME NEW c \in Conns, PlanReads(c) \/ RunBody(c) \/ TakePin(c) PROVE Typed'
  BY <1>10 DEF PlanReads, RunBody, TakePin, IsWork
<1>11. CASE UNCHANGED vars
  BY <1>11 DEF vars
<1> QED
  BY <1>1, <1>2, <1>3, <1>4, <1>5, <1>6, <1>7, <1>8, <1>9, <1>10, <1>11 DEF Next, Keep

\* What moves of the world: a view defined anew is of a snapshot of its own.
LEMMA WorldMoves ==
  ASSUME Typed, [Next]_vars
  PROVE  /\ lake' \in {lake, lake + 1}
         /\ \/ at'[View] = at[View] /\ viewOn' = viewOn
            \/ at'[View] = lake + 1
            \/ at'[View] = 0
<1> USE ConstantsAssumption DEF Typed, World, Relations
<1>1. ASSUME NEW c \in Conns, NEW t \in Tables, Write(c, t)
      PROVE  lake' = lake + 1 /\ at'[View] = at[View] /\ viewOn' = viewOn
  BY <1>1 DEF Write
<1>2. ASSUME NEW c \in Conns, NEW t \in Tables, Define(c, t)
      PROVE  lake' = lake + 1 /\ at'[View] = lake + 1
  BY <1>2 DEF Define
<1>3. ASSUME NEW c \in Conns, NEW r \in Relations, Drop(c, r)
      PROVE  lake' = lake + 1 /\ (at'[View] = 0 \/ at'[View] = at[View]) /\ viewOn' = viewOn
  BY <1>3 DEF Drop
<1>4. CASE UNCHANGED <<lake, at, viewOn>>
  BY <1>4
<1> QED
  BY <1>1, <1>2, <1>3, <1>4
  DEF Next, Keep, BeginGloss, CommitGloss, DeleteGloss, LandOther, DeclareMacro, DeclareRow,
      DeclareFails, Answer, Miss, PlanReads, RunBody, TakePin, Land, ExtractFails, vars

\* A part of the glossary has no higher top.
LEMMA PartTop ==
  ASSUME Numbered(glossary), NEW part, part \subseteq glossary
  PROVE  TopSeq(part) \in Nat /\ TopSeq(part) <= TopSeq(glossary)
<1> DEFINE S == {r.seq : r \in part}
<1>1. TopSeq(glossary) \in Nat /\ \A r \in glossary : r.seq \in Nat /\ r.seq <= TopSeq(glossary)
  BY TopSeqBounds
<1>2. S \in SUBSET Nat /\ \A n \in S : n <= TopSeq(glossary)
  BY <1>1
<1>3. MaxOf(S) \in Nat /\ MaxOf(S) <= TopSeq(glossary)
  <2> HIDE DEF S
  <2> QED BY <1>1, <1>2, MaxOfBounded
<1> QED BY <1>3 DEF TopSeq

\* A past world stays past.
LEMMA AsOfStays ==
  ASSUME Typed, [Next]_vars, NoneTold \/ Grows, NEW o, AsOf(o)
  PROVE  AsOf(o)'
<1>0. lake \in Nat /\ at \in [Relations -> Nat] /\ \A r \in Relations : at[r] <= lake
  BY DEF Typed, World
<1>1. View \in Relations /\ o.at[View] \in Nat /\ o.at[View] <= lake
  BY ConstantsAssumption DEF AsOf, Relations
<1>2. \A r \in Relations : o.at[r] \in Nat /\ o.at[r] <= lake'
  BY <1>0, WorldMoves DEF AsOf
<1>3. o.at[View] = at'[View] /\ at'[View] > 0 => o.viewOn = viewOn'
  BY <1>0, <1>1, WorldMoves DEF AsOf
<1>4. ASSUME Grows, Appended(o) PROVE Appended(o)'
  <2>1. TopSeq(o.glossary) \in Nat /\ TopSeq(o.glossary) <= TopSeq(glossary) /\ TopSeq(glossary) \in Nat
    BY <1>4, PartTop, TopSeqBounds DEF Appended, Grows
  <2>2. CASE glossary' = glossary
    BY <1>4, <2>2 DEF Appended
  <2>3. ASSUME NEW r \in glossary' \ o.glossary, r \notin glossary PROVE TopSeq(o.glossary) < r.seq
    <3>1. r.seq \in Nat /\ TopSeq(glossary) < r.seq
      BY <1>4, <2>3 DEF Grows
    <3> QED BY <1>4, <2>1, <3>1 DEF Grows
  <2> QED
    BY <1>4, <2>3 DEF Appended, Grows
<1> QED
  BY <1>2, <1>3, <1>4 DEF AsOf

-----------------------------------------------------------------------------
(* What was read while nothing stirred.                                     *)

Computed(value, reads, pin) ==
  \E o, b : AsOf(o) /\ ComputedIn(o, b, value, reads, pin)

\* From its plan to its pin a clean extraction is of the world as it is, then of the
\* world it was pinned in.
Clean(c) ==
  work[c].clean =>
    /\ pc[c] = "planned" => \E b \in Bodies : macro = {b} /\ Binds(b) /\ work[c].reads = ReadsOf(b)
    /\ pc[c] = "ran" => \E b \in Bodies : /\ Binds(b) /\ work[c].reads = ReadsOf(b)
                                        /\ work[c].value = {Compute(b)}
    /\ pc[c] = "pinned" => Computed(work[c].value, work[c].reads, work[c].pin)

Measured == \A m \in measurements : m.clean => Computed(m.value, m.reads, m.pin)

LEMMA ComputedStays ==
  ASSUME Typed, [Next]_vars, NoneTold \/ Grows, NEW value, NEW reads, NEW pin,
         Computed(value, reads, pin)
  PROVE  Computed(value, reads, pin)'
<1>1. PICK o, b : AsOf(o) /\ ComputedIn(o, b, value, reads, pin)
  BY DEF Computed
<1>2. AsOf(o)'
  BY <1>1, AsOfStays
<1> QED
  BY <1>1, <1>2 DEF Computed

\* What is computed, named and pinned in the present is so in a past world.
LEMMA PinNow ==
  ASSUME Typed, Followed, NoneTold \/ Numbered(glossary), NEW b \in Bodies, Binds(b)
  PROVE  Computed({Compute(b)}, ReadsOf(b), PinOf(ReadsOf(b)))
<1> DEFINE o == Now
           reads == ReadsOf(b)
<1>1. World /\ o.at = at /\ o.viewOn = viewOn /\ o.glossary = glossary
  BY DEF Typed, Now
<1>2. AsOf(o)
  BY <1>1 DEF World, AsOf, Appended
<1>3. \A i \in Read(b) : Content(i) = ContentOf(o, i)
  <2>1. Inputs[b] \subseteq Relations \cup {Glossary, Landed, Star, All} /\ Landed \notin Inputs[b]
    BY ConstantsAssumption DEF Followed
  <2>2. Read(b) \subseteq Tables \cup {View, Glossary}
    BY <2>1, NamesAssumption DEF Read, Relations
  <2>3. ASSUME NEW i \in Tables PROVE Content(i) = ContentOf(o, i)
    <3>1. Content(i) = <<at[i]>>
      BY <2>3, ConstantsAssumption, NamesAssumption DEF Content, Relations
    <3>2. ContentOf(o, i) = <<o.at[i]>>
      BY <2>3, ConstantsAssumption DEF ContentOf
    <3> QED BY <1>1, <3>1, <3>2
  <2>4. Content(View) = ContentOf(o, View)
    <3>1. View \notin Tables /\ View # Glossary
      BY ConstantsAssumption, NamesAssumption DEF Relations
    <3>2. Content(View) = <<at[View], viewOn, at[viewOn]>>
      BY <3>1 DEF Content
    <3>3. ContentOf(o, View) = <<o.at[View], o.viewOn, o.at[o.viewOn]>>
      BY <3>1 DEF ContentOf
    <3> QED BY <1>1, <3>2, <3>3
  <2>5. Content(Glossary) = ContentOf(o, Glossary)
    <3>1. Glossary \notin Tables /\ Glossary # View
      BY NamesAssumption DEF Relations
    <3>2. Content(Glossary) = <<glossary>>
      BY <3>1 DEF Content
    <3>3. ContentOf(o, Glossary) = <<o.glossary>>
      BY <3>1 DEF ContentOf
    <3> QED BY <1>1, <3>2, <3>3
  <2> QED BY <2>2, <2>3, <2>4, <2>5
<1>4. SawIn(o, b, {Compute(b)})
  <2>1. {<<i, Content(i)>> : i \in Read(b)} = {<<i, ContentOf(o, i)>> : i \in Read(b)}
    BY <1>3
  <2> QED BY <2>1 DEF SawIn, Compute
<1>5. reads = ReadsIn(o, b)
  BY <1>1 DEF ReadsOf, ReadsIn
<1>6. PinnedIn(o, reads, PinOf(reads))
  <2> HIDE DEF reads
  <2>1. ASSUME NEW r \in Relations, r \in Dataset \cup reads, NEW x
        PROVE  <<r, x>> \in PinOf(reads) <=> x = o.at[r] /\ x > 0
    BY <1>1, <2>1, LegsAre DEF PinOf
  <2>2. ASSUME NEW x PROVE <<Glossary, x>> \in PinOf(reads) <=> x = TopSeq(o.glossary)
    BY <1>1, LegsAre DEF PinOf, StoreLegs
  <2> QED BY <2>1, <2>2 DEF PinnedIn
<1>7. View \in Inputs[b] => o.at[View] > 0
  BY <1>1 DEF Binds
<1>8. ComputedIn(o, b, {Compute(b)}, reads, PinOf(reads))
  BY <1>4, <1>5, <1>6, <1>7 DEF ComputedIn
<1> QED
  BY <1>2, <1>8 DEF Computed

\* A step finds an extraction as it was in a world that stands still, or stirs it, or
\* is its own.
Still(c) ==
  /\ UNCHANGED <<at, viewOn, glossary, macro, others>>
  /\ work'[c] = work[c] /\ pc'[c] = pc[c]

Stirs(c) ==
  work'[c].clean =>
    /\ work[c].clean /\ pc[c] = "pinned" /\ pc'[c] = "pinned"
    /\ work'[c].value = work[c].value /\ work'[c].reads = work[c].reads /\ work'[c].pin = work[c].pin

LEMMA StepsOf ==
  ASSUME Typed, [Next]_vars, NEW c \in Conns
  PROVE  \/ Still(c) \/ Stirs(c)
         \/ pc'[c] \in {"idle", "glossing", "declaring", "missed"}
         \/ PlanReads(c) \/ RunBody(c) \/ TakePin(c)
<1> USE DEF Still, Stirs
<1> DEFINE Goal == \/ Still(c) \/ Stirs(c)
                   \/ pc'[c] \in {"idle", "glossing", "declaring", "missed"}
                   \/ PlanReads(c) \/ RunBody(c) \/ TakePin(c)
<1>1. ASSUME NEW d \in Conns, NEW t \in Tables, Write(d, t) \/ Define(d, t) PROVE Goal
  BY <1>1, StirredIs DEF Write, Define
<1>2. ASSUME NEW d \in Conns, NEW r \in Relations, Drop(d, r) PROVE Goal
  BY <1>2, StirredIs DEF Drop
<1>3. ASSUME NEW d \in Conns, BeginGloss(d) \/ Miss(d) PROVE Goal
  BY <1>3 DEF BeginGloss, Miss, Typed
<1>4. ASSUME NEW d \in Conns, CommitGloss(d) PROVE Goal
  BY <1>4, StirredIs DEF CommitGloss, Typed
<1>5. ASSUME NEW d \in Conns, DeleteGloss(d) \/ LandOther(d) PROVE Goal
  BY <1>5, StirredIs DEF DeleteGloss, LandOther
<1>6. ASSUME NEW d \in Conns, NEW body \in Bodies, DeclareMacro(d, body) PROVE Goal
  <2>1. CASE c = d
    BY <1>6, <2>1 DEF DeclareMacro, Typed
  <2>2. CASE c # d
    BY <1>6, <2>2, StirredIs DEF DeclareMacro, Typed
  <2> QED BY <2>1, <2>2
<1>7. ASSUME NEW d \in Conns, DeclareRow(d) \/ DeclareFails(d) \/ ExtractFails(d) \/ Land(d) PROVE Goal
  BY <1>7 DEF DeclareRow, DeclareFails, ExtractFails, Land, Typed
<1>8. ASSUME NEW d \in Conns, Answer(d) PROVE Goal
  BY <1>8 DEF Answer, vars
<1>9. ASSUME NEW d \in Conns, PlanReads(d) \/ RunBody(d) \/ TakePin(d) PROVE Goal
  <2>1. CASE c = d
    BY <1>9, <2>1
  <2>2. CASE c # d
    BY <1>9, <2>2 DEF PlanReads, RunBody, TakePin, Typed
  <2> QED BY <2>1, <2>2
<1>10. CASE UNCHANGED vars
  BY <1>10 DEF vars
<1> QED
  BY <1>1, <1>2, <1>3, <1>4, <1>5, <1>6, <1>7, <1>8, <1>9, <1>10 DEF Next, Keep

\* So it stays, of an extraction that keeps what it carries.
LEMMA KeptComputed ==
  ASSUME Typed, [Next]_vars, NoneTold \/ Grows, NEW c \in Conns,
         work'[c].value = work[c].value, work'[c].reads = work[c].reads, work'[c].pin = work[c].pin,
         Computed(work[c].value, work[c].reads, work[c].pin)
  PROVE  Computed(work[c].value, work[c].reads, work[c].pin)'
<1>1. ASSUME NEW value, NEW reads, NEW pin, Computed(value, reads, pin),
             work'[c].value = value, work'[c].reads = reads, work'[c].pin = pin
      PROVE  Computed(work[c].value, work[c].reads, work[c].pin)'
  <2>1. Computed(value, reads, pin)'
    BY <1>1, ComputedStays
  <2> QED BY <1>1, <2>1
<1> QED BY <1>1

LEMMA CleanStep ==
  ASSUME Typed, Followed, NoneTold \/ Numbered(glossary), NoneTold \/ Grows, [Next]_vars,
         NEW c \in Conns, Clean(c)
  PROVE  Clean(c)'
<1>1. CASE Still(c)
  <2>1. ASSUME NEW b \in Bodies
        PROVE  (Binds(b) => Binds(b)') /\ ReadsOf(b)' = ReadsOf(b) /\ Compute(b)' = Compute(b)
    BY <1>1 DEF Still, Binds, ReadsOf, Compute, Content
  <2>2. Computed(work[c].value, work[c].reads, work[c].pin)
          => Computed(work[c].value, work[c].reads, work[c].pin)'
    BY <1>1, KeptComputed DEF Still
  <2>3. SUFFICES ASSUME work[c].clean PROVE Clean(c)'
    BY <1>1 DEF Still, Clean
  <2>4. pc[c] = "planned" => \E b \in Bodies :
          macro' = {b} /\ Binds(b)' /\ work'[c].reads = ReadsOf(b)'
    BY <1>1, <2>1, <2>3 DEF Still, Clean
  <2>5. pc[c] = "ran" => \E b \in Bodies :
          Binds(b)' /\ work'[c].reads = ReadsOf(b)' /\ work'[c].value = {Compute(b)'}
    BY <1>1, <2>1, <2>3 DEF Still, Clean
  <2>6. pc[c] = "pinned" => Computed(work[c].value, work[c].reads, work[c].pin)'
    BY <2>2, <2>3 DEF Clean
  <2> QED
    BY <1>1, <2>4, <2>5, <2>6 DEF Still, Clean
<1>2. CASE Stirs(c)
  <2>1. SUFFICES ASSUME work'[c].clean PROVE Clean(c)'
    BY DEF Clean
  <2>2. Computed(work[c].value, work[c].reads, work[c].pin)'
    BY <1>2, <2>1, KeptComputed DEF Stirs, Clean
  <2> QED
    BY <1>2, <2>1, <2>2 DEF Stirs, Clean
<1>3. CASE pc'[c] \in {"idle", "glossing", "declaring", "missed"}
  BY <1>3 DEF Clean
<1>4. CASE PlanReads(c)
  <2>1. pc'[c] = "planned"
    BY <1>4 DEF PlanReads, Typed
  <2>2. PICK b \in Bodies : macro = {b} /\ Binds(b) /\ work'[c].reads = ReadsOf(b)
    BY <1>4 DEF PlanReads, Typed, IsWork
  <2>3. Binds(b)' /\ ReadsOf(b)' = ReadsOf(b) /\ macro' = macro
    BY <1>4, <2>2 DEF PlanReads, Binds, ReadsOf
  <2> QED
    BY <2>1, <2>2, <2>3 DEF Clean
<1>5. CASE RunBody(c)
  <2>0. pc[c] = "planned" /\ pc'[c] = "ran" /\ work'[c].clean = work[c].clean /\ work'[c].reads = work[c].reads
    BY <1>5 DEF RunBody, Typed, IsWork
  <2>1. SUFFICES ASSUME work[c].clean PROVE Clean(c)'
    BY <2>0 DEF Clean
  <2>2. PICK b \in Bodies : macro = {b} /\ Binds(b) /\ work[c].reads = ReadsOf(b)
    BY <2>0, <2>1 DEF Clean
  <2>3. work'[c].value = {Compute(b)}
    BY <1>5, <2>2 DEF RunBody, Typed, IsWork
  <2>4. Binds(b)' /\ ReadsOf(b)' = ReadsOf(b) /\ Compute(b)' = Compute(b)
    BY <1>5, <2>2 DEF RunBody, Binds, ReadsOf, Compute, Content
  <2> QED
    BY <2>0, <2>2, <2>3, <2>4 DEF Clean
<1>6. CASE TakePin(c)
  <2>0. /\ pc[c] = "ran" /\ pc'[c] = "pinned" /\ work'[c].clean = work[c].clean
        /\ work'[c].reads = work[c].reads /\ work'[c].value = work[c].value
        /\ work'[c].pin = PinOf(work[c].reads)
    BY <1>6 DEF TakePin, Typed, IsWork
  <2>1. SUFFICES ASSUME work[c].clean PROVE Clean(c)'
    BY <2>0 DEF Clean
  <2>2. PICK b \in Bodies : Binds(b) /\ work[c].reads = ReadsOf(b) /\ work[c].value = {Compute(b)}
    BY <2>0, <2>1 DEF Clean
  <2>3. Computed(work'[c].value, work'[c].reads, work'[c].pin)
    BY <2>0, <2>2, PinNow
  <2>4. ASSUME NEW value, NEW reads, NEW pin, Computed(value, reads, pin)
        PROVE  Computed(value, reads, pin)'
    BY <2>4, ComputedStays
  <2>5. ASSUME NEW value, NEW reads, NEW pin, Computed(value, reads, pin),
               work'[c].value = value, work'[c].reads = reads, work'[c].pin = pin
        PROVE  Clean(c)'
    BY <2>0, <2>4, <2>5 DEF Clean
  <2> QED BY <2>3, <2>5
<1> QED
  BY <1>1, <1>2, <1>3, <1>4, <1>5, <1>6, StepsOf

LEMMA MeasuredStep ==
  ASSUME Typed, NoneTold \/ Grows, [Next]_vars, Measured, \A c \in Conns : Clean(c)
  PROVE  Measured'
<1>1. ASSUME NEW m \in measurements, m.clean PROVE Computed(m.value, m.reads, m.pin)'
  <2>1. Computed(m.value, m.reads, m.pin)
    BY <1>1 DEF Measured
  <2> QED BY <2>1, ComputedStays
<1>2. ASSUME NEW c \in Conns, Land(c), NEW m \in measurements' \ measurements, m.clean
      PROVE  Computed(m.value, m.reads, m.pin)'
  <2>1. m.value = work[c].value /\ m.reads = work[c].reads /\ m.pin = work[c].pin
        /\ work[c].clean /\ pc[c] = "pinned"
    BY <1>2 DEF Land
  <2>2. Computed(m.value, m.reads, m.pin)
    BY <2>1 DEF Clean
  <2> QED BY <2>2, ComputedStays
<1>3. measurements' # measurements => \E c \in Conns : Land(c)
  BY DEF Next, Keep, Write, Define, Drop, BeginGloss, CommitGloss, DeleteGloss, LandOther, DeclareMacro,
         DeclareRow, DeclareFails, Answer, Miss, PlanReads, RunBody, TakePin, ExtractFails, vars
<1>4. ASSUME NEW m \in measurements', m.clean PROVE Computed(m.value, m.reads, m.pin)'
  BY <1>1, <1>2, <1>3, <1>4
<1> QED
  BY <1>4 DEF Measured

\* What stands, of those, is current.
LEMMA MeasuredIsCurrent ==
  ASSUME Typed, Followed, NoneTold \/ Numbered(glossary), Measured
  PROVE  CleanCurrent
<1> SUFFICES ASSUME NEW m \in measurements, m.clean, Stands(m), NEW v \in m.value
             PROVE  v = Compute(v.body)
  BY DEF CleanCurrent
<1>1. PICK o, b : AsOf(o) /\ ComputedIn(o, b, m.value, m.reads, m.pin)
  BY DEF Measured, Computed
<1>2. m.value = {Compute(b)}
  BY <1>1, SeesTheSame DEF Typed
<1>3. Compute(b).body = b
  BY DEF Compute
<1> QED
  BY <1>2, <1>3

\* With any connections interleaved at any boundary, of bodies that read no glossary
\* and whose reads the pin follows: a row whose inputs stood still from its plan to its
\* pin stands only while its body would compute the same.
THEOREM CleanIsCurrent == ASSUME Followed, NoneTold PROVE Spec => []CleanCurrent
<1> DEFINE I == Typed /\ (\A c \in Conns : Clean(c)) /\ Measured
<1>1. Init => I
  <2>1. Init => Typed
    BY NoWorkIs DEF Init, Typed, World
  <2>2. Init => (\A c \in Conns : Clean(c)) /\ Measured
    BY DEF Init, Clean, Measured
  <2> QED BY <2>1, <2>2
<1>2. I /\ [Next]_vars => I'
  BY TypedStep, CleanStep, MeasuredStep
<1>3. I => CleanCurrent
  BY MeasuredIsCurrent
<1> QED
  BY <1>1, <1>2, <1>3, PTL DEF Spec

\* With any connections at any boundary: a write to what a row's reads do not name
\* neither ends the row nor revives it, whatever it lands in the lake.
THEOREM WritesAreScoped == Spec => WriteScoped
<1>1. [Next]_vars =>
        [\A m \in measurements :
           /\ m.reads \cap {Star, All} = {}
           /\ \A r \in m.reads \cap Relations : at'[r] = at[r]
           /\ UNCHANGED <<glossary, functions>>
           => (Stands(m)' <=> Stands(m))]_vars
  <2> SUFFICES ASSUME NEW m \in measurements, m.reads \cap {Star, All} = {},
                      \A r \in m.reads \cap Relations : at'[r] = at[r],
                      UNCHANGED <<glossary, functions>>
               PROVE  Stands(m)' <=> Stands(m)
    OBVIOUS
  <2>1. NamesOf(m) = m.reads /\ Star \notin m.reads
    BY DEF NamesOf
  <2>2. ASSUME NEW leg PROVE leg \in Selected(m, Legs)' <=> leg \in Selected(m, Legs)
    BY <2>1, <2>2 DEF Selected, NamesOf, Legs
  <2>3. Selected(m, Legs)' = Selected(m, Legs)
    BY <2>2 DEF Selected
  <2>4. Selected(m, m.pin)' = Selected(m, m.pin) /\ DeclaredAt' = DeclaredAt
    BY DEF Selected, NamesOf, DeclaredAt
  <2> QED BY <2>3, <2>4 DEF Stands
<1> QED BY <1>1, PTL DEF Spec, WriteScoped

-----------------------------------------------------------------------------
(* One connection, that deletes no gloss.                                   *)

Extract(c) == Answer(c) \/ Miss(c) \/ PlanReads(c) \/ RunBody(c) \/ TakePin(c) \/ Land(c) \/ ExtractFails(c)

Statement(c) ==
  \/ \E t \in Tables : Write(c, t) \/ Define(c, t)
  \/ \E r \in Relations : Drop(c, r)
  \/ BeginGloss(c) \/ CommitGloss(c) \/ LandOther(c)
  \/ \E body \in Bodies : DeclareMacro(c, body)
  \/ DeclareRow(c) \/ DeclareFails(c)
  \/ Extract(c)
  \/ UNCHANGED vars

\* A gloss is numbered above the rows that are there as it commits.
Told(c) ==
  /\ Numbered(glossary)
  /\ pc[c] = "glossing" => \E row : work[c].row = {row} /\ row.seq = TopSeq(glossary) + 1

\* Nothing stirs an extraction but its own connection.
AllClean(c) ==
  /\ pc[c] \in {"planned", "ran", "pinned"} => work[c].clean
  /\ \A m \in measurements : m.clean

\* The one declaration that is newest.
Single == \A q, r \in Newest(functions) : q = r

Timed ==
  /\ clock \in Nat
  /\ \A f \in functions : f.at \in Nat /\ f.at <= clock
  /\ \A m \in measurements : m.at \in Nat /\ m.at <= clock

\* While the macro is the newest declaration's, what was computed since that declaration
\* is its body's: a macro that left it, by a declaration half made, does not come back
\* to it but with another declaration.
Declared(c) ==
  /\ Numbered(functions) /\ Single /\ Timed
  /\ pc[c] = "declaring" => \E body \in Bodies : work[c].value = {body} /\ macro = {body}
  /\ \A f \in Newest(functions) : macro = {f.body} =>
       /\ pc[c] \in {"ran", "pinned"} => \A v \in work[c].value : v.body = f.body
       /\ \A m \in measurements : m.at >= DeclaredAt => \A v \in m.value : v.body = f.body

Inv(c) ==
  /\ Typed /\ (\A d \in Conns : Clean(d)) /\ Measured
  /\ Told(c) /\ AllClean(c) /\ Declared(c)

LEMMA ToldStep ==
  ASSUME NEW c \in Conns, Typed, Told(c), Statement(c)
  PROVE  Grows /\ Told(c)'
<1> USE DEF Typed, IsWork
<1>1. TopSeq(glossary) \in Nat
  BY TopSeqBounds DEF Told
<1>2. CASE CommitGloss(c)
  <2>1. PICK row : work[c].row = {row} /\ row.seq = TopSeq(glossary) + 1
    BY <1>2 DEF CommitGloss, Told
  <2>2. glossary' = glossary \cup {row} /\ pc'[c] = "idle"
    BY <1>2, <2>1 DEF CommitGloss
  <2>3. Numbered(glossary \cup {row})
    BY <2>1, NextIsNewest DEF Told
  <2>4. Numbered(glossary')
    BY <2>2, <2>3
  <2> QED BY <1>1, <2>1, <2>2, <2>4 DEF Grows, Told
<1>3. CASE BeginGloss(c)
  <2> DEFINE row == [seq |-> TopSeq(glossary) + 1, id |-> clock + 1]
  <2>0. row.seq = TopSeq(glossary) + 1
    OBVIOUS
  <2>1. glossary' = glossary /\ work'[c].row = {row}
    BY <1>3 DEF BeginGloss
  <2>2. \E q : work'[c].row = {q} /\ q.seq = TopSeq(glossary) + 1
    <3> HIDE DEF row
    <3> QED BY <2>0, <2>1
  <2> QED BY <2>1, <2>2 DEF Grows, Told
<1>4. CASE ~ CommitGloss(c) /\ ~ BeginGloss(c)
  <2>1. glossary' = glossary /\ (pc'[c] # "glossing" \/ (pc'[c] = pc[c] /\ work'[c] = work[c]))
    BY <1>4 DEF Statement, Extract, Write, Define, Drop, LandOther, DeclareMacro, DeclareRow, DeclareFails,
                Answer, Miss,
                PlanReads, RunBody, TakePin, Land, ExtractFails, vars
  <2> QED BY <2>1 DEF Grows, Told
<1> QED BY <1>2, <1>3, <1>4

LEMMA AllCleanStep ==
  ASSUME NEW c \in Conns, Typed, AllClean(c), Statement(c)
  PROVE  AllClean(c)'
<1> USE DEF Typed, IsWork, AllClean
<1>1. CASE PlanReads(c) \/ RunBody(c) \/ TakePin(c)
  <2>1. measurements' = measurements /\ work'[c].clean
    <3>1. CASE PlanReads(c)
      BY <3>1 DEF PlanReads
    <3>2. CASE RunBody(c)
      BY <3>2 DEF RunBody
    <3>3. CASE TakePin(c)
      BY <3>3 DEF TakePin
    <3> QED BY <1>1, <3>1, <3>2, <3>3
  <2> QED BY <2>1
<1>2. CASE Land(c)
  BY <1>2 DEF Land
<1>3. CASE UNCHANGED vars
  BY <1>3 DEF vars
<1>4. CASE ~ (PlanReads(c) \/ RunBody(c) \/ TakePin(c)) /\ ~ Land(c) /\ vars' # vars
  <2>1. measurements' = measurements /\ pc'[c] \notin {"planned", "ran", "pinned"}
    BY <1>4 DEF Statement, Extract, Write, Define, Drop, BeginGloss, CommitGloss, LandOther, DeclareMacro,
                DeclareRow, DeclareFails, Answer, Miss, ExtractFails, vars
  <2> QED BY <2>1
<1> QED BY <1>1, <1>2, <1>3, <1>4

\* The latest of rows' times is as late as each.
LEMMA DeclaredAtIs ==
  ASSUME NEW rows, NEW now \in Nat, \A f \in rows : f.at \in Nat /\ f.at <= now
  PROVE  MaxOf({f.at : f \in rows}) \in Nat /\ \A r \in rows : r.at <= MaxOf({f.at : f \in rows})
<1> DEFINE S == {f.at : f \in rows}
<1>1. S \in SUBSET Nat /\ \A n \in S : n <= now
  OBVIOUS
<1>2. MaxOf(S) \in Nat /\ \A n \in S : n <= MaxOf(S)
  <2> HIDE DEF S
  <2> QED BY <1>1, MaxOfBounded
<1> QED BY <1>2

LEMMA DeclaredStep ==
  ASSUME NEW c \in Conns, Typed, Declared(c), Statement(c)
  PROVE  Declared(c)'
<1>0. Timed /\ clock \in Nat
  BY DEF Declared, Timed
<1>1. CASE DeclareRow(c)
  <2>1. PICK body \in Bodies : work[c].value = {body} /\ macro = {body}
    BY <1>1 DEF DeclareRow, Declared
  <2> DEFINE f == [seq |-> TopSeq(functions) + 1, body |-> body, at |-> clock + 1]
  <2>2. /\ functions' = functions \cup {f} /\ macro' = macro /\ clock' = clock + 1
        /\ measurements' = measurements /\ pc'[c] = "idle"
    BY <1>1, <2>1 DEF DeclareRow, Typed
  <2>3. Newest(functions \cup {f}) = {f} /\ Numbered(functions \cup {f})
    BY NextIsNewest DEF Declared
  <2>4. Newest(functions') = {f} /\ Numbered(functions')
    BY <2>2, <2>3
  <2>5. Timed'
    BY <1>0, <2>2 DEF Timed
  <2>6. \A m \in measurements' : ~ (m.at >= DeclaredAt')
    <3>1. DeclaredAt' \in Nat /\ \A g \in functions' : g.at <= DeclaredAt'
      BY <2>5, DeclaredAtIs DEF Timed, DeclaredAt
    <3>2. clock + 1 <= DeclaredAt'
      <4>1. f \in functions' /\ f.at = clock + 1
        BY <2>2
      <4> QED
        <5> HIDE DEF f
        <5> QED BY <3>1, <4>1
    <3>3. \A m \in measurements' : m.at \in Nat /\ m.at <= clock
      BY <1>0, <2>2 DEF Timed
    <3> QED BY <1>0, <3>1, <3>2, <3>3
  <2>7. Single'
    BY <2>4 DEF Single
  <2> QED
    BY <2>2, <2>4, <2>5, <2>6, <2>7 DEF Declared
<1>2. ASSUME NEW body \in Bodies, DeclareMacro(c, body) PROVE Declared(c)'
  <2>1. /\ UNCHANGED <<functions, measurements, clock>>
        /\ pc'[c] = "declaring" /\ work'[c].value = {body} /\ macro' = {body}
        /\ \A f \in Newest(functions) : f.body # body
    BY <1>2, StirredIs DEF DeclareMacro, Typed, IsWork
  <2> QED
    BY <2>1 DEF Declared, Single, Timed, DeclaredAt
<1>3. CASE RunBody(c)
  <2>1. /\ UNCHANGED <<functions, measurements, clock, macro>>
        /\ pc[c] = "planned" /\ pc'[c] = "ran"
        /\ \E b \in macro : work'[c].value = {Compute(b)}
    BY <1>3 DEF RunBody, Typed, IsWork
  <2>2. \A f \in Newest(functions) : macro = {f.body} => \A v \in work'[c].value : v.body = f.body
    BY <2>1 DEF Compute
  <2> QED
    BY <2>1, <2>2 DEF Declared, Single, Timed, DeclaredAt
<1>4. CASE Land(c)
  <2> DEFINE row == [seq |-> TopSeq(measurements) + 1, reads |-> work[c].reads, pin |-> work[c].pin,
                     value |-> work[c].value, at |-> clock, clean |-> work[c].clean]
  <2>1. /\ UNCHANGED <<functions, clock, macro>>
        /\ pc[c] = "pinned" /\ pc'[c] = "idle"
        /\ measurements' = measurements \cup {row}
    BY <1>4 DEF Land, Typed
  <2>2. \A f \in Newest(functions) : macro = {f.body} => \A v \in row.value : v.body = f.body
    BY <2>1 DEF Declared
  <2>3. row.at = clock
    OBVIOUS
  <2>4. Timed'
    <3> HIDE DEF row
    <3> QED BY <1>0, <2>1, <2>3 DEF Timed
  <2>5. \A f \in Newest(functions) : macro = {f.body} =>
          \A m \in measurements' : m.at >= DeclaredAt => \A v \in m.value : v.body = f.body
    <3> HIDE DEF row
    <3> QED BY <2>1, <2>2 DEF Declared
  <2> QED
    BY <2>1, <2>4, <2>5 DEF Declared, Single, DeclaredAt
<1>5. CASE UNCHANGED vars
  BY <1>5 DEF vars, Declared, Single, Timed, DeclaredAt
<1>6. CASE /\ ~ DeclareRow(c) /\ ~ RunBody(c) /\ ~ Land(c) /\ vars' # vars
           /\ \A body \in Bodies : ~ DeclareMacro(c, body)
  <2>1. /\ UNCHANGED <<functions, measurements, macro>>
        /\ clock' \in {clock, clock + 1}
        /\ pc'[c] # "declaring"
        /\ pc'[c] \in {"ran", "pinned"} => pc[c] \in {"ran", "pinned"} /\ work'[c].value = work[c].value
    BY <1>6 DEF Statement, Extract, Write, Define, Drop, BeginGloss, CommitGloss, LandOther, DeclareFails, Answer,
                Miss, PlanReads, TakePin, ExtractFails, Typed, IsWork, vars
  <2>2. Timed'
    BY <1>0, <2>1 DEF Timed
  <2> QED
    BY <2>1, <2>2 DEF Declared, Single, DeclaredAt
<1> QED
  BY <1>1, <1>2, <1>3, <1>4, <1>5, <1>6

LEMMA InvInit == ASSUME NEW c \in Conns PROVE Init => Inv(c)
<1> SUFFICES ASSUME Init PROVE Inv(c)
  OBVIOUS
<1>1. Typed
  BY NoWorkIs DEF Init, Typed, World
<1>2. (\A d \in Conns : Clean(d)) /\ Measured /\ AllClean(c)
  BY DEF Init, Clean, Measured, AllClean
<1>3. Told(c)
  BY DEF Init, Told, Numbered
<1>4. Declared(c)
  BY DEF Init, Declared, Single, Timed, Numbered, Newest
<1> QED
  BY <1>1, <1>2, <1>3, <1>4 DEF Inv

LEMMA InvStep == ASSUME Followed, NEW c \in Conns PROVE Inv(c) /\ Statement(c) => Inv(c)'
<1> SUFFICES ASSUME Inv(c), Statement(c) PROVE Inv(c)'
  OBVIOUS
<1>1. [Next]_vars
  BY DEF Statement, Extract, Next, Keep
<1>2. Grows /\ Told(c)'
  BY ToldStep DEF Inv
<1>3. Typed'
  BY <1>1, TypedStep DEF Inv
<1>4. \A d \in Conns : Clean(d)'
  BY <1>1, <1>2, CleanStep DEF Inv, Told
<1>5. Measured'
  BY <1>1, <1>2, MeasuredStep DEF Inv
<1>6. AllClean(c)' /\ Declared(c)'
  BY AllCleanStep, DeclaredStep DEF Inv
<1> QED
  BY <1>2, <1>3, <1>4, <1>5, <1>6 DEF Inv

\* What an extraction would serve is what its body would compute, and that body the
\* declared one while the macro is.
LEMMA InvTells ==
  ASSUME Followed, NEW c \in Conns, Inv(c)
  PROVE  StandsCurrent
<1> SUFFICES ASSUME NEW m \in Newest(measurements), NEW f \in Newest(functions), Stands(m)
             PROVE  \E body \in Bodies :
                      /\ m.value = {Compute(body)}
                      /\ macro = {f.body} => body = f.body
  BY DEF StandsCurrent
<1>1. m \in measurements /\ m.clean
  BY DEF Newest, Inv, AllClean
<1>2. PICK o, b : AsOf(o) /\ ComputedIn(o, b, m.value, m.reads, m.pin)
  BY <1>1 DEF Inv, Measured, Computed
<1>3. m.value = {Compute(b)} /\ b \in Bodies
  BY <1>2, SeesTheSame DEF Inv, Typed, Told, ComputedIn
<1>4. Compute(b).body = b
  BY DEF Compute
<1>5. macro = {f.body} => \A v \in m.value : v.body = f.body
  BY <1>1 DEF Inv, Declared, Stands
<1> QED
  BY <1>3, <1>4, <1>5

\* Of one connection among any, that deletes no gloss, with bodies whose reads the pin
\* follows: whatever was written, defined, dropped, glossed or declared in between, and
\* whichever declarations failed between the macro and their row, the row an extraction
\* would serve holds what its body would compute over the inputs as they are; and that
\* body is the declared one as long as the macro is.
THEOREM DoorCurrent == ASSUME Followed, Door \in Conns PROVE MCSpec => []DoorStandsCurrent
<1>1. MCInit => (Alone => Inv(Door))
  BY InvInit DEF MCInit
<1>2. (Alone => Inv(Door)) /\ [MCNext]_<<vars, open>> => (Alone => Inv(Door))'
  <2> SUFFICES ASSUME Alone => Inv(Door), [MCNext]_<<vars, open>>, Alone'
               PROVE  Inv(Door)'
    OBVIOUS
  <2>1. open' = open /\ Alone
    BY DEF MCNext, Same, Alone
  <2>2. Statement(Door)
    BY <2>1 DEF MCNext, Alone, Statement, Extract
  <2> QED
    BY <2>1, <2>2, InvStep
<1>3. (Alone => Inv(Door)) => DoorStandsCurrent
  BY InvTells DEF DoorStandsCurrent
<1> QED
  BY <1>1, <1>2, <1>3, PTL DEF MCSpec
=============================================================================
