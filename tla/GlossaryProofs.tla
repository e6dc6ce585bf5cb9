--------------------------- MODULE GlossaryProofs ---------------------------
(***************************************************************************)
(* What admission keeps and what is read of it, for any aspects, schemas,    *)
(* witnesses, functions and bodies.  A statement at a time: the types; that  *)
(* a current gloss is one its aspect would still be glossed with while slots *)
(* are deleted whole; and what the collapsed row serves, withholds and shows *)
(* as a gap.  Query by query, for any connections: unless a declaration and a *)
(* gloss passed each other, every gloss meets its schema; for one connection: *)
(* its statements are the atomic ones, each one step.                       *)
(***************************************************************************)
EXTENDS MCAdmission, Collapse, StoreRowsProofs, TLAPS, FiniteSetTheorems

-----------------------------------------------------------------------------
(* Types.  Each row is numbered by the clock, which its statement moves: so *)
(* TypeOK is inductive as it stands.                                        *)

LEMMA InitTypes == Init => TypeOK
BY ConstantsAssumption DEF Init, TypeOK, SeqsDiffer

\* A row numbered above the clock differs in its seq from all there are.
LEMMA LaterDiffers ==
  ASSUME NEW rows, SeqsDiffer(rows), clock \in Nat, \A r \in rows : r.seq \in 1 .. clock,
         NEW row, row.seq = clock + 1
  PROVE  SeqsDiffer(rows \cup {row}) /\ \A r \in rows \cup {row} : r.seq \in 1 .. (clock + 1)
BY DEF SeqsDiffer

LEMMA TypeStep == TypeOK /\ [Next]_vars => TypeOK'
<1> SUFFICES ASSUME TypeOK, [Next]_vars PROVE TypeOK'
  OBVIOUS
<1> USE ConstantsAssumption
<1>0. /\ clock \in Nat /\ clock <= MaxClock
      /\ \A R \in {aspects, witnesses, functions, glossary, measurements} :
           \A r \in R : r.seq \in 1 .. clock /\ r.seq \in 1 .. (clock + 1)
      /\ changed \in [Subjects -> 0 .. (clock + 1)]
  BY DEF TypeOK
<1>t. ASSUME Tick PROVE clock' = clock + 1 /\ clock' \in 0 .. MaxClock
  BY <1>0, <1>t DEF Tick
<1>1. ASSUME NEW d \in AspectTexts, DeclareAspect(d) PROVE TypeOK'
  <2> DEFINE row == [seq |-> clock + 1, text |-> d]
  <2>1. SeqsDiffer(aspects \cup {row}) /\ \A r \in aspects \cup {row} : r.seq \in 1 .. (clock + 1)
    BY <1>0, LaterDiffers DEF TypeOK
  <2> QED
    BY <1>0, <1>1, <1>t, <2>1 DEF DeclareAspect, TypeOK
<1>2. ASSUME NEW w \in WitnessTexts, DeclareWitness(w) PROVE TypeOK'
  <2> DEFINE row == [seq |-> clock + 1, text |-> w]
  <2>1. SeqsDiffer(witnesses \cup {row}) /\ \A r \in witnesses \cup {row} : r.seq \in 1 .. (clock + 1)
    BY <1>0, LaterDiffers DEF TypeOK
  <2> QED
    BY <1>0, <1>2, <1>t, <2>1 DEF DeclareWitness, TypeOK
<1>3. ASSUME NEW f \in FunctionTexts, DeclareFunction(f) PROVE TypeOK'
  <2> DEFINE row == [seq |-> clock + 1, text |-> f]
  <2>1. SeqsDiffer(functions \cup {row}) /\ \A r \in functions \cup {row} : r.seq \in 1 .. (clock + 1)
    BY <1>0, LaterDiffers DEF TypeOK
  <2> QED
    BY <1>0, <1>3, <1>t, <2>1 DEF DeclareFunction, TypeOK
<1>4. ASSUME NEW s \in Subjects, NEW a \in Aspects, NEW actor \in Actors, NEW body \in Bodies,
             Gloss(s, a, actor, body)
      PROVE  TypeOK'
  <2> DEFINE row == [seq |-> clock + 1, subject |-> s, aspect |-> a, actor |-> actor, body |-> body]
  <2>1. SeqsDiffer(glossary \cup {row}) /\ \A r \in glossary \cup {row} : r.seq \in 1 .. (clock + 1)
    BY <1>0, LaterDiffers DEF TypeOK
  <2> QED
    BY <1>0, <1>4, <1>t, <2>1 DEF Gloss, TypeOK
<1>5. ASSUME NEW f \in FunctionTexts, NEW s \in Subjects, NEW body \in Bodies, Extract(f, s, body)
      PROVE  TypeOK'
  <2> DEFINE row == [seq |-> clock + 1, subject |-> s, aspect |-> f.returns,
                     function |-> f.name, body |-> body]
  <2>1. SeqsDiffer(measurements \cup {row}) /\ \A r \in measurements \cup {row} : r.seq \in 1 .. (clock + 1)
    BY <1>0, LaterDiffers DEF TypeOK
  <2> QED
    BY <1>0, <1>5, <1>t, <2>1 DEF Extract, TypeOK
<1>6. ASSUME NEW s \in Subjects, NEW a \in Aspects, DeleteSlots(s, a) PROVE TypeOK'
  BY <1>6 DEF DeleteSlots, TypeOK, SeqsDiffer
<1>7. ASSUME NEW s \in Subjects, Change(s) PROVE TypeOK'
  BY <1>0, <1>7, <1>t DEF Change, TypeOK
<1>8. ASSUME DeleteRow PROVE TypeOK'
  BY <1>8 DEF DeleteRow, TypeOK, SeqsDiffer
<1>9. ASSUME UNCHANGED vars PROVE TypeOK'
  BY <1>9 DEF vars, TypeOK, SeqsDiffer
<1> QED
  BY <1>1, <1>2, <1>3, <1>4, <1>5, <1>6, <1>7, <1>8, <1>9 DEF Next, Whole, Refuse

\* Whatever is declared, glossed, extracted, changed and deleted, by rows or by
\* slots, rows stay numbered apart and of declared texts.
THEOREM TypeCorrect == Spec => []TypeOK
BY InitTypes, TypeStep, PTL DEF Spec

-----------------------------------------------------------------------------
(* Glosses and their schemas.  What stands is what no row of its kind is      *)
(* numbered above: in that form a step's effect on it is plain.              *)

SlotsByRank ==
  CurrentSlots = {g \in glossary : \A q \in glossary :
                    q.subject = g.subject /\ q.aspect = g.aspect /\ q.actor = g.actor => q.seq <= g.seq}

AspectsByRank ==
  \A name, d : d \in AspectOf(name) <=>
    \E r \in aspects : /\ r.text = d /\ d.name = name
                       /\ \A q \in aspects : q.text.name = name => q.seq <= r.seq

GroundingsByRank ==
  \A schema : schema \in GroundingSchemas <=>
    \E r \in aspects : /\ r.text.schema = schema /\ schema \in Flavored
                       /\ \A q \in aspects :
                            q.text.name = r.text.name /\ q.text.schema \in Flavored => q.seq <= r.seq

LEMMA ByRank == TypeOK => SlotsByRank /\ AspectsByRank /\ GroundingsByRank
<1> SUFFICES ASSUME TypeOK PROVE SlotsByRank /\ AspectsByRank /\ GroundingsByRank
  OBVIOUS
<1>0. /\ clock \in Nat
      /\ \A r \in aspects : r.seq \in Nat /\ r.seq <= clock /\ r.text.name \in Aspects
      /\ \A g \in glossary : /\ g.seq \in Nat /\ g.seq <= clock
                             /\ g.subject \in Subjects /\ g.aspect \in Aspects /\ g.actor \in Actors
  BY ConstantsAssumption DEF TypeOK, Aspects
<1>1. SlotsByRank
  <2>1. \A s, a, w :
          SlotOf(s, a, w) = {g \in glossary : /\ g.subject = s /\ g.aspect = a /\ g.actor = w
                                              /\ \A q \in glossary :
                                                   q.subject = s /\ q.aspect = a /\ q.actor = w => q.seq <= g.seq}
    <3> SUFFICES ASSUME NEW s, NEW a, NEW w
                 PROVE  SlotOf(s, a, w) = {g \in glossary :
                          /\ g.subject = s /\ g.aspect = a /\ g.actor = w
                          /\ \A q \in glossary : q.subject = s /\ q.aspect = a /\ q.actor = w => q.seq <= g.seq}
      OBVIOUS
    <3> DEFINE rows == {g \in glossary : g.subject = s /\ g.aspect = a /\ g.actor = w}
    <3>1. Newest(rows) = {g \in rows : \A q \in rows : q.seq <= g.seq}
      BY <1>0, NewestAreHighest
    <3> QED
      BY <3>1 DEF SlotOf
  <2>2. \A g : g \in CurrentSlots <=> \E s \in Subjects, a \in Aspects, w \in Actors : g \in SlotOf(s, a, w)
    BY DEF CurrentSlots
  <2> QED
    BY <1>0, <2>1, <2>2 DEF SlotsByRank
<1>2. AspectsByRank
  <2> SUFFICES ASSUME NEW name, NEW d
               PROVE  d \in AspectOf(name) <=>
                        \E r \in aspects : /\ r.text = d /\ d.name = name
                                           /\ \A q \in aspects : q.text.name = name => q.seq <= r.seq
    BY DEF AspectsByRank
  <2> DEFINE rows == {r \in aspects : r.text.name = name}
  <2>1. Newest(rows) = {r \in rows : \A q \in rows : q.seq <= r.seq}
    BY <1>0, NewestAreHighest
  <2> QED
    BY <2>1 DEF AspectOf
<1>3. GroundingsByRank
  <2> DEFINE rows(a) == {r \in aspects : r.text.name = a /\ r.text.schema \in Flavored}
  <2>1. \A a : Newest(rows(a)) = {r \in rows(a) : \A q \in rows(a) : q.seq <= r.seq}
    <3> TAKE a
    <3>1. \A r \in rows(a) : r.seq \in Nat /\ r.seq <= clock
      BY <1>0
    <3> HIDE DEF rows
    <3> QED
      BY <1>0, <3>1, NewestAreHighest
  <2>2. \A schema : schema \in GroundingSchemas <=>
          \E a \in Aspects : \E r \in Newest(rows(a)) : r.text.schema = schema
    BY DEF GroundingSchemas
  <2>3. \A schema : schema \in GroundingSchemas <=>
          \E a \in Aspects : \E r \in rows(a) : r.text.schema = schema /\ \A q \in rows(a) : q.seq <= r.seq
    <3> HIDE DEF rows
    <3> QED
      BY <2>1, <2>2
  <2> QED
    BY <1>0, <2>3 DEF GroundingsByRank
<1> QED
  BY <1>1, <1>2, <1>3

\* A body its aspect admits with every grounding schema that is asked, also of an
\* aspect declared again without it: what Gloss checks, and so what no declaration
\* may take away.
Admissible(aspect, body) ==
  \E d \in AspectOf(aspect) :
    /\ d.kind # "MEASUREMENT"
    /\ IF d.kind = "QUERY"
       THEN body \in Contract /\ \A schema \in GroundingSchemas : body \in Admits[schema]
       ELSE body \in Admits[d.schema]

SlotsFit == \A g \in CurrentSlots : Admissible(g.aspect, g.body)

LEMMA FitConforms == TypeOK /\ SlotsFit => GlossesConform
<1> SUFFICES ASSUME TypeOK, SlotsFit, NEW g \in CurrentSlots PROVE Conforms(g.aspect, g.body)
  BY DEF GlossesConform
<1>1. ASSUME NEW a, NEW e \in AspectOf(a), e.schema \in Flavored PROVE e.schema \in GroundingSchemas
  BY <1>1, ByRank DEF AspectsByRank, GroundingsByRank
<1> QED
  BY <1>1 DEF SlotsFit, Admissible, Conforms

\* The row of a declaration takes no gloss's own aspect, and adds at most its
\* schema to those QUERY bodies meet, which FitsSlots has asked of them.
LEMMA AspectRowKeepsFit ==
  ASSUME NEW d \in AspectTexts, TypeOK, TypeOK', SlotsFit,
         AspectOf(d.name) # {} => ~ Glossed(d.name), FitsSlots(d.schema),
         aspects' = aspects \cup {[seq |-> clock + 1, text |-> d]}, glossary' = glossary
  PROVE  SlotsFit'
<1> DEFINE row == [seq |-> clock + 1, text |-> d]
<1>0. /\ aspects' = aspects \cup {row} /\ glossary' = glossary
      /\ clock \in Nat /\ \A r \in aspects : r.seq \in Nat /\ r.seq <= clock
      /\ row.seq = clock + 1 /\ row.text = d
  BY DEF TypeOK
<1>1. /\ SlotsByRank /\ AspectsByRank /\ GroundingsByRank
      /\ SlotsByRank' /\ AspectsByRank' /\ GroundingsByRank'
  <2>1. TypeOK' => (SlotsByRank /\ AspectsByRank /\ GroundingsByRank)'
    BY ByRank, PTL
  <2> QED
    BY <2>1, ByRank
<1>2. CurrentSlots' = CurrentSlots
  BY <1>0, <1>1 DEF SlotsByRank
<1>3. ASSUME NEW name, name # d.name, NEW e \in AspectOf(name) PROVE e \in AspectOf(name)'
  <2>1. PICK r \in aspects : /\ r.text = e /\ e.name = name
                             /\ \A q \in aspects : q.text.name = name => q.seq <= r.seq
    BY <1>1, <1>3 DEF AspectsByRank
  <2>2. \A q \in aspects' : q.text.name = name => q.seq <= r.seq
    BY <1>0, <1>3, <2>1
  <2> QED
    BY <1>0, <1>1, <2>1, <2>2 DEF AspectsByRank
<1>4. ASSUME NEW schema \in GroundingSchemas'
      PROVE  schema \in GroundingSchemas \/ (schema = d.schema /\ schema \in Flavored)
  <2>1. PICK r \in aspects' : /\ r.text.schema = schema /\ schema \in Flavored
                              /\ \A q \in aspects' :
                                   q.text.name = r.text.name /\ q.text.schema \in Flavored => q.seq <= r.seq
    BY <1>1, <1>4 DEF GroundingsByRank
  <2>2. CASE r = row
    BY <1>0, <2>1, <2>2
  <2>3. CASE r \in aspects
    BY <1>0, <1>1, <2>1, <2>3 DEF GroundingsByRank
  <2> QED
    BY <1>0, <2>1, <2>2, <2>3
<1> SUFFICES ASSUME NEW g \in CurrentSlots PROVE Admissible(g.aspect, g.body)'
  BY <1>2 DEF SlotsFit
<1>5. PICK e \in AspectOf(g.aspect) :
        /\ e.kind # "MEASUREMENT"
        /\ IF e.kind = "QUERY"
           THEN g.body \in Contract /\ \A schema \in GroundingSchemas : g.body \in Admits[schema]
           ELSE g.body \in Admits[e.schema]
  BY DEF SlotsFit, Admissible
<1>6. g.aspect # d.name
  <2>1. g \in glossary
    BY <1>1 DEF SlotsByRank
  <2> QED
    BY <1>5, <2>1 DEF Glossed
<1>7. e \in AspectOf(g.aspect)'
  BY <1>3, <1>5, <1>6
<1>8. ASSUME e.kind = "QUERY", d.schema \in Flavored PROVE g.body \in Admits[d.schema]
  <2>1. \E r \in aspects : r.text.name = g.aspect /\ r.text.kind = "QUERY"
    BY <1>1, <1>5, <1>8 DEF AspectsByRank
  <2> QED
    BY <1>8, <2>1 DEF FitsSlots
<1> QED
  BY <1>4, <1>5, <1>7, <1>8 DEF Admissible

\* The row of a gloss becomes its slot's current one and leaves the other slots
\* theirs.
LEMMA GlossRowKeepsFit ==
  ASSUME NEW subject \in Subjects, NEW aspect \in Aspects, NEW actor \in Actors, NEW body \in Bodies,
         TypeOK, TypeOK', SlotsFit, Admissible(aspect, body), aspects' = aspects,
         glossary' = glossary \cup {[seq |-> clock + 1, subject |-> subject, aspect |-> aspect,
                                     actor |-> actor, body |-> body]}
  PROVE  SlotsFit'
<1> DEFINE row == [seq |-> clock + 1, subject |-> subject, aspect |-> aspect, actor |-> actor, body |-> body]
<1>0. /\ glossary' = glossary \cup {row}
      /\ row.aspect = aspect /\ row.body = body
      /\ aspects' = aspects
  OBVIOUS
<1>1. SlotsByRank /\ SlotsByRank'
  <2>1. TypeOK' => SlotsByRank'
    BY ByRank, PTL
  <2> QED
    BY <2>1, ByRank
<1>2. \A a, b : Admissible(a, b)' <=> Admissible(a, b)
  BY <1>0 DEF Admissible, AspectOf, GroundingSchemas
<1>3. ASSUME NEW g \in CurrentSlots', g # row PROVE g \in CurrentSlots
  BY <1>0, <1>1, <1>3 DEF SlotsByRank
<1> QED
  BY <1>0, <1>2, <1>3 DEF SlotsFit

\* With its aspect's every row on the subject gone, no slot shows a row beneath.
LEMMA DeleteSlotsKeepsFit ==
  ASSUME NEW subject \in Subjects, NEW aspect \in Aspects, TypeOK, TypeOK', SlotsFit,
         DeleteSlots(subject, aspect)
  PROVE  SlotsFit'
<1>1. SlotsByRank /\ SlotsByRank'
  <2>1. TypeOK' => SlotsByRank'
    BY ByRank, PTL
  <2> QED
    BY <2>1, ByRank
<1>2. \A a, b : Admissible(a, b)' <=> Admissible(a, b)
  BY DEF DeleteSlots, Admissible, AspectOf, GroundingSchemas
<1>3. ASSUME NEW g \in CurrentSlots' PROVE g \in CurrentSlots
  BY <1>1 DEF SlotsByRank, DeleteSlots
<1> QED
  BY <1>2, <1>3 DEF SlotsFit

LEMMA FitStep == TypeOK /\ SlotsFit /\ [Whole]_vars => (TypeOK /\ SlotsFit)'
<1> SUFFICES ASSUME TypeOK, SlotsFit, [Whole]_vars PROVE TypeOK' /\ SlotsFit'
  OBVIOUS
<1>0. TypeOK'
  BY TypeStep DEF Next
<1>1. ASSUME UNCHANGED <<aspects, glossary>> PROVE SlotsFit'
  <2>1. CurrentSlots' = CurrentSlots
    BY <1>1 DEF CurrentSlots, SlotOf
  <2>2. \A a, b : Admissible(a, b)' <=> Admissible(a, b)
    BY <1>1 DEF Admissible, AspectOf, GroundingSchemas
  <2> QED
    BY <2>1, <2>2 DEF SlotsFit
<1>2. ASSUME NEW d \in AspectTexts, DeclareAspect(d) PROVE SlotsFit'
  BY <1>0, <1>2, AspectRowKeepsFit DEF DeclareAspect
<1>3. ASSUME NEW w \in WitnessTexts, DeclareWitness(w) PROVE SlotsFit'
  BY <1>1, <1>3 DEF DeclareWitness
<1>4. ASSUME NEW f \in FunctionTexts, DeclareFunction(f) PROVE SlotsFit'
  BY <1>1, <1>4 DEF DeclareFunction
<1>5. ASSUME NEW s \in Subjects, NEW a \in Aspects, NEW actor \in Actors, NEW body \in Bodies,
             Gloss(s, a, actor, body)
      PROVE  SlotsFit'
  <2>1. Admissible(a, body)
    BY <1>5 DEF Gloss, AdmitsBody, Admissible
  <2> QED
    BY <1>0, <1>5, <2>1, GlossRowKeepsFit DEF Gloss
<1>6. ASSUME NEW f \in FunctionTexts, NEW s \in Subjects, NEW body \in Bodies, Extract(f, s, body)
      PROVE  SlotsFit'
  BY <1>1, <1>6 DEF Extract
<1>7. ASSUME NEW s \in Subjects, NEW a \in Aspects, DeleteSlots(s, a) PROVE SlotsFit'
  BY <1>0, <1>7, DeleteSlotsKeepsFit
<1>8. ASSUME NEW s \in Subjects, Change(s) PROVE SlotsFit'
  BY <1>1, <1>8 DEF Change
<1>9. ASSUME UNCHANGED vars PROVE SlotsFit'
  BY <1>1, <1>9 DEF vars
<1> QED
  BY <1>0, <1>2, <1>3, <1>4, <1>5, <1>6, <1>7, <1>8, <1>9 DEF Whole, Refuse

\* "Existing bodies never silently stop matching their schema": with slots deleted
\* whole, every current gloss is one its aspect's standing declaration, and for a
\* QUERY every standing grounding schema, admits.
THEOREM GlossesStayFit == WholeSpec => []GlossesConform
<1>1. Init => TypeOK /\ SlotsFit
  <2>1. Init => SlotsFit
    <3> SUFFICES ASSUME Init PROVE CurrentSlots = {}
      BY DEF SlotsFit
    <3> QED
      BY InitTypes, ByRank DEF Init, SlotsByRank
  <2> QED
    BY <2>1, InitTypes
<1>2. TypeOK /\ SlotsFit /\ [Whole]_vars => (TypeOK /\ SlotsFit)'
  BY FitStep
<1>3. TypeOK /\ SlotsFit => GlossesConform
  BY FitConforms
<1> QED
  BY <1>1, <1>2, <1>3, PTL DEF WholeSpec

-----------------------------------------------------------------------------
(* What a reader of the collapsed row may take from it.  Rows are numbered    *)
(* apart, so a slot is one row, a witness or a script that stands is one, and  *)
(* of the slots on a subject one is picked.                                  *)

LEMMA OneNewest ==
  ASSUME NEW R, SeqsDiffer(R), NEW rows \in SUBSET R
  PROVE  \A g, h \in Newest(rows) : g \in rows /\ g = h
BY DEF SeqsDiffer, Newest

LEMMA OneSlot ==
  ASSUME TypeOK, NEW s, NEW a, NEW actor
  PROVE  /\ \A g \in SlotOf(s, a, actor) : /\ g \in glossary /\ g.actor = actor
                                           /\ g.seq \in Nat /\ g.seq <= clock /\ g.body \in Bodies
         /\ \A g, h \in SlotOf(s, a, actor) : g = h
<1> DEFINE rows == {g \in glossary : g.subject = s /\ g.aspect = a /\ g.actor = actor}
<1>1. SeqsDiffer(glossary)
  BY DEF TypeOK
<1>2. \A g \in glossary : g.seq \in Nat /\ g.seq <= clock /\ g.body \in Bodies
  BY ConstantsAssumption DEF TypeOK
<1>3. \A g, h \in Newest(rows) : g \in rows /\ g = h
  BY <1>1, OneNewest
<1> QED
  BY <1>2, <1>3 DEF SlotOf

\* A slot's precedence.
Rank(actor) == IF actor = Human THEN 0 ELSE 1

\* What a read holds is each actor's slot in its rank and the voices below them.
LEMMA SlotRows ==
  ASSUME TypeOK, NEW s, NEW a
  PROVE  /\ \A p \in Slots(s, a) : /\ p.seq \in Nat /\ p.seq <= clock
                                   /\ p.rank \in {0, 1, 2} /\ p.body \in Bodies
         /\ \A p \in Slots(s, a) : p.rank < 2 =>
              \E actor \in Actors : \E g \in SlotOf(s, a, actor) :
                p.rank = Rank(actor) /\ p.seq = g.seq /\ p.body = g.body
         /\ \A actor \in Actors : \A g \in SlotOf(s, a, actor) :
              \E p \in Slots(s, a) : p.rank = Rank(actor) /\ p.seq = g.seq /\ p.body = g.body
<1> DEFINE Of(g) == [rank |-> IF g.actor = Human THEN 0 ELSE 1, seq |-> g.seq, body |-> g.body,
                     stale |-> GlossStale(g)]
           Voice(m) == [rank |-> 2, seq |-> m.seq, body |-> m.body, stale |-> VoiceStale(m)]
<1>1. \A p : p \in Slots(s, a) <=> \/ \E g \in GlossesOn(s, a) : p = Of(g)
                                   \/ \E m \in VoicesOn(s, a) : p = Voice(m)
  BY DEF Slots
<1>2. \A g : g \in GlossesOn(s, a) <=> \E actor \in Actors : g \in SlotOf(s, a, actor)
  BY DEF GlossesOn
<1>3. \A actor : \A g \in SlotOf(s, a, actor) : /\ g.actor = actor /\ g.seq \in Nat /\ g.seq <= clock
                                                /\ g.body \in Bodies
  BY OneSlot
<1>4. \A m \in VoicesOn(s, a) : m.seq \in Nat /\ m.seq <= clock /\ m.body \in Bodies
  BY ConstantsAssumption DEF VoicesOn, TypeOK
<1>5. \A g : Of(g).rank = Rank(g.actor) /\ Of(g).seq = g.seq /\ Of(g).body = g.body
  BY DEF Rank
<1>6. \A m : Voice(m).rank = 2 /\ Voice(m).seq = m.seq /\ Voice(m).body = m.body
  OBVIOUS
<1>7. \A actor : Rank(actor) \in {0, 1}
  BY DEF Rank
<1> HIDE DEF Of, Voice
<1>8. \A p \in Slots(s, a) : /\ p.seq \in Nat /\ p.seq <= clock
                             /\ p.rank \in {0, 1, 2} /\ p.body \in Bodies
  BY <1>1, <1>2, <1>3, <1>4, <1>5, <1>6, <1>7
<1>9. ASSUME NEW p \in Slots(s, a), p.rank < 2
      PROVE  \E actor \in Actors : \E g \in SlotOf(s, a, actor) :
               p.rank = Rank(actor) /\ p.seq = g.seq /\ p.body = g.body
  <2>1. PICK g \in GlossesOn(s, a) : p = Of(g)
    BY <1>1, <1>6, <1>9
  <2> QED
    BY <1>2, <1>3, <1>5, <2>1
<1>10. ASSUME NEW actor \in Actors, NEW g \in SlotOf(s, a, actor)
       PROVE  \E p \in Slots(s, a) : p.rank = Rank(actor) /\ p.seq = g.seq /\ p.body = g.body
  BY <1>1, <1>2, <1>3, <1>5
<1> QED
  BY <1>8, <1>9, <1>10

\* Of slots there are, one is picked: the newest of the least rank.
LEMMA OneIsPicked ==
  ASSUME NEW slots, slots # {}, NEW n \in Nat,
         \A p \in slots : p.seq \in Nat /\ p.seq <= n /\ p.rank \in {0, 1, 2}
  PROVE  Picked(slots) # {}
<1> DEFINE Least(r) == \A q \in slots : r <= q.rank
<1>1. PICK o \in slots : Least(o.rank)
  <2>1. CASE \E o \in slots : o.rank = 0
    BY <2>1
  <2>2. CASE ~ (\E o \in slots : o.rank = 0) /\ \E o \in slots : o.rank = 1
    BY <2>2
  <2>3. CASE \A o \in slots : o.rank = 2
    BY <2>3
  <2> QED
    BY <2>1, <2>2, <2>3
<1> DEFINE S == {q.seq : q \in {q \in slots : q.rank = o.rank}}
<1>2. S \in SUBSET Nat /\ S # {} /\ \A m \in S : m <= n
  BY <1>1
<1>3. MaxOf(S) \in S /\ \A m \in S : m <= MaxOf(S)
  <2> HIDE DEF S
  <2> QED
    BY <1>2, MaxOfBounded
<1>4. PICK p \in slots : p.rank = o.rank /\ p.seq = MaxOf(S)
  BY <1>3
<1>5. \A q \in slots : p.rank < q.rank \/ (p.rank = q.rank /\ q.seq <= p.seq)
  <2> SUFFICES ASSUME NEW q \in slots, ~ (p.rank < q.rank)
               PROVE  p.rank = q.rank /\ q.seq <= p.seq
    OBVIOUS
  <2>1. p.rank <= q.rank /\ p.rank \in {0, 1, 2} /\ q.rank \in {0, 1, 2}
    BY <1>1, <1>4
  <2>2. q.rank = p.rank
    BY <2>1
  <2>3. q.seq \in S
    BY <1>4, <2>2
  <2> QED
    BY <1>3, <1>4, <2>2, <2>3
<1>6. p \in Picked(slots)
  BY <1>5 DEF Picked
<1> QED
  BY <1>6

\* The row of a picked slot serves its body, or says that it withholds it.
LEMMA RowsOfSlots ==
  ASSUME TypeOK, NEW s, NEW a, Slots(s, a) # {}
  PROVE  /\ \A row \in Rows(s, a) : \E p \in Picked(Slots(s, a)) :
              /\ row.value = p.body \/ row.state = "contested"
              /\ row.state \in {"contested", "stale", "current"}
         /\ Rows(s, a) # {}
<1> DEFINE withheld == IF Judged(s, a) = {} THEN {FALSE} ELSE {Exceeds(j) : j \in Judged(s, a)}
<1>1. Rows(s, a) = {RowOf(p, w) : p \in Picked(Slots(s, a)), w \in withheld}
  BY DEF Rows
<1>2. withheld # {}
  OBVIOUS
<1>3. Picked(Slots(s, a)) # {}
  <2>1. clock \in Nat
    BY ConstantsAssumption DEF TypeOK
  <2> QED
    BY <2>1, SlotRows, OneIsPicked
<1> HIDE DEF withheld
<1>4. \A p, w : /\ RowOf(p, w).value = p.body \/ RowOf(p, w).state = "contested"
                /\ RowOf(p, w).state \in {"contested", "stale", "current"}
  BY DEF RowOf
<1> QED
  BY <1>1, <1>2, <1>3, <1>4

\* The human's slot is before every other.
LEMMA HumanPicked ==
  ASSUME TypeOK, NEW s, NEW a, NEW g \in SlotOf(s, a, Human), NEW slots \in SUBSET Slots(s, a),
         \A p \in Slots(s, a) : p.rank < 2 => p \in slots,
         NEW p \in Picked(slots)
  PROVE  p.body = g.body
<1>1. PICK q \in Slots(s, a) : q.rank = 0 /\ q.seq = g.seq
  BY SlotRows, ConstantsAssumption DEF Rank
<1>2. p \in Slots(s, a) /\ p.rank \in {0, 1, 2}
  BY SlotRows DEF Picked
<1>3. p.rank < q.rank \/ p.rank = q.rank
  BY <1>1 DEF Picked
<1>4. p.rank = 0
  BY <1>1, <1>2, <1>3
<1>5. PICK actor \in Actors : \E h \in SlotOf(s, a, actor) : p.rank = Rank(actor) /\ p.body = h.body
  BY <1>2, <1>4, SlotRows
<1>6. actor = Human
  BY <1>4, <1>5 DEF Rank
<1> QED
  BY <1>5, <1>6, OneSlot

\* Whatever agents and functions say after it, the human's slot is served, or
\* withheld and said so.
THEOREM HumansServed == Spec => []HumanServed
<1>1. TypeOK => HumanServed
  <2> SUFFICES ASSUME TypeOK, NEW s \in Subjects, NEW a \in Aspects, NEW g \in SlotOf(s, a, Human),
                      NEW row \in Rows(s, a)
               PROVE  row.value = g.body \/ row.state = "contested"
    BY DEF HumanServed
  <2>1. Slots(s, a) # {}
    BY SlotRows, ConstantsAssumption
  <2>2. PICK p \in Picked(Slots(s, a)) : row.value = p.body \/ row.state = "contested"
    BY <2>1, RowsOfSlots
  <2>3. p.body = g.body
    BY HumanPicked
  <2> QED
    BY <2>2, <2>3
<1> QED
  BY <1>1, TypeCorrect, PTL

-----------------------------------------------------------------------------
(* What is withheld.                                                       *)

\* A threshold is 0 or more (the grammar's 0..1), and a detector answers any number
\* of bodies.
Scores ==
  /\ IsFiniteSet(Bodies) /\ Nothing \notin Int
  /\ \A w \in WitnessTexts : w.threshold \in Nat \cup {Nothing}
  /\ \A f \in FunctionTexts : f.returns = Nothing =>
       f.script \in [1 .. Cardinality(Bodies) -> Int \cup {Nothing, Fails}]

LEMMA OneWitness ==
  ASSUME TypeOK, NEW a
  PROVE  /\ \A w \in WitnessOn(a) : w \in WitnessTexts /\ w.aspect = a
         /\ \A v, w \in WitnessOn(a) : v = w
<1> DEFINE rows == {r \in witnesses : r.text.aspect = a}
<1>1. SeqsDiffer(witnesses) /\ \A r \in witnesses : r.text \in WitnessTexts
  BY DEF TypeOK
<1>2. \A g, h \in Newest(rows) : g \in rows /\ g = h
  BY <1>1, OneNewest
<1> QED
  BY <1>1, <1>2 DEF WitnessOn

LEMMA OneScript ==
  ASSUME TypeOK, Scores, NEW w
  PROVE  /\ \A f \in ScriptOf(w) : f \in [1 .. Cardinality(Bodies) -> Int \cup {Nothing, Fails}]
         /\ \A f, g \in ScriptOf(w) : f = g
<1> DEFINE rows == {r \in functions : r.text.name = w.detector /\ r.text.returns = Nothing}
<1>1. SeqsDiffer(functions) /\ \A r \in functions : r.text \in FunctionTexts
  BY DEF TypeOK
<1>2. \A g, h \in Newest(rows) : g \in rows /\ g = h
  BY <1>1, OneNewest
<1>3. \A g \in Newest(rows) : g.text.script \in [1 .. Cardinality(Bodies) -> Int \cup {Nothing, Fails}]
  BY <1>1, <1>2 DEF Scores
<1>4. ScriptOf(w) = {r.text.script : r \in Newest(rows)}
  BY DEF ScriptOf
<1> HIDE DEF rows
<1> QED
  BY <1>2, <1>3, <1>4

\* A spoken subject's slots tell between one body and all of them apart.
LEMMA Scored ==
  ASSUME TypeOK, Scores, NEW s, NEW a, Slots(s, a) # {}, NEW w, NEW f \in ScriptOf(w)
  PROVE  Score(f, Slots(s, a)) \in Int \cup {Nothing, Fails}
<1> DEFINE told == {p.body : p \in Slots(s, a)}
<1>1. told \subseteq Bodies /\ told # {}
  BY SlotRows
<1> HIDE DEF told
<1>2. IsFiniteSet(Bodies)
  BY DEF Scores
<1>3. IsFiniteSet(told) /\ Cardinality(told) <= Cardinality(Bodies)
  BY <1>1, <1>2, FS_Subset
<1>4. Cardinality(told) \in Nat /\ Cardinality(Bodies) \in Nat /\ Cardinality(told) # 0
  BY <1>1, <1>2, <1>3, FS_CardinalityType, FS_EmptySet
<1>5. Cardinality(told) \in 1 .. Cardinality(Bodies)
  BY <1>3, <1>4
<1>6. f \in [1 .. Cardinality(Bodies) -> Int \cup {Nothing, Fails}]
  BY OneScript
<1>7. f[Cardinality(told)] \in Int \cup {Nothing, Fails}
  BY <1>5, <1>6
<1> QED
  BY <1>7 DEF Score, told

\* A row is withheld or not as some judgment on it exceeds.
LEMMA ContestedAsJudged ==
  ASSUME TypeOK, NEW s, NEW a, Slots(s, a) # {}
  PROVE  {row.state = "contested" : row \in Rows(s, a)} =
           IF Judged(s, a) = {} THEN {FALSE} ELSE {Exceeds(j) : j \in Judged(s, a)}
<1> DEFINE withheld == IF Judged(s, a) = {} THEN {FALSE} ELSE {Exceeds(j) : j \in Judged(s, a)}
<1>1. Rows(s, a) = {RowOf(p, h) : p \in Picked(Slots(s, a)), h \in withheld}
  BY DEF Rows
<1>2. \A h \in withheld : h \in BOOLEAN
  BY DEF Exceeds
<1>3. PICK p \in Picked(Slots(s, a)) : TRUE
  <2>1. clock \in Nat
    BY ConstantsAssumption DEF TypeOK
  <2> QED
    BY <2>1, SlotRows, OneIsPicked
<1> HIDE DEF withheld
<1>4. \A q : \A h \in BOOLEAN : (RowOf(q, h).state = "contested") = h
  BY DEF RowOf
<1>5. ASSUME NEW row \in Rows(s, a) PROVE (row.state = "contested") \in withheld
  <2>1. PICK q \in Picked(Slots(s, a)), h \in withheld : row = RowOf(q, h)
    BY <1>1, <1>5
  <2>2. (row.state = "contested") = h
    BY <1>2, <1>4, <2>1
  <2> QED
    BY <2>2
<1>6. ASSUME NEW h \in withheld PROVE \E row \in Rows(s, a) : h = (row.state = "contested")
  <2>1. RowOf(p, h) \in Rows(s, a)
    BY <1>1, <1>3
  <2>2. h = (RowOf(p, h).state = "contested")
    BY <1>2, <1>4
  <2> QED
    BY <2>1, <2>2
<1>7. {row.state = "contested" : row \in Rows(s, a)} = withheld
  BY <1>5, <1>6
<1> QED
  BY <1>7 DEF withheld

\* The judgments on an aspect are its own witness's verdict, under the threshold of
\* each witness of its name.
LEMMA JudgedByName ==
  ASSUME TypeOK, NEW s, NEW a \in Aspects, NEW w \in WitnessOn(a),
         \A u, v \in Verdicts(w, s) : u = v,
         \A v \in Verdicts(w, s) : v.score \in Int
  PROVE  Judged(s, a) = {[score |-> p[1].score, error |-> p[1].error, threshold |-> p[2].threshold]
                           : p \in Verdicts(w, s) \X Namesakes(w)}
<1> DEFINE Under(p) == [score |-> p[1].score, error |-> p[1].error, threshold |-> p[2].threshold]
           named == {p \in Verdicts(w, s) \X Standing : p[1].witness = p[2].name}
           joined == {Under(p) : p \in named}
<1>1. UNION {Verdicts(v, s) : v \in WitnessOn(a)} = Verdicts(w, s)
  <2>1. \A v \in WitnessOn(a) : v = w
    BY OneWitness
  <2> QED
    BY <2>1
<1>2. Judged(s, a) = {u \in joined : \A v \in joined : ~ Outranks(v, u)}
  BY <1>1 DEF Judged
<1>3. named = Verdicts(w, s) \X Namesakes(w)
  <2>1. \A v \in Verdicts(w, s) : v.witness = w.name
    BY DEF Verdicts
  <2> QED
    BY <2>1 DEF Namesakes
<1>4. \A u, v \in joined : ~ Outranks(v, u)
  <2> SUFFICES ASSUME NEW p \in named, NEW q \in named PROVE ~ Outranks(Under(p), Under(q))
    OBVIOUS
  <2>1. p[1] = q[1] /\ p[1].score \in Int
    BY <1>3
  <2>2. Under(p).score = Under(q).score /\ Under(p).error = Under(q).error /\ Under(p).score \in Int
    BY <2>1
  <2> HIDE DEF Under, named
  <2> QED
    BY <2>2 DEF Outranks
<1> HIDE DEF named, Under
<1>5. Judged(s, a) = joined
  BY <1>2, <1>4
<1> QED
  BY <1>3, <1>5 DEF Under

\* What the witness makes of a spoken subject, against any threshold.
LEMMA OneVerdict ==
  ASSUME TypeOK, Scores, NEW s \in Subjects, NEW a, NEW w \in WitnessOn(a), Slots(s, a) # {}
  PROVE  /\ \A u, v \in Verdicts(w, s) : u = v
         /\ \A v \in Verdicts(w, s) : v.score \in Int
         /\ \A threshold \in Nat \cup {Nothing} :
              Above(w, threshold, s, a) <=>
                threshold # Nothing /\ \E v \in Verdicts(w, s) : v.score > threshold
<1>1. w \in WitnessTexts /\ w.aspect = a /\ s \in Spoken(a)
  BY OneWitness DEF Spoken
<1>2. Nothing \notin Int
  BY DEF Scores
<1>3. CASE w.detector = Nothing
  <2>1. Verdicts(w, s) = {} /\ \A threshold : ~ Above(w, threshold, s, a)
    BY <1>3 DEF Verdicts, Above
  <2> QED
    BY <2>1
<1>4. CASE w.detector # Nothing /\ Broken(w)
  <2>1. Verdicts(w, s) = {[witness |-> w.name, error |-> TRUE, score |-> 0]}
    BY <1>1, <1>4 DEF Verdicts
  <2>2. \A threshold : ~ Above(w, threshold, s, a)
    <3> SUFFICES ASSUME NEW f \in ScriptOf(w), \A t \in Spoken(a) : Score(f, Slots(t, a)) # Fails
                 PROVE  FALSE
      BY <1>4 DEF Above
    <3>1. PICK t \in Spoken(a), g \in ScriptOf(w) : Score(g, Slots(t, a)) = Fails
      BY <1>1, <1>4 DEF Broken
    <3>2. g = f
      BY OneScript
    <3> QED
      BY <3>1, <3>2
  <2>3. \A threshold \in Nat : ~ (0 > threshold)
    OBVIOUS
  <2>4. \A u, v \in Verdicts(w, s) : u = v
    BY <2>1
  <2>5. \A v \in Verdicts(w, s) : v.score = 0
    BY <2>1
  <2> QED
    BY <2>2, <2>3, <2>4, <2>5
<1>5. CASE w.detector # Nothing /\ ~ Broken(w)
  <2>1. PICK f \in ScriptOf(w) : TRUE
    BY <1>5 DEF Broken
  <2>2. \A g \in ScriptOf(w) : g = f
    BY OneScript
  <2>3. \A t \in Spoken(a) : Score(f, Slots(t, a)) # Fails
    BY <1>1, <1>5 DEF Broken
  <2> DEFINE score == Score(f, Slots(s, a))
  <2>4. score \in Int \cup {Nothing}
    BY <1>1, <2>3, Scored
  <2>5. \A threshold : Above(w, threshold, s, a) <=> /\ threshold # Nothing
                                                     /\ score \in Int
                                                     /\ score > threshold
    BY <1>5, <2>2, <2>3 DEF Above
  <2>6. Verdicts(w, s) = {[witness |-> w.name, error |-> FALSE, score |-> Score(g, Slots(s, a))]
                            : g \in {g \in ScriptOf(w) : Score(g, Slots(s, a)) # Nothing}}
    BY <1>1, <1>5 DEF Verdicts
  <2> HIDE DEF score
  <2>7. CASE score = Nothing
    <3>1. Verdicts(w, s) = {}
      BY <2>2, <2>6, <2>7 DEF score
    <3> QED
      BY <1>2, <2>5, <2>7, <3>1
  <2>8. CASE score \in Int
    <3>1. Verdicts(w, s) = {[witness |-> w.name, error |-> FALSE, score |-> score]}
      BY <1>2, <2>2, <2>6, <2>8 DEF score
    <3>2. Verdicts(w, s) # {}
      BY <3>1
    <3>3. \A v \in Verdicts(w, s) : v.score = score
      BY <3>1
    <3>4. \A u, v \in Verdicts(w, s) : u = v
      BY <3>1
    <3> QED
      BY <2>5, <2>8, <3>2, <3>3, <3>4
  <2> QED
    BY <2>4, <2>7, <2>8
<1> QED
  BY <1>3, <1>4, <1>5

\* A value is withheld exactly when its own witness's detector scores its slots above
\* the threshold of a witness of its name: on no other name's threshold or score, by
\* no failed detector.  So it is withheld by its own threshold where no other aspect's
\* witness has its name (else not: Collapse_shared_name).
THEOREM WithheldTells == ASSUME Scores PROVE Spec => []Withheld
<1>1. TypeOK => Withheld
  <2> SUFFICES ASSUME TypeOK, NEW s \in Subjects, NEW a \in Aspects, Slots(s, a) # {}
               PROVE  LET contested == {row.state = "contested" : row \in Rows(s, a)}
                      IN /\ WitnessOn(a) = {} => contested = {FALSE}
                         /\ \A w \in WitnessOn(a) :
                              contested = {Above(w, u.threshold, s, a) : u \in Namesakes(w)}
    BY DEF Withheld
  <2> DEFINE contested == {row.state = "contested" : row \in Rows(s, a)}
  <2>1. contested = IF Judged(s, a) = {} THEN {FALSE} ELSE {Exceeds(j) : j \in Judged(s, a)}
    BY ContestedAsJudged
  <2> HIDE DEF contested
  <2>2. ASSUME WitnessOn(a) = {} PROVE contested = {FALSE}
    <3>1. Judged(s, a) = {}
      BY <2>2 DEF Judged
    <3> QED
      BY <2>1, <3>1
  <2>3. ASSUME NEW w \in WitnessOn(a)
        PROVE  contested = {Above(w, u.threshold, s, a) : u \in Namesakes(w)}
    <3> DEFINE Under(p) == [score |-> p[1].score, error |-> p[1].error, threshold |-> p[2].threshold]
    <3>1. /\ \A u, v \in Verdicts(w, s) : u = v
          /\ \A v \in Verdicts(w, s) : v.score \in Int
          /\ \A threshold \in Nat \cup {Nothing} :
               Above(w, threshold, s, a) <=>
                 threshold # Nothing /\ \E v \in Verdicts(w, s) : v.score > threshold
      BY OneVerdict
    <3>2. Judged(s, a) = {Under(p) : p \in Verdicts(w, s) \X Namesakes(w)}
      BY <3>1, JudgedByName
    <3>3. w \in Namesakes(w) /\ \A u \in Namesakes(w) : u.threshold \in Nat \cup {Nothing}
      <4>1. w \in Standing
        BY DEF Standing
      <4>2. \A u \in Standing : u \in WitnessTexts
        BY OneWitness DEF Standing
      <4> QED
        BY <4>1, <4>2 DEF Namesakes, Scores
    <3>4. \A p \in Verdicts(w, s) \X Namesakes(w) : Exceeds(Under(p)) = Above(w, p[2].threshold, s, a)
      <4> SUFFICES ASSUME NEW v \in Verdicts(w, s), NEW u \in Namesakes(w)
                   PROVE  Exceeds(Under(<<v, u>>)) = Above(w, u.threshold, s, a)
        OBVIOUS
      <4>1. Exceeds(Under(<<v, u>>)) <=> u.threshold # Nothing /\ v.score > u.threshold
        BY DEF Exceeds
      <4>2. Above(w, u.threshold, s, a) <=> u.threshold # Nothing /\ v.score > u.threshold
        BY <3>1, <3>3
      <4>3. Exceeds(Under(<<v, u>>)) \in BOOLEAN /\ Above(w, u.threshold, s, a) \in BOOLEAN
        BY DEF Exceeds, Above
      <4> HIDE DEF Under
      <4> QED
        BY <4>1, <4>2, <4>3
    <3>5. CASE Verdicts(w, s) = {}
      <4>1. Judged(s, a) = {}
        BY <3>2, <3>5
      <4>2. \A u \in Namesakes(w) : Above(w, u.threshold, s, a) = FALSE
        <5>1. \A u \in Namesakes(w) : Above(w, u.threshold, s, a) \in BOOLEAN
          BY DEF Above
        <5> QED
          BY <3>1, <3>3, <3>5, <5>1
      <4> QED
        BY <2>1, <3>3, <4>1, <4>2
    <3>6. CASE Verdicts(w, s) # {}
      <4>1. PICK v \in Verdicts(w, s) : TRUE
        BY <3>6
      <4> DEFINE pairs == Verdicts(w, s) \X Namesakes(w)
      <4>2. <<v, w>> \in pairs
        BY <3>3
      <4>3. \A u \in Namesakes(w) : <<v, u>> \in pairs /\ <<v, u>>[2] = u
        OBVIOUS
      <4>4. \A p \in pairs : p[2] \in Namesakes(w)
        OBVIOUS
      <4> HIDE DEF pairs, Under
      <4>5. Judged(s, a) = {Under(p) : p \in pairs}
        BY <3>2 DEF pairs
      <4>6. contested = {Exceeds(Under(p)) : p \in pairs}
        BY <2>1, <4>2, <4>5
      <4>7. \A p \in pairs : Exceeds(Under(p)) = Above(w, p[2].threshold, s, a)
        BY <3>4 DEF pairs
      <4> DEFINE theirs == {Above(w, u.threshold, s, a) : u \in Namesakes(w)}
      <4>8. \A p \in pairs : Exceeds(Under(p)) \in theirs
        BY <4>4, <4>7
      <4>9. ASSUME NEW u \in Namesakes(w) PROVE Above(w, u.threshold, s, a) \in contested
        <5>1. Exceeds(Under(<<v, u>>)) = Above(w, u.threshold, s, a)
          BY <4>3, <4>7
        <5> QED
          BY <4>3, <4>6, <5>1
      <4>10. contested \subseteq theirs
        BY <4>6, <4>8
      <4>11. theirs \subseteq contested
        BY <4>9
      <4> QED
        BY <4>10, <4>11
    <3> QED
      BY <3>5, <3>6
  <2>4. /\ WitnessOn(a) = {} => contested = {FALSE}
        /\ \A w \in WitnessOn(a) : contested = {Above(w, u.threshold, s, a) : u \in Namesakes(w)}
    BY <2>2, <2>3
  <2> QED
    BY <2>4 DEF contested
<1> QED
  BY <1>1, TypeCorrect, PTL

-----------------------------------------------------------------------------
(* What is shown for want of a slot.                                        *)

\* The body the human spoke, or the agent where no human did.
RuledSo(s, b, body) ==
  IF \E g \in SlotOf(s, b, Human) : TRUE THEN \E g \in SlotOf(s, b, Human) : g.body = body
  ELSE \E actor \in Actors : \E g \in SlotOf(s, b, actor) : g.body = body

LEMMA RulingIsSpoken ==
  ASSUME TypeOK, NEW agent, Actors = {Human, agent}, NEW s, NEW b, NEW body
  PROVE  body \in Ruling(s, b) <=> RuledSo(s, b, body)
<1> DEFINE spoken == {p \in Slots(s, b) : p.rank < 2}
<1>1. \A p \in spoken : /\ p.seq \in Nat /\ p.seq <= clock /\ p.rank \in {0, 1, 2}
                        /\ p \in Slots(s, b)
                        /\ \E actor \in Actors : \E g \in SlotOf(s, b, actor) :
                             p.rank = Rank(actor) /\ p.body = g.body
  BY SlotRows
<1>2. \A actor \in Actors : \A g \in SlotOf(s, b, actor) : \E p \in spoken : p.body = g.body
  <2>1. \A actor : Rank(actor) < 2
    BY DEF Rank
  <2>2. \A actor \in Actors : \A g \in SlotOf(s, b, actor) :
          \E p \in Slots(s, b) : p.rank = Rank(actor) /\ p.body = g.body
    BY SlotRows
  <2> QED
    BY <2>1, <2>2
<1>3. body \in Ruling(s, b) <=> \E p \in Picked(spoken) : p.body = body
  BY DEF Ruling
<1>4. Picked(spoken) \subseteq spoken
  BY DEF Picked
<1>5. spoken # {} => Picked(spoken) # {}
  <2>1. clock \in Nat
    BY ConstantsAssumption DEF TypeOK
  <2> HIDE DEF spoken
  <2> QED
    BY <1>1, <2>1, OneIsPicked
<1>6. ASSUME NEW g \in SlotOf(s, b, Human) PROVE \A p \in Picked(spoken) : p.body = g.body
  <2>1. spoken \in SUBSET Slots(s, b) /\ \A p \in Slots(s, b) : p.rank < 2 => p \in spoken
    OBVIOUS
  <2> HIDE DEF spoken
  <2> QED
    BY <2>1, HumanPicked
<1> HIDE DEF spoken
<1>7. CASE \E g \in SlotOf(s, b, Human) : TRUE
  <2>1. PICK g \in SlotOf(s, b, Human) : TRUE
    BY <1>7
  <2>2. RuledSo(s, b, body) <=> body = g.body
    BY <2>1, OneSlot DEF RuledSo
  <2>3. Picked(spoken) # {}
    BY <1>2, <1>5, ConstantsAssumption
  <2>4. \A p \in Picked(spoken) : p.body = g.body
    BY <1>6
  <2> QED
    BY <1>3, <2>2, <2>3, <2>4
<1>8. CASE ~ \E g \in SlotOf(s, b, Human) : TRUE
  <2>1. \A actor \in Actors : \A g \in SlotOf(s, b, actor) : actor = agent
    BY <1>8
  <2>2. ASSUME NEW p \in Picked(spoken), p.body = body PROVE RuledSo(s, b, body)
    BY <1>1, <1>4, <1>8, <2>2 DEF RuledSo
  <2>3. ASSUME NEW actor \in Actors, NEW g \in SlotOf(s, b, actor), g.body = body
        PROVE  \E p \in Picked(spoken) : p.body = body
    <3>1. PICK p \in Picked(spoken) : TRUE
      BY <1>2, <1>5
    <3>2. PICK o \in Actors : \E h \in SlotOf(s, b, o) : p.body = h.body
      BY <1>1, <1>4
    <3>3. o = actor
      BY <2>1, <3>2
    <3>4. p.body = g.body
      BY <3>2, <3>3, OneSlot
    <3> QED
      BY <2>3, <3>4
  <2> QED
    BY <1>3, <1>8, <2>2, <2>3 DEF RuledSo
<1> QED
  BY <1>7, <1>8

\* A read hides no gap and invents none, of the human and one agent: a subject has
\* no row exactly when nobody spoke and nothing is owed, the human's ruling first.
THEOREM GapsAreShown == ASSUME NEW agent, Actors = {Human, agent} PROVE Spec => []GapsShown
<1>1. TypeOK => GapsShown
  <2> SUFFICES ASSUME TypeOK PROVE GapsShown
    OBVIOUS
  <2> DEFINE Says(s, a, actor) == {g.body : g \in SlotOf(s, a, actor)}
             Ruled(s, when) ==
               IF Says(s, when.aspect, Human) # {} THEN when.value \in Says(s, when.aspect, Human)
               ELSE \E actor \in Actors : when.value \in Says(s, when.aspect, actor)
  <2>1. ASSUME NEW s, NEW when PROVE when.value \in Ruling(s, when.aspect) <=> Ruled(s, when)
    <3>1. RuledSo(s, when.aspect, when.value) <=> Ruled(s, when)
      BY DEF RuledSo
    <3> QED
      BY <3>1, RulingIsSpoken
  <2> HIDE DEF Ruled
  <2>2. ASSUME NEW s \in Subjects, NEW a \in Aspects
        PROVE  /\ Slots(s, a) # {} => \A row \in Rows(s, a) : row.state # "unassessed"
               /\ Rows(s, a) = {} <=>
                    /\ Slots(s, a) = {}
                    /\ WitnessOn(a) # {} =>
                         \A d \in AspectOf(a) : s \notin d.grain \/ (d.when # Nothing /\ ~ Ruled(s, d.when))
    <3>1. CASE Slots(s, a) # {}
      BY <3>1, RowsOfSlots
    <3>2. CASE Slots(s, a) = {}
      <4>1. Rows(s, a) = {[value |-> Nothing, state |-> "unassessed"] : o \in {w \in WitnessOn(a) : Owed(s, a)}}
        BY <3>2 DEF Rows
      <4>2. Rows(s, a) = {} <=> WitnessOn(a) = {} \/ ~ Owed(s, a)
        BY <4>1
      <4>3. Owed(s, a) <=> /\ WitnessOn(a) # {}
                           /\ \E d \in AspectOf(a) : s \in d.grain /\ (d.when # Nothing => Ruled(s, d.when))
        BY <2>1 DEF Owed
      <4> QED
        BY <3>2, <4>2, <4>3
    <3> QED
      BY <3>1, <3>2
  <2> QED
    BY <2>2 DEF GapsShown, Ruled
<1> QED
  BY <1>1, TypeCorrect, PTL

-----------------------------------------------------------------------------
(* Query by query.  What a statement has asked is kept as a predicate of its  *)
(* query p, its text s and the row h it holds.                               *)

IsDeclared(aspect) == \E r \in aspects : r.text.name = aspect

Checked  == {"slots", "sibling", "aspect"}    \* a declaration that counted its glosses
LookedUp == {"schemas", "speakers", "gloss"}  \* a gloss that holds its aspect's row

\* A statement is of the kind its query belongs to, and a gloss that looked its
\* aspect up found one.
Text(p, s) ==
  /\ p \in {"standing", "glossed"} \cup Checked => s \in AspectTexts
  /\ p \in {"lookup"} \cup LookedUp => s \in GlossTexts
  /\ p \in {"named", "fit", "detector", "witness"} => s \in WitnessTexts
  /\ p \in {"known", "function"} => s \in FunctionTexts
  /\ p \in {"voice", "stands", "contract", "land"} => s \in VoiceTexts
  /\ p \in LookedUp => IsDeclared(s.aspect)

\* A declaration's aspect has no gloss, and once asked the slots meet its schema.
Counted(p, s) ==
  p \in Checked => ~ Glossed(s.name) /\ (p # "slots" => FitsSlots(s.schema))

\* A gloss holds its aspect's newest row, which admits the body, and once met so do
\* the grounding schemas.
Meets(p, s, h) ==
  p \in LookedUp =>
    /\ h \in AspectOf(s.aspect)
    /\ AdmitsText(h, s.body)
    /\ p # "schemas" /\ h.kind = "QUERY" => \A schema \in GroundingSchemas : s.body \in Admits[schema]

Typed ==
  /\ TypeOK
  /\ pc = [o \in Conns |-> pc[o]]
  /\ stmt = [o \in Conns |-> stmt[o]]
  /\ held = [o \in Conns |-> held[o]]
  /\ \A g \in glossary : IsDeclared(g.aspect)
  /\ \A o \in Conns : Text(pc[o], stmt[o])

Uncrossed ==
  /\ SlotsFit
  /\ \A o \in Conns : Counted(pc[o], stmt[o]) /\ Meets(pc[o], stmt[o], held[o])

IInv == Typed /\ (~ crossed => Uncrossed)

-----------------------------------------------------------------------------
(* A step that moves one connection's locals and nothing else.               *)

LEMMA LocalStep ==
  ASSUME IInv, NEW c \in Conns, NEW p, NEW s, NEW h,
         pc' = [pc EXCEPT ![c] = p], stmt' = [stmt EXCEPT ![c] = s], held' = [held EXCEPT ![c] = h],
         UNCHANGED <<vars, crossed>>,
         Text(p, s), ~ crossed => Counted(p, s) /\ Meets(p, s, h)
  PROVE  IInv'
<1>1. /\ pc'[c] = p /\ stmt'[c] = s /\ held'[c] = h
      /\ \A o \in Conns : o # c => pc'[o] = pc[o] /\ stmt'[o] = stmt[o] /\ held'[o] = held[o]
      /\ pc' = [o \in Conns |-> pc'[o]]
      /\ stmt' = [o \in Conns |-> stmt'[o]]
      /\ held' = [o \in Conns |-> held'[o]]
  BY DEF IInv, Typed
<1>2. /\ aspects' = aspects /\ witnesses' = witnesses /\ functions' = functions
      /\ glossary' = glossary /\ measurements' = measurements /\ changed' = changed
      /\ clock' = clock /\ crossed' = crossed
  BY DEF vars
<1>3. /\ \A a : IsDeclared(a)' <=> IsDeclared(a)
      /\ \A a : AspectOf(a)' = AspectOf(a)
      /\ \A a : Glossed(a)' <=> Glossed(a)
      /\ \A schema : FitsSlots(schema)' <=> FitsSlots(schema)
      /\ GroundingSchemas' = GroundingSchemas
      /\ CurrentSlots' = CurrentSlots
  BY <1>2 DEF IsDeclared, AspectOf, Glossed, FitsSlots, GroundingSchemas, CurrentSlots, SlotOf
<1>4. TypeOK'
  BY <1>2, TypeStep DEF IInv, Typed, vars
<1>5. \A o \in Conns : Text(pc[o], stmt[o])'
  BY <1>1, <1>3 DEF IInv, Typed, Text
<1>6. ASSUME ~ crossed PROVE Uncrossed'
  <2>1. SlotsFit'
    BY <1>3, <1>6 DEF IInv, Uncrossed, SlotsFit, Admissible
  <2>2. \A o \in Conns : Counted(pc[o], stmt[o])'
    BY <1>1, <1>3, <1>6 DEF IInv, Uncrossed, Counted
  <2>3. \A o \in Conns : Meets(pc[o], stmt[o], held[o])'
    BY <1>1, <1>3, <1>6 DEF IInv, Uncrossed, Meets, AdmitsText
  <2> QED
    BY <2>1, <2>2, <2>3 DEF Uncrossed
<1> QED
  BY <1>1, <1>2, <1>3, <1>4, <1>5, <1>6 DEF IInv, Typed

LEMMA GoesOn ==
  ASSUME IInv, NEW c \in Conns, NEW next, NEW row, GoOn(c, next, row),
         Text(next, stmt[c]),
         ~ crossed => Counted(next, stmt[c]) /\ Meets(next, stmt[c], row)
  PROVE  IInv'
<1>1. stmt' = [stmt EXCEPT ![c] = stmt[c]]
  BY DEF GoOn, IInv, Typed
<1> QED
  BY <1>1, LocalStep DEF GoOn

\* A connection that has nothing under way has asked nothing.
LEMMA Idle ==
  \A s, h : Text("idle", s) /\ Counted("idle", s) /\ Meets("idle", s, h)
BY DEF Text, Counted, Meets, Checked, LookedUp

LEMMA Ends == ASSUME IInv, NEW c \in Conns, Stops(c) PROVE IInv'
BY LocalStep, Idle DEF Stops, Over

\* A query is asked where the statement stands, and its answer suffices for what
\* comes next.
LEMMA Asked ==
  ASSUME IInv, NEW c \in Conns, NEW at, NEW ok, NEW next, NEW row, Ask(c, at, ok, next, row),
         ok => Text(next, stmt[c]),
         ok /\ ~ crossed => Counted(next, stmt[c]) /\ Meets(next, stmt[c], row)
  PROVE  IInv'
BY GoesOn, Ends DEF Ask

LEMMA Begun ==
  ASSUME IInv, NEW c \in Conns, NEW first \in {"standing", "lookup", "named", "known", "voice"}, NEW s,
         Begin(c, first, s), Text(first, s)
  PROVE  IInv'
<1>1. held' = [held EXCEPT ![c] = held[c]]
  BY DEF Begin, IInv, Typed
<1>2. Counted(first, s) /\ Meets(first, s, held[c])
  BY DEF Counted, Meets, Checked, LookedUp
<1> QED
  BY <1>1, <1>2, LocalStep DEF Begin

-----------------------------------------------------------------------------
(* The queries of a declaration and of a gloss.                              *)

\* A name with no newest row has no row, and so no gloss.
LEMMA Undeclared == ASSUME Typed, NEW name, AspectOf(name) = {} PROVE ~ IsDeclared(name) /\ ~ Glossed(name)
<1> DEFINE rows == {r \in aspects : r.text.name = name}
           S == {r.seq : r \in rows}
<1>1. clock \in Nat /\ S \in SUBSET Nat /\ \A n \in S : n <= clock
  BY ConstantsAssumption DEF Typed, TypeOK
<1>2. S # {} => MaxOf(S) \in S
  BY <1>1, MaxOfBounded
<1>3. rows # {} => Newest(rows) # {}
  BY <1>2 DEF Newest, TopSeq
<1>4. ~ IsDeclared(name)
  BY <1>3 DEF AspectOf, IsDeclared
<1> QED
  BY <1>4 DEF Typed, Glossed

LEMMA AspectQueries ==
  ASSUME IInv, NEW c \in Conns,
         AskStanding(c) \/ AskGlossed(c) \/ AskSlots(c) \/ AskSibling(c)
  PROVE  IInv'
<1> USE DEF Text, Meets, LookedUp, Checked
<1>0. Typed
  BY DEF IInv
<1>1. CASE AskStanding(c)
  <2> DEFINE next == IF AspectOf(stmt[c].name) = {} THEN "slots" ELSE "glossed"
  <2>1. stmt[c] \in AspectTexts
    BY <1>0, <1>1 DEF AskStanding, Ask, Typed
  <2>2. Text(next, stmt[c]) /\ Meets(next, stmt[c], Nothing)
    BY <2>1
  <2>3. Counted(next, stmt[c])
    BY <1>0, Undeclared DEF Counted
  <2> QED
    BY <1>1, <2>2, <2>3, Asked DEF AskStanding
<1>2. CASE AskGlossed(c)
  <2>1. stmt[c] \in AspectTexts
    BY <1>0, <1>2 DEF AskGlossed, Ask, Typed
  <2> QED
    BY <1>2, <2>1, Asked DEF AskGlossed, Counted
<1>3. CASE AskSlots(c)
  <2>1. /\ stmt[c] \in AspectTexts
        /\ ~ crossed => ~ Glossed(stmt[c].name)
    BY <1>0, <1>3 DEF AskSlots, Ask, Typed, IInv, Uncrossed, Counted
  <2> QED
    BY <1>3, <2>1, Asked DEF AskSlots, Counted
<1>4. CASE AskSibling(c)
  <2>1. /\ stmt[c] \in AspectTexts
        /\ ~ crossed => ~ Glossed(stmt[c].name) /\ FitsSlots(stmt[c].schema)
    BY <1>0, <1>4 DEF AskSibling, Ask, Typed, IInv, Uncrossed, Counted
  <2> QED
    BY <1>4, <2>1, Asked DEF AskSibling, Counted
<1> QED
  BY <1>1, <1>2, <1>3, <1>4

LEMMA GlossQueries ==
  ASSUME IInv, NEW c \in Conns, LookUp(c) \/ MeetSchemas(c) \/ AskSpeakers(c)
  PROVE  IInv'
<1> USE DEF Text, Counted, LookedUp, Checked
<1>0. Typed
  BY DEF IInv
<1>1. CASE LookUp(c)
  <2>1. stmt[c] \in GlossTexts
    BY <1>0, <1>1 DEF LookUp, Typed
  <2>2. ASSUME NEW d \in AspectOf(stmt[c].aspect),
               Ask(c, "lookup", AdmitsText(d, stmt[c].body), IF d.kind = "QUERY" THEN "schemas" ELSE "speakers", d)
        PROVE  IInv'
    <3> DEFINE next == IF d.kind = "QUERY" THEN "schemas" ELSE "speakers"
    <3>1. IsDeclared(stmt[c].aspect)
      BY <2>2 DEF AspectOf, Newest, IsDeclared
    <3>2. Text(next, stmt[c]) /\ Counted(next, stmt[c])
      BY <2>1, <3>1
    <3>3. AdmitsText(d, stmt[c].body) => Meets(next, stmt[c], d)
      BY <2>2 DEF Meets
    <3> QED
      BY <2>2, <3>2, <3>3, Asked
  <2> QED
    BY <1>1, <2>2, Ends DEF LookUp
<1>2. CASE MeetSchemas(c)
  <2>1. /\ pc[c] = "schemas" /\ stmt[c] \in GlossTexts /\ IsDeclared(stmt[c].aspect)
        /\ ~ crossed => held[c] \in AspectOf(stmt[c].aspect) /\ AdmitsText(held[c], stmt[c].body)
    BY <1>0, <1>2 DEF MeetSchemas, Ask, Typed, IInv, Uncrossed, Meets
  <2> QED
    BY <1>2, <2>1, Asked DEF MeetSchemas, Meets
<1>3. CASE AskSpeakers(c)
  <2>1. /\ pc[c] = "speakers" /\ stmt[c] \in GlossTexts /\ IsDeclared(stmt[c].aspect)
        /\ ~ crossed => Meets("gloss", stmt[c], held[c])
    BY <1>0, <1>3 DEF AskSpeakers, Ask, Typed, IInv, Uncrossed, Meets
  <2> QED
    BY <1>3, <2>1, Asked DEF AskSpeakers
<1> QED
  BY <1>1, <1>2, <1>3

LEMMA OtherQueries ==
  ASSUME IInv, NEW c \in Conns,
         \/ AskWitness(c) \/ AskFit(c) \/ AskDetector(c) \/ AskFunction(c)
         \/ AskVoice(c) \/ AskStands(c) \/ AskContract(c)
  PROVE  IInv'
<1>1. \A s, h : \A p \in {"fit", "detector", "witness", "function", "stands", "contract", "land"} :
        Counted(p, s) /\ Meets(p, s, h)
  BY DEF Counted, Meets, Checked, LookedUp
<1>2. Text(pc[c], stmt[c])
  BY DEF IInv, Typed
<1>3. CASE AskWitness(c)
  BY <1>1, <1>2, <1>3, Asked DEF AskWitness, Ask, Text, LookedUp, Checked
<1>4. CASE AskFit(c)
  <2>1. Text("detector", stmt[c])
    BY <1>2, <1>4 DEF AskFit, Ask, Text, LookedUp, Checked
  <2> QED
    BY <1>1, <1>4, <2>1, Asked DEF AskFit
<1>5. CASE AskDetector(c)
  <2>1. Text("witness", stmt[c])
    BY <1>2, <1>5 DEF AskDetector, Ask, Text, LookedUp, Checked
  <2> QED
    BY <1>1, <1>5, <2>1, Asked DEF AskDetector
<1>6. CASE AskFunction(c)
  BY <1>1, <1>2, <1>6, Asked DEF AskFunction, Ask, Text, LookedUp, Checked
<1>7. CASE AskVoice(c)
  <2>1. Text("stands", stmt[c])
    BY <1>2, <1>7 DEF AskVoice, Text, LookedUp, Checked
  <2> QED
    BY <1>1, <1>7, <2>1, Asked, Ends DEF AskVoice
<1>8. CASE AskStands(c)
  <2>1. Text("contract", stmt[c])
    BY <1>2, <1>8 DEF AskStands, Ask, Text, LookedUp, Checked
  <2> QED
    BY <1>1, <1>8, <2>1, Asked DEF AskStands
<1>9. CASE AskContract(c)
  <2>1. Text("land", stmt[c])
    BY <1>2, <1>9 DEF AskContract, Ask, Text, LookedUp, Checked
  <2> QED
    BY <1>1, <1>9, <2>1, Asked DEF AskContract
<1> QED
  BY <1>3, <1>4, <1>5, <1>6, <1>7, <1>8, <1>9

-----------------------------------------------------------------------------
(* The INSERTs.                                                              *)

LEMMA Ticks ==
  ASSUME TypeOK, Tick
  PROVE  /\ clock \in Nat /\ clock' = clock + 1 /\ clock' \in 0 .. MaxClock
         /\ \A R \in {aspects, witnesses, functions, glossary, measurements} :
              \A r \in R : r.seq \in 1 .. clock /\ r.seq \in 1 .. (clock + 1)
         /\ changed \in [Subjects -> 0 .. (clock + 1)]
BY ConstantsAssumption DEF TypeOK, Tick

LEMMA PutTypes ==
  ASSUME Typed, NEW c \in Conns,
         PutAspect(c) \/ PutGloss(c) \/ PutWitness(c) \/ PutFunction(c) \/ PutVoice(c)
  PROVE  TypeOK'
<1>0. TypeOK /\ Text(pc[c], stmt[c])
  BY DEF Typed
<1>1. CASE PutAspect(c)
  <2> DEFINE row == [seq |-> clock + 1, text |-> stmt[c]]
  <2>1. stmt[c] \in AspectTexts
    BY <1>0, <1>1 DEF PutAspect, Text, Checked
  <2>2. SeqsDiffer(aspects \cup {row}) /\ \A r \in aspects \cup {row} : r.seq \in 1 .. (clock + 1)
    BY <1>0, <1>1, Ticks, LaterDiffers DEF TypeOK, PutAspect
  <2> QED
    BY <1>0, <1>1, Ticks, <2>1, <2>2 DEF PutAspect, TypeOK
<1>2. CASE PutGloss(c)
  <2> DEFINE row == [seq |-> clock + 1, subject |-> stmt[c].subject, aspect |-> stmt[c].aspect,
                     actor |-> stmt[c].actor, body |-> stmt[c].body]
  <2>1. stmt[c] \in GlossTexts
    BY <1>0, <1>2 DEF PutGloss, Text, LookedUp
  <2>2. SeqsDiffer(glossary \cup {row}) /\ \A r \in glossary \cup {row} : r.seq \in 1 .. (clock + 1)
    <3>1. row.seq = clock + 1
      OBVIOUS
    <3>2. SeqsDiffer(glossary) /\ clock \in Nat /\ \A r \in glossary : r.seq \in 1 .. clock
      BY <1>0, <1>2, Ticks DEF TypeOK, PutGloss
    <3> HIDE DEF row
    <3> QED
      BY <3>1, <3>2, LaterDiffers
  <2> QED
    BY <1>0, <1>2, Ticks, <2>1, <2>2 DEF PutGloss, TypeOK, GlossTexts
<1>3. CASE PutWitness(c)
  <2> DEFINE row == [seq |-> clock + 1, text |-> stmt[c]]
  <2>1. stmt[c] \in WitnessTexts
    BY <1>0, <1>3 DEF PutWitness, Text
  <2>2. SeqsDiffer(witnesses \cup {row}) /\ \A r \in witnesses \cup {row} : r.seq \in 1 .. (clock + 1)
    BY <1>0, <1>3, Ticks, LaterDiffers DEF TypeOK, PutWitness
  <2> QED
    BY <1>0, <1>3, Ticks, <2>1, <2>2 DEF PutWitness, TypeOK
<1>4. CASE PutFunction(c)
  <2> DEFINE row == [seq |-> clock + 1, text |-> stmt[c]]
  <2>1. stmt[c] \in FunctionTexts
    BY <1>0, <1>4 DEF PutFunction, Text
  <2>2. SeqsDiffer(functions \cup {row}) /\ \A r \in functions \cup {row} : r.seq \in 1 .. (clock + 1)
    BY <1>0, <1>4, Ticks, LaterDiffers DEF TypeOK, PutFunction
  <2> QED
    BY <1>0, <1>4, Ticks, <2>1, <2>2 DEF PutFunction, TypeOK
<1>5. CASE PutVoice(c)
  <2> DEFINE row == [seq |-> clock + 1, subject |-> stmt[c].subject, aspect |-> held[c].returns,
                     function |-> stmt[c].function, body |-> stmt[c].body]
  <2>1. stmt[c] \in VoiceTexts
    BY <1>0, <1>5 DEF PutVoice, Text
  <2>2. SeqsDiffer(measurements \cup {row}) /\ \A r \in measurements \cup {row} : r.seq \in 1 .. (clock + 1)
    <3>1. row.seq = clock + 1
      OBVIOUS
    <3>2. SeqsDiffer(measurements) /\ clock \in Nat /\ \A r \in measurements : r.seq \in 1 .. clock
      BY <1>0, <1>5, Ticks DEF TypeOK, PutVoice
    <3> HIDE DEF row
    <3> QED
      BY <3>1, <3>2, LaterDiffers
  <2> QED
    BY <1>0, <1>5, Ticks, <2>1, <2>2 DEF PutVoice, TypeOK, VoiceTexts
<1> QED
  BY <1>1, <1>2, <1>3, <1>4, <1>5

\* A statement that is over leaves the others where they were.
LEMMA Leaves ==
  ASSUME Typed, NEW c \in Conns, Over(c)
  PROVE  /\ pc' = [o \in Conns |-> pc'[o]]
         /\ stmt' = [o \in Conns |-> stmt'[o]]
         /\ held' = [o \in Conns |-> held'[o]]
         /\ pc'[c] = "idle"
         /\ \A o \in Conns : o # c => pc'[o] = pc[o] /\ stmt'[o] = stmt[o] /\ held'[o] = held[o]
BY DEF Typed, Over

\* The row of a declaration is the newest of its name, and of another name, and of
\* the grounding schemas when it is none, nothing.
LEMMA AspectRow ==
  ASSUME NEW d, TypeOK, TypeOK', aspects' = aspects \cup {[seq |-> clock + 1, text |-> d]}
  PROVE  /\ \A name : name # d.name => AspectOf(name)' = AspectOf(name)
         /\ d.schema \notin Flavored => GroundingSchemas' = GroundingSchemas
<1> DEFINE row == [seq |-> clock + 1, text |-> d]
<1>1. AspectsByRank /\ GroundingsByRank /\ AspectsByRank' /\ GroundingsByRank'
  <2>1. TypeOK' => AspectsByRank' /\ GroundingsByRank'
    BY ByRank, PTL
  <2> QED
    BY <2>1, ByRank
<1>2. \A name : name # d.name => {r \in aspects' : r.text.name = name} = {r \in aspects : r.text.name = name}
  OBVIOUS
<1>3. ASSUME d.schema \notin Flavored PROVE GroundingSchemas' = GroundingSchemas
  <2>1. {r \in aspects' : r.text.schema \in Flavored} = {r \in aspects : r.text.schema \in Flavored}
    BY <1>3
  <2>2. \A schema : schema \in GroundingSchemas' <=> schema \in GroundingSchemas
    BY <1>1, <2>1 DEF GroundingsByRank
  <2>3. \A schema : schema \in GroundingSchemas' => schema \in GroundingSchemas
    BY <2>2
  <2> QED
    BY <2>2, <2>3
<1> QED
  BY <1>2, <1>3 DEF AspectOf

LEMMA PutAspectKeeps == ASSUME IInv, NEW c \in Conns, PutAspect(c) PROVE IInv'
<1> DEFINE d == stmt[c]
<1>0. /\ Typed /\ TypeOK /\ TypeOK' /\ pc[c] = "aspect" /\ d \in AspectTexts
      /\ aspects' = aspects \cup {[seq |-> clock + 1, text |-> d]}
      /\ glossary' = glossary
  BY PutTypes DEF IInv, Typed, PutAspect, Text, Checked
<1>1. /\ pc'[c] = "idle"
      /\ \A o \in Conns : o # c => pc'[o] = pc[o] /\ stmt'[o] = stmt[o] /\ held'[o] = held[o]
  BY <1>0, Leaves DEF PutAspect
<1>2. \A a : IsDeclared(a) => IsDeclared(a)'
  BY <1>0 DEF IsDeclared
<1>3. Typed'
  <2>1. \A o \in Conns : Text(pc[o], stmt[o])'
    BY <1>0, <1>1, <1>2, Idle DEF Typed, Text, LookedUp, Checked
  <2> QED
    BY <1>0, <1>2, <2>1, Leaves DEF Typed, PutAspect
<1>4. ASSUME ~ crossed' PROVE Uncrossed'
  <2>1. Uncrossed
    BY <1>4 DEF PutAspect, IInv
  <2>2. ~ Glossed(d.name) /\ FitsSlots(d.schema)
    BY <1>0, <2>1 DEF Uncrossed, Counted, Checked
  <2>3. SlotsFit'
    BY <1>0, <2>1, <2>2, AspectRowKeepsFit DEF Uncrossed
  <2>4. ASSUME NEW o \in Conns, o # c PROVE Counted(pc[o], stmt[o])'
    <3>1. Glossed(stmt[o].name)' <=> Glossed(stmt[o].name)
      BY <1>0, <1>1, <2>4 DEF Glossed
    <3>2. FitsSlots(stmt[o].schema) => FitsSlots(stmt[o].schema)'
      <4>1. CurrentSlots' = CurrentSlots /\ \A g \in CurrentSlots : g \in glossary
        <5>1. CurrentSlots' = CurrentSlots
          BY <1>0 DEF CurrentSlots, SlotOf
        <5>2. SlotsByRank
          BY <1>0, ByRank
        <5> QED
          BY <5>1, <5>2 DEF SlotsByRank
      <4>2. stmt'[o] = stmt[o] /\ \A g \in CurrentSlots : g.aspect # d.name
        BY <1>1, <2>2, <2>4, <4>1 DEF Glossed
      <4> QED
        BY <1>0, <4>1, <4>2 DEF FitsSlots
    <3> QED
      BY <1>1, <2>1, <2>4, <3>1, <3>2 DEF Uncrossed, Counted
  <2>5. ASSUME NEW o \in Conns, o # c PROVE Meets(pc[o], stmt[o], held[o])'
    <3> SUFFICES ASSUME pc[o] \in LookedUp PROVE Meets(pc[o], stmt[o], held[o])'
      BY <1>1, <2>5 DEF Meets, LookedUp
    <3>1. d.schema \notin Flavored /\ stmt[o].aspect # d.name
      BY <1>4 DEF PutAspect, LookedUp, BearsOn
    <3>2. /\ \A a : a # d.name => AspectOf(a)' = AspectOf(a)
          /\ GroundingSchemas' = GroundingSchemas
      BY <1>0, <3>1, AspectRow
    <3>3. PICK a : a = stmt[o].aspect
      OBVIOUS
    <3>4. AspectOf(a)' = AspectOf(a) /\ a = stmt'[o].aspect
      BY <1>1, <2>5, <3>1, <3>2, <3>3
    <3>5. held[o] \in AspectOf(a) => (held[o] \in AspectOf(stmt[o].aspect))'
      BY <1>1, <2>5, <3>4
    <3> QED
      BY <1>1, <2>1, <2>5, <3>2, <3>3, <3>5 DEF Uncrossed, Meets, AdmitsText, LookedUp
  <2> QED
    BY <1>1, <2>3, <2>4, <2>5, Idle DEF Uncrossed, Counted, Meets, Checked, LookedUp
<1> QED
  BY <1>3, <1>4 DEF IInv

LEMMA PutGlossKeeps == ASSUME IInv, NEW c \in Conns, PutGloss(c) PROVE IInv'
<1> DEFINE g == stmt[c]
           row == [seq |-> clock + 1, subject |-> g.subject, aspect |-> g.aspect, actor |-> g.actor, body |-> g.body]
<1>0. /\ Typed /\ TypeOK /\ TypeOK' /\ pc[c] = "gloss" /\ g \in GlossTexts /\ IsDeclared(g.aspect)
      /\ glossary' = glossary \cup {row}
      /\ aspects' = aspects
  BY PutTypes DEF IInv, Typed, PutGloss, Text, LookedUp
<1>1. /\ pc'[c] = "idle"
      /\ \A o \in Conns : o # c => pc'[o] = pc[o] /\ stmt'[o] = stmt[o] /\ held'[o] = held[o]
  BY <1>0, Leaves DEF PutGloss
<1>2. /\ \A a : IsDeclared(a)' <=> IsDeclared(a)
      /\ \A a : AspectOf(a)' = AspectOf(a)
      /\ GroundingSchemas' = GroundingSchemas
  BY <1>0 DEF IsDeclared, AspectOf, GroundingSchemas
<1>3. Typed'
  <2>1. \A o \in Conns : Text(pc[o], stmt[o])'
    BY <1>0, <1>1, <1>2, Idle DEF Typed, Text, LookedUp, Checked
  <2>2. \A q \in glossary' : IsDeclared(q.aspect)'
    BY <1>0, <1>2 DEF Typed
  <2> QED
    BY <1>0, <2>1, <2>2, Leaves DEF Typed, PutGloss
<1>4. ASSUME ~ crossed' PROVE Uncrossed'
  <2>1. Uncrossed
    BY <1>4 DEF PutGloss, IInv
  <2>2. Admissible(g.aspect, g.body)
    <3>1. Meets("gloss", g, held[c])
      BY <1>0, <2>1 DEF Uncrossed
    <3> QED
      BY <3>1 DEF Meets, LookedUp, AdmitsText, Admissible
  <2>3. SlotsFit'
    <3>1. /\ g.subject \in Subjects /\ g.aspect \in Aspects /\ g.actor \in Actors /\ g.body \in Bodies
      BY <1>0 DEF GlossTexts
    <3> HIDE DEF g
    <3> QED
      BY <1>0, <2>1, <2>2, <3>1, GlossRowKeepsFit DEF Uncrossed
  <2>4. ASSUME NEW o \in Conns, o # c PROVE Counted(pc[o], stmt[o])'
    <3> SUFFICES ASSUME pc[o] \in Checked PROVE Counted(pc[o], stmt[o])'
      BY <1>1, <2>4 DEF Counted
    <3>1. stmt[o].name # g.aspect /\ stmt[o].schema \notin Flavored
      BY <1>4 DEF PutGloss, BearsOn, Checked
    <3> QED
      BY <1>0, <1>1, <2>1, <2>4, <3>1 DEF Uncrossed, Counted, Glossed, FitsSlots
  <2>5. ASSUME NEW o \in Conns, o # c PROVE Meets(pc[o], stmt[o], held[o])'
    BY <1>1, <1>2, <2>1, <2>5 DEF Uncrossed, Meets, AdmitsText
  <2> QED
    BY <1>1, <2>3, <2>4, <2>5, Idle DEF Uncrossed, Counted, Meets, Checked, LookedUp
<1> QED
  BY <1>3, <1>4 DEF IInv

\* What moves neither aspects nor glosses keeps what was asked of them.
LEMMA AsideKeeps ==
  ASSUME IInv, TypeOK', UNCHANGED <<aspects, glossary, crossed>>,
         (\E c \in Conns : Over(c)) \/ UNCHANGED <<pc, stmt, held>>
  PROVE  IInv'
<1>1. /\ \A a : IsDeclared(a)' <=> IsDeclared(a)
      /\ \A a : AspectOf(a)' = AspectOf(a)
      /\ \A a : Glossed(a)' <=> Glossed(a)
      /\ GroundingSchemas' = GroundingSchemas
      /\ CurrentSlots' = CurrentSlots
  BY DEF IsDeclared, AspectOf, Glossed, GroundingSchemas, CurrentSlots, SlotOf
<1>2. \A schema : FitsSlots(schema)' <=> FitsSlots(schema)
  BY <1>1 DEF FitsSlots
<1>3. \A o \in Conns : \/ pc'[o] = "idle"
                       \/ pc'[o] = pc[o] /\ stmt'[o] = stmt[o] /\ held'[o] = held[o]
  BY Leaves DEF IInv
<1>4. Typed'
  <2>1. \A o \in Conns : Text(pc[o], stmt[o])'
    BY <1>1, <1>3, Idle DEF IInv, Typed, Text, LookedUp, Checked
  <2>2. \A g \in glossary' : IsDeclared(g.aspect)'
    BY <1>1 DEF IInv, Typed
  <2> QED
    BY <2>1, <2>2, Leaves DEF IInv, Typed
<1>5. ASSUME ~ crossed PROVE Uncrossed'
  <2>1. SlotsFit'
    BY <1>1, <1>5 DEF IInv, Uncrossed, SlotsFit, Admissible
  <2>2. \A o \in Conns : Counted(pc[o], stmt[o])'
    BY <1>1, <1>2, <1>3, <1>5 DEF IInv, Uncrossed, Counted, Checked
  <2>3. \A o \in Conns : Meets(pc[o], stmt[o], held[o])'
    BY <1>1, <1>3, <1>5 DEF IInv, Uncrossed, Meets, AdmitsText, LookedUp
  <2> QED
    BY <2>1, <2>2, <2>3 DEF Uncrossed
<1> QED
  BY <1>4, <1>5 DEF IInv

\* Slots deleted whole take no row a declaration or a gloss under way rests on.
LEMMA DeleteKeeps ==
  ASSUME IInv, NEW s \in Subjects, NEW a \in Aspects, DeleteSlots(s, a), UNCHANGED <<pc, stmt, held, crossed>>
  PROVE  IInv'
<1>1. TypeOK /\ TypeOK'
  BY TypeStep DEF IInv, Typed, Next, Whole
<1>2. /\ \A n : IsDeclared(n)' <=> IsDeclared(n)
      /\ \A n : AspectOf(n)' = AspectOf(n)
      /\ GroundingSchemas' = GroundingSchemas
      /\ \A n : Glossed(n)' => Glossed(n)
  BY DEF DeleteSlots, IsDeclared, AspectOf, GroundingSchemas, Glossed
<1>3. CurrentSlots' \subseteq CurrentSlots
  <2>1. SlotsByRank
    BY <1>1, ByRank
  <2>2. TypeOK' => SlotsByRank'
    BY ByRank, PTL
  <2> QED
    BY <1>1, <2>1, <2>2 DEF SlotsByRank, DeleteSlots
<1>4. Typed'
  BY <1>1, <1>2 DEF IInv, Typed, Text, DeleteSlots
<1>5. ASSUME ~ crossed PROVE Uncrossed'
  <2>1. SlotsFit'
    BY <1>1, <1>5, DeleteSlotsKeepsFit DEF IInv, Uncrossed
  <2>2. \A o \in Conns : Counted(pc[o], stmt[o])'
    <3>1. \A schema : FitsSlots(schema) => FitsSlots(schema)'
      BY <1>3 DEF FitsSlots, DeleteSlots
    <3> QED
      BY <1>2, <1>5, <3>1 DEF IInv, Uncrossed, Counted
  <2>3. \A o \in Conns : Meets(pc[o], stmt[o], held[o])'
    BY <1>2, <1>5 DEF IInv, Uncrossed, Meets, AdmitsText
  <2> QED
    BY <2>1, <2>2, <2>3 DEF Uncrossed
<1> QED
  BY <1>4, <1>5 DEF IInv

-----------------------------------------------------------------------------
(* Any connections.                                                          *)

LEMMA OpeningOK == Opening => IInv
<1> SUFFICES ASSUME Opening PROVE IInv
  OBVIOUS
<1>1. TypeOK /\ glossary = {}
  BY InitTypes DEF Opening, Init
<1>2. CurrentSlots = {}
  BY <1>1, ByRank DEF SlotsByRank
<1>3. \A o \in Conns : pc[o] = "idle"
  BY DEF Opening
<1>4. Typed
  BY <1>1, <1>3, Idle DEF Opening, Typed
<1>5. Uncrossed
  BY <1>2, <1>3, Idle DEF Uncrossed, SlotsFit
<1> QED
  BY <1>4, <1>5 DEF IInv

LEMMA AloneKeeps == ASSUME IInv, NEW c \in Conns, Alone(c) PROVE IInv'
<1>1. ASSUME NEW s \in Subjects, NEW a \in Aspects, DeleteSlots(s, a) PROVE IInv'
  BY <1>1, DeleteKeeps DEF Alone
<1>2. ASSUME NEW s \in Subjects, Change(s) PROVE IInv'
  <2>1. TypeOK'
    BY <1>2, TypeStep DEF IInv, Typed, Next, Whole
  <2> QED
    BY <1>2, <2>1, AsideKeeps DEF Alone, Change
<1>3. ASSUME Refuse PROVE IInv'
  <2>1. TypeOK'
    BY <1>3, TypeStep DEF IInv, Typed, Refuse
  <2> QED
    BY <1>3, <2>1, AsideKeeps DEF Alone, Refuse, vars
<1> QED
  BY <1>1, <1>2, <1>3 DEF Alone

LEMMA StartsKeeps == ASSUME IInv, NEW c \in Conns, Starts(c) PROVE IInv'
<1>1. \A d \in AspectTexts : Text("standing", d)
  BY DEF Text, LookedUp, Checked
<1>2. \A g \in GlossTexts : Text("lookup", g)
  BY DEF Text, LookedUp, Checked
<1>3. \A w \in WitnessTexts : Text("named", w)
  BY DEF Text, LookedUp, Checked
<1>4. \A f \in FunctionTexts : Text("known", f)
  BY DEF Text, LookedUp, Checked
<1>5. \A v \in VoiceTexts : Text("voice", v)
  BY DEF Text, LookedUp, Checked
<1> QED
  BY <1>1, <1>2, <1>3, <1>4, <1>5, Begun DEF Starts

LEMMA PutAsideKeeps ==
  ASSUME IInv, NEW c \in Conns, PutWitness(c) \/ PutFunction(c) \/ PutVoice(c)
  PROVE  IInv'
<1>1. TypeOK'
  BY PutTypes DEF IInv
<1> QED
  BY <1>1, AsideKeeps DEF PutWitness, PutFunction, PutVoice

LEMMA IInvStep == IInv /\ [Steps]_allvars => IInv'
<1> SUFFICES ASSUME IInv, [Steps]_allvars PROVE IInv'
  OBVIOUS
<1>1. ASSUME NEW c \in Conns, Step(c) PROVE IInv'
  BY <1>1, AspectQueries, GlossQueries, OtherQueries, PutAspectKeeps, PutGlossKeeps, PutAsideKeeps DEF Step
<1>2. ASSUME UNCHANGED allvars PROVE IInv'
  <2>1. UNCHANGED vars /\ UNCHANGED <<pc, stmt, held, crossed>>
    BY <1>2 DEF allvars
  <2>2. TypeOK'
    BY <2>1, TypeStep DEF IInv, Typed
  <2> QED
    BY <2>1, <2>2, AsideKeeps DEF vars
<1> QED
  BY <1>1, <1>2, AloneKeeps, StartsKeeps DEF Steps

\* However the queries of any connections interleave, a gloss stops meeting its
\* schema only when a declaration and a gloss that rest on each other crossed.
THEOREM OnlyCrossedStrands == AdmissionSpec => []OnlyCrossedStrand
<1>1. IInv => OnlyCrossedStrand
  BY FitConforms DEF IInv, Typed, Uncrossed, OnlyCrossedStrand
<1> QED
  BY <1>1, OpeningOK, IInvStep, PTL DEF AdmissionSpec

-----------------------------------------------------------------------------
(* One connection.  With no other to move them, the answers a statement has    *)
(* had still hold at its INSERT, which is so Glossary's whole statement.       *)

\* What the statement s at query p, holding the row h, has asked.
Sure(p, s, h) ==
  /\ p \in {"glossed"} \cup Checked => AspectOf(s.name) # {s}
  /\ p \in Checked => (AspectOf(s.name) # {} => ~ Glossed(s.name))
  /\ p \in {"sibling", "aspect"} => FitsSlots(s.schema)
  /\ p = "aspect" => FitsSibling(s.when)
  /\ Meets(p, s, h)
  /\ p = "gloss" => /\ h.kind = "QUERY" => s.subject = Dataset
                    /\ s.subject \in h.grain
                    /\ AdmitsActor(s.aspect, s.actor)
  /\ p \in {"fit", "detector", "witness"} => WitnessNamed(s.name) # {s}
  /\ p \in {"detector", "witness"} =>
       \E d \in AspectOf(s.aspect) :
         d.schema \notin Flavored /\ (d.kind = "MEASUREMENT" => s.speakers = {})
  /\ p = "witness" =>
       (s.detector # Nothing => \E f \in FunctionNamed(s.detector) : f.returns = Nothing)
  /\ p = "function" => FunctionNamed(s.name) # {s}
  /\ p \in {"stands", "contract", "land"} => h \in FunctionNamed(s.function) /\ h.returns # Nothing
  /\ p \in {"contract", "land"} =>
       \A m \in Newest({m \in measurements : m.function = s.function /\ m.subject = s.subject}) : VoiceStale(m)
  /\ p = "land" => \E d \in AspectOf(h.returns) : s.body \in Admits[d.schema]

Sound(c) == Typed /\ Sure(pc[c], stmt[c], held[c])

\* A step of the connection's that writes nothing leaves its answers as they were.
LEMMA AnswersHold ==
  ASSUME UNCHANGED vars
  PROVE  \A p, s, h : Sure(p, s, h) => Sure(p, s, h)'
<1>1. /\ aspects' = aspects /\ witnesses' = witnesses /\ functions' = functions
      /\ glossary' = glossary /\ measurements' = measurements /\ changed' = changed
  BY DEF vars
<1>2. /\ \A a : AspectOf(a)' = AspectOf(a)
      /\ \A a : Glossed(a)' <=> Glossed(a)
      /\ GroundingSchemas' = GroundingSchemas
      /\ CurrentSlots' = CurrentSlots
      /\ \A a : WitnessOn(a)' = WitnessOn(a)
      /\ \A a : WitnessNamed(a)' = WitnessNamed(a)
      /\ \A a : FunctionNamed(a)' = FunctionNamed(a)
  BY <1>1 DEF AspectOf, Glossed, GroundingSchemas, CurrentSlots, SlotOf, WitnessOn, WitnessNamed, FunctionNamed
<1>3. /\ \A schema : FitsSlots(schema)' <=> FitsSlots(schema)
      /\ \A when : FitsSibling(when)' <=> FitsSibling(when)
      /\ \A a, w : AdmitsActor(a, w)' <=> AdmitsActor(a, w)
      /\ \A m : VoiceStale(m)' <=> VoiceStale(m)
      /\ \A p, s, h : Meets(p, s, h)' <=> Meets(p, s, h)
  BY <1>1, <1>2 DEF FitsSlots, FitsSibling, AdmitsActor, VoiceStale, Meets, AdmitsText
<1> QED
  BY <1>1, <1>2, <1>3 DEF Sure

LEMMA NothingAsked ==
  /\ \A s, h : Sure("idle", s, h)
  /\ \A c \in Conns : pc'[c] = "idle" => Sure(pc[c], stmt[c], held[c])'
BY DEF Sure, Meets, Checked, LookedUp

\* A query of the statement writes nothing, and what it goes on with it has asked.
LEMMA AskedHolds ==
  ASSUME NEW c \in Conns, Sound(c), NEW at, NEW ok, NEW next, NEW row, Ask(c, at, ok, next, row),
         ok => Sure(next, stmt[c], row)
  PROVE  UNCHANGED vars /\ Sure(pc[c], stmt[c], held[c])'
<1>1. CASE ok
  <2>1. UNCHANGED vars /\ pc'[c] = next /\ stmt'[c] = stmt[c] /\ held'[c] = row
    BY <1>1 DEF Ask, GoOn, Sound, Typed
  <2>2. PICK s : s = stmt[c]
    OBVIOUS
  <2>3. PICK n : n = next
    OBVIOUS
  <2>4. PICK r : r = row
    OBVIOUS
  <2>5. Sure(n, s, r)'
    BY <1>1, <2>1, <2>2, <2>3, <2>4, AnswersHold
  <2> QED
    BY <2>1, <2>2, <2>3, <2>4, <2>5
<1>2. CASE ~ ok
  <2>1. UNCHANGED vars /\ pc'[c] = "idle"
    BY <1>2, Leaves DEF Ask, Stops, Sound
  <2> QED
    BY <2>1, NothingAsked
<1> QED
  BY <1>1, <1>2

\* The queries of each statement, for whoever they are Sound.
LEMMA QueriesKeepSure ==
  ASSUME NEW c \in Conns, Sound(c),
         \/ AskStanding(c) \/ AskGlossed(c) \/ AskSlots(c) \/ AskSibling(c)
         \/ LookUp(c) \/ MeetSchemas(c) \/ AskSpeakers(c)
         \/ AskWitness(c) \/ AskFit(c) \/ AskDetector(c) \/ AskFunction(c)
         \/ AskVoice(c) \/ AskStands(c) \/ AskContract(c)
  PROVE  UNCHANGED vars /\ Sure(pc[c], stmt[c], held[c])'
<1> DEFINE s == stmt[c]
           Kept == UNCHANGED vars /\ Sure(pc[c], stmt[c], held[c])'
<1>0. Sure(pc[c], s, held[c])
  BY DEF Sound
<1> USE DEF Sure, Meets, Checked, LookedUp
<1>1. CASE AskStanding(c)
  <2> DEFINE next == IF AspectOf(s.name) = {} THEN "slots" ELSE "glossed"
  <2>1. AspectOf(s.name) # {s} => Sure(next, s, Nothing)
    OBVIOUS
  <2> HIDE DEF Sure, Meets, Checked, LookedUp
  <2> QED
    BY <1>1, <2>1, AskedHolds DEF AskStanding
<1>2. CASE AskGlossed(c)
  <2>1. ~ Glossed(s.name) => Sure("slots", s, Nothing)
    BY <1>0, <1>2 DEF AskGlossed, Ask
  <2> QED
    BY <1>2, <2>1, AskedHolds DEF AskGlossed
<1>3. CASE AskSlots(c)
  <2>1. FitsSlots(s.schema) => Sure("sibling", s, Nothing)
    BY <1>0, <1>3 DEF AskSlots, Ask
  <2> QED
    BY <1>3, <2>1, AskedHolds DEF AskSlots
<1>4. CASE AskSibling(c)
  <2>1. FitsSibling(s.when) => Sure("aspect", s, Nothing)
    BY <1>0, <1>4 DEF AskSibling, Ask
  <2> QED
    BY <1>4, <2>1, AskedHolds DEF AskSibling
<1>5. CASE LookUp(c)
  <2>1. ASSUME NEW d \in AspectOf(s.aspect),
               Ask(c, "lookup", AdmitsText(d, s.body), IF d.kind = "QUERY" THEN "schemas" ELSE "speakers", d)
        PROVE  Kept
    <3> DEFINE next == IF d.kind = "QUERY" THEN "schemas" ELSE "speakers"
    <3>1. AdmitsText(d, s.body) => Sure(next, s, d)
      BY <2>1
    <3> QED
      BY <2>1, <3>1, AskedHolds
  <2>2. ASSUME Stops(c) PROVE Kept
    BY <2>2, NothingAsked, Leaves DEF Stops, Sound
  <2> QED
    BY <1>5, <2>1, <2>2 DEF LookUp
<1>6. CASE MeetSchemas(c)
  <2>1. (\A schema \in GroundingSchemas : s.body \in Admits[schema]) => Sure("speakers", s, held[c])
    BY <1>0, <1>6 DEF MeetSchemas, Ask
  <2> QED
    BY <1>6, <2>1, AskedHolds DEF MeetSchemas
<1>7. CASE AskSpeakers(c)
  <2> DEFINE ok == /\ held[c].kind = "QUERY" => s.subject = Dataset
                   /\ s.subject \in held[c].grain
                   /\ AdmitsActor(s.aspect, s.actor)
  <2>1. ok => Sure("gloss", s, held[c])
    BY <1>0, <1>7 DEF AskSpeakers, Ask
  <2> QED
    BY <1>7, <2>1, AskedHolds DEF AskSpeakers
<1>8. CASE AskWitness(c)
  <2>1. WitnessNamed(s.name) # {s} => Sure("fit", s, Nothing)
    OBVIOUS
  <2> QED
    BY <1>8, <2>1, AskedHolds DEF AskWitness
<1>9. CASE AskFit(c)
  <2> DEFINE ok == \E d \in AspectOf(s.aspect) :
                     d.schema \notin Flavored /\ (d.kind = "MEASUREMENT" => s.speakers = {})
  <2>1. ok => Sure("detector", s, Nothing)
    BY <1>0, <1>9 DEF AskFit, Ask
  <2> QED
    BY <1>9, <2>1, AskedHolds DEF AskFit
<1>10. CASE AskDetector(c)
  <2> DEFINE ok == s.detector # Nothing => \E f \in FunctionNamed(s.detector) : f.returns = Nothing
  <2>1. ok => Sure("witness", s, Nothing)
    BY <1>0, <1>10 DEF AskDetector, Ask
  <2> QED
    BY <1>10, <2>1, AskedHolds DEF AskDetector
<1>11. CASE AskFunction(c)
  <2>1. FunctionNamed(s.name) # {s} => Sure("function", s, Nothing)
    OBVIOUS
  <2> QED
    BY <1>11, <2>1, AskedHolds DEF AskFunction
<1>12. CASE AskVoice(c)
  <2>1. ASSUME NEW f \in FunctionNamed(s.function), Ask(c, "voice", f.returns # Nothing, "stands", f)
        PROVE  Kept
    <3>1. f.returns # Nothing => Sure("stands", s, f)
      BY <2>1
    <3> QED
      BY <2>1, <3>1, AskedHolds
  <2>2. ASSUME Stops(c) PROVE Kept
    BY <2>2, NothingAsked, Leaves DEF Stops, Sound
  <2> QED
    BY <1>12, <2>1, <2>2 DEF AskVoice
<1>13. CASE AskStands(c)
  <2> DEFINE ok == \A m \in Newest({m \in measurements : m.function = s.function /\ m.subject = s.subject}) :
                     VoiceStale(m)
  <2>1. ok => Sure("contract", s, held[c])
    BY <1>0, <1>13 DEF AskStands, Ask
  <2> QED
    BY <1>13, <2>1, AskedHolds DEF AskStands
<1>14. CASE AskContract(c)
  <2>1. (\E d \in AspectOf(held[c].returns) : s.body \in Admits[d.schema]) => Sure("land", s, held[c])
    BY <1>0, <1>14 DEF AskContract, Ask
  <2> QED
    BY <1>14, <2>1, AskedHolds DEF AskContract
<1> QED
  BY <1>1, <1>2, <1>3, <1>4, <1>5, <1>6, <1>7, <1>8, <1>9, <1>10, <1>11, <1>12, <1>13, <1>14

\* An INSERT whose statement is Sound is Glossary's statement.
LEMMA PutsAreStatements ==
  ASSUME NEW c \in Conns, Sound(c),
         PutAspect(c) \/ PutGloss(c) \/ PutWitness(c) \/ PutFunction(c) \/ PutVoice(c)
  PROVE  Whole /\ pc'[c] = "idle"
<1> DEFINE s == stmt[c]
<1>0. Sure(pc[c], s, held[c]) /\ Text(pc[c], s) /\ Typed
  BY DEF Sound, Typed
<1>i. pc'[c] = "idle"
  BY <1>0, Leaves DEF PutAspect, PutGloss, PutWitness, PutFunction, PutVoice
<1>1. CASE PutAspect(c)
  <2>1. s \in AspectTexts /\ DeclareAspect(s)
    BY <1>0, <1>1 DEF PutAspect, Sure, Text, Checked, DeclareAspect
  <2> QED
    BY <1>i, <2>1 DEF Whole
<1>2. CASE PutGloss(c)
  <2>1. s \in GlossTexts /\ Meets("gloss", s, held[c])
    BY <1>0, <1>2 DEF PutGloss, Sure, Text, LookedUp
  <2>2. held[c] \in AspectOf(s.aspect) /\ AdmitsBody(held[c], s.body)
    BY <2>1 DEF Meets, LookedUp, AdmitsText, AdmitsBody
  <2>3. /\ held[c].kind = "QUERY" => s.subject = Dataset
        /\ s.subject \in held[c].grain
        /\ AdmitsActor(s.aspect, s.actor)
    BY <1>0, <1>2 DEF PutGloss, Sure
  <2>4. Gloss(s.subject, s.aspect, s.actor, s.body)
    BY <1>2, <2>2, <2>3 DEF PutGloss, Gloss
  <2>5. s.subject \in Subjects /\ s.aspect \in Aspects /\ s.actor \in Actors /\ s.body \in Bodies
    BY <2>1 DEF GlossTexts
  <2> HIDE DEF s
  <2> QED
    BY <1>i, <2>4, <2>5 DEF Whole
<1>3. CASE PutWitness(c)
  <2>1. s \in WitnessTexts /\ DeclareWitness(s)
    BY <1>0, <1>3 DEF PutWitness, Sure, Text, DeclareWitness
  <2> QED
    BY <1>i, <2>1 DEF Whole
<1>4. CASE PutFunction(c)
  <2>1. s \in FunctionTexts /\ DeclareFunction(s)
    BY <1>0, <1>4 DEF PutFunction, Sure, Text, DeclareFunction
  <2> QED
    BY <1>i, <2>1 DEF Whole
<1>5. CASE PutVoice(c)
  <2> DEFINE f == held[c]
  <2>1. s \in VoiceTexts /\ f \in FunctionNamed(s.function)
    BY <1>0, <1>5 DEF PutVoice, Sure, Text
  <2>2. f.name = s.function /\ f \in FunctionTexts
    BY <1>0, <2>1 DEF FunctionNamed, Newest, Typed, TypeOK
  <2>3. /\ f.returns # Nothing
        /\ \A m \in Newest({m \in measurements : m.function = s.function /\ m.subject = s.subject}) : VoiceStale(m)
        /\ \E d \in AspectOf(f.returns) : s.body \in Admits[d.schema]
    BY <1>0, <1>5 DEF PutVoice, Sure
  <2>4. Extract(f, s.subject, s.body)
    BY <1>5, <2>1, <2>2, <2>3 DEF PutVoice, Extract
  <2>5. s.subject \in Subjects /\ s.body \in Bodies
    BY <2>1 DEF VoiceTexts
  <2> HIDE DEF s, f
  <2> QED
    BY <1>i, <2>2, <2>4, <2>5 DEF Whole
<1> QED
  BY <1>1, <1>2, <1>3, <1>4, <1>5

\* A step of a connection whose statement is Sound leaves it so, and is Glossary's.
LEMMA OneStep ==
  ASSUME NEW c \in Conns, IInv, Sure(pc[c], stmt[c], held[c]),
         Alone(c) \/ Starts(c) \/ Step(c) \/ UNCHANGED allvars
  PROVE  Sure(pc[c], stmt[c], held[c])' /\ [Whole]_vars
<1>0. Sound(c)
  BY DEF IInv, Sound
<1>1. CASE Alone(c)
  <2>1. pc[c] = "idle" /\ pc' = pc /\ [Whole]_vars
    BY <1>1 DEF Alone, Whole
  <2> QED
    BY <2>1, NothingAsked
<1>2. CASE Starts(c)
  <2>1. PICK first \in {"standing", "lookup", "named", "known", "voice"} : \E s : Begin(c, first, s)
    BY <1>2 DEF Starts
  <2>2. pc'[c] = first /\ UNCHANGED vars
    BY <1>0, <2>1 DEF Begin, Sound, Typed
  <2>3. Sure(pc[c], stmt[c], held[c])'
    BY <2>2 DEF Sure, Meets, Checked, LookedUp
  <2> QED
    BY <2>2, <2>3
<1>3. CASE Step(c)
  <2>1. CASE \/ PutAspect(c) \/ PutGloss(c) \/ PutWitness(c) \/ PutFunction(c) \/ PutVoice(c)
    BY <1>0, <2>1, PutsAreStatements, NothingAsked
  <2> QED
    BY <1>0, <1>3, <2>1, QueriesKeepSure DEF Step
<1>4. CASE UNCHANGED allvars
  <2>1. UNCHANGED vars /\ pc' = pc /\ stmt' = stmt /\ held' = held
    BY <1>4 DEF allvars
  <2>2. PICK p : p = pc[c]
    OBVIOUS
  <2>3. PICK s : s = stmt[c]
    OBVIOUS
  <2>4. PICK h : h = held[c]
    OBVIOUS
  <2>5. Sure(p, s, h)'
    BY <2>1, <2>2, <2>3, <2>4, AnswersHold
  <2> QED
    BY <2>1, <2>2, <2>3, <2>4, <2>5
<1> QED
  BY <1>1, <1>2, <1>3, <1>4

\* One connection's statements, query by query, are Glossary's, each one step: so
\* what Glossary keeps (GlossesConform among it) they keep.
THEOREM OneConnIsGlossary ==
  ASSUME NEW CONSTANT c, Conns = {c}
  PROVE  AdmissionSpec => IsGlossary
<1> DEFINE One == IInv /\ Sure(pc[c], stmt[c], held[c])
<1>1. Opening => Init /\ One
  BY OpeningOK, NothingAsked DEF Opening
<1>2. One /\ [Steps]_allvars => One' /\ [Whole]_vars
  BY IInvStep, OneStep DEF Steps
<1> QED
  BY <1>1, <1>2, PTL DEF AdmissionSpec, IsGlossary, WholeSpec

-----------------------------------------------------------------------------
(* After a kit's load, the door's connection alone open or all of them.        *)

\* A kit as loaded carries its declarations and no gloss.
LEMMA LoadedOK ==
  ASSUME Len(Kit) <= MaxClock, \A i \in DOMAIN Kit : Kit[i] \in AspectTexts
  PROVE  MCOpening => IInv
<1> SUFFICES ASSUME MCOpening PROVE IInv
  OBVIOUS
<1>1. Len(Kit) = 2 /\ DOMAIN Kit = 1 .. 2
  BY DEF Kit
<1>2. /\ clock = 2 /\ clock \in 0 .. MaxClock
      /\ aspects = {[seq |-> i, text |-> Kit[i]] : i \in 1 .. 2}
  BY <1>1, ConstantsAssumption DEF MCOpening
<1>3. \A r \in aspects : r.text \in AspectTexts /\ r.seq \in 1 .. clock
  BY <1>1, <1>2
<1>4. SeqsDiffer(aspects)
  BY <1>2 DEF SeqsDiffer
<1>5. /\ witnesses = {} /\ functions = {} /\ glossary = {} /\ measurements = {}
      /\ changed = [s \in Subjects |-> 0]
  BY DEF MCOpening
<1>6. TypeOK
  BY <1>2, <1>3, <1>4, <1>5 DEF TypeOK, SeqsDiffer
<1>7. CurrentSlots = {}
  BY <1>5, <1>6, ByRank DEF SlotsByRank
<1>8. \A o \in Conns : pc[o] = "idle"
  BY DEF MCOpening
<1>9. Typed
  BY <1>5, <1>6, <1>8, Idle DEF MCOpening, Typed
<1>10. Uncrossed
  BY <1>7, <1>8, Idle DEF Uncrossed, SlotsFit
<1> QED
  BY <1>9, <1>10 DEF IInv

\* Whatever is open, IInv; and what the door alone has asked still holds.
OpenInv ==
  /\ IInv
  /\ open \in {Conns, {Door}}
  /\ DoorAlone => Sure(pc[Door], stmt[Door], held[Door])

\* Where nothing has been asked it holds.
LEMMA LoadedOpens ==
  ASSUME Door \in Conns, Len(Kit) <= MaxClock, \A i \in DOMAIN Kit : Kit[i] \in AspectTexts
  PROVE  MCOpening => OpenInv
<1> SUFFICES ASSUME MCOpening PROVE OpenInv
  OBVIOUS
<1>1. IInv
  BY LoadedOK
<1>2. pc[Door] = "idle" /\ open \in {Conns, {Door}}
  BY DEF MCOpening
<1>3. Sure(pc[Door], stmt[Door], held[Door])
  BY <1>2, NothingAsked
<1> QED
  BY <1>1, <1>2, <1>3 DEF OpenInv

\* A step of the open connections keeps it; the door's alone is Glossary's.
LEMMA OpenStep ==
  ASSUME Door \in Conns, OpenInv, [MCSteps]_<<allvars, open>>
  PROVE  OpenInv' /\ (DoorAlone => [Whole]_vars)
<1>1. open' = open /\ [Steps]_allvars
  <2>1. open \subseteq Conns
    BY DEF OpenInv
  <2> QED
    BY <2>1 DEF MCSteps, Same, Steps
<1>2. IInv'
  BY <1>1, IInvStep DEF OpenInv
<1>3. ASSUME DoorAlone
      PROVE  Sure(pc[Door], stmt[Door], held[Door])' /\ [Whole]_vars
  <2>1. Alone(Door) \/ Starts(Door) \/ Step(Door) \/ UNCHANGED allvars
    BY <1>3 DEF MCSteps, DoorAlone
  <2>2. IInv /\ Sure(pc[Door], stmt[Door], held[Door])
    BY <1>3 DEF OpenInv
  <2> QED
    BY <2>1, <2>2, OneStep
<1>4. DoorAlone' <=> DoorAlone
  BY <1>1 DEF DoorAlone
<1> QED
  BY <1>1, <1>2, <1>3, <1>4 DEF OpenInv

\* After a kit's load the door's statements, query by query, are Glossary's, each
\* one step, whatever the other connections could do when they are open.
THEOREM DoorIsOne ==
  ASSUME Door \in Conns, Len(Kit) <= MaxClock, \A i \in DOMAIN Kit : Kit[i] \in AspectTexts
  PROVE  MCSpec => DoorIsGlossary
<1>1. MCOpening => OpenInv
  BY LoadedOpens
<1>2. OpenInv /\ [MCSteps]_<<allvars, open>> => OpenInv' /\ (DoorAlone => [Whole]_vars)
  BY OpenStep
<1> QED
  BY <1>1, <1>2, PTL DEF MCSpec, DoorIsGlossary

\* With every connection open, too, only what crossed strands a gloss.
THEOREM OpenOnlyCrossed ==
  ASSUME Door \in Conns, Len(Kit) <= MaxClock, \A i \in DOMAIN Kit : Kit[i] \in AspectTexts
  PROVE  MCSpec => []OnlyCrossedStrand
<1>1. MCOpening => OpenInv
  BY LoadedOpens
<1>2. OpenInv /\ [MCSteps]_<<allvars, open>> => OpenInv'
  BY OpenStep
<1>3. OpenInv => OnlyCrossedStrand
  BY FitConforms DEF OpenInv, IInv, Typed, Uncrossed, OnlyCrossedStrand
<1> QED
  BY <1>1, <1>2, <1>3, PTL DEF MCSpec

=============================================================================
