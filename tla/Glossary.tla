------------------------------ MODULE Glossary ------------------------------
(***************************************************************************)
(* What is declared and what is glossed (glossql_store.cpp, AdmitAspect,     *)
(* AdmitGloss, GlossWriteExec; glossql_runner.cpp, WitnessExec,              *)
(* FunctionExec; SPEC.md sections 5.1, 5.2 and 7.1): aspects and the schemas *)
(* that admit a body, witnesses and whom they admit, detectors, glosses and  *)
(* function voices.                                                         *)
(*                                                                         *)
(* One connection: a statement is one action, its admission and its INSERT.  *)
(* What each reads and writes when others step in between is ReadCache's and *)
(* Grounding's to say.  A statement's text is a record; a row is a seq and    *)
(* its text, and one clock numbers every relation's rows.  A schema is the    *)
(* set of bodies it admits, a grain the set of subjects of its class.        *)
(***************************************************************************)
EXTENDS StoreRows, Integers, FiniteSets

CONSTANTS
  Subjects,       \* what is glossed
  Dataset,        \* the subject a QUERY aspect takes
  Actors,         \* human, agent
  Human,
  Bodies,         \* JSON bodies
  Contract,       \* those that meet the grounding contract
  Schemas,
  Admits,         \* Schemas -> the bodies it admits
  Flavored,       \* the schemas of x-kind grounding
  AspectTexts,    \* [name, kind, schema, grain, when]: DECLARE ASPECT statements
  WitnessTexts,   \* [name, aspect, speakers, detector, threshold]
  FunctionTexts,  \* [name, returns, script]
  Nothing,        \* a clause that is left out
  MaxClock        \* bound: statements that write

Aspects == {d.name : d \in AspectTexts}

ASSUME ConstantsAssumption ==
  /\ Dataset \in Subjects
  /\ Human \in Actors
  /\ Contract \subseteq Bodies
  /\ Flavored \subseteq Schemas
  /\ Admits \in [Schemas -> SUBSET Bodies]
  /\ MaxClock \in Nat

VARIABLES
  aspects, witnesses, functions,  \* declarations: seq, text
  glossary,                       \* seq, subject, aspect, actor, body
  measurements,                   \* seq, subject, aspect, function, body
  changed,                        \* per subject: when it last changed
  clock                           \* the seq of the newest row

vars == <<aspects, witnesses, functions, glossary, measurements, changed, clock>>

Init ==
  /\ aspects = {} /\ witnesses = {} /\ functions = {}
  /\ glossary = {} /\ measurements = {}
  /\ changed = [s \in Subjects |-> 0]
  /\ clock = 0

-----------------------------------------------------------------------------
(* What stands.                                                            *)

AspectOf(name) == {r.text : r \in Newest({r \in aspects : r.text.name = name})}

WitnessOn(aspect) == {r.text : r \in Newest({r \in witnesses : r.text.aspect = aspect})}

WitnessNamed(name) == {r.text : r \in Newest({r \in witnesses : r.text.name = name})}

FunctionNamed(name) == {r.text : r \in Newest({r \in functions : r.text.name = name})}

\* The newest row of a slot.
SlotOf(subject, aspect, actor) ==
  Newest({g \in glossary : g.subject = subject /\ g.aspect = aspect /\ g.actor = actor})

CurrentSlots == UNION {SlotOf(s, a, w) : s \in Subjects, a \in Aspects, w \in Actors}

Glossed(aspect) == \E g \in glossary : g.aspect = aspect

\* The schemas a QUERY body meets: of the rows flavored so, the newest per name.
GroundingSchemas ==
  UNION {{r.text.schema : r \in Newest({r \in aspects : r.text.name = a /\ r.text.schema \in Flavored})}
           : a \in Aspects}

Tick == clock < MaxClock /\ clock' = clock + 1

-----------------------------------------------------------------------------
(* Declarations.                                                           *)

\* A grounding schema admitted whatever is glossed.
FitsSlotsAny(schema) == TRUE

\* Every current slot of what was ever declared QUERY meets a grounding schema.
FitsSlots(schema) ==
  schema \in Flavored =>
    \A g \in CurrentSlots :
      (\E r \in aspects : r.text.name = g.aspect /\ r.text.kind = "QUERY") =>
        g.body \in Admits[schema]

\* A WHEN names a declared sibling whose schema admits the literal.
FitsSibling(when) ==
  when # Nothing => \E d \in AspectOf(when.aspect) : when.value \in Admits[d.schema]

\* DECLARE ASPECT: the newest again is a no-op, a change under glosses is refused.
DeclareAspect(d) ==
  /\ AspectOf(d.name) # {d}
  /\ AspectOf(d.name) # {} => ~ Glossed(d.name)
  /\ FitsSlots(d.schema)
  /\ FitsSibling(d.when)
  /\ Tick
  /\ aspects' = aspects \cup {[seq |-> clock + 1, text |-> d]}
  /\ UNCHANGED <<witnesses, functions, glossary, measurements, changed>>

\* DECLARE WITNESS: on a declared aspect that is no grounding schema, BY not on a
\* MEASUREMENT, the detector a function without RETURNS.
DeclareWitness(w) ==
  /\ WitnessNamed(w.name) # {w}
  /\ \E d \in AspectOf(w.aspect) :
       /\ d.schema \notin Flavored
       /\ d.kind = "MEASUREMENT" => w.speakers = {}
  /\ w.detector # Nothing => \E f \in FunctionNamed(w.detector) : f.returns = Nothing
  /\ Tick
  /\ witnesses' = witnesses \cup {[seq |-> clock + 1, text |-> w]}
  /\ UNCHANGED <<aspects, functions, glossary, measurements, changed>>

\* A declaration under the seq that is already the newest.
DeclareFunctionSameSeq(f) ==
  /\ FunctionNamed(f.name) # {f}
  /\ Tick
  /\ functions' = functions \cup {[seq |-> clock, text |-> f]}
  /\ UNCHANGED <<aspects, witnesses, glossary, measurements, changed>>

\* DECLARE FUNCTION.
DeclareFunction(f) ==
  /\ FunctionNamed(f.name) # {f}
  /\ Tick
  /\ functions' = functions \cup {[seq |-> clock + 1, text |-> f]}
  /\ UNCHANGED <<aspects, witnesses, glossary, measurements, changed>>

-----------------------------------------------------------------------------
(* Glosses and voices.                                                     *)

\* The body is the aspect's to admit: a FACT's schema; a QUERY's contract and
\* every grounding schema; never a MEASUREMENT, nor a grounding schema's own name.
AdmitsBody(d, body) ==
  /\ d.kind # "MEASUREMENT"
  /\ d.schema \notin Flavored
  /\ IF d.kind = "QUERY"
     THEN body \in Contract /\ \A schema \in GroundingSchemas : body \in Admits[schema]
     ELSE body \in Admits[d.schema]

\* The witness's BY admits the actor's kind; without one, or a BY, anyone.
AdmitsActor(aspect, actor) ==
  \A w \in WitnessOn(aspect) : w.speakers = {} \/ actor \in w.speakers

Gloss(subject, aspect, actor, body) ==
  /\ \E d \in AspectOf(aspect) :
       /\ AdmitsBody(d, body)
       /\ d.kind = "QUERY" => subject = Dataset
       /\ subject \in d.grain
  /\ AdmitsActor(aspect, actor)
  /\ Tick
  /\ glossary' = glossary \cup
       {[seq |-> clock + 1, subject |-> subject, aspect |-> aspect, actor |-> actor, body |-> body]}
  /\ UNCHANGED <<aspects, witnesses, functions, measurements, changed>>

\* A voice is stale once its input moved, or its function was declared again.
VoiceStale(m) ==
  \/ changed[m.subject] > m.seq
  \/ \E f \in functions : f.text.name = m.function /\ f.seq > m.seq

\* A value that stands is served.  Else one lands that the aspect's schema admits.
Extract(f, subject, body) ==
  /\ f \in FunctionNamed(f.name)
  /\ f.returns # Nothing
  /\ \A m \in Newest({m \in measurements : m.function = f.name /\ m.subject = subject}) : VoiceStale(m)
  /\ \E d \in AspectOf(f.returns) : body \in Admits[d.schema]
  /\ Tick
  /\ measurements' = measurements \cup
       {[seq |-> clock + 1, subject |-> subject, aspect |-> f.returns, function |-> f.name, body |-> body]}
  /\ UNCHANGED <<aspects, witnesses, functions, glossary, changed>>

\* DELETE FROM glossary WHERE subject AND aspect: every speaker's rows.
DeleteSlots(subject, aspect) ==
  /\ \E g \in glossary : g.subject = subject /\ g.aspect = aspect
  /\ glossary' = {g \in glossary : g.subject # subject \/ g.aspect # aspect}
  /\ UNCHANGED <<aspects, witnesses, functions, measurements, changed, clock>>

\* Any other WHERE: rows of a slot, leaving the ones beneath.
DeleteRow ==
  /\ \E g \in glossary : glossary' = glossary \ {g}
  /\ UNCHANGED <<aspects, witnesses, functions, measurements, changed, clock>>

\* The subject is retyped, re-derived or dropped; a dataset is not.
Change(subject) ==
  /\ subject # Dataset
  /\ Tick
  /\ changed' = [changed EXCEPT ![subject] = clock + 1]
  /\ UNCHANGED <<aspects, witnesses, functions, glossary, measurements>>

\* A statement that is refused or changes nothing.
Refuse == UNCHANGED vars

-----------------------------------------------------------------------------
\* Slots are deleted whole.
Whole ==
  \/ \E d \in AspectTexts : DeclareAspect(d)
  \/ \E w \in WitnessTexts : DeclareWitness(w)
  \/ \E f \in FunctionTexts : DeclareFunction(f)
  \/ \E s \in Subjects, a \in Aspects, actor \in Actors, body \in Bodies : Gloss(s, a, actor, body)
  \/ \E f \in FunctionTexts, s \in Subjects, body \in Bodies : Extract(f, s, body)
  \/ \E s \in Subjects, a \in Aspects : DeleteSlots(s, a)
  \/ \E s \in Subjects : Change(s)
  \/ Refuse

Next == Whole \/ DeleteRow

Spec == Init /\ [][Next]_vars

WholeSpec == Init /\ [][Whole]_vars

-----------------------------------------------------------------------------
(* What admission owes the readers of the glossary.                        *)

SeqsDiffer(rows) == \A q, r \in rows : q.seq = r.seq => q = r

\* Rows are numbered, carry declared texts, and no two relations' share a seq.
TypeOK ==
  /\ clock \in 0 .. MaxClock
  /\ \A r \in aspects : r.text \in AspectTexts
  /\ \A r \in witnesses : r.text \in WitnessTexts
  /\ \A r \in functions : r.text \in FunctionTexts
  /\ \A g \in glossary : /\ g.subject \in Subjects /\ g.aspect \in Aspects
                         /\ g.actor \in Actors /\ g.body \in Bodies
  /\ \A m \in measurements : m.subject \in Subjects /\ m.body \in Bodies
  /\ \A R \in {aspects, witnesses, functions, glossary, measurements} :
       SeqsDiffer(R) /\ \A r \in R : r.seq \in 1 .. clock
  /\ changed \in [Subjects -> 0 .. clock]

\* A body as its aspect's standing declaration has it, the standing grounding
\* schemas among them.
Conforms(aspect, body) ==
  \E d \in AspectOf(aspect) :
    /\ d.kind # "MEASUREMENT"
    /\ IF d.kind = "QUERY"
       THEN /\ body \in Contract
            /\ \A a \in Aspects : \A e \in AspectOf(a) : e.schema \in Flavored => body \in Admits[e.schema]
       ELSE body \in Admits[d.schema]

\* "Existing bodies never silently stop matching their schema": whatever is
\* declared, declared again and deleted, every current gloss is one its aspect
\* would be glossed with today, and none is on a MEASUREMENT.
GlossesConform == \A g \in CurrentSlots : Conforms(g.aspect, g.body)

\* The schemas that refuse a QUERY gloss are declared of aspects that still carry
\* them.
SchemasStand ==
  \A schema \in GroundingSchemas : \E a \in Aspects : \E d \in AspectOf(a) : d.schema = schema

\* A DECLARE WITNESS answered "unchanged" is of the witness that stands.
UnchangedStands ==
  \A w \in WitnessTexts : WitnessNamed(w.name) = {w} => WitnessOn(w.aspect) = {w}

\* "BY is refused on a MEASUREMENT aspect", and no witness names a grounding schema.
WitnessesFit ==
  \A a \in Aspects : \A w \in WitnessOn(a), d \in AspectOf(a) :
    /\ d.schema \notin Flavored
    /\ d.kind = "MEASUREMENT" => w.speakers = {}

=============================================================================
