----------------------------- MODULE MCCollapse -----------------------------
(* Statements for Collapse: what a kit declares, as loaded before anybody    *)
(* speaks, and what is declared again after.                                *)
EXTENDS Collapse, Sequences

CONSTANTS
  ds, col,          \* the dataset, a column of its
  human, agent,
  yes, no,          \* bodies
  any, only, shape, \* schemas: of any body, of yes alone, of a grounding's
  MoreClock         \* bound: statements that write after the kit

\* x-kind grounding is shape's alone, and admits yes.
AdmitsOf == [s \in {any, only, shape} |-> IF s = any THEN {yes, no} ELSE {yes}]

Aspect(name, kind, schema, grain, when) ==
  [name |-> name, kind |-> kind, schema |-> schema, grain |-> grain, when |-> when]

Role     == Aspect("role", "FACT", any, {col}, Nothing)
RoleOnly == Aspect("role", "FACT", only, {col}, Nothing)
Unit     == Aspect("unit", "FACT", any, {col}, [aspect |-> "role", value |-> yes])
Gauged   == Aspect("unit", "MEASUREMENT", any, {col}, Nothing)
Metric   == Aspect("metric", "QUERY", any, {ds}, Nothing)
Shape    == Aspect("shape", "FACT", shape, {ds}, Nothing)
Free     == Aspect("shape", "FACT", any, {ds}, Nothing)
Drift    == Aspect("drift", "MEASUREMENT", any, {col}, Nothing)
Small    == Aspect("drift", "MEASUREMENT", only, {col}, Nothing)

Witness(name, aspect, speakers, detector, threshold) ==
  [name |-> name, aspect |-> aspect, speakers |-> speakers, detector |-> detector,
   threshold |-> threshold]

Judge    == Witness("judge", "role", {}, "entropy", 1)
Lenient  == Witness("judge", "role", {}, "entropy", 2)
Listener == Witness("listener", "unit", {human, agent}, Nothing, Nothing)
Moved    == Witness("judge", "unit", {}, "entropy", 2)
Rival    == Witness("rival", "role", {human}, Nothing, Nothing)

Function(name, returns, script) == [name |-> name, returns |-> returns, script |-> script]

\* Two bodies score 2, one scores 0; or two are more than it can judge; or one
\* serves no row.
Entropy == Function("entropy", Nothing, <<0, 2>>)
Brittle == Function("entropy", Nothing, <<0, Fails>>)
Quiet   == Function("entropy", Nothing, <<Nothing, 2>>)
Profile == Function("profile", "role", Nothing)
Gauge   == Function("profile", "drift", Nothing)

JudgedAspects   == {Role, RoleOnly, Unit}
GroundedAspects == {Metric, Shape, Free, Role, Drift, Small}
EveryAspect     == JudgedAspects \cup GroundedAspects
RetypedAspects  == EveryAspect \cup {Gauged}

JudgedWitnesses == {Judge, Lenient, Listener, Moved}
MovedWitnesses  == {Judge, Listener, Moved}
RivalWitnesses  == {Judge, Listener, Rival}
EveryFunction   == {Entropy, Brittle, Quiet, Profile, Gauge}
PlainFunctions  == {Entropy, Profile}

\* What is loaded before anybody speaks.
JudgedKit   == <<Role, Unit, Entropy, Judge, Listener>>
GroundedKit == <<Metric, Drift, Gauge>>

-----------------------------------------------------------------------------
VARIABLE kit      \* the kit that is loaded

Loaded(texts) == {[seq |-> i, text |-> kit[i]] : i \in {j \in DOMAIN kit : kit[j] \in texts}}

MCInit ==
  /\ kit \in {JudgedKit, GroundedKit}
  /\ aspects = Loaded(AspectTexts)
  /\ witnesses = Loaded(WitnessTexts)
  /\ functions = Loaded(FunctionTexts)
  /\ glossary = {} /\ measurements = {}
  /\ changed = [s \in Subjects |-> 0]
  /\ clock = Len(kit)

More == clock < Len(kit) + MoreClock
Same == UNCHANGED kit

Judging == kit = JudgedKit

\* Slots are deleted whole.
MCWhole ==
  \/ \E d \in AspectTexts \ (IF Judging THEN {Metric, Shape, Free, Drift, Small} ELSE {RoleOnly, Unit, Gauged}) :
       More /\ DeclareAspect(d) /\ Same
  \/ \E w \in WitnessTexts : More /\ Judging /\ DeclareWitness(w) /\ Same
  \/ \E f \in FunctionTexts : More /\ DeclareFunction(f) /\ Same
  \/ \E s \in Subjects, a \in Aspects, actor \in Actors, body \in Bodies :
       More /\ Gloss(s, a, actor, body) /\ Same
  \/ \E f \in FunctionTexts, s \in Subjects, body \in Bodies : More /\ Extract(f, s, body) /\ Same
  \/ \E s \in Subjects, a \in Aspects : DeleteSlots(s, a) /\ Same
  \/ \E s \in Subjects : More /\ Change(s) /\ Same
  \/ Refuse /\ Same

MCSpec == MCInit /\ [][MCWhole]_<<vars, kit>>

\* Any row of a slot is deleted.
MCRowSpec == MCInit /\ [][MCWhole \/ (DeleteRow /\ Same)]_<<vars, kit>>
=============================================================================
