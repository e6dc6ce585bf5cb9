---------------------------- MODULE MCAdmission ----------------------------
(* A kit of two aspects as loaded, then statements on one connection or two.  *)
EXTENDS Admission, Sequences

CONSTANTS
  ds, col,          \* the dataset, a column of its
  human,
  yes, no,          \* bodies
  any, only, shape, \* schemas: of any body, of yes alone, of a grounding's
  Door,             \* the one connection of an instance with one
  DoorClock,        \* bound: statements that write then
  OpenClock         \* bound: with every connection open

AdmitsOf == [s \in {any, only, shape} |-> IF s = any THEN {yes, no} ELSE {yes}]

Aspect(name, kind, schema, grain, when) ==
  [name |-> name, kind |-> kind, schema |-> schema, grain |-> grain, when |-> when]

Role     == Aspect("role", "FACT", any, {col}, Nothing)
RoleOnly == Aspect("role", "FACT", only, {col}, [aspect |-> "metric", value |-> yes])
Metric   == Aspect("metric", "QUERY", any, {ds}, Nothing)
Shape    == Aspect("shape", "FACT", shape, {ds}, Nothing)
Kit      == <<Role, Metric>>
MCAspects == {Role, RoleOnly, Metric, Shape}

MCWitnesses ==
  {[name |-> "judge", aspect |-> "role", speakers |-> {}, detector |-> "entropy", threshold |-> Nothing]}
MCFunctions ==
  {[name |-> "entropy", returns |-> Nothing, script |-> Nothing],
   [name |-> "profile", returns |-> "role", script |-> Nothing]}

VARIABLE open      \* the connections open

Same  == UNCHANGED open
DoorAlone == open = {Door}
More  == clock + Cardinality({c \in Conns : pc[c] # "idle"})
           < Len(Kit) + (IF DoorAlone THEN DoorClock ELSE OpenClock)

MCOpening ==
  /\ open \in {Conns, {Door}}
  /\ aspects = {[seq |-> i, text |-> Kit[i]] : i \in DOMAIN Kit}
  /\ witnesses = {} /\ functions = {}
  /\ glossary = {} /\ measurements = {}
  /\ changed = [s \in Subjects |-> 0]
  /\ clock = Len(Kit)
  /\ pc = [c \in Conns |-> "idle"]
  /\ stmt = [c \in Conns |-> Nothing]
  /\ held = [c \in Conns |-> Nothing]
  /\ crossed = FALSE

MCSteps ==
  \/ \E c \in open : Alone(c) /\ (clock' = clock \/ More) /\ Same
  \/ \E c \in open : More /\ Starts(c) /\ Same
  \/ \E c \in open : Step(c) /\ Same

MCSpec == MCOpening /\ [][MCSteps]_<<allvars, open>> /\ Fairness

\* One connection's statements, query by query, are Glossary's, each one step.
DoorIsGlossary == [][DoorAlone => [Whole]_vars]_<<allvars, open>>
=============================================================================
