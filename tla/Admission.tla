----------------------------- MODULE Admission -----------------------------
(***************************************************************************)
(* A declaration, a gloss or an extraction, query by query                 *)
(* (glossql_store.cpp, AdmitAspect, AdmitGloss, GlossWriteExec;            *)
(* glossql_runner.cpp, WitnessExec, FunctionExec, ExtractExec).  Each      *)
(* query is a transaction of its own, and nothing holds what one read      *)
(* until the INSERT that rests on it: the statements Glossary takes in one *)
(* step are here what any connection may step between.                     *)
(*                                                                         *)
(* `pc` names the query a connection's statement comes to; `held` is the   *)
(* row a C++ local keeps of an earlier one.  The INSERTs are Glossary's    *)
(* rows under Glossary's clock.                                            *)
(***************************************************************************)
EXTENDS Glossary

CONSTANT Conns     \* connections of the instance

VARIABLES
  pc,       \* per connection: the query its statement comes to
  stmt,     \* per connection: its statement
  held,     \* per connection: the row it looked up
  crossed   \* a declaration and a gloss passed each other (history)

allvars == <<vars, pc, stmt, held, crossed>>

Opening ==
  /\ Init
  /\ pc = [c \in Conns |-> "idle"]
  /\ stmt = [c \in Conns |-> Nothing]
  /\ held = [c \in Conns |-> Nothing]
  /\ crossed = FALSE

GlossTexts == [subject : Subjects, aspect : Aspects, actor : Actors, body : Bodies]
VoiceTexts == [function : {f.name : f \in FunctionTexts}, subject : Subjects, body : Bodies]

\* A statement begins; the bound leaves each that is under way its INSERT.
Begin(c, first, s) ==
  /\ pc[c] = "idle"
  /\ clock + Cardinality({o \in Conns : pc[o] # "idle"}) < MaxClock
  /\ pc' = [pc EXCEPT ![c] = first]
  /\ stmt' = [stmt EXCEPT ![c] = s]
  /\ UNCHANGED <<vars, held, crossed>>

\* It goes on to its next query, with what it holds.
GoOn(c, next, row) ==
  /\ pc' = [pc EXCEPT ![c] = next]
  /\ held' = [held EXCEPT ![c] = row]
  /\ UNCHANGED <<vars, stmt, crossed>>

\* It is over.
Over(c) ==
  /\ pc' = [pc EXCEPT ![c] = "idle"]
  /\ stmt' = [stmt EXCEPT ![c] = Nothing]
  /\ held' = [held EXCEPT ![c] = Nothing]

\* It is answered unchanged, or refused.
Stops(c) == Over(c) /\ UNCHANGED <<vars, crossed>>

\* A query whose answer lets the statement go on, or ends it.
Ask(c, at, ok, next, row) ==
  /\ pc[c] = at
  /\ IF ok THEN GoOn(c, next, row) ELSE Stops(c)

-----------------------------------------------------------------------------
(* DECLARE ASPECT.                                                         *)

\* Its name's newest row: the same again is a no-op, a name not declared has no
\* glosses to count.
AskStanding(c) ==
  Ask(c, "standing", AspectOf(stmt[c].name) # {stmt[c]},
      IF AspectOf(stmt[c].name) = {} THEN "slots" ELSE "glossed", Nothing)

\* A standing never counted.
AskGlossedNever(c) == Ask(c, "glossed", TRUE, "slots", Nothing)

AskGlossed(c) == Ask(c, "glossed", ~Glossed(stmt[c].name), "slots", Nothing)

\* A declaration that waits for the glosses to fit.
AskSlotsWaits(c) == pc[c] = "slots" /\ FitsSlots(stmt[c].schema) /\ GoOn(c, "sibling", Nothing)

AskSlots(c) == Ask(c, "slots", FitsSlots(stmt[c].schema), "sibling", Nothing)

AskSibling(c) == Ask(c, "sibling", FitsSibling(stmt[c].when), "aspect", Nothing)

\* A declaration is one the admission of a gloss on this aspect rests on.
BearsOn(d, aspect) == d.name = aspect \/ d.schema \in Flavored

\* The glosses it crosses have looked their aspect up and not landed.
PutAspect(c) ==
  /\ pc[c] = "aspect"
  /\ Tick
  /\ aspects' = aspects \cup {[seq |-> clock + 1, text |-> stmt[c]]}
  /\ Over(c)
  /\ crossed' = (crossed \/ \E o \in Conns : pc[o] \in {"schemas", "speakers", "gloss"}
                                        /\ BearsOn(stmt[c], stmt[o].aspect))
  /\ UNCHANGED <<witnesses, functions, glossary, measurements, changed>>

-----------------------------------------------------------------------------
(* GLOSS.                                                                  *)

\* The body as the aspect's row alone has it.
AdmitsText(d, body) ==
  /\ d.kind # "MEASUREMENT"
  /\ d.schema \notin Flavored
  /\ IF d.kind = "QUERY" THEN body \in Contract ELSE body \in Admits[d.schema]

\* The aspect's newest row is held; of an aspect not declared there is none.
LookUp(c) ==
  /\ pc[c] = "lookup"
  /\ \/ \E d \in AspectOf(stmt[c].aspect) :
          Ask(c, "lookup", AdmitsText(d, stmt[c].body), IF d.kind = "QUERY" THEN "schemas" ELSE "speakers", d)
     \/ AspectOf(stmt[c].aspect) = {} /\ Stops(c)

\* The grounding schemas never met.
MeetSchemasNever(c) == Ask(c, "schemas", TRUE, "speakers", held[c])

MeetSchemas(c) ==
  Ask(c, "schemas", \A schema \in GroundingSchemas : stmt[c].body \in Admits[schema], "speakers", held[c])

\* The subject is of the grain held; then the witness's BY.
AskSpeakers(c) ==
  Ask(c, "speakers",
      /\ held[c].kind = "QUERY" => stmt[c].subject = Dataset
      /\ stmt[c].subject \in held[c].grain
      /\ AdmitsActor(stmt[c].aspect, stmt[c].actor),
      "gloss", held[c])

\* The declarations it crosses have counted the glosses and not landed.
PutGloss(c) ==
  /\ pc[c] = "gloss"
  /\ Tick
  /\ glossary' = glossary \cup
       {[seq |-> clock + 1, subject |-> stmt[c].subject, aspect |-> stmt[c].aspect,
         actor |-> stmt[c].actor, body |-> stmt[c].body]}
  /\ Over(c)
  /\ crossed' = (crossed \/ \E o \in Conns : pc[o] \in {"slots", "sibling", "aspect"}
                                        /\ BearsOn(stmt[o], stmt[c].aspect))
  /\ UNCHANGED <<aspects, witnesses, functions, measurements, changed>>

-----------------------------------------------------------------------------
(* DECLARE WITNESS, DECLARE FUNCTION.                                      *)

AskWitness(c) == Ask(c, "named", WitnessNamed(stmt[c].name) # {stmt[c]}, "fit", Nothing)

AskFit(c) ==
  Ask(c, "fit",
      \E d \in AspectOf(stmt[c].aspect) :
        /\ d.schema \notin Flavored
        /\ d.kind = "MEASUREMENT" => stmt[c].speakers = {},
      "detector", Nothing)

AskDetector(c) ==
  Ask(c, "detector",
      stmt[c].detector # Nothing => \E f \in FunctionNamed(stmt[c].detector) : f.returns = Nothing,
      "witness", Nothing)

PutWitness(c) ==
  /\ pc[c] = "witness"
  /\ Tick
  /\ witnesses' = witnesses \cup {[seq |-> clock + 1, text |-> stmt[c]]}
  /\ Over(c)
  /\ UNCHANGED <<aspects, functions, glossary, measurements, changed, crossed>>

AskFunction(c) == Ask(c, "known", FunctionNamed(stmt[c].name) # {stmt[c]}, "function", Nothing)

PutFunction(c) ==
  /\ pc[c] = "function"
  /\ Tick
  /\ functions' = functions \cup {[seq |-> clock + 1, text |-> stmt[c]]}
  /\ Over(c)
  /\ UNCHANGED <<aspects, witnesses, glossary, measurements, changed, crossed>>

-----------------------------------------------------------------------------
(* Extraction.                                                             *)

\* The function's newest row: one that is not declared, or a detector, is none.
AskVoice(c) ==
  /\ pc[c] = "voice"
  /\ \/ \E f \in FunctionNamed(stmt[c].function) : Ask(c, "voice", f.returns # Nothing, "stands", f)
     \/ FunctionNamed(stmt[c].function) = {} /\ Stops(c)

\* A value that stands is served; else the body is computed.
AskStands(c) ==
  Ask(c, "stands",
      \A m \in Newest({m \in measurements : m.function = stmt[c].function /\ m.subject = stmt[c].subject}) :
        VoiceStale(m),
      "contract", held[c])

AskContract(c) ==
  Ask(c, "contract", \E d \in AspectOf(held[c].returns) : stmt[c].body \in Admits[d.schema], "land", held[c])

PutVoice(c) ==
  /\ pc[c] = "land"
  /\ Tick
  /\ measurements' = measurements \cup
       {[seq |-> clock + 1, subject |-> stmt[c].subject, aspect |-> held[c].returns,
         function |-> stmt[c].function, body |-> stmt[c].body]}
  /\ Over(c)
  /\ UNCHANGED <<aspects, witnesses, functions, glossary, changed, crossed>>

-----------------------------------------------------------------------------
\* One statement that is one query, or a landing, while none of c's is under way.
Alone(c) ==
  /\ pc[c] = "idle"
  /\ \/ \E s \in Subjects, a \in Aspects : DeleteSlots(s, a)
     \/ /\ clock + Cardinality({o \in Conns : pc[o] # "idle"}) < MaxClock
        /\ \E s \in Subjects : Change(s)
     \/ Refuse
  /\ UNCHANGED <<pc, stmt, held, crossed>>

Starts(c) ==
  \/ \E d \in AspectTexts : Begin(c, "standing", d)
  \/ \E g \in GlossTexts : Begin(c, "lookup", g)
  \/ \E w \in WitnessTexts : Begin(c, "named", w)
  \/ \E f \in FunctionTexts : Begin(c, "known", f)
  \/ \E v \in VoiceTexts : Begin(c, "voice", v)

\* The next query of c's statement.
Step(c) ==
  \/ AskStanding(c) \/ AskGlossed(c) \/ AskSlots(c) \/ AskSibling(c) \/ PutAspect(c)
  \/ LookUp(c) \/ MeetSchemas(c) \/ AskSpeakers(c) \/ PutGloss(c)
  \/ AskWitness(c) \/ AskFit(c) \/ AskDetector(c) \/ PutWitness(c)
  \/ AskFunction(c) \/ PutFunction(c)
  \/ AskVoice(c) \/ AskStands(c) \/ AskContract(c) \/ PutVoice(c)

Steps == \E c \in Conns : Alone(c) \/ Starts(c) \/ Step(c)

\* A statement that is under way goes on: its connection's thread runs.
Fairness == \A c \in Conns : WF_allvars(Step(c))

AdmissionSpec == Opening /\ [][Steps]_allvars /\ Fairness

-----------------------------------------------------------------------------
\* Whatever else interleaves, a gloss stops matching its schema only when a
\* declaration landed between a gloss's look at its aspect and its row, or a gloss
\* between a declaration's count and its own.
OnlyCrossedStrand == ~crossed => GlossesConform

\* One connection's statements, query by query, are Glossary's, each one step.
IsGlossary == WholeSpec

\* A statement waits for no other: each comes to its end.
StatementsEnd == \A c \in Conns : pc[c] # "idle" ~> pc[c] = "idle"
=============================================================================
