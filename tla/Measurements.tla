---------------------------- MODULE Measurements ----------------------------
(***************************************************************************)
(* Extraction and its pins (glossql_runner.cpp, ExtractExec; SPEC.md §6):  *)
(* a measurement lands with its reads, the names of the inputs its body    *)
(* read, and its pin, the version of every leg; a later extraction serves  *)
(* the landed row while the legs its reads select are at the versions      *)
(* pinned and no newer declaration of the function stands.                 *)
(*                                                                         *)
(* One function and one subject.  An action is one query of a statement    *)
(* or the work between two of them; other connections step in between.     *)
(* What a body computes is itself and the content of its inputs, so a      *)
(* value is that record: two values differ exactly when something the body *)
(* read does.  `clean`, whether the inputs and the body stood still from   *)
(* the plan of an extraction to its pin, is a history field.               *)
(***************************************************************************)
EXTENDS StoreRows, Integers, FiniteSets

CONSTANTS
  Conns,         \* connections
  Tables,        \* the lake's tables
  View,          \* a view of the lake, over one of the tables
  Dataset,       \* the dataset's own relations, among them the view
  Glossary, Functions, Landed,
                 \* the store relations main.glossary, main.functions, main.measurements
  Star, All,     \* reads: '*' the dataset's every table, '**' not to be named
  Bodies,        \* the bodies the function is declared with
  Inputs,        \* Bodies -> what the body reads: relations, Star, All (a file)
  SubjectOnView, \* the subject is the view or one of its columns
  MaxLake,       \* bound: snapshots of the lake
  MaxClock,      \* bound: declarations and glosses
  MaxLanded      \* bound: landed rows

Relations == Tables \cup {View}
StoreLegs == {Glossary, Functions}

ASSUME ConstantsAssumption ==
  /\ View \notin Tables
  /\ Dataset \subseteq Relations
  /\ View \in Dataset
  /\ Inputs \in [Bodies -> SUBSET (Relations \cup {Glossary, Landed, Star, All})]
  /\ SubjectOnView \in BOOLEAN
  /\ MaxLake \in Nat /\ MaxClock \in Nat /\ MaxLanded \in Nat

\* What a leg or a read is named by is one thing.
ASSUME NamesAssumption ==
  /\ {Glossary, Functions, Landed, Star, All} \cap Relations = {}
  /\ Glossary \notin {Functions, Landed, Star, All}
  /\ Functions \notin {Landed, Star, All}
  /\ Landed \notin {Star, All} /\ Star # All

VARIABLES
  lake,         \* the lake's current snapshot
  at,           \* per relation: the snapshot that last wrote or defined it, 0 when absent
  viewOn,       \* the table the view selects from
  glossary,     \* the glossary's rows: a seq and what tells two rows apart
  functions,    \* the function's declarations: seq, body, declared_at
  macro,        \* the body the lake's macro runs; {} before the first
  measurements, \* landed rows of the function
  others,       \* how many rows the dataset's other functions have landed
  clock,        \* the time of the latest stamped row
  pc,           \* per connection: where its statement is
  work          \* per connection: what its statement carries between queries

vars == <<lake, at, viewOn, glossary, functions, macro, measurements, others, clock, pc, work>>

NoWork == [reads |-> {}, value |-> {}, pin |-> {}, row |-> {}, clean |-> FALSE]

\* What is between its plan and its pin when an input or the body moves is no
\* longer clean.
Stirred(w) == [c \in Conns |-> [w[c] EXCEPT !.clean = @ /\ pc[c] = "pinned"]]

Init ==
  /\ lake = 0
  /\ at = [r \in Relations |-> 0]
  /\ viewOn \in Tables
  /\ glossary = {}
  /\ functions = {}
  /\ macro = {}
  /\ measurements = {}
  /\ others = 0
  /\ clock = 0
  /\ pc = [c \in Conns |-> "idle"]
  /\ work = [c \in Conns |-> NoWork]

-----------------------------------------------------------------------------
(* Inputs, legs and pins.                                                  *)

\* What an input holds, the last of them the landed rows.  A write to a relation is
\* a snapshot no other write shares, so the snapshot stands for the content.
Content(i) ==
  CASE i \in Tables  -> <<at[i]>>
    [] i = View      -> <<at[View], viewOn, at[viewOn]>>
    [] i = Glossary  -> <<glossary>>
    [] OTHER         -> <<others>>

\* The relations a body's inputs come to: Star is the dataset's every table.
Read(body) ==
  (Inputs[body] \ {Star, All})
    \cup (IF Star \in Inputs[body] THEN Dataset \cap Tables ELSE {})

\* What the body computes over the inputs as they are.
Compute(body) == [body |-> body, saw |-> {<<i, Content(i)>> : i \in Read(body)}]

\* A body over a relation that is not there does not bind.
Binds(body) ==
  /\ \A i \in Inputs[body] \cap Tables : at[i] > 0
  /\ View \in Inputs[body] => at[View] > 0 /\ at[viewOn] > 0

\* The reads a plan over the subject's views leaves out.
ReadsWithoutView(body) ==
  IF All \in Inputs[body] THEN {All}
  ELSE (Inputs[body] \ {View})
         \cup (IF View \in Inputs[body] THEN {viewOn} ELSE {})

\* The reads of a call: the plan names tables and store relations, a view
\* being expanded to its table; the views the subject stands on are named
\* beside them; a file makes them '**'.
ReadsOf(body) ==
  IF All \in Inputs[body] THEN {All}
  ELSE (Inputs[body] \ {View})
         \cup (IF View \in Inputs[body] THEN {viewOn} ELSE {})
         \cup (IF SubjectOnView THEN {View} ELSE {})

\* The legs: every relation of the lake at its snapshot, every store relation
\* at its highest seq -- but the measurements, an output.
Legs ==
  {<<r, at[r]>> : r \in {r \in Relations : at[r] > 0}}
    \cup {<<Glossary, TopSeq(glossary)>>, <<Functions, TopSeq(functions)>>}

\* The pin a computation lands at: the dataset's legs, the store's and those
\* the reads name.
PinOf(reads) == {leg \in Legs : leg[1] \in Dataset \cup StoreLegs \cup reads}

\* The names a row's reads select: for '**', its own pin's and Star.
NamesOf(m) ==
  IF All \in m.reads THEN {leg[1] : leg \in m.pin} \cup {Star} ELSE m.reads

Selected(m, legs) ==
  {leg \in legs : leg[1] \in NamesOf(m) \/ (Star \in NamesOf(m) /\ leg[1] \in Dataset)}

\* The time of the function's newest declaration.
DeclaredAt == MaxOf({f.at : f \in functions})

\* A row stands while its whole pin does.
StandsWhole(m) == m.pin = PinOf(m.reads) /\ m.at >= DeclaredAt

\* A row stands: the legs its reads select are as pinned, and the function's
\* newest declaration precedes it.
Stands(m) ==
  /\ Selected(m, m.pin) = Selected(m, Legs)
  /\ m.at >= DeclaredAt

-----------------------------------------------------------------------------
(* The lake and the store move.                                            *)

\* A table is created, replaced, inserted into or deleted from.
Write(c, t) ==
  /\ pc[c] = "idle"
  /\ lake < MaxLake
  /\ lake' = lake + 1
  /\ at' = [at EXCEPT ![t] = lake + 1]
  /\ work' = Stirred(work)
  /\ UNCHANGED <<viewOn, glossary, functions, macro, measurements, others, clock, pc>>

\* The view is created or replaced, over one table or the other.
Define(c, t) ==
  /\ pc[c] = "idle"
  /\ lake < MaxLake
  /\ at[t] > 0
  /\ lake' = lake + 1
  /\ at' = [at EXCEPT ![View] = lake + 1]
  /\ viewOn' = t
  /\ work' = Stirred(work)
  /\ UNCHANGED <<glossary, functions, macro, measurements, others, clock, pc>>

\* A table or the view is dropped.
Drop(c, r) ==
  /\ pc[c] = "idle"
  /\ lake < MaxLake
  /\ at[r] > 0
  /\ lake' = lake + 1
  /\ at' = [at EXCEPT ![r] = 0]
  /\ work' = Stirred(work)
  /\ UNCHANGED <<viewOn, glossary, functions, macro, measurements, others, clock, pc>>

\* A gloss: the INSERT's transaction takes seq and time when it begins ...
BeginGloss(c) ==
  /\ pc[c] = "idle"
  /\ clock < MaxClock
  /\ clock' = clock + 1
  /\ work' = [work EXCEPT ![c].row = {[seq |-> TopSeq(glossary) + 1, id |-> clock + 1]}]
  /\ pc' = [pc EXCEPT ![c] = "glossing"]
  /\ UNCHANGED <<lake, at, viewOn, glossary, functions, macro, measurements, others>>

\* ... and its row is there when it commits.
CommitGloss(c) ==
  /\ pc[c] = "glossing"
  /\ glossary' = glossary \cup work[c].row
  /\ work' = [Stirred(work) EXCEPT ![c] = NoWork]
  /\ pc' = [pc EXCEPT ![c] = "idle"]
  /\ UNCHANGED <<lake, at, viewOn, functions, macro, measurements, others, clock>>

\* DELETE FROM glossary.
DeleteGloss(c) ==
  /\ pc[c] = "idle"
  /\ \E D \in SUBSET glossary : D # {} /\ glossary' = glossary \ D
  /\ work' = Stirred(work)
  /\ UNCHANGED <<lake, at, viewOn, functions, macro, measurements, others, clock, pc>>

\* Another function's extraction lands a row.
LandOther(c) ==
  /\ pc[c] = "idle"
  /\ clock < MaxClock
  /\ clock' = clock + 1
  /\ others' = others + 1
  /\ work' = Stirred(work)
  /\ UNCHANGED <<lake, at, viewOn, glossary, functions, macro, measurements, pc>>

-----------------------------------------------------------------------------
(* DECLARE FUNCTION: the newest row's own text again is a no-op; else the   *)
(* macro is replaced, and then the declaration lands.                      *)

DeclareMacro(c, body) ==
  /\ pc[c] = "idle"
  /\ clock < MaxClock
  /\ \A f \in Newest(functions) : f.body # body
  /\ macro' = {body}
  /\ work' = [Stirred(work) EXCEPT ![c].value = {body}]
  /\ pc' = [pc EXCEPT ![c] = "declaring"]
  /\ UNCHANGED <<lake, at, viewOn, glossary, functions, measurements, others, clock>>

DeclareRow(c) ==
  /\ pc[c] = "declaring"
  /\ \E body \in work[c].value :
       functions' = functions \cup
         {[seq |-> TopSeq(functions) + 1, body |-> body, at |-> clock + 1]}
  /\ clock' = clock + 1
  /\ work' = [work EXCEPT ![c] = NoWork]
  /\ pc' = [pc EXCEPT ![c] = "idle"]
  /\ UNCHANGED <<lake, at, viewOn, glossary, macro, measurements, others>>

\* The insert fails, or the statement is cut off before it: the connection goes on with
\* the macro already replaced, and no declaration of it.
DeclareFails(c) ==
  /\ pc[c] = "declaring"
  /\ work' = [work EXCEPT ![c] = NoWork]
  /\ pc' = [pc EXCEPT ![c] = "idle"]
  /\ UNCHANGED <<lake, at, viewOn, glossary, functions, macro, measurements, others, clock>>

-----------------------------------------------------------------------------
(* SELECT f() FROM subject.                                                *)

\* Statements that change nothing: the newest landed row stands and is served,
\* the function is not declared and the extraction is refused, or the newest
\* declaration's own text is declared again.
Answer(c) ==
  /\ pc[c] = "idle"
  /\ \/ \E m \in Newest(measurements) : Stands(m)
     \/ functions = {}
     \/ \E body \in Bodies : \E f \in Newest(functions) : f.body = body
  /\ UNCHANGED vars

\* No row stands: the call is computed.
Miss(c) ==
  /\ pc[c] = "idle"
  /\ Cardinality(measurements) < MaxLanded
  /\ functions # {}
  /\ measurements = {} \/ \E m \in Newest(measurements) : ~ Stands(m)
  /\ pc' = [pc EXCEPT ![c] = "missed"]
  /\ UNCHANGED <<lake, at, viewOn, glossary, functions, macro, measurements, others, clock, work>>

\* The reads are named from the bound plan, before the body runs.
PlanReads(c) ==
  /\ pc[c] = "missed"
  /\ \E body \in macro :
       /\ Binds(body)
       /\ work' = [work EXCEPT ![c].reads = ReadsOf(body), ![c].clean = TRUE]
  /\ pc' = [pc EXCEPT ![c] = "planned"]
  /\ UNCHANGED <<lake, at, viewOn, glossary, functions, macro, measurements, others, clock>>

\* The body runs once.
RunBody(c) ==
  /\ pc[c] = "planned"
  /\ \E body \in macro :
       /\ Binds(body)
       /\ work' = [work EXCEPT ![c].value = {Compute(body)}]
  /\ pc' = [pc EXCEPT ![c] = "ran"]
  /\ UNCHANGED <<lake, at, viewOn, glossary, functions, macro, measurements, others, clock>>

\* The output conforms to the aspect's schema, and the pin is taken.
TakePin(c) ==
  /\ pc[c] = "ran"
  /\ work' = [work EXCEPT ![c].pin = PinOf(work[c].reads)]
  /\ pc' = [pc EXCEPT ![c] = "pinned"]
  /\ UNCHANGED <<lake, at, viewOn, glossary, functions, macro, measurements, others, clock>>

\* The row lands, stamped by now(): no earlier than what was stamped before.
\* (What two INSERTs that overlap do to seqs is ReadCache's to say.)
Land(c) ==
  /\ pc[c] = "pinned"
  /\ measurements' = measurements \cup
       {[seq |-> TopSeq(measurements) + 1, reads |-> work[c].reads, pin |-> work[c].pin,
         value |-> work[c].value, at |-> clock, clean |-> work[c].clean]}
  /\ work' = [work EXCEPT ![c] = NoWork]
  /\ pc' = [pc EXCEPT ![c] = "idle"]
  /\ UNCHANGED <<lake, at, viewOn, glossary, functions, macro, others, clock>>

\* The body does not bind or run, or its output does not conform: the
\* statement ends and nothing lands.
ExtractFails(c) ==
  /\ pc[c] \in {"missed", "planned", "ran"}
  /\ work' = [work EXCEPT ![c] = NoWork]
  /\ pc' = [pc EXCEPT ![c] = "idle"]
  /\ UNCHANGED <<lake, at, viewOn, glossary, functions, macro, measurements, others, clock>>

-----------------------------------------------------------------------------
Keep ==
  \/ \E c \in Conns, t \in Tables : Write(c, t)
  \/ \E c \in Conns, t \in Tables : Define(c, t)
  \/ \E c \in Conns, r \in Relations : Drop(c, r)
  \/ \E c \in Conns : BeginGloss(c)
  \/ \E c \in Conns : CommitGloss(c)
  \/ \E c \in Conns : LandOther(c)
  \/ \E c \in Conns, body \in Bodies : DeclareMacro(c, body)
  \/ \E c \in Conns : DeclareRow(c)
  \/ \E c \in Conns : DeclareFails(c)
  \/ \E c \in Conns : Answer(c)
  \/ \E c \in Conns : Miss(c)
  \/ \E c \in Conns : PlanReads(c)
  \/ \E c \in Conns : RunBody(c)
  \/ \E c \in Conns : TakePin(c)
  \/ \E c \in Conns : Land(c)
  \/ \E c \in Conns : ExtractFails(c)

Next == Keep \/ \E c \in Conns : DeleteGloss(c)

Spec == Init /\ [][Next]_vars

\* The store while no gloss is deleted.
KeepSpec == Init /\ [][Keep]_vars

-----------------------------------------------------------------------------
(* What a served measurement owes its reader.                              *)

\* Seqs number the landed rows, every leg pinned names a relation or a store
\* relation, and every row landed under a declaration.
TypeOK ==
  /\ lake \in 0 .. MaxLake /\ at \in [Relations -> 0 .. lake] /\ viewOn \in Tables
  /\ \A r \in glossary : r.seq \in 1 .. clock /\ r.id \in 1 .. clock
  /\ \A f \in functions : f.body \in Bodies /\ f.at \in 1 .. clock
  /\ others \in 0 .. clock
  /\ macro \subseteq Bodies /\ Cardinality(macro) <= 1
  /\ {m.seq : m \in measurements} = 1 .. Cardinality(measurements)
  /\ \A m \in measurements : /\ {leg[1] : leg \in m.pin} \subseteq Relations \cup StoreLegs
                             /\ m.at \in 1 .. clock
  /\ pc \in [Conns -> {"idle", "glossing", "declaring", "missed", "planned", "ran", "pinned"}]

\* The row an extraction would serve holds what its body would compute over the inputs
\* as they are: no write, definition, drop, gloss or declaration that changes the answer
\* leaves the row standing.  Its body is the declared one, unless a declaration was
\* left half made since: what ran then was its macro, of a body no declaration names,
\* and the row stands until another body is declared -- the declared text again is a
\* no-op that restores nothing.
StandsCurrent ==
  \A m \in Newest(measurements), f \in Newest(functions) :
    Stands(m) => \E body \in Bodies :
      /\ m.value = {Compute(body)}
      /\ macro = {f.body} => body = f.body

\* With other connections writing, a row whose inputs stood still from its plan
\* to its pin is no different: while it stands, its body would compute the same.
CleanCurrent ==
  \A m \in measurements : m.clean /\ Stands(m) =>
    \A v \in m.value : v = Compute(v.body)

\* No declaration being under way, a row that stands was computed by the function's
\* newest body: "a measurement of an older body is never served".  (Of no run: a half
\* declaration and a declaration between an extraction's body and its row each break it.)
BodyCurrent ==
  (\A c \in Conns : pc[c] # "declaring") =>
  \A m \in Newest(measurements), f \in Newest(functions) :
    Stands(m) => \A v \in m.value : v.body = f.body

\* A write the body never read is not its staleness: while nothing the row's
\* reads name moves, it stands or it does not, as before.
WriteScoped ==
  [][\A m \in measurements :
       /\ m.reads \cap {Star, All} = {}
       /\ \A r \in m.reads \cap Relations : at'[r] = at[r]
       /\ UNCHANGED <<glossary, functions>>
       => (Stands(m)' <=> Stands(m))]_vars

=============================================================================
