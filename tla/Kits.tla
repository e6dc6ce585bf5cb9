-------------------------------- MODULE Kits --------------------------------
(***************************************************************************)
(* The kit loader (glossql_runner.cpp, KitExec; kits/README.md): a script of  *)
(* statements run one by one, each committing on its own, recorded under its *)
(* name by the hash of its text once the last has run, and answered "stands" *)
(* where the newest record of that name is of that text.                    *)
(*                                                                         *)
(* A load is interleaved with other loads, with declarations by hand, edits  *)
(* of the file and restarts.  A statement is one step here: what a           *)
(* declaration reads and writes on its way is Glossary's.  One clock numbers *)
(* the rows of every relation.                                              *)
(***************************************************************************)
EXTENDS StoreRows, Sequences, FiniteSets

CONSTANTS
  Conns,
  Paths,       \* sequences of parts, a part a sequence of what its dots divide
  Kit,         \* the part a file called kit is named by
  Texts,       \* scripts: sequences of statements
  Hash,        \* Texts -> their hashes
  Keys,        \* what is declared or replaced: an aspect, a function, a macro
  AspectKeys,  \* those a change of is refused under glosses
  Values,      \* what is declared of a key
  Tables,
  Extensions,
  None,
  MaxClock     \* bound: rows

\* A LOAD or INSTALL line, a declaration, a CREATE TABLE.
LoadLine(e)   == [kind |-> "LOAD", what |-> e, value |-> None]
Declares(k, v) == [kind |-> "DECLARE", what |-> k, value |-> v]
Creates(t)    == [kind |-> "CREATE", what |-> t, value |-> None]

Statements ==
  {LoadLine(e) : e \in Extensions} \cup {Declares(k, v) : k \in Keys, v \in Values}
    \cup {Creates(t) : t \in Tables}

ASSUME KitsAssumption ==
  /\ \A p \in Paths : p # <<>> /\ \A i \in DOMAIN p : p[i] # <<>>
  /\ \A t \in Texts : t \in Seq(Statements)
  /\ AspectKeys \subseteq Keys
  /\ \A s, t \in Texts : Hash[s] = Hash[t] => s = t
  /\ MaxClock \in Nat

VARIABLES
  files,       \* per path its text, or None
  kits,        \* seq, name, location, statements, hash
  declared,    \* seq, key, value
  tables,      \* those that exist
  glossed,     \* the aspects glossed
  extensions,  \* those in the process
  load,        \* per connection how far its load is
  clock        \* the seq of the newest row

vars == <<files, kits, declared, tables, glossed, extensions, load, clock>>
store == <<kits, declared, tables, clock>>

Idle == [at |-> "idle"]

Init ==
  /\ files \in [Paths -> Texts \cup {None}]
  /\ kits = {} /\ declared = {} /\ tables = {} /\ glossed = {} /\ extensions = {}
  /\ load = [c \in Conns |-> Idle]
  /\ clock = 0

-----------------------------------------------------------------------------
(* The load.                                                               *)

ScriptHash(text) == Hash[text]

\* The file's stem, or its directory's name for a file called kit.
KitName(path) ==
  LET file == path[Len(path)]
      stem == IF Len(file) > 1 THEN SubSeq(file, 1, Len(file) - 1) ELSE file
  IN  IF stem = <<Kit>> /\ Len(path) > 1 THEN path[Len(path) - 1] ELSE stem

NewestKit(name) == Newest({r \in kits : r.name = name})

Standing(key) == {r.value : r \in Newest({r \in declared : r.key = key})}

\* By the file's path instead of its name.
RecordedByLocation(path) == Newest({r \in kits : r.location = path})

\* The records a load of that path is compared with.
Recorded(path) == NewestKit(KitName(path))

\* What runs of a kit that stands: nothing of it.
RunsNothing(s) == FALSE

\* What runs of a kit that stands.
IsLoadLine(s) == s.kind = "LOAD"

\* The script is read, and its name and hash taken.
ReadScript(c, path) ==
  /\ load[c].at \in {"idle", "done", "stopped"}
  /\ files[path] # None
  /\ load' = [load EXCEPT ![c] = [at |-> "read", location |-> path, text |-> files[path]]]
  /\ UNCHANGED <<files, glossed, extensions, store>>

\* The newest record of its name says whether it stands.
AskStands(c) ==
  /\ load[c].at = "read"
  /\ LET text == load[c].text
         stands == \E r \in Recorded(load[c].location) : r.hash = ScriptHash(text)
     IN  load' = [load EXCEPT ![c] =
           [at |-> "run", location |-> @.location, name |-> KitName(@.location), text |-> text, stands |-> stands,
            past |-> 0]]
  /\ UNCHANGED <<files, glossed, extensions, store>>

Tick == clock < MaxClock /\ clock' = clock + 1

\* A declaration: unchanged is a no-op, a change of a glossed aspect is refused.
RunDeclare(s) ==
  IF Standing(s.what) = {s.value}
  THEN UNCHANGED <<declared, clock>>
  ELSE /\ s.what \notin glossed
       /\ Tick
       /\ declared' = declared \cup {[seq |-> clock + 1, key |-> s.what, value |-> s.value]}

\* What one statement does where it is not refused.
RunStatement(s) ==
  /\ UNCHANGED <<kits, files, glossed>>
  /\ \/ s.kind = "LOAD" /\ extensions' = extensions \cup {s.what} /\ UNCHANGED <<declared, tables, clock>>
     \/ s.kind = "DECLARE" /\ RunDeclare(s) /\ UNCHANGED <<tables, extensions>>
     \/ s.kind = "CREATE" /\ s.what \notin tables /\ tables' = tables \cup {s.what}
                          /\ UNCHANGED <<declared, extensions, clock>>

Advanced(c) == [load EXCEPT ![c].past = @ + 1]

More(c) == load[c].at = "run" /\ load[c].past < Len(load[c].text)

\* The statement that is next.
Following(c) == load[c].text[load[c].past + 1]

\* A statement that fails is passed over.
StepOverFailure(c) ==
  /\ More(c)
  /\ RunStatement(Following(c)) \/ UNCHANGED <<files, glossed, extensions, store>>
  /\ load' = Advanced(c)

\* The next statement runs and commits; a kit that stands passes over what is no
\* LOAD line.
Step(c) ==
  /\ More(c)
  /\ IF load[c].stands /\ ~ IsLoadLine(Following(c))
     THEN UNCHANGED <<files, glossed, extensions, store>>
     ELSE RunStatement(Following(c))
  /\ load' = Advanced(c)

\* A statement or the reading of the script fails, or the call is cut off:
\* what ran before it stands.
Stop(c) ==
  /\ load[c].at \in {"read", "run"}
  /\ load' = [load EXCEPT ![c] = [at |-> "stopped"]]
  /\ UNCHANGED <<files, glossed, extensions, store>>

Finished(c) == [load EXCEPT ![c].at = "done"]

\* A kit that ran lands its record; one that stands says so.
Finish(c) ==
  /\ load[c].at = "run" /\ ~ More(c)
  /\ IF load[c].stands
     THEN UNCHANGED <<kits, clock>>
     ELSE /\ Tick
          /\ kits' = kits \cup {[seq |-> clock + 1, name |-> load[c].name, location |-> load[c].location,
                                 statements |-> load[c].past, hash |-> ScriptHash(load[c].text)]}
  /\ load' = Finished(c)
  /\ UNCHANGED <<files, declared, tables, glossed, extensions>>

-----------------------------------------------------------------------------
(* What else moves.                                                        *)

EditFile(path, text) ==
  /\ files[path] # text
  /\ files' = [files EXCEPT ![path] = text]
  /\ UNCHANGED <<glossed, extensions, load, store>>

DeclareByHand(key, value) ==
  /\ Standing(key) # {value}
  /\ RunDeclare(Declares(key, value))
  /\ UNCHANGED <<files, kits, tables, glossed, extensions, load>>

DropTable(t) ==
  /\ t \in tables
  /\ tables' = tables \ {t}
  /\ UNCHANGED <<files, kits, declared, glossed, extensions, load, clock>>

Gloss(key) ==
  /\ key \in AspectKeys \ glossed /\ Standing(key) # {}
  /\ glossed' = glossed \cup {key}
  /\ UNCHANGED <<files, extensions, load, store>>

\* The process ends: its extensions and its loads go, the store stays.
Restart ==
  /\ extensions' = {}
  /\ load' = [c \in Conns |-> Idle]
  /\ UNCHANGED <<files, glossed, store>>

Next ==
  \/ \E c \in Conns, p \in Paths : ReadScript(c, p)
  \/ \E c \in Conns : AskStands(c) \/ Step(c) \/ Stop(c) \/ Finish(c)
  \/ \E p \in Paths, t \in Texts : EditFile(p, t)
  \/ \E k \in Keys, v \in Values : DeclareByHand(k, v)
  \/ \E t \in Tables : DropTable(t)
  \/ \E k \in AspectKeys : Gloss(k)
  \/ Restart

Spec == Init /\ [][Next]_vars

-----------------------------------------------------------------------------
(* What a record owes the next start.                                      *)

TypeOK ==
  /\ files \in [Paths -> Texts \cup {None}]
  /\ \A r \in kits : /\ r.location \in Paths /\ r.name = KitName(r.location)
                     /\ r.seq \in 1 .. clock /\ \E t \in Texts : r.hash = ScriptHash(t)
  /\ \A r \in declared : r.key \in Keys /\ r.value \in Values /\ r.seq \in 1 .. clock
  /\ tables \subseteq Tables /\ glossed \subseteq AspectKeys /\ extensions \subseteq Extensions
  /\ \A c \in Conns :
       /\ load[c].at \in {"idle", "read", "run", "done", "stopped"}
       /\ load[c].at \in {"read", "run", "done"} => load[c].text \in Texts /\ load[c].location \in Paths
       /\ load[c].at \in {"run", "done"} =>
            /\ load[c].past \in 0 .. Len(load[c].text) /\ load[c].stands \in BOOLEAN
            /\ load[c].name = KitName(load[c].location)
  /\ clock \in 0 .. MaxClock

\* What a text leaves declared of a key: its last declaration of it.
Leaves(text, key) ==
  {text[i].value : i \in {i \in DOMAIN text :
     /\ text[i].kind = "DECLARE" /\ text[i].what = key
     /\ \A j \in DOMAIN text : text[j].kind = "DECLARE" /\ text[j].what = key => j <= i}}

\* What stood of a key when the row of that seq landed.
StoodAt(key, seq) ==
  {r.value : r \in Newest({r \in declared : r.key = key /\ r.seq < seq})}

\* "A kit that ran lands a kits row": as it landed, everything its text declares
\* stood as the text leaves it.
RecordTells ==
  \A r \in kits : \A t \in Texts : ScriptHash(t) = r.hash =>
    \A k \in Keys : Leaves(t, k) # {} => StoodAt(k, r.seq) = Leaves(t, k)

\* "Its LOAD and INSTALL lines run, which bring an extension into the process":
\* every load that came to its end has done so, standing or run.
ExtensionsLoaded ==
  \A c \in Conns : load[c].at = "done" =>
    \A i \in DOMAIN load[c].text : load[c].text[i].kind = "LOAD" => load[c].text[i].what \in extensions

\* "What it declared and created is in the lake": of a kit that is answered "stands"
\* everything it declares stands as it leaves it.
StandsWhole ==
  [][\A c \in Conns : load[c].at = "run" /\ load'[c].at = "done" /\ load[c].stands =>
       \A k \in Keys : Leaves(load[c].text, k) # {} => Standing(k) = Leaves(load[c].text, k)]_vars
=============================================================================
