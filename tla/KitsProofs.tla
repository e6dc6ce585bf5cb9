----------------------------- MODULE KitsProofs -----------------------------
(***************************************************************************)
(* What a kit's record owes the next start, for any texts, paths, keys and    *)
(* connections: every load that came to its end brought its extensions,      *)
(* whatever else moves; and where one connection loads, or several load one   *)
(* text, a record lands only over what its text declares.                    *)
(***************************************************************************)
EXTENDS MCKits, StoreRowsProofs, TLAPS

-----------------------------------------------------------------------------
(* Types.                                                                  *)

RunFields == {"at", "location", "name", "text", "stands", "past"}

\* A load that runs or ran has every field of one.
Shaped ==
  /\ load = [c \in Conns |-> load[c]]
  /\ \A c \in Conns : load[c].at \in {"run", "done"} => DOMAIN load[c] = RunFields

Typed == TypeOK /\ Shaped

\* A text is statements, of the kinds there are.
LEMMA TextsAreStatements ==
  ASSUME NEW t \in Texts
  PROVE  /\ t \in Seq(Statements) /\ Len(t) \in Nat /\ DOMAIN t = 1 .. Len(t)
         /\ \A i \in 1 .. Len(t) : t[i] \in Statements
<1>1. t \in Seq(Statements)
  BY KitsAssumption
<1> QED
  BY <1>1

LEMMA StatementKinds ==
  ASSUME NEW s \in Statements
  PROVE  /\ s.kind = "LOAD" => s.what \in Extensions
         /\ s.kind = "DECLARE" => s.what \in Keys /\ s.value \in Values
         /\ s.kind = "CREATE" => s.what \in Tables
         /\ s.kind \in {"LOAD", "DECLARE", "CREATE"}
BY DEF Statements, LoadLine, Declares, Creates

\* One connection's load moves, the others' stay.
LEMMA OneMoves ==
  ASSUME Typed, NEW c \in Conns, NEW l, load' = [load EXCEPT ![c] = l]
  PROVE  /\ load'[c] = l
         /\ \A d \in Conns \ {c} : load'[d] = load[d]
         /\ load' = [d \in Conns |-> load'[d]]
<1> DEFINE L == load
<1>1. L = [d \in Conns |-> L[d]]
  BY DEF Typed, Shaped
<1> HIDE DEF L
<1>2. load' = [L EXCEPT ![c] = l]
  BY DEF L
<1>3. load' = [d \in Conns |-> IF d = c THEN l ELSE L[d]]
  BY <1>1, <1>2
<1> QED
  BY <1>3 DEF L

\* What a statement gone by changes of its load, and the end of one.
LEMMA Advances ==
  ASSUME Typed, NEW c \in Conns, load[c].at = "run", load' = Advanced(c)
  PROVE  /\ load'[c].at = "run" /\ load'[c].past = load[c].past + 1
         /\ load'[c].text = load[c].text /\ load'[c].stands = load[c].stands
         /\ load'[c].location = load[c].location /\ load'[c].name = load[c].name
         /\ DOMAIN load'[c] = RunFields
         /\ \A d \in Conns \ {c} : load'[d] = load[d]
         /\ load' = [d \in Conns |-> load'[d]]
<1>1. DOMAIN load[c] = RunFields
  BY DEF Typed, Shaped
<1> DEFINE l == [load[c] EXCEPT !.past = @ + 1]
<1>2. load' = [load EXCEPT ![c] = l]
  BY DEF Advanced
<1>3. /\ l.at = "run" /\ l.past = load[c].past + 1
      /\ l.text = load[c].text /\ l.stands = load[c].stands
      /\ l.location = load[c].location /\ l.name = load[c].name
      /\ DOMAIN l = RunFields
  BY <1>1 DEF RunFields
<1> HIDE DEF l
<1> QED
  BY <1>2, <1>3, OneMoves

LEMMA Finishes ==
  ASSUME Typed, NEW c \in Conns, load[c].at = "run", load' = Finished(c)
  PROVE  /\ load'[c].at = "done" /\ load'[c].past = load[c].past
         /\ load'[c].text = load[c].text /\ load'[c].stands = load[c].stands
         /\ load'[c].location = load[c].location /\ load'[c].name = load[c].name
         /\ DOMAIN load'[c] = RunFields
         /\ \A d \in Conns \ {c} : load'[d] = load[d]
         /\ load' = [d \in Conns |-> load'[d]]
<1>1. DOMAIN load[c] = RunFields
  BY DEF Typed, Shaped
<1> DEFINE l == [load[c] EXCEPT !.at = "done"]
<1>2. load' = [load EXCEPT ![c] = l]
  BY DEF Finished
<1>3. /\ l.at = "done" /\ l.past = load[c].past
      /\ l.text = load[c].text /\ l.stands = load[c].stands
      /\ l.location = load[c].location /\ l.name = load[c].name
      /\ DOMAIN l = RunFields
  BY <1>1 DEF RunFields
<1> HIDE DEF l
<1> QED
  BY <1>2, <1>3, OneMoves

\* How far a load is, in its types.
LoadOK(l) ==
  /\ l.at \in {"idle", "read", "run", "done", "stopped"}
  /\ l.at \in {"read", "run", "done"} => l.text \in Texts /\ l.location \in Paths
  /\ l.at \in {"run", "done"} =>
       /\ l.past \in 0 .. Len(l.text) /\ l.stands \in BOOLEAN
       /\ l.name = KitName(l.location)
       /\ DOMAIN l = RunFields

StoreOK ==
  /\ files \in [Paths -> Texts \cup {None}]
  /\ \A r \in kits : /\ r.location \in Paths /\ r.name = KitName(r.location)
                     /\ r.seq \in 1 .. clock /\ \E t \in Texts : r.hash = ScriptHash(t)
  /\ \A r \in declared : r.key \in Keys /\ r.value \in Values /\ r.seq \in 1 .. clock
  /\ tables \subseteq Tables /\ glossed \subseteq AspectKeys /\ extensions \subseteq Extensions
  /\ clock \in 0 .. MaxClock

LoadsOK == load = [c \in Conns |-> load[c]] /\ \A c \in Conns : LoadOK(load[c])

LEMMA TypedIs == Typed <=> StoreOK /\ LoadsOK
BY DEF Typed, TypeOK, Shaped, StoreOK, LoadOK, LoadsOK

LEMMA InitTyped == Init => Typed
<1> SUFFICES ASSUME Init PROVE Typed
  OBVIOUS
<1>1. StoreOK
  BY KitsAssumption DEF Init, StoreOK
<1>2. LoadsOK
  BY DEF Init, Idle, LoadOK, LoadsOK
<1> QED
  BY <1>1, <1>2, TypedIs

LEMMA MoreIs ==
  ASSUME Typed, NEW c \in Conns, More(c)
  PROVE  /\ load[c].at = "run" /\ load[c].text \in Texts /\ load[c].past \in Nat
         /\ load[c].past + 1 \in 1 .. Len(load[c].text)
         /\ Following(c) = load[c].text[load[c].past + 1]
         /\ Following(c) \in Statements
<1>1. load[c].at = "run" /\ load[c].past < Len(load[c].text)
  BY DEF More
<1>2. load[c].text \in Texts /\ load[c].past \in 0 .. Len(load[c].text)
  BY <1>1 DEF Typed, TypeOK
<1>3. Len(load[c].text) \in Nat
  BY <1>2, TextsAreStatements
<1>4. load[c].past + 1 \in 1 .. Len(load[c].text)
  BY <1>1, <1>2, <1>3
<1> QED
  BY <1>1, <1>2, <1>4, TextsAreStatements DEF Following

\* A row that is declared is numbered by the clock.
LEMMA DeclareTypes ==
  ASSUME StoreOK, NEW s, s.what \in Keys, s.value \in Values, RunDeclare(s),
         UNCHANGED <<files, kits, tables, glossed, extensions>>
  PROVE  StoreOK'
<1>1. CASE UNCHANGED <<declared, clock>>
  BY <1>1 DEF StoreOK
<1>2. CASE /\ Tick
           /\ declared' = declared \cup {[seq |-> clock + 1, key |-> s.what, value |-> s.value]}
  <2>1. clock \in Nat /\ clock' = clock + 1 /\ clock' \in 0 .. MaxClock
    BY <1>2, KitsAssumption DEF Tick, StoreOK
  <2>2. \A n \in 1 .. clock : n \in 1 .. clock'
    BY <2>1
  <2>3. clock + 1 \in 1 .. clock'
    BY <2>1
  <2>4. \A r \in declared' : r.key \in Keys /\ r.value \in Values /\ r.seq \in 1 .. clock'
    BY <1>2, <2>2, <2>3 DEF StoreOK
  <2>5. \A r \in kits : /\ r.location \in Paths /\ r.name = KitName(r.location)
                        /\ r.seq \in 1 .. clock' /\ \E t \in Texts : r.hash = ScriptHash(t)
    BY <2>2 DEF StoreOK
  <2> QED
    BY <2>1, <2>4, <2>5 DEF StoreOK
<1> QED
  BY <1>1, <1>2 DEF RunDeclare

LEMMA StatementTypes ==
  ASSUME StoreOK, NEW s \in Statements, RunStatement(s)
  PROVE  StoreOK'
<1>1. CASE s.kind = "LOAD" /\ extensions' = extensions \cup {s.what} /\ UNCHANGED <<declared, tables, clock>>
  BY <1>1, StatementKinds DEF RunStatement, StoreOK
<1>2. CASE s.kind = "DECLARE" /\ RunDeclare(s) /\ UNCHANGED <<tables, extensions>>
  BY <1>2, StatementKinds, DeclareTypes DEF RunStatement
<1>3. CASE s.kind = "CREATE" /\ tables' = tables \cup {s.what} /\ UNCHANGED <<declared, extensions, clock>>
  BY <1>3, StatementKinds DEF RunStatement, StoreOK
<1> QED
  BY <1>1, <1>2, <1>3 DEF RunStatement

LEMMA TypeStep == Typed /\ [Next]_vars => Typed'
<1> SUFFICES ASSUME Typed, [Next]_vars PROVE Typed'
  OBVIOUS
<1>0. /\ StoreOK /\ load = [c \in Conns |-> load[c]] /\ \A c \in Conns : LoadOK(load[c])
      /\ StoreOK' /\ load' = [c \in Conns |-> load'[c]] /\ (\A c \in Conns : LoadOK(load'[c])) => Typed'
  <2>1. StoreOK' /\ LoadsOK' => Typed'
    BY TypedIs, PTL
  <2> QED
    BY <2>1, TypedIs DEF LoadsOK, LoadOK
<1>s. UNCHANGED <<files, kits, declared, tables, glossed, extensions, clock>> => StoreOK'
  BY <1>0 DEF StoreOK
<1>l. UNCHANGED load => load' = [c \in Conns |-> load'[c]] /\ \A c \in Conns : LoadOK(load'[c])
  BY <1>0
<1>m. ASSUME NEW c \in Conns, \A d \in Conns \ {c} : load'[d] = load[d], LoadOK(load'[c])
      PROVE  \A d \in Conns : LoadOK(load'[d])
  BY <1>0, <1>m
<1>1. ASSUME NEW c \in Conns, NEW p \in Paths, ReadScript(c, p) PROVE Typed'
  <2> DEFINE l == [at |-> "read", location |-> p, text |-> files[p]]
  <2>1. LoadOK(l)
    BY <1>0, <1>1 DEF ReadScript, LoadOK, StoreOK
  <2>2. load' = [load EXCEPT ![c] = l]
    BY <1>1 DEF ReadScript
  <2> HIDE DEF l
  <2> QED
    BY <1>0, <1>1, <1>s, <1>m, <2>1, <2>2, OneMoves DEF ReadScript, store
<1>2. ASSUME NEW c \in Conns, AskStands(c) PROVE Typed'
  <2> DEFINE stands == \E r \in Recorded(load[c].location) : r.hash = ScriptHash(load[c].text)
             l == [at |-> "run", location |-> load[c].location, name |-> KitName(load[c].location),
                   text |-> load[c].text, stands |-> stands, past |-> 0]
  <2>1. load[c].text \in Texts /\ load[c].location \in Paths
    BY <1>0, <1>2 DEF AskStands, LoadOK
  <2>2. Len(load[c].text) \in Nat
    BY <2>1, TextsAreStatements
  <2>3. load' = [load EXCEPT ![c] = l]
    BY <1>2 DEF AskStands
  <2>4. stands \in BOOLEAN
    OBVIOUS
  <2> HIDE DEF stands
  <2>5. LoadOK(l)
    BY <2>1, <2>2, <2>4 DEF LoadOK, RunFields
  <2> HIDE DEF l
  <2> QED
    BY <1>0, <1>2, <1>s, <1>m, <2>3, <2>5, OneMoves DEF AskStands, store
<1>3. ASSUME NEW c \in Conns, Step(c) PROVE Typed'
  <2>1. /\ More(c) /\ load' = Advanced(c)
        /\ RunStatement(Following(c)) \/ UNCHANGED <<files, glossed, extensions, store>>
    BY <1>3 DEF Step
  <2>2. /\ load[c].at = "run" /\ load[c].past \in Nat
        /\ load[c].past + 1 \in 1 .. Len(load[c].text) /\ Following(c) \in Statements
    BY <2>1, MoreIs
  <2>3. StoreOK'
    BY <1>0, <1>s, <2>1, <2>2, StatementTypes DEF store
  <2>4. /\ load'[c].at = "run" /\ load'[c].past = load[c].past + 1
        /\ load'[c].text = load[c].text /\ load'[c].stands = load[c].stands
        /\ load'[c].location = load[c].location /\ load'[c].name = load[c].name
        /\ DOMAIN load'[c] = RunFields
        /\ \A d \in Conns \ {c} : load'[d] = load[d]
        /\ load' = [d \in Conns |-> load'[d]]
    BY <2>1, <2>2, Advances
  <2>5. load'[c].past \in 0 .. Len(load'[c].text)
    BY <2>2, <2>4
  <2>6. LoadOK(load'[c])
    BY <1>0, <2>2, <2>4, <2>5 DEF LoadOK
  <2> QED
    BY <1>0, <1>m, <2>3, <2>4, <2>6
<1>4. ASSUME NEW c \in Conns, Stop(c) PROVE Typed'
  <2> DEFINE l == [at |-> "stopped"]
  <2>1. LoadOK(l)
    BY DEF LoadOK
  <2>2. load' = [load EXCEPT ![c] = l]
    BY <1>4 DEF Stop
  <2> HIDE DEF l
  <2> QED
    BY <1>0, <1>4, <1>s, <1>m, <2>1, <2>2, OneMoves DEF Stop, store
<1>5. ASSUME NEW c \in Conns, Finish(c) PROVE Typed'
  <2>1. load[c].at = "run" /\ load' = Finished(c)
    BY <1>5 DEF Finish
  <2>2. /\ load'[c].at = "done" /\ load'[c].past = load[c].past
        /\ load'[c].text = load[c].text /\ load'[c].stands = load[c].stands
        /\ load'[c].location = load[c].location /\ load'[c].name = load[c].name
        /\ DOMAIN load'[c] = RunFields
        /\ \A d \in Conns \ {c} : load'[d] = load[d]
        /\ load' = [d \in Conns |-> load'[d]]
    BY <2>1, Finishes
  <2>3. LoadOK(load'[c])
    BY <1>0, <2>1, <2>2 DEF LoadOK
  <2>4. StoreOK'
    <3>1. CASE UNCHANGED <<kits, clock>>
      BY <1>0, <1>5, <3>1 DEF Finish, StoreOK
    <3>2. CASE /\ Tick
               /\ kits' = kits \cup {[seq |-> clock + 1, name |-> load[c].name, location |-> load[c].location,
                                      statements |-> load[c].past, hash |-> ScriptHash(load[c].text)]}
      <4>1. /\ clock \in Nat /\ clock' = clock + 1 /\ clock' \in 0 .. MaxClock
            /\ \A n \in 1 .. clock : n \in 1 .. clock'
            /\ clock + 1 \in 1 .. clock'
        BY <1>0, <3>2, KitsAssumption DEF Tick, StoreOK
      <4>2. load[c].text \in Texts /\ load[c].location \in Paths /\ load[c].name = KitName(load[c].location)
        BY <1>0, <2>1 DEF LoadOK
      <4>3. \A r \in kits' : /\ r.location \in Paths /\ r.name = KitName(r.location)
                             /\ r.seq \in 1 .. clock' /\ \E t \in Texts : r.hash = ScriptHash(t)
        BY <1>0, <3>2, <4>1, <4>2 DEF StoreOK
      <4>4. \A r \in declared : r.key \in Keys /\ r.value \in Values /\ r.seq \in 1 .. clock'
        BY <1>0, <4>1 DEF StoreOK
      <4> QED
        BY <1>0, <1>5, <4>1, <4>3, <4>4 DEF Finish, StoreOK
    <3> QED
      BY <1>5, <3>1, <3>2 DEF Finish
  <2> QED
    BY <1>0, <1>m, <2>2, <2>3, <2>4
<1>6. ASSUME NEW p \in Paths, NEW t \in Texts, EditFile(p, t) PROVE Typed'
  <2>1. files' \in [Paths -> Texts \cup {None}]
    BY <1>0, <1>6 DEF EditFile, StoreOK
  <2>2. StoreOK'
    BY <1>0, <1>6, <2>1 DEF EditFile, StoreOK, store
  <2> QED
    BY <1>0, <1>6, <1>l, <2>2 DEF EditFile
<1>7. ASSUME NEW k \in Keys, NEW v \in Values, DeclareByHand(k, v) PROVE Typed'
  <2>1. Declares(k, v).what \in Keys /\ Declares(k, v).value \in Values
    BY DEF Declares
  <2>2. StoreOK'
    BY <1>0, <1>7, <2>1, DeclareTypes DEF DeclareByHand
  <2> QED
    BY <1>0, <1>7, <1>l, <2>2 DEF DeclareByHand
<1>8. ASSUME NEW t \in Tables, DropTable(t) PROVE Typed'
  <2>1. StoreOK'
    BY <1>0, <1>8 DEF DropTable, StoreOK
  <2> QED
    BY <1>0, <1>8, <1>l, <2>1 DEF DropTable
<1>9. ASSUME NEW k \in AspectKeys, Gloss(k) PROVE Typed'
  <2>1. StoreOK'
    BY <1>0, <1>9 DEF Gloss, StoreOK, store
  <2> QED
    BY <1>0, <1>9, <1>l, <2>1 DEF Gloss
<1>10. ASSUME Restart PROVE Typed'
  <2>1. StoreOK'
    BY <1>0, <1>10 DEF Restart, StoreOK, store
  <2>2. load' = [c \in Conns |-> load'[c]] /\ \A c \in Conns : LoadOK(load'[c])
    BY <1>10 DEF Restart, Idle, LoadOK
  <2> QED
    BY <1>0, <2>1, <2>2
<1>11. ASSUME UNCHANGED vars PROVE Typed'
  BY <1>0, <1>s, <1>l, <1>11 DEF vars, store
<1> QED
  BY <1>1, <1>2, <1>3, <1>4, <1>5, <1>6, <1>7, <1>8, <1>9, <1>10, <1>11 DEF Next

\* Whatever loads, is edited, declared, dropped and restarted, and in whatever order,
\* rows and loads are of their types.
THEOREM TypeCorrect == Spec => []TypeOK
<1>1. Typed => TypeOK
  BY DEF Typed
<1> QED
  BY <1>1, InitTyped, TypeStep, PTL DEF Spec

-----------------------------------------------------------------------------
(* Extensions.  What a load went past it brought into the process, which only *)
(* a restart empties, and the load with it.                                 *)

\* A load l of a process with those extensions.
Brought(l, there) ==
  l.at \in {"run", "done"} =>
    /\ \A i \in 1 .. l.past : l.text[i].kind = "LOAD" => l.text[i].what \in there
    /\ l.at = "done" => l.past = Len(l.text)

AllBrought == \A c \in Conns : Brought(load[c], extensions)

LEMMA BroughtStep == Typed /\ AllBrought /\ [Next]_vars => AllBrought'
<1> SUFFICES ASSUME Typed, AllBrought, [Next]_vars PROVE AllBrought'
  OBVIOUS
<1>0. \A c \in Conns : Brought(load[c], extensions)
  BY DEF AllBrought
<1>1. ASSUME UNCHANGED load, extensions' = extensions PROVE AllBrought'
  BY <1>1, <1>0 DEF AllBrought, Brought
<1>2. ASSUME NEW c \in Conns, extensions \subseteq extensions',
             \A d \in Conns \ {c} : load'[d] = load[d], Brought(load'[c], extensions')
      PROVE  AllBrought'
  <2>1. ASSUME NEW d \in Conns PROVE Brought(load'[d], extensions')
    <3>1. CASE d = c
      BY <1>2, <3>1
    <3>2. CASE d # c
      BY <1>0, <1>2, <3>2 DEF Brought
    <3> QED
      BY <3>1, <3>2
  <2> QED
    BY <2>1 DEF AllBrought
<1>3. ASSUME NEW c \in Conns, NEW p \in Paths, ReadScript(c, p) PROVE AllBrought'
  <2> DEFINE l == [at |-> "read", location |-> p, text |-> files[p]]
  <2>1. load' = [load EXCEPT ![c] = l] /\ extensions' = extensions /\ l.at = "read"
    BY <1>3 DEF ReadScript
  <2> HIDE DEF l
  <2> QED
    BY <1>2, <2>1, OneMoves DEF Brought
<1>4. ASSUME NEW c \in Conns, AskStands(c) PROVE AllBrought'
  <2> DEFINE l == [at |-> "run", location |-> load[c].location, name |-> KitName(load[c].location),
                   text |-> load[c].text,
                   stands |-> \E r \in Recorded(load[c].location) : r.hash = ScriptHash(load[c].text), past |-> 0]
  <2>1. load' = [load EXCEPT ![c] = l] /\ extensions' = extensions /\ l.at = "run" /\ l.past = 0
    BY <1>4 DEF AskStands
  <2> HIDE DEF l
  <2>2. Brought(l, extensions')
    BY <2>1 DEF Brought
  <2>3. load'[c] = l /\ \A d \in Conns \ {c} : load'[d] = load[d]
    BY <2>1, OneMoves
  <2> QED
    BY <1>2, <2>1, <2>2, <2>3
<1>5. ASSUME NEW c \in Conns, Step(c) PROVE AllBrought'
  <2>1. /\ load[c].at = "run" /\ load[c].past \in Nat
        /\ Following(c) = load[c].text[load[c].past + 1] /\ Following(c) \in Statements
    BY <1>5, MoreIs DEF Step
  <2>2. /\ load'[c].at = "run" /\ load'[c].past = load[c].past + 1 /\ load'[c].text = load[c].text
        /\ \A d \in Conns \ {c} : load'[d] = load[d]
    BY <1>5, <2>1, Advances DEF Step
  <2>3. extensions \subseteq extensions'
    BY <1>5 DEF Step, RunStatement
  <2>4. Following(c).kind = "LOAD" => Following(c).what \in extensions'
    BY <1>5 DEF Step, RunStatement, IsLoadLine
  <2>5. \A i \in 1 .. load[c].past : load[c].text[i].kind = "LOAD" => load[c].text[i].what \in extensions'
    BY <1>0, <2>1, <2>3 DEF Brought
  <2>6. \A i \in 1 .. load'[c].past : i \in 1 .. load[c].past \/ i = load[c].past + 1
    BY <2>1, <2>2
  <2>7. ASSUME NEW i \in 1 .. load'[c].past, load'[c].text[i].kind = "LOAD"
        PROVE  load'[c].text[i].what \in extensions'
    <3>1. CASE i \in 1 .. load[c].past
      BY <2>2, <2>5, <2>7, <3>1
    <3>2. CASE i = load[c].past + 1
      BY <2>1, <2>2, <2>4, <2>7, <3>2
    <3> QED
      BY <2>6, <3>1, <3>2
  <2>8. Brought(load'[c], extensions')
    BY <2>2, <2>7 DEF Brought
  <2> QED
    BY <1>2, <2>2, <2>3, <2>8
<1>6. ASSUME NEW c \in Conns, Stop(c) PROVE AllBrought'
  <2> DEFINE l == [at |-> "stopped"]
  <2>1. load' = [load EXCEPT ![c] = l] /\ extensions' = extensions /\ l.at = "stopped"
    BY <1>6 DEF Stop
  <2> HIDE DEF l
  <2> QED
    BY <1>2, <2>1, OneMoves DEF Brought
<1>7. ASSUME NEW c \in Conns, Finish(c) PROVE AllBrought'
  <2>1. load[c].at = "run" /\ ~ More(c) /\ load' = Finished(c) /\ extensions' = extensions
    BY <1>7 DEF Finish
  <2>2. /\ load'[c].at = "done" /\ load'[c].past = load[c].past /\ load'[c].text = load[c].text
        /\ \A d \in Conns \ {c} : load'[d] = load[d]
    BY <2>1, Finishes
  <2>3. load[c].past = Len(load[c].text)
    <3>1. load[c].text \in Texts /\ load[c].past \in 0 .. Len(load[c].text)
      BY <2>1 DEF Typed, TypeOK
    <3>2. Len(load[c].text) \in Nat
      BY <3>1, TextsAreStatements
    <3> QED
      BY <2>1, <3>1, <3>2 DEF More
  <2>4. Brought(load'[c], extensions')
    BY <1>0, <2>1, <2>2, <2>3 DEF Brought
  <2> QED
    BY <1>2, <2>1, <2>2, <2>4
<1>8. ASSUME NEW p \in Paths, NEW t \in Texts, EditFile(p, t) PROVE AllBrought'
  BY <1>1, <1>8 DEF EditFile
<1>9. ASSUME NEW k \in Keys, NEW v \in Values, DeclareByHand(k, v) PROVE AllBrought'
  BY <1>1, <1>9 DEF DeclareByHand
<1>10. ASSUME NEW t \in Tables, DropTable(t) PROVE AllBrought'
  BY <1>1, <1>10 DEF DropTable
<1>11. ASSUME NEW k \in AspectKeys, Gloss(k) PROVE AllBrought'
  BY <1>1, <1>11 DEF Gloss
<1>12. ASSUME Restart PROVE AllBrought'
  BY <1>12 DEF Restart, Idle, AllBrought, Brought
<1>13. ASSUME UNCHANGED vars PROVE AllBrought'
  BY <1>1, <1>13 DEF vars
<1> QED
  BY <1>3, <1>4, <1>5, <1>6, <1>7, <1>8, <1>9, <1>10, <1>11, <1>12, <1>13 DEF Next

LEMMA BroughtLoaded == Typed /\ AllBrought => ExtensionsLoaded
<1> SUFFICES ASSUME Typed, AllBrought, NEW c \in Conns, load[c].at = "done", NEW i \in DOMAIN load[c].text,
                    load[c].text[i].kind = "LOAD"
             PROVE  load[c].text[i].what \in extensions
  BY DEF ExtensionsLoaded
<1>1. load[c].text \in Texts
  BY DEF Typed, TypeOK
<1>2. i \in 1 .. load[c].past
  BY <1>1, TextsAreStatements DEF AllBrought, Brought
<1> QED
  BY <1>2 DEF AllBrought, Brought

\* Every load that came to its end brought the extensions of its text, standing or
\* run, whatever other connections, hands and restarts do meanwhile.
THEOREM LoadsBring == Spec => []ExtensionsLoaded
<1>1. Init => Typed /\ AllBrought
  <2>1. Init => AllBrought
    BY DEF Init, Idle, AllBrought, Brought
  <2> QED
    BY <2>1, InitTyped
<1>2. (Typed /\ AllBrought) /\ [Next]_vars => (Typed /\ AllBrought)'
  BY TypeStep, BroughtStep
<1> QED
  BY <1>1, <1>2, BroughtLoaded, PTL DEF Spec

-----------------------------------------------------------------------------
(* Declarations.  A row that is declared stands for its key, and leaves what   *)
(* stood when an earlier row landed.                                        *)

LEMMA Declared ==
  ASSUME StoreOK, NEW k, NEW v, declared' = declared \cup {[seq |-> clock + 1, key |-> k, value |-> v]}
  PROVE  /\ Standing(k)' = {v}
         /\ \A key : key # k => Standing(key)' = Standing(key)
         /\ \A key : \A seq \in 1 .. clock : StoodAt(key, seq)' = StoodAt(key, seq)
<1> DEFINE row == [seq |-> clock + 1, key |-> k, value |-> v]
           of(key) == {r \in declared : r.key = key}
<1>0. clock \in Nat /\ \A r \in declared : r.seq \in Nat /\ r.seq <= clock
  BY KitsAssumption DEF StoreOK
<1>1. Standing(k)' = {v}
  <2>1. {r \in declared' : r.key = k} = of(k) \cup {row}
    OBVIOUS
  <2>2. Newest(of(k) \cup {row}) = {row}
    <3>1. row.seq = clock + 1 /\ \A r \in of(k) : r.seq \in Nat /\ r.seq <= clock
      BY <1>0
    <3> HIDE DEF row, of
    <3> QED
      BY <1>0, <3>1, LaterIsNewest
  <2>3. Standing(k)' = {r.value : r \in Newest({r \in declared' : r.key = k})}
    BY DEF Standing, Newest, TopSeq, MaxOf
  <2>4. {r.value : r \in {row}} = {v}
    OBVIOUS
  <2> QED
    BY <2>1, <2>2, <2>3, <2>4
<1>2. ASSUME NEW key, key # k PROVE Standing(key)' = Standing(key)
  <2>1. {r \in declared' : r.key = key} = {r \in declared : r.key = key}
    BY <1>2
  <2> QED
    BY <2>1 DEF Standing, Newest, TopSeq, MaxOf
<1>3. ASSUME NEW key, NEW seq \in 1 .. clock PROVE StoodAt(key, seq)' = StoodAt(key, seq)
  <2>1. ~ (row.seq < seq)
    BY <1>0
  <2>2. {r \in declared' : r.key = key /\ r.seq < seq} = {r \in declared : r.key = key /\ r.seq < seq}
    BY <2>1
  <2> QED
    BY <2>2 DEF StoodAt, Newest, TopSeq, MaxOf
<1> QED
  BY <1>1, <1>2, <1>3

\* What the statement s may make of what stands.
Effect(s) ==
  /\ s.kind = "DECLARE" => Standing(s.what)' = {s.value}
  /\ \A key : \/ s.kind = "DECLARE" /\ s.what = key /\ Standing(key) # {s.value}
              \/ Standing(key)' = Standing(key)

\* Records keep telling what they told.
LEMMA DeclareEffect ==
  ASSUME StoreOK, RecordTells, NEW s, s.kind = "DECLARE", RunDeclare(s), kits' = kits
  PROVE  Effect(s) /\ RecordTells'
<1>1. CASE Standing(s.what) = {s.value} /\ UNCHANGED <<declared, clock>>
  <2>1. \A key : Standing(key)' = Standing(key)
    BY <1>1 DEF Standing
  <2>2. \A key, seq : StoodAt(key, seq)' = StoodAt(key, seq)
    BY <1>1 DEF StoodAt
  <2> QED
    BY <1>1, <2>1, <2>2 DEF Effect, RecordTells
<1>2. CASE /\ Standing(s.what) # {s.value}
           /\ declared' = declared \cup {[seq |-> clock + 1, key |-> s.what, value |-> s.value]}
  <2>1. /\ Standing(s.what)' = {s.value}
        /\ \A key : key # s.what => Standing(key)' = Standing(key)
        /\ \A key : \A seq \in 1 .. clock : StoodAt(key, seq)' = StoodAt(key, seq)
    BY <1>2, Declared
  <2>2. \A r \in kits : r.seq \in 1 .. clock
    BY DEF StoreOK
  <2>3. RecordTells'
    BY <2>1, <2>2 DEF RecordTells
  <2> QED
    BY <1>2, <2>1, <2>3 DEF Effect
<1> QED
  BY <1>1, <1>2 DEF RunDeclare

LEMMA NothingDeclared ==
  ASSUME UNCHANGED declared
  PROVE  /\ \A key : Standing(key)' = Standing(key)
         /\ \A key, seq : StoodAt(key, seq)' = StoodAt(key, seq)
         /\ RecordTells /\ kits' = kits => RecordTells'
BY DEF Standing, StoodAt, RecordTells

LEMMA StatementEffect ==
  ASSUME StoreOK, RecordTells, NEW s \in Statements, RunStatement(s)
  PROVE  Effect(s) /\ RecordTells' /\ kits' = kits /\ files' = files
<1>0. kits' = kits /\ files' = files
  BY DEF RunStatement
<1>1. CASE s.kind = "DECLARE"
  BY <1>0, <1>1, DeclareEffect DEF RunStatement
<1>2. CASE s.kind # "DECLARE"
  <2>1. UNCHANGED declared
    BY <1>2 DEF RunStatement
  <2> QED
    BY <1>0, <1>2, <2>1, NothingDeclared DEF Effect
<1> QED
  BY <1>1, <1>2

-----------------------------------------------------------------------------
(* The disciplines: one connection loads, over files that change between its   *)
(* loads; or several load one text that declares no key twice.                *)

Disciplined ==
  /\ open \in {Conns, {Door}}
  /\ IF Alone THEN \A c \in Conns \ {Door} : load[c].at = "idle"
     ELSE \E t \in Texts : /\ OnceEach(t) /\ files = [p \in Paths |-> t]
                           /\ \A c \in Conns : load[c].at \in {"read", "run"} => load[c].text = t

LEMMA DisciplineKept ==
  ASSUME Disciplined, open' = open, Alone \/ files' = files,
         Alone => \A c \in Conns \ {Door} : load'[c].at = "idle",
         \A c \in Conns : load'[c].at \in {"read", "run"} =>
           \/ load[c].at \in {"read", "run"} /\ load'[c].text = load[c].text
           \/ \E p \in Paths : load'[c].text = files[p]
  PROVE  Disciplined'
<1>1. CASE Alone
  BY <1>1 DEF Disciplined, Alone
<1>2. CASE ~ Alone
  <2>1. PICK t \in Texts : /\ OnceEach(t) /\ files = [p \in Paths |-> t]
                           /\ \A c \in Conns : load[c].at \in {"read", "run"} => load[c].text = t
    BY <1>2 DEF Disciplined
  <2>2. \A c \in Conns : load'[c].at \in {"read", "run"} => load'[c].text = t
    BY <2>1
  <2>3. OnceEach(t) /\ files' = [p \in Paths |-> t]
    BY <1>2, <2>1
  <2>4. ~ Alone' /\ open' \in {Conns, {Door}}
    BY <1>2 DEF Alone, Disciplined
  <2> QED
    BY <2>2, <2>3, <2>4 DEF Disciplined
<1> QED
  BY <1>1, <1>2

\* Of the first n statements of t, i is the last to declare its key.
LastOf(t, n, i) ==
  /\ t[i].kind = "DECLARE"
  /\ \A j \in 1 .. n : t[j].kind = "DECLARE" /\ t[j].what = t[i].what => j <= i

\* What the load l went past stands as it leaves it.
Told(l) ==
  l.at = "run" /\ ~ l.stands =>
    \A i \in 1 .. l.past : LastOf(l.text, l.past, i) => Standing(l.text[i].what) = {l.text[i].value}

AllTold == \A c \in Conns : Told(load[c])

\* The loads that go on have nothing new behind them.
LEMMA ToldKept ==
  ASSUME AllTold,
         \A c \in Conns : load'[c].at = "run" =>
           (load'[c] = load[c] /\ declared' = declared) \/ load'[c].past = 0
  PROVE  AllTold'
<1> SUFFICES ASSUME NEW c \in Conns PROVE Told(load[c])'
  BY DEF AllTold
<1>1. CASE load'[c].at # "run"
  BY <1>1 DEF Told
<1>2. CASE load'[c].past = 0
  <2>1. \A i \in 1 .. load'[c].past : FALSE
    BY <1>2
  <2> QED
    BY <2>1 DEF Told
<1>3. CASE load'[c] = load[c] /\ declared' = declared
  <2>1. \A key : Standing(key)' = Standing(key)
    BY <1>3, NothingDeclared
  <2> QED
    BY <1>3, <2>1 DEF AllTold, Told
<1> QED
  BY <1>1, <1>2, <1>3

\* With one connection, a load in its run took its kit to stand where its record
\* says so still.
Asked ==
  Alone /\ load[Door].at = "run" =>
    (load[Door].stands <=> \E r \in Recorded(load[Door].location) : r.hash = ScriptHash(load[Door].text))

KInv == Typed /\ Disciplined /\ AllTold /\ RecordTells /\ Asked

LEMMA StepTold ==
  ASSUME KInv, Door \in Conns, NEW c \in open, Step(c)
  PROVE  AllTold'
<1>0. /\ Typed /\ StoreOK /\ RecordTells /\ c \in Conns
      /\ \A d \in Conns : Told(load[d])
  BY TypedIs DEF KInv, AllTold, Disciplined
<1>a. PICK s, n, t : s = Following(c) /\ n = load[c].past /\ t = load[c].text
  OBVIOUS
<1>1. /\ load[c].at = "run" /\ n \in Nat /\ t \in Texts
      /\ n + 1 \in 1 .. Len(t) /\ s = t[n + 1] /\ s \in Statements
  BY <1>0, <1>a, MoreIs DEF Step
<1>2. /\ load'[c].at = "run" /\ load'[c].past = n + 1
      /\ load'[c].text = t /\ load'[c].stands = load[c].stands
      /\ \A d \in Conns \ {c} : load'[d] = load[d]
  BY <1>0, <1>1, <1>a, Advances DEF Step
<1>3. ASSUME load[c].stands, ~ IsLoadLine(s) PROVE AllTold'
  <2>1. UNCHANGED declared
    BY <1>3, <1>a DEF Step, store
  <2>2. \A key : Standing(key)' = Standing(key)
    BY <2>1, NothingDeclared
  <2> SUFFICES ASSUME NEW d \in Conns PROVE Told(load[d])'
    BY DEF AllTold
  <2>3. CASE d = c
    BY <1>2, <1>3, <2>3 DEF Told
  <2>4. CASE d # c
    BY <1>0, <1>2, <2>2, <2>4 DEF Told
  <2> QED
    BY <2>3, <2>4
<1>4. ASSUME RunStatement(s) PROVE AllTold'
  <2>0. /\ s.kind = "DECLARE" => Standing(s.what)' = {s.value}
        /\ \A key : \/ s.kind = "DECLARE" /\ s.what = key /\ Standing(key) # {s.value}
                    \/ Standing(key)' = Standing(key)
    BY <1>0, <1>1, <1>4, StatementEffect DEF Effect
  <2> SUFFICES ASSUME NEW d \in Conns PROVE Told(load[d])'
    BY DEF AllTold
  <2>1. CASE d = c
    <3>1. SUFFICES ASSUME ~ load[c].stands, NEW i \in 1 .. (n + 1), LastOf(t, n + 1, i)
                   PROVE  Standing(t[i].what)' = {t[i].value}
      BY <1>2, <2>1 DEF Told
    <3>2. CASE i = n + 1
      BY <1>1, <2>0, <3>1, <3>2 DEF LastOf
    <3>3. CASE i # n + 1
      <4>1. i \in 1 .. n /\ n + 1 \in 1 .. (n + 1) /\ \A j \in 1 .. n : j \in 1 .. (n + 1)
        BY <1>1, <3>3
      <4>2. LastOf(t, n, i)
        BY <3>1, <4>1 DEF LastOf
      <4>3. Standing(t[i].what) = {t[i].value}
        BY <1>0, <1>1, <3>1, <4>1, <4>2, <1>a DEF Told
      <4>4. ~ (n + 1 <= i)
        BY <1>1, <4>1
      <4>5. ~ (s.kind = "DECLARE" /\ s.what = t[i].what)
        BY <1>1, <3>1, <4>1, <4>4 DEF LastOf
      <4> QED
        BY <2>0, <4>3, <4>5
    <3> QED
      BY <3>2, <3>3
  <2>2. CASE d # c
    <3>u. PICK u : u = load[d].text
      OBVIOUS
    <3>1. SUFFICES ASSUME load[d].at = "run", ~ load[d].stands,
                          NEW i \in 1 .. load[d].past, LastOf(u, load[d].past, i)
                   PROVE  Standing(u[i].what)' = {u[i].value}
      BY <1>2, <2>2, <3>u DEF Told
    <3>2. Standing(u[i].what) = {u[i].value}
      BY <1>0, <3>1, <3>u DEF Told
    <3>3. ~ Alone
      BY <1>0, <2>2, <3>1 DEF KInv, Disciplined, Alone
    <3>4. OnceEach(t) /\ u = t
      BY <1>0, <1>1, <1>a, <3>1, <3>3, <3>u DEF KInv, Disciplined
    <3>5. i \in 1 .. Len(t) /\ DOMAIN t = 1 .. Len(t)
      <4>1. load[d].past \in 0 .. Len(u)
        BY <1>0, <3>1, <3>u DEF Typed, TypeOK
      <4>2. Len(t) \in Nat /\ DOMAIN t = 1 .. Len(t)
        BY <1>1, TextsAreStatements
      <4> QED
        BY <3>4, <4>1, <4>2
    <3>6. s.kind = "DECLARE" /\ s.what = t[i].what => s = t[i]
      BY <1>1, <3>1, <3>4, <3>5 DEF OnceEach, LastOf
    <3> QED
      BY <2>0, <3>2, <3>4, <3>6
  <2> QED
    BY <2>1, <2>2
<1> QED
  BY <1>3, <1>4, <1>a DEF Step

\* The record of a load that went past its whole text.
LEMMA FinishTells ==
  ASSUME KInv, NEW c \in Conns, Finish(c)
  PROVE  RecordTells'
<1>0. /\ Typed /\ StoreOK /\ RecordTells /\ Told(load[c])
      /\ clock \in Nat /\ \A r \in declared : r.seq \in Nat /\ r.seq <= clock
  <2>1. Typed /\ StoreOK /\ RecordTells /\ Told(load[c])
    BY TypedIs DEF KInv, AllTold
  <2> QED
    BY <2>1, KitsAssumption DEF StoreOK
<1>1. UNCHANGED declared /\ load[c].at = "run" /\ ~ More(c)
  BY DEF Finish
<1>2. \A key, seq : StoodAt(key, seq)' = StoodAt(key, seq)
  BY <1>1, NothingDeclared
<1>3. CASE load[c].stands
  <2>1. kits' = kits
    BY <1>3 DEF Finish
  <2> QED
    BY <1>0, <1>1, <2>1, NothingDeclared
<1>4. CASE ~ load[c].stands
  <2>a. PICK t : t = load[c].text
    OBVIOUS
  <2> DEFINE row == [seq |-> clock + 1, name |-> load[c].name, location |-> load[c].location,
                     statements |-> load[c].past, hash |-> ScriptHash(load[c].text)]
  <2>1. kits' = kits \cup {row}
    BY <1>4 DEF Finish
  <2>2. /\ t \in Texts /\ Len(t) \in Nat /\ DOMAIN t = 1 .. Len(t)
        /\ \A i \in 1 .. Len(t) : t[i] \in Statements
        /\ load[c].past = Len(t)
    <3>1. t \in Texts /\ load[c].past \in 0 .. Len(t)
      BY <1>0, <1>1, <2>a DEF Typed, TypeOK
    <3>2. Len(t) \in Nat
      BY <3>1, TextsAreStatements
    <3>3. load[c].past = Len(t)
      BY <1>1, <2>a, <3>1, <3>2 DEF More
    <3> QED
      BY <3>1, <3>3, TextsAreStatements
  <2>3. \A i \in DOMAIN t : LastOf(t, Len(t), i) => Standing(t[i].what) = {t[i].value}
    BY <1>0, <1>1, <1>4, <2>a, <2>2 DEF Told
  <2>4. \A key : StoodAt(key, clock + 1) = Standing(key)
    <3> TAKE key
    <3>1. {r \in declared : r.key = key /\ r.seq < clock + 1} = {r \in declared : r.key = key}
      BY <1>0
    <3> QED
      BY <3>1 DEF StoodAt, Standing
  <2>5. ASSUME NEW k \in Keys, Leaves(t, k) # {} PROVE Standing(k) = Leaves(t, k)
    <3> DEFINE last(i) == /\ t[i].kind = "DECLARE" /\ t[i].what = k
                          /\ \A j \in DOMAIN t : t[j].kind = "DECLARE" /\ t[j].what = k => j <= i
    <3>1. Leaves(t, k) = {t[i].value : i \in {i \in DOMAIN t : last(i)}}
      BY DEF Leaves
    <3>2. PICK i \in DOMAIN t : last(i)
      BY <2>5, <3>1
    <3>3. \A j \in DOMAIN t : last(j) => j = i
      BY <2>2, <3>2
    <3>4. Leaves(t, k) = {t[i].value}
      BY <3>1, <3>2, <3>3
    <3>5. LastOf(t, Len(t), i) /\ t[i].what = k
      BY <2>2, <3>2 DEF LastOf
    <3> QED
      BY <2>3, <3>2, <3>4, <3>5
  <2>6. ASSUME NEW u \in Texts, ScriptHash(u) = row.hash PROVE u = t
    BY <2>2, <2>6, <2>a, KitsAssumption DEF ScriptHash
  <2>7. row.seq = clock + 1
    OBVIOUS
  <2> HIDE DEF row
  <2> SUFFICES ASSUME NEW r \in kits', NEW u \in Texts, ScriptHash(u) = r.hash, NEW k \in Keys,
                      Leaves(u, k) # {}
               PROVE  StoodAt(k, r.seq)' = Leaves(u, k)
    BY DEF RecordTells, ScriptHash, Leaves
  <2>8. CASE r \in kits
    BY <1>0, <1>2, <2>8 DEF RecordTells
  <2>9. CASE r = row
    BY <1>2, <2>4, <2>5, <2>6, <2>7, <2>9
  <2> QED
    BY <2>1, <2>8, <2>9
<1> QED
  BY <1>3, <1>4

LEMMA MCIsNext == ASSUME Door \in Conns, Disciplined, [MCNext]_<<vars, open>> PROVE [Next]_vars /\ open' = open
BY DEF Disciplined, MCNext, Next, Same, vars

\* What does not touch the loads, the records or what is declared touches nothing.
LEMMA Aside ==
  ASSUME KInv, Typed', UNCHANGED <<kits, declared, load, open>>, Alone \/ files' = files
  PROVE  KInv'
<1>1. Disciplined'
  <2>1. Alone => \A c \in Conns \ {Door} : load'[c].at = "idle"
    BY DEF KInv, Disciplined
  <2> QED
    BY <2>1, DisciplineKept DEF KInv
<1>2. AllTold'
  BY ToldKept DEF KInv
<1>3. RecordTells'
  BY NothingDeclared DEF KInv
<1>4. Asked'
  BY DEF KInv, Asked, Alone, Recorded, NewestKit, Newest, TopSeq, MaxOf
<1> QED
  BY <1>1, <1>2, <1>3, <1>4 DEF KInv

LEMMA KitsStep == ASSUME Door \in Conns PROVE KInv /\ [MCNext]_<<vars, open>> => KInv'
<1> SUFFICES ASSUME KInv, [MCNext]_<<vars, open>> PROVE KInv'
  OBVIOUS
<1>0. /\ Typed /\ StoreOK /\ Disciplined /\ AllTold /\ RecordTells /\ Asked
      /\ Typed' /\ open' = open
      /\ \A c \in open : c \in Conns
      /\ Alone => \A c \in Conns \ {Door} : load[c].at = "idle"
      /\ Alone => \A c \in open : c = Door
  <2>1. Typed /\ StoreOK /\ Disciplined /\ AllTold /\ RecordTells /\ Asked
    BY TypedIs DEF KInv
  <2>2. Typed' /\ open' = open
    BY <2>1, MCIsNext, TypeStep
  <2> QED
    BY <2>1, <2>2 DEF Disciplined, Alone
<1>1. ASSUME NEW c \in open, NEW p \in Paths, ReadScript(c, p) PROVE KInv'
  <2> DEFINE l == [at |-> "read", location |-> p, text |-> files[p]]
  <2>1. /\ load' = [load EXCEPT ![c] = l] /\ l.at = "read" /\ l.text = files[p]
        /\ UNCHANGED <<files, kits, declared>>
    BY <1>1 DEF ReadScript, store
  <2> HIDE DEF l
  <2>2. load'[c] = l /\ \A d \in Conns \ {c} : load'[d] = load[d]
    BY <1>0, <2>1, OneMoves
  <2>3. Disciplined'
    BY <1>0, <2>1, <2>2, DisciplineKept
  <2>4. AllTold'
    <3>1. \A d \in Conns : load'[d].at = "run" => load'[d] = load[d] /\ declared' = declared
      BY <2>1, <2>2
    <3> QED
      BY <1>0, <3>1, ToldKept
  <2>5. Asked'
    <3>1. Alone' => load'[Door].at # "run"
      BY <1>0, <2>1, <2>2 DEF Alone
    <3> QED
      BY <3>1 DEF Asked
  <2> QED
    BY <1>0, <2>1, <2>3, <2>4, <2>5, NothingDeclared DEF KInv
<1>2. ASSUME NEW c \in open, AskStands(c) PROVE KInv'
  <2> DEFINE l == [at |-> "run", location |-> load[c].location, name |-> KitName(load[c].location),
                   text |-> load[c].text,
                   stands |-> \E r \in Recorded(load[c].location) : r.hash = ScriptHash(load[c].text), past |-> 0]
  <2>1. /\ load' = [load EXCEPT ![c] = l] /\ l.at = "run" /\ l.past = 0 /\ l.text = load[c].text
        /\ l.location = load[c].location
        /\ l.stands <=> \E r \in Recorded(load[c].location) : r.hash = ScriptHash(load[c].text)
        /\ UNCHANGED <<files, kits, declared>> /\ load[c].at = "read"
    BY <1>2 DEF AskStands, store
  <2> HIDE DEF l
  <2>2. load'[c] = l /\ \A d \in Conns \ {c} : load'[d] = load[d]
    BY <1>0, <2>1, OneMoves
  <2>3. Disciplined'
    BY <1>0, <2>1, <2>2, DisciplineKept
  <2>4. AllTold'
    <3>1. \A d \in Conns : load'[d].at = "run" =>
            (load'[d] = load[d] /\ declared' = declared) \/ load'[d].past = 0
      BY <2>1, <2>2
    <3> QED
      BY <1>0, <3>1, ToldKept
  <2>5. Asked'
    <3>1. \A location : Recorded(location)' = Recorded(location)
      BY <2>1 DEF Recorded, NewestKit, Newest, TopSeq, MaxOf
    <3> QED
      BY <1>0, <2>1, <2>2, <3>1 DEF Asked, Alone
  <2> QED
    BY <1>0, <2>1, <2>3, <2>4, <2>5, NothingDeclared DEF KInv
<1>3. ASSUME NEW c \in open, Step(c) PROVE KInv'
  <2>1. /\ load[c].at = "run" /\ Following(c) \in Statements /\ load' = Advanced(c)
        /\ RunStatement(Following(c)) \/ UNCHANGED <<files, glossed, extensions, store>>
    BY <1>0, <1>3, MoreIs DEF Step
  <2>2. /\ load'[c].at = "run" /\ load'[c].text = load[c].text /\ load'[c].stands = load[c].stands
        /\ load'[c].location = load[c].location
        /\ \A d \in Conns \ {c} : load'[d] = load[d]
    BY <1>0, <2>1, Advances
  <2>3. RecordTells' /\ kits' = kits /\ files' = files
    <3>1. PICK s : s = Following(c)
      OBVIOUS
    <3>2. CASE RunStatement(s)
      BY <1>0, <2>1, <3>1, <3>2, StatementEffect
    <3>3. CASE UNCHANGED <<files, glossed, extensions, store>>
      BY <1>0, <3>3, NothingDeclared DEF store
    <3> QED
      BY <2>1, <3>1, <3>2, <3>3
  <2>4. Disciplined'
    BY <1>0, <2>1, <2>2, <2>3, DisciplineKept
  <2>5. Asked'
    <3>1. \A location : Recorded(location)' = Recorded(location)
      BY <2>3 DEF Recorded, NewestKit, Newest, TopSeq, MaxOf
    <3> QED
      BY <1>0, <2>1, <2>2, <3>1 DEF Asked, Alone
  <2> QED
    BY <1>0, <1>3, <2>3, <2>4, <2>5, StepTold DEF KInv
<1>4. ASSUME NEW c \in open, Stop(c) PROVE KInv'
  <2> DEFINE l == [at |-> "stopped"]
  <2>1. /\ load' = [load EXCEPT ![c] = l] /\ l.at = "stopped"
        /\ UNCHANGED <<files, kits, declared>>
    BY <1>4 DEF Stop, store
  <2> HIDE DEF l
  <2>2. load'[c] = l /\ \A d \in Conns \ {c} : load'[d] = load[d]
    BY <1>0, <2>1, OneMoves
  <2>3. Disciplined'
    BY <1>0, <2>1, <2>2, DisciplineKept
  <2>4. AllTold'
    <3>1. \A d \in Conns : load'[d].at = "run" => load'[d] = load[d] /\ declared' = declared
      BY <2>1, <2>2
    <3> QED
      BY <1>0, <3>1, ToldKept
  <2>5. Asked'
    <3>1. Alone' => load'[Door].at # "run"
      BY <1>0, <2>1, <2>2 DEF Alone
    <3> QED
      BY <3>1 DEF Asked
  <2> QED
    BY <1>0, <2>1, <2>3, <2>4, <2>5, NothingDeclared DEF KInv
<1>5. ASSUME NEW c \in open, Finish(c) PROVE KInv'
  <2>1. load[c].at = "run" /\ load' = Finished(c) /\ UNCHANGED <<files, declared>>
    BY <1>5 DEF Finish
  <2>2. load'[c].at = "done" /\ \A d \in Conns \ {c} : load'[d] = load[d]
    BY <1>0, <2>1, Finishes
  <2>3. Disciplined'
    BY <1>0, <2>1, <2>2, DisciplineKept
  <2>4. AllTold'
    <3>1. \A d \in Conns : load'[d].at = "run" => load'[d] = load[d] /\ declared' = declared
      BY <2>1, <2>2
    <3> QED
      BY <1>0, <3>1, ToldKept
  <2>5. Asked'
    <3>1. Alone' => load'[Door].at # "run"
      BY <1>0, <2>1, <2>2 DEF Alone
    <3> QED
      BY <3>1 DEF Asked
  <2> QED
    BY <1>0, <1>5, <2>3, <2>4, <2>5, FinishTells DEF KInv
<1>6. ASSUME NEW p \in Paths, NEW t \in Texts, Alone, EditFile(p, t) PROVE KInv'
  BY <1>0, <1>6, Aside DEF EditFile, store
<1>7. ASSUME NEW k \in Keys, NEW v \in Values, Alone, Resting, DeclareByHand(k, v) PROVE KInv'
  <2>1. UNCHANGED <<files, kits, load>> /\ RunDeclare(Declares(k, v))
    BY <1>7 DEF DeclareByHand
  <2>2. RecordTells'
    <3>1. PICK s : s = Declares(k, v)
      OBVIOUS
    <3>2. s.kind = "DECLARE"
      BY <3>1 DEF Declares
    <3> QED
      BY <1>0, <2>1, <3>1, <3>2, DeclareEffect
  <2>3. AllTold'
    <3>1. \A c \in Conns : load'[c].at # "run"
      BY <1>7, <2>1 DEF Resting
    <3> QED
      BY <1>0, <3>1, ToldKept
  <2>4. Disciplined'
    BY <1>0, <2>1, DisciplineKept
  <2>5. Asked'
    <3>1. load'[Door].at # "run"
      BY <1>7, <2>1 DEF Resting
    <3> QED
      BY <3>1 DEF Asked
  <2> QED
    BY <1>0, <2>2, <2>3, <2>4, <2>5 DEF KInv
<1>8. ASSUME NEW t \in Tables, DropTable(t) PROVE KInv'
  BY <1>0, <1>8, Aside DEF DropTable
<1>9. ASSUME NEW k \in AspectKeys, Gloss(k) PROVE KInv'
  BY <1>0, <1>9, Aside DEF Gloss, store
<1>10. ASSUME Restart PROVE KInv'
  <2>1. UNCHANGED <<files, kits, declared>> /\ \A c \in Conns : load'[c].at = "idle"
    BY <1>10 DEF Restart, Idle, store
  <2>2. Disciplined'
    BY <1>0, <2>1, DisciplineKept
  <2>3. AllTold'
    BY <1>0, <2>1, ToldKept
  <2>4. Asked'
    BY <2>1 DEF Asked
  <2> QED
    BY <1>0, <2>1, <2>2, <2>3, <2>4, NothingDeclared DEF KInv
<1>11. ASSUME UNCHANGED vars PROVE KInv'
  BY <1>0, <1>11, Aside DEF vars
<1> QED
  BY <1>1, <1>2, <1>3, <1>4, <1>5, <1>6, <1>7, <1>8, <1>9, <1>10, <1>11 DEF MCNext

LEMMA KitsInit == ASSUME Door \in Conns PROVE MCInit => KInv
<1> SUFFICES ASSUME MCInit PROVE KInv
  OBVIOUS
<1>0. Init /\ \A c \in Conns : load[c].at = "idle"
  BY DEF MCInit, Init, Idle
<1>1. Typed
  BY <1>0, InitTyped
<1>2. Disciplined
  BY <1>0 DEF MCInit, Disciplined, Alone
<1>3. AllTold /\ Asked
  BY <1>0 DEF AllTold, Told, Asked
<1>4. RecordTells
  BY <1>0 DEF Init, RecordTells
<1> QED
  BY <1>1, <1>2, <1>3, <1>4 DEF KInv

\* "A kit that ran lands a kits row": as it landed, everything its text declares
\* stood as the text leaves it, where one connection loads over any files, any
\* texts and whatever hands do between its loads, or any number load one text that
\* declares no key twice; with statements refused, loads cut off and restarts.
THEOREM RecordsTell == ASSUME Door \in Conns PROVE MCSpec => []RecordTells
<1>1. KInv => RecordTells
  BY DEF KInv
<1> QED
  BY <1>1, KitsInit, KitsStep, PTL DEF MCSpec

\* "Run again with that text the kit stands": with one connection, no statement, end
\* or break of a load of the text its name was last recorded with writes anything.
THEOREM AgainIsQuiet == ASSUME Door \in Conns PROVE MCSpec => DoorAgainQuiet
<1> DEFINE Again(c) == /\ load[c].at = "run" /\ load'[c] # load[c]
                       /\ \E r \in NewestKit(KitName(load[c].location)) : r.hash = ScriptHash(load[c].text)
<1>1. ASSUME KInv, [MCNext]_<<vars, open>>, Alone, NEW c \in Conns, Again(c) PROVE UNCHANGED store
  <2>1. /\ Typed /\ Disciplined /\ c = Door /\ open = {Door} /\ load[c].stands
    BY <1>1 DEF KInv, Disciplined, Asked, Alone, Recorded
  <2>2. ASSUME NEW p \in Paths, ReadScript(c, p) PROVE FALSE
    BY <1>1, <2>2 DEF ReadScript
  <2>3. ASSUME AskStands(c) PROVE FALSE
    BY <1>1, <2>3 DEF AskStands
  <2>4. ASSUME Step(c) PROVE UNCHANGED store
    BY <2>1, <2>4 DEF Step, RunStatement, IsLoadLine, store
  <2>5. ASSUME Finish(c) PROVE UNCHANGED store
    BY <2>1, <2>5 DEF Finish, store
  <2>6. ASSUME Stop(c) PROVE UNCHANGED store
    BY <2>6 DEF Stop
  <2>7. ASSUME Restart PROVE UNCHANGED store
    BY <2>7 DEF Restart
  <2>8. \/ \E p \in Paths : ReadScript(c, p)
        \/ AskStands(c) \/ Step(c) \/ Finish(c) \/ Stop(c) \/ Restart
        \/ UNCHANGED load
    BY <1>1, <2>1 DEF MCNext, EditFile, DeclareByHand, DropTable, Gloss, vars
  <2> QED
    BY <1>1, <2>2, <2>3, <2>4, <2>5, <2>6, <2>7, <2>8
<1>2. KInv /\ [MCNext]_<<vars, open>> =>
        [Alone => \A c \in Conns : Again(c) => UNCHANGED store]_vars
  BY <1>1
<1> QED
  BY <1>2, KitsInit, KitsStep, PTL DEF MCSpec, DoorAgainQuiet

=============================================================================
