---------------------------- MODULE AbstractRead ----------------------------
(***************************************************************************)
(* What a reader is promised, with no cache in sight ("The read cache",    *)
(* glossql_store.cpp): every read it is served was computed over a store   *)
(* no older than the one it asked of and no newer than the one it is       *)
(* served in, the detectors' verdicts over no newer store than the rows.   *)
(* Rows come at any time and are removed between reads.                    *)
(***************************************************************************)
EXTENDS Integers

CONSTANTS
  Conns,      \* connections of the instance
  Relations   \* the store's relations

VARIABLES
  store,      \* the lake's snapshot and each relation's rows
  reading,    \* the connections whose read is under way
  floor,      \* per connection: the store as it last asked
  served      \* per connection: what its read was served

vars == <<store, reading, floor, served>>

\* s held no more than t does.
Within(s, t) == s.lake <= t.lake /\ \A r \in Relations : s.rows[r] \subseteq t.rows[r]

Init ==
  /\ reading = {}
  /\ served = [c \in Conns |-> {}]

\* Something is written, landed or deleted.
Write ==
  /\ reading = {} \/ Within(store, store')
  /\ UNCHANGED <<reading, floor, served>>

Ask(c) ==
  /\ c \notin reading
  /\ reading' = reading \cup {c}
  /\ floor' = [floor EXCEPT ![c] = store]
  /\ served' = [served EXCEPT ![c] = {}]
  /\ UNCHANGED store

\* One of the reads asked for is served; it may be the last.
Answer(c) ==
  /\ c \in reading
  /\ \E read \in served'[c] :
       /\ Within(floor[c], read.slots)
       /\ Within(read.slots, read.rows)
       /\ Within(read.rows, store)
       /\ served' = [served EXCEPT ![c] = @ \cup {read}]
  /\ reading' \in {reading, reading \ {c}}
  /\ UNCHANGED <<store, floor>>

\* A read that fails ends without its rows.
Fail(c) ==
  /\ c \in reading
  /\ reading' = reading \ {c}
  /\ UNCHANGED <<store, floor, served>>

Next == Write \/ \E c \in Conns : Ask(c) \/ Answer(c) \/ Fail(c)

Spec == Init /\ [][Next]_vars
=============================================================================
