----------------------------- MODULE ReadCache -----------------------------
(***************************************************************************)
(* The instance's read cache (glossql_store.cpp, "The read cache" and "A   *)
(* view kept"): rows of a read, kept under the store version they are      *)
(* said to be computed at, shared by every connection.                     *)
(*                                                                         *)
(* A glossql statement runs its queries one by one on a second connection, *)
(* and each query is a transaction of its own (glossql_runner.cpp, Inner). *)
(* So an action here is one query or one access to the object cache, and   *)
(* between two of them every other connection may step.                    *)
(*                                                                         *)
(* Data: a store is the lake's snapshot and the rows of each store         *)
(* relation; a row is its seq and its stamp, the two columns the version   *)
(* reads.  What a read computes is a function of the store it ran at, so a *)
(* read's rows are that store.  `asked` and the `base` of an entry are     *)
(* history variables: the code keeps the version alone.                    *)
(***************************************************************************)
EXTENDS StoreRows, Integers, FiniteSets

CONSTANTS
  Conns,      \* connections of the instance
  Reads,      \* the reads glossql_cached keeps, one per kind and dataset
  Judged,     \* the reads whose rows hold detectors' verdicts: collapsed, attest
  Views,      \* the dataset views glossql_kept_view keeps
  Relations,  \* the store's relations
  Glossary,   \* the one relation rows are deleted from
  MaxClock,   \* bound: statements that write the store
  MaxLake     \* bound: the lake's snapshots

ASSUME ConstantsAssumption ==
  /\ Judged \subseteq Reads
  /\ Reads \cap Views = {}
  /\ Glossary \in Relations
  /\ MaxClock \in Nat
  /\ MaxLake \in Nat

Keys == Reads \cup Views

ASSUME KeysAssumption == Keys # {}

VARIABLES
  store,    \* the store as committed: the lake's snapshot, each relation's rows
  clock,    \* the time of the latest transaction that stamped a row
  kept,     \* the object cache: at most one entry per key
  pc,       \* per connection: where its statement is
  writing,  \* per connection: the relation and the row its INSERT is to commit
  version,  \* per connection: the store version its bind compares entries to
  asked,    \* per connection: the store that version was read from (history)
  todo,     \* per connection: the keys its bind has still to serve
  fill,     \* per connection: the read it computes
  served    \* per connection: the reads its bind has served (history)

vars == <<store, clock, kept, pc, writing, version, asked, todo, fill, served>>

Rows    == [seq : Nat, stamp : Nat]
Stores  == [lake : Nat, rows : [Relations -> SUBSET Rows]]

TopStamp(rows) == MaxOf({r.stamp : r \in rows})

\* A version that leaves the stamp out: a delete and a write cancel.
StoreVersionNoStamp(s) ==
  [lake |-> s.lake,
   of   |-> [r \in Relations |-> [seq   |-> TopSeq(s.rows[r]),
                                  count |-> Cardinality(s.rows[r]),
                                  stamp |-> 0]]]

\* The store's version: the lake's snapshot and, per relation, the highest
\* seq, the row count and the newest stamp, read by one query.
StoreVersion(s) ==
  [lake |-> s.lake,
   of   |-> [r \in Relations |-> [seq   |-> TopSeq(s.rows[r]),
                                  count |-> Cardinality(s.rows[r]),
                                  stamp |-> TopStamp(s.rows[r])]]]

EmptyStore == [lake |-> 0, rows |-> [r \in Relations |-> {}]]
NoRow  == [rel |-> Glossary, row |-> [seq |-> 0, stamp |-> 0]]
ReadAt(s) == [slots |-> s, rows |-> s]
NoFill == [key |-> CHOOSE k \in Keys : TRUE, read |-> ReadAt(EmptyStore)]

Init ==
  /\ store = EmptyStore
  /\ clock = 0
  /\ kept = {}
  /\ pc = [c \in Conns |-> "idle"]
  /\ writing = [c \in Conns |-> NoRow]
  /\ version = [c \in Conns |-> StoreVersion(EmptyStore)]
  /\ asked = [c \in Conns |-> EmptyStore]
  /\ todo = [c \in Conns |-> {}]
  /\ fill = [c \in Conns |-> NoFill]
  /\ served = [c \in Conns |-> {}]

-----------------------------------------------------------------------------
(* Writes.                                                                 *)

\* An INSERT's transaction begins: now() is its start, and its snapshot of
\* the store gives the row its seq.
BeginWrite(c, rel) ==
  /\ pc[c] = "idle"
  /\ clock < MaxClock
  /\ clock' = clock + 1
  /\ writing' = [writing EXCEPT ![c] =
       [rel |-> rel,
        row |-> [seq |-> TopSeq(store.rows[rel]) + 1, stamp |-> clock + 1]]]
  /\ pc' = [pc EXCEPT ![c] = "writing"]
  /\ UNCHANGED <<store, kept, version, asked, todo, fill, served>>

\* It commits: no constraint on seq, so nothing refuses it.
CommitWrite(c) ==
  /\ pc[c] = "writing"
  /\ store' = [store EXCEPT !.rows[writing[c].rel] = @ \cup {writing[c].row}]
  /\ writing' = [writing EXCEPT ![c] = NoRow]
  /\ pc' = [pc EXCEPT ![c] = "idle"]
  /\ UNCHANGED <<clock, kept, version, asked, todo, fill, served>>

\* DELETE FROM glossary WHERE ...: one statement on the store's table.
Delete(c) ==
  /\ pc[c] = "idle"
  /\ \E D \in SUBSET store.rows[Glossary] :
       /\ D # {}
       /\ store' = [store EXCEPT !.rows[Glossary] = @ \ D]
  /\ UNCHANGED <<clock, kept, pc, writing, version, asked, todo, fill, served>>

\* Any commit to the lake: a landing, a definition, a caller's own DML.
LakeCommit(c) ==
  /\ pc[c] = "idle"
  /\ store.lake < MaxLake
  /\ store' = [store EXCEPT !.lake = @ + 1]
  /\ UNCHANGED <<clock, kept, pc, writing, version, asked, todo, fill, served>>

-----------------------------------------------------------------------------
(* Binds.                                                                  *)

\* A read names one key; a cells read binds views under one version.
BindKeys == {{k} : k \in Reads} \cup (SUBSET Views \ {{}})

\* The bind reads the store's version, once for every key it binds.
Bind(c, K) ==
  /\ pc[c] = "idle"
  /\ version' = [version EXCEPT ![c] = StoreVersion(store)]
  /\ asked' = [asked EXCEPT ![c] = store]
  /\ todo' = [todo EXCEPT ![c] = K]
  /\ served' = [served EXCEPT ![c] = {}]
  /\ pc' = [pc EXCEPT ![c] = "bound"]
  /\ UNCHANGED <<store, clock, kept, writing, fill>>

\* An entry served whatever version it was kept at.
KeptAtAny(c, k) == {e \in kept : e.key = k}

\* What the cache holds under a key at the bind's version.
KeptAt(c, k) == {e \in kept : e.key = k /\ e.version = version[c]}

\* The bind has its read of k; it ends when no key is left.
Serve(c, k, read) ==
  /\ served' = [served EXCEPT ![c] = @ \cup {read}]
  /\ todo' = [todo EXCEPT ![c] = @ \ {k}]
  /\ pc' = [pc EXCEPT ![c] = IF todo[c] = {k} THEN "idle" ELSE "bound"]

\* The entry kept at the bind's version is served.
Hit(c, k) ==
  /\ pc[c] = "bound"
  /\ k \in todo[c]
  /\ \E e \in KeptAt(c, k) : Serve(c, k, e.read)
  /\ UNCHANGED <<store, clock, kept, writing, version, asked, fill>>

\* No entry at that version: a judged read first lands its slots, which the
\* detectors judge, at the moment the TEMP TABLE is made...
LandSlots(c, k) ==
  /\ pc[c] = "bound"
  /\ k \in todo[c] \cap Judged
  /\ KeptAt(c, k) = {}
  /\ fill' = [fill EXCEPT ![c] = [key |-> k, read |-> ReadAt(store)]]
  /\ pc' = [pc EXCEPT ![c] = "judged"]
  /\ UNCHANGED <<store, clock, kept, writing, version, asked, todo, served>>

\* ... and then its rows, at the moment its query runs.
JudgedRows(c) ==
  /\ pc[c] = "judged"
  /\ fill' = [fill EXCEPT ![c].read.rows = store]
  /\ pc' = [pc EXCEPT ![c] = "filled"]
  /\ UNCHANGED <<store, clock, kept, writing, version, asked, todo, served>>

\* A raw read or a view is one query.
PlainRows(c, k) ==
  /\ pc[c] = "bound"
  /\ k \in todo[c] \ Judged
  /\ KeptAt(c, k) = {}
  /\ fill' = [fill EXCEPT ![c] = [key |-> k, read |-> ReadAt(store)]]
  /\ pc' = [pc EXCEPT ![c] = "filled"]
  /\ UNCHANGED <<store, clock, kept, writing, version, asked, todo, served>>

\* An entry labelled with the version at the time it is kept.
EntryLabelledLate(c) ==
  [key |-> fill[c].key, version |-> StoreVersion(store), base |-> store,
   read |-> fill[c].read]

\* The entry a fill keeps: labelled with the version the bind began with.
Entry(c) ==
  [key |-> fill[c].key, version |-> version[c], base |-> asked[c],
   read |-> fill[c].read]

\* A read kept beside what its key already held.
PutBeside(c) ==
  /\ pc[c] = "filled"
  /\ kept' = kept \cup {Entry(c)}
  /\ Serve(c, fill[c].key, fill[c].read)
  /\ fill' = [fill EXCEPT ![c] = NoFill]
  /\ UNCHANGED <<store, clock, writing, version, asked>>

\* The read computed is kept under the version read before it was computed,
\* replacing what its key held, and is served.
Put(c) ==
  /\ pc[c] = "filled"
  /\ kept' = {e \in kept : e.key # fill[c].key} \cup {Entry(c)}
  /\ Serve(c, fill[c].key, fill[c].read)
  /\ fill' = [fill EXCEPT ![c] = NoFill]
  /\ UNCHANGED <<store, clock, writing, version, asked>>

\* A body or a view that does not run ends the bind; nothing is kept.
FillFails(c) ==
  /\ pc[c] \in {"bound", "judged"}
  /\ todo' = [todo EXCEPT ![c] = {}]
  /\ fill' = [fill EXCEPT ![c] = NoFill]
  /\ pc' = [pc EXCEPT ![c] = "idle"]
  /\ UNCHANGED <<store, clock, kept, writing, version, asked, served>>

\* Memory pressure drops an entry.
Evict ==
  /\ \E e \in kept : kept' = kept \ {e}
  /\ UNCHANGED <<store, clock, pc, writing, version, asked, todo, fill, served>>

-----------------------------------------------------------------------------
\* Everything but the removal of rows.
Append ==
  \/ \E c \in Conns, rel \in Relations : BeginWrite(c, rel)
  \/ \E c \in Conns : CommitWrite(c)
  \/ \E c \in Conns : LakeCommit(c)
  \/ \E c \in Conns, K \in BindKeys : Bind(c, K)
  \/ \E c \in Conns, k \in Keys : Hit(c, k)
  \/ \E c \in Conns, k \in Keys : LandSlots(c, k)
  \/ \E c \in Conns : JudgedRows(c)
  \/ \E c \in Conns, k \in Keys : PlainRows(c, k)
  \/ \E c \in Conns : Put(c)
  \/ \E c \in Conns : FillFails(c)
  \/ Evict

Next == Append \/ \E c \in Conns : Delete(c)

Spec == Init /\ [][Next]_vars

\* The store while no gloss is deleted.
AppendSpec == Init /\ [][Append]_vars

-----------------------------------------------------------------------------
(* What the cache promises.                                                *)

Reading == [slots : Stores, rows : Stores]
Versions ==
  [lake : Nat, of : [Relations -> [seq : Nat, count : Nat, stamp : Nat]]]

\* Every variable holds what the code's does: the cache no key twice.
TypeOK ==
  /\ store \in Stores
  /\ clock \in Nat
  /\ \A e \in kept : /\ e.key \in Keys
                     /\ e.version \in Versions
                     /\ e.base \in Stores
                     /\ e.read \in Reading
  /\ \A d, e \in kept : d.key = e.key => d = e
  /\ pc \in [Conns -> {"idle", "writing", "bound", "judged", "filled"}]
  /\ writing \in [Conns -> [rel : Relations, row : Rows]]
  /\ version \in [Conns -> Versions]
  /\ asked \in [Conns -> Stores]
  /\ todo \in [Conns -> SUBSET Keys]
  /\ fill \in [Conns -> [key : Keys, read : Reading]]
  /\ served \in [Conns -> SUBSET Reading]

\* The version tells stores apart: an entry whose version is the store's own
\* was asked for when the store was what it is now, whatever was written and
\* deleted since ("A write raises the seq; a delete lowers the count").
VersionTells == \A e \in kept : e.version = StoreVersion(store) => e.base = store

\* What the next bind would be served without computing is what it would
\* compute: an entry at the store's version holds the store's rows, and its
\* verdicts were judged over those rows.
KeptCurrent ==
  \A e \in kept : e.version = StoreVersion(store) => e.read = ReadAt(store)

\* s held no more than t does.
Within(s, t) == s.lake <= t.lake /\ \A r \in Relations : s.rows[r] \subseteq t.rows[r]

\* A bind serves no row set older than the version it compared: whichever
\* connection computed the entry, everything committed before the bind read
\* the version is in the read, its verdicts included.
ServedNotOlder ==
  \A c \in Conns : \A read \in served[c] :
    Within(asked[c], read.slots) /\ Within(read.slots, read.rows)

\* With one connection a bind serves the store as it stood when it began, all
\* the views of one cells read together.
ServedAsked ==
  \A c \in Conns : \A read \in served[c] : read = ReadAt(asked[c])

\* The connections whose bind is under way.
UnderWay == {c \in Conns : pc[c] \in {"bound", "judged", "filled"}}

\* What any bind of any connection is served is what AbstractRead promises:
\* whoever computed and kept it, nothing committed before the bind is missing,
\* its verdicts are over no more than its rows, and nothing is served that the
\* store did not hold.
R == INSTANCE AbstractRead WITH reading <- UnderWay, floor <- asked
ReadsImplement == R!Spec

=============================================================================
