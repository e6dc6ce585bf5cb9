-------------------------- MODULE ReadCacheProofs --------------------------
(***************************************************************************)
(* What ReadCache promises, for every set of connections, reads, views and *)
(* relations and every bound.                                              *)
(***************************************************************************)
EXTENDS MCReadCache, StoreRowsProofs, TLAPS, FiniteSetTheorems

\* A finite set within one of the same size is that set.
LEMMA SameSize ==
  ASSUME NEW S, NEW T, S \subseteq T, IsFiniteSet(T), Cardinality(S) = Cardinality(T)
  PROVE  S = T
BY FS_Subset

-----------------------------------------------------------------------------
(* Types: every row's seq and stamp are at most the clock, since a write   *)
(* moves the clock by as much as it moves the seq.                         *)

Bounded(rows) ==
  /\ IsFiniteSet(rows)
  /\ \A r \in rows : r.seq <= clock /\ r.stamp <= clock

BoundedInv ==
  /\ \A rel \in Relations : Bounded(store.rows[rel])
  /\ \A c \in Conns : writing[c].row.seq <= clock /\ writing[c].row.stamp <= clock

TypeInv == TypeOK /\ BoundedInv

\* The tops of a bounded relation are numbers no greater than the clock.
LEMMA TopsBounded ==
  ASSUME TypeInv, NEW rel \in Relations
  PROVE  /\ TopSeq(store.rows[rel]) \in Nat
         /\ TopSeq(store.rows[rel]) <= clock
         /\ TopStamp(store.rows[rel]) \in Nat
<1>1. store.rows[rel] \in SUBSET Rows /\ clock \in Nat
  BY DEF TypeInv, TypeOK, Stores
<1>2. \A r \in store.rows[rel] : r.seq <= clock /\ r.stamp <= clock
  BY DEF TypeInv, BoundedInv, Bounded
<1> DEFINE Seqs == {r.seq : r \in store.rows[rel]}
           Stamps == {r.stamp : r \in store.rows[rel]}
<1>3. Seqs \in SUBSET Nat /\ Stamps \in SUBSET Nat
  BY <1>1 DEF Rows
<1>4. (\A m \in Seqs : m <= clock) /\ (\A m \in Stamps : m <= clock)
  BY <1>2
<1> HIDE DEF Seqs, Stamps
<1>5. MaxOf(Seqs) \in Nat /\ MaxOf(Seqs) <= clock /\ MaxOf(Stamps) \in Nat
  BY <1>1, <1>3, <1>4, MaxOfBounded
<1> QED
  BY <1>5 DEF TopSeq, TopStamp, Seqs, Stamps

\* The version of the store is a version.
LEMMA StoreVersionType ==
  ASSUME TypeInv
  PROVE  StoreVersion(store) \in Versions
<1>1. store.lake \in Nat
  BY DEF TypeInv, TypeOK, Stores
<1>2. ASSUME NEW rel \in Relations
      PROVE  [seq |-> TopSeq(store.rows[rel]), count |-> Cardinality(store.rows[rel]),
              stamp |-> TopStamp(store.rows[rel])]
               \in [seq : Nat, count : Nat, stamp : Nat]
  BY TopsBounded, FS_CardinalityType DEF TypeInv, BoundedInv, Bounded
<1> QED
  BY <1>1, <1>2 DEF StoreVersion, Versions

\* The store a workspace starts with is a store.
LEMMA EmptyStoreType == EmptyStore \in Stores
BY DEF EmptyStore, Stores

\* The start has every variable in its type and every relation bounded.
LEMMA InitType == Init => TypeInv
<1> SUFFICES ASSUME Init PROVE TypeInv
  OBVIOUS
<1> USE ConstantsAssumption
<1>1. NoRow \in [rel : Relations, row : Rows]
  BY DEF NoRow, Rows
<1>2. \A rel \in Relations : Bounded(store.rows[rel])
  BY FS_EmptySet DEF Init, EmptyStore, Bounded
<1>3. \A c \in Conns : writing[c].row.seq <= clock /\ writing[c].row.stamp <= clock
  BY DEF Init, NoRow
<1>4. StoreVersion(EmptyStore) \in Versions
  <2>1. \A rel \in Relations : TopSeq({}) = 0 /\ TopStamp({}) = 0 /\ Cardinality({}) = 0
    <3>1. {r.seq : r \in {}} = {} /\ {r.stamp : r \in {}} = {}
      OBVIOUS
    <3> QED
      BY <3>1, FS_EmptySet DEF TopSeq, TopStamp, MaxOf
  <2> QED
    BY <2>1 DEF StoreVersion, EmptyStore, Versions
<1>5. ReadAt(EmptyStore) \in Reading
  BY EmptyStoreType DEF ReadAt, Reading
<1>6. Keys # {} => NoFill \in [key : Keys, read : Reading]
  BY <1>5 DEF NoFill
<1>7. kept = {} /\ clock \in Nat
  BY DEF Init
<1> QED
  BY <1>1, <1>2, <1>3, <1>4, <1>6, <1>7, EmptyStoreType, KeysAssumption
  DEF TypeInv, BoundedInv, TypeOK, Init

\* A step of any connection keeps the types and the bounds.
LEMMA TypeStep == TypeInv /\ [Next]_vars => TypeInv'
<1> SUFFICES ASSUME TypeInv, [Next]_vars PROVE TypeInv'
  OBVIOUS
<1> USE ConstantsAssumption
<1> USE DEF TypeInv, TypeOK
<1>0. \A c \in Conns : fill[c].key \in Keys /\ fill[c].read \in Reading
  OBVIOUS
<1>r. ReadAt(store) \in Reading /\ ReadAt(EmptyStore) \in Reading
  BY EmptyStoreType DEF ReadAt, Reading
<1>n. NoFill \in [key : Keys, read : Reading]
  BY <1>r, KeysAssumption DEF NoFill
<1>1. ASSUME NEW c \in Conns, NEW rel \in Relations, BeginWrite(c, rel) PROVE TypeInv'
  <2>1. [rel |-> rel, row |-> [seq |-> TopSeq(store.rows[rel]) + 1, stamp |-> clock + 1]]
          \in [rel : Relations, row : Rows]
    BY TopsBounded DEF Rows
  <2>2. TypeOK'
    BY <1>1, <2>1 DEF BeginWrite
  <2>3. BoundedInv'
    BY <1>1, TopsBounded DEF BeginWrite, BoundedInv, Bounded, Stores, Rows
  <2> QED
    BY <2>2, <2>3
<1>2. ASSUME NEW c \in Conns, CommitWrite(c) PROVE TypeInv'
  <2>1. writing[c].row \in Rows /\ writing[c].rel \in Relations
    OBVIOUS
  <2>2. /\ store' \in Stores
        /\ \A rel \in Relations : \/ store'.rows[rel] = store.rows[rel]
                                  \/ store'.rows[rel] = store.rows[rel] \cup {writing[c].row}
    BY <1>2, <2>1 DEF CommitWrite, Stores
  <2>3. NoRow \in [rel : Relations, row : Rows]
    BY DEF NoRow, Rows
  <2>4. TypeOK'
    BY <1>2, <2>2, <2>3 DEF CommitWrite
  <2>5. \A rel \in Relations : Bounded(store.rows[rel] \cup {writing[c].row})
    BY FS_AddElement DEF BoundedInv, Bounded
  <2>6. \A rel \in Relations : Bounded(store.rows[rel])'
    BY <1>2, <2>2, <2>5 DEF CommitWrite, BoundedInv, Bounded
  <2>7. ASSUME NEW d \in Conns
        PROVE  writing'[d].row.seq <= clock' /\ writing'[d].row.stamp <= clock'
    <3>1. writing'[d] = writing[d] \/ writing'[d] = NoRow
      BY <1>2 DEF CommitWrite
    <3>2. clock' = clock /\ clock \in Nat
      BY <1>2 DEF CommitWrite
    <3> QED
      BY <3>1, <3>2 DEF NoRow, BoundedInv
  <2>8. BoundedInv'
    BY <2>6, <2>7 DEF BoundedInv
  <2> QED
    BY <2>4, <2>8
<1>3. ASSUME NEW c \in Conns, LakeCommit(c) PROVE TypeInv'
  <2>1. store' \in Stores /\ store'.rows = store.rows
    <3>1. store.lake + 1 \in Nat
      BY DEF Stores
    <3>2. store' = [lake |-> store.lake + 1, rows |-> store.rows]
      BY <1>3 DEF LakeCommit, Stores
    <3> QED
      BY <3>1, <3>2 DEF Stores
  <2>2. TypeOK'
    BY <1>3, <2>1 DEF LakeCommit
  <2>3. BoundedInv'
    BY <1>3, <2>1 DEF LakeCommit, BoundedInv, Bounded
  <2> QED
    BY <2>2, <2>3
<1>4. ASSUME NEW c \in Conns, NEW K \in BindKeys, Bind(c, K) PROVE TypeInv'
  <2>1. K \subseteq Keys
    BY DEF BindKeys, Keys
  <2>2. TypeOK'
    BY <1>4, <2>1, StoreVersionType DEF Bind
  <2>3. BoundedInv'
    BY <1>4 DEF Bind, BoundedInv, Bounded
  <2> QED
    BY <2>2, <2>3
<1>5. ASSUME NEW c \in Conns, NEW k \in Keys, Hit(c, k) PROVE TypeInv'
  <2>1. PICK e \in KeptAt(c, k) : Serve(c, k, e.read)
    BY <1>5 DEF Hit
  <2>2. e.read \in Reading
    BY DEF KeptAt
  <2>3. TypeOK'
    BY <1>5, <2>1, <2>2 DEF Hit, Serve
  <2>4. BoundedInv'
    BY <1>5 DEF Hit, BoundedInv, Bounded
  <2> QED
    BY <2>3, <2>4
<1>6. ASSUME NEW c \in Conns, NEW k \in Keys, LandSlots(c, k) \/ PlainRows(c, k) PROVE TypeInv'
  <2>1. /\ fill' = [fill EXCEPT ![c] = [key |-> k, read |-> ReadAt(store)]]
        /\ pc' = [pc EXCEPT ![c] = "judged"] \/ pc' = [pc EXCEPT ![c] = "filled"]
        /\ UNCHANGED <<store, clock, kept, writing, version, asked, todo, served>>
    BY <1>6 DEF LandSlots, PlainRows
  <2>2. fill' \in [Conns -> [key : Keys, read : Reading]]
    BY <2>1, <1>r
  <2>3. pc' \in [Conns -> {"idle", "writing", "bound", "judged", "filled"}]
    BY <2>1
  <2>4. TypeOK'
    BY <2>1, <2>2, <2>3
  <2>5. BoundedInv'
    BY <2>1 DEF BoundedInv, Bounded
  <2> QED
    BY <2>4, <2>5
<1>7. ASSUME NEW c \in Conns, JudgedRows(c) PROVE TypeInv'
  <2>0. store \in Stores
    OBVIOUS
  <2>1. \A r \in Reading : [r EXCEPT !.rows = store] \in Reading
    <3> HIDE DEF TypeInv, TypeOK
    <3> QED
      BY <2>0 DEF Reading
  <2>3. fill' \in [Conns -> [key : Keys, read : Reading]]
    BY <1>7, <2>1 DEF JudgedRows
  <2>4. pc' \in [Conns -> {"idle", "writing", "bound", "judged", "filled"}]
    BY <1>7 DEF JudgedRows
  <2>5. TypeOK'
    BY <1>7, <2>3, <2>4 DEF JudgedRows
  <2>2. BoundedInv'
    BY <1>7 DEF JudgedRows, BoundedInv, Bounded
  <2> QED
    BY <2>5, <2>2
<1>8. ASSUME NEW c \in Conns, Put(c) PROVE TypeInv'
  <2>1. /\ Entry(c).key \in Keys
        /\ Entry(c).version \in Versions
        /\ Entry(c).base \in Stores
        /\ Entry(c).read \in Reading
        /\ Entry(c).key = fill[c].key
    BY <1>0 DEF Entry
  <2>2. \A e \in kept' : e = Entry(c) \/ (e \in kept /\ e.key # fill[c].key)
    BY <1>8 DEF Put
  <2>3. /\ \A e \in kept' : /\ e.key \in Keys
                           /\ e.version \in Versions
                           /\ e.base \in Stores
                           /\ e.read \in Reading
        /\ \A d, e \in kept' : d.key = e.key => d = e
    BY <2>1, <2>2
  <2>4. TypeOK'
    BY <1>8, <1>0, <1>n, <2>3 DEF Put, Serve
  <2>5. BoundedInv'
    BY <1>8 DEF Put, BoundedInv, Bounded
  <2> QED
    BY <2>4, <2>5
<1>9. ASSUME NEW c \in Conns, FillFails(c) PROVE TypeInv'
  BY <1>9, <1>n DEF FillFails, BoundedInv, Bounded
<1>10. ASSUME Evict PROVE TypeInv'
  BY <1>10 DEF Evict, BoundedInv, Bounded
<1>11. ASSUME NEW c \in Conns, Delete(c) PROVE TypeInv'
  <2>0. PICK D \in SUBSET store.rows[Glossary] :
          store' = [store EXCEPT !.rows[Glossary] = @ \ D]
    BY <1>11 DEF Delete
  <2>a. store \in Stores
    OBVIOUS
  <2>1. /\ store' \in Stores
        /\ \A rel \in Relations : store'.rows[rel] \subseteq store.rows[rel]
    <3> HIDE DEF TypeInv, TypeOK
    <3> QED
      BY <2>0, <2>a DEF Stores
  <2>2. TypeOK'
    BY <1>11, <2>1 DEF Delete
  <2>3. BoundedInv'
    BY <1>11, <2>1, FS_Subset DEF Delete, BoundedInv, Bounded
  <2> QED
    BY <2>2, <2>3
<1>12. ASSUME UNCHANGED vars PROVE TypeInv'
  BY <1>12 DEF vars, BoundedInv, Bounded
<1> QED
  BY <1>1, <1>2, <1>3, <1>4, <1>5, <1>6, <1>7, <1>8, <1>9, <1>10, <1>11, <1>12
  DEF Next, Append

\* Every state holds what the code's would: the cache no key twice, each row's
\* seq and stamp in the relation's, whatever is written, deleted and evicted.
THEOREM TypeCorrect == Spec => []TypeOK
<1>1. TypeInv => TypeOK
  BY DEF TypeInv
<1> QED
  BY <1>1, InitType, TypeStep, PTL DEF Spec

-----------------------------------------------------------------------------
(* While no gloss is deleted, any number of connections.  The store only   *)
(* grows, so every store a bind asked for, every base and everything a fill *)
(* read lies within the store, and of two bases one lies within the other. *)
(* A store within another of the same counts is that store.                *)

Ordered(s, t) == Within(s, t) \/ Within(t, s)

\* Base, slots, rows and the store, in the order they were read.
Chain(base, read) ==
  Within(base, read.slots) /\ Within(read.slots, read.rows) /\ Within(read.rows, store)

AppendInv ==
  /\ \A c \in Conns : Within(asked[c], store) /\ version[c] = StoreVersion(asked[c])
  /\ \A c \in Conns : pc[c] \in {"judged", "filled"} => Chain(asked[c], fill[c].read)
  /\ \A e \in kept : Chain(e.base, e.read) /\ e.version = StoreVersion(e.base)
  /\ \A c, d \in Conns : Ordered(asked[c], asked[d])
  /\ \A c \in Conns : \A e \in kept : Ordered(asked[c], e.base)
  /\ ServedNotOlder

\* A store holds what it holds ...
LEMMA WithinSelf == ASSUME NEW s \in Stores PROVE Within(s, s)
BY DEF Within, Stores

\* ... what a store within it holds ...
LEMMA WithinTransitive ==
  ASSUME NEW s \in Stores, NEW t \in Stores, NEW u \in Stores, Within(s, t), Within(t, u)
  PROVE  Within(s, u)
BY DEF Within, Stores

\* ... and two stores within each other are one.
LEMMA WithinBoth ==
  ASSUME NEW s \in Stores, NEW t \in Stores, Within(s, t), Within(t, s)
  PROVE  s = t
<1>1. s.lake = t.lake
  BY DEF Within, Stores
<1>2. s.rows = t.rows
  BY DEF Within, Stores
<1> QED
  BY <1>1, <1>2 DEF Stores

\* Two past stores of one version, the later one finite, are one store.
LEMMA SameVersionWithin ==
  ASSUME NEW s \in Stores, NEW t \in Stores, Within(s, t),
         \A rel \in Relations : IsFiniteSet(t.rows[rel]),
         StoreVersion(s) = StoreVersion(t)
  PROVE  s = t
<1>1. s.lake = t.lake
  BY DEF StoreVersion
<1>2. ASSUME NEW rel \in Relations PROVE s.rows[rel] = t.rows[rel]
  <2>1. Cardinality(s.rows[rel]) = Cardinality(t.rows[rel])
    <3>1. StoreVersion(s).of[rel].count = StoreVersion(t).of[rel].count
      OBVIOUS
    <3> QED
      BY <3>1 DEF StoreVersion
  <2> QED
    BY <2>1, SameSize DEF Within
<1>3. s.rows = t.rows
  BY <1>2 DEF Stores
<1> QED
  BY <1>1, <1>3 DEF Stores

\* Without deletes the store only grows.
LEMMA StoreGrows == TypeInv /\ [Append]_vars => Within(store, store')
<1> SUFFICES ASSUME TypeInv, [Append]_vars PROVE Within(store, store')
  OBVIOUS
<1>0. store \in Stores
  BY DEF TypeInv, TypeOK
<1>1. ASSUME NEW c \in Conns, CommitWrite(c) PROVE Within(store, store')
  BY <1>0, <1>1 DEF CommitWrite, Within, Stores
<1>2. ASSUME NEW c \in Conns, LakeCommit(c) PROVE Within(store, store')
  <2>1. store.lake \in Nat
    BY <1>0 DEF Stores
  <2>2. store' = [lake |-> store.lake + 1, rows |-> store.rows]
    BY <1>0, <1>2 DEF LakeCommit, Stores
  <2> QED
    BY <2>1, <2>2 DEF Within
<1>3. CASE store' = store
  BY <1>0, <1>3, WithinSelf
<1> QED
  BY <1>1, <1>2, <1>3
  DEF Append, BeginWrite, Bind, Hit, LandSlots, JudgedRows, PlainRows, Put, FillFails,
      Evict, vars

\* Two ordered past stores of one version are one store.
LEMMA SameVersionOrdered ==
  ASSUME TypeInv, NEW s \in Stores, NEW t \in Stores,
         Within(s, store), Within(t, store), Ordered(s, t),
         StoreVersion(s) = StoreVersion(t)
  PROVE  s = t
<1>1. \A rel \in Relations : IsFiniteSet(s.rows[rel]) /\ IsFiniteSet(t.rows[rel])
  BY FS_Subset DEF TypeInv, BoundedInv, Bounded, Within
<1>2. CASE Within(s, t)
  BY <1>1, <1>2, SameVersionWithin
<1>3. CASE Within(t, s)
  BY <1>1, <1>3, SameVersionWithin
<1> QED
  BY <1>2, <1>3 DEF Ordered

\* AppendInv holds of the empty cache.
LEMMA AppendInit == Init => AppendInv
<1> SUFFICES ASSUME Init PROVE AppendInv
  OBVIOUS
<1>1. Within(EmptyStore, EmptyStore)
  BY EmptyStoreType, WithinSelf
<1> QED
  BY <1>1 DEF Init, AppendInv, Ordered, ServedNotOlder

\* AppendInv is kept by every step that deletes no row: what a fill reads, it
\* reads later than the version its entry is kept under.
LEMMA AppendStep == TypeInv /\ TypeInv' /\ AppendInv /\ [Append]_vars => AppendInv'
<1> SUFFICES ASSUME TypeInv, TypeInv', AppendInv, [Append]_vars PROVE AppendInv'
  OBVIOUS
<1> DEFINE Read(c) == fill[c].read
<1>0. Within(store, store') /\ store \in Stores /\ store' \in Stores
  BY StoreGrows DEF TypeInv, TypeOK
<1>t. /\ \A c \in Conns : asked[c] \in Stores /\ fill[c].read \in Reading
      /\ \A e \in kept : e.base \in Stores /\ e.read \in Reading
  BY DEF TypeInv, TypeOK
<1>s. ASSUME NEW s \in Stores, Within(s, store) PROVE Within(s, store')
  BY <1>0, <1>s, WithinTransitive
<1>c. ASSUME NEW base, NEW read \in Reading, Chain(base, read) PROVE Chain(base, read)'
  BY <1>0, <1>c, WithinTransitive DEF Chain, Reading
\* Steps that bind nothing and keep nothing new.
<1>1. ASSUME UNCHANGED <<version, asked, fill, served>>, kept' \subseteq kept,
             \A c \in Conns : pc'[c] \in {"judged", "filled"} => pc[c] \in {"judged", "filled"}
      PROVE  AppendInv'
  BY <1>1, <1>t, <1>s, <1>c DEF AppendInv, ServedNotOlder
<1>2. ASSUME NEW c \in Conns, NEW K \in BindKeys, Bind(c, K) PROVE AppendInv'
  <2>1. /\ asked' = [asked EXCEPT ![c] = store]
        /\ version' = [version EXCEPT ![c] = StoreVersion(store)]
        /\ served' = [served EXCEPT ![c] = {}]
        /\ pc' = [pc EXCEPT ![c] = "bound"]
        /\ UNCHANGED <<store, kept, fill>>
    BY <1>2 DEF Bind
  <2>2. /\ asked'[c] = store /\ version'[c] = StoreVersion(store) /\ served'[c] = {}
        /\ pc'[c] = "bound"
        /\ \A d \in Conns : d # c => /\ asked'[d] = asked[d] /\ version'[d] = version[d]
                                     /\ served'[d] = served[d] /\ pc'[d] = pc[d]
    BY <2>1 DEF TypeInv, TypeOK
  <2>3. Within(store, store)
    BY <1>0, WithinSelf
  <2>4. \A d \in Conns : Within(asked'[d], store') /\ version'[d] = StoreVersion(asked'[d])
    BY <2>1, <2>2, <2>3 DEF AppendInv
  <2>5. \A d \in Conns : pc'[d] \in {"judged", "filled"} => Chain(asked[d], fill[d].read)'
    BY <2>1, <2>2, <1>c, <1>t DEF AppendInv
  <2>6. \A e \in kept' : Chain(e.base, e.read)' /\ e.version = StoreVersion(e.base)
    BY <2>1, <1>c, <1>t DEF AppendInv
  <2>7. \A d, e \in Conns : Ordered(asked'[d], asked'[e])
    BY <2>1, <2>2, <2>3 DEF AppendInv, Ordered
  <2>8. \A d \in Conns : \A e \in kept' : Ordered(asked'[d], e.base)
    <3>1. \A e \in kept : Within(e.base, store)
      BY <1>0, <1>t, WithinTransitive DEF AppendInv, Chain, Reading
    <3> QED
      BY <2>1, <2>2, <3>1 DEF AppendInv, Ordered
  <2>9. ServedNotOlder'
    BY <2>2 DEF AppendInv, ServedNotOlder
  <2> QED
    BY <2>4, <2>5, <2>6, <2>7, <2>8, <2>9 DEF AppendInv
<1>3. ASSUME NEW c \in Conns, NEW k \in Keys, Hit(c, k) PROVE AppendInv'
  <2>1. PICK e \in KeptAt(c, k) : Serve(c, k, e.read)
    BY <1>3 DEF Hit
  <2>2. UNCHANGED <<store, kept, version, asked, fill>>
    BY <1>3 DEF Hit
  <2>3. e \in kept /\ e.version = version[c]
    BY DEF KeptAt
  <2>4. Within(e.base, store)
    BY <1>0, <1>t, <2>3, WithinTransitive DEF AppendInv, Chain, Reading
  <2>5. e.base = asked[c]
    BY <1>t, <2>3, <2>4, SameVersionOrdered DEF AppendInv, Ordered
  <2>6. Within(asked[c], e.read.slots) /\ Within(e.read.slots, e.read.rows)
    BY <2>3, <2>5 DEF AppendInv, Chain
  <2>7. \A d \in Conns : \A read \in served'[d] :
          read \in served[d] \/ (d = c /\ read = e.read)
    BY <2>1 DEF Serve, TypeInv, TypeOK
  <2>8. ServedNotOlder'
    BY <2>2, <2>6, <2>7 DEF AppendInv, ServedNotOlder
  <2>9. \A d \in Conns : pc'[d] \in {"judged", "filled"} => pc'[d] = pc[d]
    BY <2>1 DEF Serve, TypeInv, TypeOK
  <2> QED
    BY <2>2, <2>8, <2>9 DEF AppendInv, Chain
<1>4. ASSUME NEW c \in Conns, NEW k \in Keys, LandSlots(c, k) \/ PlainRows(c, k)
      PROVE  AppendInv'
  <2>1. UNCHANGED <<store, kept, version, asked, served>>
    BY <1>4 DEF LandSlots, PlainRows
  <2>2. fill'[c].read = ReadAt(store)
    BY <1>4 DEF LandSlots, PlainRows, TypeInv, TypeOK
  <2>3. \A d \in Conns : d # c => fill'[d] = fill[d] /\ pc'[d] = pc[d]
    BY <1>4 DEF LandSlots, PlainRows, TypeInv, TypeOK
  <2>4. Chain(asked[c], ReadAt(store))
    BY <1>0, WithinSelf DEF AppendInv, Chain, ReadAt
  <2>5. \A d \in Conns : pc'[d] \in {"judged", "filled"} => Chain(asked[d], fill[d].read)'
    BY <2>1, <2>2, <2>3, <2>4 DEF AppendInv, Chain
  <2> QED
    BY <2>1, <2>5 DEF AppendInv, ServedNotOlder, Chain
<1>5. ASSUME NEW c \in Conns, JudgedRows(c) PROVE AppendInv'
  <2>1. UNCHANGED <<store, kept, version, asked, served>>
    BY <1>5 DEF JudgedRows
  <2>2. /\ fill'[c].read.slots = fill[c].read.slots
        /\ fill'[c].read.rows = store
        /\ pc[c] = "judged"
    BY <1>5, <1>t DEF JudgedRows, TypeInv, TypeOK, Reading
  <2>3. \A d \in Conns : d # c => fill'[d] = fill[d] /\ pc'[d] = pc[d]
    BY <1>5 DEF JudgedRows, TypeInv, TypeOK
  <2>4. Within(fill[c].read.slots, store) /\ Within(store, store)
    BY <1>0, <1>t, <2>2, WithinSelf, WithinTransitive DEF AppendInv, Chain, Reading
  <2>5. Chain(asked[c], fill[c].read)'
    BY <2>1, <2>2, <2>4 DEF AppendInv, Chain
  <2>6. \A d \in Conns : pc'[d] \in {"judged", "filled"} => Chain(asked[d], fill[d].read)'
    BY <2>1, <2>3, <2>5 DEF AppendInv, Chain
  <2> QED
    BY <2>1, <2>6 DEF AppendInv, ServedNotOlder, Chain
<1>6. ASSUME NEW c \in Conns, Put(c) PROVE AppendInv'
  <2>1. UNCHANGED <<store, version, asked>>
    BY <1>6 DEF Put
  <2>2. Chain(asked[c], fill[c].read)
    BY <1>6 DEF Put, AppendInv
  <2>3. \A e \in kept' :
          \/ e \in kept
          \/ e.version = version[c] /\ e.base = asked[c] /\ e.read = fill[c].read
    BY <1>6 DEF Put, Entry
  <2>4. \A e \in kept' : Chain(e.base, e.read)' /\ e.version = StoreVersion(e.base)
    BY <2>1, <2>2, <2>3 DEF AppendInv, Chain
  <2>5. \A d \in Conns : \A e \in kept' : Ordered(asked'[d], e.base)
    BY <2>1, <2>3 DEF AppendInv
  <2>6. \A d \in Conns : \A read \in served'[d] :
          read \in served[d] \/ (d = c /\ read = fill[c].read)
    BY <1>6 DEF Put, Serve, TypeInv, TypeOK
  <2>7. ServedNotOlder'
    BY <2>1, <2>2, <2>6 DEF AppendInv, ServedNotOlder, Chain
  <2>8. \A d \in Conns : pc'[d] \in {"judged", "filled"} => pc'[d] = pc[d] /\ fill'[d] = fill[d]
    BY <1>6 DEF Put, Serve, TypeInv, TypeOK
  <2> QED
    BY <2>1, <2>4, <2>5, <2>7, <2>8 DEF AppendInv, Chain
<1>7. ASSUME NEW c \in Conns, FillFails(c) PROVE AppendInv'
  <2>1. UNCHANGED <<store, kept, version, asked, served>>
    BY <1>7 DEF FillFails
  <2>2. \A d \in Conns : pc'[d] \in {"judged", "filled"} => pc'[d] = pc[d] /\ fill'[d] = fill[d]
    BY <1>7 DEF FillFails, TypeInv, TypeOK
  <2> QED
    BY <2>1, <2>2 DEF AppendInv, ServedNotOlder, Chain
<1>8. ASSUME NEW c \in Conns, NEW rel \in Relations,
             BeginWrite(c, rel) \/ CommitWrite(c) \/ LakeCommit(c)
      PROVE  AppendInv'
  <2>1. UNCHANGED <<version, asked, fill, served, kept>>
    BY <1>8 DEF BeginWrite, CommitWrite, LakeCommit
  <2>2. \A d \in Conns : pc'[d] \in {"judged", "filled"} => pc[d] \in {"judged", "filled"}
    BY <1>8 DEF BeginWrite, CommitWrite, LakeCommit, TypeInv, TypeOK
  <2> QED
    BY <1>1, <2>1, <2>2
<1>9. CASE Evict \/ UNCHANGED vars
  BY <1>1, <1>9 DEF Evict, vars
<1> QED
  BY <1>2, <1>3, <1>4, <1>5, <1>6, <1>7, <1>8, <1>9, ConstantsAssumption DEF Append

\* AppendInv says an entry at the store's version holds the store.
LEMMA AppendImplies == TypeInv /\ AppendInv => VersionTells /\ KeptCurrent
<1> SUFFICES ASSUME TypeInv, AppendInv, NEW e \in kept, e.version = StoreVersion(store)
             PROVE  e.base = store /\ e.read = ReadAt(store)
  BY DEF VersionTells, KeptCurrent
<1>1. /\ store \in Stores /\ e.base \in Stores /\ e.read \in Reading
      /\ e.read.slots \in Stores /\ e.read.rows \in Stores
  BY DEF TypeInv, TypeOK, Reading
<1>2. Chain(e.base, e.read) /\ StoreVersion(e.base) = StoreVersion(store)
  BY DEF AppendInv
<1>3. Within(e.base, store) /\ Within(store, store)
  BY <1>1, <1>2, WithinSelf, WithinTransitive DEF Chain
<1>4. e.base = store
  BY <1>1, <1>2, <1>3, SameVersionOrdered DEF Ordered
<1>5. /\ Within(store, e.read.slots) /\ Within(e.read.slots, store)
      /\ Within(store, e.read.rows) /\ Within(e.read.rows, store)
  BY <1>1, <1>2, <1>4, WithinTransitive DEF Chain
<1>6. e.read.slots = store /\ e.read.rows = store
  BY <1>1, <1>5, WithinBoth
<1> QED
  BY <1>1, <1>4, <1>6 DEF ReadAt, Reading

\* Any number of connections reading, writing and landing at once: while no
\* gloss is deleted, an entry at the store's version holds the store's rows
\* and the verdicts over them.
THEOREM AppendKeepsCurrent == AppendSpec => [](VersionTells /\ KeptCurrent)
<1>1. TypeInv /\ [Append]_vars => TypeInv'
  BY TypeStep DEF Next
<1> QED
  BY <1>1, InitType, AppendInit, AppendStep, AppendImplies, PTL DEF AppendSpec

\* ... and a bind is never served less than the store held when it read its
\* version, whoever computed the read.
THEOREM AppendServesNotOlder == AppendSpec => []ServedNotOlder
<1>1. TypeInv /\ [Append]_vars => TypeInv'
  BY TypeStep DEF Next
<1>2. AppendInv => ServedNotOlder
  BY DEF AppendInv
<1> QED
  BY <1>1, <1>2, InitType, AppendInit, AppendStep, PTL DEF AppendSpec

-----------------------------------------------------------------------------
(* One connection, which deletes as well, while no other does anything.    *)
(* Its statements do not overlap, so a fill reads the store its bind asked *)
(* for; and a row the store holds beyond an entry's base was stamped after *)
(* every row of that base, so when no more rows are counted the newest     *)
(* stamp tells the two apart.                                              *)

\* A step of connection c, or of nobody.
Statement(c) ==
  \/ \E rel \in Relations : BeginWrite(c, rel)
  \/ CommitWrite(c) \/ LakeCommit(c) \/ Delete(c)
  \/ \E K \in BindKeys : Bind(c, K)
  \/ \E k \in Keys : Hit(c, k) \/ LandSlots(c, k) \/ PlainRows(c, k)
  \/ JudgedRows(c) \/ Put(c) \/ FillFails(c)
  \/ Evict
  \/ UNCHANGED vars

\* No other connection has asked for anything.
OthersIdle(c) == \A d \in Conns \ {c} : pc[d] = "idle" /\ served[d] = {}

\* With one connection every step is its statement's.
LEMMA OnlyStatements ==
  ASSUME NEW c, Conns = {c}, [Next]_vars
  PROVE  Statement(c)
BY DEF Next, Append, Statement

\* A statement of c leaves the others idle.
LEMMA OthersStayIdle ==
  ASSUME NEW c \in Conns, TypeInv, OthersIdle(c), Statement(c)
  PROVE  OthersIdle(c)'
<1> SUFFICES ASSUME NEW d \in Conns \ {c} PROVE pc'[d] = pc[d] /\ served'[d] = served[d]
  BY DEF OthersIdle
<1>0. /\ pc \in [Conns -> {"idle", "writing", "bound", "judged", "filled"}]
      /\ served \in [Conns -> SUBSET Reading]
  BY DEF TypeInv, TypeOK
<1>1. CASE \E rel \in Relations : BeginWrite(c, rel)
  BY <1>0, <1>1 DEF BeginWrite
<1>2. CASE CommitWrite(c) \/ LakeCommit(c) \/ Delete(c)
  BY <1>0, <1>2 DEF CommitWrite, LakeCommit, Delete
<1>3. CASE \E K \in BindKeys : Bind(c, K)
  BY <1>0, <1>3 DEF Bind
<1>4. CASE \E k \in Keys : Hit(c, k)
  BY <1>0, <1>4 DEF Hit, Serve
<1>5. CASE \E k \in Keys : LandSlots(c, k) \/ PlainRows(c, k)
  BY <1>0, <1>5 DEF LandSlots, PlainRows
<1>6. CASE JudgedRows(c) \/ FillFails(c)
  BY <1>0, <1>6 DEF JudgedRows, FillFails
<1>7. CASE Put(c)
  BY <1>0, <1>7 DEF Put, Serve
<1>8. CASE Evict \/ UNCHANGED vars
  BY <1>8 DEF Evict, vars
<1> QED
  BY <1>1, <1>2, <1>3, <1>4, <1>5, <1>6, <1>7, <1>8 DEF Statement

\* b was the store when the one connection last stood between statements.
Past(b) ==
  /\ \A rel \in Relations : Bounded(b.rows[rel])
  /\ \A rel \in Relations : \A new \in store.rows[rel] \ b.rows[rel], old \in b.rows[rel] :
       old.stamp < new.stamp
  /\ \A c \in Conns : pc[c] = "writing" =>
       \A rel \in Relations : \A old \in b.rows[rel] : old.stamp < writing[c].row.stamp

DoorInv ==
  /\ \A c \in Conns : version[c] = StoreVersion(asked[c])
  /\ \A c \in Conns : pc[c] \in {"bound", "judged", "filled"} => asked[c] = store
  /\ \A c \in Conns : pc[c] \in {"judged", "filled"} => fill[c].read = ReadAt(asked[c])
  /\ \A e \in kept : /\ Past(e.base)
                     /\ e.version = StoreVersion(e.base)
                     /\ e.read = ReadAt(e.base)
  /\ ServedAsked

\* The newest stamp of a bounded relation is one of its rows', and no row's is later.
LEMMA TopStampOf ==
  ASSUME NEW rows \in SUBSET Rows, clock \in Nat, Bounded(rows), rows # {}
  PROVE  \E r \in rows : TopStamp(rows) = r.stamp /\ \A x \in rows : x.stamp <= r.stamp
<1> DEFINE Stamps == {r.stamp : r \in rows}
<1>1. Stamps \in SUBSET Nat /\ Stamps # {}
  BY DEF Rows
<1>2. \A m \in Stamps : m <= clock
  BY DEF Bounded
<1>3. MaxOf(Stamps) \in Stamps /\ \A m \in Stamps : m <= MaxOf(Stamps)
  <2> HIDE DEF Stamps
  <2> QED
    BY <1>1, <1>2, MaxOfBounded
<1> QED
  BY <1>3 DEF TopStamp

\* A past store of the store's version is the store.
LEMMA VersionNamesStore ==
  ASSUME TypeInv, NEW b \in Stores, Past(b), StoreVersion(b) = StoreVersion(store)
  PROVE  b = store
<1>1. store \in Stores /\ clock \in Nat
  BY DEF TypeInv, TypeOK
<1>2. b.lake = store.lake
  BY DEF StoreVersion
<1>3. ASSUME NEW rel \in Relations PROVE b.rows[rel] = store.rows[rel]
  <2> DEFINE B == b.rows[rel]
             S == store.rows[rel]
  <2>1. StoreVersion(b).of[rel] = StoreVersion(store).of[rel]
    OBVIOUS
  <2>2. Cardinality(B) = Cardinality(S) /\ TopStamp(B) = TopStamp(S)
    BY <2>1 DEF StoreVersion
  <2>3. B \in SUBSET Rows /\ S \in SUBSET Rows /\ Bounded(B) /\ Bounded(S)
    BY <1>1 DEF Stores, Past, TypeInv, BoundedInv
  <2>4. \A new \in S \ B, old \in B : old.stamp < new.stamp
    BY DEF Past
  <2> HIDE DEF B, S
  <2>5. CASE S \subseteq B
    <3>1. IsFiniteSet(B)
      BY <2>3 DEF Bounded
    <3>2. S = B
      BY <2>2, <2>5, <3>1, SameSize
    <3> QED
      BY <3>2 DEF B, S
  <2>6. CASE ~ (S \subseteq B)
    <3>1. PICK new \in S : new \notin B
      BY <2>6
    <3>2. B # {}
      BY <2>2, <2>3, <3>1, FS_EmptySet DEF Bounded
    <3>3. PICK old \in B : TopStamp(B) = old.stamp
      BY <1>1, <2>3, <3>2, TopStampOf
    <3>4. new.stamp <= TopStamp(S)
      BY <1>1, <2>3, <3>1, TopStampOf
    <3>5. old.stamp < new.stamp
      BY <2>4, <3>1, <3>3
    <3>6. old.stamp \in Nat /\ new.stamp \in Nat
      BY <2>3, <3>1, <3>3 DEF Rows
    <3> QED
      BY <2>2, <3>3, <3>4, <3>5, <3>6
  <2> QED
    BY <2>5, <2>6 DEF B, S
<1>4. b.rows = store.rows
  BY <1>1, <1>3 DEF Stores
<1> QED
  BY <1>1, <1>2, <1>4 DEF Stores

\* DoorInv holds of the empty cache.
LEMMA DoorInit == Init => DoorInv
BY DEF Init, DoorInv, ServedAsked

\* A past store stays past when the one connection steps: the row it is to
\* write is stamped later than all it holds, and a delete only takes rows.
LEMMA PastStays ==
  ASSUME NEW c \in Conns, TypeInv, TypeInv', OthersIdle(c), OthersIdle(c)', Statement(c),
         NEW b \in Stores, Past(b)
  PROVE  Past(b)'
<1> USE ConstantsAssumption
<1>0. /\ clock \in Nat /\ store \in Stores /\ store' \in Stores
      /\ \A rel \in Relations : b.rows[rel] \in SUBSET Rows
      /\ pc \in [Conns -> {"idle", "writing", "bound", "judged", "filled"}]
  BY DEF TypeInv, TypeOK, Stores
<1>w. \A d \in Conns : pc'[d] = "writing" => d = c
  BY DEF OthersIdle
<1>1. ASSUME NEW rel \in Relations, BeginWrite(c, rel) PROVE Past(b)'
  <2>1. clock' = clock + 1 /\ store' = store /\ writing'[c].row.stamp = clock + 1
    BY <1>1 DEF BeginWrite, TypeInv, TypeOK
  <2>2. ASSUME NEW r \in Relations, NEW old \in b.rows[r]
        PROVE  old.seq <= clock' /\ old.stamp <= clock' /\ old.stamp < writing'[c].row.stamp
    <3>1. old.seq \in Nat /\ old.stamp \in Nat /\ old.seq <= clock /\ old.stamp <= clock
      BY <1>0 DEF Past, Bounded, Rows
    <3> QED
      BY <1>0, <2>1, <3>1
  <2>3. \A r \in Relations : Bounded(b.rows[r])'
    BY <2>2 DEF Past, Bounded
  <2> QED
    BY <1>w, <2>1, <2>2, <2>3 DEF Past
<1>2. ASSUME CommitWrite(c) PROVE Past(b)'
  <2>1. pc[c] = "writing" /\ pc'[c] = "idle" /\ clock' = clock
    BY <1>0, <1>2 DEF CommitWrite
  <2>2. writing[c].rel \in Relations
    BY DEF TypeInv, TypeOK
  <2>3. \A rel \in Relations : \A new \in store'.rows[rel] :
          new \in store.rows[rel] \/ new = writing[c].row
    BY <1>0, <1>2, <2>2 DEF CommitWrite, Stores
  <2>4. \A rel \in Relations : \A new \in store'.rows[rel] \ b.rows[rel], old \in b.rows[rel] :
          old.stamp < new.stamp
    BY <2>1, <2>3 DEF Past
  <2>5. \A rel \in Relations : Bounded(b.rows[rel])'
    BY <2>1 DEF Past, Bounded
  <2> QED
    BY <1>w, <2>1, <2>4, <2>5 DEF Past
<1>3. ASSUME Delete(c) \/ LakeCommit(c) PROVE Past(b)'
  <2>1. UNCHANGED <<pc, writing, clock>>
    BY <1>3 DEF Delete, LakeCommit
  <2>2. \A rel \in Relations : store'.rows[rel] \subseteq store.rows[rel]
    BY <1>0, <1>3 DEF Delete, LakeCommit, Stores
  <2>3. \A rel \in Relations : \A new \in store'.rows[rel] \ b.rows[rel], old \in b.rows[rel] :
          old.stamp < new.stamp
    BY <2>2 DEF Past
  <2>4. \A rel \in Relations : Bounded(b.rows[rel])'
    BY <2>1 DEF Past, Bounded
  <2> QED
    BY <2>1, <2>3, <2>4 DEF Past
<1>4. ASSUME UNCHANGED <<store, clock, writing>>, pc'[c] = "writing" => pc[c] = "writing"
      PROVE  Past(b)'
  BY <1>w, <1>4 DEF Past, Bounded
<1>5. ASSUME NEW K \in BindKeys, Bind(c, K) PROVE Past(b)'
  BY <1>0, <1>4, <1>5 DEF Bind
<1>6. ASSUME NEW k \in Keys, Hit(c, k) PROVE Past(b)'
  BY <1>0, <1>4, <1>6 DEF Hit, Serve
<1>7. ASSUME NEW k \in Keys, LandSlots(c, k) \/ PlainRows(c, k) PROVE Past(b)'
  BY <1>0, <1>4, <1>7 DEF LandSlots, PlainRows
<1>8. CASE JudgedRows(c) \/ FillFails(c)
  BY <1>0, <1>4, <1>8 DEF JudgedRows, FillFails
<1>9. CASE Put(c)
  BY <1>0, <1>4, <1>9 DEF Put, Serve
<1>10. CASE Evict \/ UNCHANGED vars
  BY <1>4, <1>10 DEF Evict, vars
<1> QED
  BY <1>1, <1>2, <1>3, <1>5, <1>6, <1>7, <1>8, <1>9, <1>10 DEF Statement

\* DoorInv is kept by every step of the one connection, deletes included.
LEMMA DoorStep ==
  ASSUME NEW c \in Conns, TypeInv, TypeInv', DoorInv, OthersIdle(c), Statement(c)
  PROVE  DoorInv'
<1> USE ConstantsAssumption
<1>o. OthersIdle(c)'
  BY OthersStayIdle
<1>0. /\ store \in Stores
      /\ pc \in [Conns -> {"idle", "writing", "bound", "judged", "filled"}]
      /\ version \in [Conns -> Versions] /\ asked \in [Conns -> Stores]
      /\ fill \in [Conns -> [key : Keys, read : Reading]]
      /\ served \in [Conns -> SUBSET Reading]
      /\ \A e \in kept : e.base \in Stores
  BY DEF TypeInv, TypeOK
<1>p. \A e \in kept : Past(e.base)'
  BY <1>0, <1>o, PastStays DEF DoorInv
<1>1. ASSUME NEW rel \in Relations,
             BeginWrite(c, rel) \/ CommitWrite(c) \/ LakeCommit(c) \/ Delete(c)
      PROVE  DoorInv'
  <2>1. UNCHANGED <<kept, version, asked, fill, served>> /\ pc'[c] \in {"writing", "idle"}
    BY <1>0, <1>1 DEF BeginWrite, CommitWrite, LakeCommit, Delete
  <2> QED
    BY <1>0, <1>p, <1>o, <2>1 DEF DoorInv, ServedAsked, OthersIdle
<1>2. ASSUME NEW K \in BindKeys, Bind(c, K) PROVE DoorInv'
  <2>1. /\ UNCHANGED <<kept, fill, store>> /\ pc'[c] = "bound" /\ asked'[c] = store
        /\ version'[c] = StoreVersion(store) /\ served'[c] = {}
        /\ \A d \in Conns \ {c} : version'[d] = version[d] /\ asked'[d] = asked[d]
    BY <1>0, <1>2 DEF Bind
  <2> QED
    BY <1>p, <1>o, <2>1 DEF DoorInv, ServedAsked, OthersIdle
<1>3. ASSUME NEW k \in Keys, Hit(c, k) PROVE DoorInv'
  <2>1. PICK e \in KeptAt(c, k) : Serve(c, k, e.read)
    BY <1>3 DEF Hit
  <2>2. e \in kept /\ e.version = version[c] /\ pc[c] = "bound"
    BY <1>3 DEF KeptAt, Hit
  <2>3. StoreVersion(e.base) = StoreVersion(store) /\ asked[c] = store
    BY <2>2 DEF DoorInv
  <2>4. e.base = store
    BY <1>0, <2>2, <2>3, VersionNamesStore DEF DoorInv
  <2>5. e.read = ReadAt(asked[c])
    BY <2>2, <2>3, <2>4 DEF DoorInv
  <2>6. /\ UNCHANGED <<kept, version, asked, fill, store>> /\ pc'[c] \in {"idle", "bound"}
        /\ served'[c] = served[c] \cup {e.read}
    BY <1>0, <1>3, <2>1 DEF Hit, Serve
  <2> QED
    BY <1>0, <1>p, <1>o, <2>3, <2>5, <2>6 DEF DoorInv, ServedAsked, OthersIdle
<1>4. ASSUME NEW k \in Keys, LandSlots(c, k) \/ PlainRows(c, k) PROVE DoorInv'
  <2>1. /\ UNCHANGED <<kept, version, asked, served, store>> /\ pc[c] = "bound"
        /\ fill'[c].read = ReadAt(store)
    BY <1>0, <1>4 DEF LandSlots, PlainRows
  <2> QED
    BY <1>0, <1>p, <1>o, <2>1 DEF DoorInv, ServedAsked, OthersIdle
<1>5. CASE JudgedRows(c)
  <2>1. /\ UNCHANGED <<kept, version, asked, served, store>> /\ pc[c] = "judged"
        /\ fill'[c].read = [fill[c].read EXCEPT !.rows = store]
    BY <1>0, <1>5 DEF JudgedRows, Reading
  <2>2. fill[c].read = ReadAt(store) /\ asked[c] = store
    BY <2>1 DEF DoorInv
  <2>3. fill'[c].read = ReadAt(store)
    BY <2>1, <2>2 DEF ReadAt
  <2> QED
    BY <1>0, <1>p, <1>o, <2>1, <2>2, <2>3 DEF DoorInv, ServedAsked, OthersIdle
<1>6. CASE Put(c)
  <2>1. /\ UNCHANGED <<version, asked, store, writing, clock>> /\ pc[c] = "filled"
        /\ pc'[c] \in {"idle", "bound"}
        /\ served'[c] = served[c] \cup {fill[c].read}
        /\ \A e \in kept' : e \in kept \/ e = Entry(c)
    BY <1>0, <1>6 DEF Put, Serve
  <2>2. fill[c].read = ReadAt(asked[c]) /\ asked[c] = store
    BY <2>1 DEF DoorInv
  <2>3. Past(store)'
    <3>1. \A d \in Conns : pc'[d] # "writing"
      BY <1>o, <2>1 DEF OthersIdle
    <3> QED
      BY <2>1, <3>1 DEF Past, TypeInv, BoundedInv, Bounded
  <2>4. \A e \in kept' : Past(e.base)'
    BY <1>0, <1>p, <1>o, <2>1, <2>2, <2>3 DEF Entry
  <2>5. \A e \in kept' : e.version = StoreVersion(e.base) /\ e.read = ReadAt(e.base)
    BY <2>1, <2>2 DEF Entry, DoorInv
  <2> QED
    BY <1>o, <2>1, <2>2, <2>4, <2>5 DEF DoorInv, ServedAsked, OthersIdle
<1>7. CASE FillFails(c)
  <2>1. UNCHANGED <<kept, version, asked, served, store>> /\ pc'[c] = "idle"
    BY <1>0, <1>7 DEF FillFails
  <2> QED
    BY <1>0, <1>p, <1>o, <2>1 DEF DoorInv, ServedAsked, OthersIdle
<1>8. CASE Evict \/ UNCHANGED vars
  <2>1. UNCHANGED <<version, asked, served, store, fill, pc>> /\ kept' \subseteq kept
    BY <1>8 DEF Evict, vars
  <2> QED
    BY <1>0, <1>p, <1>o, <2>1 DEF DoorInv, ServedAsked, OthersIdle
<1> QED
  BY <1>1, <1>2, <1>3, <1>4, <1>5, <1>6, <1>7, <1>8 DEF Statement

\* One connection, whatever it writes, deletes, lands and reads: an entry at
\* the store's version holds the store's rows, and a bind serves the store as
\* it was when the bind began.
THEOREM OneDoorKeepsCurrent ==
  ASSUME NEW c, Conns = {c}
  PROVE  Spec => [](VersionTells /\ KeptCurrent /\ ServedAsked)
<1>1. TypeInv /\ TypeInv' /\ DoorInv /\ [Next]_vars => DoorInv'
  BY DoorStep, OnlyStatements DEF OthersIdle
<1>2. TypeInv /\ DoorInv => VersionTells /\ KeptCurrent /\ ServedAsked
  <2>1. TypeInv /\ DoorInv => \A e \in kept : e.version = StoreVersion(store) => e.base = store
    BY VersionNamesStore DEF TypeInv, TypeOK, DoorInv
  <2> QED
    BY <2>1 DEF VersionTells, KeptCurrent, DoorInv
<1> QED
  BY <1>1, <1>2, InitType, TypeStep, DoorInit, PTL DEF Spec

-----------------------------------------------------------------------------
(* ReadCache implements AbstractRead: the mapping leaves the store and what *)
(* is served as they are; a read is under way while its bind is.            *)

\* What AbstractRead lets connection c be served.
Fits(c, read) ==
  Within(asked[c], read.slots) /\ Within(read.slots, read.rows) /\ Within(read.rows, store)

\* What is about to be served fits: a fill that is done, an entry a bind may hit.
Safe ==
  /\ \A c \in Conns : pc[c] = "filled" => Fits(c, fill[c].read)
  /\ \A c \in Conns : \A e \in kept :
       pc[c] = "bound" /\ e.version = version[c] => Fits(c, e.read)

\* A serve of a fitting read is an answer.
LEMMA ServeAnswers ==
  ASSUME TypeInv, NEW c \in Conns, NEW k \in Keys, NEW read, Serve(c, k, read), Fits(c, read),
         pc[c] \in {"bound", "filled"}, UNCHANGED <<store, asked>>
  PROVE  R!Answer(c)
<1>1. pc \in [Conns -> {"idle", "writing", "bound", "judged", "filled"}] /\ served \in [Conns -> SUBSET Reading]
  BY DEF TypeInv, TypeOK
<1>2. c \in UnderWay
  BY DEF UnderWay
<1>3. served' = [served EXCEPT ![c] = @ \cup {read}] /\ read \in served'[c]
  BY <1>1 DEF Serve
<1>4. pc' = [pc EXCEPT ![c] = "idle"] \/ pc' = [pc EXCEPT ![c] = "bound"]
  BY DEF Serve
<1>5. UnderWay' \in {UnderWay, UnderWay \ {c}}
  BY <1>1, <1>2, <1>4 DEF UnderWay
<1>6. /\ R!Within(asked[c], read.slots) /\ R!Within(read.slots, read.rows)
      /\ R!Within(read.rows, store)
  BY DEF Fits, Within, R!Within
<1> QED
  BY <1>2, <1>3, <1>5, <1>6 DEF R!Answer

\* A step that leaves what is asked and served alone, and the binds under way,
\* is a write.
LEMMA WriteIsWrite ==
  ASSUME UNCHANGED <<asked, served, UnderWay>>, UnderWay = {} \/ Within(store, store')
  PROVE  R!Next
BY DEF R!Next, R!Write, R!Within, Within

\* A step over a store that only grows, or while no bind is under way, is a
\* step of AbstractRead.
LEMMA ReadsStep ==
  TypeInv /\ Safe /\ [Next]_vars /\ (UnderWay = {} \/ Within(store, store')) => [R!Next]_(R!vars)
<1> SUFFICES ASSUME TypeInv, Safe, [Next]_vars, UnderWay = {} \/ Within(store, store')
             PROVE  [R!Next]_(R!vars)
  OBVIOUS
<1>0. /\ pc \in [Conns -> {"idle", "writing", "bound", "judged", "filled"}]
      /\ asked \in [Conns -> Stores]
      /\ fill \in [Conns -> [key : Keys, read : Reading]]
  BY DEF TypeInv, TypeOK
<1>1. ASSUME NEW c \in Conns, NEW rel \in Relations,
             BeginWrite(c, rel) \/ CommitWrite(c) \/ LakeCommit(c) \/ Delete(c)
      PROVE  R!Next
  <2>1. UNCHANGED <<asked, served, UnderWay>>
    BY <1>0, <1>1 DEF BeginWrite, CommitWrite, LakeCommit, Delete, UnderWay
  <2> QED
    BY <2>1, WriteIsWrite
<1>2. ASSUME NEW c \in Conns, NEW K \in BindKeys, Bind(c, K) PROVE R!Next
  <2>1. c \notin UnderWay /\ UnderWay' = UnderWay \cup {c}
    BY <1>0, <1>2 DEF Bind, UnderWay
  <2> QED
    BY <1>2, <2>1 DEF Bind, R!Next, R!Ask
<1>3. ASSUME NEW c \in Conns, NEW k \in Keys, Hit(c, k) PROVE R!Next
  <2>1. PICK e \in KeptAt(c, k) : Serve(c, k, e.read)
    BY <1>3 DEF Hit
  <2>2. Fits(c, e.read) /\ pc[c] = "bound" /\ UNCHANGED <<store, asked>>
    BY <1>3 DEF Hit, KeptAt, Safe
  <2> QED
    BY <2>1, <2>2, ServeAnswers DEF R!Next
<1>4. ASSUME NEW c \in Conns, NEW k \in Keys,
             LandSlots(c, k) \/ JudgedRows(c) \/ PlainRows(c, k)
      PROVE  UNCHANGED R!vars
  <2>1. UNCHANGED <<store, asked, served>> /\ UnderWay' = UnderWay
    BY <1>0, <1>4 DEF LandSlots, JudgedRows, PlainRows, UnderWay
  <2> QED
    BY <2>1 DEF R!vars
<1>5. ASSUME NEW c \in Conns, Put(c) PROVE R!Next
  <2>1. Serve(c, fill[c].key, fill[c].read) /\ Fits(c, fill[c].read) /\ fill[c].key \in Keys
    BY <1>0, <1>5 DEF Put, Safe
  <2> QED
    BY <1>5, <2>1, ServeAnswers DEF Put, R!Next
<1>6. ASSUME NEW c \in Conns, FillFails(c) PROVE R!Next
  <2>1. c \in UnderWay /\ UnderWay' = UnderWay \ {c}
    BY <1>0, <1>6 DEF FillFails, UnderWay
  <2> QED
    BY <1>6, <2>1 DEF FillFails, R!Next, R!Fail
<1>7. CASE Evict \/ UNCHANGED vars
  BY <1>7 DEF Evict, vars, R!vars, UnderWay
<1> QED
  BY <1>1, <1>2, <1>3, <1>4, <1>5, <1>6, <1>7, KeysAssumption, ConstantsAssumption DEF Next, Append

\* The first state asks and serves nothing.
LEMMA ReadsInit == Init => R!Init
BY DEF Init, R!Init, UnderWay

\* While no gloss is deleted everything about to be served fits.
LEMMA AppendSafe == TypeInv /\ AppendInv => Safe
<1> SUFFICES ASSUME TypeInv, AppendInv PROVE Safe
  OBVIOUS
<1>1. \A c \in Conns : pc[c] = "filled" => Fits(c, fill[c].read)
  BY DEF AppendInv, Chain, Fits
<1>2. ASSUME NEW c \in Conns, NEW e \in kept, e.version = version[c] PROVE Fits(c, e.read)
  <2>1. /\ store \in Stores /\ asked[c] \in Stores /\ e.base \in Stores
        /\ e.read.slots \in Stores /\ e.read.rows \in Stores
    BY DEF TypeInv, TypeOK, Reading
  <2>2. Within(e.base, store)
    BY <2>1, WithinTransitive DEF AppendInv, Chain
  <2>3. e.base = asked[c]
    BY <1>2, <2>1, <2>2, SameVersionOrdered DEF AppendInv
  <2> QED
    BY <2>3 DEF AppendInv, Chain, Fits
<1> QED
  BY <1>1, <1>2 DEF Safe

\* Any number of connections, no gloss deleted: whoever computed a read, it was
\* computed over a store no older than the one its bind asked of.
THEOREM AppendReadsImplement == AppendSpec => ReadsImplement
<1>1. TypeInv /\ [Append]_vars => TypeInv'
  BY TypeStep DEF Next
<1>2. TypeInv /\ AppendInv /\ [Append]_vars => [R!Next]_(R!vars)
  BY AppendSafe, StoreGrows, ReadsStep DEF Next
<1> QED
  BY <1>1, <1>2, InitType, AppendInit, AppendStep, ReadsInit, PTL
  DEF AppendSpec, ReadsImplement, R!Spec

\* With one connection an entry of the bind's version holds the store it asked of.
LEMMA DoorSafe ==
  ASSUME NEW c \in Conns, TypeInv, DoorInv, OthersIdle(c)
  PROVE  Safe
<1>1. store \in Stores /\ Within(store, store)
  BY WithinSelf DEF TypeInv, TypeOK
<1>f. \A read : asked[c] = store /\ read = ReadAt(store) => Fits(c, read)
  BY <1>1 DEF Fits, ReadAt
<1>2. ASSUME pc[c] = "filled" PROVE Fits(c, fill[c].read)
  <2>1. asked[c] = store /\ fill[c].read = ReadAt(store)
    BY <1>2 DEF DoorInv
  <2> QED
    BY <1>f, <2>1
<1>3. ASSUME NEW e \in kept, pc[c] = "bound", e.version = version[c] PROVE Fits(c, e.read)
  <2>1. StoreVersion(e.base) = StoreVersion(store) /\ asked[c] = store /\ Past(e.base)
    BY <1>3 DEF DoorInv
  <2>2. e.base = store
    BY <2>1, VersionNamesStore DEF TypeInv, TypeOK
  <2>3. e.read = ReadAt(store)
    BY <2>2 DEF DoorInv
  <2> QED
    BY <1>f, <2>1, <2>3
<1> QED
  BY <1>2, <1>3 DEF Safe, OthersIdle

\* ... and the store changes between its binds alone.
LEMMA DoorGrows ==
  ASSUME NEW c \in Conns, TypeInv, OthersIdle(c), Statement(c)
  PROVE  UnderWay = {} \/ Within(store, store')
<1>1. CASE \E rel \in Relations : BeginWrite(c, rel) \/ CommitWrite(c) \/ LakeCommit(c) \/ Delete(c)
  BY <1>1 DEF BeginWrite, CommitWrite, LakeCommit, Delete, UnderWay, OthersIdle
<1>2. CASE UNCHANGED store
  BY <1>2, WithinSelf DEF TypeInv, TypeOK
<1> QED
  BY <1>1, <1>2, ConstantsAssumption
  DEF Statement, Bind, Hit, LandSlots, JudgedRows, PlainRows, Put, FillFails, Evict, vars

\* One connection, whatever it deletes between its reads: what it is served
\* is what AbstractRead promises.
THEOREM OneDoorReadsImplement ==
  ASSUME NEW c, Conns = {c}
  PROVE  Spec => ReadsImplement
<1>1. TypeInv /\ TypeInv' /\ DoorInv /\ [Next]_vars => DoorInv'
  BY DoorStep, OnlyStatements DEF OthersIdle
<1>2. TypeInv /\ DoorInv /\ [Next]_vars => [R!Next]_(R!vars)
  BY DoorGrows, DoorSafe, OnlyStatements, ReadsStep DEF OthersIdle
<1> QED
  BY <1>1, <1>2, InitType, TypeStep, DoorInit, ReadsInit, PTL DEF Spec, ReadsImplement, R!Spec
-----------------------------------------------------------------------------
(* The two disciplines of MCReadCache: every connection open and no gloss  *)
(* deleted, or the door's alone and deletes as well.                       *)

MCInv ==
  /\ TypeInv
  /\ open \in {Conns, {Door}}
  /\ ~Alone => AppendInv
  /\ Alone => DoorInv /\ OthersIdle(Door)

\* A step of the open connections deletes nothing, or is the door's alone.
LEMMA OpenStep ==
  ASSUME Door \in Conns, MCInv, [MCNext]_<<vars, open>>
  PROVE  /\ open' = open /\ [Next]_vars
         /\ Alone => Statement(Door)
         /\ ~Alone => [Append]_vars
<1>1. open \subseteq Conns
  BY DEF MCInv
<1>2. CASE UNCHANGED <<vars, open>>
  BY <1>2 DEF Statement, vars
<1>3. CASE MCNext
  <2>1. open' = open /\ [Next]_vars
    BY <1>1, <1>3 DEF MCNext, Same, Next, Append
  <2>2. ASSUME Alone PROVE Statement(Door)
    BY <1>3, <2>2 DEF MCNext, Alone, Statement
  <2>3. ASSUME ~Alone PROVE [Append]_vars
    BY <1>1, <1>3, <2>3 DEF MCNext, Append
  <2> QED
    BY <2>1, <2>2, <2>3
<1> QED
  BY <1>2, <1>3

\* Both disciplines start in the invariant ...
LEMMA OpenInit == ASSUME Door \in Conns PROVE MCInit => MCInv
BY InitType, AppendInit, DoorInit DEF MCInit, MCInv, Init, OthersIdle

\* ... and keep it.
LEMMA OpenKeeps ==
  ASSUME Door \in Conns, MCInv, [MCNext]_<<vars, open>>
  PROVE  MCInv'
<1>1. /\ open' = open /\ [Next]_vars
      /\ Alone => Statement(Door)
      /\ ~Alone => [Append]_vars
  BY OpenStep
<1>2. TypeInv /\ TypeInv'
  BY <1>1, TypeStep DEF MCInv
<1>3. Alone' = Alone
  BY <1>1 DEF Alone
<1>4. ASSUME ~Alone PROVE AppendInv'
  BY <1>1, <1>2, <1>4, AppendStep DEF MCInv
<1>5. ASSUME Alone PROVE DoorInv' /\ OthersIdle(Door)'
  <2>1. DoorInv /\ OthersIdle(Door) /\ Statement(Door)
    BY <1>1, <1>5 DEF MCInv
  <2> QED
    BY <1>2, <2>1, DoorStep, OthersStayIdle
<1> QED
  BY <1>1, <1>2, <1>3, <1>4, <1>5 DEF MCInv

\* Under either discipline an entry at the store's version is current, and the
\* door alone is served what it asked of.
LEMMA OpenImplies ==
  ASSUME Door \in Conns, MCInv
  PROVE  TypeOK /\ KeptCurrent /\ DoorServesAsked /\ Safe
<1>1. TypeOK
  BY DEF MCInv, TypeInv
<1>2. CASE ~Alone
  BY <1>1, <1>2, AppendImplies, AppendSafe DEF MCInv, DoorServesAsked
<1>3. CASE Alone
  <2>1. TypeInv /\ DoorInv /\ OthersIdle(Door)
    BY <1>3 DEF MCInv
  <2>2. \A e \in kept : e.version = StoreVersion(store) => e.base = store
    BY <2>1, VersionNamesStore DEF TypeInv, TypeOK, DoorInv
  <2>3. KeptCurrent
    BY <2>1, <2>2 DEF KeptCurrent, DoorInv
  <2>4. Safe
    BY <2>1, DoorSafe
  <2>5. DoorServesAsked
    BY <2>1 DEF DoorInv, DoorServesAsked
  <2> QED
    BY <1>1, <2>3, <2>4, <2>5
<1> QED
  BY <1>2, <1>3

\* Whatever the open connections do, an entry at the store's version is what a
\* fill would compute: the cache's promise, as the run checks it.
THEOREM OpenKeepsCurrent ==
  ASSUME Door \in Conns
  PROVE  MCSpec => []KeptCurrent
<1>1. MCInv /\ [MCNext]_<<vars, open>> => MCInv'
  BY OpenKeeps
<1>2. MCInv => KeptCurrent
  BY OpenImplies
<1> QED
  BY <1>1, <1>2, OpenInit, PTL DEF MCSpec

\* The door, alone, is served the store as it was when its bind began: every
\* view of one cells read of one store, whatever it deleted between two binds.
THEOREM DoorServes ==
  ASSUME Door \in Conns
  PROVE  MCSpec => []DoorServesAsked
<1>1. MCInv /\ [MCNext]_<<vars, open>> => MCInv'
  BY OpenKeeps
<1>2. MCInv => DoorServesAsked
  BY OpenImplies
<1> QED
  BY <1>1, <1>2, OpenInit, PTL DEF MCSpec

\* A step of the open connections is a step of AbstractRead: the store only
\* grows, or the one connection that changes it has no bind under way.
LEMMA OpenReads ==
  ASSUME Door \in Conns, MCInv, [MCNext]_<<vars, open>>
  PROVE  [R!Next]_(R!vars)
<1>1. /\ open' = open /\ [Next]_vars
      /\ Alone => Statement(Door)
      /\ ~Alone => [Append]_vars
  BY OpenStep
<1>2. TypeInv /\ Safe
  BY OpenImplies DEF MCInv
<1>3. UnderWay = {} \/ Within(store, store')
  <2>1. CASE ~Alone
    BY <1>1, <1>2, <2>1, StoreGrows
  <2>2. CASE Alone
    BY <1>1, <1>2, <2>2, DoorGrows DEF MCInv
  <2> QED
    BY <2>1, <2>2
<1> QED
  BY <1>1, <1>2, <1>3, ReadsStep

\* Both disciplines implement AbstractRead: whoever computed a read, nothing
\* committed before the bind that is served it is missing from it.
THEOREM OpenReadsImplement ==
  ASSUME Door \in Conns
  PROVE  MCSpec => ReadsImplement
<1>1. MCInv /\ [MCNext]_<<vars, open>> => MCInv'
  BY OpenKeeps
<1>2. MCInv /\ [MCNext]_<<vars, open>> => [R!Next]_(R!vars)
  BY OpenReads
<1>3. MCInit => R!Init
  BY ReadsInit DEF MCInit
<1> QED
  BY <1>1, <1>2, <1>3, OpenInit, PTL DEF MCSpec, ReadsImplement, R!Spec
=============================================================================
