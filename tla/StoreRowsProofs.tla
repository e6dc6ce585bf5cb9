--------------------------- MODULE StoreRowsProofs ---------------------------
(***************************************************************************)
(* What the highest seq and the newest row are, for the proofs over store  *)
(* rows.                                                                   *)
(***************************************************************************)
EXTENDS StoreRows, TLAPS, WellFoundedInduction

\* A set of numbers with an upper bound has a greatest element.
LEMMA BoundedMax ==
  ASSUME NEW S \in SUBSET Nat, S # {}, NEW b \in Nat, \A m \in S : m <= b
  PROVE  \E n \in S : \A m \in S : m <= n
<1> DEFINE Above == {n \in Nat : \A m \in S : m <= n}
           Less == {p \in Nat \X Nat : p[1] < p[2]}
<1>1. Above \subseteq Nat /\ Above # {}
  OBVIOUS
<1>2. IsWellFoundedOn(Less, Nat)
  BY NatLessThanWellFounded DEF OpToRel
<1>3. PICK n \in Above : \A k \in Above : ~ (<<k, n>> \in Less)
  <2> HIDE DEF Above, Less
  <2> QED
    BY <1>1, <1>2, WFMin
<1>4. ASSUME NEW k \in Above PROVE n <= k
  <2>1. k \in Nat /\ n \in Nat
    BY <1>1
  <2>2. k < n => <<k, n>> \in Less
    BY <2>1
  <2>3. ~ (<<k, n>> \in Less)
    BY <1>3
  <2> QED
    BY <2>1, <2>2, <2>3
<1>5. n \in S
  <2> SUFFICES ASSUME n \notin S PROVE FALSE
    OBVIOUS
  <2>1. PICK m \in S : TRUE
    OBVIOUS
  <2>2. \A k \in S : k <= n - 1
    BY <1>1
  <2>3. n - 1 \in Nat
    BY <1>1, <2>1, <2>2
  <2> QED
    BY <1>4, <2>2, <2>3
<1> QED
  BY <1>5

\* MaxOf is the greatest element of a bounded set, 0 of the empty one.
LEMMA MaxOfBounded ==
  ASSUME NEW S \in SUBSET Nat, NEW b \in Nat, \A m \in S : m <= b
  PROVE  /\ MaxOf(S) \in Nat
         /\ MaxOf(S) <= b
         /\ \A m \in S : m <= MaxOf(S)
         /\ S # {} => MaxOf(S) \in S
<1>1. CASE S = {}
  BY <1>1 DEF MaxOf
<1>2. CASE S # {}
  <2>1. \E n \in S : \A m \in S : m <= n
    BY <1>2, BoundedMax
  <2> QED
    BY <1>2, <2>1 DEF MaxOf
<1> QED
  BY <1>1, <1>2

\* The seqs of a relation are numbers, and there is a bound on them.
Numbered(rows) == \E n \in Nat : \A r \in rows : r.seq \in Nat /\ r.seq <= n

\* The highest seq of a relation is a number no row's seq exceeds.
LEMMA TopSeqBounds ==
  ASSUME NEW rows, Numbered(rows)
  PROVE  TopSeq(rows) \in Nat /\ \A r \in rows : r.seq \in Nat /\ r.seq <= TopSeq(rows)
<1> DEFINE S == {r.seq : r \in rows}
<1>1. PICK n \in Nat : \A r \in rows : r.seq \in Nat /\ r.seq <= n
  BY DEF Numbered
<1>2. S \in SUBSET Nat /\ \A m \in S : m <= n
  BY <1>1
<1>3. /\ TopSeq(rows) = MaxOf(S)
      /\ \A r \in rows : r.seq \in S
  BY DEF TopSeq
<1> HIDE DEF S
<1>4. MaxOf(S) \in Nat /\ \A m \in S : m <= MaxOf(S)
  BY <1>2, MaxOfBounded
<1> QED
  BY <1>1, <1>3, <1>4

\* A row numbered one above the highest is the newest, alone.
LEMMA NextIsNewest ==
  ASSUME NEW rows, Numbered(rows), NEW row, row.seq = TopSeq(rows) + 1
  PROVE  Newest(rows \cup {row}) = {row} /\ Numbered(rows \cup {row})
<1> DEFINE all == rows \cup {row}
           top == TopSeq(rows) + 1
<1>1. /\ top \in Nat
      /\ \A r \in rows : r.seq \in Nat /\ r.seq < top
      /\ row.seq = top
  BY TopSeqBounds
<1>2. Numbered(all)
  BY <1>1 DEF Numbered
<1>3. TopSeq(all) \in Nat /\ \A r \in all : r.seq <= TopSeq(all)
  BY <1>2, TopSeqBounds
<1>4. \E r \in all : r.seq = TopSeq(all)
  <2> DEFINE S == {r.seq : r \in all}
  <2>1. /\ S \in SUBSET Nat /\ S # {}
        /\ \A m \in S : m <= top
    BY <1>1
  <2>2. MaxOf(S) \in S
    <3> HIDE DEF S
    <3> QED
      BY <2>1, <1>1, MaxOfBounded
  <2>3. TopSeq(all) = MaxOf(S)
    BY DEF TopSeq
  <2> QED
    BY <2>2, <2>3
<1>5. TopSeq(all) = top
  BY <1>1, <1>3, <1>4
<1> QED
  BY <1>1, <1>2, <1>5 DEF Newest

\* Of rows whose seqs are bounded, the newest are those no row is above.
LEMMA NewestAreHighest ==
  ASSUME NEW rows, NEW n \in Nat, \A r \in rows : r.seq \in Nat /\ r.seq <= n
  PROVE  Newest(rows) = {r \in rows : \A q \in rows : q.seq <= r.seq}
<1> DEFINE S == {r.seq : r \in rows}
<1>1. S \in SUBSET Nat /\ \A m \in S : m <= n
  OBVIOUS
<1>2. /\ MaxOf(S) \in Nat
      /\ \A m \in S : m <= MaxOf(S)
      /\ S # {} => MaxOf(S) \in S
  <2> HIDE DEF S
  <2> QED
    BY <1>1, MaxOfBounded
<1>3. Newest(rows) = {r \in rows : r.seq = MaxOf(S)}
  BY DEF Newest, TopSeq
<1>4. ASSUME NEW r \in rows
      PROVE  r.seq = MaxOf(S) <=> \A q \in rows : q.seq <= r.seq
  <2>1. r.seq \in S /\ S # {}
    OBVIOUS
  <2>2. PICK top \in rows : top.seq = MaxOf(S)
    BY <1>2, <2>1
  <2>3. \A q \in rows : q.seq \in Nat /\ q.seq <= MaxOf(S)
    BY <1>2
  <2> HIDE DEF S
  <2> QED
    BY <1>2, <2>2, <2>3
<1> QED
  BY <1>3, <1>4

\* A row above them all is the newest alone.
LEMMA LaterIsNewest ==
  ASSUME NEW rows, NEW n \in Nat, \A r \in rows : r.seq \in Nat /\ r.seq <= n,
         NEW row, row.seq = n + 1
  PROVE  Newest(rows \cup {row}) = {row}
<1>1. \A r \in rows \cup {row} : r.seq \in Nat /\ r.seq <= n + 1
  OBVIOUS
<1>2. Newest(rows \cup {row})
        = {r \in rows \cup {row} : \A q \in rows \cup {row} : q.seq <= r.seq}
  BY <1>1, NewestAreHighest
<1> QED
  BY <1>1, <1>2
\* A set of numbers has a least element.
LEMMA LeastNumber ==
  ASSUME NEW S \in SUBSET Nat, S # {}
  PROVE  \E n \in S : \A m \in S : n <= m
<1> DEFINE Less == {p \in Nat \X Nat : p[1] < p[2]}
<1>1. IsWellFoundedOn(Less, Nat)
  BY NatLessThanWellFounded DEF OpToRel
<1>2. PICK n \in S : \A k \in S : ~ (<<k, n>> \in Less)
  <2> HIDE DEF Less
  <2> QED
    BY <1>1, WFMin
<1>3. ASSUME NEW m \in S PROVE n <= m
  <2>1. n \in Nat /\ m \in Nat
    OBVIOUS
  <2>2. m < n => <<m, n>> \in Less
    BY <2>1
  <2>3. ~ (<<m, n>> \in Less)
    BY <1>2
  <2> QED
    BY <2>1, <2>2, <2>3
<1> QED
  BY <1>3

=============================================================================
