----------------------------- MODULE StoreRows -----------------------------
(***************************************************************************)
(* The rows of a store relation, as every query over the store takes them: *)
(* a row is numbered one above the highest seq, and the newest row of a    *)
(* name supersedes the others (glossql_runner.cpp, Inner::Seq;             *)
(* glossql_store.cpp, Newest).                                             *)
(***************************************************************************)
EXTENDS Integers

\* coalesce(max(...), 0) over a set of numbers
MaxOf(S) == IF S = {} THEN 0 ELSE CHOOSE n \in S : \A m \in S : m <= n

TopSeq(rows) == MaxOf({r.seq : r \in rows})

\* The row of the highest seq; rows that share it when writers overlapped.
Newest(rows) == {r \in rows : r.seq = TopSeq(rows)}
=============================================================================
