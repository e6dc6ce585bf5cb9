------------------------------ MODULE MCLanding ------------------------------
(* The sources and recipes Landing is checked with.                         *)
EXTENDS Landing, TLC

CONSTANTS int, text,             \* the types the source sends its column with
          k1, k2,                \* keys
          plain, narrow, cast    \* a recipe, the same with a filter, one that casts

Row(k, n) == [key |-> k, tag |-> n]

\* Rows that come, change and go, one that carries a key twice, and the column under
\* either type, one with a key that is NULL.
Sends ==
  {[type |-> int, rows |-> {Row(k1, 1)}],
   [type |-> int, rows |-> {Row(k1, 2), Row(k2, 1)}],
   [type |-> int, rows |-> {Row(k1, 1), Row(k1, 2)}],
   [type |-> text, rows |-> {Row(k1, 1), Row(Null, 1)}]}

\* The column under either type, and nothing else.
SendsTyped ==
  {[type |-> int, rows |-> {Row(k1, 1)}],
   [type |-> text, rows |-> {Row(k1, 1)}]}

\* One that carries a key twice.
SendsTwice ==
  {[type |-> int, rows |-> {Row(k1, 1)}],
   [type |-> int, rows |-> {Row(k1, 1), Row(k1, 2)}]}

\* One whose key is NULL.
SendsNull ==
  {[type |-> int, rows |-> {Row(Null, 1)}]}

\* One table's two recipes share the column's derivation, the third casts it.
Types ==
  plain :> (int :> int @@ text :> text) @@ narrow :> (int :> int @@ text :> text)
    @@ cast :> (int :> text @@ text :> text)

\* What computes the column: the source's column under its type, cast or not.
Derived ==
  LET as(expr) == int :> <<expr, int>> @@ text :> <<expr, text>>
  IN  plain :> as(plain) @@ narrow :> as(plain) @@ cast :> as(cast)
=============================================================================
