---------------------------- MODULE MCEvidence ----------------------------
(* Lines of orders, orders of customers, and two tables of what moved.        *)
EXTENDS Evidence, SequencesExt

CONSTANTS
  lines, orders, customers, moves, counts,  \* tables
  amount, order, refund, customer, id, day,  \* columns
  due, sent, paid

MCTables == <<counts, customers, lines, moves, orders>>

MCColumns == <<id, order, refund, customer, day, amount, due, sent, paid>>

MCSubject == [table |-> lines, column |-> amount]

Shape(keys, others) == [c \in keys \cup DOMAIN others |-> IF c \in keys THEN "text" ELSE others[c]]

\* A line has no day of its own and borrows its order's, once that has one; its
\* amounts may look like a key's.
MCShapes ==
  [t \in Range(MCTables) |->
     CASE t = lines     -> {Shape({order, refund, customer}, [x \in {amount} |-> type]) : type \in {"integer", "key"}}
       [] t = orders    -> {Shape({id, customer}, [x \in {day, due, sent, paid} |-> type]) : type \in {"text", "date"}}
       [] t = customers -> {Shape({id}, <<>>)}
       [] OTHER         -> {Shape({order, customer}, [x \in {amount, day} |-> IF x = day THEN "date" ELSE "number"])}]

Edge(from, leg, op, to, key) ==
  [child |-> [table |-> from, legs |-> <<leg>>], op |-> op, parent |-> [table |-> to, legs |-> <<key>>]]

\* A line's order and its refund lead to one document; customers are met from
\* orders, moves, counts and lines; lines and moves are also joined both ways.
MCEdges ==
  <<Edge(lines, order, "->", orders, id), Edge(lines, refund, "->", orders, id),
    Edge(orders, customer, "->", customers, id), Edge(moves, customer, "->", customers, id),
    Edge(counts, customer, "->", customers, id), Edge(lines, customer, "<->", moves, customer),
    Edge(counts, order, "->", orders, id), Edge(lines, customer, "->", customers, id)>>

MCDeclarable == Range(MCEdges)

\* None of them, or some in this order or in the other: a customer met through
\* the order, or the refund first; beside an edge both ways; with a customer of
\* the line's own; and moves counted on the order alone.
MCDeclared ==
  LET Some == {[i \in DOMAIN places |-> MCEdges[places[i]]] :
                 places \in {<<1, 2, 3, 4, 5>>, <<1, 3, 4, 6>>, <<1, 3, 5, 6>>, <<1, 4, 8>>, <<3, 7, 8>>, <<1, 3, 5, 7>>, <<5, 6, 8>>}}
  IN {<<>>} \cup Some \cup {Reverse(s) : s \in Some}

Claim(t, measure) == [table |-> t, column |-> amount, measure |-> measure]

MCClaims == {Claim(moves, TRUE), Claim(counts, TRUE), Claim(moves, FALSE)}

\* A session begins without the document, the dimension or a table of events, or
\* with all of them.
MCMissing == {{}, {orders}, {customers}, {moves}}

\* An older claim of each table may lie beneath a newer of the other.
MCGlossed == {<<>>} \cup {<<c>> : c \in MCClaims} \cup {<<Claim(moves, TRUE), Claim(counts, TRUE)>>}
=============================================================================
