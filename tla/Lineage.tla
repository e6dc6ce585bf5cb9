------------------------------ MODULE Lineage ------------------------------
(***************************************************************************)
(* Column lineage (glossql_lineage.cpp): what computes each column of a    *)
(* query, read off its bound plan, and what a landing records of it.       *)
(*                                                                         *)
(* A plan is the sequence of its operators in the order the walk comes to  *)
(* them: the plans beneath before what stands over them, a CTE's           *)
(* definition before its query; the last is the top.  An operator is       *)
(* [op, of, exprs, kids, width]: `of` is the scan, the set operation's     *)
(* word, the CTE's name or the join's type, `kids` the places of those     *)
(* beneath.  The binder's table index is the operator's place, a column    *)
(* binding <<place, i>>.  An expression is such a sequence too, of nodes   *)
(* [class, word, args]; a column reference's word is its position among    *)
(* the columns beneath.  A text is [head, args, known]: the strings the    *)
(* code joins nest their parts in parentheses.                             *)
(*                                                                         *)
(* A behaviour lands a recipe again and again: as its query is reshaped or *)
(* edited, or its source sends a column under another type.                *)
(***************************************************************************)
EXTENDS Integers, Sequences

CONSTANTS
  Seeds,       \* queries a recipe is first declared with
  Tables,      \* per table: its scan's name and its columns
  ColumnTypes, \* the types a source's column arrives under
  Others,      \* expressions a column is edited to compute, over one argument
  MaxLandings  \* bound: landings of a behaviour

VARIABLES
  query,    \* the recipe's query, as bound
  types,    \* per table and column: the type at the source
  record,   \* what the newest landing recorded per column
  before,   \* what the landing before it recorded
  change,   \* what came between them: the step, the columns it touched and those told of
  landings  \* landings so far

lineageVars == <<query, types, record, before, change, landings>>

-----------------------------------------------------------------------------
(* Texts.                                                                  *)

Over(head, args) == [head |-> head, args |-> args, known |-> \A i \in DOMAIN args : args[i].known]
Unknown == [head |-> <<"?">>, args |-> <<>>, known |-> FALSE]

HoldsUnknown(t) == ~ t.known

\* What was found of a binding.
TextOf(b, text) == IF b[1] \in DOMAIN text /\ b[2] \in DOMAIN text[b[1]] THEN text[b[1]][b[2]] ELSE Unknown

\* A head that leaves the aggregate's DISTINCT out.
HeadOfPlain(e) ==
  CASE e.class \in {"function", "aggregate", "distinct"} -> <<"name", e.word>>
    [] e.class \in {"window", "framed"} -> <<"over", e.word>>
    [] e.class = "cast"                 -> <<"cast", e.word>>
    [] e.class = "lambda"               -> <<"lambda">>
    [] OTHER                            -> <<"unnest">>

\* The head of an expression that is no leaf: how the code writes its class, and the
\* word of those it writes one of.  Of a window neither frame nor direction is.
HeadOf(e) ==
  CASE e.class \in {"function", "aggregate"} -> <<"name", e.word>>
    [] e.class = "distinct"                  -> <<"distinct", e.word>>
    [] e.class = "cast"                      -> <<"cast", e.word>>
    [] e.class \in {"window", "framed"}      -> <<"over", e.word>>
    [] e.class \in {"conjunction", "operator", "case", "unnest"} -> <<"unnest">>
    [] e.class = "lambda"                    -> <<"lambda">>

\* A node's text, from those of its arguments.
NodeText(e, n, beneath, text, node) ==
  CASE e[n].class = "ref"       -> TextOf(beneath[e[n].word], text)
    [] e[n].class = "constant"  -> Over(<<e[n].word>>, <<>>)
    [] e[n].class = "subquery"  -> Unknown
    [] OTHER -> Over(HeadOf(e[n]), [i \in DOMAIN e[n].args |-> node[e[n].args[i]]])

\* The derivation text of an expression over the columns bound beneath it.
Text(e, beneath, text) ==
  LET node[n \in DOMAIN e] == NodeText(e, n, beneath, text, node) IN node[Len(e)]

-----------------------------------------------------------------------------
(* The walk.                                                               *)

\* The plans whose columns an operator passes on.
Passed(op) ==
  CASE op.op = "cte"                                          -> {2}
    [] op.op = "join"                                         -> IF op.of \in {"mark", "semi"} THEN {1} ELSE {1, 2}
    [] op.op \in {"window", "unnest", "pass", "unfollowed"}   -> {1}
    [] OTHER                                                  -> {}

\* How many columns an operator makes of its own; the others pass.
Own(q, x, out) ==
  CASE q[x].op = "get"                                -> Len(Tables[q[x].of].columns)
    [] q[x].op \in {"cteref", "values", "recursive"}  -> q[x].width
    [] q[x].op = "setop"                              -> Len(out[q[x].kids[1]])
    [] q[x].op = "join"                               -> IF q[x].of = "mark" THEN 1 ELSE 0
    [] OTHER                                          -> Len(q[x].exprs)

OutputsBy(q, x, out) ==
  LET passed(k) == IF k \in Passed(q[x]) THEN out[q[x].kids[k]] ELSE <<>>
  IN  (passed(1) \o passed(2)) \o [i \in 1 .. Own(q, x, out) |-> <<x, i>>]

\* GetColumnBindings: the bindings of each operator's output, in order.
Bindings(q) ==
  LET out[x \in DOMAIN q] == OutputsBy(q, x, out) IN out

\* The bindings an operator's expressions see.
Beneath(q, x, out) ==
  LET kid(k) == IF k \in DOMAIN q[x].kids THEN out[q[x].kids[k]] ELSE <<>>
  IN  kid(1) \o kid(2)

TextsOf(bindings, text) == [i \in DOMAIN bindings |-> TextOf(bindings[i], text)]

\* A leaf that leaves the type out.
LeafUntyped(ty, t, i) == Over(<<Tables[t].scan, Tables[t].columns[i]>>, <<>>)

\* A leaf: the scan, the column and its type at the source.
Leaf(ty, t, i) == Over(<<Tables[t].scan, Tables[t].columns[i], ty[t][Tables[t].columns[i]]>>, <<>>)

\* What a reference to a CTE finds defined: a definition walked before it.
Definitions(q, x) ==
  {k \in 1 .. x - 1 : \E c \in DOMAIN q : q[c].op = "cte" /\ q[c].of = q[x].of /\ q[c].kids[1] = k}

\* The texts of the definition's outputs.
CteColumns(q, x, out, text) ==
  IF Definitions(q, x) = {} THEN <<>> ELSE TextsOf(out[CHOOSE k \in Definitions(q, x) : TRUE], text)

\* A column of a CTE that reads as the CTE's own.
CteTextNamed(i, columns) == IF i \in DOMAIN columns THEN Over(<<"cte">>, <<columns[i]>>) ELSE Unknown

\* A column of a CTE, by what its definition's outputs read.
CteText(i, columns) == IF i \in DOMAIN columns THEN columns[i] ELSE Unknown

\* A column of a set operation: its word over what each side has there.
SidesText(word, i, sides) ==
  Over(<<word>>, [k \in DOMAIN sides |-> IF i \in DOMAIN sides[k] THEN sides[k][i] ELSE Unknown])

\* The texts of the columns an operator makes, from those found so far.
OwnTexts(q, x, ty, out, text) ==
  LET op    == q[x]
      own   == 1 .. Own(q, x, out)
      sides == [k \in DOMAIN op.kids |-> TextsOf(out[op.kids[k]], text)]
  IN CASE op.op = "get"       -> [i \in own |-> Leaf(ty, op.of, i)]
       [] op.op = "setop"     -> [i \in own |-> SidesText(op.of, i, sides)]
       [] op.op = "cteref"    -> [i \in own |-> CteText(i, CteColumns(q, x, out, text))]
       [] op.op = "values"    -> [i \in own |-> Over(<<"values">>, <<>>)]
       [] op.op = "join"      -> [i \in own |-> Over(<<"mark">>, <<>>)]
       [] op.op = "recursive" -> <<>>
       [] OTHER               -> [i \in own |-> Text(op.exprs[i], Beneath(q, x, out), text)]

\* The walk: what each operator binds, in order.
Walk(q, ty) ==
  LET out == Bindings(q)
      found[n \in 0 .. Len(q)] ==
        IF n = 0 THEN <<>>
        ELSE LET text == found[n - 1] IN Append(text, OwnTexts(q, n, ty, out, text))
  IN  found[Len(q)]

\* The operators the walk has no case for; a recursive CTE's columns are its own.
Unfollowed(op) == op.op \in {"recursive", "unfollowed"}

\* LineageOf: the walk over the plan, and the texts of its outputs.
LineageOf(q, ty) ==
  LET text == Walk(q, ty)
  IN  [columns  |-> TextsOf(Bindings(q)[Len(q)], text),
       complete |-> \A x \in DOMAIN q :
                      ~ Unfollowed(q[x]) /\ \A i \in DOMAIN text[x] : ~ HoldsUnknown(text[x][i])]

\* LineageJson: of a column the walk could not follow, its SQL.
LineageJson(lineage, q) ==
  [i \in DOMAIN lineage.columns |->
     IF HoldsUnknown(lineage.columns[i]) THEN <<"unknown", q>> ELSE <<"derived", lineage.columns[i]>>]

Followed(r, i) == r[i][1] = "derived"

-----------------------------------------------------------------------------
(* What a plan is.                                                         *)

Classes == {"ref", "constant", "subquery", "function", "aggregate", "distinct", "cast", "window", "framed",
            "conjunction", "operator", "case", "unnest", "lambda"}

\* An expression over so many columns: every node but the top is an argument.
IsExpression(e, arity) ==
  /\ Len(e) \in Nat \ {0} /\ e = [n \in 1 .. Len(e) |-> e[n]]
  /\ \A n \in DOMAIN e :
       /\ e[n] = [class |-> e[n].class, word |-> e[n].word, args |-> e[n].args]
       /\ e[n].class \in Classes
       /\ e[n].args \in Seq(1 .. n - 1)
       /\ e[n].class = "ref" => e[n].word \in 1 .. arity
       /\ e[n].class \in {"ref", "constant"} => e[n].args = <<>>
       /\ n # Len(e) => \E m \in n + 1 .. Len(e) : \E i \in DOMAIN e[m].args : e[m].args[i] = n

\* Those that compute columns by expressions.
Computing == {"project", "aggregate", "window", "unnest"}
Ops == Computing \cup {"get", "cteref", "values", "recursive", "setop", "join", "cte", "pass", "unfollowed"}

\* The operators stand over earlier ones.
Ordered(q) ==
  /\ Len(q) \in Nat \ {0} /\ q = [x \in 1 .. Len(q) |-> q[x]]
  /\ \A x \in DOMAIN q :
       /\ q[x] = [op |-> q[x].op, of |-> q[x].of, exprs |-> q[x].exprs, kids |-> q[x].kids, width |-> q[x].width]
       /\ q[x].op \in Ops /\ q[x].width \in Nat
       /\ q[x].kids \in Seq(1 .. x - 1) /\ Len(q[x].kids) <= 2
       /\ Passed(q[x]) \cup (IF q[x].op \in {"setop", "cte"} THEN {1} ELSE {}) \subseteq DOMAIN q[x].kids
       /\ q[x].op = "get" => q[x].of \in DOMAIN Tables
       /\ Len(q[x].exprs) \in Nat /\ q[x].exprs = [i \in 1 .. Len(q[x].exprs) |-> q[x].exprs[i]]
       /\ q[x].op \notin Computing => q[x].exprs = <<>>

Bound(q) ==
  \A x \in DOMAIN q : \A i \in DOMAIN q[x].exprs :
    IsExpression(q[x].exprs[i], Len(Beneath(q, x, Bindings(q))))

\* No two CTEs of a query go by one name.
Named(q) ==
  \A x, y \in DOMAIN q : q[x].op = "cte" /\ q[y].op = "cte" /\ q[x].of = q[y].of => x = y

IsPlan(q) == Ordered(q) /\ Bound(q) /\ Named(q)

\* The names a query's CTEs and the references to them go by.
Names(q) == {q[x].of : x \in {y \in DOMAIN q : q[y].op \in {"cte", "cteref"}}}

\* The queries first declared are plans, and leave the names of Reshape alone; a
\* table's columns have names of their own.
ASSUME LineageAssumption ==
  /\ \A q \in Seeds : IsPlan(q) /\ Names(q) \cap (0 .. MaxLandings) = {}
  /\ \A t \in DOMAIN Tables :
       /\ Len(Tables[t].columns) \in Nat
       /\ Tables[t].columns = [i \in 1 .. Len(Tables[t].columns) |-> Tables[t].columns[i]]
       /\ \A i, j \in DOMAIN Tables[t].columns : Tables[t].columns[i] = Tables[t].columns[j] => i = j
  /\ \A o \in Others :
       /\ o = [class |-> o.class, word |-> o.word, args |-> <<>>]
       /\ o.class \in Classes \ {"ref", "constant"}
  /\ MaxLandings \in Nat /\ ColumnTypes # {}

-----------------------------------------------------------------------------
(* A recipe's life: each step is a landing under what changed before it.   *)

Operator(op, of, exprs, kids) == [op |-> op, of |-> of, exprs |-> exprs, kids |-> kids, width |-> 0]
Ref(i) == <<[class |-> "ref", word |-> i, args |-> <<>>]>>
Refs(n) == [i \in 1 .. n |-> Ref(i)]

\* The same columns as those of the operator at x by operators over it: a filter, a
\* limit or an order, a semi-join, a subquery, a CTE, a join of which nothing is read.
Reshaped(q, x) ==
  LET all    == Refs(Len(Bindings(q)[x]))
      get(t) == Operator("get", t, <<>>, <<>>)
  IN  {<<Operator("pass", "none", <<>>, <<x>>)>>,
       <<Operator("project", "none", all, <<x>>)>>,
       <<[Operator("cteref", landings, <<>>, <<>>) EXCEPT !.width = Len(all)],
         Operator("cte", landings, <<>>, <<x, x + 1>>)>>}
      \cup {<<get(t), Operator("join", "semi", <<>>, <<x, x + 1>>)>> : t \in DOMAIN Tables}
      \cup {<<get(t), Operator("join", "inner", <<>>, <<x, x + 1>>), Operator("project", "none", all, <<x + 2>>)>>
              : t \in DOMAIN Tables}

\* What stood over the operator at x stands over the last of those put in above it.
Lifted(op, x, n) ==
  [op EXCEPT !.kids = [k \in DOMAIN op.kids |-> IF op.kids[k] < x THEN op.kids[k] ELSE op.kids[k] + n]]

Insert(q, x, new) ==
  [y \in 1 .. Len(q) + Len(new) |->
     IF y <= x THEN q[y]
     ELSE IF y <= x + Len(new) THEN new[y - x] ELSE Lifted(q[y - Len(new)], x, Len(new))]

\* What an aggregate is made, and a window: distinct, of another frame.
Remade == [aggregate |-> "distinct", distinct |-> "distinct", window |-> "framed", framed |-> "framed"]

\* Another expression over the same: computed further or by another word, or an
\* aggregate or a window remade, or one whose argument is computed.
Edited(e) ==
  LET n   == Len(e)
      top == e[n]
  IN  IF top.class \in DOMAIN Remade
      THEN {[e EXCEPT ![n].class = Remade[top.class]]}
             \cup {Append([e EXCEPT ![n] = [o EXCEPT !.args = top.args]], [top EXCEPT !.args = <<n>>]) : o \in Others}
      ELSE {Append(e, [o EXCEPT !.args = <<n>>]) : o \in Others}
             \cup {[e EXCEPT ![n] = [o EXCEPT !.args = top.args]] : o \in {w \in Others : Len(top.args) = 1}}

\* What no text tells apart: conditions, operators and cases, whatever they are; a
\* window and one of another frame.
Unsaid(v, w) ==
  \/ {v.class, w.class} \subseteq {"conjunction", "operator", "case", "unnest"}
  \/ v.class = "lambda" /\ w.class = "lambda"
  \/ v.word = w.word /\ \E k \in {{"function", "aggregate"}, {"window", "framed"}} : {v.class, w.class} \subseteq k

Untold(e, d) == Len(d) = Len(e) /\ Unsaid(e[Len(e)], d[Len(e)])

\* The column at c, where its text tells that it is computed by d for e.
ToldOf(e, d, c) == IF Untold(e, d) THEN {} ELSE {c}

\* A landing of q under the types ty, which came about by c.
Land(q, ty, c) ==
  /\ landings < MaxLandings
  /\ query' = q
  /\ types' = ty
  /\ record' = LineageJson(LineageOf(q, ty), q)
  /\ before' = record
  /\ change' = c
  /\ landings' = landings + 1

FirstLanding ==
  /\ query \in Seeds
  /\ types = [t \in DOMAIN Tables |->
                [c \in {Tables[t].columns[i] : i \in DOMAIN Tables[t].columns} |-> CHOOSE ty \in ColumnTypes : TRUE]]
  /\ record = LineageJson(LineageOf(query, types), query)
  /\ before = record
  /\ change = [step |-> "reshape", touched |-> {}, told |-> {}]
  /\ landings = 0

Reshape ==
  \E x \in DOMAIN query : \E new \in Reshaped(query, x) :
    Land(Insert(query, x, new), types, [step |-> "reshape", touched |-> {}, told |-> {}])

\* One column of one operator is computed otherwise.
Edit ==
  \E x \in DOMAIN query : \E j \in DOMAIN query[x].exprs :
    \E e \in Edited(query[x].exprs[j]) \ {query[x].exprs[j]} :
      Land([query EXCEPT ![x].exprs[j] = e], types,
           [step |-> "edit", touched |-> {<<x, j>>}, told |-> ToldOf(query[x].exprs[j], e, <<x, j>>)])

\* The source sends a column under another type.
Retype ==
  \E t \in DOMAIN Tables : \E j \in DOMAIN Tables[t].columns : \E ty \in ColumnTypes :
    LET leaves == {<<x, j>> : x \in {y \in DOMAIN query : query[y].op = "get" /\ query[y].of = t}}
    IN  /\ ty # types[t][Tables[t].columns[j]]
        /\ Land(query, [types EXCEPT ![t][Tables[t].columns[j]] = ty],
                [step |-> "retype", touched |-> leaves, told |-> leaves])

LandAgain == Reshape \/ Edit \/ Retype

LineageSpec == FirstLanding /\ [][LandAgain]_lineageVars

-----------------------------------------------------------------------------
(* What a landing's record tells, by a reference that reads no text: the     *)
(* columns that a column is derived from.                                    *)

RefsOf(e) == {e[n].word : n \in {m \in DOMAIN e : e[m].class = "ref"}}

\* The columns that column i of those an operator makes is computed from.
Read(q, x, i, out) ==
  CASE q[x].op = "setop"  -> {out[k][i] : k \in {y \in {q[x].kids[s] : s \in DOMAIN q[x].kids} : i \in DOMAIN out[y]}}
    [] q[x].op = "cteref" -> {out[k][i] : k \in {y \in Definitions(q, x) : i \in DOMAIN out[y]}}
    [] q[x].exprs # <<>>  -> {Beneath(q, x, out)[r] : r \in RefsOf(q[x].exprs[i])}
    [] OTHER              -> {}

\* Those it is derived from, itself among them.
DerivedBy(q, x, out, from) ==
  [i \in 1 .. Own(q, x, out) |-> {<<x, i>>} \cup UNION {from[b[1]][b[2]] : b \in Read(q, x, i, out)}]

DerivedFrom(q, i) ==
  LET out == Bindings(q)
      from[x \in DOMAIN q] == DerivedBy(q, x, out, from)
      b == out[Len(q)][i]
  IN  from[b[1]][b[2]]

Differs(i) == record[i] # before[i]

\* Of the columns followed at both landings, those derived from what is told of moved,
\* and no other.
ToldMoved ==
  \A i \in DOMAIN record \cap DOMAIN before :
    Followed(record, i) /\ Followed(before, i) =>
      (Differs(i) <=> DerivedFrom(query, i) \cap change.told # {})

\* "A filter, an order or a limit changes the rows, not what a column is": a
\* subquery, a CTE, a join beside neither.  Of what could not be followed any
\* change of the SQL is told.
ShapeFree ==
  change.step = "reshape" /\ landings > 0 =>
    /\ DOMAIN record = DOMAIN before
    /\ \A i \in DOMAIN record : Followed(record, i) = Followed(before, i)
    /\ \A i \in DOMAIN record : Differs(i) <=> ~Followed(record, i)

\* A source's column that arrives under another type moves the columns derived
\* from it, through any plan, and no other.
RetypeTells == change.step = "retype" => ToldMoved

\* A column computed otherwise, wherever in the plan, moves the columns derived from
\* it and no other; one edited to what the code has no other text for moves none.  Of
\* what cannot be followed any edit is told.
EditTells ==
  change.step = "edit" => ToldMoved /\ \A i \in DOMAIN record : Followed(record, i) \/ Differs(i)

\* The claim above Text: "anything else its expression type over its children", which
\* makes any edit of a column move it.  The code writes "unnest" for most types.
EveryEditMoves ==
  change.step = "edit" =>
    \A i \in DOMAIN record \cap DOMAIN before :
      Followed(record, i) /\ Followed(before, i) /\ DerivedFrom(query, i) \cap change.touched # {} => Differs(i)
=============================================================================
