------------------------------ MODULE Evidence ------------------------------
(***************************************************************************)
(* The evidence the record's edges give (glossql_runner.cpp, ParseSide to    *)
(* BehaviorCellsBindReplace): glossql_behavior_cells aligns a measure column's *)
(* table with the tables of events over the declared relationships,          *)
(* glossql_relationship_checks counts each relationship.  Both are bound by   *)
(* reading the record and the tables' shapes, which the plan they leave does  *)
(* not show: what a bind read, BindRead names for the measurement's pin.     *)
(*                                                                         *)
(* One dataset; a landing keeps the columns relationships are declared on, and *)
(* one speaker glosses the roles.  A column's type says of an integer whether  *)
(* its counts are a key's.                                                  *)
(***************************************************************************)
EXTENDS StoreRows, Sequences, FiniteSets, Functions

CONSTANTS
  Landed,       \* the dataset's tables, in the order of their names
  Columns,      \* their columns, in the order every table has them in
  Shapes,       \* per table: what it may land as, [column -> type]
  Missing,      \* the sets of tables a session may begin without
  Declarable,   \* relationships: op, child and parent, each a table and its legs
  Declared,     \* the sequences of them a session may begin from
  Subject,      \* the column whose evidence is measured: table, column
  Claims,       \* role claims: table, column, measure or not
  Glossed,      \* the sequences of them a session may begin from
  MaxMoves,     \* bound: statements after the beginning
  Nothing

TableNames == Range(Landed)

Record == {"main.relationships", "main.glossary", "main.measurements"}

ASSUME EvidenceAssumption ==
  /\ Landed \in Seq(TableNames)
  /\ TableNames \cap Record = {}
  /\ DOMAIN Shapes = TableNames
  /\ Missing \subseteq SUBSET TableNames
  /\ Subject.table \in TableNames
  /\ Declared \subseteq Seq(Declarable)
  /\ \A e \in Declarable : e.child.table \in TableNames /\ e.parent.table \in TableNames
  /\ Glossed \subseteq Seq(Claims)
  /\ MaxMoves \in Nat
  /\ Nothing \notin Nat

Calls == {"behavior_cells", "relationship_checks"}

VARIABLES
  shape,     \* per table: its columns and their types, none of a table that is not there
  edges,     \* relationships, in the order of their seq
  glossed,   \* the glossary's rows of roles: a claim and its seq
  voiced,    \* role claims a function's measurement makes
  version,   \* per relation: statements that moved it
  evidence,  \* a measurement: its call, what it found and what it is pinned to
  aside      \* what moved since it that no pin holds: "voiced", "deleted", "landed"

evidenceVars == <<shape, edges, glossed, voiced, version, evidence, aside>>

NoColumns == [c \in {} |-> Nothing]

ClaimRow(c, seq) == [table |-> c.table, column |-> c.column, measure |-> c.measure, seq |-> seq]

EvidenceInit ==
  /\ \E missing \in Missing :
       shape \in {f \in [TableNames -> UNION Range(Shapes) \cup {NoColumns}] :
                   \A t \in TableNames : f[t] \in IF t \in missing THEN {NoColumns} ELSE Shapes[t]}
  /\ edges \in Declared
  /\ \E claims \in Glossed : glossed = {ClaimRow(claims[n], n) : n \in DOMAIN claims}
  /\ voiced = {}
  /\ version = [r \in TableNames \cup Record |-> 0]
  /\ evidence = Nothing
  /\ aside = {}

-----------------------------------------------------------------------------
(* Shapes and pointers.                                                    *)

IntegerTypes  == {"integer", "key"}
NumericTypes  == {"number"} \cup IntegerTypes
TemporalTypes == {"date"}

Stands(table) == DOMAIN shape[table] # {}

ColumnsOf(table, types) == {c \in DOMAIN shape[table] : shape[table][c] \in types}

Pointer(place, from, to) ==
  [place |-> place, src |-> from.table, srcCols |-> from.legs, dst |-> to.table, dstCols |-> to.legs]

Fits(e) == Len(e.child.legs) = Len(e.parent.legs)

\* An edge's pointers over tables that stand, both ways for <->, each at its place
\* in the order of the record.
Pointers ==
  LET placed == {i \in DOMAIN edges : Fits(edges[i]) /\ Stands(edges[i].child.table) /\ Stands(edges[i].parent.table)}
  IN {Pointer(2 * i, edges[i].child, edges[i].parent) : i \in placed}
     \cup {Pointer(2 * i + 1, edges[i].parent, edges[i].child) : i \in {i \in placed : edges[i].op = "<->"}}

\* The columns of a table a relationship is declared on.
Legs(table) ==
  UNION {(IF p.src = table THEN Range(p.srcCols) ELSE {}) \cup (IF p.dst = table THEN Range(p.dstCols) ELSE {})
           : p \in Pointers}

\* An edge onto a leaf, a table with no edges of its own.
OwnsEntity(ps, table) ==
  \E p \in ps : p.src = table /\ p.dst # table /\ \A q \in ps : q.src # p.dst

\* A hop is the pointer it goes along, or none.
Own(table, column) == [label |-> <<table, column>>, column |-> column, borrowed |-> {}]

Lent(p, column) == [label |-> <<p.dst, column, p.srcCols>>, column |-> column, borrowed |-> {p}]

\* A table's own dates, or with none those one declared hop away, each label once.
TimeAxes(table) ==
  LET own == {Own(table, c) : c \in ColumnsOf(table, TemporalTypes)}
      hops == {p \in Pointers : p.src = table /\ p.dst # table}
      Alike(p, q) == p.dst = q.dst /\ p.srcCols = q.srcCols
      firsts == {p \in hops : \A q \in hops : Alike(p, q) => p.place <= q.place}
  IN IF own # {} THEN own
     ELSE UNION {{Lent(p, c) : c \in ColumnsOf(p.dst, TemporalTypes)} : p \in firsts}

-----------------------------------------------------------------------------
(* Alignments.  rank is where the loops find one: its shape, then the places  *)
(* of its edges in the record.                                              *)

Before(r, s) == \E n \in DOMAIN r : r[n] < s[n] /\ \A m \in 1..(n - 1) : r[m] = s[m]

Align(rank, mCols, eCols, via, eVia) ==
  [rank |-> rank, mCols |-> mCols, eCols |-> eCols, via |-> via, eVia |-> eVia]

\* An edge between the two.
Direct(ps, table, ev) ==
  {Align(<<1, p.place, 0, 0>>, p.srcCols, p.dstCols, {}, {}) : p \in {p \in ps : p.src = table /\ p.dst = ev}}
  \cup
  {Align(<<1, p.place, 0, 0>>, p.dstCols, p.srcCols, {}, {}) : p \in {p \in ps : p.src = ev /\ p.dst = table}}

\* The pointers of the event table onto p's key.
OntoKey(ps, ev, p) == {q \in ps : q.src = ev /\ q.dst = p.dst /\ q.dstCols = p.dstCols}

\* Two edges that meet at a dimension's key.
Meeting(ps, table, ev) ==
  UNION {{Align(<<2, p.place, q.place, 0>>, p.srcCols, q.srcCols, {}, {}) : q \in OntoKey(ps, ev, p)}
           : p \in {p \in ps : p.src = table /\ p.dst \notin {table, ev}}}

\* The measure's entity borrowed from a document, when it owns none.
Borrowed(ps, table, ev) ==
  UNION {UNION {{Align(<<3, p1.place, p2.place, q.place>>, p2.srcCols, q.srcCols, {p1}, {})
                   : q \in OntoKey(ps, ev, p2)}
                  : p2 \in {p2 \in ps : p2.src = p1.dst /\ p2.dst \notin {table, ev}}}
           : p1 \in {p1 \in ps : ~ OwnsEntity(ps, table) /\ p1.src = table /\ p1.dst # table}}

\* The event's entity borrowed from its document: it meets the measure table
\* itself, or the measure's key.
EventBorrowed(ps, table, ev) ==
  LET Masters(q1) == {q2 \in ps : q2.src = q1.dst /\ q2.dst # ev}
  IN UNION {UNION {IF q2.dst = table
                   THEN {Align(<<4, q1.place, q2.place, 0>>, q2.dstCols, q2.srcCols, {}, {q1})}
                   ELSE {Align(<<4, q1.place, q2.place, p.place>>, p.srcCols, q2.srcCols, {}, {q1})
                           : p \in OntoKey(ps, table, q2)}
                     : q2 \in Masters(q1)}
              : q1 \in {q1 \in ps : q1.src = ev /\ q1.dst \notin {ev, table}}}

Through(hop) == {p.dst : p \in hop}

\* What an alignment joins on, as its key and its label spell it.
Label(al) == <<Through(al.via), al.mCols, Through(al.eVia), al.eCols>>

\* Every alignment found.
DedupedNever(aligns) == aligns

\* The first found of each label.
Deduped(aligns) ==
  {a \in aligns : \A b \in aligns : Label(b) = Label(a) => ~ Before(b.rank, a.rank)}

Alignments(table, ev) ==
  LET ps == Pointers
      aligns == Direct(ps, table, ev) \cup Meeting(ps, table, ev) \cup Borrowed(ps, table, ev)
  IN Deduped(IF aligns = {} THEN EventBorrowed(ps, table, ev) ELSE aligns)

\* The measure's key without the document it is borrowed from.
MeasureLabelCols(al) == <<{}, al.mCols>>

\* The measure side's key, which its cells carry.
MeasureLabel(al) == <<Through(al.via), al.mCols>>

-----------------------------------------------------------------------------
(* The cells.                                                              *)

\* One side of an alignment: the tables joined, the time, the entity.
SideOf(table, axis, hop, cols) == [table |-> table, axis |-> axis, hop |-> hop, cols |-> cols]

SideTables(s) == {s.table} \cup Through(s.hop) \cup Through(s.axis.borrowed)

On(claims, table, column) == {c \in claims : c.table = table /\ c.column = column}

\* The newest claim is served: the glossary's before a function's.
Role(table, column) ==
  LET glosses == On(glossed, table, column)
  IN IF glosses # {} THEN Newest(glosses) ELSE On(voiced, table, column)

\* The event table's numeric columns but its legs, and those the record calls measures.
Candidates(ev) == ColumnsOf(ev, NumericTypes) \ Legs(ev)
Pool(ev)       == {c \in Candidates(ev) : \E r \in Role(ev, c) : r.measure}
Terms(ev, al)  == Pool(ev) \ Range(al.eCols)

\* The event tables that align on some axis and have a movement to name.
Events(table) ==
  {ev \in TableNames \ {table} :
     Alignments(table, ev) # {} /\ TimeAxes(ev) # {} /\ Candidates(ev) # {}}

Unglossed(table) ==
  UNION {{[side |-> "unglossed", event |-> ev, al |-> al, align |-> Label(al), measureAlign |-> MeasureLabel(al),
           axis |-> eaxis.label, term |-> maxis.label]
            : al \in Alignments(table, ev), eaxis \in TimeAxes(ev), maxis \in TimeAxes(table)}
           : ev \in {ev \in Events(table) : Pool(ev) = {}}}

\* The alignments that have cells: an event table and one of its alignments.
Emitting(table) ==
  UNION {{[event |-> ev, al |-> al] : al \in {al \in Alignments(table, ev) : Terms(ev, al) # {}}} : ev \in Events(table)}

Place(table) == CHOOSE i \in DOMAIN Landed : Landed[i] = table

\* The order the loops reach them in.
Rank(e) == <<Place(e.event), e.al.rank[1], e.al.rank[2], e.al.rank[3], e.al.rank[4]>>

\* The measure side, once per axis and key: the first alignment that asks for it.
MeasureSide(table, emitting) ==
  UNION {{[side |-> "measure", align |-> MeasureLabel(e.al), axis |-> maxis.label,
           from |-> SideOf(table, maxis, e.al.via, e.al.mCols)] : maxis \in TimeAxes(table)}
           : e \in {e \in emitting : \A f \in emitting :
                      MeasureLabel(f.al) = MeasureLabel(e.al) => ~ Before(Rank(f), Rank(e))}}

\* The event side: an alignment's row per axis, and each term's cells.
EventSide(emitting) ==
  UNION {{[side |-> IF term = Nothing THEN "alignment" ELSE "event", event |-> e.event, al |-> e.al,
           align |-> Label(e.al), measureAlign |-> MeasureLabel(e.al), axis |-> eaxis.label, term |-> term,
           from |-> SideOf(e.event, eaxis, e.al.eVia, e.al.eCols)]
            : eaxis \in TimeAxes(e.event), term \in {Nothing} \cup Terms(e.event, e.al)}
           : e \in emitting}

ColumnSide(emitting) ==
  UNION {{[side |-> "column", event |-> ev, term |-> c, identifier |-> c \in Legs(ev)]
            : c \in ColumnsOf(ev, NumericTypes)}
           : ev \in {e.event : e \in emitting}}

Cells(table) ==
  LET emitting == Emitting(table)
  IN Unglossed(table) \cup MeasureSide(table, emitting) \cup EventSide(emitting) \cup ColumnSide(emitting)

PlanReads(cells) == (UNION {SideTables(c.from) : c \in {c \in cells : c.side \in {"measure", "event"}}})
                    \cup {c.event : c \in {c \in cells : c.side = "column"}}

-----------------------------------------------------------------------------
(* What a call finds, and the relations it is pinned to.                   *)

Reason(why) == {[side |-> "reason", reason |-> why]}

\* The child's table alone.
LegsNamedChild == {p.src : p \in Pointers}

\* The tables of every pointer.
LegsNamed == UNION {{p.src, p.dst} : p \in Pointers}

Answer(cells, names) == [cells |-> cells, names |-> names]

BehaviorCells ==
  LET table == Subject.table
      column == Subject.column
      bound == {table, "main.relationships"} \cup LegsNamed
      cells == Cells(table)
  IN IF column \notin DOMAIN shape[table] THEN Answer(Reason("no column"), {table})
     ELSE IF shape[table][column] \notin NumericTypes THEN Answer(Reason("not a number"), {table})
     ELSE IF column \in Legs(table) THEN Answer(Reason("a leg"), bound)
     ELSE IF TimeAxes(table) = {} THEN Answer(Reason("no period axis"), bound)
     ELSE IF shape[table][column] = "key" THEN Answer(Reason("key-shaped"), bound)
     ELSE IF cells = {} THEN Answer(Reason("no event table"), bound \cup {"main.glossary"})
     ELSE Answer(cells, bound \cup {"main.glossary"} \cup PlanReads(cells))

\* The first three dates of a table, in the order of its columns.
FirstDates(table) ==
  LET dates == ColumnsOf(table, TemporalTypes)
      PlaceOf(c) == CHOOSE n \in DOMAIN Columns : Columns[n] = c
  IN {c \in dates : Cardinality({d \in dates : PlaceOf(d) < PlaceOf(c)}) < 3}

\* The edges checked: one leg or a pair, as many on both sides.
Checked == {i \in DOMAIN edges : Fits(edges[i]) /\ Len(edges[i].child.legs) <= 2}

\* A relationship's counts, and the pairs of dates compared on it.
Checks ==
  {[side |-> "check", seq |-> Cardinality({j \in Checked : j < i}), edge |-> edges[i],
    pairs |-> IF edges[i].child.table = edges[i].parent.table THEN {}
              ELSE FirstDates(edges[i].child.table) \X FirstDates(edges[i].parent.table)]
     : i \in Checked}

RelationshipChecks ==
  IF Checks = {} THEN Answer(Reason("no declared relationships"), {"main.relationships"})
  ELSE Answer(Checks, {"main.relationships"}
                        \cup UNION {{c.edge.child.table, c.edge.parent.table} : c \in Checks})

Found == [c \in Calls |-> IF c = "behavior_cells" THEN BehaviorCells ELSE RelationshipChecks]

-----------------------------------------------------------------------------
(* Steps.                                                                  *)

MoreMoves == FoldFunction(LAMBDA n, moves : n + moves, 0, version) < MaxMoves

\* A statement moved a relation; by is what of it no pin holds.
Moved(relation, by) ==
  /\ MoreMoves
  /\ version' = [version EXCEPT ![relation] = @ + 1]
  /\ aside' = aside \cup by
  /\ UNCHANGED evidence

\* A relation's leg: a table's while it stands, the glossary's newest seq.
Leg(relation) ==
  IF relation \in TableNames /\ ~ Stands(relation) THEN Nothing
  ELSE IF relation = "main.glossary" THEN TopSeq(glossed)
  ELSE version[relation]

\* The tables relationships are declared over.
Related == UNION {{e.child.table, e.parent.table} : e \in Range(edges)}

\* A table lands, for the first time or again.
LandTable(t, s) ==
  /\ Moved(t, IF t \in Related /\ ~ Stands(t) THEN {"landed"} ELSE {})
  /\ shape' = [shape EXCEPT ![t] = s]
  /\ UNCHANGED <<edges, glossed, voiced>>

DropTable(t) ==
  /\ Stands(t)
  /\ Moved(t, {})
  /\ shape' = [shape EXCEPT ![t] = NoColumns]
  /\ UNCHANGED <<edges, glossed, voiced>>

Declare(e) ==
  /\ e \notin Range(edges)
  /\ Moved("main.relationships", {})
  /\ edges' = Append(edges, e)
  /\ UNCHANGED <<shape, glossed, voiced>>

GlossRole(c) ==
  /\ Moved("main.glossary", {})
  /\ glossed' = glossed \cup {ClaimRow(c, TopSeq(glossed) + 1)}
  /\ UNCHANGED <<shape, edges, voiced>>

DeleteRole(row) ==
  /\ Moved("main.glossary", {"deleted"})
  /\ glossed' = glossed \ {row}
  /\ UNCHANGED <<shape, edges, voiced>>

\* A function that speaks role measures the column.
VoiceRole(c) ==
  /\ Moved("main.measurements", {"voiced"})
  /\ voiced' = (voiced \ On(voiced, c.table, c.column)) \cup {c}
  /\ UNCHANGED <<shape, edges, glossed>>

\* A check over a table that is not there does not bind.
Binds(call) ==
  call = "relationship_checks" => \A i \in Checked : Stands(edges[i].child.table) /\ Stands(edges[i].parent.table)

\* The call is run and its row pinned to the legs of what it read.
Extract(call) ==
  /\ Binds(call)
  /\ LET found == Found[call]
     IN evidence' = [call |-> call, cells |-> found.cells, at |-> [n \in found.names |-> Leg(n)]]
  /\ aside' = {}
  /\ UNCHANGED <<shape, edges, glossed, voiced, version>>

EvidenceNext ==
  \/ \E t \in TableNames : \E s \in Shapes[t] : LandTable(t, s)
  \/ \E t \in TableNames : DropTable(t)
  \/ \E e \in Declarable : Declare(e)
  \/ \E c \in Claims : GlossRole(c) \/ VoiceRole(c)
  \/ \E row \in glossed : DeleteRole(row)
  \/ \E call \in Calls : Extract(call)

EvidenceSpec == EvidenceInit /\ [][EvidenceNext]_evidenceVars

-----------------------------------------------------------------------------
(* What a reader may take from a row.                                      *)

Hits == evidence # Nothing /\ \A n \in DOMAIN evidence.at : Leg(n) = evidence.at[n]

\* The call run now would find what the row says.
FoundAgain == Binds(evidence.call) /\ evidence.cells = Found[evidence.call].cells

\* "The row misses when one of them moves": a row that hits is what its call
\* would find now, whatever landed, was dropped, declared or glossed since, but for
\* three things no pin holds: a function that spoke role, a role gloss deleted, a
\* table of the relationships that landed where there was none.
PinTells == Hits /\ aside = {} => FoundAgain

\* The same when functions spoke role.
PinTellsVoices == Hits /\ aside \subseteq {"voiced"} => FoundAgain

\* The same when role glosses were deleted, or tables landed under relationships.
\* (Of no run: each is broken.)
PinTellsDeleted == Hits /\ aside \subseteq {"deleted"} => FoundAgain
PinTellsLanded == Hits /\ aside \subseteq {"landed"} => FoundAgain

\* No cells are counted twice: what a row is labelled with, one alignment and one
\* axis give, however many edges lead to it.
CellsOnce ==
  LET LabelsOf(c) == [c EXCEPT !.al = Nothing]
      labelled == {c \in BehaviorCells.cells : c.side \in {"unglossed", "alignment", "event"}}
  IN \A c, d \in labelled : LabelsOf(c) = LabelsOf(d) => c = d

\* The measure's cells are shared by every alignment that keys it so: for each
\* there are some on every axis of the measure, once, and joined as this
\* alignment joins them, through the same legs of the same document.
MeasureServes ==
  LET cells == BehaviorCells.cells
      measure == {m \in cells : m.side = "measure"}
      axes == TimeAxes(Subject.table)
  IN \A r \in {c \in cells : c.side = "event"}, maxis \in axes :
       {m.from : m \in {m \in measure : m.align = r.measureAlign /\ m.axis = maxis.label}}
         = {SideOf(Subject.table, maxis, r.al.via, r.al.mCols)}

=============================================================================
