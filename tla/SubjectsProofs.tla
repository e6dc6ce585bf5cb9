--------------------------- MODULE SubjectsProofs ---------------------------
(***************************************************************************)
(* What names keep, for any names, tables, tuples and statements: the nearer *)
(* scope, names that stand, columns as they landed, and rows of a dataset.   *)
(* And what the cells over a dataset's relationships keep: pins that tell,    *)
(* cells counted once, the measure's cells shared.                          *)
(***************************************************************************)
EXTENDS Subjects, Evidence, StoreRowsProofs, SequenceTheorems, WellFoundedInduction, TLAPS

\* What two names mean of a table of the session's dataset that holds the column, no
\* dataset declared and no landing elsewhere changes (ResolvePath): it is resolved by
\* that table alone.
THEOREM SessionIsNearer == Spec => NearerScope
<1>1. ASSUME NEW u, NEW p PROVE NearerScopeKeeps(u, p)
  BY DEF NearerScopeKeeps, ResolvePath, Full, Near, Far, Canonical, ColumnExists
<1>2. [Next]_vars => [\A u \in schemas, p \in Paths : NearerScopeKeeps(u, p)]_vars
  BY <1>1
<1> QED BY <1>2, PTL DEF Spec, NearerScope

-----------------------------------------------------------------------------
(* Paths taken apart.                                                        *)

LEMMA NonEmpty ==
  ASSUME NEW p \in Seq(Names)
  PROVE  Len(p) \in Nat /\ (p # <<>> <=> Len(p) >= 1)
BY EmptySeq, LenProperties

LEMMA Sizes ==
  \A n \in Nat :
    /\ n >= 3 => n > 1 /\ n >= 1 /\ n # 1
    /\ n > 2 => n > 1 /\ n >= 1 /\ n # 2 /\ n # 1 /\ 1 \in 1 .. n /\ 2 \in 1 .. n
    /\ n = 2 => n > 1 /\ n # 1 /\ 2 \in 1 .. n
    /\ n > 1 => n # 1 /\ n >= 1
    /\ n >= 1 => 1 \in 1 .. n
    /\ n = 1 => ~ (n > 1)
OBVIOUS

LEMMA Parts ==
  ASSUME NEW a \in Names, NEW b \in Names, NEW c \in Seq(Names)
  PROVE  LET p == <<a, b>> \o c
         IN /\ p \in Seq(Names)
            /\ Len(p) = 2 + Len(c)
            /\ p[1] = a /\ p[2] = b
            /\ SubSeq(p, 3, Len(p)) = c
<1> DEFINE p == <<a, b>> \o c
<1>1. <<a, b>> \in Seq(Names) /\ Len(<<a, b>>) = 2 /\ <<a, b>>[1] = a /\ <<a, b>>[2] = b
  OBVIOUS
<1>2. p \in Seq(Names) /\ Len(p) = 2 + Len(c)
      /\ \A i \in 1 .. 2 + Len(c) : p[i] = IF i <= 2 THEN <<a, b>>[i] ELSE c[i - 2]
  BY <1>1, ConcatProperties
<1>3. Len(c) \in Nat
  BY LenProperties
<1>4. p[1] = a /\ p[2] = b
  BY <1>1, <1>2, <1>3
<1>5. SubSeq(p, 3, Len(p)) = c
  <2>1. CASE Len(c) = 0
    BY <2>1, <1>2, SubSeqEmpty, EmptySeq
  <2>2. CASE Len(c) > 0
    <3>1. SubSeq(p, 3, Len(p)) = SubSeq(c, 3 - 2, Len(p) - 2)
      BY <2>2, <1>1, <1>2, <1>3, SubSeqOfConcat2
    <3>2. SubSeq(c, 1, Len(c)) = c
      BY SubSeqFull
    <3> QED BY <3>1, <3>2, <1>2, <1>3
  <2> QED BY <2>1, <2>2, <1>3
<1> QED BY <1>2, <1>4, <1>5

LEMMA Beneath ==
  ASSUME NEW u \in Names, NEW p \in Seq(Names), Len(p) >= 1
  PROVE  LET q == <<u>> \o p
         IN /\ q \in Seq(Names)
            /\ Len(q) = 1 + Len(p)
            /\ q[1] = u /\ q[2] = p[1]
            /\ SubSeq(q, 3, Len(q)) = Tail(p)
<1> DEFINE q == <<u>> \o p
<1>1. <<u>> \in Seq(Names) /\ Len(<<u>>) = 1 /\ <<u>>[1] = u
  OBVIOUS
<1>2. q \in Seq(Names) /\ Len(q) = 1 + Len(p)
      /\ \A i \in 1 .. 1 + Len(p) : q[i] = IF i <= 1 THEN <<u>>[i] ELSE p[i - 1]
  BY <1>1, ConcatProperties
<1>3. Len(p) \in Nat \ {0} /\ p # <<>>
  BY NonEmpty
<1>4. q[1] = u /\ q[2] = p[1]
  BY <1>1, <1>2, <1>3
<1>5. Tail(p) = SubSeq(p, 2, Len(p)) /\ Len(Tail(p)) = Len(p) - 1
  BY <1>3, TailIsSubSeq, HeadTailProperties
<1>6. SubSeq(q, 3, Len(q)) = Tail(p)
  <2>1. CASE Len(p) = 1
    BY <2>1, <1>2, <1>5, SubSeqEmpty
  <2>2. CASE Len(p) > 1
    <3>1. SubSeq(q, 3, Len(q)) = SubSeq(p, 3 - 1, Len(q) - 1)
      BY <2>2, <1>1, <1>2, <1>3, SubSeqOfConcat2
    <3> QED BY <3>1, <1>2, <1>3, <1>5
  <2> QED BY <2>1, <2>2, <1>3
<1> QED BY <1>2, <1>4, <1>6

-----------------------------------------------------------------------------
(* What stands in the lake: tables of declared datasets, one of each name.   *)

\* The columns of a landed table.
LandedColumns(columns) ==
  /\ columns \subseteq Seq(Names) \ {<<>>}
  /\ \A c, d \in columns : Alike(c, d) => c = d
  /\ \A c \in columns, key \in Tuples : ~ Alike(c, <<key>>)

IsLanded(e) ==
  /\ e.dataset \in Names /\ e.name \in Names
  /\ LandedColumns(e.columns)
  /\ e.at \in 1 .. clock
  /\ SchemaExists(e.dataset)
  /\ e.dataset \in {Main} \cup {t.dataset : t \in Tables}

Standing ==
  /\ clock \in Nat
  /\ Main \in schemas
  /\ schemas \subseteq {Main} \cup {t.dataset : t \in Tables}
  /\ \A e \in tables : IsLanded(e)
  /\ \A e, f \in tables : Fold[e.dataset] = Fold[f.dataset] /\ Fold[e.name] = Fold[f.name] => e = f

\* Glosses are of statements that were; a relationship's sides are columns.
Dated == \A g \in glossary : g.at \in 1 .. clock
Sided == \A r \in relationships : r.left \in Seq(Names) /\ Len(r.left) >= 3 /\ r.op # ""

LEMMA DatasetsAreNames ==
  Standing => schemas \subseteq Names
BY NamesAssumption, StatementsAssumption DEF Standing

LEMMA StandingInit == Init => Standing /\ Dated /\ Sided
BY DEF Init, Standing, Dated, Sided

LEMMA StandingStep == Standing /\ [Next]_vars => Standing'
<1> SUFFICES ASSUME Standing, [Next]_vars PROVE Standing'
  OBVIOUS
<1> USE DEF Standing
<1>1. ASSUME NEW t \in Tables, DeclareDataset(t.dataset) PROVE Standing'
  BY <1>1 DEF DeclareDataset, Write, IsLanded, SchemaExists
<1>2. ASSUME NEW t \in Tables, Land(t) PROVE Standing'
  <2>1. PICK new : new = [dataset |-> t.dataset, name |-> t.name, columns |-> t.columns, at |-> clock + 1]
    OBVIOUS
  <2>2. tables' = (tables \ RelationEntry(t.dataset, t.name)) \cup {new} /\ clock' = clock + 1
        /\ schemas' = schemas /\ SchemaExists(t.dataset)
    BY <1>2, <2>1 DEF Land, Write
  <2>3. IsLanded(new)'
    <3>1. LandedColumns(t.columns)
      BY StatementsAssumption DEF LandedColumns
    <3>2. new.dataset = t.dataset /\ new.name = t.name /\ new.columns = t.columns /\ new.at = clock + 1
      BY <2>1
    <3>3. t.dataset \in Names /\ t.name \in Names
      BY StatementsAssumption
    <3> QED BY <2>2, <3>1, <3>2, <3>3 DEF IsLanded, SchemaExists
  <2>4. \A e \in tables : IsLanded(e)'
    BY <2>2 DEF IsLanded, SchemaExists
  <2>5. \A e \in tables \ RelationEntry(t.dataset, t.name) :
          ~ (Fold[e.dataset] = Fold[new.dataset] /\ Fold[e.name] = Fold[new.name])
    BY <2>1 DEF RelationEntry
  <2>6. \A e, f \in tables' : Fold[e.dataset] = Fold[f.dataset] /\ Fold[e.name] = Fold[f.name] => e = f
    BY <2>2, <2>5
  <2>7. \A e \in tables' : IsLanded(e)'
    BY <2>2, <2>3, <2>4
  <2> QED BY <2>2, <2>6, <2>7
<1>3. ASSUME NEW t \in tables, Drop(t) PROVE Standing'
  BY <1>3 DEF Drop, Write, IsLanded, SchemaExists
<1>4. ASSUME UNCHANGED <<schemas, tables>>, clock' \in {clock, clock + 1} PROVE Standing'
  BY <1>4 DEF IsLanded, SchemaExists
<1> QED
  BY <1>1, <1>2, <1>3, <1>4
     DEF Next, vars, DeclareSource, GlossOn, DeclareRelationship, Refuse, Write

-----------------------------------------------------------------------------
(* Names of columns.                                                         *)

LEMMA EntryIsOne ==
  ASSUME Standing, NEW h, NEW n, NEW e \in RelationEntry(h, n)
  PROVE  RelationEntry(h, n) = {e} /\ e \in tables /\ IsLanded(e)
BY DEF Standing, RelationEntry

\* A path is resolved one way.
LEMMA OneWay ==
  ASSUME NEW u, NEW p \in Seq(Names), Len(p) >= 1
  PROVE  /\ Full(u, p) => ResolvePath(u, p) = Canonical(p[1], p[2], SubSeq(p, 3, Len(p)))
         /\ Near(u, p) => ResolvePath(u, p) = Canonical(u, p[1], Tail(p))
         /\ Far(u, p) => ResolvePath(u, p) = Canonical(p[1], p[2], <<>>)
         /\ ~ Full(u, p) /\ ~ Near(u, p) /\ ~ Far(u, p) =>
              ResolvePath(u, p) = <<u>> \o p \/ (ResolvePath(u, p) = p /\ Len(p) = 1)
<1>1. Len(p) \in Nat
  BY NonEmpty
<1>2. /\ Full(u, p) => ~ Near(u, p) /\ ~ Far(u, p) /\ Len(p) # 1
      /\ Near(u, p) => ~ Far(u, p) /\ Len(p) # 1
      /\ Far(u, p) => Len(p) # 1
  <2>1. (Full(u, p) => Len(p) > 2) /\ (Near(u, p) => Len(p) > 1 /\ ~ Full(u, p))
        /\ (Far(u, p) => Len(p) = 2 /\ ~ Near(u, p))
    BY Zenon DEF Full, Near, Far
  <2> QED BY <1>1, <2>1, Sizes, Zenon
<1>3. ASSUME Full(u, p) PROVE ResolvePath(u, p) = Canonical(p[1], p[2], SubSeq(p, 3, Len(p)))
  BY <1>2, <1>3 DEF ResolvePath
<1>4. ASSUME Near(u, p) PROVE ResolvePath(u, p) = Canonical(u, p[1], Tail(p))
  BY <1>2, <1>4 DEF ResolvePath
<1>5. ASSUME Far(u, p) PROVE ResolvePath(u, p) = Canonical(p[1], p[2], <<>>)
  BY <1>2, <1>5 DEF ResolvePath
<1>6. ASSUME ~ Full(u, p), ~ Near(u, p), ~ Far(u, p)
      PROVE  ResolvePath(u, p) = <<u>> \o p \/ (ResolvePath(u, p) = p /\ Len(p) = 1)
  BY <1>6 DEF ResolvePath
<1> QED BY <1>3, <1>4, <1>5, <1>6

\* A column a table holds stands under its full name.
LEMMA OwnName ==
  ASSUME Standing, NEW e \in tables, NEW c \in e.columns, NEW u
  PROVE  ResolvePath(u, <<e.dataset, e.name>> \o c) = <<e.dataset, e.name>> \o c
<1> DEFINE p == <<e.dataset, e.name>> \o c
<1>1. IsLanded(e) /\ LandedColumns(e.columns) /\ c \in Seq(Names) \ {<<>>}
  BY DEF Standing, IsLanded, LandedColumns
<1>2. /\ Len(p) = 2 + Len(c) /\ p[1] = e.dataset /\ p[2] = e.name
      /\ SubSeq(p, 3, Len(p)) = c
  BY <1>1, Parts DEF IsLanded
<1>3. Len(c) \in Nat \ {0}
  BY <1>1, NonEmpty
<1>4. Full(u, p) /\ p \in Seq(Names) /\ Len(p) >= 1
  BY <1>1, <1>2, <1>3, Parts DEF Full, IsLanded
<1>5. ResolvePath(u, p) = Canonical(e.dataset, e.name, c)
  BY <1>2, <1>4, OneWay
<1>6. RelationEntry(e.dataset, e.name) = {e}
  BY EntryIsOne DEF RelationEntry
<1>7. ColumnOf(e, c) = {c}
  BY <1>1 DEF ColumnOf, LandedColumns, Alike
<1>8. (CHOOSE x \in {e} : TRUE) = e /\ (CHOOSE x \in {c} : TRUE) = c
  OBVIOUS
<1>9. Canonical(e.dataset, e.name, c) = p
  BY <1>6, <1>7, <1>8, Zenon DEF Canonical
<1> QED BY <1>5, <1>9

\* What was written of a column that still stands is read again under its own name,
\* from whatever dataset (ResolvePath: "a subject may pass through twice").
THEOREM FullNamesStand == Spec => []ThreePartStands
<1>1. Standing => ThreePartStands
  BY OwnName DEF ThreePartStands
<1> QED BY <1>1, StandingInit, StandingStep, PTL DEF Spec

\* d is the column c of a relation, as spelled there, or as given where it names none.
SpelledColumn(e, c, d) ==
  d \in e.columns \/ (d = c /\ (c = <<>> \/ IsTuple(c) \/ ColumnOf(e, c) = {}))

Spelled(h, n, c, m, d) ==
  /\ RelationEntry(h, n) = {} => m = n
  /\ \A e \in RelationEntry(h, n) : m = e.name /\ SpelledColumn(e, c, d)

\* What Canonical makes of a name: the schema as given, then the table and column as
\* the catalog spells them.
LEMMA CanonicalName ==
  ASSUME Standing, NEW h \in Names, NEW n \in Names, NEW c \in Seq(Names)
  PROVE  \E m \in Names, d \in Seq(Names) :
           Canonical(h, n, c) = <<h, m>> \o d /\ Spelled(h, n, c, m, d)
<1>1. CASE RelationEntry(h, n) = {}
  BY <1>1 DEF Canonical, Spelled
<1>2. CASE RelationEntry(h, n) # {}
  <2> DEFINE e == CHOOSE e \in RelationEntry(h, n) : TRUE
  <2>1. e \in RelationEntry(h, n)
    BY <1>2
  <2>2. RelationEntry(h, n) = {e} /\ IsLanded(e)
    BY <2>1, EntryIsOne
  <2> DEFINE d == IF c = <<>> \/ IsTuple(c) \/ ColumnOf(e, c) = {} THEN c ELSE CHOOSE x \in ColumnOf(e, c) : TRUE
  <2>3. Canonical(h, n, c) = <<h, e.name>> \o d
    BY <1>2, Zenon DEF Canonical
  <2>4. SpelledColumn(e, c, d)
    BY DEF ColumnOf, SpelledColumn
  <2>5. e.name \in Names /\ d \in Seq(Names)
    BY <2>2, <2>4 DEF IsLanded, LandedColumns, SpelledColumn
  <2> HIDE DEF d, e
  <2> QED BY <2>2, <2>3, <2>4, <2>5 DEF Spelled
<1> QED BY <1>1, <1>2

\* A table's column answers to the name.
NamesColumn(q) ==
  Len(q) >= 3 /\ \E e \in RelationEntry(q[1], q[2]) : ColumnOf(e, SubSeq(q, 3, Len(q))) # {}

\* It is the full name of one.
IsFullName(q) == \E e \in tables : \E d \in e.columns : q = <<e.dataset, e.name>> \o d

LEMMA CanonicalHead ==
  ASSUME Standing, NEW h \in Names, NEW n \in Names, NEW c \in Seq(Names)
  PROVE  LET q == Canonical(h, n, c) IN q \in Seq(Names) /\ Len(q) > 1 /\ q[1] = h
<1>1. PICK m \in Names, d \in Seq(Names) :
        Canonical(h, n, c) = <<h, m>> \o d /\ Spelled(h, n, c, m, d)
  BY CanonicalName
<1> QED BY <1>1, Parts, LenProperties

LEMMA CanonicalLanded ==
  ASSUME Standing, SpelledOnce,
         NEW h \in Names, NEW n \in Names, NEW c \in Seq(Names), NamesColumn(Canonical(h, n, c))
  PROVE  IsFullName(Canonical(h, n, c))
<1>1. PICK m \in Names, d \in Seq(Names) :
        Canonical(h, n, c) = <<h, m>> \o d /\ Spelled(h, n, c, m, d)
  BY CanonicalName
<1> DEFINE q == <<h, m>> \o d
<1>2. q[1] = h /\ q[2] = m /\ SubSeq(q, 3, Len(q)) = d /\ Len(q) = 2 + Len(d)
  BY Parts
<1>3. PICK e \in RelationEntry(h, m) : ColumnOf(e, d) # {}
  BY <1>1, <1>2 DEF NamesColumn
<1>4. PICK f : f \in RelationEntry(h, n)
  BY <1>1, <1>3 DEF Spelled
<1>5. e = f
  BY <1>1, <1>3, <1>4 DEF Spelled, RelationEntry, Standing
<1>6. IsLanded(e) /\ e \in tables /\ h = e.dataset /\ m = e.name
  BY <1>1, <1>3, <1>4, <1>5, EntryIsOne DEF RelationEntry, SpelledOnce, IsLanded, Spelled
<1>7. d # <<>>
  BY <1>1, <1>2, EmptySeq DEF NamesColumn
<1>8. ~ IsTuple(d)
  <2>1. SUFFICES ASSUME IsTuple(d) PROVE FALSE
    OBVIOUS
  <2>2. d = <<d[1]>> /\ d[1] \in Tuples
    BY <2>1 DEF IsTuple
  <2> QED BY <1>3, <1>6, <2>2 DEF ColumnOf, IsLanded, LandedColumns
<1>9. d \in e.columns
  BY <1>1, <1>3, <1>4, <1>5, <1>7, <1>8 DEF Spelled, SpelledColumn
<1> QED BY <1>1, <1>6, <1>9 DEF IsFullName

\* The names a path is resolved through.
LEMMA PathNames ==
  ASSUME NEW p \in Seq(Names), Len(p) >= 1
  PROVE  /\ p[1] \in Names /\ Tail(p) \in Seq(Names) /\ <<>> \in Seq(Names)
         /\ Len(p) > 2 => SubSeq(p, 3, Len(p)) \in Seq(Names)
         /\ Len(p) > 1 => p[2] \in Names
<1>1. Len(p) \in Nat /\ \A i \in 1 .. Len(p) : p[i] \in Names
  BY NonEmpty, ElementOfSeq
<1>2. SubSeq(p, 3, Len(p)) \in Seq(Names)
  BY <1>1, SubSeqProperties
<1>3. p # <<>>
  BY NonEmpty
<1> QED BY <1>1, <1>2, <1>3, EmptySeq, HeadTailProperties

\* A resolved path that a table's column answers to is that column's full name.
LEMMA ResolvedLanded ==
  ASSUME Standing, SpelledOnce,
         NEW u \in schemas, NEW p \in Seq(Names), Len(p) >= 1, NamesColumn(ResolvePath(u, p))
  PROVE  IsFullName(ResolvePath(u, p))
<1>1. u \in Names /\ Len(p) \in Nat
  BY DatasetsAreNames, NonEmpty
<1>2. CASE Full(u, p)
  <2>1. Len(p) > 1 /\ Len(p) > 2
    BY <1>1, <1>2 DEF Full
  <2>2. ResolvePath(u, p) = Canonical(p[1], p[2], SubSeq(p, 3, Len(p)))
    BY <1>2, OneWay
  <2>3. p[1] \in Names /\ p[2] \in Names /\ SubSeq(p, 3, Len(p)) \in Seq(Names)
    BY <2>1, PathNames
  <2> QED BY <2>2, <2>3, CanonicalLanded
<1>3. CASE Near(u, p)
  <2>1. ResolvePath(u, p) = Canonical(u, p[1], Tail(p))
    BY <1>3, OneWay
  <2>2. p[1] \in Names /\ Tail(p) \in Seq(Names)
    BY PathNames
  <2> QED BY <1>1, <2>1, <2>2, CanonicalLanded
<1>4. CASE Far(u, p)
  <2>1. Len(p) > 1
    BY <1>1, <1>4 DEF Far
  <2>2. ResolvePath(u, p) = Canonical(p[1], p[2], <<>>)
    BY <1>4, OneWay
  <2>3. p[1] \in Names /\ p[2] \in Names /\ <<>> \in Seq(Names)
    BY <2>1, PathNames
  <2> QED BY <2>2, <2>3, CanonicalLanded
<1>5. CASE ResolvePath(u, p) = <<u>> \o p /\ ~ Full(u, p) /\ ~ Near(u, p)
  <2> DEFINE q == <<u>> \o p
  <2>1. Len(q) = 1 + Len(p) /\ q[1] = u /\ q[2] = p[1] /\ SubSeq(q, 3, Len(q)) = Tail(p)
    BY <1>1, Beneath
  <2>2. Len(q) >= 3 /\ \E e \in RelationEntry(u, p[1]) : ColumnOf(e, Tail(p)) # {}
    BY <1>5, <2>1 DEF NamesColumn
  <2>3. Len(p) > 1
    BY <1>1, <2>1, <2>2
  <2> QED BY <1>5, <2>2, <2>3 DEF Near, ColumnExists
<1>6. CASE ResolvePath(u, p) = p /\ Len(p) = 1
  BY <1>6 DEF NamesColumn
<1> QED BY <1>2, <1>3, <1>4, <1>5, <1>6, OneWay

\* The dataset a resolved path is headed by is declared.
LEMMA ResolvedHead ==
  ASSUME Standing, SpelledOnce, NEW u \in schemas, NEW p \in Seq(Names), Len(p) >= 1
  PROVE  LET q == ResolvePath(u, p)
         IN q \in Seq(Names) /\ ((q = p /\ Len(p) = 1) \/ (Len(q) > 1 /\ q[1] \in schemas))
<1>1. u \in Names /\ Len(p) \in Nat
  BY DatasetsAreNames, NonEmpty
<1>2. SchemaExists(p[1]) => p[1] \in schemas
  BY PathNames DEF SchemaExists, SpelledOnce, Standing
<1>3. CASE Full(u, p)
  <2>1. Len(p) > 1 /\ Len(p) > 2 /\ p[1] \in schemas
    BY <1>1, <1>2, <1>3 DEF Full
  <2>2. ResolvePath(u, p) = Canonical(p[1], p[2], SubSeq(p, 3, Len(p)))
    BY <1>3, OneWay
  <2>3. p[1] \in Names /\ p[2] \in Names /\ SubSeq(p, 3, Len(p)) \in Seq(Names)
    BY <2>1, PathNames
  <2>4. LET q == Canonical(p[1], p[2], SubSeq(p, 3, Len(p))) IN q \in Seq(Names) /\ Len(q) > 1 /\ q[1] = p[1]
    BY <2>1, <2>2, <2>3, CanonicalHead
  <2> QED BY <2>1, <2>2, <2>4, Zenon
<1>4. CASE Near(u, p)
  <2>1. ResolvePath(u, p) = Canonical(u, p[1], Tail(p))
    BY <1>4, OneWay
  <2>2. p[1] \in Names /\ Tail(p) \in Seq(Names)
    BY PathNames
  <2>3. LET q == Canonical(u, p[1], Tail(p)) IN q \in Seq(Names) /\ Len(q) > 1 /\ q[1] = u
    BY <1>1, <2>1, <2>2, CanonicalHead
  <2> QED BY <2>1, <2>3, Zenon
<1>5. CASE Far(u, p)
  <2>1. Len(p) > 1 /\ p[1] \in schemas
    BY <1>1, <1>2, <1>5 DEF Far
  <2>2. ResolvePath(u, p) = Canonical(p[1], p[2], <<>>)
    BY <1>5, OneWay
  <2>3. p[1] \in Names /\ p[2] \in Names /\ <<>> \in Seq(Names)
    BY <2>1, PathNames
  <2>4. LET q == Canonical(p[1], p[2], <<>>) IN q \in Seq(Names) /\ Len(q) > 1 /\ q[1] = p[1]
    BY <2>1, <2>2, <2>3, CanonicalHead
  <2> QED BY <2>1, <2>2, <2>4, Zenon
<1>6. CASE ResolvePath(u, p) = <<u>> \o p
  <2>1. <<u>> \o p \in Seq(Names) /\ Len(<<u>> \o p) = 1 + Len(p) /\ (<<u>> \o p)[1] = u
    BY <1>1, Beneath
  <2> QED BY <1>1, <1>6, <2>1
<1>7. CASE ResolvePath(u, p) = p /\ Len(p) = 1
  BY <1>7
<1> QED BY <1>3, <1>4, <1>5, <1>6, <1>7, OneWay

-----------------------------------------------------------------------------
(* What is written under a name.                                             *)

\* A subject that is one path, resolved.
LEMMA SubjectSides ==
  ASSUME NEW u, NEW p
  PROVE  /\ ResolveSubject(u, Single(p)).op = ""
         /\ ResolveSubject(u, Single(p)).sides[1] = ResolvePath(u, p)
BY DEF ResolveSubject, Single

LEMMA PathsAreNames ==
  \A p \in Paths \cup Sides : p \in Seq(Names) /\ Len(p) >= 1
BY StatementsAssumption, NonEmpty

LEMMA DatedStep == Standing /\ Dated /\ [Next]_vars => Dated'
<1> SUFFICES ASSUME Standing, Dated, [Next]_vars PROVE Dated'
  OBVIOUS
<1>1. clock \in Nat
  BY DEF Standing
<1>2. ASSUME UNCHANGED glossary, clock' \in {clock, clock + 1} PROVE Dated'
  BY <1>1, <1>2 DEF Dated
<1>3. ASSUME NEW u, NEW s, NEW grains, GlossOn(u, s, grains) PROVE Dated'
  <2>1. clock' = clock + 1 /\ \A g \in glossary' : g \in glossary \/ g.at = clock + 1
    BY <1>3 DEF GlossOn, Write
  <2> QED BY <1>1, <2>1 DEF Dated
<1> QED
  BY <1>2, <1>3
     DEF Next, vars, DeclareDataset, DeclareSource, Land, Drop, DeclareRelationship, Refuse, Write

LEMMA SidedStep == SpelledOnce /\ Standing /\ Sided /\ [Next]_vars => Sided'
<1> SUFFICES ASSUME SpelledOnce, Standing, Sided, [Next]_vars PROVE Sided'
  OBVIOUS
<1>1. CASE UNCHANGED relationships
  BY <1>1 DEF Sided
<1>2. ASSUME NEW u \in schemas, NEW p \in Sides, NEW q, DeclareRelationship(u, p, "->", q)
      PROVE  Sided'
  <2>1. ResolvePath(u, p) \in Seq(Names)
    BY PathsAreNames, ResolvedHead
  <2>2. Len(ResolvePath(u, p)) >= 3
    BY <1>2 DEF DeclareRelationship, AdmitsEndpoint
  <2>3. \A r \in relationships' : r \in relationships \/ (r.left = ResolvePath(u, p) /\ r.op = "->")
    BY <1>2 DEF DeclareRelationship
  <2> QED BY <2>1, <2>2, <2>3 DEF Sided
<1> QED
  BY <1>1, <1>2
     DEF Next, vars, DeclareDataset, DeclareSource, Land, Drop, GlossOn, Refuse

\* A table a full name's parts lead to is the one that has the column.
LEMMA FullNameLanded ==
  ASSUME Standing, NEW q, IsFullName(q)
  PROVE  \A e \in RelationEntry(q[1], q[2]) : \E c \in e.columns : q = <<e.dataset, e.name>> \o c
<1>1. PICK e \in tables : \E c \in e.columns : q = <<e.dataset, e.name>> \o c
  BY DEF IsFullName
<1>2. PICK c \in e.columns : q = <<e.dataset, e.name>> \o c
  BY <1>1
<1>3. q[1] = e.dataset /\ q[2] = e.name
  <2>1. IsLanded(e)
    BY DEF Standing
  <2> QED BY <1>2, <2>1, Parts DEF IsLanded, LandedColumns
<1>4. RelationEntry(q[1], q[2]) = {e}
  <2>1. e \in RelationEntry(q[1], q[2])
    BY <1>3 DEF RelationEntry
  <2> QED BY <2>1, EntryIsOne
<1> QED BY <1>2, <1>4

\* GlossNamesColumn, of a subject's shape alone, which no source declared changes.
ColumnsNamed ==
  \A g \in glossary :
    ("COLUMN" \in g.grains /\ g.subject.op = "" /\ Len(g.subject.sides[1]) >= 3) =>
      \A e \in RelationEntry(g.subject.sides[1][1], g.subject.sides[1][2]) :
        e.at < g.at => \E c \in e.columns : g.subject.sides[1] = <<e.dataset, e.name>> \o c

LEMMA NamedColumns == ColumnsNamed => GlossNamesColumn
BY DEF ColumnsNamed, GlossNamesColumn, Grain, IsPair

LEMMA GlossKeepsNamed ==
  ASSUME Standing, SpelledOnce, Sided, ColumnsNamed,
         NEW u \in schemas, NEW s, NEW grains, GlossOn(u, s, grains),
         (\E p \in Paths : s = Single(p)) \/ (\E r \in relationships : s = Pair(r.left, r.op, r.right))
  PROVE  ColumnsNamed'
<1> DEFINE t == ResolveSubject(u, s)
           q == t.sides[1]
<1>1. tables' = tables /\ \A g \in glossary' : g \in glossary \/ (g.subject = t /\ g.grains = grains)
  BY DEF GlossOn
<1>2. ASSUME "COLUMN" \in grains, t.op = "", Len(q) >= 3
      PROVE  \A e \in RelationEntry(q[1], q[2]) : \E c \in e.columns : q = <<e.dataset, e.name>> \o c
  <2>1. PICK p \in Paths : s = Single(p)
    <3>1. ASSUME NEW r \in relationships, s = Pair(r.left, r.op, r.right) PROVE FALSE
      <4>1. t.op = r.op
        BY <3>1 DEF ResolveSubject, Pair
      <4> QED BY <1>2, <4>1 DEF Sided
    <3> QED BY <3>1
  <2>2. q = ResolvePath(u, p)
    BY <2>1, SubjectSides
  <2>3. NamesColumn(q)
    BY <1>2 DEF GlossOn, AdmitsSubject, IsPair, NamesColumn
  <2>4. IsFullName(q)
    BY <2>2, <2>3, PathsAreNames, ResolvedLanded
  <2> QED BY <2>4, FullNameLanded
<1>3. \A h, n : RelationEntry(h, n)' = RelationEntry(h, n)
  BY <1>1 DEF RelationEntry
<1> HIDE DEF t, q
<1> QED BY <1>1, <1>2, <1>3 DEF ColumnsNamed, t, q

LEMMA NamedStep ==
  SpelledOnce /\ Standing /\ Dated /\ Sided /\ ColumnsNamed /\ [Next]_vars => ColumnsNamed'
<1> SUFFICES ASSUME SpelledOnce, Standing, Dated, Sided, ColumnsNamed, [Next]_vars PROVE ColumnsNamed'
  OBVIOUS
<1>1. ASSUME glossary' = glossary, \A e \in tables' : e \in tables \/ e.at = clock + 1 PROVE ColumnsNamed'
  <2>1. \A g \in glossary, e \in tables' : e.at < g.at => e \in tables
    BY <1>1 DEF Dated, Standing
  <2>2. \A h, n : \A e \in RelationEntry(h, n)' : e \in tables' /\ (e \in tables => e \in RelationEntry(h, n))
    BY DEF RelationEntry
  <2> QED BY <1>1, <2>1, <2>2 DEF ColumnsNamed
<1>2. ASSUME NEW t \in Tables, Land(t) PROVE ColumnsNamed'
  BY <1>1, <1>2 DEF Land
<1>3. ASSUME NEW t \in tables, Drop(t) PROVE ColumnsNamed'
  BY <1>1, <1>3 DEF Drop
<1>4. ASSUME UNCHANGED <<glossary, tables>> PROVE ColumnsNamed'
  BY <1>1, <1>4
<1> QED
  BY <1>2, <1>3, <1>4, GlossKeepsNamed
     DEF Next, vars, DeclareDataset, DeclareSource, DeclareRelationship, Refuse

\* A COLUMN aspect is glossed on the column as it landed, however it was spelled
\* (AdmitGloss, Canonical), where each dataset is spelled one way.
THEOREM ColumnsAsLanded ==
  ASSUME SpelledOnce PROVE Spec => []GlossNamesColumn
<1>1. Init => ColumnsNamed
  BY DEF Init, ColumnsNamed
<1>2. SpelledOnce /\ Standing /\ Dated /\ Sided /\ ColumnsNamed /\ [Next]_vars => ColumnsNamed'
  BY NamedStep
<1>3. SpelledOnce
  OBVIOUS
<1> QED BY <1>1, <1>2, <1>3, StandingInit, StandingStep, DatedStep, SidedStep, NamedColumns, PTL DEF Spec

LEMMA DatasetIsDeclared ==
  ASSUME Standing, SpelledOnce, Sided, NEW u \in schemas
  PROVE  /\ \A p \in Paths : DatasetOf(u, ResolveSubject(u, Single(p))) \in schemas
         /\ \A r \in relationships : DatasetOf(u, ResolveSubject(u, Pair(r.left, r.op, r.right))) \in schemas
<1>1. ASSUME NEW p \in Paths PROVE DatasetOf(u, ResolveSubject(u, Single(p))) \in schemas
  <2> DEFINE q == ResolvePath(u, p)
  <2>1. (q = p /\ Len(p) = 1) \/ (Len(q) > 1 /\ q[1] \in schemas)
    BY PathsAreNames, ResolvedHead
  <2>2. p[1] \in Names
    BY PathsAreNames, PathNames
  <2>3. SchemaExists(p[1]) => p[1] \in schemas
    BY <2>2 DEF SchemaExists, SpelledOnce, Standing
  <2> DEFINE t == ResolveSubject(u, Single(p))
  <2>4. t.op = "" /\ t.sides[1] = q
    BY SubjectSides
  <2>5. DatasetOf(u, t) = IF Len(q) > 1 \/ SchemaExists(q[1]) THEN q[1] ELSE u
    BY <2>4 DEF DatasetOf, IsPair
  <2>6. CASE q = p /\ Len(p) = 1
    <3>1. ~ (Len(p) > 1)
      BY <2>6, PathsAreNames, NonEmpty, Sizes, Zenon
    <3> QED BY <2>3, <2>5, <2>6, <3>1
  <2>7. CASE Len(q) > 1 /\ q[1] \in schemas
    BY <2>5, <2>7
  <2> QED BY <2>1, <2>6, <2>7
<1>2. ASSUME NEW r \in relationships
      PROVE  DatasetOf(u, ResolveSubject(u, Pair(r.left, r.op, r.right))) \in schemas
  <2>1. r.left \in Seq(Names) /\ Len(r.left) \in Nat /\ Len(r.left) >= 3 /\ r.op # ""
    BY NonEmpty DEF Sided
  <2>2. Len(r.left) >= 1 /\ Len(r.left) # 1
    BY <2>1, Sizes, Zenon
  <2>3. ResolvePath(u, r.left)[1] \in schemas
    BY <2>1, <2>2, ResolvedHead
  <2> DEFINE t == ResolveSubject(u, Pair(r.left, r.op, r.right))
  <2>4. t.op = r.op /\ t.sides[1] = ResolvePath(u, r.left)
    BY DEF ResolveSubject, Pair
  <2>5. DatasetOf(u, t) = ResolvePath(u, r.left)[1]
    BY <2>1, <2>4 DEF DatasetOf, IsPair
  <2> QED BY <2>3, <2>5
<1> QED BY <1>1, <1>2

LEMMA RowsStep ==
  SpelledOnce /\ Standing /\ Sided /\ RowsHaveDataset /\ [Next]_vars => RowsHaveDataset'
<1> SUFFICES ASSUME SpelledOnce, Standing, Sided, RowsHaveDataset, [Next]_vars PROVE RowsHaveDataset'
  OBVIOUS
<1>1. ASSUME UNCHANGED <<glossary, relationships>>, schemas \subseteq schemas' PROVE RowsHaveDataset'
  BY <1>1 DEF RowsHaveDataset
<1>2. ASSUME NEW u, NEW s, NEW grains, GlossOn(u, s, grains), DatasetOf(u, ResolveSubject(u, s)) \in schemas
      PROVE  RowsHaveDataset'
  BY <1>2 DEF GlossOn, RowsHaveDataset
<1>3. ASSUME NEW u \in schemas, NEW p \in Sides, NEW q, DeclareRelationship(u, p, "->", q)
      PROVE  RowsHaveDataset'
  <2>1. ResolvePath(u, p)[1] \in schemas
    <3>1. Len(ResolvePath(u, p)) >= 3
      BY <1>3 DEF DeclareRelationship, AdmitsEndpoint
    <3>2. ResolvePath(u, p) \in Seq(Names) /\ p \in Seq(Names) /\ Len(p) >= 1
      BY PathsAreNames, ResolvedHead
    <3>3. Len(ResolvePath(u, p)) # 1
      BY <3>1, <3>2, NonEmpty, Sizes, Zenon
    <3> QED BY <3>2, <3>3, ResolvedHead
  <2> QED BY <1>3, <2>1 DEF DeclareRelationship, RowsHaveDataset
<1>4. ASSUME NEW u \in schemas, NEW p \in Paths, NEW grains, GlossOn(u, Single(p), grains) PROVE RowsHaveDataset'
  BY <1>2, <1>4, DatasetIsDeclared
<1>5. ASSUME NEW u \in schemas, NEW r \in relationships, NEW grains,
             GlossOn(u, Pair(r.left, r.op, r.right), grains)
      PROVE  RowsHaveDataset'
  BY <1>2, <1>5, DatasetIsDeclared
<1> QED
  BY <1>1, <1>3, <1>4, <1>5
     DEF Next, vars, DeclareDataset, DeclareSource, Land, Drop, Refuse

\* Every row is some declared dataset's (DatasetOf), where each is spelled one way.
THEOREM RowsAreDatasets ==
  ASSUME SpelledOnce PROVE Spec => []RowsHaveDataset
<1>1. Init => RowsHaveDataset
  BY DEF Init, RowsHaveDataset
<1>2. SpelledOnce
  OBVIOUS
<1> QED BY <1>1, <1>2, StandingInit, StandingStep, SidedStep, RowsStep, PTL DEF Spec

-----------------------------------------------------------------------------
(* The cells over the declared relationships (Evidence), for any tables,      *)
(* shapes, relationships and claims.                                        *)

LEMMA PointersTyped ==
  ASSUME edges \in Seq(Declarable)
  PROVE  /\ \A p \in Pointers : p.place \in Nat /\ p.src \in TableNames /\ p.dst \in TableNames
         /\ \A p, q \in Pointers : p.place = q.place => p = q
<1>1. \A i \in DOMAIN edges : i \in Nat /\ edges[i] \in Declarable
  OBVIOUS
<1> DEFINE placed == {i \in DOMAIN edges : Fits(edges[i]) /\ Stands(edges[i].child.table)
                                             /\ Stands(edges[i].parent.table)}
<1>2. ASSUME NEW p \in Pointers
      PROVE  \E i \in placed : \/ p = Pointer(2 * i, edges[i].child, edges[i].parent)
                               \/ p = Pointer(2 * i + 1, edges[i].parent, edges[i].child)
  BY DEF Pointers
<1>3. \A i \in placed : i \in Nat /\ edges[i].child.table \in TableNames /\ edges[i].parent.table \in TableNames
  BY <1>1, EvidenceAssumption
<1>4. ASSUME NEW p \in Pointers
      PROVE  p.place \in Nat /\ p.src \in TableNames /\ p.dst \in TableNames
  BY <1>2, <1>3 DEF Pointer
<1>5. ASSUME NEW p \in Pointers, NEW q \in Pointers, p.place = q.place
      PROVE  p = q
  <2>1. PICK i \in placed : \/ p = Pointer(2 * i, edges[i].child, edges[i].parent)
                            \/ p = Pointer(2 * i + 1, edges[i].parent, edges[i].child)
    BY <1>2
  <2>2. PICK j \in placed : \/ q = Pointer(2 * j, edges[j].child, edges[j].parent)
                            \/ q = Pointer(2 * j + 1, edges[j].parent, edges[j].child)
    BY <1>2
  <2>3. i \in Nat /\ j \in Nat
    BY <1>1
  <2> HIDE DEF placed
  <2> QED BY <1>5, <2>1, <2>2, <2>3 DEF Pointer
<1> QED BY <1>4, <1>5

\* What an alignment is: where the loops found it, over which pointers, and what it
\* joins on.
IsDirect(a, p, table, ev) ==
  \/ p.src = table /\ p.dst = ev /\ a = Align(<<1, p.place, 0, 0>>, p.srcCols, p.dstCols, {}, {})
  \/ p.src = ev /\ p.dst = table /\ a = Align(<<1, p.place, 0, 0>>, p.dstCols, p.srcCols, {}, {})

IsMeeting(a, p, q, table, ev) ==
  /\ p.src = table /\ p.dst \notin {table, ev} /\ q.src = ev /\ q.dst = p.dst /\ q.dstCols = p.dstCols
  /\ a = Align(<<2, p.place, q.place, 0>>, p.srcCols, q.srcCols, {}, {})

IsBorrowed(a, p1, p2, q, table, ev) ==
  /\ p1.src = table /\ p1.dst # table /\ p2.src = p1.dst /\ p2.dst \notin {table, ev}
  /\ q.src = ev /\ q.dst = p2.dst /\ q.dstCols = p2.dstCols
  /\ a = Align(<<3, p1.place, p2.place, q.place>>, p2.srcCols, q.srcCols, {p1}, {})

IsMastered(a, q1, q2, table, ev) ==
  /\ q1.src = ev /\ q1.dst \notin {ev, table} /\ q2.src = q1.dst /\ q2.dst # ev /\ q2.dst = table
  /\ a = Align(<<4, q1.place, q2.place, 0>>, q2.dstCols, q2.srcCols, {}, {q1})

IsMet(a, q1, q2, p, table, ev) ==
  /\ q1.src = ev /\ q1.dst \notin {ev, table} /\ q2.src = q1.dst /\ q2.dst # ev /\ q2.dst # table
  /\ p.src = table /\ p.dst = q2.dst /\ p.dstCols = q2.dstCols
  /\ a = Align(<<4, q1.place, q2.place, p.place>>, p.srcCols, q2.srcCols, {}, {q1})

LEMMA DirectKind ==
  ASSUME NEW ps, NEW table, NEW ev, NEW a
  PROVE  a \in Direct(ps, table, ev) <=> \E p \in ps : IsDirect(a, p, table, ev)
BY DEF Direct, IsDirect

LEMMA MeetingKind ==
  ASSUME NEW ps, NEW table, NEW ev, NEW a
  PROVE  a \in Meeting(ps, table, ev) <=> \E p, q \in ps : IsMeeting(a, p, q, table, ev)
<1> DEFINE from == {p \in ps : p.src = table /\ p.dst \notin {table, ev}}
           Met(p) == {Align(<<2, p.place, q.place, 0>>, p.srcCols, q.srcCols, {}, {}) : q \in OntoKey(ps, ev, p)}
<1>1. Meeting(ps, table, ev) = UNION {Met(p) : p \in from}
  BY DEF Meeting
<1>2. \A p \in ps : (p \in from /\ a \in Met(p)) <=> \E q \in ps : IsMeeting(a, p, q, table, ev)
  BY DEF IsMeeting, OntoKey
<1>3. from \subseteq ps
  OBVIOUS
<1> HIDE DEF from, Met
<1> QED
  BY <1>1, <1>2, <1>3

LEMMA BorrowedKind ==
  ASSUME NEW ps, NEW table, NEW ev, NEW a
  PROVE  a \in Borrowed(ps, table, ev) <=>
           ~ OwnsEntity(ps, table) /\ \E p1, p2, q \in ps : IsBorrowed(a, p1, p2, q, table, ev)
<1> DEFINE hops == {p1 \in ps : ~ OwnsEntity(ps, table) /\ p1.src = table /\ p1.dst # table}
           keys(p1) == {p2 \in ps : p2.src = p1.dst /\ p2.dst \notin {table, ev}}
           Met(p1, p2) == {Align(<<3, p1.place, p2.place, q.place>>, p2.srcCols, q.srcCols, {p1}, {})
                             : q \in OntoKey(ps, ev, p2)}
           Along(p1) == UNION {Met(p1, p2) : p2 \in keys(p1)}
<1>1. Borrowed(ps, table, ev) = UNION {Along(p1) : p1 \in hops}
  BY DEF Borrowed
<1>2. \A p1, p2 \in ps : (p1 \in hops /\ p2 \in keys(p1) /\ a \in Met(p1, p2)) <=>
        ~ OwnsEntity(ps, table) /\ \E q \in ps : IsBorrowed(a, p1, p2, q, table, ev)
  BY DEF IsBorrowed, OntoKey
<1>3. hops \subseteq ps /\ \A p1 : keys(p1) \subseteq ps
  OBVIOUS
<1> HIDE DEF hops, keys, Met
<1>4. \A p1 : a \in Along(p1) <=> \E p2 \in keys(p1) : a \in Met(p1, p2)
  OBVIOUS
<1> HIDE DEF Along
<1> QED
  BY <1>1, <1>2, <1>3, <1>4

LEMMA EventBorrowedKind ==
  ASSUME NEW ps, NEW table, NEW ev, NEW a \in EventBorrowed(ps, table, ev)
  PROVE  \/ \E q1, q2 \in ps : IsMastered(a, q1, q2, table, ev)
         \/ \E q1, q2, p \in ps : IsMet(a, q1, q2, p, table, ev)
<1> DEFINE Masters(q1) == {q2 \in ps : q2.src = q1.dst /\ q2.dst # ev}
           Itself(q1, q2) == {Align(<<4, q1.place, q2.place, 0>>, q2.dstCols, q2.srcCols, {}, {q1})}
           Keyed(q1, q2) == {Align(<<4, q1.place, q2.place, p.place>>, p.srcCols, q2.srcCols, {}, {q1})
                               : p \in OntoKey(ps, table, q2)}
           Of(q1, q2) == IF q2.dst = table THEN Itself(q1, q2) ELSE Keyed(q1, q2)
           Along(q1) == UNION {Of(q1, q2) : q2 \in Masters(q1)}
           hops == {q1 \in ps : q1.src = ev /\ q1.dst \notin {ev, table}}
<1>1. a \in UNION {Along(q1) : q1 \in hops}
  BY DEF EventBorrowed
<1> HIDE DEF Of, Along
<1>2. PICK q1 \in hops : a \in Along(q1)
  BY <1>1
<1>3. PICK q2 \in Masters(q1) : a \in Of(q1, q2)
  BY <1>2 DEF Along
<1>4. CASE q2.dst = table
  BY <1>2, <1>3, <1>4 DEF Of, IsMastered
<1>5. CASE q2.dst # table
  <2>1. PICK p \in OntoKey(ps, table, q2) :
              a = Align(<<4, q1.place, q2.place, p.place>>, p.srcCols, q2.srcCols, {}, {q1})
    BY <1>3, <1>5 DEF Of
  <2> QED
    BY <1>2, <1>3, <1>5, <2>1 DEF IsMet, OntoKey
<1> QED
  BY <1>4, <1>5

\* Where an alignment was found says which it is.
AlignKind(a, table, ev) ==
  \/ \E p \in Pointers : IsDirect(a, p, table, ev)
  \/ \E p, q \in Pointers : IsMeeting(a, p, q, table, ev)
  \/ \E p1, p2, q \in Pointers : IsBorrowed(a, p1, p2, q, table, ev)
  \/ \E q1, q2 \in Pointers : IsMastered(a, q1, q2, table, ev)
  \/ \E q1, q2, p \in Pointers : IsMet(a, q1, q2, p, table, ev)

LEMMA AlignmentKinds ==
  ASSUME NEW table, NEW ev, NEW a \in Alignments(table, ev)
  PROVE  AlignKind(a, table, ev)
<1> DEFINE near == Direct(Pointers, table, ev) \cup Meeting(Pointers, table, ev)
                     \cup Borrowed(Pointers, table, ev)
<1>1. a \in near \/ a \in EventBorrowed(Pointers, table, ev)
  BY DEF Alignments, Deduped
<1> QED
  BY <1>1, DirectKind, MeetingKind, BorrowedKind, EventBorrowedKind DEF AlignKind

LEMMA AlignmentParts ==
  ASSUME edges \in Seq(Declarable),
         NEW table, NEW ev, NEW a, AlignKind(a, table, ev)
  PROVE  /\ \E w, x, y, z \in Nat : a.rank = <<w, x, y, z>>
         /\ a = Align(a.rank, a.mCols, a.eCols, a.via, a.eVia)
         /\ a.via \subseteq Pointers /\ a.eVia \subseteq Pointers
         /\ table \in LegsNamed /\ ev \in LegsNamed
<1>1. \A p \in Pointers : p.place \in Nat /\ p.src \in LegsNamed /\ p.dst \in LegsNamed
  BY PointersTyped DEF LegsNamed
<1>2. CASE \E p \in Pointers : IsDirect(a, p, table, ev)
  BY <1>1, <1>2 DEF IsDirect, Align
<1>3. CASE \E p, q \in Pointers : IsMeeting(a, p, q, table, ev)
  BY <1>1, <1>3 DEF IsMeeting, Align
<1>4. CASE \E p1, p2, q \in Pointers : IsBorrowed(a, p1, p2, q, table, ev)
  BY <1>1, <1>4 DEF IsBorrowed, Align
<1>5. CASE \E q1, q2 \in Pointers : IsMastered(a, q1, q2, table, ev)
  BY <1>1, <1>5 DEF IsMastered, Align
<1>6. CASE \E q1, q2, p \in Pointers : IsMet(a, q1, q2, p, table, ev)
  BY <1>1, <1>6 DEF IsMet, Align
<1> QED
  BY <1>2, <1>3, <1>4, <1>5, <1>6 DEF AlignKind

RanksSay(a, table, ev) ==
  /\ \A p : IsDirect(a, p, table, ev) => a.rank[1] = 1 /\ a.rank[2] = p.place
  /\ \A p, q : IsMeeting(a, p, q, table, ev) =>
       a.rank[1] = 2 /\ a.rank[2] = p.place /\ a.rank[3] = q.place
  /\ \A p, q, r : IsBorrowed(a, p, q, r, table, ev) =>
       a.rank[1] = 3 /\ a.rank[2] = p.place /\ a.rank[3] = q.place /\ a.rank[4] = r.place
  /\ \A p, q : IsMastered(a, p, q, table, ev) =>
       a.rank[1] = 4 /\ a.rank[2] = p.place /\ a.rank[3] = q.place
  /\ \A p, q, r : IsMet(a, p, q, r, table, ev) =>
       a.rank[1] = 4 /\ a.rank[2] = p.place /\ a.rank[3] = q.place /\ a.rank[4] = r.place

LEMMA KindRanks ==
  ASSUME NEW a, NEW table, NEW ev
  PROVE  RanksSay(a, table, ev)
BY DEF RanksSay, IsDirect, IsMeeting, IsBorrowed, IsMastered, IsMet, Align

LEMMA RankTells ==
  ASSUME edges \in Seq(Declarable), NEW table, NEW ev, table # ev,
         NEW a, AlignKind(a, table, ev), NEW b, AlignKind(b, table, ev), a.rank = b.rank
  PROVE  a = b
<1>1. RanksSay(a, table, ev) /\ RanksSay(b, table, ev)
  BY KindRanks
<1>2. \A p, q \in Pointers : p.place = q.place => p = q
  BY PointersTyped
<1>3. CASE \E p \in Pointers : IsDirect(a, p, table, ev)
  <2>1. PICK p \in Pointers : IsDirect(a, p, table, ev)
    BY <1>3
  <2>2. PICK q \in Pointers : IsDirect(b, q, table, ev)
    BY <2>1, <1>1 DEF AlignKind, RanksSay
  <2>3. p = q
    BY <1>2, <2>1, <2>2, <1>1 DEF RanksSay
  <2> QED
    BY <2>1, <2>2, <2>3 DEF IsDirect
<1>4. CASE \E p, q \in Pointers : IsMeeting(a, p, q, table, ev)
  <2>1. PICK p \in Pointers, q \in Pointers : IsMeeting(a, p, q, table, ev)
    BY <1>4
  <2>2. PICK v \in Pointers, w \in Pointers : IsMeeting(b, v, w, table, ev)
    BY <2>1, <1>1 DEF AlignKind, RanksSay
  <2>3. p = v /\ q = w
    BY <1>2, <2>1, <2>2, <1>1 DEF RanksSay
  <2> QED
    BY <2>1, <2>2, <2>3 DEF IsMeeting
<1>5. CASE \E p1, p2, q \in Pointers : IsBorrowed(a, p1, p2, q, table, ev)
  <2>1. PICK p1 \in Pointers, p2 \in Pointers, q \in Pointers : IsBorrowed(a, p1, p2, q, table, ev)
    BY <1>5
  <2>2. PICK v1 \in Pointers, v2 \in Pointers, w \in Pointers : IsBorrowed(b, v1, v2, w, table, ev)
    BY <2>1, <1>1 DEF AlignKind, RanksSay
  <2>3. p1 = v1 /\ p2 = v2 /\ q = w
    BY <1>2, <2>1, <2>2, <1>1 DEF RanksSay
  <2> QED
    BY <2>1, <2>2, <2>3 DEF IsBorrowed
<1>6. ASSUME NEW q1 \in Pointers, NEW q2 \in Pointers,
             IsMastered(a, q1, q2, table, ev) \/ \E p \in Pointers : IsMet(a, q1, q2, p, table, ev)
      PROVE  a = b
  <2>1. PICK v1 \in Pointers, v2 \in Pointers :
             IsMastered(b, v1, v2, table, ev) \/ \E p \in Pointers : IsMet(b, v1, v2, p, table, ev)
    BY <1>6, <1>1 DEF AlignKind, RanksSay
  <2>2. q1 = v1 /\ q2 = v2
    BY <1>2, <1>6, <2>1, <1>1 DEF RanksSay
  <2>3. CASE q2.dst = table
    BY <1>6, <2>1, <2>2, <2>3 DEF IsMastered, IsMet
  <2>4. CASE q2.dst # table
    <3>1. PICK p \in Pointers : IsMet(a, q1, q2, p, table, ev)
      BY <1>6, <2>4 DEF IsMastered
    <3>2. PICK w \in Pointers : IsMet(b, q1, q2, w, table, ev)
      BY <2>1, <2>2, <2>4 DEF IsMastered
    <3>3. p = w
      BY <1>2, <3>1, <3>2, <1>1 DEF RanksSay
    <3> QED
      BY <3>1, <3>2, <3>3 DEF IsMet
  <2> QED
    BY <2>3, <2>4
<1> QED
  BY <1>3, <1>4, <1>5, <1>6 DEF AlignKind

\* Of two places one is before the other.
IsRank(r) == \E w, x, y, z \in Nat : r = <<w, x, y, z>>

LEMMA PlacesOrdered ==
  ASSUME NEW r, NEW s, IsRank(r), IsRank(s), ~ Before(r, s), ~ Before(s, r)
  PROVE  r = s
<1>1. PICK a \in Nat, b \in Nat, c \in Nat, d \in Nat : r = <<a, b, c, d>>
  BY DEF IsRank
<1>2. PICK w \in Nat, x \in Nat, y \in Nat, z \in Nat : s = <<w, x, y, z>>
  BY DEF IsRank
<1>3. a = w
  BY <1>1, <1>2 DEF Before
<1>4. b = x
  BY <1>1, <1>2, <1>3 DEF Before
<1>5. c = y
  BY <1>1, <1>2, <1>3, <1>4 DEF Before
<1>6. d = z
  BY <1>1, <1>2, <1>3, <1>4, <1>5 DEF Before
<1> QED
  BY <1>1, <1>2, <1>3, <1>4, <1>5, <1>6

\* No two alignments of an event table are labelled alike.
LEMMA LabelledOnce ==
  ASSUME edges \in Seq(Declarable), NEW table, NEW ev, table # ev,
         NEW a \in Alignments(table, ev), NEW b \in Alignments(table, ev), Label(a) = Label(b)
  PROVE  a = b
<1>1. ~ Before(a.rank, b.rank) /\ ~ Before(b.rank, a.rank)
  BY DEF Alignments, Deduped
<1>2. AlignKind(a, table, ev) /\ AlignKind(b, table, ev)
  BY AlignmentKinds
<1>3. IsRank(a.rank) /\ IsRank(b.rank)
  BY <1>2, AlignmentParts DEF IsRank
<1>4. a.rank = b.rank
  BY <1>1, <1>3, PlacesOrdered
<1> QED
  BY <1>2, <1>4, RankTells

\* A table's axes are told apart by their labels.
LEMMA AxesApart ==
  ASSUME edges \in Seq(Declarable), NEW table,
         NEW m \in TimeAxes(table), NEW n \in TimeAxes(table), m.label = n.label
  PROVE  m = n
<1> DEFINE own == {Own(table, c) : c \in ColumnsOf(table, TemporalTypes)}
           hops == {p \in Pointers : p.src = table /\ p.dst # table}
           firsts == {p \in hops : \A q \in hops : p.dst = q.dst /\ p.srcCols = q.srcCols => p.place <= q.place}
           Of(p) == {Lent(p, c) : c \in ColumnsOf(p.dst, TemporalTypes)}
<1>1. CASE own # {}
  <2>1. m \in own /\ n \in own
    BY <1>1 DEF TimeAxes
  <2>2. PICK c : m = Own(table, c)
    BY <2>1
  <2>3. PICK d : n = Own(table, d)
    BY <2>1
  <2>4. c = d
    BY <2>2, <2>3 DEF Own
  <2> QED
    BY <2>2, <2>3, <2>4
<1>2. CASE own = {}
  <2>1. TimeAxes(table) = UNION {Of(p) : p \in firsts}
    BY <1>2 DEF TimeAxes
  <2> HIDE DEF Of, firsts
  <2>2. PICK p \in firsts : m \in Of(p)
    BY <2>1
  <2>3. PICK q \in firsts : n \in Of(q)
    BY <2>1
  <2>4. PICK c : m = Lent(p, c)
    BY <2>2 DEF Of
  <2>5. PICK d : n = Lent(q, d)
    BY <2>3 DEF Of
  <2>6. p.dst = q.dst /\ p.srcCols = q.srcCols /\ c = d
    BY <2>4, <2>5 DEF Lent
  <2>7. p.place <= q.place /\ q.place <= p.place /\ p \in Pointers /\ q \in Pointers
    BY <2>6 DEF firsts
  <2>8. p = q
    BY <2>7, PointersTyped
  <2> QED
    BY <2>4, <2>5, <2>6, <2>8
<1> QED
  BY <1>1, <1>2

\* A cell labelled with an alignment, as the loops write it.
IsUnglossed(c, ev, al) ==
  /\ ev \in Events(Subject.table) /\ al \in Alignments(Subject.table, ev)
  /\ \E axis, term : c = [side |-> "unglossed", event |-> ev, al |-> al, align |-> Label(al),
                          measureAlign |-> MeasureLabel(al), axis |-> axis, term |-> term]

IsEvent(c, ev, al) ==
  /\ ev \in Events(Subject.table) /\ al \in Alignments(Subject.table, ev)
  /\ Terms(ev, al) # {}
  /\ \E side \in {"alignment", "event"}, axis \in TimeAxes(ev) : \E term :
       c = [side |-> side, event |-> ev, al |-> al, align |-> Label(al), measureAlign |-> MeasureLabel(al),
            axis |-> axis.label, term |-> term, from |-> SideOf(ev, axis, al.eVia, al.eCols)]

LEMMA UnglossedCells ==
  ASSUME NEW c \in Unglossed(Subject.table)
  PROVE  \E ev, al : IsUnglossed(c, ev, al)
<1> DEFINE Of(ev) == {[side |-> "unglossed", event |-> ev, al |-> al, align |-> Label(al),
                       measureAlign |-> MeasureLabel(al), axis |-> eaxis.label, term |-> maxis.label]
                        : al \in Alignments(Subject.table, ev), eaxis \in TimeAxes(ev), maxis \in TimeAxes(Subject.table)}
           empty == {ev \in Events(Subject.table) : Pool(ev) = {}}
<1>1. c \in UNION {Of(ev) : ev \in empty}
  BY DEF Unglossed
<1> HIDE DEF Of
<1>2. PICK ev \in empty : c \in Of(ev)
  BY <1>1
<1>3. PICK al \in Alignments(Subject.table, ev), eaxis \in TimeAxes(ev), maxis \in TimeAxes(Subject.table) :
            c = [side |-> "unglossed", event |-> ev, al |-> al, align |-> Label(al),
                 measureAlign |-> MeasureLabel(al), axis |-> eaxis.label, term |-> maxis.label]
  BY <1>2 DEF Of
<1> QED
  BY <1>2, <1>3 DEF IsUnglossed

\* An alignment that has cells is one of an event table's.
LEMMA EmittingAligns ==
  ASSUME NEW table, NEW e
  PROVE  e \in Emitting(table) <=>
           \E ev \in Events(table) : \E al \in Alignments(table, ev) :
             Terms(ev, al) # {} /\ e = [event |-> ev, al |-> al]
<1> DEFINE Of(ev) == {[event |-> ev, al |-> al] : al \in {al \in Alignments(table, ev) : Terms(ev, al) # {}}}
<1>1. Emitting(table) = UNION {Of(ev) : ev \in Events(table)}
  BY DEF Emitting
<1>2. \A ev : e \in Of(ev) <=> \E al \in Alignments(table, ev) : Terms(ev, al) # {} /\ e = [event |-> ev, al |-> al]
  OBVIOUS
<1> HIDE DEF Of
<1> QED
  BY <1>1, <1>2

LEMMA EventCells ==
  ASSUME NEW c \in EventSide(Emitting(Subject.table))
  PROVE  \E ev, al : IsEvent(c, ev, al)
<1> DEFINE Of(e) == {[side |-> IF term = Nothing THEN "alignment" ELSE "event", event |-> e.event, al |-> e.al,
                      align |-> Label(e.al), measureAlign |-> MeasureLabel(e.al), axis |-> eaxis.label, term |-> term,
                      from |-> SideOf(e.event, eaxis, e.al.eVia, e.al.eCols)]
                       : eaxis \in TimeAxes(e.event), term \in {Nothing} \cup Terms(e.event, e.al)}
<1>1. c \in UNION {Of(e) : e \in Emitting(Subject.table)}
  BY DEF EventSide
<1> HIDE DEF Of
<1>2. PICK e \in Emitting(Subject.table) : c \in Of(e)
  BY <1>1
<1>3. PICK ev, al :
            /\ ev \in Events(Subject.table) /\ al \in Alignments(Subject.table, ev)
            /\ Terms(ev, al) # {} /\ e = [event |-> ev, al |-> al]
  BY <1>2, EmittingAligns
<1>4. PICK eaxis \in TimeAxes(e.event), term \in {Nothing} \cup Terms(e.event, e.al) :
            c = [side |-> IF term = Nothing THEN "alignment" ELSE "event", event |-> e.event, al |-> e.al,
                 align |-> Label(e.al), measureAlign |-> MeasureLabel(e.al), axis |-> eaxis.label, term |-> term,
                 from |-> SideOf(e.event, eaxis, e.al.eVia, e.al.eCols)]
  BY <1>2 DEF Of
<1>5. e.event = ev /\ e.al = al
  BY <1>3
<1> QED
  BY <1>3, <1>4, <1>5 DEF IsEvent

\* What a call finds is a reason, or cells.
LEMMA FoundCells ==
  ASSUME NEW c \in BehaviorCells.cells
  PROVE  c.side = "reason" \/ c \in Cells(Subject.table)
<1>1. BehaviorCells.cells = Cells(Subject.table) \/ \E why : BehaviorCells.cells = Reason(why)
  BY DEF BehaviorCells, Answer
<1> QED
  BY <1>1 DEF Reason

LEMMA OtherSides ==
  ASSUME NEW table, NEW emitting
  PROVE  /\ \A c \in MeasureSide(table, emitting) : c.side = "measure"
         /\ \A c \in ColumnSide(emitting) : c.side = "column"
<1>1. ASSUME NEW c \in MeasureSide(table, emitting) PROVE c.side = "measure"
  BY <1>1 DEF MeasureSide
<1>2. ASSUME NEW c \in ColumnSide(emitting) PROVE c.side = "column"
  BY <1>2 DEF ColumnSide
<1> QED
  BY <1>1, <1>2

LEMMA LabelledCells ==
  ASSUME NEW c \in BehaviorCells.cells, c.side \in {"unglossed", "alignment", "event"}
  PROVE  \/ c.side = "unglossed" /\ \E ev, al : IsUnglossed(c, ev, al)
         \/ c.side # "unglossed" /\ \E ev, al : IsEvent(c, ev, al)
<1>1. c \in Cells(Subject.table)
  BY FoundCells
<1>2. c \in Unglossed(Subject.table) \/ c \in EventSide(Emitting(Subject.table))
  BY <1>1, OtherSides DEF Cells
<1> QED
  BY <1>2, UnglossedCells, EventCells DEF IsUnglossed, IsEvent

\* No cells are counted twice (Alignments dedups by what it joins on, the branches
\* are labelled by it): what a row is labelled with, one alignment and axis give.
LEMMA CellsApart ==
  ASSUME edges \in Seq(Declarable)
  PROVE  CellsOnce
<1> DEFINE labelled == {c \in BehaviorCells.cells : c.side \in {"unglossed", "alignment", "event"}}
<1> SUFFICES ASSUME NEW c \in labelled, NEW d \in labelled, [c EXCEPT !.al = Nothing] = [d EXCEPT !.al = Nothing]
             PROVE  c = d
  BY DEF CellsOnce
<1>1. /\ \/ c.side = "unglossed" /\ \E ev, al : IsUnglossed(c, ev, al)
         \/ c.side # "unglossed" /\ \E ev, al : IsEvent(c, ev, al)
      /\ \/ d.side = "unglossed" /\ \E ev, al : IsUnglossed(d, ev, al)
         \/ d.side # "unglossed" /\ \E ev, al : IsEvent(d, ev, al)
  <2>1. c \in BehaviorCells.cells /\ c.side \in {"unglossed", "alignment", "event"}
    OBVIOUS
  <2>2. d \in BehaviorCells.cells /\ d.side \in {"unglossed", "alignment", "event"}
    OBVIOUS
  <2> HIDE DEF labelled
  <2>3. \/ c.side = "unglossed" /\ \E ev, al : IsUnglossed(c, ev, al)
        \/ c.side # "unglossed" /\ \E ev, al : IsEvent(c, ev, al)
    BY <2>1, LabelledCells
  <2>4. \/ d.side = "unglossed" /\ \E ev, al : IsUnglossed(d, ev, al)
        \/ d.side # "unglossed" /\ \E ev, al : IsEvent(d, ev, al)
    BY <2>2, LabelledCells
  <2> QED
    BY <2>3, <2>4
<1> HIDE DEF labelled
<1>2. [c EXCEPT !.al = Nothing].side = [d EXCEPT !.al = Nothing].side
  OBVIOUS
<1>3. ASSUME NEW ev \in Events(Subject.table), NEW al \in Alignments(Subject.table, ev),
             NEW bl \in Alignments(Subject.table, ev), Label(al) = Label(bl)
      PROVE  al = bl
  <2>1. ev # Subject.table
    BY DEF Events
  <2> QED
    BY <1>3, <2>1, LabelledOnce
<1>4. CASE (\E ev, al : IsUnglossed(c, ev, al)) /\ (\E ev, al : IsUnglossed(d, ev, al))
  <2>1. PICK ev, al : IsUnglossed(c, ev, al)
    BY <1>4
  <2>2. PICK fv, bl : IsUnglossed(d, fv, bl)
    BY <1>4
  <2>3. PICK axis, term : c = [side |-> "unglossed", event |-> ev, al |-> al, align |-> Label(al),
                          measureAlign |-> MeasureLabel(al), axis |-> axis, term |-> term]
    BY <2>1 DEF IsUnglossed
  <2>4. PICK bxis, berm : d = [side |-> "unglossed", event |-> fv, al |-> bl, align |-> Label(bl),
                          measureAlign |-> MeasureLabel(bl), axis |-> bxis, term |-> berm]
    BY <2>2 DEF IsUnglossed
  <2>5. ev = fv /\ Label(al) = Label(bl) /\ axis = bxis /\ term = berm
    BY <2>3, <2>4
  <2>6. al = bl
    BY <1>3, <2>1, <2>2, <2>5 DEF IsUnglossed, IsEvent
  <2> QED
    BY <2>3, <2>4, <2>5, <2>6
<1>5. CASE (\E ev, al : IsEvent(c, ev, al)) /\ (\E ev, al : IsEvent(d, ev, al))
  <2>1. PICK ev, al : IsEvent(c, ev, al)
    BY <1>5
  <2>2. PICK fv, bl : IsEvent(d, fv, bl)
    BY <1>5
  <2>3. PICK side, axis, term, from :
          c = [side |-> side, event |-> ev, al |-> al, align |-> Label(al),
               measureAlign |-> MeasureLabel(al), axis |-> axis, term |-> term, from |-> from]
    BY <2>1 DEF IsEvent
  <2>4. PICK bide, bxis, berm, brom :
          d = [side |-> bide, event |-> fv, al |-> bl, align |-> Label(bl),
               measureAlign |-> MeasureLabel(bl), axis |-> bxis, term |-> berm, from |-> brom]
    BY <2>2 DEF IsEvent
  <2> DEFINE cc == [c EXCEPT !.al = Nothing]
             dd == [d EXCEPT !.al = Nothing]
  <2>5. /\ cc.side = side /\ cc.event = ev /\ cc.align = Label(al) /\ cc.axis = axis /\ cc.term = term
        /\ cc.from = from
    BY <2>3
  <2>6. /\ dd.side = bide /\ dd.event = fv /\ dd.align = Label(bl) /\ dd.axis = bxis /\ dd.term = berm
        /\ dd.from = brom
    BY <2>4
  <2>7. cc = dd
    OBVIOUS
  <2> HIDE DEF cc, dd
  <2>8. /\ ev = fv /\ Label(al) = Label(bl) /\ side = bide /\ axis = bxis /\ term = berm /\ from = brom
    BY <2>5, <2>6, <2>7
  <2>9. al = bl
    BY <1>3, <2>1, <2>2, <2>8 DEF IsUnglossed, IsEvent
  <2> QED
    BY <2>3, <2>4, <2>8, <2>9
<1>6. c.side = "unglossed" <=> d.side = "unglossed"
  <2>1. ASSUME NEW x, NEW y, x \in {c, d}, y \in {c, d},
               (\E ev, al : IsUnglossed(x, ev, al)), (\E ev, al : IsEvent(y, ev, al))
        PROVE  [x EXCEPT !.al = Nothing].side # [y EXCEPT !.al = Nothing].side
    <3>1. PICK ev, al, axis, term :
            x = [side |-> "unglossed", event |-> ev, al |-> al, align |-> Label(al),
                 measureAlign |-> MeasureLabel(al), axis |-> axis, term |-> term]
      BY <2>1 DEF IsUnglossed
    <3>2. PICK fv, bl : IsEvent(y, fv, bl)
      BY <2>1
    <3>3. PICK side \in {"alignment", "event"}, bxis \in TimeAxes(fv) : \E berm :
            y = [side |-> side, event |-> fv, al |-> bl, align |-> Label(bl), measureAlign |-> MeasureLabel(bl),
                 axis |-> bxis.label, term |-> berm, from |-> SideOf(fv, bxis, bl.eVia, bl.eCols)]
      BY <3>2 DEF IsEvent
    <3>4. [x EXCEPT !.al = Nothing].side = "unglossed"
      BY <3>1
    <3>5. [y EXCEPT !.al = Nothing].side = side
      BY <3>3
    <3> QED
      BY <3>3, <3>4, <3>5
  <2> QED
    BY <1>1, <1>2, <2>1
<1> QED
  BY <1>1, <1>4, <1>5, <1>6

\* A borrowed alignment goes along the first of the edges onto its document.
LEMMA FirstHop ==
  ASSUME edges \in Seq(Declarable), NEW table, NEW ev,
         NEW a \in Alignments(table, ev), NEW p1 \in Pointers, NEW p2 \in Pointers, NEW q \in Pointers,
         IsBorrowed(a, p1, p2, q, table, ev), NEW v \in Pointers, v.src = table, v.dst = p1.dst
  PROVE  p1.place <= v.place
<1> DEFINE near == Direct(Pointers, table, ev) \cup Meeting(Pointers, table, ev)
                     \cup Borrowed(Pointers, table, ev)
           b == Align(<<3, v.place, p2.place, q.place>>, p2.srcCols, q.srcCols, {v}, {})
<1>1. a.rank[1] = 3
  BY DEF IsBorrowed, Align
<1>2. a \in Borrowed(Pointers, table, ev)
  <2>1. a \in near \/ a \in EventBorrowed(Pointers, table, ev)
    BY DEF Alignments, Deduped
  <2>2. RanksSay(a, table, ev)
    BY KindRanks
  <2>3. a \notin EventBorrowed(Pointers, table, ev)
    BY <1>1, <2>2, EventBorrowedKind DEF RanksSay
  <2>4. a \notin Direct(Pointers, table, ev)
    BY <1>1, <2>2, DirectKind DEF RanksSay
  <2>5. a \notin Meeting(Pointers, table, ev)
    BY <1>1, <2>2, MeetingKind DEF RanksSay
  <2> QED
    BY <2>1, <2>3, <2>4, <2>5
<1>3. IsBorrowed(b, v, p2, q, table, ev)
  BY DEF IsBorrowed
<1>4. ~ OwnsEntity(Pointers, table)
  BY <1>2, BorrowedKind
<1>5. b \in Borrowed(Pointers, table, ev)
  <2> HIDE DEF b
  <2> QED
    BY <1>3, <1>4, BorrowedKind
<1>6. Label(b) = Label(a)
  BY DEF IsBorrowed, Align, Label, Through
<1>7. ~ Before(b.rank, a.rank)
  <2>1. Alignments(table, ev) = Deduped(near)
    BY <1>2 DEF Alignments
  <2> HIDE DEF b
  <2> QED
    BY <1>5, <1>6, <2>1 DEF Deduped
<1>8. v.place \in Nat /\ p1.place \in Nat
  BY PointersTyped
<1>9. v.place < p1.place => Before(<<3, v.place, p2.place, q.place>>, <<3, p1.place, p2.place, q.place>>)
  BY <1>8 DEF Before
<1> QED
  BY <1>7, <1>8, <1>9 DEF IsBorrowed, Align

LEMMA HopKinds ==
  ASSUME NEW table, NEW ev, NEW a, AlignKind(a, table, ev)
  PROVE  \/ a.via = {}
         \/ \E p1, p2, q \in Pointers : IsBorrowed(a, p1, p2, q, table, ev) /\ a.via = {p1}
BY DEF AlignKind, IsDirect, IsMeeting, IsBorrowed, IsMastered, IsMet, Align

\* Alignments that key the measure alike join it alike: along the same edge.
LEMMA SameHop ==
  ASSUME edges \in Seq(Declarable), NEW table, NEW ev, NEW fv,
         NEW a \in Alignments(table, ev), NEW b \in Alignments(table, fv),
         MeasureLabel(a) = MeasureLabel(b)
  PROVE  a.via = b.via /\ a.mCols = b.mCols
<1>1. a.mCols = b.mCols /\ Through(a.via) = Through(b.via)
  BY DEF MeasureLabel
<1>2. \/ a.via = {}
      \/ \E p1, p2, q \in Pointers : IsBorrowed(a, p1, p2, q, table, ev) /\ a.via = {p1}
  BY AlignmentKinds, HopKinds
<1>3. \/ b.via = {}
      \/ \E p1, p2, q \in Pointers : IsBorrowed(b, p1, p2, q, table, fv) /\ b.via = {p1}
  BY AlignmentKinds, HopKinds
<1>4. a.via = {} <=> b.via = {}
  BY <1>1 DEF Through
<1>5. CASE a.via # {}
  <2>1. PICK p1 \in Pointers, p2 \in Pointers, q \in Pointers :
               IsBorrowed(a, p1, p2, q, table, ev) /\ a.via = {p1}
    BY <1>2, <1>5
  <2>2. PICK v1 \in Pointers, v2 \in Pointers, w \in Pointers :
               IsBorrowed(b, v1, v2, w, table, fv) /\ b.via = {v1}
    BY <1>3, <1>4, <1>5
  <2>3. p1.dst = v1.dst
    <3>1. Through(a.via) = {p1.dst} /\ Through(b.via) = {v1.dst}
      BY <2>1, <2>2 DEF Through
    <3> QED
      BY <1>1, <3>1
  <2>4. p1.src = table /\ v1.src = table
    BY <2>1, <2>2 DEF IsBorrowed
  <2>5. p1.place <= v1.place
    <3>1. IsBorrowed(a, p1, p2, q, table, ev)
      BY <2>1
    <3> QED
      BY <2>3, <2>4, <3>1, FirstHop
  <2>6. v1.place <= p1.place
    <3>1. IsBorrowed(b, v1, v2, w, table, fv)
      BY <2>2
    <3> QED
      BY <2>3, <2>4, <3>1, FirstHop
  <2>7. p1 = v1
    <3>1. p1.place \in Nat /\ v1.place \in Nat
      BY PointersTyped
    <3> QED
      BY <2>5, <2>6, <3>1, PointersTyped
  <2> QED
    BY <1>1, <2>1, <2>2, <2>7
<1> QED
  BY <1>1, <1>4, <1>5

LEMMA LeastAt ==
  ASSUME NEW R, R # {}, NEW n, \A r \in R : r[n] \in Nat
  PROVE  \E low \in Nat : (\A r \in R : low <= r[n]) /\ \E r \in R : r[n] = low
<1> DEFINE N == {r[n] : r \in R}
<1>1. N # {} /\ N \subseteq Nat
  OBVIOUS
<1>2. PICK low \in N : \A m \in N : low <= m
  <2> HIDE DEF N
  <2> QED
    BY <1>1, LeastNumber
<1> QED
  BY <1>1, <1>2

\* Of some places in the loops one is before no other.
LEMMA EarliestPlace ==
  ASSUME NEW R, R # {}, \A r \in R : \E v, w, x, y, z \in Nat : r = <<v, w, x, y, z>>
  PROVE  \E r \in R : \A s \in R : ~ Before(s, r)
<1>1. \A r \in R : DOMAIN r = 1 .. 5 /\ \A n \in 1 .. 5 : r[n] \in Nat
  <2> SUFFICES ASSUME NEW r \in R PROVE DOMAIN r = 1 .. 5 /\ \A n \in 1 .. 5 : r[n] \in Nat
    OBVIOUS
  <2>1. PICK v \in Nat, w \in Nat, x \in Nat, y \in Nat, z \in Nat : r = <<v, w, x, y, z>>
    OBVIOUS
  <2> QED
    BY <2>1
<1>2. PICK a \in Nat : (\A r \in R : a <= r[1]) /\ \E r \in R : r[1] = a
  BY <1>1, LeastAt
<1> DEFINE A == {r \in R : r[1] = a}
<1>3. PICK b \in Nat : (\A r \in A : b <= r[2]) /\ \E r \in A : r[2] = b
  <2>1. A # {} /\ \A r \in A : r[2] \in Nat
    BY <1>1, <1>2
  <2> HIDE DEF A
  <2> QED
    BY <2>1, LeastAt
<1> DEFINE B == {r \in A : r[2] = b}
<1>4. PICK c \in Nat : (\A r \in B : c <= r[3]) /\ \E r \in B : r[3] = c
  <2>1. B # {} /\ \A r \in B : r[3] \in Nat
    BY <1>1, <1>3
  <2> HIDE DEF B
  <2> QED
    BY <2>1, LeastAt
<1> DEFINE C == {r \in B : r[3] = c}
<1>5. PICK d \in Nat : (\A r \in C : d <= r[4]) /\ \E r \in C : r[4] = d
  <2>1. C # {} /\ \A r \in C : r[4] \in Nat
    BY <1>1, <1>4
  <2> HIDE DEF C
  <2> QED
    BY <2>1, LeastAt
<1> DEFINE D == {r \in C : r[4] = d}
<1>6. PICK e \in Nat : (\A r \in D : e <= r[5]) /\ \E r \in D : r[5] = e
  <2>1. D # {} /\ \A r \in D : r[5] \in Nat
    BY <1>1, <1>5
  <2> HIDE DEF D
  <2> QED
    BY <2>1, LeastAt
<1>7. PICK r \in D : r[5] = e
  BY <1>6
<1>8. r \in R /\ r[1] = a /\ r[2] = b /\ r[3] = c /\ r[4] = d
  BY <1>7
<1>9. ASSUME NEW s \in R, Before(s, r) PROVE FALSE
  <2>1. PICK n \in 1 .. 5 : s[n] < r[n] /\ \A m \in 1 .. (n - 1) : s[m] = r[m]
    BY <1>1, <1>9 DEF Before
  <2>2. s[1] \in Nat /\ s[2] \in Nat /\ s[3] \in Nat /\ s[4] \in Nat /\ s[5] \in Nat
    BY <1>1
  <2>3. n # 1
    BY <1>2, <1>8, <2>1, <2>2
  <2>4. s \in A
    BY <1>8, <2>1, <2>3
  <2>5. n # 2
    BY <1>3, <1>8, <2>1, <2>2, <2>4
  <2>6. s \in B
    BY <1>8, <2>1, <2>3, <2>4, <2>5
  <2>7. n # 3
    BY <1>4, <1>8, <2>1, <2>2, <2>6
  <2>8. s \in C
    BY <1>8, <2>1, <2>3, <2>5, <2>6, <2>7
  <2>9. n # 4
    BY <1>5, <1>8, <2>1, <2>2, <2>8
  <2>10. s \in D
    BY <1>8, <2>1, <2>3, <2>5, <2>7, <2>8, <2>9
  <2>11. n # 5
    BY <1>6, <1>7, <2>1, <2>2, <2>10
  <2> QED
    BY <2>1, <2>3, <2>5, <2>7, <2>9, <2>11
<1> QED
  BY <1>8, <1>9

\* The earliest of the alignments that have cells and key the measure alike.
LEMMA EarliestEmitting ==
  ASSUME edges \in Seq(Declarable),
         NEW e \in Emitting(Subject.table)
  PROVE  \E f \in Emitting(Subject.table) :
           /\ MeasureLabel(f.al) = MeasureLabel(e.al)
           /\ \A g \in Emitting(Subject.table) :
                MeasureLabel(g.al) = MeasureLabel(f.al) => ~ Before(Rank(g), Rank(f))
<1> DEFINE S == {f \in Emitting(Subject.table) : MeasureLabel(f.al) = MeasureLabel(e.al)}
           R == {Rank(f) : f \in S}
<1>1. ASSUME NEW f \in S PROVE \E v, w, x, y, z \in Nat : Rank(f) = <<v, w, x, y, z>>
  <2>1. PICK ev, al :
               /\ ev \in Events(Subject.table) /\ al \in Alignments(Subject.table, ev)
               /\ Terms(ev, al) # {} /\ f = [event |-> ev, al |-> al]
    BY EmittingAligns
  <2>2. AlignKind(al, Subject.table, ev)
    BY <2>1, AlignmentKinds
  <2>3. PICK w \in Nat, x \in Nat, y \in Nat, z \in Nat : al.rank = <<w, x, y, z>>
    BY <2>2, AlignmentParts
  <2>4. Place(ev) \in Nat
    <3>1. ev \in TableNames
      BY <2>1 DEF Events
    <3>2. \E i \in DOMAIN Landed : Landed[i] = ev
      BY <3>1 DEF TableNames, Range
    <3>3. DOMAIN Landed \subseteq Nat
      BY EvidenceAssumption
    <3> QED
      BY <3>2, <3>3 DEF Place
  <2> QED
    <3>1. Rank(f) = <<Place(ev), w, x, y, z>>
      BY <2>1, <2>3 DEF Rank
    <3> QED
      BY <2>4, <3>1
<1>2. R # {} /\ \A r \in R : \E v, w, x, y, z \in Nat : r = <<v, w, x, y, z>>
  BY <1>1
<1>3. PICK r \in R : \A s \in R : ~ Before(s, r)
  <2> HIDE DEF R
  <2> QED
    BY <1>2, EarliestPlace
<1>4. PICK f \in S : r = Rank(f)
  BY <1>3
<1>5. \A g \in S : ~ Before(Rank(g), Rank(f))
  BY <1>3, <1>4
<1> QED
  BY <1>4, <1>5

\* The measure's cells are shared by every alignment that keys it so
\* (BehaviorCellsBindReplace, its set measured): the one that wrote them joins the
\* measure as each of the others would, along the same edge of the same document.
LEMMA MeasureShared ==
  ASSUME edges \in Seq(Declarable)
  PROVE  MeasureServes
<1> DEFINE cells == BehaviorCells.cells
           table == Subject.table
           Labelled(r, maxis) == {m \in cells : m.side = "measure" /\ m.align = r.measureAlign /\ m.axis = maxis.label}
<1> SUFFICES ASSUME NEW r \in cells, r.side = "event", NEW maxis \in TimeAxes(table)
             PROVE  {m.from : m \in Labelled(r, maxis)} = {SideOf(table, maxis, r.al.via, r.al.mCols)}
  BY DEF MeasureServes
<1>1. cells = Cells(table)
  <2>1. cells = Cells(table) \/ \E why : cells = Reason(why)
    BY DEF BehaviorCells, Answer
  <2> QED
    BY <2>1 DEF Reason
<1>2. PICK ev, al : IsEvent(r, ev, al)
  BY LabelledCells
<1>3. /\ r.al = al /\ r.measureAlign = MeasureLabel(al)
      /\ ev \in Events(table) /\ al \in Alignments(table, ev) /\ Terms(ev, al) # {}
  BY <1>2 DEF IsEvent
<1>4. [event |-> ev, al |-> al] \in Emitting(table)
  BY <1>3, EmittingAligns
<1> DEFINE firsts == {e \in Emitting(table) : \A f \in Emitting(table) :
                        MeasureLabel(f.al) = MeasureLabel(e.al) => ~ Before(Rank(f), Rank(e))}
           Of(e) == {[side |-> "measure", align |-> MeasureLabel(e.al), axis |-> x.label,
                      from |-> SideOf(table, x, e.al.via, e.al.mCols)] : x \in TimeAxes(table)}
<1>5. MeasureSide(table, Emitting(table)) = UNION {Of(e) : e \in firsts}
  BY DEF MeasureSide
<1>6. ASSUME NEW e \in Emitting(table), MeasureLabel(e.al) = MeasureLabel(al)
      PROVE  e.al.via = al.via /\ e.al.mCols = al.mCols
  <2>1. PICK fv, bl :
               /\ fv \in Events(table) /\ bl \in Alignments(table, fv)
               /\ Terms(fv, bl) # {} /\ e = [event |-> fv, al |-> bl]
    BY EmittingAligns
  <2>2. bl.via = al.via /\ bl.mCols = al.mCols
    BY <1>3, <1>6, <2>1, SameHop
  <2> QED
    BY <2>1, <2>2
<1>7. ASSUME NEW m \in Labelled(r, maxis)
      PROVE  m.from = SideOf(table, maxis, al.via, al.mCols)
  <2>1. m \in MeasureSide(table, Emitting(table))
    <3>1. m \in Cells(table) /\ m.side = "measure"
      BY <1>1
    <3>2. m \notin Unglossed(table)
      BY <3>1, UnglossedCells DEF IsUnglossed
    <3>3. m \notin EventSide(Emitting(table))
      BY <3>1, EventCells DEF IsEvent
    <3> QED
      BY <3>1, <3>2, <3>3, OtherSides DEF Cells
  <2> HIDE DEF Of, firsts
  <2>2. PICK e \in firsts : m \in Of(e)
    BY <1>5, <2>1
  <2>3. PICK x \in TimeAxes(table) :
               m = [side |-> "measure", align |-> MeasureLabel(e.al), axis |-> x.label,
                    from |-> SideOf(table, x, e.al.via, e.al.mCols)]
    BY <2>2 DEF Of
  <2>4. MeasureLabel(e.al) = MeasureLabel(al) /\ x.label = maxis.label
    BY <1>3, <2>3
  <2>5. x = maxis
    BY <2>4, AxesApart
  <2>6. e \in Emitting(table)
    BY DEF firsts
  <2>7. e.al.via = al.via /\ e.al.mCols = al.mCols
    BY <1>6, <2>4, <2>6
  <2> QED
    BY <2>3, <2>5, <2>7
<1>8. \E m \in Labelled(r, maxis) : TRUE
  <2>1. PICK f \in Emitting(table) :
           /\ MeasureLabel(f.al) = MeasureLabel(al)
           /\ \A g \in Emitting(table) :
                MeasureLabel(g.al) = MeasureLabel(f.al) => ~ Before(Rank(g), Rank(f))
    <3> DEFINE e == [event |-> ev, al |-> al]
    <3>1. e \in Emitting(table) /\ e.al = al
      BY <1>4
    <3> HIDE DEF e
    <3> QED
      BY <3>1, EarliestEmitting
  <2> DEFINE m == [side |-> "measure", align |-> MeasureLabel(f.al), axis |-> maxis.label,
                   from |-> SideOf(table, maxis, f.al.via, f.al.mCols)]
  <2>2. f \in firsts /\ m \in Of(f)
    BY <2>1
  <2> HIDE DEF Of, firsts
  <2>3. m \in MeasureSide(table, Emitting(table))
    BY <1>5, <2>2
  <2>4. m \in Cells(table)
    BY <2>3 DEF Cells
  <2>5. m \in Labelled(r, maxis)
    BY <1>1, <1>3, <2>1, <2>4
  <2> QED
    BY <2>5
<1> HIDE DEF Labelled, firsts, Of
<1> QED
  BY <1>3, <1>7, <1>8

-----------------------------------------------------------------------------
(* What a call reads it names.                                              *)

\* A row's relations are numbered as they move, tables are those of the dataset.
EvidenceTyped ==
  /\ edges \in Seq(Declarable)
  /\ DOMAIN shape = TableNames
  /\ version \in [TableNames \cup Record -> Nat]
  /\ Numbered(glossed)

\* The tables a call over the subject's column reads, once its column is a measure.
TablesNear == {Subject.table} \cup LegsNamed

\* A table of the pointers stands.
LEMMA LegsStand ==
  ASSUME EvidenceTyped, NEW z \in LegsNamed PROVE Stands(z) /\ z \in TableNames
<1>1. PICK p \in Pointers : z = p.src \/ z = p.dst
  BY DEF LegsNamed
<1> DEFINE placed == {i \in DOMAIN edges : Fits(edges[i]) /\ Stands(edges[i].child.table)
                                             /\ Stands(edges[i].parent.table)}
<1>2. PICK i \in placed : \/ p = Pointer(2 * i, edges[i].child, edges[i].parent)
                          \/ p = Pointer(2 * i + 1, edges[i].parent, edges[i].child)
  BY DEF Pointers
<1>3. Stands(p.src) /\ Stands(p.dst)
  BY <1>2 DEF Pointer
<1>4. p.src \in TableNames /\ p.dst \in TableNames
  BY PointersTyped DEF EvidenceTyped
<1> QED
  BY <1>1, <1>3, <1>4

LEMMA EventsNear ==
  ASSUME EvidenceTyped, NEW ev, Alignments(Subject.table, ev) # {} PROVE ev \in TablesNear
<1>1. PICK al : al \in Alignments(Subject.table, ev)
  OBVIOUS
<1>2. ev \in LegsNamed
  BY <1>1, AlignmentKinds, AlignmentParts DEF EvidenceTyped
<1> QED
  BY <1>2 DEF TablesNear

LEMMA AxisBorrows ==
  ASSUME NEW table, NEW x \in TimeAxes(table)
  PROVE  x.borrowed \subseteq Pointers
<1> DEFINE own == {Own(table, c) : c \in ColumnsOf(table, TemporalTypes)}
           hops == {p \in Pointers : p.src = table /\ p.dst # table}
           firsts == {p \in hops : \A q \in hops : p.dst = q.dst /\ p.srcCols = q.srcCols => p.place <= q.place}
           Of(p) == {Lent(p, c) : c \in ColumnsOf(p.dst, TemporalTypes)}
<1>1. CASE own # {}
  <2>1. PICK c : x = Own(table, c)
    BY <1>1 DEF TimeAxes
  <2> QED
    BY <2>1 DEF Own
<1>2. CASE own = {}
  <2>1. TimeAxes(table) = UNION {Of(p) : p \in firsts}
    BY <1>2 DEF TimeAxes
  <2> HIDE DEF Of, firsts
  <2>2. PICK p \in firsts : x \in Of(p)
    BY <2>1
  <2>3. PICK c : x = Lent(p, c)
    BY <2>2 DEF Of
  <2>4. p \in Pointers
    BY DEF firsts
  <2> QED
    BY <2>3, <2>4 DEF Lent
<1> QED
  BY <1>1, <1>2

LEMMA SideNames ==
  ASSUME NEW table \in TablesNear, NEW x \in TimeAxes(table),
         NEW hop, hop \subseteq Pointers, NEW cols
  PROVE  SideTables(SideOf(table, x, hop, cols)) \subseteq TablesNear
<1>1. \A p \in Pointers : p.dst \in TablesNear
  BY DEF TablesNear, LegsNamed
<1>2. x.borrowed \subseteq Pointers
  BY AxisBorrows
<1> QED
  BY <1>1, <1>2 DEF SideTables, SideOf, Through

\* A measure cell is one of an alignment that has cells, on one of the measure's axes.
LEMMA MeasureCells ==
  ASSUME NEW table, NEW m \in MeasureSide(table, Emitting(table))
  PROVE  \E e \in Emitting(table), x \in TimeAxes(table) :
           m = [side |-> "measure", align |-> MeasureLabel(e.al), axis |-> x.label,
                from |-> SideOf(table, x, e.al.via, e.al.mCols)]
<1> DEFINE firsts == {e \in Emitting(table) : \A f \in Emitting(table) :
                        MeasureLabel(f.al) = MeasureLabel(e.al) => ~ Before(Rank(f), Rank(e))}
           Of(e) == {[side |-> "measure", align |-> MeasureLabel(e.al), axis |-> x.label,
                      from |-> SideOf(table, x, e.al.via, e.al.mCols)] : x \in TimeAxes(table)}
<1>1. MeasureSide(table, Emitting(table)) = UNION {Of(e) : e \in firsts}
  BY DEF MeasureSide
<1>2. firsts \subseteq Emitting(table)
  OBVIOUS
<1> HIDE DEF Of, firsts
<1>3. PICK e \in firsts : m \in Of(e)
  BY <1>1
<1>4. PICK x \in TimeAxes(table) :
             m = [side |-> "measure", align |-> MeasureLabel(e.al), axis |-> x.label,
                  from |-> SideOf(table, x, e.al.via, e.al.mCols)]
  BY <1>3 DEF Of
<1> QED
  BY <1>2, <1>3, <1>4

LEMMA ColumnCells ==
  ASSUME EvidenceTyped, NEW c \in ColumnSide(Emitting(Subject.table))
  PROVE  c.event \in TablesNear
<1> DEFINE Of(ev) == {[side |-> "column", event |-> ev, term |-> x, identifier |-> x \in Legs(ev)]
                        : x \in ColumnsOf(ev, NumericTypes)}
           events == {e.event : e \in Emitting(Subject.table)}
<1>1. c \in UNION {Of(ev) : ev \in events}
  BY DEF ColumnSide
<1>2. \A ev \in events : ev \in TablesNear
  <2> SUFFICES ASSUME NEW e \in Emitting(Subject.table) PROVE e.event \in TablesNear
    OBVIOUS
  <2>1. PICK ev, al : ev \in Events(Subject.table) /\ e = [event |-> ev, al |-> al]
    BY EmittingAligns
  <2> QED
    BY <2>1, EventsNear DEF Events
<1>3. \A ev : \A x \in Of(ev) : x.event = ev
  OBVIOUS
<1> HIDE DEF Of, events
<1> QED
  BY <1>1, <1>2, <1>3

LEMMA PlanNames ==
  ASSUME EvidenceTyped
  PROVE  PlanReads(Cells(Subject.table)) \subseteq TablesNear
<1>1. Subject.table \in TablesNear
  BY DEF TablesNear
<1>2. ASSUME NEW c \in Cells(Subject.table), c.side = "measure"
      PROVE  SideTables(c.from) \subseteq TablesNear
  <2>1. c \in MeasureSide(Subject.table, Emitting(Subject.table))
    BY <1>2, UnglossedCells, EventCells, OtherSides DEF Cells, IsUnglossed, IsEvent
  <2>2. PICK e \in Emitting(Subject.table), x \in TimeAxes(Subject.table) :
               c = [side |-> "measure", align |-> MeasureLabel(e.al), axis |-> x.label,
                    from |-> SideOf(Subject.table, x, e.al.via, e.al.mCols)]
    BY <2>1, MeasureCells
  <2>3. PICK ev, al : al \in Alignments(Subject.table, ev) /\ e = [event |-> ev, al |-> al]
    BY EmittingAligns
  <2>4. al.via \subseteq Pointers
    BY <2>3, AlignmentKinds, AlignmentParts DEF EvidenceTyped
  <2> QED
    BY <1>1, <2>2, <2>3, <2>4, SideNames
<1>3. ASSUME NEW c \in Cells(Subject.table), c.side = "event"
      PROVE  SideTables(c.from) \subseteq TablesNear
  <2>1. c \in EventSide(Emitting(Subject.table))
    BY <1>3, UnglossedCells, OtherSides DEF Cells, IsUnglossed
  <2>2. PICK ev, al : IsEvent(c, ev, al)
    BY <2>1, EventCells
  <2>3. PICK axis \in TimeAxes(ev) : c.from = SideOf(ev, axis, al.eVia, al.eCols)
    BY <2>2 DEF IsEvent
  <2>4. ev \in TablesNear /\ al \in Alignments(Subject.table, ev)
    BY <2>2, EventsNear DEF IsEvent, Events
  <2>5. al.eVia \subseteq Pointers
    BY <2>4, AlignmentKinds, AlignmentParts DEF EvidenceTyped
  <2> QED
    BY <2>3, <2>4, <2>5, SideNames
<1>4. ASSUME NEW c \in Cells(Subject.table), c.side = "column"
      PROVE  c.event \in TablesNear
  <2>1. c \in ColumnSide(Emitting(Subject.table))
    BY <1>4, UnglossedCells, EventCells, OtherSides DEF Cells, IsUnglossed, IsEvent
  <2> QED
    BY <2>1, ColumnCells
<1>5. ASSUME NEW n \in PlanReads(Cells(Subject.table)) PROVE n \in TablesNear
  <2>1. \/ \E c \in Cells(Subject.table) : c.side \in {"measure", "event"} /\ n \in SideTables(c.from)
        \/ \E c \in Cells(Subject.table) : c.side = "column" /\ n = c.event
    <3> DEFINE joined == UNION {SideTables(c.from) : c \in {c \in Cells(Subject.table) : c.side \in {"measure", "event"}}}
               listed == {c.event : c \in {c \in Cells(Subject.table) : c.side = "column"}}
    <3>1. PlanReads(Cells(Subject.table)) = joined \cup listed
      BY DEF PlanReads
    <3>2. ASSUME n \in joined
          PROVE  \E c \in Cells(Subject.table) : c.side \in {"measure", "event"} /\ n \in SideTables(c.from)
      BY <3>2
    <3>3. ASSUME n \in listed
          PROVE  \E c \in Cells(Subject.table) : c.side = "column" /\ n = c.event
      BY <3>3
    <3> HIDE DEF joined, listed
    <3> QED
      BY <1>5, <3>1, <3>2, <3>3
  <2> QED
    BY <1>2, <1>3, <1>4, <2>1
<1> QED
  BY <1>5

\* A check is of an edge.
LEMMA CheckEdges ==
  /\ \A c \in Checks : \E i \in Checked : c.edge = edges[i]
  /\ \A i \in Checked : \E c \in Checks : c.edge = edges[i]
<1> DEFINE Of(i) == [side |-> "check", seq |-> Cardinality({j \in Checked : j < i}), edge |-> edges[i],
                     pairs |-> IF edges[i].child.table = edges[i].parent.table THEN {}
                               ELSE FirstDates(edges[i].child.table) \X FirstDates(edges[i].parent.table)]
<1>1. Checks = {Of(i) : i \in Checked}
  BY DEF Checks
<1>2. \A i \in Checked : Of(i).edge = edges[i]
  OBVIOUS
<1> HIDE DEF Of
<1> QED
  BY <1>1, <1>2

\* What a call names is the dataset's tables and the record's relations.
LEMMA NamesAreRelations ==
  ASSUME EvidenceTyped, NEW call \in Calls
  PROVE  Found[call].names \subseteq TableNames \cup {"main.relationships", "main.glossary"}
<1>1. \A p \in Pointers : p.src \in TableNames /\ p.dst \in TableNames
  BY PointersTyped DEF EvidenceTyped
<1>2. LegsNamed \subseteq TableNames /\ TablesNear \subseteq TableNames
  BY <1>1, EvidenceAssumption DEF LegsNamed, TablesNear
<1>3. BehaviorCells.names \subseteq TableNames \cup {"main.relationships", "main.glossary"}
  <2> DEFINE bound == {Subject.table, "main.relationships"} \cup LegsNamed
             all == bound \cup {"main.glossary"} \cup PlanReads(Cells(Subject.table))
  <2>1. BehaviorCells.names \in {{Subject.table}, bound, bound \cup {"main.glossary"}, all}
    BY DEF BehaviorCells, Answer
  <2>2. Subject.table \in TableNames
    BY EvidenceAssumption
  <2>3. all \subseteq TableNames \cup {"main.relationships", "main.glossary"}
    BY <1>2, <2>2, PlanNames
  <2>4. BehaviorCells.names \subseteq all
    BY <2>1
  <2> QED
    BY <2>3, <2>4
<1>4. RelationshipChecks.names \subseteq TableNames \cup {"main.relationships", "main.glossary"}
  <2>1. \A i \in DOMAIN edges : edges[i] \in Declarable
    BY DEF EvidenceTyped
  <2>2. \A c \in Checks : c.edge.child.table \in TableNames /\ c.edge.parent.table \in TableNames
    BY <2>1, CheckEdges, EvidenceAssumption DEF Checked
  <2> QED
    BY <2>2 DEF RelationshipChecks, Answer
<1> QED
  BY <1>3, <1>4 DEF Found, Calls

-----------------------------------------------------------------------------
(* And finds the same while nothing it names moves.                         *)

\* The pointers are the same while their tables stay and none that an edge waits
\* for lands.
LEMMA SamePlaced ==
  ASSUME EvidenceTyped, edges' = edges, \A z \in LegsNamed : shape'[z] = shape[z],
         \A t \in Related : ~ Stands(t) => ~ Stands(t)'
  PROVE  Pointers' = Pointers
<1> DEFINE placed == {i \in DOMAIN edges : Fits(edges[i]) /\ Stands(edges[i].child.table)
                                             /\ Stands(edges[i].parent.table)}
<1>1. ASSUME NEW i \in DOMAIN edges, Fits(edges[i])
      PROVE  i \in placed' <=> i \in placed
  <2> DEFINE c == edges[i].child.table
             d == edges[i].parent.table
  <2>1. c \in Related /\ d \in Related
    BY DEF Related, Range
  <2>2. CASE Stands(c) /\ Stands(d)
    <3>1. i \in placed
      BY <1>1, <2>2
    <3>2. Pointer(2 * i, edges[i].child, edges[i].parent) \in Pointers
      BY <3>1 DEF Pointers
    <3>3. c \in LegsNamed /\ d \in LegsNamed
      BY <3>2 DEF LegsNamed, Pointer
    <3>4. Stands(c)' /\ Stands(d)'
      BY <2>2, <3>3 DEF Stands
    <3> QED
      BY <1>1, <3>1, <3>4
  <2>3. CASE ~ (Stands(c) /\ Stands(d))
    <3>1. ~ (Stands(c)' /\ Stands(d)')
      BY <2>1, <2>3
    <3> QED
      BY <2>3, <3>1
  <2> QED
    BY <2>2, <2>3
<1>2. placed' = placed
  BY <1>1
<1> DEFINE Both(I) == {Pointer(2 * i, edges[i].child, edges[i].parent) : i \in I}
                      \cup {Pointer(2 * i + 1, edges[i].parent, edges[i].child) : i \in {i \in I : edges[i].op = "<->"}}
<1>3. Pointers = Both(placed) /\ Pointers' = Both(placed')
  <2>1. Pointers = Both(placed)
    BY DEF Pointers
  <2>2. Pointers' = Both(placed')
    BY DEF Pointers
  <2> QED
    BY <2>1, <2>2
<1> HIDE DEF placed, Both
<1> QED
  BY <1>2, <1>3

LEMMA SamePointers ==
  ASSUME Pointers' = Pointers
  PROVE  /\ LegsNamed' = LegsNamed
         /\ \A x : Legs(x)' = Legs(x)
         /\ \A x, y : Alignments(x, y)' = Alignments(x, y)
<1>1. LegsNamed' = LegsNamed
  BY DEF LegsNamed
<1>2. ASSUME NEW x PROVE Legs(x)' = Legs(x)
  BY DEF Legs
<1>3. ASSUME NEW x, NEW y PROVE Alignments(x, y)' = Alignments(x, y)
  BY DEF Alignments
<1> QED
  BY <1>1, <1>2, <1>3

LEMMA SameAxes ==
  ASSUME Pointers' = Pointers, NEW y \in TablesNear,
         \A z \in TablesNear : ColumnsOf(z, TemporalTypes)' = ColumnsOf(z, TemporalTypes)
  PROVE  TimeAxes(y)' = TimeAxes(y)
<1>1. Pointers' = Pointers
  OBVIOUS
<1>2. \A p \in Pointers : p.dst \in TablesNear
  BY DEF TablesNear, LegsNamed
<1> DEFINE hops == {p \in Pointers : p.src = y /\ p.dst # y}
           firsts == {p \in hops : \A q \in hops : p.dst = q.dst /\ p.srcCols = q.srcCols => p.place <= q.place}
           own == {Own(y, c) : c \in ColumnsOf(y, TemporalTypes)}
           Of(p) == {Lent(p, c) : c \in ColumnsOf(p.dst, TemporalTypes)}
<1>3. TimeAxes(y) = IF own # {} THEN own ELSE UNION {Of(p) : p \in firsts}
  BY DEF TimeAxes
<1>4. TimeAxes(y)' = IF own' # {} THEN own' ELSE UNION {Of(p)' : p \in firsts}
  BY <1>1 DEF TimeAxes
<1>5. own' = own
  BY DEF Own
<1>6. \A p \in firsts : Of(p)' = Of(p)
  BY <1>2
<1> HIDE DEF own, Of, firsts
<1> QED
  BY <1>3, <1>4, <1>5, <1>6

\* What stands of the record and of the tables near the subject's, for its cells.
SameNearby ==
  /\ Pointers' = Pointers /\ glossed' = glossed /\ voiced' = voiced
  /\ \A z \in TablesNear : shape'[z] = shape[z]

LEMMA SameColumns ==
  ASSUME SameNearby, NEW z \in TablesNear, NEW types
  PROVE  ColumnsOf(z, types)' = ColumnsOf(z, types)
BY DEF SameNearby, ColumnsOf

LEMMA SameMoves ==
  ASSUME SameNearby, NEW ev \in TablesNear
  PROVE  /\ TimeAxes(ev)' = TimeAxes(ev)
         /\ Candidates(ev)' = Candidates(ev)
         /\ Pool(ev)' = Pool(ev)
         /\ \A al : Terms(ev, al)' = Terms(ev, al)
         /\ ColumnsOf(ev, NumericTypes)' = ColumnsOf(ev, NumericTypes)
<1>1. ColumnsOf(ev, NumericTypes)' = ColumnsOf(ev, NumericTypes)
  BY SameColumns
<1>2. TimeAxes(ev)' = TimeAxes(ev)
  <2>1. \A z \in TablesNear : ColumnsOf(z, TemporalTypes)' = ColumnsOf(z, TemporalTypes)
    BY SameColumns
  <2> QED
    BY <2>1, SameAxes DEF SameNearby
<1>3. Legs(ev)' = Legs(ev)
  BY SamePointers DEF SameNearby
<1>4. Candidates(ev)' = Candidates(ev)
  BY <1>1, <1>3 DEF Candidates
<1>5. \A c : Role(ev, c)' = Role(ev, c)
  BY DEF SameNearby, Role, On
<1>6. Pool(ev)' = Pool(ev)
  BY <1>4, <1>5 DEF Pool
<1>7. \A al : Terms(ev, al)' = Terms(ev, al)
  BY <1>6 DEF Terms
<1> QED
  BY <1>1, <1>2, <1>4, <1>6, <1>7

LEMMA SameEvents ==
  ASSUME EvidenceTyped, SameNearby
  PROVE  /\ \A ev \in Events(Subject.table) : ev \in TablesNear
         /\ Events(Subject.table)' = Events(Subject.table)
<1>1. \A ev : Alignments(Subject.table, ev)' = Alignments(Subject.table, ev)
  BY SamePointers DEF SameNearby
<1>2. ASSUME NEW ev, Alignments(Subject.table, ev) # {} PROVE ev \in TablesNear
  BY <1>2, EventsNear
<1>3. ASSUME NEW ev \in TableNames \ {Subject.table}
      PROVE  ev \in Events(Subject.table)' <=> ev \in Events(Subject.table)
  <2>1. CASE Alignments(Subject.table, ev) = {}
    BY <1>1, <2>1 DEF Events
  <2>2. CASE Alignments(Subject.table, ev) # {}
    <3>1. TimeAxes(ev)' = TimeAxes(ev) /\ Candidates(ev)' = Candidates(ev)
      BY <1>2, <2>2, SameMoves
    <3> QED
      BY <1>1, <3>1 DEF Events
  <2> QED
    BY <2>1, <2>2
<1>4. /\ Events(Subject.table) \subseteq TableNames \ {Subject.table}
      /\ Events(Subject.table)' \subseteq TableNames \ {Subject.table}
      /\ \A ev \in Events(Subject.table) : Alignments(Subject.table, ev) # {}
  BY DEF Events
<1> QED
  BY <1>2, <1>3, <1>4

LEMMA SameUnglossed ==
  ASSUME EvidenceTyped, SameNearby
  PROVE  Unglossed(Subject.table)' = Unglossed(Subject.table)
<1> DEFINE Of(ev) == {[side |-> "unglossed", event |-> ev, al |-> al, align |-> Label(al),
                       measureAlign |-> MeasureLabel(al), axis |-> eaxis.label, term |-> maxis.label]
                        : al \in Alignments(Subject.table, ev), eaxis \in TimeAxes(ev), maxis \in TimeAxes(Subject.table)}
           empty == {ev \in Events(Subject.table) : Pool(ev) = {}}
<1>1. Unglossed(Subject.table) = UNION {Of(ev) : ev \in empty}
  BY DEF Unglossed
<1>2. Subject.table \in TablesNear
  BY DEF TablesNear
<1>3. empty' = empty
  BY SameEvents, SameMoves
<1>4. TimeAxes(Subject.table)' = TimeAxes(Subject.table)
  BY <1>2, SameMoves
<1>5. ASSUME NEW ev \in empty PROVE Of(ev)' = Of(ev)
  <2>1. TimeAxes(ev)' = TimeAxes(ev)
    BY SameEvents, SameMoves
  <2>2. Alignments(Subject.table, ev)' = Alignments(Subject.table, ev)
    BY SamePointers DEF SameNearby
  <2> QED
    BY <1>4, <2>1, <2>2
<1>6. Unglossed(Subject.table)' = UNION {Of(ev)' : ev \in empty'}
  BY DEF Unglossed
<1> HIDE DEF Of, empty
<1> QED
  BY <1>1, <1>3, <1>5, <1>6

LEMMA SameEmitting ==
  ASSUME EvidenceTyped, SameNearby
  PROVE  Emitting(Subject.table)' = Emitting(Subject.table)
<1> DEFINE Of(ev) == {[event |-> ev, al |-> al]
                        : al \in {al \in Alignments(Subject.table, ev) : Terms(ev, al) # {}}}
<1>1. Emitting(Subject.table) = UNION {Of(ev) : ev \in Events(Subject.table)}
  BY DEF Emitting
<1>2. Emitting(Subject.table)' = UNION {Of(ev)' : ev \in Events(Subject.table)'}
  BY DEF Emitting
<1>3. ASSUME NEW ev \in Events(Subject.table) PROVE Of(ev)' = Of(ev)
  <2>1. \A al : Terms(ev, al)' = Terms(ev, al)
    BY SameEvents, SameMoves
  <2>2. Alignments(Subject.table, ev)' = Alignments(Subject.table, ev)
    BY SamePointers DEF SameNearby
  <2> QED
    BY <2>1, <2>2
<1> HIDE DEF Of
<1> QED
  BY <1>1, <1>2, <1>3, SameEvents

LEMMA SameMeasureSide ==
  ASSUME EvidenceTyped, SameNearby
  PROVE  MeasureSide(Subject.table, Emitting(Subject.table))'
           = MeasureSide(Subject.table, Emitting(Subject.table))
<1> DEFINE em == Emitting(Subject.table)
           firsts == {e \in em : \A f \in em :
                        MeasureLabel(f.al) = MeasureLabel(e.al) => ~ Before(Rank(f), Rank(e))}
           Of(e) == {[side |-> "measure", align |-> MeasureLabel(e.al), axis |-> maxis.label,
                      from |-> SideOf(Subject.table, maxis, e.al.via, e.al.mCols)]
                       : maxis \in TimeAxes(Subject.table)}
<1>1. em' = em
  BY SameEmitting
<1>2. TimeAxes(Subject.table)' = TimeAxes(Subject.table)
  BY SameMoves DEF TablesNear
<1>3. MeasureSide(Subject.table, em) = UNION {Of(e) : e \in firsts}
  BY DEF MeasureSide
<1>4. MeasureSide(Subject.table, em)' = UNION {Of(e)' : e \in firsts'}
  BY DEF MeasureSide
<1>5. firsts' = firsts
  BY <1>1
<1>6. ASSUME NEW e \in firsts PROVE Of(e)' = Of(e)
  BY <1>2
<1> HIDE DEF Of, firsts
<1> QED
  BY <1>3, <1>4, <1>5, <1>6

LEMMA SameEventSide ==
  ASSUME EvidenceTyped, SameNearby
  PROVE  EventSide(Emitting(Subject.table))' = EventSide(Emitting(Subject.table))
<1> DEFINE em == Emitting(Subject.table)
           Of(e) == {[side |-> IF term = Nothing THEN "alignment" ELSE "event", event |-> e.event, al |-> e.al,
                      align |-> Label(e.al), measureAlign |-> MeasureLabel(e.al), axis |-> eaxis.label, term |-> term,
                      from |-> SideOf(e.event, eaxis, e.al.eVia, e.al.eCols)]
                       : eaxis \in TimeAxes(e.event), term \in {Nothing} \cup Terms(e.event, e.al)}
<1>1. em' = em
  BY SameEmitting
<1>2. EventSide(em) = UNION {Of(e) : e \in em}
  BY DEF EventSide
<1>3. EventSide(em)' = UNION {Of(e)' : e \in em'}
  BY DEF EventSide
<1>4. ASSUME NEW e \in em PROVE Of(e)' = Of(e)
  <2>1. PICK ev, al : ev \in Events(Subject.table) /\ e = [event |-> ev, al |-> al]
    BY EmittingAligns
  <2>2. e.event = ev /\ ev \in TablesNear
    BY <2>1, SameEvents
  <2>3. /\ TimeAxes(ev)' = TimeAxes(ev)
        /\ \A x : Terms(ev, x)' = Terms(ev, x)
    BY <2>2, SameMoves
  <2>4. /\ TimeAxes(e.event)' = TimeAxes(e.event)
        /\ Terms(e.event, e.al)' = Terms(e.event, e.al)
    BY <2>2, <2>3
  <2> QED
    BY <2>4
<1> HIDE DEF Of, em
<1> QED
  BY <1>1, <1>2, <1>3, <1>4 DEF em

LEMMA SameColumnSide ==
  ASSUME EvidenceTyped, SameNearby
  PROVE  ColumnSide(Emitting(Subject.table))' = ColumnSide(Emitting(Subject.table))
<1> DEFINE events == {e.event : e \in Emitting(Subject.table)}
           Of(ev) == {[side |-> "column", event |-> ev, term |-> c, identifier |-> c \in Legs(ev)]
                        : c \in ColumnsOf(ev, NumericTypes)}
<1>1. events' = events
  BY SameEmitting
<1>2. ColumnSide(Emitting(Subject.table)) = UNION {Of(ev) : ev \in events}
  BY DEF ColumnSide
<1>3. ColumnSide(Emitting(Subject.table))' = UNION {Of(ev)' : ev \in events'}
  BY DEF ColumnSide
<1>4. ASSUME NEW ev \in events PROVE Of(ev)' = Of(ev)
  <2>1. PICK e \in Emitting(Subject.table) : ev = e.event
    OBVIOUS
  <2>2. PICK x, al : x \in Events(Subject.table) /\ e = [event |-> x, al |-> al]
    BY EmittingAligns
  <2>3. ev \in TablesNear
    BY <2>1, <2>2, SameEvents
  <2>4. ColumnsOf(ev, NumericTypes)' = ColumnsOf(ev, NumericTypes)
    BY <2>3, SameMoves
  <2>5. Legs(ev)' = Legs(ev)
    BY SamePointers DEF SameNearby
  <2> QED
    BY <2>4, <2>5
<1> HIDE DEF Of, events
<1> QED
  BY <1>1, <1>2, <1>3, <1>4

LEMMA SameCells ==
  ASSUME EvidenceTyped, SameNearby
  PROVE  Cells(Subject.table)' = Cells(Subject.table)
<1>1. Cells(Subject.table) = Unglossed(Subject.table) \cup MeasureSide(Subject.table, Emitting(Subject.table))
                                 \cup EventSide(Emitting(Subject.table)) \cup ColumnSide(Emitting(Subject.table))
  BY DEF Cells
<1>2. Cells(Subject.table)' = Unglossed(Subject.table)' \cup MeasureSide(Subject.table, Emitting(Subject.table))'
                                 \cup EventSide(Emitting(Subject.table))' \cup ColumnSide(Emitting(Subject.table))'
  BY DEF Cells
<1> QED
  BY <1>1, <1>2, SameUnglossed, SameMeasureSide, SameEventSide, SameColumnSide

\* A step that changes nothing but what the relation r keeps, and lands no table
\* that a relationship waits for.
Beside(r) ==
  /\ r # "main.relationships" => edges' = edges
  /\ r # "main.glossary" => glossed' = glossed
  /\ \A t \in TableNames \ {r} : shape'[t] = shape[t]
  /\ \A t \in Related : ~ Stands(t) => ~ Stands(t)'
  /\ voiced' = voiced

LEMMA SameBehavior ==
  ASSUME EvidenceTyped, NEW r, Beside(r), r \notin BehaviorCells.names
  PROVE  BehaviorCells' = BehaviorCells
<1> DEFINE table == Subject.table
           column == Subject.column
           bound == {table, "main.relationships"} \cup LegsNamed
           cells == Cells(table)
           there == column \in DOMAIN shape[table]
           numeric == shape[table][column] \in NumericTypes
           leg == column \in Legs(table)
           still == TimeAxes(table) = {}
           key == shape[table][column] = "key"
           The == IF ~ there THEN Answer(Reason("no column"), {table})
                  ELSE IF ~ numeric THEN Answer(Reason("not a number"), {table})
                  ELSE IF leg THEN Answer(Reason("a leg"), bound)
                  ELSE IF still THEN Answer(Reason("no period axis"), bound)
                  ELSE IF key THEN Answer(Reason("key-shaped"), bound)
                  ELSE IF cells = {} THEN Answer(Reason("no event table"), bound \cup {"main.glossary"})
                  ELSE Answer(cells, bound \cup {"main.glossary"} \cup PlanReads(cells))
<1>1. BehaviorCells = The
  BY DEF BehaviorCells
<1>2. BehaviorCells' = The'
  BY DEF BehaviorCells
<1>3. table \in TableNames
  BY EvidenceAssumption
<1>4. r # table
  BY <1>1 DEF Answer
<1>5. shape'[table] = shape[table]
  BY <1>3, <1>4 DEF Beside
<1>6. there' = there /\ numeric' = numeric /\ key' = key
  BY <1>5
<1>7. CASE ~ there \/ ~ numeric
  <2> HIDE DEF there, numeric, key, leg, still, bound, cells
  <2> QED
    BY <1>1, <1>2, <1>6, <1>7
<1>8. CASE there /\ numeric
  <2>1. r \notin bound
    <3> HIDE DEF there, numeric, key, leg, still, bound, cells
    <3> QED
      BY <1>1, <1>8 DEF Answer
  <2>2. edges' = edges /\ r \notin LegsNamed
    BY <2>1 DEF Beside
  <2>3. r \notin TablesNear
    BY <2>1 DEF TablesNear
  <2>4. \A z \in TablesNear : z \in TableNames
    BY <1>3, PointersTyped DEF TablesNear, LegsNamed, EvidenceTyped
  <2>5. \A z \in TablesNear : shape'[z] = shape[z]
    BY <2>3, <2>4 DEF Beside
  <2>6. Pointers' = Pointers
    BY <2>2, <2>5, SamePlaced DEF TablesNear, Beside
  <2>7. LegsNamed' = LegsNamed /\ Legs(table)' = Legs(table)
    BY <2>6, SamePointers
  <2>8. bound' = bound /\ leg' = leg
    BY <2>7
  <2>9. \A z \in TablesNear : ColumnsOf(z, TemporalTypes)' = ColumnsOf(z, TemporalTypes)
    BY <2>5 DEF ColumnsOf
  <2>10. TimeAxes(table)' = TimeAxes(table)
    BY <2>6, <2>9, SameAxes DEF TablesNear
  <2>11. still' = still
    BY <2>10
  <2>12. CASE leg \/ still \/ key
    <3> HIDE DEF there, numeric, key, leg, still, bound, cells
    <3> QED
      BY <1>1, <1>2, <1>6, <1>8, <2>8, <2>11, <2>12
  <2>13. CASE ~ leg /\ ~ still /\ ~ key
    <3>1. r # "main.glossary"
      <4> HIDE DEF there, numeric, key, leg, still, bound, cells
      <4> QED
        BY <1>1, <1>8, <2>13 DEF Answer
    <3>2. SameNearby
      BY <2>6, <2>5, <3>1 DEF SameNearby, Beside
    <3>3. cells' = cells
      BY <3>2, SameCells
    <3>4. PlanReads(cells)' = PlanReads(cells)
      BY <3>3 DEF PlanReads
    <3> HIDE DEF there, numeric, key, leg, still, bound, cells
    <3> QED
      BY <1>1, <1>2, <1>6, <1>8, <2>8, <2>11, <2>13, <3>3, <3>4
  <2> QED
    BY <2>12, <2>13
<1> QED
  BY <1>7, <1>8

LEMMA SameChecks ==
  ASSUME EvidenceTyped, NEW r, Beside(r), r \notin RelationshipChecks.names
  PROVE  RelationshipChecks' = RelationshipChecks
<1> DEFINE Of(i) == [side |-> "check", seq |-> Cardinality({j \in Checked : j < i}), edge |-> edges[i],
                     pairs |-> IF edges[i].child.table = edges[i].parent.table THEN {}
                               ELSE FirstDates(edges[i].child.table) \X FirstDates(edges[i].parent.table)]
<1>1. r # "main.relationships"
  BY DEF RelationshipChecks, Answer
<1>2. edges' = edges
  BY <1>1 DEF Beside
<1>3. Checks = {Of(i) : i \in Checked}
  BY DEF Checks
<1>4. Checks' = {Of(i)' : i \in Checked'}
  BY DEF Checks
<1>5. Checked' = Checked
  BY <1>2 DEF Checked
<1>6. ASSUME NEW i \in Checked PROVE Of(i)' = Of(i)
  <2>1. Of(i) \in Checks
    <3> HIDE DEF Of
    <3> QED
      BY <1>3
  <2>2. RelationshipChecks.names
          = {"main.relationships"} \cup UNION {{c.edge.child.table, c.edge.parent.table} : c \in Checks}
    BY <2>1 DEF RelationshipChecks, Answer
  <2>3. Of(i).edge = edges[i]
    OBVIOUS
  <2>4. edges[i].child.table \in RelationshipChecks.names /\ edges[i].parent.table \in RelationshipChecks.names
    <3> HIDE DEF Of
    <3> QED
      BY <2>1, <2>2, <2>3
  <2>5. edges[i] \in Declarable
    BY DEF EvidenceTyped, Checked
  <2>6. edges[i].child.table \in TableNames \ {r} /\ edges[i].parent.table \in TableNames \ {r}
    BY <2>4, <2>5, EvidenceAssumption
  <2>7. /\ shape'[edges[i].child.table] = shape[edges[i].child.table]
        /\ shape'[edges[i].parent.table] = shape[edges[i].parent.table]
    BY <2>6 DEF Beside
  <2>8. ASSUME NEW t, shape'[t] = shape[t] PROVE FirstDates(t)' = FirstDates(t)
    BY <2>8 DEF FirstDates, ColumnsOf
  <2>9. PICK t, u : t = edges[i].child.table /\ u = edges[i].parent.table
    OBVIOUS
  <2>10. t = edges'[i].child.table /\ u = edges'[i].parent.table
    BY <1>2, <2>9
  <2>11. FirstDates(t)' = FirstDates(t) /\ FirstDates(u)' = FirstDates(u)
    BY <2>7, <2>8, <2>9
  <2>12. /\ FirstDates(edges[i].child.table) = FirstDates(t) /\ FirstDates(edges[i].parent.table) = FirstDates(u)
         /\ FirstDates(edges[i].child.table)' = FirstDates(t)' /\ FirstDates(edges[i].parent.table)' = FirstDates(u)'
    BY <2>9, <2>10
  <2> QED
    BY <1>2, <1>5, <2>11, <2>12
<1>7. Checks' = Checks
  <2> HIDE DEF Of
  <2> QED
    BY <1>3, <1>4, <1>5, <1>6
<1> QED
  BY <1>7 DEF RelationshipChecks

\* Whatever moves that a call does not name, the call finds what it found.
LEMMA ReadsWhatItNames ==
  ASSUME EvidenceTyped, NEW call \in Calls, NEW r, Beside(r), r \notin Found[call].names
  PROVE  Found[call]' = Found[call]
<1>1. CASE call = "behavior_cells"
  BY <1>1, SameBehavior DEF Found
<1>2. CASE call # "behavior_cells"
  BY <1>2, SameChecks DEF Found
<1> QED
  BY <1>1, <1>2

-----------------------------------------------------------------------------
(* A row that hits is what its call would find.                             *)

\* A row's pins are legs passed: a table that is not there is the subject's alone, and
\* says so; and while the pins are the newest the row is what its call finds, at what
\* it would name.
Passed(n, pin) ==
  /\ n \in TableNames => pin = Nothing \/ (pin \in Nat /\ pin <= version[n])
  /\ n = "main.relationships" => pin \in Nat /\ pin <= version[n]
  /\ n = "main.glossary" /\ aside = {} => pin \in Nat /\ pin <= TopSeq(glossed)

Pinned ==
  evidence # Nothing =>
    /\ evidence.call \in Calls
    /\ DOMAIN evidence.at \subseteq TableNames \cup {"main.relationships", "main.glossary"}
    /\ \A n \in DOMAIN evidence.at :
         /\ Passed(n, evidence.at[n])
         /\ evidence.at[n] = Nothing =>
              /\ evidence.call = "behavior_cells" /\ evidence.cells = Reason("no column")
              /\ DOMAIN evidence.at = {Subject.table}
    /\ Hits /\ aside = {} =>
         /\ Binds(evidence.call) /\ evidence.cells = Found[evidence.call].cells
         /\ DOMAIN evidence.at = Found[evidence.call].names

EvidenceInv == EvidenceTyped /\ Pinned

\* There is always a relation no call names.
LEMMA Another ==
  ASSUME NEW S PROVE \E r : r \notin S
<1>1. {x \in S : x \notin x} \notin S
  OBVIOUS
<1> QED
  BY <1>1

\* A row on a table that is not there is the subject's, and says there is no column.
LEMMA AbsentNames ==
  ASSUME EvidenceTyped, NEW call \in Calls, Binds(call), NEW t \in Found[call].names, t \in TableNames, ~ Stands(t)
  PROVE  call = "behavior_cells" /\ Found[call].cells = Reason("no column") /\ Found[call].names = {Subject.table}
<1>1. t \notin {"main.relationships", "main.glossary"}
  BY EvidenceAssumption DEF Record
<1>2. CASE call = "relationship_checks"
  <2>1. t \in RelationshipChecks.names
    BY <1>2 DEF Found
  <2>2. PICK c \in Checks : t \in {c.edge.child.table, c.edge.parent.table}
    <3>1. CASE Checks = {}
      BY <1>1, <2>1, <3>1 DEF RelationshipChecks, Answer
    <3>2. CASE Checks # {}
      <4>1. t \in {"main.relationships"} \cup UNION {{c.edge.child.table, c.edge.parent.table} : c \in Checks}
        BY <2>1, <3>2 DEF RelationshipChecks, Answer
      <4> QED
        BY <1>1, <4>1
    <3> QED
      BY <3>1, <3>2
  <2>3. PICK i \in Checked : c.edge = edges[i]
    BY CheckEdges
  <2> QED
    BY <1>2, <2>2, <2>3 DEF Binds
<1>3. CASE call = "behavior_cells"
  <2> DEFINE table == Subject.table
             bound == {table, "main.relationships"} \cup LegsNamed
             all == bound \cup {"main.glossary"} \cup PlanReads(Cells(table))
             there == Subject.column \in DOMAIN shape[table]
             The == Answer(Reason("no column"), {table})
  <2>1. ~ there => BehaviorCells = The
    BY DEF BehaviorCells
  <2>2. BehaviorCells.names \in {{table}, bound, bound \cup {"main.glossary"}, all}
    BY DEF BehaviorCells, Answer
  <2>3. all \subseteq TablesNear \cup {"main.relationships", "main.glossary"}
    BY PlanNames DEF TablesNear
  <2>4. BehaviorCells.names \subseteq all
    BY <2>2
  <2>5. t \in TablesNear
    BY <1>1, <1>3, <2>3, <2>4 DEF Found, Calls
  <2>6. t = table
    BY <2>5, LegsStand DEF TablesNear
  <2>7. ~ there
    BY <2>6 DEF Stands
  <2>8. BehaviorCells = The
    BY <2>1, <2>7
  <2>9. Found[call] = The
    BY <1>3, <2>8 DEF Found
  <2> HIDE DEF The
  <2>10. The.cells = Reason("no column") /\ The.names = {table}
    BY DEF The, Answer
  <2> QED
    BY <1>3, <2>9, <2>10
<1> QED
  BY <1>2, <1>3 DEF Calls

LEMMA SameBinds ==
  ASSUME EvidenceTyped, NEW call \in Calls, NEW r, Beside(r), r \notin Found[call].names, Binds(call)
  PROVE  Binds(call)'
<1> SUFFICES ASSUME call = "relationship_checks", NEW i \in Checked'
             PROVE  Stands(edges[i].child.table)' /\ Stands(edges[i].parent.table)'
  BY DEF Binds
<1>1. r \notin RelationshipChecks.names
  BY DEF Found
<1>2. r # "main.relationships"
  BY <1>1 DEF RelationshipChecks, Answer
<1>3. edges' = edges
  BY <1>2 DEF Beside
<1>4. i \in Checked
  BY <1>3 DEF Checked
<1>5. \E c \in Checks : c.edge = edges[i]
  BY <1>4, CheckEdges
<1>6. RelationshipChecks.names
        = {"main.relationships"} \cup UNION {{c.edge.child.table, c.edge.parent.table} : c \in Checks}
  BY <1>5 DEF RelationshipChecks, Answer
<1>7. edges[i].child.table \in RelationshipChecks.names /\ edges[i].parent.table \in RelationshipChecks.names
  BY <1>5, <1>6
<1>8. edges[i] \in Declarable
  BY <1>4 DEF Checked, EvidenceTyped
<1>9. edges[i].child.table \in TableNames \ {r} /\ edges[i].parent.table \in TableNames \ {r}
  BY <1>1, <1>7, <1>8, EvidenceAssumption
<1>10. /\ shape'[edges[i].child.table] = shape[edges[i].child.table]
       /\ shape'[edges[i].parent.table] = shape[edges[i].parent.table]
  BY <1>9 DEF Beside
<1>11. Stands(edges[i].child.table) /\ Stands(edges[i].parent.table)
  BY <1>4 DEF Binds
<1> QED
  BY <1>3, <1>10, <1>11 DEF Stands

LEMMA PinnedInit ==
  ASSUME EvidenceInit PROVE EvidenceInv
<1>1. edges \in Seq(Declarable)
  BY EvidenceAssumption DEF EvidenceInit
<1>2. DOMAIN shape = TableNames
  BY DEF EvidenceInit
<1>3. version \in [TableNames \cup Record -> Nat]
  BY DEF EvidenceInit
<1>4. evidence = Nothing
  BY DEF EvidenceInit
<1>5. Numbered(glossed)
  <2>1. PICK claims \in Glossed : glossed = {ClaimRow(claims[n], n) : n \in DOMAIN claims}
    BY DEF EvidenceInit
  <2>2. claims \in Seq(Claims)
    BY EvidenceAssumption
  <2>3. Len(claims) \in Nat /\ DOMAIN claims = 1..Len(claims)
    BY <2>2
  <2>4. \A r \in glossed : r.seq \in Nat /\ r.seq <= Len(claims)
    BY <2>1, <2>3 DEF ClaimRow
  <2> QED
    BY <2>3, <2>4 DEF Numbered
<1> QED
  BY <1>1, <1>2, <1>3, <1>4, <1>5 DEF EvidenceInv, EvidenceTyped, Pinned

LEMMA Advanced ==
  ASSUME NEW S, NEW f \in [S -> Nat], NEW r \in S PROVE [f EXCEPT ![r] = @ + 1] \in [S -> Nat]
OBVIOUS

\* A gloss is the newest row, one above.
LEMMA GlossTops ==
  ASSUME Numbered(glossed), NEW c
  PROVE  LET rows == glossed \cup {ClaimRow(c, TopSeq(glossed) + 1)}
         IN Numbered(rows) /\ TopSeq(rows) = TopSeq(glossed) + 1
<1> DEFINE row == ClaimRow(c, TopSeq(glossed) + 1)
           rows == glossed \cup {row}
<1>1. row.seq = TopSeq(glossed) + 1
  BY DEF ClaimRow
<1> HIDE DEF row
<1>2. Newest(rows) = {row} /\ Numbered(rows)
  BY <1>1, NextIsNewest
<1>3. row \in Newest(rows)
  BY <1>2
<1>4. row.seq = TopSeq(rows)
  BY <1>3 DEF Newest
<1> QED
  BY <1>1, <1>2, <1>4 DEF row

LEMMA TypedNext ==
  ASSUME EvidenceTyped, [EvidenceNext]_evidenceVars PROVE EvidenceTyped'
<1>1. ASSUME NEW t \in TableNames, NEW s, LandTable(t, s) \/ DropTable(t) PROVE EvidenceTyped'
  BY <1>1 DEF LandTable, DropTable, Moved, EvidenceTyped
<1>2. ASSUME NEW e \in Declarable, Declare(e) PROVE EvidenceTyped'
  <2>1. Append(edges, e) \in Seq(Declarable)
    BY DEF EvidenceTyped
  <2>2. edges' \in Seq(Declarable) /\ shape' = shape /\ glossed' = glossed
    BY <1>2, <2>1 DEF Declare
  <2>3. version' = [version EXCEPT !["main.relationships"] = @ + 1]
    BY <1>2 DEF Declare, Moved
  <2>4. version' \in [TableNames \cup Record -> Nat]
    BY <2>3, Advanced DEF EvidenceTyped, Record
  <2> QED
    BY <2>2, <2>4 DEF EvidenceTyped
<1>3. ASSUME NEW c \in Claims, GlossRole(c) PROVE EvidenceTyped'
  <2>1. Numbered(glossed')
    BY <1>3, GlossTops DEF GlossRole, EvidenceTyped
  <2>2. version' = [version EXCEPT !["main.glossary"] = @ + 1] /\ edges' = edges /\ shape' = shape
    BY <1>3 DEF GlossRole, Moved
  <2>3. version' \in [TableNames \cup Record -> Nat]
    BY <2>2, Advanced DEF EvidenceTyped, Record
  <2> QED
    BY <2>1, <2>2, <2>3 DEF EvidenceTyped
<1>4. ASSUME NEW row \in glossed, DeleteRole(row) PROVE EvidenceTyped'
  <2>1. Numbered(glossed')
    BY <1>4 DEF DeleteRole, EvidenceTyped, Numbered
  <2>2. version' = [version EXCEPT !["main.glossary"] = @ + 1] /\ edges' = edges /\ shape' = shape
    BY <1>4 DEF DeleteRole, Moved
  <2>3. version' \in [TableNames \cup Record -> Nat]
    BY <2>2, Advanced DEF EvidenceTyped, Record
  <2> QED
    BY <2>1, <2>2, <2>3 DEF EvidenceTyped
<1>5. ASSUME NEW c \in Claims, VoiceRole(c) PROVE EvidenceTyped'
  <2>1. version' = [version EXCEPT !["main.measurements"] = @ + 1]
        /\ edges' = edges /\ shape' = shape /\ glossed' = glossed
    BY <1>5 DEF VoiceRole, Moved
  <2>2. version' \in [TableNames \cup Record -> Nat]
    BY <2>1, Advanced DEF EvidenceTyped, Record
  <2> QED
    BY <2>1, <2>2 DEF EvidenceTyped
<1>6. ASSUME NEW call \in Calls, Extract(call) PROVE EvidenceTyped'
  BY <1>6 DEF Extract, EvidenceTyped
<1>7. CASE UNCHANGED evidenceVars
  BY <1>7 DEF evidenceVars, EvidenceTyped
<1> QED
  BY <1>1, <1>2, <1>3, <1>4, <1>5, <1>6, <1>7 DEF EvidenceNext

\* What a statement that moves the relation r leaves of the rest, unless it moved what
\* no pin holds.
Quiet(r) ==
  /\ Beside(r)
  /\ r # "main.measurements"
  /\ r = "main.glossary" => TopSeq(glossed)' = TopSeq(glossed) + 1

\* A row is read after a relation moved: it hits only if it does not name it,
\* and then its call finds what it found.
LEMMA MovedPinned ==
  ASSUME EvidenceInv, EvidenceTyped', NEW r \in TableNames \cup Record,
         version' = [version EXCEPT ![r] = @ + 1], evidence' = evidence, aside \subseteq aside',
         aside' = {} => Quiet(r)
  PROVE  Pinned'
<1> SUFFICES ASSUME evidence # Nothing PROVE Pinned'
  BY DEF Pinned
<1>1. /\ version \in [TableNames \cup Record -> Nat]
      /\ evidence.call \in Calls
      /\ DOMAIN evidence.at \subseteq TableNames \cup {"main.relationships", "main.glossary"}
      /\ \A n \in DOMAIN evidence.at :
           /\ Passed(n, evidence.at[n])
           /\ evidence.at[n] = Nothing =>
                /\ evidence.call = "behavior_cells" /\ evidence.cells = Reason("no column")
                /\ DOMAIN evidence.at = {Subject.table}
  BY DEF EvidenceInv, EvidenceTyped, Pinned
<1>2. ASSUME NEW n \in TableNames \cup Record
      PROVE  /\ version[n] \in Nat /\ version'[n] \in Nat /\ version[n] <= version'[n]
             /\ version'[n] = IF n = r THEN version[n] + 1 ELSE version[n]
  <2>1. version \in [TableNames \cup Record -> Nat]
    BY <1>1
  <2>2. version[n] \in Nat /\ DOMAIN version = TableNames \cup Record
    BY <2>1
  <2>3. version'[n] = IF n = r THEN version[n] + 1 ELSE version[n]
    BY <2>2
  <2> QED
    BY <2>2, <2>3
<1>3. TopSeq(glossed) \in Nat /\ TopSeq(glossed)' \in Nat
  BY TopSeqBounds DEF EvidenceInv, EvidenceTyped
<1>4. "main.relationships" \in Record /\ "main.glossary" \in Record
      /\ \A n \in TableNames : n \notin Record
  BY EvidenceAssumption DEF Record
<1>5. aside' = {} => aside = {} /\ TopSeq(glossed) <= TopSeq(glossed)'
  <2>1. r # "main.glossary" /\ Beside(r) => TopSeq(glossed)' = TopSeq(glossed)
    BY DEF Beside
  <2> QED
    BY <1>3, <2>1 DEF Quiet
<1>6. ASSUME NEW n \in DOMAIN evidence.at PROVE Passed(n, evidence.at[n])'
  <2>1. n \in TableNames \cup Record /\ Passed(n, evidence.at[n])
    BY <1>1, <1>4, <1>6
  <2>2. n \in TableNames => evidence.at[n] = Nothing \/ (evidence.at[n] \in Nat /\ evidence.at[n] <= version'[n])
    BY <1>2, <2>1 DEF Passed
  <2>3. n = "main.relationships" => evidence.at[n] \in Nat /\ evidence.at[n] <= version'[n]
    BY <1>2, <1>4, <2>1 DEF Passed
  <2>4. n = "main.glossary" /\ aside' = {} => evidence.at[n] \in Nat /\ evidence.at[n] <= TopSeq(glossed)'
    BY <1>3, <1>5, <2>1 DEF Passed
  <2> QED
    BY <2>2, <2>3, <2>4 DEF Passed
<1>7. ASSUME Hits', aside' = {}
      PROVE  /\ Binds(evidence.call)' /\ evidence.cells = Found'[evidence.call].cells
             /\ DOMAIN evidence.at = Found'[evidence.call].names
  <2>1. \A n \in DOMAIN evidence.at : Leg(n)' = evidence.at[n]
    BY <1>7 DEF Hits
  <2>2. Quiet(r)
    BY <1>7
  <2>3. CASE \E n \in DOMAIN evidence.at : evidence.at[n] = Nothing
    <3>1. /\ evidence.call = "behavior_cells" /\ evidence.cells = Reason("no column")
          /\ DOMAIN evidence.at = {Subject.table} /\ evidence.at[Subject.table] = Nothing
      BY <1>1, <2>3
    <3>2. Leg(Subject.table)' = Nothing
      BY <2>1, <3>1
    <3>3. ~ Stands(Subject.table)'
      <4>1. Subject.table \in TableNames /\ Subject.table # "main.glossary"
        BY <1>4, EvidenceAssumption
      <4>2. version'[Subject.table] # Nothing
        BY <1>2, <4>1, EvidenceAssumption
      <4> QED
        BY <3>2, <4>1, <4>2 DEF Leg
    <3>4. Found'["behavior_cells"] = Answer(Reason("no column"), {Subject.table})
      <4>1. Subject.column \notin DOMAIN shape'[Subject.table]
        BY <3>3 DEF Stands
      <4>2. BehaviorCells' = Answer(Reason("no column"), {Subject.table})
        <5>1. (Subject.column \notin DOMAIN shape[Subject.table])'
          BY <4>1
        <5> QED
          BY <5>1 DEF BehaviorCells, Answer, Reason
      <4> QED
        BY <4>2 DEF Found, Calls
    <3>5. Binds(evidence.call)'
      <4>1. evidence'.call = "behavior_cells"
        BY <3>1
      <4> QED
        BY <4>1 DEF Binds
    <3>6. /\ Answer(Reason("no column"), {Subject.table}).cells = Reason("no column")
          /\ Answer(Reason("no column"), {Subject.table}).names = {Subject.table}
      BY DEF Answer
    <3> QED
      BY <3>1, <3>4, <3>5, <3>6
  <2>4. CASE \A n \in DOMAIN evidence.at : evidence.at[n] # Nothing
    <3>1. r \notin DOMAIN evidence.at
      <4> SUFFICES ASSUME r \in DOMAIN evidence.at PROVE FALSE
        OBVIOUS
      <4>1. Passed(r, evidence.at[r]) /\ evidence.at[r] # Nothing /\ Leg(r)' = evidence.at[r] /\ aside = {}
        BY <1>1, <1>5, <1>7, <2>1, <2>4
      <4>2. CASE r \in TableNames
        <5>1. evidence.at[r] \in Nat /\ evidence.at[r] <= version[r] /\ r # "main.glossary"
          BY <1>4, <4>1, <4>2 DEF Passed
        <5>2. Leg(r)' \in {Nothing, version'[r]}
          BY <4>2, <5>1 DEF Leg
        <5> QED
          BY <1>2, <4>1, <5>1, <5>2
      <4>3. CASE r = "main.relationships"
        <5>1. Leg(r)' = version'[r]
          BY <1>4, <4>3 DEF Leg
        <5>2. evidence.at[r] \in Nat /\ evidence.at[r] <= version[r]
          BY <4>1, <4>3 DEF Passed
        <5> QED
          BY <1>2, <4>1, <5>1, <5>2
      <4>4. CASE r = "main.glossary"
        <5>1. Leg(r)' = TopSeq(glossed)'
          BY <1>4, <4>4 DEF Leg
        <5>2. evidence.at[r] \in Nat /\ evidence.at[r] <= TopSeq(glossed)
          BY <4>1, <4>4 DEF Passed
        <5>3. TopSeq(glossed)' = TopSeq(glossed) + 1
          BY <2>2, <4>4 DEF Quiet
        <5> QED
          BY <1>3, <4>1, <5>1, <5>2, <5>3
      <4> QED
        BY <1>1, <4>2, <4>3, <4>4
    <3>2. ASSUME NEW n \in DOMAIN evidence.at PROVE Leg(n)' = Leg(n)
      <4>1. n # r /\ n \in TableNames \cup Record
        BY <1>1, <1>4, <3>1, <3>2
      <4>2. version'[n] = version[n]
        BY <1>2, <4>1
      <4>3. n \in TableNames => (Stands(n)' <=> Stands(n))
        BY <2>2, <4>1 DEF Quiet, Beside, Stands
      <4>4. n = "main.glossary" => TopSeq(glossed)' = TopSeq(glossed)
        BY <2>2, <4>1 DEF Quiet, Beside
      <4> QED
        BY <4>2, <4>3, <4>4 DEF Leg
    <3>3. Hits
      BY <2>1, <3>2 DEF Hits
    <3>4. /\ Binds(evidence.call) /\ evidence.cells = Found[evidence.call].cells
          /\ DOMAIN evidence.at = Found[evidence.call].names
      BY <1>5, <1>7, <3>3 DEF EvidenceInv, Pinned
    <3>5. PICK c \in Calls : c = evidence.call
      BY <1>1
    <3>6. Found[c]' = Found[c] /\ Binds(c)'
      BY <2>2, <3>1, <3>4, <3>5, ReadsWhatItNames, SameBinds DEF EvidenceInv, Quiet
    <3>7. Binds(evidence.call)'
      BY <3>5, <3>6 DEF Binds
    <3> QED
      BY <3>4, <3>5, <3>6, <3>7
  <2> QED
    BY <2>3, <2>4
<1>8. \A n \in DOMAIN evidence.at : Passed(n, evidence.at[n])'
  BY <1>6
<1> QED
  BY <1>1, <1>7, <1>8 DEF Pinned

LEMMA PinnedNext ==
  ASSUME EvidenceInv, [EvidenceNext]_evidenceVars PROVE EvidenceInv'
<1>1. EvidenceTyped'
  BY TypedNext DEF EvidenceInv
<1>2. /\ "main.relationships" \in TableNames \cup Record /\ "main.glossary" \in TableNames \cup Record
      /\ "main.measurements" \in TableNames \cup Record
      /\ \A t \in TableNames : t \notin Record
      /\ \A t \in TableNames : t # "main.measurements" /\ t # "main.glossary"
  BY EvidenceAssumption DEF Record
<1>3. ASSUME NEW t \in TableNames, NEW s, LandTable(t, s) PROVE Pinned'
  <2>1. /\ version' = [version EXCEPT ![t] = @ + 1] /\ evidence' = evidence /\ aside \subseteq aside'
        /\ shape' = [shape EXCEPT ![t] = s] /\ UNCHANGED <<edges, glossed, voiced>>
        /\ aside' = {} => ~ (t \in Related /\ ~ Stands(t))
    BY <1>3 DEF LandTable, Moved
  <2>2. aside' = {} => \A x \in Related : ~ Stands(x) => ~ Stands(x)'
    <3> SUFFICES ASSUME aside' = {}, NEW x \in Related, ~ Stands(x) PROVE ~ Stands(x)'
      OBVIOUS
    <3>1. x # t
      BY <2>1
    <3>2. shape'[x] = shape[x]
      BY <2>1, <3>1
    <3> QED
      BY <3>2 DEF Stands
  <2>3. aside' = {} => Quiet(t)
    BY <1>2, <2>1, <2>2 DEF Quiet, Beside, EvidenceInv, EvidenceTyped
  <2> QED
    BY <1>1, <2>1, <2>3, MovedPinned
<1>4. ASSUME NEW t \in TableNames, DropTable(t) PROVE Pinned'
  <2>1. /\ version' = [version EXCEPT ![t] = @ + 1] /\ evidence' = evidence /\ aside \subseteq aside'
        /\ shape' = [shape EXCEPT ![t] = NoColumns] /\ UNCHANGED <<edges, glossed, voiced>>
    BY <1>4 DEF DropTable, Moved
  <2>2. ASSUME NEW x, ~ Stands(x) PROVE ~ Stands(x)'
    <3>1. x # t
      BY <1>4, <2>2 DEF DropTable
    <3>2. shape'[x] = shape[x]
      BY <2>1, <3>1
    <3> QED
      BY <2>2, <3>2 DEF Stands
  <2>3. Quiet(t)
    BY <1>2, <2>1, <2>2 DEF Quiet, Beside, EvidenceInv, EvidenceTyped
  <2> QED
    BY <1>1, <2>1, <2>3, MovedPinned
<1>5. ASSUME NEW e \in Declarable, Declare(e) PROVE Pinned'
  <2>1. /\ version' = [version EXCEPT !["main.relationships"] = @ + 1] /\ evidence' = evidence
        /\ aside \subseteq aside' /\ UNCHANGED <<shape, glossed, voiced>>
    BY <1>5 DEF Declare, Moved
  <2>2. Quiet("main.relationships")
    BY <2>1 DEF Quiet, Beside, Stands
  <2> QED
    BY <1>2, <1>1, <2>1, <2>2, MovedPinned
<1>6. ASSUME NEW c \in Claims, GlossRole(c) PROVE Pinned'
  <2>1. /\ version' = [version EXCEPT !["main.glossary"] = @ + 1] /\ evidence' = evidence
        /\ aside \subseteq aside' /\ UNCHANGED <<shape, edges, voiced>>
        /\ glossed' = glossed \cup {ClaimRow(c, TopSeq(glossed) + 1)}
    BY <1>6 DEF GlossRole, Moved
  <2>2. TopSeq(glossed)' = TopSeq(glossed) + 1
    <3>1. TopSeq(glossed \cup {ClaimRow(c, TopSeq(glossed) + 1)}) = TopSeq(glossed) + 1
      BY GlossTops DEF EvidenceInv, EvidenceTyped
    <3> QED
      BY <2>1, <3>1
  <2>3. Quiet("main.glossary")
    BY <2>1, <2>2 DEF Quiet, Beside, Stands
  <2> QED
    BY <1>2, <1>1, <2>1, <2>3, MovedPinned
<1>7. ASSUME NEW row \in glossed, DeleteRole(row) PROVE Pinned'
  <2>1. /\ version' = [version EXCEPT !["main.glossary"] = @ + 1] /\ evidence' = evidence
        /\ aside \subseteq aside' /\ aside' # {}
    BY <1>7 DEF DeleteRole, Moved
  <2> QED
    BY <1>2, <1>1, <2>1, MovedPinned
<1>8. ASSUME NEW c \in Claims, VoiceRole(c) PROVE Pinned'
  <2>1. /\ version' = [version EXCEPT !["main.measurements"] = @ + 1] /\ evidence' = evidence
        /\ aside \subseteq aside' /\ aside' # {}
    BY <1>8 DEF VoiceRole, Moved
  <2> QED
    BY <1>2, <1>1, <2>1, MovedPinned
<1>9. ASSUME UNCHANGED <<shape, edges, glossed, voiced>>, NEW call \in Calls
      PROVE  Found[call]' = Found[call] /\ (Binds(call) => Binds(call)')
  <2>1. PICK r : r \notin Found[call].names
    BY Another
  <2>2. Beside(r)
    BY <1>9 DEF Beside, Stands
  <2> QED
    BY <2>1, <2>2, ReadsWhatItNames, SameBinds DEF EvidenceInv
<1>10. ASSUME UNCHANGED <<shape, version, glossed>> PROVE \A n : Leg(n)' = Leg(n)
  BY <1>10 DEF Leg, Stands
<1>11. ASSUME NEW call \in Calls, Extract(call) PROVE Pinned'
  <2>1. /\ evidence' = [call |-> call, cells |-> Found[call].cells,
                        at |-> [n \in Found[call].names |-> Leg(n)]]
        /\ UNCHANGED <<shape, edges, glossed, voiced, version>>
        /\ Binds(call)
    BY <1>11 DEF Extract
  <2>2. Found'[call] = Found[call] /\ Binds(call)'
    BY <1>9, <2>1
  <2>3. Found[call].names \subseteq TableNames \cup {"main.relationships", "main.glossary"}
    BY NamesAreRelations DEF EvidenceInv
  <2>4. /\ evidence'.call = call /\ evidence'.cells = Found[call].cells
        /\ DOMAIN evidence'.at = Found[call].names
        /\ \A n \in Found[call].names : evidence'.at[n] = Leg(n)
    BY <2>1
  <2>5. TopSeq(glossed)' = TopSeq(glossed) /\ TopSeq(glossed) \in Nat
    BY <2>1, TopSeqBounds DEF EvidenceInv, EvidenceTyped
  <2>6. ASSUME NEW n \in Found[call].names, NEW pin, pin = Leg(n) PROVE Passed(n, pin)'
    <3>1. n \in TableNames => Leg(n) \in {Nothing, version[n]} /\ version[n] \in Nat
      BY <1>2 DEF Leg, EvidenceInv, EvidenceTyped
    <3>2. n = "main.relationships" => Leg(n) = version[n] /\ version[n] \in Nat
      BY <1>2, EvidenceAssumption DEF Leg, EvidenceInv, EvidenceTyped, Record
    <3>3. n = "main.glossary" => Leg(n) = TopSeq(glossed)
      BY <1>2 DEF Leg
    <3>4. version' = version
      BY <2>1
    <3>5. n \in TableNames => pin = Nothing \/ (pin \in Nat /\ pin <= version'[n])
      BY <2>6, <3>1, <3>4
    <3>6. n = "main.relationships" => pin \in Nat /\ pin <= version'[n]
      BY <2>6, <3>2, <3>4
    <3>7. n = "main.glossary" => pin \in Nat /\ pin <= TopSeq(glossed)'
      BY <2>5, <2>6, <3>3
    <3> QED
      BY <3>5, <3>6, <3>7 DEF Passed
  <2>7. \A n \in DOMAIN evidence'.at : Passed(n, evidence.at[n])'
    <3> SUFFICES ASSUME NEW n \in DOMAIN evidence'.at PROVE Passed(n, evidence.at[n])'
      OBVIOUS
    <3>1. PICK pin : pin = Leg(n)
      OBVIOUS
    <3>2. evidence'.at[n] = pin
      BY <2>4, <3>1
    <3>3. Passed(n, pin)'
      BY <2>4, <2>6, <3>1
    <3> QED
      BY <3>2, <3>3
  <2>8. ASSUME NEW n \in Found[call].names, Leg(n) = Nothing
        PROVE  /\ call = "behavior_cells" /\ Found[call].cells = Reason("no column")
               /\ Found[call].names = {Subject.table}
    <3>1. n \in TableNames \cup {"main.relationships", "main.glossary"}
      BY <2>3
    <3>2. TopSeq(glossed) # Nothing /\ \A m \in TableNames \cup Record : version[m] # Nothing
      BY <2>5, EvidenceAssumption DEF EvidenceInv, EvidenceTyped
    <3>3. n \in TableNames /\ ~ Stands(n)
      BY <1>2, <2>8, <3>1, <3>2 DEF Leg, Record
    <3> QED
      BY <2>1, <3>3, AbsentNames DEF EvidenceInv
  <2>9. Reason("no column")' = Reason("no column")
    BY DEF Reason
  <2> QED
    BY <2>1, <2>2, <2>3, <2>4, <2>8, <2>9, <2>7 DEF Pinned
<1>12. CASE UNCHANGED evidenceVars
  <2>1. /\ UNCHANGED <<shape, edges, glossed, voiced>> /\ version' = version /\ evidence' = evidence
        /\ aside' = aside
    BY <1>12 DEF evidenceVars
  <2>2. CASE evidence = Nothing
    BY <1>1, <2>1, <2>2 DEF EvidenceInv, Pinned
  <2>3. CASE evidence # Nothing
    <3>1. PICK c \in Calls : c = evidence.call
      BY <2>3 DEF EvidenceInv, Pinned
    <3>2. Found'[c] = Found[c] /\ (Binds(c) => Binds(c)')
      BY <1>9, <2>1
    <3>3. Hits' = Hits
      BY <1>10, <2>1 DEF Hits
    <3>4. \A n, pin : Passed(n, pin)' = Passed(n, pin)
      BY <2>1 DEF Passed
    <3> QED
      BY <1>1, <2>1, <3>1, <3>2, <3>3, <3>4 DEF EvidenceInv, Pinned
  <2> QED
    BY <2>2, <2>3
<1> QED
  BY <1>1, <1>3, <1>4, <1>5, <1>6, <1>7, <1>8, <1>11, <1>12 DEF EvidenceInv, EvidenceNext

\* Of a column's behavior_cells or of relationship_checks, a row that hits is what the
\* call would find now, whatever moved since but a role a function spoke, a role gloss
\* deleted and a related table that landed anew: what the bind reads beside the plan
\* it names (BehaviorCellsBindReplace, RelationshipChecksBindReplace, BindRead).
THEOREM PinsTell == EvidenceSpec => []PinTells
<1>1. EvidenceInit => EvidenceInv
  BY PinnedInit
<1>2. EvidenceInv /\ [EvidenceNext]_evidenceVars => EvidenceInv'
  BY PinnedNext
<1>3. EvidenceInv => PinTells
  BY DEF EvidenceInv, Pinned, PinTells, FoundAgain, Hits
<1> QED
  BY <1>1, <1>2, <1>3, PTL DEF EvidenceSpec

\* A cell labelled with one alignment, axis and term is there once, however many
\* declared edges lead to it (Alignments' seen keys, TimeAxes' labels).
THEOREM CellsAreOnce == EvidenceSpec => []CellsOnce
<1>1. EvidenceInit => EvidenceInv
  BY PinnedInit
<1>2. EvidenceInv /\ [EvidenceNext]_evidenceVars => EvidenceInv'
  BY PinnedNext
<1>3. EvidenceInv => CellsOnce
  BY CellsApart DEF EvidenceInv, EvidenceTyped
<1> QED
  BY <1>1, <1>2, <1>3, PTL DEF EvidenceSpec

\* Every alignment with cells finds the measure's on every axis, once, through its own
\* legs and document, though the first that asked for the key wrote them
\* (BehaviorCellsBindReplace's measure side).
THEOREM MeasuresServe == EvidenceSpec => []MeasureServes
<1>1. EvidenceInit => EvidenceInv
  BY PinnedInit
<1>2. EvidenceInv /\ [EvidenceNext]_evidenceVars => EvidenceInv'
  BY PinnedNext
<1>3. EvidenceInv => MeasureServes
  BY MeasureShared DEF EvidenceInv, EvidenceTyped
<1> QED
  BY <1>1, <1>2, <1>3, PTL DEF EvidenceSpec

=============================================================================
