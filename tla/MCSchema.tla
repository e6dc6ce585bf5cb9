------------------------------ MODULE MCSchema ------------------------------
(* The validator over every keyword, alone and under one that holds schemas,  *)
(* and documents two deep.                                                 *)
EXTENDS Schema, FiniteSetsExt

Of(keyword, value) == ObjV(<<Member(keyword, value)>>)
Both(s, t) == ArrV(<<s, t>>)

\* Keywords without a schema beneath.
Plain ==
  {Of("type", StrV("string")), Of("type", StrV("integer")), Of("type", Both(StrV("null"), StrV("number"))),
   Of("const", StrV("a")), Of("enum", Both(StrV("a"), NullV)),
   ObjV(<<Member("minimum", RealV(1)), Member("maximum", IntV(1))>>),
   ObjV(<<Member("minLength", IntV(1)), Member("maxLength", IntV(1))>>),
   ObjV(<<Member("minItems", IntV(1)), Member("maxItems", IntV(1))>>),
   ObjV(<<Member("title", StrV("a")), Requires("value")>>)}

Leaves == Plain \cup {BoolV(TRUE), BoolV(FALSE)}

Properties(key, s) == Member("properties", ObjV(<<Member(key, s)>>))

\* A keyword that holds schemas over each two, or one.
Holding(S, T) ==
  {Of(keyword, Both(s, t)) : keyword \in {"allOf", "anyOf", "oneOf"}, s \in S, t \in T}
  \cup {Of(keyword, s) : keyword \in {"items", "not"}, s \in T \ {BoolV(TRUE), BoolV(FALSE)}}
  \cup {ObjV(<<Properties("value", s), Member("additionalProperties", t)>>) : s \in S, t \in T}
  \cup {ObjV(<<Properties("value", s), Requires("note")>>) : s \in S}

\* A schema and those within it.
RECURSIVE SchemasWithin(_)
SchemasWithin(s) == {s} \cup UNION {UNION {SchemasWithin(w) : w \in SchemasOf(k)} : k \in Members(s)}

AllSchemas ==
  UNION {SchemasWithin(s) :
    s \in Holding(Leaves, Leaves)
            \cup Holding(Plain, {ObjV(<<Properties("value", s), Requires("value")>>) : s \in Plain})
            \cup {GroundingContract}}

Scalars == {NullV, BoolV(TRUE), IntV(1), IntV(2), RealV(2), RealV(1), StrV(""), StrV("a"), StrV("aa")}

Few == {NullV, IntV(1), StrV("a"), StrV("aa")}

Pairs(key, S) == {<<Member(key, v)>> : v \in S}

Flat ==
  {ObjV(m) : m \in {<<>>} \cup Pairs("value", Scalars) \cup Pairs("note", Few)
               \cup {v \o n : v \in Pairs("value", Few), n \in Pairs("note", Few)}}
  \cup {ArrV(<<>>)} \cup {ArrV(<<v>>) : v \in Scalars} \cup {Both(v, w) : v \in Few, w \in Few}

Nested == {Of("value", Of("value", v)) : v \in Few} \cup {ArrV(<<IntV(1), Of("value", v)>>) : v \in Few}
          \cup {Of("note", ArrV(<<v>>)) : v \in Few}
          \cup {ObjV(<<Member("value", v), Member("value", w)>>) : v \in Few, w \in Few}

\* Bodies of groundings.
Claims == {<<Member("assumption", v), Member("confidence", RealV(h))>> : v \in {IntV(1), StrV("a")}, h \in {1, 3}}
          \cup {<<Member("basis", StrV("a"))>>}

Bodies ==
  {ObjV(sql \o stopped \o claims) :
     sql \in {<<>>} \cup Pairs("sql", {IntV(1), StrV("a")}),
     stopped \in {<<>>} \cup Pairs("stopped", {NullV, StrV("a")}),
     claims \in {<<>>} \cup {<<Member("assumptions", ArrV(<<ObjV(c)>>))>> : c \in Claims}}

AllDocuments == Scalars \cup Flat \cup Nested \cup Bodies

\* What is not read as it is written, with Precise 4 and Widest 8: integers beyond 4,
\* of which 5 is no double; the real 8, that no signed integer is; a text of wider
\* characters; numbers as constants, and counts that are not whole.
Inexact ==
  {Of("maximum", IntV(4)), Of("minimum", IntV(5)), Of("type", StrV("integer")), Of("const", IntV(1)),
   Of("const", RealV(2)), Of("enum", Both(IntV(5), ArrV(<<RealV(1)>>))), Of("maxLength", IntV(1)),
   Of("maxItems", RealV(3))}

InexactSchemas ==
  UNION {SchemasWithin(s) :
    s \in Holding(Inexact, Inexact) \cup {ObjV(<<Member("not", s), Member("anyOf", Both(s, t))>>) : s, t \in Inexact}}

Numerals == {IntV(1), IntV(4), IntV(5), IntV(6), IntV(-5), RealV(1), RealV(2), RealV(-3), RealV(16)}

InexactDocuments ==
  Numerals \cup {WideV("e", 1, 2)} \cup {Of("value", v) : v \in Numerals \cup {WideV("e", 1, 2)}}
  \cup {ArrV(<<v>>) : v \in Numerals} \cup {Both(IntV(5), RealV(16))}

MCSchemas == AllSchemas \cup InexactSchemas
MCDocuments == AllDocuments \cup InexactDocuments

\* What the validator and json-schema.org do not agree on besides: a schema of false
\* under items and of true under not.
Disputed == Inexact \cup {Of("items", BoolV(FALSE)), Of("not", BoolV(TRUE))}

DisputedDocuments == InexactDocuments \cup {ArrV(<<NullV>>)}

\* A body whose sql is empty.
EmptySql == {Of("sql", StrV(""))}

\* The values these hold, and how deep each is.
RECURSIVE ValuesWithin(_), DepthOf(_)
ValuesWithin(v) == {v} \cup UNION {ValuesWithin(p) : p \in Parts(v)}
DepthOf(v) == Max({0} \cup {1 + DepthOf(p) : p \in Parts(v)})

MCValues == UNION {ValuesWithin(v) : v \in Schemas \cup Documents}
MCDepth == [v \in MCValues |-> DepthOf(v)]

\* Beyond 4 doubles are 2 apart, a tie to the even one; from 8 on 4 apart.
RoundedTo(gap, n) ==
  LET low == gap * (n \div gap)
  IN  IF 2 * (n - low) < gap \/ (2 * (n - low) = gap /\ (n \div gap) % 2 = 0) THEN low ELSE low + gap

MCHalves == {v.half : v \in {v \in MCValues : IsNumber(v)}}
MCDouble == [n \in MCHalves |-> IF n \in -8 .. 8 THEN n ELSE IF n \in -16 .. 16 THEN RoundedTo(4, n) ELSE RoundedTo(8, n)]
MCDoubles == {MCDouble[n] : n \in MCHalves}

\* A cast out of range makes the least of the integers, and a size the greatest.
MCRecast ==
  [d \in MCDoubles |-> IF d >= -16 /\ d < 16 THEN IF d >= 0 THEN d - (d % 2) ELSE d + (d % 2) ELSE -16]
MCSize == [d \in MCDoubles |-> IF 0 <= d /\ d < 32 THEN d \div 2 ELSE 16]

\* The hypothesis of the theorems holds of these.
ASSUME Schemas = MCSchemas => WellFormed
=============================================================================
