------------------------------- MODULE Schema -------------------------------
(***************************************************************************)
(* The JSON Schema validator (glossql_schema.cpp): json_schema_check(schema, *)
(* document), which admits every body, names the first violation; beside it  *)
(* the enum check of a WHEN and the grounding contract.  Its checks run in    *)
(* the code's order; Meets says what a schema admits without one.            *)
(*                                                                         *)
(* A JSON value is a record of its type.  Numbers are counted in halves, a   *)
(* text has its characters and its bytes, an object its members in order,   *)
(* where a key may come twice.  A schema is such a value itself.  The code   *)
(* compares numbers as doubles and casts them: what it makes of a number no  *)
(* double is, or no 64-bit integer holds, is a constant.  What goes          *)
(* down both a schema and a value is a recursive function of the pair, on a   *)
(* set of values closed under their parts; the body of each is an operator   *)
(* that takes the function for the parts.                                    *)
(***************************************************************************)
EXTENDS Integers, Sequences, FiniteSets, Functions

CONSTANTS
  JsonValues,           \* JSON values, with every value each holds
  JsonDepth,            \* how deep each is
  Schemas, Documents,   \* the inputs
  Precise, Widest,      \* 2^53, to which every integer is a double, and 2^63
  Double,               \* the double of a number, in halves both
  Recast,               \* a double cast to a 64-bit integer and back
  Size                  \* a double cast to a size

NullV == [t |-> "null"]
BoolV(b) == [t |-> "boolean", b |-> b]
IntV(n) == [t |-> "integer", half |-> 2 * n]
RealV(halves) == [t |-> "number", half |-> halves]
WideV(s, chars, bytes) == [t |-> "string", s |-> s, chars |-> chars, bytes |-> bytes]
StrV(s) == WideV(s, Len(s), Len(s))
ArrV(items) == [t |-> "array", items |-> items]
ObjV(members) == [t |-> "object", members |-> members]

Member(key, value) == [key |-> key, value |-> value]

None == [t |-> "none"]

Members(value) == IF value.t = "object" THEN Range(value.members) ELSE {}
Items(value) == IF value.t = "array" THEN Range(value.items) ELSE {}
Parts(value) == Items(value) \cup {m.value : m \in Members(value)}

IsNumber(value) == value.t \in {"integer", "number"}

\* What a value of each type is made of.
IsJson(v) ==
  /\ v.t \in {"null", "boolean", "integer", "number", "string", "array", "object"}
  /\ v.t = "boolean" => v \in {BoolV(TRUE), BoolV(FALSE)}
  /\ IsNumber(v) => v.half \in Int
  /\ v.t = "integer" => v.half % 2 = 0
  /\ v.t = "string" => v.chars \in Nat /\ v.bytes \in Nat
  /\ v.t = "array" => v.items \in Seq(Items(v))
  /\ v.t = "object" => v.members \in Seq([key : STRING, value : Parts(v)])

\* Every part of a value is one of the values, and less deep.
ASSUME JsonAssumption ==
  /\ Schemas \cup Documents \subseteq JsonValues
  /\ UNION {Parts(v) : v \in JsonValues} \subseteq JsonValues
  /\ JsonDepth \in [JsonValues -> Nat]
  /\ \A v \in JsonValues : IsJson(v) /\ \A part \in Parts(v) : JsonDepth[part] < JsonDepth[v]

Numbers == {v \in JsonValues : IsNumber(v)}
Halves == {v.half : v \in Numbers}
Doubles == {Double[n] : n \in Halves}

\* A real is a double; a cast truncates, and of what is out of its range it makes
\* whatever the build does.
ASSUME NumberAssumption ==
  /\ Precise \in Nat /\ Widest \in Nat /\ Precise < Widest
  /\ Double \in [Halves -> Int] /\ Recast \in [Doubles -> Int] /\ Size \in [Doubles -> Nat]
  /\ \A v \in Numbers :
       v.t = "number" \/ v.half \in -(2 * Precise) .. 2 * Precise => Double[v.half] = v.half
  /\ \A d \in Doubles :
       /\ -(2 * Widest) <= d /\ d < 2 * Widest => Recast[d] = IF d >= 0 THEN d - (d % 2) ELSE d + (d % 2)
       /\ 0 <= d /\ d < 4 * Widest => Size[d] = d \div 2

JsonPairs == JsonValues \X JsonValues

\* The first member of that key; none of what is no object.
Get(value, key) ==
  IF \E m \in Members(value) : m.key = key
  THEN value.members[CHOOSE i \in DOMAIN value.members :
                       /\ value.members[i].key = key
                       /\ \A j \in 1 .. i - 1 : value.members[j].key # key].value
  ELSE None

\* yyjson_equals: members in any order; an integer is no real.
EqualsBy(equals, a, b) ==
  /\ a.t = b.t
  /\ IF a.t = "object"
     THEN /\ Len(a.members) = Len(b.members)
          /\ \A m \in Members(a) :
               Get(b, m.key) # None /\ equals[<<m.value, Get(b, m.key)>>]
     ELSE IF a.t = "array"
     THEN Len(a.items) = Len(b.items) /\ \A i \in DOMAIN a.items : equals[<<a.items[i], b.items[i]>>]
     ELSE a = b

Equals[p \in JsonPairs] == EqualsBy(Equals, p[1], p[2])

-----------------------------------------------------------------------------
(* The check, and the violation it names: where, by which keyword.          *)

Steps == ({"key"} \X STRING) \cup ({"item"} \X Nat)

Keywords == {"ok", "schema", "false", "type", "const", "enum", "minimum", "maximum", "minLength", "maxLength",
             "minItems", "maxItems", "required", "additionalProperties", "anyOf", "oneOf", "not"}

Verdicts == [at : Seq(Steps), by : Keywords]

Ok == [at |-> <<>>, by |-> "ok"]
Violation(keyword) == [at |-> <<>>, by |-> keyword]

RefuseIf(condition, keyword) == IF condition THEN Violation(keyword) ELSE Ok

\* One check, then another where it names none.
a ?? b == IF a = Ok THEN b ELSE a

\* The first of the checks that names one.
First(checks) ==
  IF \A i \in DOMAIN checks : checks[i] = Ok THEN Ok
  ELSE checks[CHOOSE i \in DOMAIN checks : checks[i] # Ok /\ \A j \in 1 .. i - 1 : checks[j] = Ok]

\* The verdict on a part, where the part is.
Within(step, verdict) ==
  IF verdict = Ok THEN Ok ELSE [at |-> <<step>> \o verdict.at, by |-> verdict.by]

\* A real that the cast leaves as it is is an integer too.
HasType(value, expected) ==
  \/ value.t = expected
  \/ expected = "number" /\ value.t = "integer"
  \/ expected = "integer" /\ value.t = "number" /\ Double[value.half] = Recast[Double[value.half]]

CheckType(type, value) ==
  RefuseIf(\/ type.t = "string" /\ ~ HasType(value, type.s)
           \/ type.t = "array" /\ \A name \in Items(type) : name.t = "string" => ~ HasType(value, name.s),
           "type")

CheckEquals(schema, value) ==
  LET constant == Get(schema, "const")
      options == Get(schema, "enum")
  IN  RefuseIf(constant # None /\ ~ Equals[<<constant, value>>], "const")
      ?? RefuseIf(options.t = "array" /\ \A option \in Items(options) : ~ Equals[<<option, value>>], "enum")

\* Numbers are compared as doubles; a length is a number of bytes, and a count what
\* the cast makes of it.
CheckBounds(schema, value) ==
  LET asks(keyword) == IsNumber(Get(schema, keyword))
      bound(keyword) == Double[Get(schema, keyword).half]
      below(n) == asks("minimum") /\ n < bound("minimum")
      above(n) == asks("maximum") /\ n > bound("maximum")
      fewer(keyword, n) == asks(keyword) /\ n < Size[bound(keyword)]
      more(keyword, n)  == asks(keyword) /\ n > Size[bound(keyword)]
  IN  IF IsNumber(value)
      THEN RefuseIf(below(Double[value.half]), "minimum") ?? RefuseIf(above(Double[value.half]), "maximum")
      ELSE IF value.t = "string"
      THEN RefuseIf(fewer("minLength", value.bytes), "minLength") ?? RefuseIf(more("maxLength", value.bytes), "maxLength")
      ELSE IF value.t = "array"
      THEN RefuseIf(fewer("minItems", Len(value.items)), "minItems")
           ?? RefuseIf(more("maxItems", Len(value.items)), "maxItems")
      ELSE Ok

\* A member by its property, else by additionalProperties.
CheckMember(check, schema, member) ==
  LET property == Get(Get(schema, "properties"), member.key)
      additional == Get(schema, "additionalProperties")
  IN  IF property # None
      THEN Within(<<"key", member.key>>, check[<<property, member.value>>])
      ELSE IF additional.t = "object"
      THEN Within(<<"key", member.key>>, check[<<additional, member.value>>])
      ELSE RefuseIf(additional = BoolV(FALSE), "additionalProperties")

CheckObject(check, schema, value) ==
  LET required == Get(schema, "required")
  IN  RefuseIf(\E name \in Items(required) : name.t = "string" /\ Get(value, name.s) = None, "required")
      ?? First([i \in DOMAIN value.members |-> CheckMember(check, schema, value.members[i])])

\* The first item alone.
CheckItemsHead(check, schema, value) ==
  IF Get(schema, "items").t = "object" /\ value.items # <<>>
  THEN Within(<<"item", 0>>, check[<<Get(schema, "items"), value.items[1]>>])
  ELSE Ok

\* Items numbered from 1.
CheckItemsFromOne(check, schema, value) ==
  IF Get(schema, "items").t = "object"
  THEN First([i \in DOMAIN value.items |-> Within(<<"item", i>>, check[<<Get(schema, "items"), value.items[i]>>])])
  ELSE Ok

\* Items are numbered from 0.
CheckItems(check, schema, value) ==
  IF Get(schema, "items").t = "object"
  THEN First([i \in DOMAIN value.items |-> Within(<<"item", i - 1>>, check[<<Get(schema, "items"), value.items[i]>>])])
  ELSE Ok

\* Those of the schemas listed that admit the value.
Matches(check, entries, value) == {i \in DOMAIN entries.items : check[<<entries.items[i], value>>] = Ok}

CheckCombinators(check, schema, value) ==
  LET all == Get(schema, "allOf")
      any == Get(schema, "anyOf")
      one == Get(schema, "oneOf")
      negated == Get(schema, "not")
  IN  (IF all.t = "array" THEN First([i \in DOMAIN all.items |-> check[<<all.items[i], value>>]]) ELSE Ok)
      ?? RefuseIf(any.t = "array" /\ Matches(check, any, value) = {}, "anyOf")
      ?? RefuseIf(one.t = "array" /\ Cardinality(Matches(check, one, value)) # 1, "oneOf")
      ?? RefuseIf(negated.t = "object" /\ check[<<negated, value>>] = Ok, "not")

CheckBy(check, schema, value) ==
  IF schema.t = "boolean" THEN RefuseIf(schema = BoolV(FALSE), "false")
  ELSE IF schema.t # "object" THEN Violation("schema")
  ELSE CheckType(Get(schema, "type"), value)
       ?? CheckEquals(schema, value)
       ?? CheckBounds(schema, value)
       ?? (IF value.t = "object" THEN CheckObject(check, schema, value) ELSE Ok)
       ?? (IF value.t = "array" THEN CheckItems(check, schema, value) ELSE Ok)
       ?? CheckCombinators(check, schema, value)

Check[p \in JsonPairs] == CheckBy(Check, p[1], p[2])

-----------------------------------------------------------------------------
(* Beside it.                                                              *)

\* Every option is the literal.
ValueEnumCheckAll(schema, literal) ==
  LET options == Get(Get(Get(schema, "properties"), "value"), "enum")
  IN  RefuseIf(\E option \in Items(options) : ~ (option.t = "string" /\ option.s = literal), "enum")

\* Whether a schema keeps `value` to an enum without the literal: the text of a WHEN.
ValueEnumCheck(schema, literal) ==
  LET options == Get(Get(Get(schema, "properties"), "value"), "enum")
  IN  RefuseIf(options.t = "array" /\ \A option \in Items(options) : ~ (option.t = "string" /\ option.s = literal),
               "enum")

\* A member that is a text; else the empty one.
JsonStringField(document, field) ==
  IF Get(document, field).t = "string" THEN Get(document, field).s ELSE ""

TypeIs(name) == Member("type", StrV(name))
Requires(name) == Member("required", ArrV(<<StrV(name)>>))

GroundingContract ==
  ObjV(<<TypeIs("object"),
         Member("oneOf", ArrV(<<ObjV(<<Requires("sql")>>), ObjV(<<Requires("stopped")>>)>>)),
         Member("properties", ObjV(<<
           Member("sql", ObjV(<<TypeIs("string")>>)),
           Member("stopped", ObjV(<<TypeIs("string")>>)),
           Member("assumptions", ObjV(<<TypeIs("array"),
             Member("items", ObjV(<<TypeIs("object"), Requires("assumption"),
               Member("properties", ObjV(<<
                 Member("dimension", ObjV(<<TypeIs("string")>>)),
                 Member("assumption", ObjV(<<TypeIs("string")>>)),
                 Member("basis", ObjV(<<TypeIs("string")>>)),
                 Member("confidence", ObjV(<<TypeIs("number"), Member("minimum", IntV(0)),
                                             Member("maximum", IntV(1))>>))>>))>>))>>))>>))>>)

-----------------------------------------------------------------------------
(* A call of json_schema_check.                                            *)

VARIABLES schema, document, verdict

schemaVars == <<schema, document, verdict>>

Unasked == [at |-> <<>>, by |-> "unasked"]

SchemaInit == schema \in Schemas /\ document \in Documents /\ verdict = Unasked

JsonSchemaCheck ==
  /\ verdict = Unasked
  /\ verdict' = Check[<<schema, document>>]
  /\ UNCHANGED <<schema, document>>

SchemaNext == JsonSchemaCheck

SchemaSpec == SchemaInit /\ [][SchemaNext]_schemaVars

Asked == verdict # Unasked

-----------------------------------------------------------------------------
(* What a schema admits, keyword beside keyword, as json-schema.org has it: of  *)
(* numbers and texts as they are written, or of what is read of them.          *)

\* Numbers are equal by their value.
SameBy(same, a, b) ==
  IF IsNumber(a) /\ IsNumber(b) THEN a.half = b.half
  ELSE IF a.t = "array" /\ b.t = "array"
  THEN Len(a.items) = Len(b.items) /\ \A i \in DOMAIN a.items : same[<<a.items[i], b.items[i]>>]
  ELSE IF a.t = "object" /\ b.t = "object"
  THEN /\ {m.key : m \in Members(a)} = {m.key : m \in Members(b)}
       /\ \A m \in Members(a), n \in Members(b) : m.key = n.key => same[<<m.value, n.value>>]
  ELSE a = b

SameValue[p \in JsonPairs] == SameBy(SameValue, p[1], p[2])

Alike(read, a, b) == IF read THEN Equals[<<a, b>>] ELSE SameValue[<<a, b>>]

NumberOf(read, v) == IF read THEN Double[v.half] ELSE v.half

IsWhole(read, v) ==
  IF read THEN v.t = "integer" \/ NumberOf(read, v) = Recast[NumberOf(read, v)] ELSE v.half % 2 = 0

LengthOf(read, v) == IF read THEN v.bytes ELSE v.chars

\* Twice the count.
CountOf(read, v) == IF read THEN 2 * Size[Double[v.half]] ELSE v.half

TypeSays(read, name, value) ==
  IF name = "number" THEN IsNumber(value)
  ELSE IF name = "integer" THEN IsNumber(value) /\ IsWhole(read, value)
  ELSE value.t = name

\* Of each keyword of the schema what it asks of the value.
Asks(meets, read, s, k, value) ==
  /\ k.key = "type" =>
       \E name \in IF k.value.t = "array" THEN Items(k.value) ELSE {k.value} : TypeSays(read, name.s, value)
  /\ k.key = "const" => Alike(read, k.value, value)
  /\ k.key = "enum" => \E option \in Items(k.value) : Alike(read, option, value)
  /\ k.key = "minimum" => (IsNumber(value) => NumberOf(read, value) >= NumberOf(read, k.value))
  /\ k.key = "maximum" => (IsNumber(value) => NumberOf(read, value) <= NumberOf(read, k.value))
  /\ k.key = "minLength" => (value.t = "string" => 2 * LengthOf(read, value) >= CountOf(read, k.value))
  /\ k.key = "maxLength" => (value.t = "string" => 2 * LengthOf(read, value) <= CountOf(read, k.value))
  /\ k.key = "minItems" => (value.t = "array" => 2 * Len(value.items) >= CountOf(read, k.value))
  /\ k.key = "maxItems" => (value.t = "array" => 2 * Len(value.items) <= CountOf(read, k.value))
  /\ k.key = "items" => \A item \in Items(value) : meets[<<k.value, item>>]
  /\ k.key = "required" =>
       (value.t = "object" => {name.s : name \in Items(k.value)} \subseteq {m.key : m \in Members(value)})
  /\ k.key = "properties" =>
       \A p \in Members(k.value), m \in Members(value) : p.key = m.key => meets[<<p.value, m.value>>]
  /\ k.key = "additionalProperties" =>
       \A m \in Members(value) : Get(Get(s, "properties"), m.key) = None => meets[<<k.value, m.value>>]
  /\ k.key = "allOf" => \A entry \in Items(k.value) : meets[<<entry, value>>]
  /\ k.key = "anyOf" => \E entry \in Items(k.value) : meets[<<entry, value>>]
  /\ k.key = "oneOf" => k.value.t = "array" /\ Cardinality({i \in DOMAIN k.value.items : meets[<<k.value.items[i], value>>]}) = 1
  /\ k.key = "not" => ~ meets[<<k.value, value>>]

MeetsBy(meets, read, s, value) ==
  IF s.t = "boolean" THEN s = BoolV(TRUE) ELSE \A k \in Members(s) : Asks(meets, read, s, k, value)

Meets[p \in JsonPairs] == MeetsBy(Meets, FALSE, p[1], p[2])

MeetsAsRead[p \in JsonPairs] == MeetsBy(MeetsAsRead, TRUE, p[1], p[2])

\* The pairs of a schema and a value beneath a pair, each with its place, through
\* what a document has to meet at all events.
Beneath(step, leads) == {[at |-> <<step>> \o lead.at, schema |-> lead.schema, value |-> lead.value] : lead \in leads}

SchemaOfKey(s, key) ==
  IF Get(Get(s, "properties"), key) # None THEN Get(Get(s, "properties"), key) ELSE Get(s, "additionalProperties")

LedByAll(leads, s, value) == UNION {leads[<<entry, value>>] : entry \in Items(Get(s, "allOf"))}

LedByKeys(leads, s, value) ==
  UNION {Beneath(<<"key", m.key>>, leads[<<SchemaOfKey(s, m.key), m.value>>]) :
           m \in {m \in Members(value) : SchemaOfKey(s, m.key) # None}}

LedByItems(leads, s, value) ==
  IF Get(s, "items") # None /\ value.t = "array"
  THEN UNION {Beneath(<<"item", i - 1>>, leads[<<Get(s, "items"), value.items[i]>>]) : i \in DOMAIN value.items}
  ELSE {}

LeadsBy(leads, s, value) ==
  {[at |-> <<>>, schema |-> s, value |-> value]}
  \cup LedByAll(leads, s, value) \cup LedByKeys(leads, s, value) \cup LedByItems(leads, s, value)

Leads[p \in JsonPairs] == LeadsBy(Leads, p[1], p[2])

SchemaTypeOK == schema \in Schemas /\ document \in Documents /\ verdict \in Verdicts \cup {Unasked}

-----------------------------------------------------------------------------
(* The schemas that say what they mean: every schema within is one of them, no *)
(* key comes twice, and each keyword has a value of its kind, where items and  *)
(* not hold objects.                                                        *)

OneEach(members) == \A i, j \in DOMAIN members : members[i].key = members[j].key => i = j

Counts == {"minLength", "maxLength", "minItems", "maxItems"}

\* The schemas a keyword holds.
SchemasOf(k) ==
  IF k.key \in {"items", "not", "additionalProperties"} THEN {k.value}
  ELSE IF k.key \in {"allOf", "anyOf", "oneOf"} THEN Items(k.value)
  ELSE IF k.key = "properties" THEN {p.value : p \in Members(k.value)} ELSE {}

KeywordFits(k) ==
  /\ k.key = "type" => IF k.value.t = "array" THEN \A name \in Items(k.value) : name.t = "string"
                       ELSE k.value.t = "string"
  /\ k.key = "enum" => k.value.t = "array"
  /\ k.key \in {"minimum", "maximum"} \cup Counts => IsNumber(k.value)
  /\ k.key \in {"items", "not"} => k.value.t = "object"
  /\ k.key = "required" => k.value.t = "array" /\ \A name \in Items(k.value) : name.t = "string"
  /\ k.key = "properties" => k.value.t = "object" /\ OneEach(k.value.members)
  /\ k.key \in {"allOf", "anyOf", "oneOf"} => k.value.t = "array"

WellFormed ==
  /\ UNION {SchemasOf(k) : k \in UNION {Members(s) : s \in Schemas}} \subseteq Schemas
  /\ \A s \in Schemas :
       /\ s.t \in {"boolean", "object"}
       /\ s.t = "object" => OneEach(s.members)
       /\ \A k \in Members(s) : KeywordFits(k)

-----------------------------------------------------------------------------
(* The values read as they are written: numbers that are doubles, texts of one  *)
(* byte a character; constants that are no numbers and hold none, whole counts. *)

HoldsBy(holds, v) == {v} \cup UNION {holds[part] : part \in Parts(v)}

\* A value and every value within.
Holds[v \in JsonValues] == HoldsBy(Holds, v)

IsPlain(v) == v.t \in {"null", "boolean", "string"}

IsExact(v) ==
  /\ IsNumber(v) => v.half \in -(2 * Precise) .. 2 * Precise
  /\ v.t = "string" => v.chars = v.bytes
  /\ \A k \in Members(v) :
       /\ k.key = "const" => IsPlain(k.value)
       /\ k.key = "enum" => \A option \in Items(k.value) : IsPlain(option)
       /\ k.key \in Counts => k.value.half % 2 = 0 /\ k.value.half >= 0

Exactly(s, v) == \A u \in Holds[s] \cup Holds[v] : IsExact(u)

\* A document is admitted exactly when it meets every keyword of its schema, as its
\* numbers and lengths are read: the order of the checks, their early returns and
\* their nesting lose none.  Where they are read as they are written that is what
\* json-schema.org asks.
AdmitsWhatMeets ==
  Asked => /\ verdict = Ok <=> MeetsAsRead[<<schema, document>>]
           /\ Exactly(schema, document) => (verdict = Ok <=> Meets[<<schema, document>>])

\* What json-schema.org asks is what is admitted, exact or not.
AdmitsByTheBook == Asked => (verdict = Ok <=> Meets[<<schema, document>>])

\* A violation is named where it is: on its path lies a value that a schema of that
\* path refuses, by that keyword.
BlameTells ==
  Asked /\ verdict # Ok =>
    \E lead \in Leads[<<schema, document>>] :
      /\ lead.at = verdict.at
      /\ ~ MeetsAsRead[<<lead.schema, lead.value>>]
      /\ Check[<<lead.schema, lead.value>>] = Violation(verdict.by)

\* A WHEN on a sibling whose schema admits a body of that value is not refused.
WhenAdmitsGlossed ==
  Asked /\ verdict = Ok /\ Get(document, "value").t = "string" =>
    ValueEnumCheck(schema, Get(document, "value").s) = Ok

\* Of a body that meets the grounding contract, either the sql or the stop can be
\* read, as a text, and never both; each assumption discloses one.
ContractReads ==
  Asked /\ verdict = Ok /\ schema = GroundingContract =>
    /\ {Get(document, "sql").t, Get(document, "stopped").t} = {"string", "none"}
    /\ LET assumptions == Get(document, "assumptions")
       IN  assumptions = None
           \/ \A i \in DOMAIN assumptions.items : Get(assumptions.items[i], "assumption").t = "string"

\* A body that meets the contract without a stop has sql to ground.
SqlIsRead ==
  Asked /\ verdict = Ok /\ schema = GroundingContract =>
    (Get(document, "stopped") = None => JsonStringField(document, "sql") # "")
=============================================================================
