# A verification project for glossql

glossql is a DuckDB extension: a language in which agents and humans declare what a lake's
data means (aspects, recipes, functions, witnesses), gloss it, measure it, and read back one
value per subject and aspect. This directory models how its statements read and write the
store and the lake (TLA+), checks the models on small instances (TLC), and proves part of
what they show for every instance (TLAPS).

Line numbers are of `src/src/*.cpp` in the repository; `PROJECT.json` maps every definition
to the lines it models.

## 1. The system

Every glossql statement becomes one table function. Its body opens a *second connection*
(`Inner`) and runs its queries there one by one, each a transaction of its own: nothing makes
a statement atomic. What it writes lies in two places, the *lake* (tables and views, a new
snapshot per commit) and the *store* (eleven append-only relations in the lake's catalog).
A row's `seq` is `max(seq) + 1`, read by the INSERT that uses it; the newest row of a key
stands. Only the glossary is ever deleted from.

| component | state | operations | interacts with |
|---|---|---|---|
| store relations (`glossql_store.cpp` 279-487, `Inner::Seq`) | rows with seq and stamp | append, newest, DELETE FROM glossary | everything |
| read cache (`glossql_store.cpp` 1535-1741) | the instance's object cache: one entry per read, under a store version | bind, hit, fill, evict | reads every relation and the lake |
| measurements (`glossql_runner.cpp` 654-695, 776-1043; `glossql_store.cpp` 373-436) | measurements, functions, the macro in the lake | DECLARE FUNCTION, extraction | reads lake and store, pins what it read |
| groundings (`glossql_store.cpp` 745-772, 838-996) | glossary rows of QUERY aspects, views of the lake | GLOSS, DELETE | the view is a subject others gloss |
| recipes, imports, landings (`glossql_runner.cpp` 355-558) | recipes, imports, the lake's tables | DECLARE RECIPE, IMPORT | the stale rule compares its records with the catalog |
| admission (`glossql_store.cpp` 582-836; `glossql_runner.cpp` 701-750) | aspects, witnesses, glossary | DECLARE ASPECT, DECLARE WITNESS, GLOSS | what is admitted is what reads serve |
| reads (`glossql_store.cpp` 1077-1454) | none: computed from slots | GLOSSARY(), ATTEST() | kept by the read cache |
| kit loader (`glossql_runner.cpp` 2010-2127) | kits, the process's extensions | glossql_kit | replays statements, commits each |
| schema validator (`glossql_schema.cpp`) | none | json_schema_check | admits every body |
| subjects (`glossql_store.cpp` 90-277, 638-667; `glossql_runner.cpp` 301-350, 561-601) | datasets, sources, relationships | resolving a path, DECLARE DATASET, SOURCE and RELATIONSHIP | every statement that names a subject; by what the catalog holds then |
| column lineage (`glossql_lineage.cpp`) | none | walks a bound plan | a landing records its text per column; the stale rule compares them |
| evidence (`glossql_runner.cpp` 867-1010, 1131-1960) | none | glossql_behavior_cells, glossql_relationship_checks | reads the record and the catalog at bind, names them for the measurement's pin |
| grammar, service, MCP door, registration | none of their own | parsing and I/O | |

What is hard in it: a version, pin or snapshot that is read *before or after* what it is said
to label, while other connections write; deletes under counters that only grow; two commits
for one statement (lake, then store) and what is left when it is cut between them; marks of
staleness derived from snapshots instead of being written; and declarations that supersede
each other by different keys (a witness by aspect, its "unchanged" by name).

What makes each component correct:

* read cache: rows served are the store's as the bind saw it, never older;
* measurements: a voice that is served is what its body would compute now, and one write ages
  only those that read it;
* groundings: the view is what the newest gloss says, and claims on it go stale exactly with it;
* landings: a record tells the table it is of; a gloss is stale exactly when its column is
  derived or typed otherwise; each key is in a keyed table once;
* admission: current glosses stay admissible whatever is declared later;
* kits: a record says what its text left declared, and the same text again changes nothing;
* the validator: it admits exactly what meets every keyword, and names a violation where it is;
* reads: the human over the agent over functions, withheld by the aspect's own witness alone,
  every gap shown;
* subjects: one column is one name, in the spelling that landed, and stays so; what a session's
  own dataset names, no other dataset takes;
* lineage: a column's text moves exactly when what computes it does, whatever the query's shape;
* evidence: a row that hits is what its call would find now; cells are those its edges give, once.

Hazards that no property covers are listed in `PROJECT.json` with the reason, and most have a
counterexample in section 3.

## 2. Modules

| module | models | actions are |
|---|---|---|
| `StoreRows` | `seq`, newest | (operators) |
| `ReadCache` | `Cached`, `KeptViewBind`, `StoreVersionSQL`, against writers, deletes, lake commits | one query, or one access to the object cache |
| `AbstractRead` | what a reader is promised with no cache in sight | a write, a request, an answer |
| `Measurements` | `FunctionExec`, `ExtractExec`, `PinOf`, `ReadsOf`, `StandsSQL` | one query of the statement, or the work between two |
| `Grounding` | `Ground` and the rest of a QUERY gloss, claims on the view | one query |
| `Landing` | `RecipeExec`, `ImportExec`, `Land`, `KeyOnce`, `StaleSQL` | one query |
| `Admission` | the same admissions query by query over `Glossary`'s state, on several connections | one query |
| `Glossary` | `AdmitAspect`, `AdmitGloss`, `WitnessExec`, `FunctionExec`, landing a voice, deletes | one statement |
| `Collapse` | `SlotsSQL`, `Witnesses`, `VerdictsSQL`, `OwedSQL`, `CollapsedSQL` over `Glossary`'s state | (operators) |
| `Kits` | `KitExec`, `KitName`, `ReadScript`, with edits, hands, restarts and other loads beside it | reading the script, one query, or one statement of the kit |
| `Subjects` | `ResolvePath`, `Canonical`, `DatasetOf`, the catalog checks of a gloss, DECLARE DATASET, SOURCE, RELATIONSHIP | one statement |
| `Lineage` | `Text`, `Walk`, `LineageOf` over plans, and the landings that record them | one landing |
| `Evidence` | `BehaviorCells`, `RelationshipChecks`, their pointers, axes, alignments and `BindRead`s | one statement |
| `Schema` | `JsonSchemaCheck`, `JsonSchemaValueEnumCheck`, `GROUNDING_CONTRACT` | one call (recursive functions of a schema and a value) |
| `StoreRowsProofs`, `ReadCacheProofs`, `MeasurementsProofs`, `GroundingProofs` (of `Schema` too), `LandingProofs` (of `Lineage` too), `GlossaryProofs` (of `Admission` and `Collapse` too), `SubjectsProofs` (of `Evidence` too), `KitsProofs` | theorems | |
| `MC*` | instances and disciplines for TLC | |

Correspondence of state. A relation of the store is a set of records with `seq`; `Newest` is
`ORDER BY seq DESC LIMIT 1`, and keeps every row that shares the highest seq, as the code's
choice between them is open. `pc[c]` is how far connection `c`'s statement is; what it holds
in C++ locals between queries is a record per connection (`fill`, `work`, `gloss`). The lake
is its snapshot number and, per relation, the snapshots that made and ended it, which is what
the code's joins on `ducklake_*` read. History variables (`asked`, `base`, `clean`, `crossed`, `change`) are
named where they are declared; no guard reads them.

Data that properties do not tell apart is left out: a read's rows are the store it ran at; a
measured value is the body and the content it read; a gloss body is a model value and a schema the
set of bodies it admits; a detector's script is a function of how many bodies its slots tell
apart; a derivation text is the tree its string writes out, a plan the sequence of its operators
in the order `Walk` comes to them, each naming the places beneath it; a path is the names between
its dots, and a cell's sums and counts are left out beside what it is keyed by and read from.

### Disciplines

Much of what the docs promise holds for *one connection* (an instance with one door, as the
MCP server is) and not for several, and some only while glosses are not deleted. Each MC
module therefore has one specification for two disciplines, chosen by its first state:
`open = {Door}`, one connection, or `open = Conns`, every connection, with deletes or cut-off
statements where the door's discipline excludes them. A property named `Door...` is of the
first; any other holds of both. The bounds named `Few...` hold with every connection open.

| run | the door alone | every connection |
|---|---|---|
| `ReadCache` | deletes too | appends only |
| `Measurements` | no gloss deleted, declarations fail halfway | glosses deleted too |
| `Grounding` | glosses to their end, none deleted | deleted, cut off between view and row |
| `Landing` | to their end or cut off anywhere, the source still during one | cut off anywhere, the source moving |
| `Admission` | glosses deleted, subjects landed on | the same, fewer |
| `Kits` | any files, edited and declared over between loads | one text in every file |

`Collapse` is one connection whose glosses are deleted a slot at a time. In `Subjects` and
`Evidence` each statement is a step, whoever's. `Lineage` is one recipe landed again and again.
`Schema` has no connections: a behaviour is one call.

## 3. Runs

Passing:

* `ReadCache`: an entry under the store's version holds its rows (`KeptCurrent`); one connection
  is served exactly the store it asked (`DoorServesAsked`); and whatever is written, deleted,
  filled, kept or evicted, the cache implements `AbstractRead` under the mapping `R`
  (`ReadsImplement`): each read is of a store between the one asked and the one now.
* `Measurements`: what an extraction would serve is what it would compute, by the declared body
  unless a declaration failed between the macro and its row (`DoorStandsCurrent`; with others, for
  every row that landed while nothing moved: `CleanCurrent`); a write ends only voices that read
  what it wrote (`WriteScoped`).
* `Grounding`: whenever the newest gloss is the one that serves, the view carries its sql or it
  stopped the view (`DoorViewServes`; an agent's gloss after a human's is `Grounding_serving`
  below), each gloss takes effect
  (`DoorTakesEffect`), the same sql again ages no claim (`DoorClaimsStand`); claims on a view
  that is replaced read stale (`ClaimsTell`) and never current again (`StaleStays`).
* `Landing`: a gloss is stale exactly when its column was retyped or what the records of its
  landing and of the table's tell of it differs, cut-off statements and lineages that were not
  read among them (`DoorStaleTells`); the record of the landing that made the table is the newest
  and the table's (`DoorRecordTells`); each key once, whatever the source sends (`DoorKeysOnce`);
  the column's versions tell whether it was retyped, whoever steps in between (`RetypedTells`).
* `Collapse`: current glosses conform to what is declared (`GlossesConform`); the human is served
  or the row says contested (`HumanServed`); a value is withheld exactly when the detector of
  its aspect's witness scores its slots above the threshold of a witness of that name, whichever
  aspect that one is on (`Withheld`); rows are missing exactly where nobody spoke and nothing is owed (`GapsShown`).
* `Admission`: a gloss is stranded only by a declaration and a gloss of its aspect that passed each
  other (`OnlyCrossedStrand`); one connection's queries are `Glossary`'s statements
  (`DoorIsGlossary`, the refinement); each statement comes to its end (`StatementsEnd`).
* `Subjects`: a three-part name stands whatever lands or is declared beside it
  (`ThreePartStands`); an aspect ON COLUMN is glossed on a column as it landed, however it was
  spelled (`GlossNamesColumn`); every row is some dataset's (`RowsHaveDataset`); the session's
  dataset is the nearer scope (`NearerScope`).
* `Lineage`: a filter, an order, a CTE or a join beside it changes no column's text (`ShapeFree`);
  a source's column retyped, or an expression edited so that its text tells (`ToldOf`), moves exactly
  the columns that a derivation followed from the top reaches (`RetypeTells`, `EditTells`); an edit
  no text tells (a condition or operator for another, a window's frame or order) moves none. The seeds hold every operator the
  walk has a case for and two it has none for; reshaping and editing reach every operator of a plan.
* `Evidence`: a row that hits is what its call would find now, but for three things no pin holds
  (`aside`: a function that spoke role, a role gloss deleted, a table that landed under a
  relationship declared before) (`PinTells`); no cells are counted
  twice (`CellsOnce`); every event's alignment finds the measure's cells, once, joined as it joins
  them (`MeasureServes`).
* `Kits`: as a record landed, everything its text declares stood as the text leaves it
  (`RecordTells`), whatever stopped, was edited, glossed or declared over between; a load that
  came to its end has its extensions in the process (`ExtensionsLoaded`), after a restart too;
  the text its name was last recorded with writes nothing (`DoorAgainQuiet`).
* `Schema`: 204575 pairs of a schema and a document, both two deep. The validator admits exactly
  what meets each keyword read by itself, with numbers as doubles and lengths as bytes, as the code
  takes them (`MeetsAsRead`), and so exactly what json-schema.org asks (`Meets`) where nothing in
  the schema and document is read otherwise than it is written (`Exactly`) (`AdmitsWhatMeets`); the violation it names
  is where it says (`BlameTells`); a WHEN is never refused for a value a body may have
  (`WhenAdmitsGlossed`).

One counterexample is listed (`PROJECT.json`, findings):

* `Evidence_voices` (`PinTellsVoices`): behavior_cells reads the collapsed role claims and names
  main.glossary for its pin (runner.cpp 1814); a measurement of a function that speaks role moves
  them too, and the row goes on hitting.

Further counterexamples, found while modelling, each a difference between the code and what its
docs say or a reader would expect. Run by hand (`tlc -config X.cfg M`):

| configuration | module | property | shows |
|---|---|---|---|
| `ReadCache_fill_race` | ReadCache | KeptCurrent | a delete and a write during a fill label rows with a version that comes back (store.cpp 1539) |
| `Measurements_gloss_deleted` | MCMeasurements | StandsCurrent | a leg is max(seq), so a delete beneath it goes unseen (SPEC 506) |
| `Grounding_serving` | Grounding | ViewServes | the agent's later gloss replaces the view while the human's serves (SPEC 350-356) |
| `Landing_import_schema` | MCLanding | ImportKeepsSchema | an unkeyed import takes a new schema (SPEC 122) |
| `Collapse_shared_name` | MCCollapse | WithheldByItsOwn | a value is withheld by a threshold another aspect's witness of the same name declared (SPEC 582) |
| `Kits_stands_over` | MCKits | StandsWhole | a later text stopped half, or another kit came after, and the earlier kit still stands |
| `Kits_between` | MCKits | RecordTells | a declaration comes between a kit's statement and its record |
| `Schema_disputed` | MCSchema | AdmitsByTheBook | 1.0 is not the constant 1; integers past 2^53 compare as doubles and a whole real past 2^63 is no integer (schema.cpp 236, 50); lengths are bytes; `items: false` and `not: true` are ignored |
| `Lineage_operators` | MCLineage | EveryEditMoves | conditions and operators all fall to "unnest(" (lineage.cpp 110) and a window's frame and order are not written (lineage.cpp 75), so `is null` for `is not null` moves nothing |
| `Subjects_tuple` | MCSubjects | RelationshipsOnce | a tuple stands as it was written (store.cpp 204): two spellings of one relationship are two rows (SPEC 36-39) |
| `Subjects_quoted` | MCSubjects | GlossNamesColumn | a dataset's name is left as written (store.cpp 196-209): quoted in another case its glosses are under a dataset that no session reads |

and by editing one of these configurations:

| name | from | change | property |
|---|---|---|---|
| `ReadCache_overlap` | `ReadCache_fill_race` | `Views = {}`, `MaxClock = 3` | `VersionTells`: two writers of one seq and a delete give two stores one version |
| `Measurements_pin_race` | `Measurements_gloss_deleted` | `Inputs <- DriftInputs`, `Bodies = {drift}`, `Conns = {c1, c2}`, `MaxLake = 4`, `MaxClock = 1`, `KeepSpec` | `StandsCurrent`: a write between value and pin is pinned as read (runner 1033) |
| `Measurements_older_body` | `Measurements_gloss_deleted` | `Inputs <- LakeInputs`, `Bodies = {drift, spread}`, `Conns = {c1, c2}`, `MaxLake = 4`, `MaxClock = 2`, `KeepSpec` | `BodyCurrent`: an older body's value lands after the new declaration and is served as its |
| `Measurements_half_declared` | the same | the same with `Conns = {c1}` | `BodyCurrent`: a declaration fails after its macro was replaced (runner 686-689), and that body is served as the older text's for good |
| `Measurements_view_beside` | the same | `Inputs <- DriftInputs`, `Bodies = {drift}`, `MaxLake = 4`, `MaxClock = 1`, `SubjectOnView = FALSE`, `KeepSpec` | `StandsCurrent`: a view the subject does not stand on is redefined unseen |
| `Measurements_over_measurements` | the same | `Inputs <- TrendInputs`, `Bodies = {trend}`, `MaxClock = 2`, `MaxLanded = 2`, `KeepSpec` | `StandsCurrent`: measurements are no leg of a pin |
| `Grounding_interleaved` | `Grounding_serving` | `Conns = {c1, c2}`, `Actors = {human}` | `ViewServes`: two glosses in turns leave row and view of different ones |
| `Grounding_orphan` | the same | `Actors = {human}`, `Spec` | `ViewServes`: cut off between view and row, the view carries a sql no row has |
| `Grounding_deleted` | the same | `Actors = {human}`, `DeletingSpec` | `GlossTakesEffect`: a gloss is compared with a row beneath a deleted one |
| `Landing_key_race` | `Landing_import_schema` | `Contents <- SendsTwice`, `LivelySpec` | `LandedOnce`: a key comes between its check and its merge |
| `Landing_null_key` | the same | `Contents <- SendsNull` | `KeyReplaced`: a NULL key is inserted by every import |
| `Landing_unrecorded` | the same | `MaxGlosses = 1`, `BrokenSpec` | `DerivedTells`: a landing whose lineage was not read (runner 479), or that was cut off before its record, does not tell what computes its column |
| `Landing_moving_source` | the same | `LivelySpec` | `RecordTells`: the source moves between a landing and the walk of its plan |
| `Landing_late_snapshot` | the same | `Conns = {c1, c2}` | `SnapshotIsLandings`: a record takes another connection's snapshot |
| `Collapse_row_deleted` | `Collapse_shared_name` | `WitnessTexts <- JudgedWitnesses`, `MoreClock = 5`, `MCRowSpec` | `GlossesConform`: a row beneath a deleted one never met the grounding schema |
| `Collapse_schema_kept` | the same | `WitnessTexts <- JudgedWitnesses` | `SchemasStand`: a schema that lost its flavor still refuses glosses |
| `Collapse_unchanged` | the same | `WitnessTexts <- RivalWitnesses` | `UnchangedStands`: a witness answered "unchanged" is not the one that stands |
| `Collapse_witness_unfit` | the same | `WitnessTexts <- JudgedWitnesses`, `AspectTexts <- RetypedAspects` | `WitnessesFit`: an aspect becomes a MEASUREMENT under a witness with BY |
| `Collapse_voice_stranded` | the same | `WitnessTexts <- JudgedWitnesses`, `FunctionTexts <- EveryFunction` | `ServedConform`: a voice is current with a body its aspect now refuses |
| `Evidence_deleted` | `Evidence_voices` | none | `PinTellsDeleted`: main.glossary's leg is max(seq), so a role gloss deleted beneath it goes unseen (store.cpp 404) |
| `Evidence_landed` | the same | none | `PinTellsLanded`: a relationship onto a table not landed is read past and not named (runner.cpp 1765), and the row hits when the table lands |
| `Schema_empty_sql` | `Schema_disputed` | `Schemas <- AllSchemas`, `Documents <- EmptySql` | `SqlIsRead`: a grounding with an empty sql is admitted and read as a stop |
| `Admission_crossed` | `Admission` | no `Door...` property | `GlossesConform`: two connections pass each other's checks and a gloss is stranded |
| `Subjects_twice` | `Subjects` | none | `ResolvedTwice`: a bare table's name, or a column whose name holds a dot, resolves to another the second time (comment, store.cpp 212) |

### Bounds

`MaxClock`, `MaxLake`, `MaxRows`, `MaxLanded`, `MaxGlosses`, `MaxClaims` and `MoreClock` cap how
many writes of a kind a behaviour has; they are conjuncts of the guards. Two connections are
enough for every interleaving of a statement with *a* rival, since a rival's statement reads
only shared state and its own record; three or four writes let a value be read, superseded,
deleted and written again, the longest shape a counterexample above takes (its runs show each
bound is reached: every mutant in `PROJECT.json`, a plausible bug of the code, breaks its
property within them). Two tables, one view, two actors and two bodies make each comparison
in the code go either way. `Collapse` starts from a loaded kit, five declarations or three,
and takes four statements more. `Kits` has six rows: a text of two declarations, its record, and
another over it. `Schema` has every keyword alone and under each that holds schemas, with
documents on both sides of each bound; deeper nesting repeats the same calls.
`Admission` has two connections and three statements that write, enough for a declaration and a
gloss to pass each other and a third to be judged by both. `Subjects` has two datasets, a table
named as a dataset, a column named as a table and one with a dot, so that a path may be read in
every way; each dataset is spelled one way, and `Subjects_quoted` drops that. `Lineage` lands each
recipe, edited or reshaped, twice after the first. `Evidence` has five tables, one of which borrows
its order's day and any of three of which may be missing at first (`Missing`); up to five
relationships in either order, two of them onto one document; role glosses over one another
(`Glossed`); and one statement after a row, which is all a pin must tell of.

`Landing`'s source sends a key twice, and a key that is NULL. Where statements are cut off it sends
fewer contents (`FewContents`), so that the column's type and lineage vary there and its keys while
statements come to their end, which is what each property there is about. `Frail` names the body
whose declarations may fail halfway. `Schema` takes `Precise`, to which doubles are exact, as 4 for
2^53, and `Widest`, from which no real is an int64, as 8 for 2^63: with 1, 4, 5, 6, 8 and -5 among
the numbers each comparison has operands on both sides of either.

### Fairness

`Admission` alone states a liveness property, `StatementsEnd`, under weak fairness of each
connection's `Step(c)`: a query of a statement that is under way is always enabled, as it waits for
no other statement and retries nothing, and the thread that runs the table function goes on by
itself. Beginning a statement is never fair. The other modules assume no fairness: a statement
there ends or is cut off, at any point.

## 4. Proofs

`StoreRowsProofs`: the row appended under `TopSeq + 1` is the newest alone, and rows stay
numbered. The other modules rest on it.

`ReadCacheProofs`, from `ConstantsAssumption` (reads and views are distinct, the bounds are
numbers) and `KeysAssumption`:

* `TypeCorrect`: `Spec => []TypeOK`. `TypeOK` alone is not inductive: tops of relations are
  numbers only of finite sets of bounded rows, so `TypeInv` adds that every seq and stamp is at
  most the clock.
* `AppendKeepsCurrent`, `AppendServesNotOlder`: any number of connections, no deletes. The store
  only grows; every base and everything a fill read lies within it, in the order they were read,
  and of two bases one lies within the other (`AppendInv`). A store within another of the same
  counts is that store, so equal versions are equal stores.
* `OneDoorKeepsCurrent`: one connection, any deletes. A fill reads the store its bind asked;
  rows beyond an entry's base were stamped after all of that base (`Past`), so where a delete
  keeps the count the newest stamp differs.

* `AppendReadsImplement`, `OneDoorReadsImplement`: both disciplines implement `AbstractRead`. An
  answer is a hit or a fill whose rows the invariant bounds; every other step of the cache maps to
  a write or a stutter.
* `OpenKeepsCurrent`, `DoorServes`, `OpenReadsImplement`: the same of the instance that the run
  checks, where the door alone is open among any connections, or all of them are. Either invariant
  is kept by its own steps; with the door alone open the others stay idle.

`MeasurementsProofs`, from `ConstantsAssumption`, `NamesAssumption` and `Followed`: no body reads the
landed measurements, a body over a file reads the dataset's relations alone, and one over a view has
the view under its subject. Without it the statement is false, as `Measurements_over_measurements`,
`_view_beside` and the pin of `**` show. `DoorCurrent`: one connection, no gloss deleted, any
declaration failing between its macro and its row: the row served is then of the macro, and of the
declared text while the macro is.
`CleanIsCurrent`: any connections, any deletes, no body over the glossary (`NoneTold`; a delete is
`Measurements_gloss_deleted`). Neither property is inductive: a row remembers only snapshots and tops.
`Computed` says there was a world, relations, view and glossary, in which the body saw what the row
holds and which its pin names; `AsOf` that the present has since taken new snapshots only and added
glosses above its top. While the legs the reads select are as pinned, that world is the present in
all the body read (`SeesTheSame`). `Clean` carries an extraction to its pin, `Declared` the newest
declaration and the macro. `WritesAreScoped` holds of any steps: reads select legs by name.

`GroundingProofs`, for one connection: `OneDoorViewIsNewest`, `OneDoorTakesEffect`,
`OneDoorClaimsStand`. `Level` says where view and rows stand at each query of a gloss: level
until the view is made, the view ahead by the one gloss until its row lands. `DoorServing`,
`DoorEffect` and `DoorClaims` are of the door that the run checks, alone open among any; the first
says that the view carries the serving sql so long as the newest gloss serves, which SPEC 350-356
asks for always and `Grounding_serving` refutes. For any number,
glosses deleted and cut off: `ClaimsAlwaysTell` and `StaleIsForGood`. The view's definitions never
overlap, a step ends the live one or begins one at the next snapshot (`History`, `Moves`), so what a
claim was written over is found again at its snapshot, ended or not (`Founded`).

`LandingProofs`, for one connection, the source still while a statement runs: `OneDoorLands`
(`RecordTells`, `StaleTells`, `SnapshotIsLandings`) with statements cut off anywhere, under
`BrokenSpec`; `DoorRecords` and `DoorStaleness` of the run's door, and `DoorKeys` where its
statements come to their end. None of the properties is inductive: they speak between
statements. `Keys` says what a statement owes within: an IMPORT's recipe is the one that stands, the
result it counted has its keys once, and from the landing to the recipe's row the table is the
recipe's under way. `Records` carries the landing's snapshot, rows and what the walk gave from query
to query until its record is the latest, or the statement is cut off and the landing has none.
`Written` says that what a gloss was written over, the column's type and the landing that computed
it, is found again at its snapshot, for versions of the column never overlap (`History`) and each
later record is beyond it. With any number of connections, cut off anywhere, records do carry
another's snapshot; what is left is `AlwaysRetyped`: by its versions alone a column reads retyped
exactly when it is (`RetypedTells`).

`GlossaryProofs`, from `ConstantsAssumption`: `TypeCorrect` (`Spec => []TypeOK`, inductive as it
stands) and `GlossesStayFit` (`WholeSpec => []GlossesConform`). `GlossesConform` asks only of
standing schemas; what Gloss checks, and what must be kept, is `SlotsFit`: a QUERY body meets
every schema that is the newest flavored one of its name, also where that name was declared again
without its flavor. A declaration leaves every glossed aspect's own standing row, adds at most its own
schema to those asked, and has asked it of every current QUERY slot; a gloss becomes its slot's
newest; a deleted slot uncovers nothing. `ByRank` says what stands without `Newest`: the rows none
of their kind is numbered above (`NewestAreHighest`).

It proves the reads of `Collapse` too, over the same states, rows deleted in any way. Rows of a
relation are numbered apart (`TypeOK`), so a slot, a standing witness and a script are each one
(`OneNewest`), and a read's rows are its slots' (`SlotRows`). `HumansServed`: the human's rank is the
least, so its slot is the one served (`OneIsPicked`). `WithheldTells`, of witnesses that
share their names over any aspects: the verdicts on a slot's subject and aspect are the one of the
witness on that aspect (`OneVerdict`), which the read joins by name with every threshold of it
(`JudgedByName`), and so a row is contested exactly when one of them is exceeded
(`ContestedAsJudged`). It assumes `Scores`, a detector answers any number of bodies. `GapsAreShown`, of the human and one agent: where
neither spoke of an owed aspect, the ruling on its sibling is spoken (`RulingIsSpoken`), the human's
before the agent's, as the code reads them.

And `Admission`, query by query over the same constants: `OnlyCrossedStrands`, for any number of
connections. `OnlyCrossedStrand` says nothing of statements under way; `IInv` adds what each has
asked by the query it comes to: a declaration that counted its glosses found none and fits the
slots, a gloss that looked its aspect up holds the row that stands and has met it (`Counted`,
`Meets`), so long as no INSERT has crossed it. `OneConnIsGlossary`: with one connection, what was
asked still holds when the row lands (`Sure`), so each step is a step of `Glossary` or a stutter,
and what is proved of `Glossary` is proved of its queries. `DoorIsOne` and `OpenOnlyCrossed` say both
of the run's instance, after the load of its kit; their hypotheses are that the door is a connection
and the kit's declarations are among the texts and within `MaxClock`.

`SubjectsProofs`, from `NamesAssumption` and `StatementsAssumption`, which say what a catalog
gives: a path has a name, and a table's columns are matched apart, none as a tuple's key.
`SessionIsNearer` and `FullNamesStand` need no more; `ColumnsAsLanded` and `RowsAreDatasets` take
`SpelledOnce`, each dataset's name spelled one way, and `Subjects_quoted` shows they fail without.
`GlossNamesColumn` is not inductive: it asks of a gloss the table that stands now. `Standing` says
that tables are of declared datasets, one of each name; `Dated` that what landed after a gloss is
dated after it, so a table that stood before the gloss is the one it resolved against; `Sided` and
`ColumnsNamed` that the sides of a row are full paths, spelled as that table spelled them.

And `Evidence`, whose constants and variables the module holds beside those of `Subjects`, from
`EvidenceAssumption` (relationships are between the dataset's tables, the subject's is one, which may be dropped and land
again):
`PinsTell`, `CellsAreOnce`, `MeasuresServe`. Of `PinTells` the heart is `ReadsWhatItNames`: a
statement that leaves alone all but one relation (`Beside`), which the call's answer does not name,
leaves that answer as it was, branch by branch of the bind. Once the column is a measure, what is
read beside the record is the subject's table and those of pointers (`TablesNear`): axes are
borrowed along pointers, events align by them, and each side of the cells comes out the same
(`SameNearby` to `SameCells`). `PinTells` is not inductive: its row must also name what its call
would name now, and be pinned to versions passed, so that a version that moved is not the pinned one
(`Pinned`). A row that names a table not
there is the subject's own, of no column (`AbsentNames`), and a check that binds goes on binding
(`SameBinds`). Three things no pin holds are excluded by `aside`, each alone breaking the property: a
role that a function speaks (`PinTellsVoices`), a role gloss deleted (`Evidence_deleted`) and a table
landing under a relationship (`Evidence_landed`). `CellsAreOnce` needs that the places the loops find alignments at tell them apart
(`RankTells`), so of one label one is the first. `MeasuresServe` needs that the same label of the
measure side is the same join: a borrowed alignment that is kept goes along the first of the edges
onto its document (`FirstHop`), for one along a later edge has the same label and a later place; and
that there is an earliest alignment of each label (`EarliestEmitting`), as places are tuples of
numbers.

`KitsProofs`, from `KitsAssumption`, by which hashes tell texts apart. `LoadsBring`: any
connections, edits, hands, cut-off loads and restarts; a load has brought the extensions of every
line it went past, standing or run (`AllBrought`), and a restart ends the load with the process.
`RecordsTell` and `AgainIsQuiet` are of the run's two disciplines. `RecordTells` is not inductive: it
speaks of a record as it landed. `Told` says that all a load that runs went past stood as the text
leaves it; `Disciplined` that it still does, for either no other connection declares, and hands
declare only while the one is idle, or every file has one text with no key twice, so whoever
declares a key declares the same; `Asked` that a load which stands found the record of its own text.
With two texts and two connections the statement is false (`Kits_between`).

`GroundingProofs` also holds the proofs of `Schema`, from `JsonAssumption`: any set of JSON values
that holds the parts of each of its values, each less deep than the whole. The validator goes down
schema and value by recursion, and a recursive function is a CHOOSE until there is shown to be
one. `DefinedByDepth` says there is, where its body asks the function only of what is less deep:
the functions that agree with the body up to a depth agree with one another there
(`AgreeByDepth`), and the one that takes each pair's value from them is the fixed point. The
schema becomes less deep at every call of the validator, though the value need not (`allOf`), so
depth is the schema's (`Shares`); with `EqualsIs`, `CheckIs`, `MeetsIs` and `LeadsIs` the
functions are their bodies, and what follows is by the least deep schema that would fail it.

* `ValidatorAdmits`: `Check` is Ok exactly where `Meets` holds. Check by check (`TypeAgrees`,
  `EqualsAgree`, `BoundsAgree`, `ObjectAgrees`, `ItemsAgree`, `SchemasAgree`) a check passes exactly
  when the keywords it is of are met, the schemas within agreeing already (`AgreeBelow`).
* `ValidatorBlames`: a violation is of the value's own keywords, or the answer of a check called on
  a part, named by the step to it (`CheckBlames`); so a lead to it is among the whole's (`CheckTells`).
* `WhenAdmits`: an admitted body's `value` was checked against its property (`PropertyAdmits`), and
  an enum admits the texts among its options alone (`EnumAdmits`).

Numbers are as the code takes them. `NumberAssumption` says what of a double, of a cast to int64
and of a size is known: a real is a double, integers up to `Precise` are, in range a cast truncates;
the rest is whatever the build makes of it. With these `MeetsAsRead` is what `Check` admits for any
numbers, and texts of any characters. `Exactly` names the schemas and documents in which nothing is
read otherwise than it is written: integers within `Precise`, texts of as many bytes as characters,
constants and options that are no numbers and hold none, counts whole and not negative. There
json-schema.org's `Meets` is `MeetsAsRead` (`TypeExact`, `BoundsExact`, `AsksExact`, then `SchemaExact`
and `AllSame` by depth, as `ExactlyWithin` hands exactness down), and `Schema_disputed` shows the two
part without it. The first two theorems assume `WellFormed`: no key twice, each keyword with a value
of its kind, `items` and `not` with an object. Every schema the run has is one (an ASSUME of
`MCSchema`). `WhenAdmits` is of every schema.

`LandingProofs` also holds the proofs of `Lineage`, from `LineageAssumption`: the first queries are
plans, whose operators stand over earlier ones, whose expressions read columns that are there, no
two CTEs of one name; a table's columns have names of their own. Any number of tables, types,
operators, nodes and landings.

* `LineageShape` (`ShapeFree`), `LineageRetype` (`RetypeTells`), and `LineageEdit` (`EditTells`), the
  last of any edit: `ToldOf` says which a text tells (`HeadsTell`), and one that none tells, a
  condition or an operator for another, a frame or an order of a window, moves no column at all
  (`UnsaidHeads`, `UnsaidSame`). That every edit moves is `EveryEditMoves`, which `Lineage_operators`
  refutes.

The properties compare two landings and are not inductive. `LineageInv` is: the query is still a
plan, the newest record is its lineage, and the names of CTEs to come are not taken, for a reference
reads the one definition of its name (`DefinitionsOne`). That each step keeps it is `ReshapePlan`,
`EditPlan`.

The rest is induction over the places of a plan, each time by the least place that would fail. The
recursive functions are shown to be there, each value by those of earlier places (`BindingsBy`,
`TextBy`, `WalkBy`, `DerivationsBy`). A text tells its head and arguments, and is known only if every
argument is, so two known texts of one expression differ exactly when a column it reads differs
(`TextSame`, `TextMoved`), and a column whose own computation stands moves exactly as those it is
computed from do (`ColumnMoves`); where the touched columns move by themselves, the columns derived
from them move and no other (`DerivedMove`, of edits and retypes alike). An edited column moves by
itself because its text has another head, or is over what it was; no text is over itself, as from
argument to argument each comes to an end (`NotOverItself`, `WalkEnds`, `EditedTells`). Of a reshape
the operators put in put out the columns at their place by the same texts (`WrapReads`), the others
keep what they read, by the places it went to (`OwnReads`, `ReshapeDefinitions`), and so does the
whole (`InsertReads`, `ReshapeRecord`). Of a column that is not followed the record is the SQL, and an
edited or reshaped plan is another.

Only model-checked: `StatementsEnd` (liveness, which is beyond the prover, as is ENABLED) and every
counterexample.

## 5. Not modelled

* A clock that goes back, or two stamps in one microsecond: `clock` moves with each stamped
  row of one connection; two connections may stamp alike.
* DuckLake's own conflicts. A commit that is refused is the failing branch of its statement.
* Grammar, service and registration: parsing and I/O, no state. The grammar turns a statement's
  text into the call of a table function; the corpus under `test/` covers it.
* The binder that makes the plan `Lineage` walks. Two files read by `read_csv` share the leaf of a
  column; marks and VALUES name nothing; a recursive CTE or an operator not followed takes the hash
  of the whole SQL. `Landing` takes what computes a column from its recipe and source.
* In `Evidence`: the sums and counts of a cell; a witness that contests role claims, which moves them as a voice does. In
  `Subjects`: the settings of a dataset or source, and declaring one again with others.
* JSON schemas and bodies: `Glossary` takes a schema to be the bodies it admits; which they are
  is `Schema`'s, over JSON values. Malformed texts, negative counts and the wording of a
  violation are left out.
* The statements of a kit are LOAD lines, declarations and CREATE TABLE; a declaration is one
  step, two hashes of different texts differ.
* The type form of WHEN, reads narrowed to a subject, a source's rows in other datasets' reads.

## 6. Plan

1. Reads narrowed to a subject, and subjects owed by grain and type, in `Collapse`.
2. `dataset_cells`' own SQL, and the sums of the cells, against reference definitions.
3. Proofs: `GapsShown` with more agents than one, saying what the ruling's order of actors makes of it;
   `RecordTells` of connections whose kits declare keys apart.
