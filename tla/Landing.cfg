\* One connection, statements to their end or cut off; or two, cut off, the source moving.
CONSTANTS
  int = int
  text = text
  k1 = k1
  k2 = k2
  plain = plain
  narrow = narrow
  cast = cast
  Absent = absent
  Null = null
  ColumnType <- Types
  Derivation <- Derived
  Conns = {c1, c2}
  Door = c1
  FewContents <- SendsTyped
  FewRecipes = {plain, narrow, cast}
  FewLake = 2
  Contents <- Sends
  Recipes = {plain, narrow, cast}
  Keyed = {plain, cast}
  MaxLake = 3
  MaxGlosses = 1
SPECIFICATION MCSpec
INVARIANTS
  DoorStaleTells
  DoorRecordTells
  DoorKeysOnce
  RetypedTells
