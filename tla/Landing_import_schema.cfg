\* One connection, the source still while a landing runs.
CONSTANTS
  int = int
  text = text
  k1 = k1
  k2 = k2
  plain = plain
  narrow = narrow
  cast = cast
  Absent = absent
  Null = null
  ColumnType <- Types
  Derivation <- Derived
  Conns = {c1}
  Contents <- Sends
  Recipes = {plain, narrow, cast}
  Keyed = {plain}
  MaxLake = 3
  MaxGlosses = 0
SPECIFICATION QuietSpec
PROPERTIES
  ImportKeepsSchema
