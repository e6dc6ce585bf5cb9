\* The session's dataset and another.
CONSTANTS
  fin = fin
  shop = shop
  FIN = FIN
  sale = sale
  id = id
  ID = ID
  key = key
  KEY = KEY
  Names <- MCNames
  Fold <- MCFold
  TupleOf <- MCTuples
  Main = fin
  Tables <- MCTables
  Paths <- MCPaths
  Sides <- MCSides
  GrainLists <- MCGrains
  MaxWrites = 4
SPECIFICATION Spec
INVARIANTS
  ThreePartStands
  GlossNamesColumn
  RowsHaveDataset
PROPERTY
  NearerScope
