\* A dataset named in two cases.
CONSTANTS
  fin = fin
  shop = shop
  FIN = FIN
  sale = sale
  id = id
  ID = ID
  key = key
  KEY = KEY
  Names <- QuotedNames
  Fold <- MCFold
  TupleOf <- MCTuples
  Main = fin
  Tables <- MCTables
  Paths <- QuotedPaths
  Sides <- MCSides
  GrainLists <- MCGrains
  MaxWrites = 4
SPECIFICATION Spec
INVARIANT
  GlossNamesColumn
