\* Up to five relationships, one statement after a row.
CONSTANTS
  lines = lines
  orders = orders
  customers = customers
  moves = moves
  counts = counts
  amount = amount
  order = order
  refund = refund
  customer = customer
  id = id
  day = day
  due = due
  sent = sent
  paid = paid
  Nothing = Nothing
  Landed <- MCTables
  Columns <- MCColumns
  Shapes <- MCShapes
  Missing <- MCMissing
  Declarable <- MCDeclarable
  Declared <- MCDeclared
  Subject <- MCSubject
  Claims <- MCClaims
  Glossed <- MCGlossed
  MaxMoves = 1
SPECIFICATION EvidenceSpec
INVARIANTS
  PinTells
  CellsOnce
  MeasureServes
