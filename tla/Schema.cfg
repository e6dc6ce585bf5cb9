\* Schemas two deep over documents two deep.
CONSTANTS
  JsonValues <- MCValues
  JsonDepth <- MCDepth
  Schemas <- MCSchemas
  Documents <- MCDocuments
  Precise = 4
  Widest = 8
  Double <- MCDouble
  Recast <- MCRecast
  Size <- MCSize
SPECIFICATION SchemaSpec
INVARIANTS
  AdmitsWhatMeets
  BlameTells
  WhenAdmitsGlossed
CHECK_DEADLOCK FALSE
