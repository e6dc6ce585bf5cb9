\* Where the validator parts from json-schema.org.
CONSTANTS
  JsonValues <- MCValues
  JsonDepth <- MCDepth
  Schemas <- Disputed
  Documents <- DisputedDocuments
  Precise = 4
  Widest = 8
  Double <- MCDouble
  Recast <- MCRecast
  Size <- MCSize
SPECIFICATION SchemaSpec
INVARIANTS
  AdmitsByTheBook
CHECK_DEADLOCK FALSE
