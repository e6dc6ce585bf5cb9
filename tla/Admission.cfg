\* One connection, or two.
CONSTANTS
  ds = ds
  col = col
  human = human
  yes = yes
  no = no
  any = any
  only = only
  shape = shape
  Nothing = nothing
  Subjects = {ds, col}
  Dataset = ds
  Actors = {human}
  Human = human
  Bodies = {yes, no}
  Contract = {yes, no}
  Schemas = {any, only, shape}
  Admits <- AdmitsOf
  Flavored = {shape}
  AspectTexts <- MCAspects
  WitnessTexts <- MCWitnesses
  FunctionTexts <- MCFunctions
  MaxClock = 20
  Conns = {c1, c2}
  Door = c1
  DoorClock = 4
  OpenClock = 3
SPECIFICATION MCSpec
INVARIANT
  OnlyCrossedStrand
PROPERTIES
  DoorIsGlossary
  StatementsEnd
