\* A witness declared under a name another aspect's witness has.
CONSTANTS
  ds = ds
  col = col
  human = human
  agent = agent
  yes = yes
  no = no
  any = any
  only = only
  shape = shape
  Nothing = nothing
  Fails = fails
  Subjects = {ds, col}
  Dataset = ds
  Actors = {human, agent}
  Human = human
  Bodies = {yes, no}
  Contract = {yes, no}
  Schemas = {any, only, shape}
  Admits <- AdmitsOf
  Flavored = {shape}
  AspectTexts <- EveryAspect
  WitnessTexts <- MovedWitnesses
  FunctionTexts <- PlainFunctions
  MaxClock = 20
  MoreClock = 4
SPECIFICATION MCSpec
INVARIANT WithheldByItsOwn
