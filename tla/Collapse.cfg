\* A kit of witnesses, and one of groundings; a witness of the judge's name on another aspect, too.
CONSTANTS
  ds = ds
  col = col
  human = human
  agent = agent
  yes = yes
  no = no
  any = any
  only = only
  shape = shape
  Nothing = nothing
  Fails = fails
  Subjects = {ds, col}
  Dataset = ds
  Actors = {human, agent}
  Human = human
  Bodies = {yes, no}
  Contract = {yes, no}
  Schemas = {any, only, shape}
  Admits <- AdmitsOf
  Flavored = {shape}
  AspectTexts <- EveryAspect
  WitnessTexts <- JudgedWitnesses
  FunctionTexts <- EveryFunction
  MaxClock = 20
  MoreClock = 4
SPECIFICATION MCSpec
INVARIANTS
  TypeOK
  GlossesConform
  HumanServed
  Withheld
  GapsShown
