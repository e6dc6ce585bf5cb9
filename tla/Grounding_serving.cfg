\* One connection, both actors: which grounding the view carries.
CONSTANTS
  Conns = {c1}
  Actors = {human, agent}
  Human = human
  Sqls = {net, gross, broken}
  Unbound = {broken}
  Stop = stop
  MaxRows = 3
  MaxLake = 4
  MaxClaims = 0
SPECIFICATION KeepSpec
INVARIANTS
  ViewServes
