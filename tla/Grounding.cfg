\* One connection, every gloss to its end, or two that delete and are cut off.
CONSTANTS
  Conns = {c1, c2}
  Door = c1
  Actors = {human, agent}
  Human = human
  Sqls = {net, gross, broken}
  Unbound = {broken}
  Stop = stop
  MaxRows = 4
  MaxLake = 5
  MaxClaims = 2
  FewActors = {human}
  FewRows = 2
  FewLake = 3
  FewClaims = 1
SPECIFICATION MCSpec
INVARIANTS
  DoorViewServes
  ClaimsTell
PROPERTIES
  DoorTakesEffect
  DoorClaimsStand
  StaleStays
