\* One connection with bodies of every kind of reads, or two that also delete.
CONSTANTS
  orders = orders
  fx = fx
  drift = drift
  spread = spread
  told = told
  byFile = byFile
  trend = trend
  View = spend
  Glossary = glossary
  Functions = functions
  Landed = measurements
  Star = star
  All = all
  Tables = {orders, fx}
  Dataset = {orders, spend}
  Inputs <- EveryInput
  Bodies = {drift, spread, told, byFile}
  FewBodies = {drift, spread}
  Frail = {spread}
  Conns = {c1, c2}
  Door = c1
  MaxLake = 3
  MaxClock = 3
  FewClock = 2
  MaxLanded = 2
  FewLanded = 1
  SubjectOnView = TRUE
SPECIFICATION MCSpec
INVARIANTS
  DoorStandsCurrent
  CleanCurrent
PROPERTIES
  WriteScoped
