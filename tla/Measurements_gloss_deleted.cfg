\* A gloss deleted under a measurement over the glossary.
CONSTANTS
  orders = orders
  fx = fx
  drift = drift
  spread = spread
  told = told
  byFile = byFile
  trend = trend
  View = spend
  Glossary = glossary
  Functions = functions
  Landed = measurements
  Star = star
  All = all
  Tables = {orders, fx}
  Dataset = {orders, spend}
  Inputs <- ToldInputs
  Bodies = {told}
  Conns = {c1}
  MaxLake = 1
  MaxClock = 3
  MaxLanded = 1
  SubjectOnView = TRUE
SPECIFICATION Spec
INVARIANTS
  StandsCurrent
