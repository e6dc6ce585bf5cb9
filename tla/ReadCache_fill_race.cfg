\* Two connections, one of which deletes while the other fills.
CONSTANTS
  Conns = {c1, c2}
  Reads = {collapsed}
  Judged = {collapsed}
  Views = {spend}
  Relations = {glossary}
  Glossary = glossary
  MaxClock = 2
  MaxLake = 1
SPECIFICATION Spec
INVARIANTS
  KeptCurrent
