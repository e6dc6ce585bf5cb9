\* Two connections that append, or one that also deletes.
CONSTANTS
  Conns = {c1, c2}
  Door = c1
  Reads = {collapsed}
  Judged = {collapsed}
  Views = {spend, plan}
  Relations = {glossary}
  Glossary = glossary
  MaxClock = 3
  FewKeys = {collapsed, spend}
  FewClock = 2
  MaxLake = 1
SPECIFICATION MCSpec
INVARIANTS
  TypeOK
  KeptCurrent
  DoorServesAsked
PROPERTY
  ReadsImplement
