\* One connection over files that change, or two over one text.
CONSTANTS
  Conns = {c1, c2}
  Door = c1
  Kit = kit
  kpi = kpi
  sales = sales
  sql = sql
  role = role
  unit = unit
  v1 = v1
  v2 = v2
  ext = ext
  orders = orders
  Paths <- MCPaths
  Texts <- MCTexts
  Hash <- MCHash
  Keys = {role, unit}
  AspectKeys = {role}
  Values = {v1, v2}
  Tables = {orders}
  Extensions = {ext}
  None = none
  MaxClock = 6
SPECIFICATION MCSpec
INVARIANTS
  RecordTells
  ExtensionsLoaded
PROPERTIES
  DoorAgainQuiet
