\* Two landings after the first.
CONSTANTS
  Seeds <- MCSeeds
  Tables <- MCTables
  ColumnTypes = {"integer", "double"}
  Others <- MCOthers
  MaxLandings = 2
SPECIFICATION LineageSpec
CHECK_DEADLOCK FALSE
INVARIANTS
  ShapeFree
  RetypeTells
  EditTells
