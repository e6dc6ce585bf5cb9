\* Any edit is told: a condition's operator is edited, or a window's frame.
CONSTANTS
  Seeds <- MCSeeds
  Tables <- MCTables
  ColumnTypes = {"integer"}
  Others <- MCOthers
  MaxLandings = 2
SPECIFICATION LineageSpec
CHECK_DEADLOCK FALSE
INVARIANT
  EveryEditMoves
