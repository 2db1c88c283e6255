\* Five tables, each to its end.
CONSTANTS
  Tables <- MCTables
  MaxWire = 2
SPECIFICATION Spec
INVARIANT TableSettles
PROPERTIES PlayedOverShown OverComesLast TurnPlayable
CHECK_DEADLOCK FALSE
