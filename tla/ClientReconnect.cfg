\* A page connected again while a claim is answered, or while the game ends: the
\* same tables violate ClaimRestored and OverShown, each checked on its own.
CONSTANTS
  Tables <- ReconnectTables
  MaxWire = 2
SPECIFICATION Spec
PROPERTY ClaimRestored
\* PROPERTY OverShown
CHECK_DEADLOCK FALSE
