CONSTANTS
  Worlds <- MCWorlds
  Recent = 3
  Warm = 2
  Window = 6
  Fresh = 2
  MaxVersion = 4
SPECIFICATION Spec
INVARIANTS
  CyclesFollowLedger
  CashIsExplained
PROPERTIES
  OpenedIsCurrent
CHECK_DEADLOCK FALSE
