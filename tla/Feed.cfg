SPECIFICATION Spec
CONSTANTS
  Worlds <- MCWorlds
  MaxTx = 5
  PageSize = 2
  Window = 3
  MaxLoads = 5
INVARIANTS
  EndIsTheEnd
  ListIsTrue
PROPERTIES
  UserCategoryStays
CHECK_DEADLOCK FALSE
