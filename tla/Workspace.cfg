CONSTANTS
  Worlds <- MCWorlds
  MaxRequests = 2
SPECIFICATION FairSpec
INVARIANTS
  ScreenHasItsRevision
  SavedEditsStay
  AppliedAsTold
PROPERTIES
  QueueDrains
CHECK_DEADLOCK FALSE
