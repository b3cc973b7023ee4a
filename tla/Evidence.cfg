CONSTANTS
  Source <- MCSource
  Kind <- MCKind
  Evidence <- MCEvidence
  About <- MCAbout
  Successor <- MCSuccessor
  FirstRule <- MCFirstRule
  Worlds <- MCWorlds
  Today = 10
  Period = 60
  NearDays = 3
  WindowDays = 7
  MaxRows = 3
  MaxVersion = 4
SPECIFICATION Spec
INVARIANTS
  VerifiedIsPaid
  ConsequencesStand
PROPERTIES
  RefusalStands
CHECK_DEADLOCK FALSE
