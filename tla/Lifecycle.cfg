CONSTANTS
  Worlds <- MCWorlds
  Workers = {1, 2}
  MaxMembers = 3
  MaxSessions = 2
  MaxTokens = 2
  MaxAttempts = 2
SPECIFICATION FairSpec
INVARIANTS
  DepartureIsClean
PROPERTIES
  AttemptsAgree
  DeparturesEnd
CHECK_DEADLOCK FALSE
