SPECIFICATION Spec
CONSTANTS
  Codes <- MCCodes
  Gens = 2
  Cooldown = 1
  EscRest = 1
  StreakLimit = 2
  MaxVisits = 2
  MaxSessions = 2
INVARIANTS
  ReplayFree
PROPERTIES
  ServiceSpec
  ReadInTheEnd
