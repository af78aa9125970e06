SPECIFICATION Spec
CONSTANTS
  main = main
  test = test
  Home = main
  Networks = {main, test}
  Calls = {c1, c2}
  Public <- MCPublic
  Customs <- MCCustoms
  MaxAttempts = 2
  MaxSockets = 2
  MaxSwitches = 1
  Detours = {}
  None = None
INVARIANTS LinkTidy OwnNetwork
PROPERTIES CallsEnd KeepsPromise
CHECK_DEADLOCK FALSE
