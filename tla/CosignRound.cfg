CONSTANTS
  A = A
  B = B
  C = C
  Devices = {A, B, C}
  Odd = {A}
  Names = {"t1", "t2"}
  Paths = {"p", "q"}
  Plans <- MCPlans
  M = 2
  MaxSigs = 5
  None = None
  Detours = {}
SPECIFICATION Spec
INVARIANTS ReadyIsAccepted CountedApproved NextSignerHelps
PROPERTY KeepsPromise
CHECK_DEADLOCK FALSE
