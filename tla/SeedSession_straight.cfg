SPECIFICATION Spec
CONSTANTS
  zeros = zeros
  halfTyped = halfTyped
  twelveA = twelveA
  twelveB = twelveB
  twelveC = twelveC
  noPass = noPass
  somePass = somePass
  xprvA = xprvA
  keyA = keyA
  NSlots = 2
  Halves <- MCHalves
  Twelve <- MCTwelve
  TwentyFour <- MCTwentyFour
  Zero = zeros
  Junk = halfTyped
  Passphrases = {noPass, somePass}
  NoPass = noPass
  XKeys = {xprvA}
  XAccount <- MCXAccount
  RawKeys = {keyA}
  Depth = 2
  RxCached = 1
  ChgCached = 1
  MaxIndex = 1
  Detours = {}
INVARIANTS
  SignsForSelected
  ShowsSelected
  NoTwins
