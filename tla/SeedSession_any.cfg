SPECIFICATION Spec
CONSTANTS
  zeros = zeros
  halfTyped = halfTyped
  twelveA = twelveA
  twelveB = twelveB
  twelveC = twelveC
  noPass = noPass
  somePass = somePass
  xprvA = xprvA
  keyA = keyA
  NSlots = 2
  Halves <- MCHalves
  Twelve <- MCTwelve
  TwentyFour <- MCNone
  Zero = zeros
  Junk = halfTyped
  Passphrases = {noPass}
  NoPass = noPass
  XKeys = {xprvA}
  XAccount <- MCXAccount
  RawKeys = {keyA}
  Depth = 1
  RxCached = 1
  ChgCached = 1
  MaxIndex = 0
  Detours = {"LeaveEntry", "FullDevice", "SdKeyImport", "TailLeft"}
INVARIANTS
  NoWalletNothingDerived
PROPERTIES
  BanksGrowFromAccount
