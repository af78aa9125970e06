SPECIFICATION MCSpec
CONSTANTS
  None = None
  MaxInputs = 2
  MaxOutputs = 2
  Wallets = {"a", "b"}
  Given = 2
  MaxDerived = 3
  Coins <- MCCoins
  Amounts = {3, 25, 40}
  Early <- MCEarly
  Fee = 1
  Dust = 4
  MassC = 40
  MaxTicked = 2
  MaxMoves = 2
  MaxCalls = 2
  Docs <- MCDocs
  Themes = {"coins", "documents", "covenants"}
  Detours = {}
INVARIANTS
  OwnShown
  AsAsked
  SentIsMade
  RestoredWhole
  RecordsTrue
  AnnouncedTrue
PROPERTY
  FreshChange
