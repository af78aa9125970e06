SPECIFICATION MCSpec
CONSTANTS
  LastCluster = 8
  PerSector = 2
  PerPage = 2
  Saved = {A}
  TestName = Test_txt
  Photo = Photo
  Sizes = {1, 3}
  MaxSize = 3
  MaxCalls = 3
  Absent = Absent
  Damaged = Damaged
  Unknown = Unknown
  ByteCard = ByteCard
  BlockCard = BlockCard
  MaxSessions = 3
  MaxSwaps = 2
  Detours = {}
  Cards = {ByteCard, BlockCard}
  ByteCards = {ByteCard}
  SizeOf <- Capacities
  Blocks = {1, 2}
  Spans = {{1}, {1, 2}}
  None = None
INVARIANTS TableSound DirectoryTrue SessionTrue
PROPERTIES KeepsPromise EveryCallEnds
CHECK_DEADLOCK FALSE
