SPECIFICATION Spec
CONSTANTS
  Payloads <- MCPayloads
  Kind <- MCKind
  Size <- MCSize
  MaxFrames = 3
  NumKeys = 2
  kpubA = kpubA
  kpubB = kpubB
  bigTx = bigTx
  desc = desc
PROPERTIES
  KeepsPromise
  ScanEnds
