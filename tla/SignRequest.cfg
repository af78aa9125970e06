SPECIFICATION Spec
CONSTANTS
  Txs <- MCTxs
  NoTx = NoTx
  Outputs <- MCOutputs
  Inputs <- MCInputs
  Format <- MCFormat
  Covenants <- MCCovenants
  Hidden <- MCHidden
  Extended <- MCExtended
  Capacity = 500
  ksptA = ksptA
  ksptB = ksptB
  ksptHuge = ksptHuge
  pskbA = pskbA
  pskbHidden = pskbHidden
INVARIANTS
  RequestIntact
PROPERTIES
  KeepsPromise
  SigningEnds
