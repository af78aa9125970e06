SPECIFICATION MCSpec
CONSTANTS
    Kinds <- EveryKind
    PolicyKinds <- Described
    SpendKinds <- Spent
    Amounts = {1, 2, 4}
    Funding = 5
    Deposits = {1, 4}
    Draws = {2, 3}
    Fee = 1
    MaxInputs = 3
    MaxDrafts = 1
    MaxMinted = 3
    MaxDaa = 2
INVARIANTS SpendsAccepted ScriptIsPolicy
PROPERTY ThreadKept
CHECK_DEADLOCK FALSE
