---------------------------- MODULE MCCovenants ----------------------------
(***************************************************************************)
(* Instances of CovenantPolicy and CovenantSpend, checked together: a      *)
(* behaviour either offers one transaction to a fresh covenant's script    *)
(* or spends the covenant on the ledger.                                   *)
(***************************************************************************)
EXTENDS CovenantSpend

CONSTANTS
    Amounts,      \* amounts of the outputs that are offered
    PolicyKinds,  \* covenants whose script is compared with its description
    SpendKinds    \* covenants that are spent

Listed == <<"shop", "fund", "owner">>

Described ==
    {covenant_additive_address(g, u) : g \in {0, 3}, u \in {0, 1}} \cup
    {covenant_timelocked_savings(1), covenant_timelocked_escrow(1), covenant_atomic_swap(1), covenant_oracle(1),
     covenant_escrow, covenant_dms(1), covenant_payjoin(1, 2, 2), covenant_global_spending_limit(2, 1),
     covenant_ship_escrow(2, 2, 1, 2), covenant_ship_escrow(3, 2, 0, 1), covenant_merkle_whitelist(Listed, 1),
     covenant_commit_reveal(1), covenant_crowdfund(1), covenant_tagged_vault, covenant_split_vault} \cup
    {covenant_treasury(SubSeq(Listed, 1, n)) : n \in 1..3} \cup
    {covenant_global_allowance(4, 1, u) : u \in {0, 1}} \cup
    {covenant_allowance(2, w, u) : u \in {0, 1}, w \in {0, 1}}

Piggy   == {covenant_additive_address(g, u) : g \in {0, 5}, u \in {0, 2}}
Escrows == {covenant_escrow, covenant_timelocked_escrow(1), covenant_ship_escrow(4, 1, 1, 2)}
Safes   == {covenant_timelocked_savings(1), covenant_dms(1), covenant_treasury(Listed),
            covenant_merkle_whitelist(Listed, 1), covenant_tagged_vault, covenant_split_vault}
Deals   == {covenant_atomic_swap(1), covenant_oracle(1), covenant_payjoin(1, 2, 2),
            covenant_commit_reveal(1), covenant_crowdfund(1)}
ThreadKinds ==
    {covenant_global_spending_limit(3, 1)} \cup {covenant_global_allowance(3, 1, u) : u \in {0, 1}}
Spent == ThreadKinds \cup Piggy \cup Escrows \cup Safes \cup Deals
EveryKind == Described \cup Spent

VARIABLE offer

Policy == INSTANCE CovenantPolicy WITH Held <- 4

(* A covenant's redeem script opens for a party exactly when the           *)
(* covenant's description permits that party to spend.                     *)
ScriptIsPolicy == Policy!ScriptIsPolicy

Ledger == <<coins, clock, minted, drafts>>
Fresh == kind \in PolicyKinds /\ clock = 0 /\ minted = 1 /\ drafts = {} /\ coins = Opened(kind)
Steps == kind \in SpendKinds /\ offer = Policy!Nothing /\ UNCHANGED offer

Offered == Fresh /\ Policy!Offer /\ UNCHANGED Ledger

MCInit == Init /\ offer = Policy!Nothing
MCNext ==
    \/ Offered
    \/ Steps /\ OwnerSweeps
    \/ Steps /\ OwnerTimedSweep
    \/ Steps /\ BreakPiggy
    \/ Steps /\ AddToPiggy
    \/ Steps /\ HeirClaims
    \/ Steps /\ SellerRefunds
    \/ Steps /\ TimesOut
    \/ Steps /\ SaverClaims
    \/ Steps /\ ClaimsWithPreimage
    \/ Steps /\ ClaimsWithOracle
    \/ Steps /\ OracleSpeaks
    \/ Steps /\ JoinsPayment
    \/ Steps /\ EscrowMoves
    \/ Steps /\ OrganizerSweeps
    \/ Steps /\ PaysListed
    \/ Steps /\ Reveals
    \/ Steps /\ ParcelMoves
    \/ Steps /\ OpensVault
    \/ Steps /\ OpensSplitVault
    \/ Steps /\ CarriesVault
    \/ Steps /\ SplitsVault
    \/ Steps /\ DrawsFromThread
    \/ Steps /\ TopsUpThread
    \/ Steps /\ Broadcast
    \/ Steps /\ Deposit
    \/ Steps /\ Tick
    \/ Steps /\ FreeSpend
MCSpec == MCInit /\ [][MCNext]_<<vars, offer>>
=============================================================================
