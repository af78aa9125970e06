--------------------------- MODULE CovenantSpend ---------------------------
(***************************************************************************)
(* KasSee and a covenant (covenant_api.rs, kspt.rs, pskt.rs; the pages'    *)
(* handlers in web/js/app.js): the parties read the ledger, build spends   *)
(* of the covenant's coins as bundles, have them signed on their devices   *)
(* and broadcast them, while deposits arrive, time passes and the others   *)
(* do the same.  The ledger and the node are external.                     *)
(*                                                                         *)
(* A coin is [id, lock, amount, tag, born]; lock "cov" is the covenant's   *)
(* address, any other lock the address of that party.  What is paid to     *)
(* other addresses leaves the ledger.  A draft is a bundle: its inputs     *)
(* [coin, seq, minTime, minSigs], outputs, the signer and the hints the    *)
(* finalizer reads.  All parties are honest with KasSee; the holder of a   *)
(* thread's key may also make any spend at all (FreeSpend).                *)
(***************************************************************************)
EXTENDS CovenantScripts, FiniteSetsExt

CONSTANTS
    Kinds,        \* covenants to be studied, see CovenantScripts
    Funding,      \* amount of the first coin at the covenant
    Deposits,     \* amounts of later deposits
    Draws,        \* amounts asked for in a withdrawal
    Fee,          \* fee of a transaction
    MaxInputs,    \* KASSIGNER_MAX_INPUTS
    MaxDrafts,    \* bound: drafts kept at the same time
    MaxMinted,    \* bound: coins ever made
    MaxDaa        \* bound: the clock (DAA score)

ASSUME FeeAssumption == Fee \in Nat \ {0} /\ MaxInputs \in Nat \ {0, 1}

VARIABLES kind, coins, clock, minted, drafts
vars == <<kind, coins, clock, minted, drafts>>

Global == {"limit", "gallow"}
Vaults == {"tvault", "svault"}
S == Script(kind)
(* The entries of the node's reply about an address: outpoint, amount, the *)
(* thread's id when there is one, and the score of the block.              *)
Entries(address) == {c \in coins : c.lock = address}
AtCov == Entries("cov")
Own(p) == Entries(p)
Threads == {c \in AtCov : c.tag = "G"}
Total(cs) == MapThenSumSet(LAMBDA c : c.amount, cs)
ByAmount(cs) == SetToSortSeq(cs, LAMBDA a, b : a.amount > b.amount \/ (a.amount = b.amount /\ a.id < b.id))
First(s, n) == SubSeq(s, 1, IF Len(s) < n THEN Len(s) ELSE n)
(* The coins a sweep takes: all, or the MaxInputs largest.                 *)
Swept == First(ByAmount(AtCov), MaxInputs)
Out(lock, amount) == [lock |-> lock, amount |-> amount, tag |-> "none"]
ThreadOut(amount) == [lock |-> "cov", amount |-> amount, tag |-> "G"]
(* What is left over goes on to the address, if anything is.               *)
Rest(lock, amount) == IF amount > 0 THEN <<Out(lock, amount)>> ELSE <<>>
Spending(cs, seq, minTime, minSigs) ==
    [i \in DOMAIN cs |-> [coin |-> cs[i], seq |-> seq, minTime |-> minTime, minSigs |-> minSigs]]
Sum(ins) == Total({ins[i].coin : i \in DOMAIN ins})
Paying(outs) == MapThenSumSet(LAMBDA j : outs[j].amount, DOMAIN outs)

(***************************************************************************)
(* A bundle as a builder leaves it, with the party whose device signs it.  *)
(***************************************************************************)
Draft(op, signer, branch, ins, outs) ==
    [op |-> op, signer |-> signer, branch |-> branch, escrow |-> "none", ship |-> "none", proofs |-> {},
     ins |-> ins, outs |-> outs]
(* A sweep of coins at the covenant to one address, refused when they do   *)
(* not cover the fee.                                                      *)
SweepTo(op, signer, branch, cs, seq, minTime, minSigs, dest) ==
    LET ins == Spending(cs, seq, minTime, minSigs)
    IN IF cs = <<>> THEN {}
       ELSE IF Sum(ins) <= Fee THEN {}
       ELSE {Draft(op, signer, branch, ins, <<Out(dest, Sum(ins) - Fee)>>)}

OwnerSpend(cs, dest, branch) ==
    SweepTo("owner_spend", "owner", branch, cs, 0,
            IF branch = "owner-time" THEN CltvOf(S) ELSE 0, 1, dest)
BeneficiarySpend(cs, dest) ==
    SweepTo("beneficiary_spend", "bene", "beneficiary", cs, CsvOf(S),
            IF CsvOf(S) > 0 THEN 0 ELSE kind.until, 1, dest)
SavingsClaim(cs, who) ==
    SweepTo("savings_claim", who, "savings", cs, 0, kind.until, 1, who)
TimeoutRefund == SweepTo("timeout_refund", "none", "none", ByAmount(AtCov), 0, kind.until, 0, "owner")
AtomicClaim ==
    {[d EXCEPT !.proofs = {Preimage}] :
        d \in SweepTo("atomic_claim", "bene", "beneficiary", Swept, 0, 0, 1, "bene")}
OracleClaim ==
    {[d EXCEPT !.proofs = {Attested, Statement}] :
        d \in SweepTo("oracle_claim", "bene", "beneficiary", Swept, 0, 0, 1, "bene")}
OracleHeartbeat == SweepTo("oracle_heartbeat", "oracle", "oracle-heartbeat", ByAmount(AtCov), 0, 0, 1, "cov")
EscrowSpend(who, branch, dest) ==
    {[d EXCEPT !.escrow = branch] : d \in SweepTo("escrow_spend", who, "none", ByAmount(AtCov), 0, 0, 1, dest)}

(* The sweep of a crowdfund comes with its witness: nobody signs it.       *)
CrowdfundSweep == SweepTo("crowdfund_sweep", "none", "none", ByAmount(AtCov), 0, 0, 0, "bene")
(* To an address of the whitelist, with its proof, from the largest coins; *)
(* the rest goes back.                                                     *)
MaxMerkleInputs == 4
MerkleSpend(dest, send) ==
    LET ins == Spending(First(ByAmount(AtCov), MaxMerkleInputs), 0, 0, 1)
        change == Sum(ins) - send - Fee
    IN IF AtCov = {} \/ send = 0 \/ change < 0 THEN {}
       ELSE {[Draft("merkle_spend", "owner", "beneficiary", ins,
                    <<Out(dest, send)>> \o Rest("cov", change))
                EXCEPT !.proofs = {<<"path", path, dest>>}] : path \in merkle_proof_for_address(kind.dests, dest)}
CommitRevealSpend ==
    {[d EXCEPT !.proofs = Parts] :
        d \in SweepTo("commit_spend", "owner", "beneficiary", ByAmount(AtCov), 0, 0, 1, "owner")}

(* A step of a parcel spends the coin whose amount is that of its state.   *)
ShipSigner == ("pickup" :> "carrier") @@ ("delivery" :> "owner") @@ ("state0-timeout" :> "none") @@
              ("state1-timeout" :> "none") @@ ("state0-arb-refund" :> "arbiter") @@
              ("state1-arb-award" :> "arbiter") @@ ("state1-arb-refund" :> "arbiter")
ShipSpend(branch) ==
    LET first == branch \in {"pickup", "state0-arb-refund", "state0-timeout"}
        held == IF first THEN ShipTotal(kind) ELSE ShipRest(kind)
        sigs == IF ShipSigner[branch] = "none" THEN 0 ELSE 1
        time == CASE branch = "state0-timeout" -> kind.until
                  [] branch = "state1-timeout" -> kind.late
                  [] OTHER -> 0
        outs == CASE branch = "pickup" ->
                       <<Out("cov", ShipRest(kind)), Out("bene", held - ShipRest(kind) - Fee)>>
                  [] branch \in {"delivery", "state1-arb-award", "state1-timeout"} ->
                       <<Out("bene", held - kind.goal - Fee), Out("carrier", kind.goal)>>
                  [] branch \in {"state0-arb-refund", "state0-timeout", "state1-arb-refund"} ->
                       <<Out("owner", held - Fee)>>
    IN IF \E j \in DOMAIN outs : outs[j].amount <= 0 THEN {}
       ELSE {[Draft("ship_spend", ShipSigner[branch], "none", Spending(<<c>>, 0, time, sigs), outs)
                EXCEPT !.ship = branch] : c \in {x \in AtCov : x.amount = held}}

(* A vault is opened from the page's own key, whose coins give it its id,  *)
(* and spent as a whole: carried on, or split in two.                      *)
VaultGenesis(send) ==
    LET ins == Spending(ByAmount(Own("owner")), 0, 0, 1)
        change == Sum(ins) - send - Fee
    IN IF Own("owner") = {} \/ change < 0 THEN {}
       ELSE {Draft("vault_genesis", "owner", "none", ins,
                   <<ThreadOut(send)>> \o Rest("owner", change))}
Halves(n, parts) == IF parts = 1 THEN <<n>> ELSE <<n \div 2, n - n \div 2>>
VaultSpend(op, parts) ==
    LET ins == Spending(ByAmount(AtCov), 0, 0, 1)
        rest == Sum(ins) - Fee
        shares == Halves(rest, parts)
    IN IF AtCov = {} \/ rest <= 0 THEN {}
       ELSE {Draft(op, "owner", "none", ins, [j \in 1..parts |-> ThreadOut(shares[j])])}
TaggedVaultSpend == VaultSpend("vault_spend", 1)
SplitVaultSpend  == VaultSpend("vault_split", 2)

(* The mixing coin goes last.                                              *)
MutPayjoinClaim ==
    LET cs == First(Swept, MaxInputs - 1)
        own == CHOOSE c \in Own("bene") : \A e \in Own("bene") : c.amount <= e.amount
        covFee == (Fee * 3) \div 4
        change == own.amount - (Fee - covFee)
        ins == Spending(Append(cs, own), 0, 0, 1)
        send == Total(Range(cs)) - covFee
    IN IF cs = <<>> \/ Own("bene") = {} THEN {}
       ELSE IF send <= 0 \/ Sum(ins) <= Fee THEN {}
       ELSE {Draft("payjoin_claim", "bene", "beneficiary", ins,
                   <<Out("bene", send)>> \o Rest("bene", change))}
(* The mixing coin goes second, so that inputs 0 and 1 differ however many *)
(* coins the covenant holds.                                               *)
MixSecond(cs, own) == <<Head(cs), own>> \o Tail(cs)
PayjoinClaim ==
    LET cs == First(Swept, MaxInputs - 1)
        own == CHOOSE c \in Own("bene") : \A e \in Own("bene") : c.amount <= e.amount
        covFee == (Fee * 3) \div 4
        change == own.amount - (Fee - covFee)
        ins == Spending(MixSecond(cs, own), 0, 0, 1)
        send == Total(Range(cs)) - covFee
    IN IF cs = <<>> \/ Own("bene") = {} THEN {}
       ELSE IF send <= 0 \/ Sum(ins) <= Fee THEN {}
       ELSE {Draft("payjoin_claim", "bene", "beneficiary", ins,
                   <<Out("bene", send)>> \o Rest("bene", change))}

(* A global covenant is spent one thread at a time.  Withdrawing all of it *)
(* closes it: no output carries the thread on.                             *)
ThreadWithdraw(op, who, branch, t, ask, minTime) ==
    LET close == t.amount <= ask
        ins == Spending(<<t>>, CsvOf(S), minTime, 1)
    IN IF t.amount <= Fee \/ ask <= Fee THEN {}
       ELSE {Draft(op, who, branch, ins,
                   IF close THEN <<Out(who, t.amount - Fee)>>
                   ELSE <<ThreadOut(t.amount - ask), Out(who, ask - Fee)>>)}
GlobalLimitWithdraw(t, ask) == ThreadWithdraw("limit_withdraw", "owner", "none", t, ask, 0)
GlobalAllowanceWithdraw(t, ask) ==
    ThreadWithdraw("gallow_withdraw", "bene", "beneficiary", t, ask, CltvOf(S))
ThreadTopUp(op, branch, t, chosen, seq) ==
    LET ins == Spending(<<t>>, seq, 0, 1) \o Spending(chosen, 0, 0, 1)
        added == Total(Range(chosen))
    IN IF chosen = <<>> THEN {}
       ELSE IF added <= Fee THEN {}
       ELSE {Draft(op, "owner", branch, ins, <<ThreadOut(t.amount + added - Fee)>>)}
GlobalLimitTopUp(t, chosen) == ThreadTopUp("limit_topup", "none", t, chosen, CsvOf(S))
GlobalAllowanceTopUp(t, chosen) == ThreadTopUp("gallow_topup", "owner", t, chosen, 0)

(* Adding to a piggy bank: its largest coin and own coins that cover the   *)
(* amount and the fee, in the order the node lists them (here, by amount). *)
BorrowerSpend(add) ==
    LET largest == ByAmount(AtCov)[1]
        own == ByAmount(Own("owner"))
        enough == {n \in 0..Len(own) : Total(Range(SubSeq(own, 1, n))) >= add + Fee}
        used == SubSeq(own, 1, CHOOSE n \in enough : \A m \in enough : n <= m)
        ins == Spending(<<largest>>, CsvOf(S), 0, 0) \o Spending(used, 0, 0, 1)
        change == Total(Range(used)) - add - Fee
    IN IF AtCov = {} \/ enough = {} THEN {}
       ELSE IF Len(used) > MaxInputs - 1 THEN {}
       ELSE {Draft("borrower_spend", "owner", "none", ins,
                   <<Out("cov", largest.amount + add)>>
                     \o Rest("owner", change))}

(***************************************************************************)
(* From a draft to the transaction it becomes: the lock time is the latest *)
(* that an input asks for, and the finalizer finds each witness.           *)
(***************************************************************************)
LockTime(d) == Max({d.ins[i].minTime : i \in DOMAIN d.ins})
Tx(d) == [ins |-> d.ins, outs |-> d.outs, time |-> LockTime(d)]
Hints(d, i) == [signer |-> IF d.ins[i].minSigs = 0 THEN "none" ELSE d.signer, minSigs |-> d.ins[i].minSigs,
                branch |-> d.branch, escrow |-> d.escrow, ship |-> d.ship, time |-> LockTime(d), proofs |-> d.proofs]
Witnesses(d) == [i \in DOMAIN d.ins |->
                   CASE d.ins[i].coin.lock # "cov" -> WalletWitness(Hints(d, i))
                     [] d.ins[i].coin.lock = "cov" /\ d.op = "crowdfund_sweep" -> CrowdfundWitness
                     [] OTHER -> Witness(S, Hints(d, i))]

(***************************************************************************)
(* The ledger (external): what it takes from a transaction.                *)
(***************************************************************************)
Inputs(tx) == {tx.ins[i].coin : i \in DOMAIN tx.ins}
Final(tx) == tx.time <= clock /\ \A i \in DOMAIN tx.ins : tx.ins[i].coin.born + tx.ins[i].seq <= clock
(* An id is carried on, or made of the coin that opens a vault.            *)
Opening == -1
Carriable(tx) == {"none"} \cup {c.tag : c \in Inputs(tx)} \cup
                 (IF kind.type \in Vaults /\ Opening \in {c.id : c \in Inputs(tx)} THEN {"G"} ELSE {})
Balanced(tx) ==
    /\ \A j \in DOMAIN tx.outs : tx.outs[j].amount > 0
    /\ Paying(tx.outs) <= Sum(tx.ins)
    /\ \A j \in DOMAIN tx.outs : tx.outs[j].tag \in Carriable(tx)
Unlocked(tx, w) ==
    \A i \in DOMAIN tx.ins :
        IF tx.ins[i].coin.lock = "cov" THEN ScriptAccepts(S, w[i], tx, i)
        ELSE w[i] = <<Sig(tx.ins[i].coin.lock)>>
Unspent(tx) == Inputs(tx) \subseteq coins
Takes(tx, w) == Unspent(tx) /\ Final(tx) /\ Balanced(tx) /\ Unlocked(tx, w)
Settle(tx) ==
    LET made == {j \in DOMAIN tx.outs : tx.outs[j].lock = "cov"}
        id(j) == minted + Cardinality({l \in made : l <= j})
    IN /\ minted + Cardinality(made) <= MaxMinted
       /\ minted' = minted + Cardinality(made)
       /\ coins' = (coins \ Inputs(tx)) \cup
                     {[id |-> id(j), lock |-> "cov", amount |-> tx.outs[j].amount,
                       tag |-> tx.outs[j].tag, born |-> clock] : j \in made}

(***************************************************************************)
(* The pages: which builder a covenant's buttons reach, and what they      *)
(* check first.                                                            *)
(***************************************************************************)
Keep(ds) == /\ Cardinality(drafts) < MaxDrafts
            /\ \E d \in ds : drafts' = drafts \cup {d}
            /\ UNCHANGED <<kind, coins, clock, minted>>
Chosen == {ByAmount(cs) : cs \in {s \in SUBSET AtCov : s # {} /\ Cardinality(s) <= MaxInputs}}

(* Paid out by the owner: the sweep branch for most covenants, the timed   *)
(* one where the owner has only that and it has come.                      *)
OwnerDest == CASE kind.type = "tescrow" -> {"bene"}
               [] kind.type = "treasury" -> Range(kind.dests)
               [] kind.type = "dms" -> {"owner", "cov"}
               [] OTHER -> {"owner"}
OwnerSweeps ==
    /\ kind.type \in {"tescrow", "dms", "gallow", "treasury", "swap", "crowdfund"}
    /\ \E dest \in OwnerDest : Keep(OwnerSpend(Swept, dest, "none"))
OwnerTimedSweep ==
    /\ kind.type \in {"oracle", "payjoin", "merkle", "commit"} /\ clock >= kind.until
    /\ Keep(OwnerSpend(Swept, "owner", "owner-time"))
(* Breaking a piggy bank: the chosen coins reach the goal, or else the     *)
(* deadline has passed, or there is neither.                               *)
BreakPiggy ==
    /\ kind.type = "piggy"
    /\ \E cs \in Chosen :
         LET goal == kind.goal > 0 /\ Total(Range(cs)) - Fee >= kind.goal
             free == kind.goal = 0 /\ kind.until = 0
             passed == kind.until > 0 /\ clock >= kind.until
         IN /\ goal \/ free \/ passed
            /\ Keep(OwnerSpend(cs, "owner", IF goal \/ free THEN "none" ELSE "owner-time"))
AddToPiggy == kind.type = "piggy" /\ \E add \in Deposits : Keep(BorrowerSpend(add))
HeirClaims ==
    /\ kind.type = "dms"
    /\ \E c \in AtCov : clock >= c.born + kind.wait
    /\ \E cs \in Chosen : Keep(BeneficiarySpend(cs, "bene"))
SellerRefunds == kind.type = "tescrow" /\ Keep(BeneficiarySpend(Swept, "owner"))
TimesOut == kind.type = "tescrow" /\ Keep(TimeoutRefund)
SaverClaims ==
    /\ kind.type = "savings" /\ clock >= kind.until
    /\ \E cs \in Chosen, who \in {"owner", "bene"} : Keep(SavingsClaim(cs, who))
ClaimsWithPreimage == kind.type = "swap" /\ Keep(AtomicClaim)
ClaimsWithOracle == kind.type = "oracle" /\ Keep(OracleClaim)
OracleSpeaks == kind.type = "oracle" /\ Keep(OracleHeartbeat)
JoinsPayment == kind.type = "payjoin" /\ Keep(PayjoinClaim)
EscrowMoves ==
    kind.type = "escrow" /\
    \E m \in {<<"owner", "buyer-release", "bene">>, <<"bene", "seller-refund", "owner">>,
              <<"arbiter", "arbiter-award-seller", "bene">>, <<"arbiter", "arbiter-refund-buyer", "owner">>,
              <<"owner", "buyer-dispute", "cov">>, <<"bene", "seller-dispute", "cov">>} :
        Keep(EscrowSpend(m[1], m[2], m[3]))
OrganizerSweeps == kind.type = "crowdfund" /\ Keep(CrowdfundSweep)
PaysListed == kind.type = "merkle" /\ \E dest \in Range(kind.dests), send \in Draws : Keep(MerkleSpend(dest, send))
Reveals == kind.type = "commit" /\ Keep(CommitRevealSpend)
ParcelMoves == kind.type = "ship" /\ \E branch \in DOMAIN ShipSigner : Keep(ShipSpend(branch))
OpensVault == kind.type = "tvault" /\ Keep(VaultGenesis(Funding))
OpensSplitVault == kind.type = "svault" /\ Keep(VaultGenesis(Funding))
CarriesVault == kind.type = "tvault" /\ Threads # {} /\ Keep(TaggedVaultSpend)
(* The split follows its opening at once.                                  *)
SplitsVault == kind.type = "svault" /\ Cardinality(Threads) = 1 /\ Keep(SplitVaultSpend)
(* The thread is the coin with the covenant's id, whatever else was sent   *)
(* to the address; a spend within the cap, once it has rested.             *)
Rested(t) == clock >= t.born + kind.wait
WithinCap(t, ask) == ask <= t.amount /\ ask <= kind.max
DrawsFromThread ==
    \E t \in Threads, ask \in Draws :
        /\ Rested(t) /\ WithinCap(t, ask)
        /\ \/ kind.type = "limit" /\ Keep(GlobalLimitWithdraw(t, ask))
           \/ kind.type = "gallow" /\ clock >= kind.until /\ Keep(GlobalAllowanceWithdraw(t, ask))
TopsUpThread ==
    \E t \in Threads, cs \in {ByAmount(s) : s \in SUBSET Own("owner")} :
        \/ kind.type = "limit" /\ Keep(GlobalLimitTopUp(t, First(cs, MaxInputs - 1)))
        \/ kind.type = "gallow" /\ Keep(GlobalAllowanceTopUp(t, First(cs, MaxInputs - 1)))

(***************************************************************************)
(* finalize_and_broadcast: taken by the node, or refused and dropped.      *)
(***************************************************************************)
SubmitConsensusTx(tx, w) == IF Takes(tx, w) THEN Settle(tx) ELSE UNCHANGED <<coins, minted>>
Broadcast ==
    \E d \in drafts :
        /\ drafts' = drafts \ {d}
        /\ SubmitConsensusTx(Tx(d), Witnesses(d))
        /\ UNCHANGED <<kind, clock>>

(* Anybody may send coins to the covenant's address.                       *)
Deposit ==
    /\ minted < MaxMinted /\ minted' = minted + 1
    /\ \E a \in Deposits :
         coins' = coins \cup {[id |-> minted + 1, lock |-> "cov", amount |-> a, tag |-> "none", born |-> clock]}
    /\ UNCHANGED <<kind, clock, drafts>>
Tick == clock < MaxDaa /\ clock' = clock + 1 /\ UNCHANGED <<kind, coins, minted, drafts>>

(* A holder of a key of a global covenant spends as he pleases: any of the *)
(* coins, split in any of these ways, carried on or not, any of the        *)
(* witnesses his key can make.  He claims all the time that has passed:    *)
(* a script asks for no less.  The owner of an allowance, who may take     *)
(* all of it, does not split it into two threads.                          *)
FreeAmounts(cs) ==
    LET held == Total({c \in cs : c.tag = "G"})
    IN (1..Total(cs)) \cap {1, kind.max, kind.max + 1, held - kind.max - 1, held - kind.max, Total(cs)}
FreeOuts(cs) ==
    LET one == {[lock |-> l, amount |-> a, tag |-> g] :
                  l \in {"cov", "other"}, a \in FreeAmounts(cs), g \in {"none", "G"}}
    IN {<<o>> : o \in one} \cup
       {<<o, [lock |-> "cov", amount |-> Total(cs) - o.amount, tag |-> g]>> :
           o \in {x \in one : x.amount < Total(cs)}, g \in {"none", "G"}}
FreeShapes(p) == {<<Sig(p)>>, <<Sig(p), Bool(p = "owner")>>}
KeyHolders == IF kind.type = "limit" THEN {"owner"} ELSE {"owner", "bene"}
FreeSpend ==
    /\ kind.type \in Global
    /\ \E p \in KeyHolders, cs \in {s \in SUBSET AtCov : s # {}} :
         LET ins == [i \in 1..Cardinality(cs) |->
                       LET c == ByAmount(cs)[i]
                       IN [coin |-> c, seq |-> IF Rested(c) THEN kind.wait ELSE 0]]
             tx(outs) == [ins |-> ins, outs |-> outs, time |-> IF clock >= kind.until THEN kind.until ELSE 0]
         IN \E outs \in FreeOuts(cs), w \in FreeShapes(p) :
              /\ kind.type = "gallow" /\ p = "owner" => Cardinality(TaggedOuts(tx(outs), "G")) <= 1
              /\ Balanced(tx(outs)) /\ Settle(tx(outs))
              /\ Takes(tx(outs), [i \in DOMAIN ins |-> w])
    /\ UNCHANGED <<kind, clock, drafts>>

(* A vault is still to be opened.                                          *)
Opened(k) ==
    LET coin(id, lock, amount, tag) == [id |-> id, lock |-> lock, amount |-> amount, tag |-> tag, born |-> 0]
        vault == k.type \in Vaults
    IN (IF vault THEN {} ELSE {coin(1, "cov", Funding, IF k.type \in Global THEN "G" ELSE "none")}) \cup
       {coin(Opening, "owner", IF vault THEN Fee + Funding + 1 ELSE Fee + 2, "none"), coin(-2, "bene", Fee + 1, "none")}
Init ==
    /\ kind \in Kinds
    /\ clock = 0 /\ minted = 1 /\ drafts = {}
    /\ coins = Opened(kind)
Build == \/ OwnerSweeps \/ OwnerTimedSweep \/ BreakPiggy \/ AddToPiggy \/ HeirClaims \/ SellerRefunds
         \/ TimesOut \/ SaverClaims \/ ClaimsWithPreimage \/ ClaimsWithOracle \/ OracleSpeaks \/ JoinsPayment
         \/ EscrowMoves \/ OrganizerSweeps \/ PaysListed \/ Reveals \/ ParcelMoves
         \/ OpensVault \/ OpensSplitVault \/ CarriesVault \/ SplitsVault \/ DrawsFromThread \/ TopsUpThread
Next == Build \/ Broadcast \/ Deposit \/ Tick \/ FreeSpend
Spec == Init /\ [][Next]_vars

(***************************************************************************)
(* Properties.                                                             *)
(***************************************************************************)
(* A spend that KasSee built is taken by the node: as long as its coins    *)
(* are there and its times have come, the witness the finalizer makes of   *)
(* the script's bytes and the bundle's hints opens every input, and the    *)
(* amounts add up, the fee being all that is lost.  Left out are the       *)
(* refunds of RefundsAccepted, and a vault's spend that takes a deposit    *)
(* along: a coin without the vault's id closes its script.                 *)
Refund(d) == d.op = "timeout_refund" \/ (kind.type \in {"swap", "crowdfund"} /\ d.op = "owner_spend")
Mixed(d) == kind.type \in Vaults /\ \E i \in DOMAIN d.ins : d.ins[i].coin.lock = "cov" /\ d.ins[i].coin.tag = "none"
SpendsAccepted ==
    \A d \in drafts :
      /\ Sum(d.ins) - Paying(d.outs) = Fee
      /\ Unspent(Tx(d)) /\ Final(Tx(d)) /\ ~Refund(d) /\ ~Mixed(d)
            => Balanced(Tx(d)) /\ Unlocked(Tx(d), Witnesses(d))
RefundsAccepted ==
    \A d \in drafts :
        Unspent(Tx(d)) /\ Final(Tx(d)) /\ clock >= kind.until /\ Refund(d) => Unlocked(Tx(d), Witnesses(d))

(* A bundle has no more inputs than the device signs.                      *)
WithinDeviceLimit == \A d \in drafts : Len(d.ins) <= MaxInputs

(* Whatever is built, deposited, broadcast or spent by hand with the keys, *)
(* the coins of a global covenant move as TaggedThread says.               *)
Terms(k) == [max |-> k.max, wait |-> k.wait, free |-> k.type = "gallow"]
Abstract == INSTANCE TaggedThread WITH
                Rules <- {Terms(k) : k \in Kinds}, rules <- Terms(kind),
                threads <- {[held |-> c.amount, since |-> c.born] : c \in {x \in Threads : kind.type \in Global}}
ThreadKept == Abstract!Spec
=============================================================================
