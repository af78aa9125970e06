------------------------------ MODULE WatchPage ------------------------------
(***************************************************************************)
(* The watch-only page: it holds an account key, asks a node which coins   *)
(* the account's addresses have, offers them for spending, makes documents *)
(* for the signer and sends what comes back.                               *)
(*                                                                         *)
(* An address is <<wallet, index>>.  The receive and the change list of an *)
(* account are kept alike; one list stands for both.  A call to the node   *)
(* is a record of the wallet it was made for; whatever else is done on the *)
(* page may happen before it is answered.                                  *)
(*                                                                         *)
(* Themes split the behaviours: in "coins" the coins move and documents    *)
(* are made and dropped, in "documents" the coins stand still and          *)
(* documents go to the signer and to the node.                             *)
(***************************************************************************)
EXTENDS TxCarriage

CONSTANTS Wallets,    \* the accounts whose keys may be imported
          Given,      \* addresses an import derives (20 receive, 20 change)
          MaxDerived, \* MAX_DERIVED_ADDRESSES: no more are derived (500)
          Coins,      \* the coins that may come to exist, [id, at, wants, amount]
          Early,      \* the coins there from the start
          Amounts,    \* the amounts that may be typed
          Fee,        \* the fee shown
          Dust,       \* amounts below this make no output (is_dust)
          MassC,      \* STORAGE_MASS_C times the fee for a gram
          MaxTicked,  \* 32: rows that can be ticked, inputs a consolidation takes
          MaxMoves,   \* bound: coins that come and go
          MaxCalls,   \* bound: calls under way
          Docs,       \* the documents opened in "documents"
          Themes,
          Detours     \* ways to leave the straight path, see below

(* "switch in flight": the wallet is reset while calls are under way;       *)
(* "two lists": a coin list is asked for while another is under way;        *)
(* "list moved": coins move, or more addresses are derived, between listing *)
(* and consolidating some;                                                  *)
(* "ties": coins of one amount are ticked for consolidation;                *)
(* "blink": a coin leaves between the two answers of a refresh;             *)
(* "half refresh": a document is made between them;                         *)
(* "many coins": an amount is typed that takes more than MaxInputs coins;   *)
(* "by bundle": a document with a payload is shown as a bundle.             *)
(* The rest are those of CovenantDesk, which an instance puts beside it.    *)
ASSUME DetoursAssumption ==
  Detours \subseteq {"switch in flight", "two lists", "list moved", "ties", "blink",
                     "half refresh", "many coins", "by bundle",
                     "reopened", "second wallet", "overlap", "restart in flight",
                     "unseen spend", "top-up", "second spend", "old outpoint",
                     "another kind"}
ASSUME PageAssumption ==
  /\ Given \in Nat \ {0} /\ MaxDerived \in Nat /\ Given <= MaxDerived
  /\ Early \subseteq Coins /\ IsFiniteSet(Early)
  /\ \A c \in Coins : c.at[2] \in Nat
  /\ MaxTicked \in Nat
  /\ \A S \in SUBSET Coins : S # None
Total(S) == MapThenSumSet(LAMBDA c : c.amount, S)

\* The storage mass of an amount, as its fee, and what the coins spent take off it.
Weight(amount) == MassC \div amount
Relief(S) == MapThenSumSet(LAMBDA c : Weight(c.amount), S)

(* Amounts are naturals.  Totals of them are too, a fact of arithmetic that   *)
(* is assumed here, as it takes an induction over sets.                       *)
ASSUME AmountsAssumption ==
  /\ Fee \in Nat /\ Dust \in Nat \ {0} /\ Amounts \subseteq Nat /\ MassC \in Nat
  /\ \A c \in Coins : c.amount \in Nat \ {0}
  /\ \A S \in SUBSET Coins : IsFiniteSet(S) => Total(S) \in Nat /\ Relief(S) \in Nat

VARIABLES theme,
          chain,   \* the unspent coins
          born,    \* the coins that ever were
          moves,   \* coins come and gone
          page,    \* the page's variables
          calls,   \* calls under way, [kind, of]
          told,    \* what the user was told: see InitTold
          desk     \* the document under review and what became of it

vars == <<theme, chain, born, moves, page, calls, told, desk>>

\* resetWallet, saveSettings on another network: all but `refreshing`.
InitPage(refreshing) ==
  [wallet |-> None, refreshing |-> refreshing, balance |-> None, funded |-> {}, used |-> {},
   snapshot |-> None, cached |-> <<>>, rows |-> <<>>, ticked |-> {}, list |-> None,
   derived |-> Given]
\* Addresses a refresh showed as funded since the import; whether a coin moved or
\* addresses were derived since the list was shown; whether a refresh has answered
\* half.
InitTold == [funded |-> {}, moved |-> FALSE, half |-> FALSE]
InitDesk == [asked |-> None, review |-> None, made |-> None, shown |-> None, answer |-> None,
             sent |-> None]

Owned(w, S) == {c \in S : c.at[1] = w}
\* `no` tells calls apart; `upto` is the last address asked about.
CallOf(kind, no, upto) == [kind |-> kind, of |-> page.wallet, no |-> no, upto |-> upto]
Call(kind, no) == CallOf(kind, no, page.derived)
Waiting(kind) == \E call \in calls : call.kind = kind
Ask(kind) ==
  /\ Cardinality(calls) < MaxCalls
  /\ LET no == Min((1..MaxCalls) \ {call.no : call \in calls})
     IN calls' = calls \cup {Call(kind, no)}
Answered(call, kind) == call.kind = kind /\ calls' = calls \ {call}
\* The next call of a chain is made for the wallet held by then, if any.
Follows(call, kind) ==
  calls' = (calls \ {call}) \cup {Call(kind, no) : no \in IF page.wallet = None THEN {} ELSE {call.no}}

\* The coins at a wallet's first n addresses, and what n may be when a call is
\* answered: it may have been made again since, for the addresses derived by then.
CoinsOf(w, n) == {c \in Owned(w, chain) : c.at[2] <= n}
Reach(call) == {call.upto} \cup (call.upto .. page.derived)

-----------------------------------------------------------------------------
(* Coins come and go without the page; a document under review has its     *)
(* coins already.                                                          *)
Moves ==
  /\ theme = "coins" /\ moves < MaxMoves /\ desk = InitDesk
  /\ moves' = moves + 1 /\ told' = [told EXCEPT !.moved = TRUE]
  /\ UNCHANGED <<theme, page, calls, desk>>
Arrives ==
  /\ Moves
  /\ \E c \in Coins \ born : chain' = chain \cup {c} /\ born' = born \cup {c}
Leaves ==
  /\ Moves
  /\ told.half => "blink" \in Detours
  /\ \E c \in chain : chain' = chain \ {c}
  /\ UNCHANGED born

-----------------------------------------------------------------------------
(***************************************************************************)
(* The wallet and its refresh.                                             *)
(***************************************************************************)
Import ==
  /\ theme = "coins" /\ page.wallet = None /\ desk = InitDesk
  /\ \E w \in Wallets : page' = [page EXCEPT !.wallet = w, !.refreshing = FALSE]
  /\ UNCHANGED <<theme, chain, born, moves, calls, told, desk>>

(* Mutant: the funded addresses of the old wallet stay. *)
MutReset ==
  /\ page.wallet # None /\ theme = "coins"
  /\ calls # {} => "switch in flight" \in Detours
  /\ page' = [InitPage(page.refreshing) EXCEPT !.funded = page.funded]
  /\ told' = InitTold /\ desk' = InitDesk
  /\ UNCHANGED <<theme, chain, born, moves, calls>>

Reset ==
  /\ page.wallet # None /\ theme = "coins"
  /\ calls # {} => "switch in flight" \in Detours
  /\ page' = InitPage(page.refreshing)
  /\ told' = InitTold /\ desk' = InitDesk
  /\ UNCHANGED <<theme, chain, born, moves, calls>>

\* refreshBalance, by the timer or by hand.
StartRefresh ==
  /\ theme = "coins" /\ page.wallet # None /\ ~page.refreshing
  /\ page' = [page EXCEPT !.refreshing = TRUE]
  /\ Ask("balance")
  /\ UNCHANGED <<theme, chain, born, moves, told, desk>>

\* What the wallet's coins make of the page: the balance and the addresses
\* they lie at.  Then the coins are asked for, of the wallet held by now.
BalanceAnswers ==
  \E call \in calls : \E n \in Reach(call) :
    /\ call.kind = "balance"
    /\ LET coins == CoinsOf(call.of, n)
           at    == {c.at : c \in coins}
       IN /\ page' = [page EXCEPT !.balance = [of |-> call.of, total |-> Total(coins)],
                                  !.funded = at,
                                  !.refreshing = page.wallet # None]
          /\ told' = [told EXCEPT !.funded = @ \cup at, !.half = TRUE]
    /\ Follows(call, "utxos")
    /\ UNCHANGED <<theme, chain, born, moves, desk>>

BalanceFails ==
  \E call \in calls :
    /\ Answered(call, "balance")
    /\ page' = [page EXCEPT !.balance = None, !.refreshing = FALSE]
    /\ UNCHANGED <<theme, chain, born, moves, told, desk>>

\* trackUtxoChangesAndUsed: a coin gone since the last look leaves its address
\* behind as used.
GoneFrom(old, new) ==
  IF old = None \/ page.wallet = None THEN {} ELSE {c.at : c \in Owned(page.wallet, old \ new)}

Track(new) ==
  [page EXCEPT !.used = @ \cup GoneFrom(page.snapshot, new), !.snapshot = new,
               !.refreshing = FALSE]

UtxosAnswer ==
  \E call \in calls :
    /\ call.kind = "utxos"
    /\ \E n \in Reach(call) : page' = Track(CoinsOf(call.of, n))
    /\ Follows(call, "scan")
    /\ told' = [told EXCEPT !.half = FALSE]
    /\ UNCHANGED <<theme, chain, born, moves, desk>>
UtxosFail ==
  /\ \E call \in calls : call.kind = "utxos" /\ Follows(call, "scan")
  /\ page' = [page EXCEPT !.refreshing = FALSE]
  /\ UNCHANGED <<theme, chain, born, moves, told, desk>>

(* expandAddressesIfNeeded: when none of the addresses is free more are       *)
(* derived, a batch at a time until one is.  It may end before that: at the   *)
(* ceiling, which the receive and the change list share, or where it fails.   *)
Indices(ats) == {at[2] : at \in ats}
Skipped == Indices(page.funded \cup page.used)
Derivations(taken) ==
  {page.derived} \cup
  {m \in page.derived + 1 .. MaxDerived :
     page.wallet # None /\ 1..page.derived \subseteq Indices(taken)}

\* fetchAddressHistory adds addresses that have a history.  Each is asked for
\* by itself and the service may refuse any.  Then more are derived if need be
\* and, a few times in a row at most, a refresh looks what they hold.
ScanAnswers ==
  \E call \in calls :
    /\ call.kind = "scan"
    /\ \E some \in {{}, {c.at : c \in {d \in Owned(call.of, born) : d.at[2] <= call.upto}}},
          again \in {page.refreshing, TRUE} :
         LET used == page.used \cup some
         IN \E m \in Derivations(page.funded \cup used) :
              /\ again # page.refreshing => m # page.derived
              /\ page' = [page EXCEPT !.used = used, !.derived = m, !.refreshing = again]
              /\ calls' = (calls \ {call}) \cup
                            {CallOf("balance", call.no, m) :
                               no \in IF again = page.refreshing THEN {} ELSE {call.no}}
              /\ told' = [told EXCEPT !.moved = @ \/ m # page.derived]
    /\ UNCHANGED <<theme, chain, born, moves, desk>>

\* getNextChangeIndex, getNextReceiveIndex, of m addresses: the first that is
\* free, or the last though it is not.
(* Mutant: an address that was used is free again once it is empty. *)
MutNextIndex(m) ==
  LET free == (1..m) \ Indices(page.funded) IN IF free = {} THEN m ELSE Min(free)
NextIndex(m) ==
  LET free == (1..m) \ Skipped IN IF free = {} THEN m ELSE Min(free)

\* Addresses are derived and no document is made: one is shown to be paid to, or
\* the document that was to be made is refused.
Derives ==
  /\ theme = "coins" /\ desk = InitDesk
  /\ \E m \in Derivations(page.funded \cup page.used) \ {page.derived} :
       page' = [page EXCEPT !.derived = m]
  /\ told' = [told EXCEPT !.moved = TRUE]
  /\ UNCHANGED <<theme, chain, born, moves, calls, desk>>

-----------------------------------------------------------------------------
(***************************************************************************)
(* The two coin lists.  Rows are ticked by their place in the list shown.  *)
(***************************************************************************)
Lists == {"send", "utxos list"}
MayAsk == (\E kind \in Lists : Waiting(kind)) => "two lists" \in Detours

\* openSendScreen forgets the list at once, showUtxos only when it is answered.
OpenSend ==
  /\ theme = "coins" /\ page.wallet # None /\ desk = InitDesk /\ MayAsk
  /\ page' = [page EXCEPT !.cached = <<>>, !.ticked = {}, !.list = "send"]
  /\ Ask("send")
  /\ UNCHANGED <<theme, chain, born, moves, told, desk>>
ShowUtxos ==
  /\ theme = "coins" /\ page.wallet # None /\ desk = InitDesk /\ MayAsk
  /\ page' = [page EXCEPT !.ticked = {}, !.list = None]
  /\ Ask("utxos list")
  /\ UNCHANGED <<theme, chain, born, moves, told, desk>>

\* Largest first; the send screen orders equal amounts, the coin list leaves
\* them as the node gave them.
ByAmount(S) ==
  {q \in [1..Cardinality(S) -> S] :
     /\ Range(q) = S
     /\ \A i, j \in DOMAIN q : i < j => q[i].amount >= q[j].amount}
Ordered(S) ==
  {q \in ByAmount(S) : \A i, j \in DOMAIN q :
     i < j /\ q[i].amount = q[j].amount => q[i].id < q[j].id}

\* Places of a list, first to last.
Ascending(S) ==
  {q \in [1..Cardinality(S) -> S] :
     /\ Range(q) = S
     /\ \A i, j \in DOMAIN q : i < j => q[i] < q[j]}

SendAnswers ==
  \E call \in calls :
    /\ Answered(call, "send")
    /\ \E n \in Reach(call) : \E q \in Ordered(CoinsOf(call.of, n)) :
         page' = [page EXCEPT !.cached = q]
    /\ UNCHANGED <<theme, chain, born, moves, told, desk>>
UtxosListAnswers ==
  \E call \in calls :
    /\ Answered(call, "utxos list")
    /\ \E n \in Reach(call) :
         /\ \E q \in ByAmount(CoinsOf(call.of, n)) :
              page' = [page EXCEPT !.cached = q, !.rows = q, !.list = "utxos"]
         /\ told' = [told EXCEPT !.moved = n # page.derived]
    /\ UNCHANGED <<theme, chain, born, moves, desk>>
ListFails ==
  \E call \in calls :
    /\ call.kind \in Lists /\ calls' = calls \ {call}
    /\ UNCHANGED <<theme, chain, born, moves, page, told, desk>>

\* toggleSendUtxos
ShowRows ==
  /\ page.list = "send" /\ page.cached # <<>> /\ desk = InitDesk
  /\ page' = [page EXCEPT !.rows = page.cached, !.ticked = {}, !.list = "send rows"]
  /\ UNCHANGED <<theme, chain, born, moves, calls, told, desk>>
Tick ==
  /\ page.list \in {"send rows", "utxos"} /\ desk = InitDesk
  /\ Cardinality(page.ticked) < MaxTicked
  /\ \E i \in DOMAIN page.rows \ page.ticked : page' = [page EXCEPT !.ticked = @ \cup {i}]
  /\ UNCHANGED <<theme, chain, born, moves, calls, told, desk>>
TickedCoins == {page.rows[i] : i \in page.ticked \cap DOMAIN page.rows}

-----------------------------------------------------------------------------
(***************************************************************************)
(* Documents are made.                                                     *)
(***************************************************************************)
Settled == told.half => "half refresh" \in Detours

(* Mutant: dust is left as an output of its own. *)
MutOutputs(coins, to, amount, fee, next) ==
  LET rest == Total(coins) - amount - fee
  IN <<Output(to, amount)>>
       \o IF rest > 0 THEN <<Output(<<page.wallet, next>>, rest)>> ELSE <<>>
\* What is left comes back to the next change address, unless it is dust.
Outputs(coins, to, amount, fee, next) ==
  LET rest == Total(coins) - amount - fee
  IN <<Output(to, amount)>>
       \o IF rest >= Dust THEN <<Output(<<page.wallet, next>>, rest)>> ELSE <<>>

\* A document over the coins of sequence q, with m addresses derived; `asked`
\* keeps what was asked for.
Make(q, asked, to, amount, fee, m) ==
  LET doc == PlainDoc([n \in DOMAIN q |-> Input(q[n])],
                      Outputs(Range(q), to, amount, fee, NextIndex(m)))
  IN /\ Total(Range(q)) >= amount + fee /\ amount > 0
     /\ desk' = [InitDesk EXCEPT !.review = doc, !.made = doc,
                                 !.asked = [coins |-> asked, to |-> to, amount |-> amount]]
     /\ page' = [page EXCEPT !.list = None, !.derived = m]
     /\ UNCHANGED <<theme, chain, born, moves, calls, told>>
Deriving == Derivations(page.funded \cup page.used)

(* storage_mass_estimate, as a fee: what outputs of these amounts weigh, less *)
(* what the coins do, counted one by one or, when there are more coins than   *)
(* outputs, by their mean.  The mass for computing is in the fee shown.       *)
StorageFee(coins, amount, rest) ==
  LET n     == Cardinality(coins)
      outs  == Weight(amount) + IF rest = 0 THEN 0 ELSE Weight(rest)
      ins   == IF rest = 0 \/ n <= 2 THEN Relief(coins)
               ELSE n * Weight(Max({Total(coins) \div n, 1}))
  IN IF outs > ins THEN outs - ins ELSE 0

(* The fee of a payment of ticked coins is raised when the transaction is     *)
(* heavy.  What comes back depends on the fee and the mass on what comes      *)
(* back: the code goes round three times.                                     *)
Again(coins, amount, fee) ==
  LET rest == Total(coins) - amount - fee
  IN Max({Fee, StorageFee(coins, amount, IF rest >= Dust THEN rest ELSE 0)})
Raised(coins, amount) ==
  Again(coins, amount, Again(coins, amount, Again(coins, amount, Fee)))

\* The cached coins at the ticked places, as they are now.  No amount is too small.
CreateTicked ==
  /\ page.list = "send rows" /\ page.ticked # {} /\ desk = InitDesk /\ Settled
  /\ LET kept == {i \in page.ticked : i <= Len(page.cached)}
     IN /\ kept # {}
        /\ \E places \in Ascending(kept), m \in Deriving,
              amount \in Amounts \cup {Max({Total(TickedCoins), Fee}) - Fee} :
             LET q == [n \in DOMAIN places |-> page.cached[places[n]]]
             IN amount > 0 /\ Make(q, TickedCoins, "payee", amount, Raised(Range(q), amount), m)

\* The least prefix of a list that reaches an amount.
Reaching(q, need) ==
  LET enough == {n \in DOMAIN q : Total(Range(SubSeq(q, 1, n))) >= need}
  IN IF enough = {} THEN <<>> ELSE SubSeq(q, 1, Min(enough))

CreateSend ==
  /\ page.list = "send" /\ desk = InitDesk /\ Settled
  /\ \E amount \in Amounts, m \in Deriving : \E list \in ByAmount(CoinsOf(page.wallet, m)) :
       LET q == Reaching(list, amount + Fee)
       IN /\ amount >= Dust /\ q # <<>>
          /\ Len(q) <= MaxInputs \/ "many coins" \in Detours
          /\ Make(q, None, "payee", amount, Fee, m)

(* Mutant: every coin goes into the consolidation. *)
MutLargest(q) == q
Largest(q) == SubSeq(q, 1, Min({Len(q), MaxTicked}))

Consolidate ==
  /\ page.list = "utxos" /\ desk = InitDesk /\ Settled /\ Cardinality(page.ticked) < 2
  /\ \E m \in Deriving : \E list \in ByAmount(CoinsOf(page.wallet, m)) :
     LET q == Largest(list)
     IN /\ Len(q) > 1 /\ Total(Range(q)) > Fee
        /\ Make(q, None, <<page.wallet, 1>>, Total(Range(q)) - Fee, Fee, m)

Alike(q) == \E i, j \in DOMAIN q : i # j /\ q[i].amount = q[j].amount

\* The places ticked are looked up in a list fetched and ordered anew.  The
\* address to pay to is looked up in the addresses there were before: none is
\* found there when more had to be derived.
ConsolidateTicked ==
  /\ page.list = "utxos" /\ desk = InitDesk /\ Settled /\ Cardinality(page.ticked) >= 2
  /\ told.moved => "list moved" \in Detours
  /\ Alike(page.rows) => "ties" \in Detours
  /\ \E m \in Deriving : NextIndex(m) <= page.derived /\
     \E fresh \in Ordered(CoinsOf(page.wallet, m)), places \in Ascending(page.ticked) :
     LET kept   == {i \in page.ticked : i <= Len(page.cached)}
         amount == Total({page.cached[i] : i \in kept}) - Fee
     IN /\ page.ticked \subseteq DOMAIN fresh
        /\ Total({page.cached[i] : i \in kept}) > Fee
        /\ Make([n \in DOMAIN places |-> fresh[places[n]]], TickedCoins,
                <<page.wallet, NextIndex(m)>>, amount, Fee, m)

\* The other documents the page makes.
Open ==
  /\ theme = "documents" /\ desk = InitDesk
  /\ \E doc \in Docs : desk' = [InitDesk EXCEPT !.review = doc, !.made = doc]
  /\ UNCHANGED <<theme, chain, born, moves, page, calls, told>>

-----------------------------------------------------------------------------
(***************************************************************************)
(* A document goes to the signer and to the node.                          *)
(***************************************************************************)
Desk == UNCHANGED <<theme, chain, born, moves, page, calls, told>>

Show(route) ==
  /\ theme = "documents" /\ desk.review # None /\ desk.shown = None /\ desk.sent = None
  /\ route = "bundle" /\ desk.made.full /\ desk.made.payload # None =>
       "by bundle" \in Detours
  /\ desk' = [desk EXCEPT !.shown = route, !.answer = None] /\ Desk

Sign ==
  /\ desk.shown # None /\ desk.answer = None /\ Reads(desk.review, desk.shown)
  /\ ~Refuses(Read(desk.review, desk.shown))
  /\ desk' = [desk EXCEPT !.answer = Answer(desk.review, desk.shown)] /\ Desk

Scan ==
  /\ desk.answer # None
  /\ desk' = [desk EXCEPT !.review = desk.answer, !.answer = None, !.shown = None] /\ Desk

Finalize ==
  /\ theme = "documents" /\ desk.review # None /\ desk.shown = None /\ desk.sent = None
  /\ Ready(desk.review)
  /\ desk' = [desk EXCEPT !.sent = [tx |-> Tx(desk.review), ok |-> Valid(desk.review)]] /\ Desk

\* Back from the QR, and away from the review.
Back ==
  /\ desk # InitDesk
  /\ desk' = IF desk.shown # None THEN [desk EXCEPT !.shown = None, !.answer = None]
                                  ELSE InitDesk
  /\ Desk

-----------------------------------------------------------------------------
Init ==
  /\ theme \in Themes /\ chain = Early /\ born = Early /\ moves = 0
  /\ page = InitPage(FALSE) /\ calls = {} /\ told = InitTold /\ desk = InitDesk

Next ==
  \/ Arrives \/ Leaves
  \/ Import \/ Reset \/ StartRefresh \/ BalanceAnswers \/ BalanceFails \/ UtxosAnswer
  \/ UtxosFail \/ ScanAnswers \/ Derives
  \/ OpenSend \/ ShowUtxos \/ SendAnswers \/ UtxosListAnswers \/ ListFails \/ ShowRows \/ Tick
  \/ CreateTicked \/ CreateSend \/ Consolidate \/ ConsolidateTicked \/ Open
  \/ \E route \in {"bundle", "compact"} : Show(route)
  \/ Sign \/ Scan \/ Finalize \/ Back

Spec == Init /\ [][Next]_vars

-----------------------------------------------------------------------------
\* Whatever the page shows or files, the balance, the funded and the used
\* addresses, the snapshot, the lists, is of the wallet it holds.
OwnShown ==
  /\ page.balance # None => page.balance.of = page.wallet
  /\ \A at \in page.funded \cup page.used : at[1] = page.wallet
  /\ page.snapshot # None => \A c \in page.snapshot : c.at[1] = page.wallet
  /\ \A c \in Range(page.cached) \cup Range(page.rows) : c.at[1] = page.wallet

\* A document spends the coins that were ticked, pays what was typed to whom
\* was typed, returns the rest to the wallet itself and keeps the fee shown and
\* less than what dust is; where coins were ticked for a payment it may keep
\* more, what a transaction of that amount that returns the least there can be
\* would weigh, and no more than that.
AsAsked ==
  desk.asked # None =>
    LET doc  == desk.made
        ins  == {doc.ins[n].coin : n \in DOMAIN doc.ins}
        rest == IF Len(doc.outs) = 1 THEN 0 ELSE doc.outs[2].amount
        kept == Total(ins) - (desk.asked.amount + rest)
    IN /\ desk.asked.coins # None => ins = desk.asked.coins
       /\ Len(doc.outs) \in 1..2 /\ doc.outs[1] = Output(desk.asked.to, desk.asked.amount)
       /\ Len(doc.outs) = 2 => doc.outs[2].to[1] = page.wallet /\ rest >= Dust
       /\ kept >= Fee
       /\ \/ kept < Fee + Dust
          \/ /\ desk.asked.coins # None /\ desk.asked.to = "payee"
             /\ kept < Weight(desk.asked.amount) + Weight(Dust) + Dust

\* The page shows a fee and keeps no more than that and dust, also when coins were
\* ticked.  The code does not keep it.
NoMoreThanShown ==
  desk.asked # None =>
    LET doc == desk.made
    IN Total({doc.ins[n].coin : n \in DOMAIN doc.ins})
         < desk.asked.amount + (IF Len(doc.outs) = 1 THEN 0 ELSE doc.outs[2].amount) + Fee + Dust

\* The rest of a payment or a consolidation never goes to an address a refresh
\* has shown as funded, unless not one of the addresses derived is free: then it
\* goes to the last of them.  (A covenant's deposit is not of these: its change
\* goes to the first address always.)
Exhausted == 1..page.derived \subseteq Skipped
FreshChange ==
  [][desk.asked = None /\ desk'.asked # None =>
       \A n \in 2..Len(desk'.made.outs) :
         \/ desk'.made.outs[n].to \notin told.funded
         \/ Exhausted' /\ desk'.made.outs[n].to[2] = page'.derived]_vars

\* The same without the exception, which the code does not keep.
AlwaysFreshChange ==
  [][desk.asked = None /\ desk'.asked # None =>
       \A n \in 2..Len(desk'.made.outs) : desk'.made.outs[n].to \notin told.funded]_vars

\* The signer can read, on the compact route, every document the page makes.
Readable == desk.made # None => ReadsCompact(Relay(desk.made))

\* What the node is sent is what the page made, and the node takes it.
SentIsMade == desk.sent # None => desk.sent.tx = Tx(desk.made) /\ desk.sent.ok
=============================================================================
