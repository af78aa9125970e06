---------------------------- MODULE CovenantDesk ----------------------------
(***************************************************************************)
(* The covenant desk of the KasSee page: the list of covenants the browser *)
(* keeps, the one that is open, the copies that survive a reload, a lost   *)
(* browser or a scan, and the watcher that polls the node and listens to   *)
(* its blocks to say who spent what.                                       *)
(*                                                                         *)
(* The addresses of one account are two covenants of one kind, the one     *)
(* most easily taken for the other. A coin is a number on its covenant's   *)
(* ledger; a covenant holds at most one unspent coin.                      *)
(***************************************************************************)
EXTENDS Integers, Sequences, SequencesExt

CONSTANTS
  None,
  Covs,      \* the covenants of the page, natural numbers
  Rooms,     \* bound: coins each covenant ever holds, a function of Covs each
  Detours    \* known faults of the page that an instance lets happen

VARIABLES
  world,     \* what is true: the kind, this wallet's side, the coins, their bound
  drawer,    \* what the browser keeps of the covenants
  watch,     \* the watcher: timer, polls, line to the node
  said       \* the last thing the page said of a spend, None if nothing

vars == <<world, drawer, watch, said>>

-----------------------------------------------------------------------------
(* The ledger. A move is who makes it, the branch selector the script sees  *)
(* on top of its witness, whether the coin goes back to the covenant, and   *)
(* what the payload marks.                                                  *)

Takes(who, way) == [who |-> who, way |-> way, renews |-> FALSE, mark |-> "plain"]
Renews(who, way, mark) == [who |-> who, way |-> way, renews |-> TRUE, mark |-> mark]
OwnerTakes == Takes("owner", "owner")
HeirTakes == Takes("heir", "heir")
Attests == Renews("oracle", "heir", "attest")
Disputes(who) == Renews(who, "heir", "dispute")

Moves ==
  [savings  |-> {OwnerTakes, HeirTakes},
   dms      |-> {OwnerTakes, HeirTakes, Renews("owner", "owner", "plain")},
   limit    |-> {OwnerTakes, Renews("owner", "owner", "plain")},
   gallow   |-> {OwnerTakes, HeirTakes, Renews("heir", "heir", "plain")},
   additive |-> {OwnerTakes, Renews("friend", "heir", "plain")},
   oracle   |-> {OwnerTakes, HeirTakes, Attests},
   escrow   |-> {Takes("owner", "heir"), HeirTakes, Takes("arbiter", "heir"),
                 Disputes("owner"), Disputes("heir")},
   merkle   |-> {OwnerTakes, HeirTakes},
   payjoin  |-> {OwnerTakes, HeirTakes},
   reveal   |-> {OwnerTakes, HeirTakes}]
Kinds == DOMAIN Moves
Threads == {"limit", "gallow"}

Sides ==
  [k \in Kinds |->
     CASE k \in {"limit", "additive", "merkle", "reveal"} -> {"owner"}
       [] k = "oracle" -> {"owner", "heir", "oracle"}
       [] k = "escrow" -> {"owner", "heir", "arbiter"}
       [] OTHER -> {"owner", "heir"}]

Coin(mark, first) == [mark |-> mark, first |-> first, by |-> None]
Live(c) ==
  IF world.coins[c] # <<>> /\ Last(world.coins[c]).by = None THEN Len(world.coins[c]) ELSE 0
Room(c) == Len(world.coins[c]) < world.room[c]
Fund(c) ==
  /\ Live(c) = 0 /\ Room(c)
  /\ world' = [world EXCEPT !.coins[c] = Append(@, Coin("plain", Len(@) + 1))]
Spent(c, m) ==
  LET old == world.coins[c]
      n == Len(old)
      closed == [old EXCEPT ![n].by = m]
  IN IF m.renews THEN Append(closed, Coin(m.mark, old[n].first)) ELSE closed

-----------------------------------------------------------------------------
(* What is kept of a covenant: the fields each kind makes, and those that   *)
(* each copy lets through.                                                  *)

FirstMade ==
  [additive |-> {"script", "threshold", "deadline"},
   limit    |-> {"script", "max", "cooldown"},
   escrow   |-> {"script"}]
HeirsMade ==
  [savings  |-> {"script", "locktime", "wallets", "date"},
   dms      |-> {"script", "inactivity", "heir"},
   gallow   |-> {"script", "max", "cooldown", "start", "beneficiary"}]
LaterMade ==
  [oracle   |-> {"script", "locktime", "oracle", "beneficiary", "date"},
   payjoin  |-> {"script", "locktime", "beneficiary", "minimums", "date"},
   reveal   |-> {"script", "locktime", "commit", "ciphertext", "date"},
   merkle   |-> {"script", "locktime", "tree", "date"}]
Made(k) ==
  CASE k \in {"additive", "limit", "escrow"} -> FirstMade[k]
    [] k \in {"savings", "dms", "gallow"} -> HeirsMade[k]
    [] OTHER -> LaterMade[k]
\* read again from the script when they are missing
FromScript(k) ==
  CASE k \in Threads -> {"max", "cooldown", "start"} \cap Made(k)
    [] k = "additive" -> {"threshold", "deadline"}
    [] OTHER -> {}
Written(k) ==
  CASE k = "dms" -> {"heir", "inactivity"}
    [] k \in {"merkle", "reveal"} -> Made(k) \ {"date"}
    [] OTHER -> Made(k)
\* what a covenant is built again from, besides its script
FirstReread ==
  [dms      |-> {"heir", "inactivity"},
   oracle   |-> {"oracle", "beneficiary", "locktime", "date"},
   additive |-> {"threshold", "deadline"},
   limit    |-> {"max", "cooldown"}]
HeirsReread ==
  [gallow   |-> {"max", "cooldown", "start", "beneficiary"},
   savings  |-> {"wallets", "locktime", "date"},
   escrow   |-> {}]
LaterReread ==
  [merkle   |-> {"locktime", "tree"},
   payjoin  |-> {"beneficiary", "locktime", "minimums", "date"},
   reveal   |-> {"commit", "locktime", "ciphertext"}]
Reread(k) ==
  CASE k \in {"dms", "oracle", "additive", "limit"} -> FirstReread[k]
    [] k \in {"gallow", "savings", "escrow"} -> HeirsReread[k]
    [] OTHER -> LaterReread[k]
\* what the owner's share button tells the other side; and an invite exported
Shared(k) ==
  {"script", "locktime"} \cup
  CASE k = "dms" -> {"inactivity"}
    [] k = "savings" -> {"wallets", "date"}
    [] k = "gallow" -> {"max", "cooldown", "start", "date"}
    [] k = "oracle" -> {"oracle", "beneficiary", "owner", "date"}
    [] OTHER -> {}
Invited ==
  {"script", "locktime", "inactivity", "oracle", "owner", "max", "cooldown", "start",
   "beneficiary", "date", "wallets"}
Listed(has) == has \ {"wallets", "minimums"}
Reopened(has) == has \ {"heir"}
\* what the panels of a covenant cannot do without
Needs(k) ==
  Made(k) \ ({"wallets", "date", "minimums", "heir", "start"}
              \cup (IF k \in {"gallow", "payjoin"} THEN {"beneficiary"} ELSE {}))

Entry(c, has, loaded, role) ==
  [cov |-> c, has |-> has, loaded |-> loaded, role |-> role, thread |-> None,
   disputed |-> None, attested |-> None, resolved |-> FALSE, first |-> 0, checked |-> 0]
RoleOfSide(side) == IF side = "heir" THEN "beneficiary" ELSE side
IsOwner(e) == IF e.role # None THEN e.role = "owner" ELSE ~e.loaded

\* covAddActive: the newest first, one entry an address
AddedNoRole(e) == [Entry(e.cov, Listed(e.has), e.loaded, None) EXCEPT !.thread = e.thread]
Added(e) ==
  [Entry(e.cov, Listed(e.has), e.loaded, e.role) EXCEPT !.thread = e.thread]
WithEntry(list, e) == <<Added(e)>> \o SelectSeq(list, LAMBDA x : x.cov # e.cov)
InList(c) == \E i \in DOMAIN drawer.list : drawer.list[i].cov = c
\* the role of an escrow and of an oracle is read again from the keys
Detected(e) ==
  IF world.kind = "escrow" \/ (world.kind = "oracle" /\ "oracle" \in e.has)
  THEN [e EXCEPT !.role = RoleOfSide(world.side)] ELSE e
Parsed(e) == [e EXCEPT !.has = @ \cup FromScript(world.kind)]
Opened(e) ==
  Detected(Parsed([Entry(e.cov, Reopened(e.has), e.loaded, e.role) EXCEPT
                     !.thread = e.thread, !.disputed = e.disputed]))
Guest(c, has) ==
  Detected(Parsed(Entry(c, has, TRUE,
                        IF world.kind = "additive" THEN "owner" ELSE "beneficiary")))
\* a dead man's switch is built again from its keys: without the heir's it is another one
Rebuilt(c, has) ==
  LET same == world.kind = "dms" => "heir" \in has
      second == world.kind = "savings" /\ world.side = "heir" /\ "wallets" \in has
  IN Detected(Parsed(Entry(IF same THEN c ELSE None,
                           {"script"} \cup (has \cap Reread(world.kind)), TRUE,
                           IF second THEN "beneficiary" ELSE "owner")))

\* the buttons an open covenant offers
AsGuest(e) == e.loaded /\ e.role = "beneficiary"
PlainOffers(e) ==
  CASE world.kind = "additive" -> {"fund", "owner"}
    [] world.kind = "gallow" -> IF AsGuest(e) THEN {"heir"} ELSE {"fund", "owner"}
    [] world.kind = "dms" -> IF AsGuest(e) THEN {"heir"} ELSE {"fund", "owner", "heir"}
    [] OTHER -> {"fund", "heir"}
PartyOffers(e) ==
  CASE AsGuest(e) -> {"heir"} \cup (IF world.kind = "escrow" THEN {"dispute"} ELSE {})
    [] world.kind = "escrow" /\ e.loaded /\ e.role = "arbiter" -> {"owner", "heir"}
    [] world.kind = "escrow" -> {"fund", "owner", "dispute"}
    [] e.role = "oracle" -> {"attest"}
    [] OTHER -> {"fund", "owner"}
LateOffers(e) ==
  CASE world.kind = "payjoin" -> IF AsGuest(e) THEN {"heir"} ELSE {"fund", "owner"}
    [] world.kind = "limit" -> {"fund", "owner"}
    [] OTHER -> {"fund", "owner", "heir"}
Offers(e) ==
  CASE world.kind \in {"additive", "gallow", "dms", "savings"} -> PlainOffers(e)
    [] world.kind \in {"escrow", "oracle"} -> PartyOffers(e)
    [] OTHER -> LateOffers(e)

\* the moves a button's form makes. Three kinds give the second button a form
\* of their own, and nothing gives it back: hand is whose form it opens now.
Rebinds == {"merkle", "payjoin", "reveal"}
Hand(hand) == IF world.kind \in Rebinds THEN world.kind ELSE hand
OwnerOpens(e) ==
  CASE world.kind = "escrow" -> {Takes(IF e.role = "arbiter" THEN "arbiter" ELSE "owner", "heir")}
    [] world.kind = "dms" -> {Renews("owner", "owner", "plain")}
    [] world.kind = "limit" -> {OwnerTakes, Renews("owner", "owner", "plain")}
    [] OTHER -> {OwnerTakes}
HeirOpens(e) ==
  CASE world.kind = "escrow" -> {Takes(IF e.role = "arbiter" THEN "arbiter" ELSE "heir", "heir")}
    [] world.kind = "dms" /\ e.role # "beneficiary" -> {OwnerTakes}
    [] world.kind = "gallow" -> {HeirTakes, Renews("heir", "heir", "plain")}
    [] world.kind = "savings" -> {OwnerTakes, HeirTakes}
    [] OTHER -> {HeirTakes}
Offered(e, hand) ==
  (IF "owner" \in Offers(e) THEN OwnerOpens(e) ELSE {}) \cup
  (IF "heir" \in Offers(e) /\ hand \in {"any", world.kind} THEN HeirOpens(e) ELSE {}) \cup
  (IF "attest" \in Offers(e) THEN {Attests} ELSE {}) \cup
  (IF "dispute" \in Offers(e) THEN {Disputes(IF AsGuest(e) THEN "heir" ELSE "owner")} ELSE {})
Shows(e, hand) ==
  LET makers == {m.who : m \in Offered(e, hand)}
  IN IF world.kind \in {"savings", "merkle", "reveal"} THEN world.side \in makers
     ELSE makers = {world.side}

-----------------------------------------------------------------------------
(* The drawer: made, opened, deleted, copied out and taken back.            *)

Generate(c) ==
  LET e == Entry(c, Made(world.kind), FALSE, None)
  IN /\ world.side = "owner" /\ c \notin drawer.made
     /\ drawer' = [drawer EXCEPT !.made = @ \cup {c}, !.cur = e, !.kept = e,
                                 !.list = WithEntry(@, e), !.hand = Hand(@)]

Open(i) ==
  /\ i \in DOMAIN drawer.list
  /\ LET e == Detected(Parsed(drawer.list[i]))
     IN drawer' = [drawer EXCEPT !.list[i] = e, !.cur = Opened(e), !.kept = Opened(e),
                                 !.hand = Hand(@)]
\* a covenant of another kind, open for a while
OpenAnother(k) ==
  /\ "another kind" \in Detours /\ k \in Rebinds \ {world.kind}
  /\ drawer' = [drawer EXCEPT !.cur = None, !.kept = None, !.hand = k]

Delete(i) ==
  /\ i \in DOMAIN drawer.list
  /\ drawer' = [drawer EXCEPT !.list = RemoveAt(@, i)]

\* a copy only this wallet's key opens
Sealed(e) == [invite |-> FALSE, has |-> e.has \cap Written(world.kind)]
Export(i) ==
  /\ i \in DOMAIN drawer.list
  /\ LET e == drawer.list[i]
     IN drawer' = [drawer EXCEPT !.files[e.cov] =
                     IF IsOwner(e) THEN Sealed(e)
                     ELSE [invite |-> TRUE, has |-> e.has \cap Invited]]

\* the payload of a deposit is written from the open covenant
Deposit ==
  /\ drawer.cur # None /\ "fund" \in Offers(drawer.cur)
  /\ world.kind = "dms" /\ "heir" \notin drawer.cur.has => "reopened" \in Detours
  /\ world.kind = "savings" /\ world.side = "heir" => "second wallet" \in Detours
  /\ drawer' = [drawer EXCEPT
       !.payloads[drawer.cur.cov] = Sealed(drawer.cur)]

\* a scanned copy: one at a time; an owner's waits for the node, then is added
Scan(c) ==
  /\ drawer.files[c] # None /\ drawer.scanning = None
  /\ LET f == drawer.files[c]
     IN drawer' = IF f.invite
                  THEN IF InList(c) THEN drawer
                       ELSE [drawer EXCEPT !.list = WithEntry(@, Guest(c, f.has))]
                  ELSE IF InList(Rebuilt(c, f.has).cov) THEN drawer
                       ELSE [drawer EXCEPT !.scanning = Rebuilt(c, f.has)]
ScanDone ==
  /\ drawer.scanning # None
  /\ drawer' = [drawer EXCEPT !.list = WithEntry(@, drawer.scanning), !.scanning = None]

\* the same from the payloads of this wallet's transactions
Recover(c) ==
  /\ drawer.payloads[c] # None /\ drawer.seeking = None
  /\ ~InList(Rebuilt(c, drawer.payloads[c].has).cov)
  /\ drawer' = [drawer EXCEPT !.seeking = Rebuilt(c, drawer.payloads[c].has)]
RecoverDone ==
  /\ drawer.seeking # None
  /\ drawer' = [drawer EXCEPT !.list = WithEntry(@, drawer.seeking), !.seeking = None]

Reload ==
  drawer' = [drawer EXCEPT !.cur = drawer.kept, !.scanning = None, !.seeking = None,
                           !.hand = "any"]
\* another browser, or this one with its data cleared
Lost ==
  drawer' = [drawer EXCEPT !.list = <<>>, !.cur = None, !.kept = None,
                           !.scanning = None, !.seeking = None, !.hand = "any"]

DrawerNext ==
  /\ \/ \E c \in Covs : Generate(c) \/ Scan(c) \/ Recover(c)
     \/ \E i \in DOMAIN drawer.list : Open(i) \/ Delete(i) \/ Export(i)
     \/ \E k \in Rebinds : OpenAnother(k)
     \/ Deposit \/ ScanDone \/ RecoverDone \/ Reload \/ Lost
  /\ UNCHANGED <<world, watch, said>>

-----------------------------------------------------------------------------
(* The watcher. watch.on is its timer, last the balance of the poll before, *)
(* out the coin whose spending the blocks are searched for, path the branch *)
(* a block showed. polls are the answers awaited; lines the sockets open,   *)
(* the last of them the one held; asking the subscriptions that wait for a  *)
(* node; again a subscription to be tried later; notices the blocks with a  *)
(* spend on their way.                                                      *)

PathKinds == {"dms", "gallow", "oracle", "merkle", "payjoin", "reveal"}
Shown == IF drawer.cur = None THEN None ELSE drawer.cur.cov
Idle == watch.polls = <<>>

Released(w) ==
  IF w.held
  THEN [w EXCEPT !.lines = Front(@), !.held = FALSE,
                 !.notices = {n \in @ : n.line # Len(w.lines)}]
  ELSE w
Subscribed(w) == [Released(w) EXCEPT !.asking = Append(@, Shown), !.again = FALSE]
MaySubscribe == watch.asking = <<>> \/ "restart in flight" \in Detours
Poll == [at |-> "node", cov |-> None, seen |-> 0, count |-> 0]
Started(w) ==
  IF w.on THEN w
  ELSE Subscribed([w EXCEPT !.on = TRUE, !.path = None, !.polls = Append(@, Poll)])
StoppedKeeping(w) == [Released(w) EXCEPT !.on = FALSE]
Stopped(w) == [Released(w) EXCEPT !.on = FALSE, !.last = None]

WatchOpen(i) ==
  /\ ~watch.on /\ i \in DOMAIN drawer.list
  /\ Idle \/ "switch in flight" \in Detours
  /\ MaySubscribe
  /\ LET e == Opened(drawer.list[i])
     IN /\ drawer' = [drawer EXCEPT !.cur = e, !.kept = e, !.hand = Hand(@)]
        /\ watch' = [Released(watch) EXCEPT
             !.on = TRUE, !.path = None, !.polls = Append(@, Poll),
             !.asking = Append(@, e.cov), !.again = FALSE]
  /\ said' = None
  /\ UNCHANGED world

WatchMenu ==
  /\ watch.on
  /\ Idle \/ "switch in flight" \in Detours
  /\ watch' = Stopped(watch)
  /\ UNCHANGED <<world, drawer, said>>

\* back from the broadcast of a transaction of this wallet
WatchReturn ==
  /\ watch.on /\ (Idle \/ "switch in flight" \in Detours) /\ MaySubscribe
  /\ world.coins[Shown] # <<>>
  /\ watch' = Started([Stopped(watch) EXCEPT !.out = None])
  /\ said' = None
  /\ UNCHANGED <<world, drawer>>

Tick ==
  /\ watch.on /\ (Idle \/ ("overlap" \in Detours /\ Len(watch.polls) < 2))
  /\ watch' = [watch EXCEPT !.polls = Append(@, Poll)]
  /\ UNCHANGED <<world, drawer, said>>

Without(p) == [watch EXCEPT !.polls = RemoveAt(@, p)]
PollFails(p) ==
  /\ p \in DOMAIN watch.polls
  /\ watch' = Without(p)
  /\ UNCHANGED <<world, drawer, said>>

\* the node is known: the address asked is the one open now
PollAsks(p) ==
  /\ p \in DOMAIN watch.polls /\ watch.polls[p].at = "node" /\ Shown # None
  /\ watch' = [watch EXCEPT !.polls[p] =
       [at |-> "coins", cov |-> Shown, seen |-> Live(Shown),
        count |-> Len(world.coins[Shown])]]
  /\ UNCHANGED <<world, drawer, said>>

\* a fact learned of the open covenant goes to it and to its list entry
Fact(p) == [cov |-> p.cov, no |-> p.seen]
NotedEverywhere(d, field, fact) ==
  LET put(e) == IF field = "thread" THEN [e EXCEPT !.thread = fact]
                ELSE IF field = "disputed" THEN [e EXCEPT !.disputed = fact] ELSE e
  IN [d EXCEPT !.cur = put(@), !.list = [i \in DOMAIN @ |-> put(@[i])]]
Noted(d, field, fact) ==
  LET put(e) == CASE field = "thread" -> [e EXCEPT !.thread = fact]
                  [] field = "disputed" -> [e EXCEPT !.disputed = fact]
                  [] field = "attested" -> [e EXCEPT !.attested = fact]
                  [] OTHER -> [e EXCEPT !.resolved = fact, !.disputed =
                                 IF fact THEN None ELSE @]
  IN [d EXCEPT !.cur = put(@),
               !.list = [i \in DOMAIN @ |->
                           IF @[i].cov = d.cur.cov THEN put(@[i]) ELSE @[i]]]

PollCoins(p) ==
  /\ p \in DOMAIN watch.polls /\ watch.polls[p].at = "coins"
  /\ LET a == watch.polls[p]
     IN drawer' = IF world.kind \in Threads /\ drawer.cur.thread = None /\ a.seen # 0
                  THEN Noted(drawer, "thread",
                             [cov |-> a.cov, no |-> world.coins[a.cov][a.seen].first])
                  ELSE drawer
  /\ watch' = IF watch.on THEN [watch EXCEPT !.polls[p].at = "daa"] ELSE Without(p)
  /\ UNCHANGED <<world, said>>

Emptied(a) == a.seen = 0 /\ watch.last = "funded"
\* the end of a poll: the coin to look for is taken once, on the first
Settled(w, a) ==
  [w EXCEPT !.last = IF a.seen = 0 THEN "empty" ELSE "funded",
            !.out = IF w.last = None /\ a.seen # 0 THEN Fact(a) ELSE @]
Blamed ==
  CASE world.kind \in {"savings", "additive", "escrow"} -> "someone"
    [] world.kind \in {"dms", "gallow", "oracle"} -> watch.path
    [] OTHER -> IF watch.path = "owner" THEN "owner" ELSE "heir"
Ends == world.kind \in {"savings", "gallow", "additive"} \/ (world.kind = "dms" /\ watch.path = "heir")

\* the balance fell to nothing: say who, by the branch the blocks showed
PollEmptied(p) ==
  /\ p \in DOMAIN watch.polls /\ watch.polls[p].at = "daa"
  /\ LET a == watch.polls[p]
         k == world.kind
         rest == Without(p)
     IN /\ Emptied(a) /\ k # "limit"
        /\ k \in {"merkle", "payjoin", "reveal"} /\ watch.path = None =>
             \/ world.coins[a.cov][a.count].by.who = "heir"
             \/ "unseen spend" \in Detours
        /\ said' = IF Blamed = None THEN said
                   ELSE [cov |-> Shown, no |-> a.count, who |-> Blamed, gone |-> TRUE]
        /\ watch' = CASE Ends -> Stopped(rest)
                      [] k = "oracle" -> [rest EXCEPT !.path = None, !.last = "empty"]
                      [] k = "escrow" -> Settled(rest, a)
                      [] OTHER -> rest
        /\ drawer' = CASE k = "oracle" ->
                            [Noted(drawer, "attested", None) EXCEPT !.cur.checked = 0]
                       [] k = "escrow" ->
                            [Noted(drawer, "resolved", TRUE) EXCEPT !.cur.first = 0,
                                                                   !.cur.checked = 0]
                       [] OTHER -> drawer
  /\ UNCHANGED world

\* an escrow whose coin is not the first it saw, an oracle's coin not looked at yet
Unread(a) ==
  /\ a.seen # 0 /\ drawer.cur.checked # a.seen
  /\ \/ world.kind = "oracle"
     \/ /\ world.kind = "escrow" /\ drawer.cur.disputed = None
        /\ drawer.cur.first \notin {0, a.seen}

PollReads(p) ==
  /\ p \in DOMAIN watch.polls /\ watch.polls[p].at = "daa"
  /\ LET a == watch.polls[p]
         fresh == world.kind = "escrow" /\ a.seen # 0
         reopened == IF fresh /\ drawer.cur.resolved
                     THEN Noted(drawer, "resolved", FALSE) ELSE drawer
     IN /\ ~Emptied(a) \/ world.kind = "limit"
        /\ drawer' = IF fresh /\ drawer.cur.first = 0
                     THEN [reopened EXCEPT !.cur.first = a.seen] ELSE reopened
        /\ watch' = IF Unread(a) THEN [watch EXCEPT !.polls[p].at = "tx"]
                    ELSE Settled(Without(p), a)
  /\ UNCHANGED <<world, said>>

\* the transaction of the coin: its payload marks a dispute or an attestation
PollMark(p) ==
  /\ p \in DOMAIN watch.polls /\ watch.polls[p].at = "tx"
  /\ LET a == watch.polls[p]
         mark == world.coins[a.cov][a.seen].mark
         read == [drawer EXCEPT !.cur.checked = a.seen]
     IN /\ drawer' = CASE mark = "dispute" /\ world.kind = "escrow" ->
                            Noted(read, "disputed", Fact(a))
                       [] mark = "attest" /\ world.kind = "oracle" ->
                            Noted(read, "attested", Fact(a))
                       [] OTHER -> read
        /\ watch' = Settled(Without(p), a)
  /\ UNCHANGED <<world, said>>
PollNoMark(p) ==
  /\ p \in DOMAIN watch.polls /\ watch.polls[p].at = "tx"
  /\ watch' = Settled(Without(p), watch.polls[p])
  /\ UNCHANGED <<world, drawer, said>>

-----------------------------------------------------------------------------
(* The blocks.                                                              *)

LineOpens ==
  /\ watch.asking # <<>>
  /\ watch' = [watch EXCEPT !.lines = Append(@, Head(watch.asking)), !.held = TRUE,
                            !.asking = Tail(@)]
  /\ UNCHANGED <<world, drawer, said>>
LineRefused ==
  /\ watch.asking # <<>>
  /\ watch' = [watch EXCEPT !.asking = Tail(@), !.again = @ \/ watch.on]
  /\ UNCHANGED <<world, drawer, said>>
LineDrops ==
  /\ watch.held
  /\ watch' = [Released(watch) EXCEPT !.again = @ \/ watch.on]
  /\ UNCHANGED <<world, drawer, said>>
LineAgain ==
  /\ watch.again /\ Shown # None /\ MaySubscribe
  /\ watch' = Subscribed(watch)
  /\ UNCHANGED <<world, drawer, said>>

Path(m) == IF world.kind = "limit" THEN "owner" ELSE m.way
Toast(path) ==
  LET k == world.kind
  IN CASE k \in {"escrow"} \cup (IF path = "heir" THEN {"oracle"} ELSE Threads) -> None
       [] k = "additive" -> "someone"
       [] OTHER -> path

\* a block spends the coin looked for: the branch is kept, and told if the
\* covenant is still the one subscribed for
Notice(n) ==
  /\ n \in watch.notices
  /\ LET mine == watch.out = n.coin
         path == Path(world.coins[n.coin.cov][n.coin.no].by)
         heard == [watch EXCEPT !.notices = @ \ {n}]
     IN /\ mine /\ world.coins[n.coin.cov][n.coin.no].by.who = "friend" => "top-up" \in Detours
        /\ watch' = IF mine THEN Released([heard EXCEPT !.path = path]) ELSE heard
        /\ said' = IF mine /\ Shown = watch.lines[n.line] /\ Toast(path) # None
                   THEN [cov |-> Shown, no |-> n.coin.no, who |-> Toast(path),
                         gone |-> world.kind = "additive"]
                   ELSE said
  /\ UNCHANGED <<world, drawer>>

\* someone spends a coin; every open line carries the block
Spend(c, m) ==
  /\ Live(c) # 0 /\ m \in Moves[world.kind]
  /\ m.renews => Room(c)
  /\ LET coin == [cov |-> c, no |-> Live(c)]
     IN /\ watch.on /\ Shown = c /\ world.kind \in PathKinds =>
             (watch.path = None /\ watch.notices = {}) \/ "second spend" \in Detours
        /\ watch.out = coin /\ Shown # c => "old outpoint" \in Detours
        /\ watch' = [watch EXCEPT !.notices =
             @ \cup {[line |-> l, coin |-> coin] : l \in DOMAIN watch.lines}]
  /\ world' = [world EXCEPT !.coins[c] = Spent(c, m)]
  /\ UNCHANGED <<drawer, said>>

WatchNext ==
  \/ \E i \in DOMAIN drawer.list : WatchOpen(i)
  \/ WatchMenu \/ WatchReturn \/ Tick
  \/ \E p \in DOMAIN watch.polls :
       PollFails(p) \/ PollAsks(p) \/ PollCoins(p) \/ PollEmptied(p) \/ PollReads(p)
         \/ PollMark(p) \/ PollNoMark(p)
  \/ LineOpens \/ LineRefused \/ LineDrops \/ LineAgain
  \/ \E n \in watch.notices : Notice(n)
  \/ \E c \in Covs : \/ Fund(c) /\ UNCHANGED <<drawer, watch, said>>
                     \/ \E m \in Moves[world.kind] : Spend(c, m)

-----------------------------------------------------------------------------
(* Where it starts: nothing made yet, with the invites others sent; or both *)
(* covenants in the list, for the watcher.                                  *)

NoWatch ==
  [on |-> FALSE, last |-> None, out |-> None, path |-> None, polls |-> <<>>,
   asking |-> <<>>, lines |-> <<>>, held |-> FALSE, again |-> FALSE, notices |-> {}]
Empty == [c \in Covs |-> None]
Drawer(started, made, list, files) ==
  [started |-> started, made |-> made, list |-> list, cur |-> None, kept |-> None, files |-> files,
   payloads |-> Empty, scanning |-> None, seeking |-> None, hand |-> "any"]
Worlds ==
  {[kind |-> k, side |-> s, room |-> r, coins |-> [c \in Covs |-> <<>>]] :
     k \in Kinds, s \in UNION {Sides[j] : j \in Kinds}, r \in Rooms}
Invite == [invite |-> TRUE, has |-> Made(world.kind) \cap Shared(world.kind)]
FirstEntry(c) ==
  IF world.side = "owner" THEN Added(Entry(c, Made(world.kind), FALSE, None))
  ELSE Added(Guest(c, Invite.has))

InitWorld == world \in {w \in Worlds : w.side \in Sides[w.kind]}
InitDrawer ==
  drawer = IF world.side = "owner" THEN Drawer("drawer", {}, <<>>, Empty)
           ELSE Drawer("drawer", Covs, <<>>, [c \in Covs |-> Invite])
InitWatch ==
  /\ world.side = "owner"
  /\ drawer = Drawer("watch", Covs, SetToSeq({FirstEntry(c) : c \in Covs}), Empty)
Init ==
  /\ InitWorld /\ (InitDrawer \/ InitWatch)
  /\ watch = NoWatch /\ said = None
Next == DrawerNext \/ WatchNext
Spec == Init /\ [][Next]_vars

-----------------------------------------------------------------------------
(* Whatever way a covenant came into the list (made, reopened, exported and *)
(* scanned back, recovered from the chain, after a reload or on another     *)
(* browser), its entry names a covenant there is, holds what its panels     *)
(* need, is listed once, is exported as the right side's, and its buttons,  *)
(* those of the open covenant too, make moves of the side this wallet is on *)
(* (app.js 1366, 1466, 1669, 1927, 2535, 2624, 4063, 4242, 11103).          *)
RestoredWhole ==
  /\ \A i \in DOMAIN drawer.list :
       LET e == drawer.list[i]
       IN /\ e.cov \in Covs
          /\ Needs(world.kind) \subseteq e.has
          /\ IsOwner(e) <=> world.side = "owner"
          /\ Shows(Opened(e), Hand("any"))
  /\ \A i, j \in DOMAIN drawer.list : drawer.list[i].cov = drawer.list[j].cov => i = j
  /\ drawer.cur # None => Shows(drawer.cur, drawer.hand)

(* What is recorded of a covenant happened to it: the thread it keeps is    *)
(* one of its own, a dispute or an attestation is a coin of its own with    *)
(* that mark, and it is called resolved only after it paid out              *)
(* (app.js 10089-10104, 10374-10440, 10473-10545).                          *)
OwnCoin(c, f, mark) ==
  f # None => /\ f.cov = c
              /\ mark # "any" => world.coins[c][f.no].mark = mark
RecordsTrue ==
  LET true(e) ==
        /\ OwnCoin(e.cov, e.thread, "any") /\ OwnCoin(e.cov, e.disputed, "dispute")
        /\ OwnCoin(e.cov, e.attested, "attest")
        /\ e.resolved => \E n \in DOMAIN world.coins[e.cov] :
             LET m == world.coins[e.cov][n].by IN m # None /\ ~m.renews
  IN /\ \A i \in DOMAIN drawer.list : true(drawer.list[i])
     /\ drawer.cur # None => true(drawer.cur)

(* When the page says who spent a covenant, its coin was spent, by whom it  *)
(* says, and it is empty when the page says so: through polls, blocks, lost *)
(* lines and restarts of the watcher (app.js 10132-10650, 10684-10810).     *)
AnnouncedTrue ==
  said # None =>
    /\ said.no \in DOMAIN world.coins[said.cov]
    /\ LET m == world.coins[said.cov][said.no].by
       IN /\ m # None
          /\ said.who # "someone" => m.who = said.who
          /\ said.gone => ~m.renews
=============================================================================
