----------------------------- MODULE MCWatchPage -----------------------------
(***************************************************************************)
(* Instances of WatchPage and CovenantDesk, the two halves of the page     *)
(* that share no state: two accounts, the coins of both, and one document  *)
(* of each kind the page makes; or two covenants of one kind, the list     *)
(* that keeps them and the watcher that follows them.                      *)
(***************************************************************************)
EXTENDS WatchPage

Held(id, at, amount) == [id |-> id, at |-> at, wants |-> "own", amount |-> amount]
MCCoins == {Held(1, <<"a", 1>>, 10), Held(2, <<"a", 3>>, 18), Held(3, <<"a", 2>>, 18),
            Held(4, <<"b", 1>>, 14)}
MCEarly == {c \in MCCoins : c.id \in {1, 3, 4}}

Own == Coin("own", "own", 3)
MCDocs ==
  {PlainSend(Own), StealthPayment(Own), LanePayment(Own), TaggedDeposit(Own),
   VaultDeposit(Own, TRUE), VaultDeposit(Own, FALSE), MultisigSend(Own),
   StealthSpend(<<Coin("s", "shifted", 3), Coin("t", "shifted", 3)>>),
   SavingsClaim(Coin("w", "time", 3)), RestedSpend(Coin("r", "rest", 3)),
   BorrowerTopUp(Coin("p", "nothing", 3), Own), OracleHeartbeat(Coin("o", "beat", 3))}

VARIABLES world, drawer, watch, said
Covenants == INSTANCE CovenantDesk WITH
  Covs <- {1, 2}, Rooms <- {<<2, 1>>, <<3, 0>>}
desks == <<world, drawer, watch, said>>

RestoredWhole == theme = "covenants" => Covenants!RestoredWhole
RecordsTrue == theme = "covenants" => Covenants!RecordsTrue
AnnouncedTrue == theme = "covenants" => Covenants!AnnouncedTrue

MCInit ==
  /\ Init
  /\ IF theme = "covenants" THEN Covenants!Init
     ELSE world = None /\ drawer = None /\ watch = None /\ said = None
\* an instance starts with the drawer empty or with both covenants in it
Drawers == theme = "covenants" /\ drawer.started = "drawer" /\ UNCHANGED vars
Watchers == theme = "covenants" /\ drawer.started = "watch" /\ UNCHANGED vars
MCNext ==
  \/ Next /\ UNCHANGED desks
  \/ Drawers /\ Covenants!DrawerNext
  \/ Watchers /\ Covenants!WatchNext
MCSpec == MCInit /\ [][MCNext]_<<vars, desks>>
=============================================================================
