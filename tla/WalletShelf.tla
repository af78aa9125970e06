---------------------------- MODULE WalletShelf ----------------------------
(***************************************************************************)
(* What the device promises about loaded wallets, with nothing about how   *)
(* it derives, caches or displays keys: a shelf with a fixed number of     *)
(* places, each empty or holding one wallet, and at most one chosen place. *)
(* A wallet is put only on an empty place, stays what it is until it is    *)
(* removed, and a place is chosen exactly when the shelf is not empty.     *)
(***************************************************************************)
CONSTANTS Places, Wallets, Nothing, NoPlace

VARIABLES shelf, chosen

shelfVars == <<shelf, chosen>>

Occupied(sh) == {p \in Places : sh[p] # Nothing}

ShelfInit == /\ shelf = [p \in Places |-> Nothing]
             /\ chosen = NoPlace

(* A new wallet goes to an empty place and becomes the chosen one. *)
Put(p) == /\ shelf[p] = Nothing
          /\ shelf'[p] \in Wallets \ {Nothing}
          /\ shelf' = [shelf EXCEPT ![p] = shelf'[p]]
          /\ chosen' = p

(* Any occupied place can become the chosen one. *)
Choose(p) == /\ shelf[p] # Nothing
             /\ chosen' = p
             /\ UNCHANGED shelf

(* Removing the chosen wallet chooses another one while there is one. *)
Remove(p) == /\ shelf[p] # Nothing
             /\ shelf' = [shelf EXCEPT ![p] = Nothing]
             /\ \/ chosen # p /\ UNCHANGED chosen
                \/ chosen = p /\ chosen' \in Occupied(shelf')
                \/ chosen = p /\ Occupied(shelf') = {} /\ chosen' = NoPlace

Clear == /\ shelf' = [p \in Places |-> Nothing]
         /\ chosen' = NoPlace

ShelfNext == \/ \E p \in Places : Put(p) \/ Choose(p) \/ Remove(p)
             \/ Clear

ShelfSpec == ShelfInit /\ [][ShelfNext]_shelfVars
=============================================================================
