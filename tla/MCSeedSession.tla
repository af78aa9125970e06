--------------------------- MODULE MCSeedSession ---------------------------
(***************************************************************************)
(* A small device for TLC: a 12-word and a 24-word mnemonic, an xprv of    *)
(* the 12-word wallet, one raw key, one or two passphrases.                *)
(***************************************************************************)
EXTENDS SeedSession, TLC

CONSTANTS zeros, halfTyped, twelveA, twelveB, twelveC, noPass, somePass, xprvA, keyA

MCHalves == {zeros, halfTyped, twelveA, twelveB, twelveC}
MCTwelve == {twelveA}
MCTwentyFour == {[lo |-> twelveB, hi |-> twelveC]}
MCNone == {}
MCXAccount == xprvA :> [wc |-> 12, lo |-> twelveA, hi |-> zeros, pp |-> noPass]
=============================================================================
