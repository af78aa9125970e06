------------------------------ MODULE MCNodeLink ------------------------------
(***************************************************************************)
(* Two calls, two networks with one or two nodes each, and a node of the   *)
(* user's own; symmetric in the calls.                                     *)
(***************************************************************************)
EXTENDS NodeLink, TLC

CONSTANTS main, test

MCPublic == (main :> {"m1", "m2"}) @@ (test :> {"t1"})
MCCustoms == {"own"}
CallSymmetry == Permutations(Calls)
=============================================================================
