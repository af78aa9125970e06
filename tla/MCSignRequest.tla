---- MODULE MCSignRequest ----
(***************************************************************************)
(* Five transactions: a KSPT with one input, one with two inputs and a     *)
(* covenant, one too large for the buffer, a bundle with two inputs, two   *)
(* outputs and unknown regions, and a bundle with an output that cannot be *)
(* shown.                                                                  *)
(***************************************************************************)
EXTENDS SignRequest, TLC
CONSTANTS ksptA, ksptB, ksptHuge, pskbA, pskbHidden

MCTxs == {ksptA, ksptB, ksptHuge, pskbA, pskbHidden}
MCOutputs == ksptA :> 1 @@ ksptB :> 1 @@ ksptHuge :> 1 @@ pskbA :> 2 @@ pskbHidden :> 1
MCInputs == ksptA :> 1 @@ ksptB :> 2 @@ ksptHuge :> 9 @@ pskbA :> 2 @@ pskbHidden :> 1
MCFormat == [t \in MCTxs |-> IF t \in {pskbA, pskbHidden} THEN "PSKB" ELSE "KSPT"]
MCCovenants == {ksptB, pskbHidden}
MCHidden == {pskbHidden}
MCExtended == {pskbA}
====
