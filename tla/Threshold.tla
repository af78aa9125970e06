--------------------------------- MODULE Threshold ---------------------------------
(***************************************************************************)
(* What a multisig signing round promises, whatever carries the signatures *)
(* around: signers approve transactions, and one is paid only after M of   *)
(* them have approved that one.                                            *)
(***************************************************************************)
EXTENDS Naturals, FiniteSets

CONSTANTS Signers, Names, M

VARIABLES approved,  \* <<signer, transaction>>
          paid       \* transactions on the ledger

vars == <<approved, paid>>

Approve(d, t) ==
  /\ approved' = approved \cup {<<d, t>>}
  /\ UNCHANGED paid

Pay(t) ==
  /\ Cardinality({d \in Signers : <<d, t>> \in approved}) >= M
  /\ paid' = paid \cup {t}
  /\ UNCHANGED approved

Init == approved = {} /\ paid = {}

Next == \E t \in Names : Pay(t) \/ \E d \in Signers : Approve(d, t)

Spec == Init /\ [][Next]_vars
=============================================================================
