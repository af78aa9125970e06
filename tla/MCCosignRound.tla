----------------------------- MODULE MCCosignRound -----------------------------
\* Three signers, two of three needed, two 45' addresses and an older 44' one
\* whose keys are one account key and two address keys.  The positions of the
\* three differ from ring to ring, and A's keys have an odd y.
EXTENDS CosignRound

CONSTANTS A, B, C

RingP == << <<A, "p">>, <<B, "p">>, <<C, "p">> >>
RingQ == << <<B, "q">>, <<C, "q">>, <<A, "q">> >>
Ring44 == << <<C, "address">>, <<A, "account">>, <<B, "address">> >>

\* The last one names the path of another address.
InputKinds == {[ring |-> RingP, hint |-> "p"], [ring |-> RingP, hint |-> None],
               [ring |-> RingQ, hint |-> "q"], [ring |-> Ring44, hint |-> None],
               [ring |-> RingQ, hint |-> "p"]}

\* One transaction of one input or of any two, some of three that take the
\* kept key through a change and back, and two transactions side by side.
Spent(r, p) == [ring |-> r, hint |-> p]
Long == {<<Spent(RingP, "p"), Spent(Ring44, None), Spent(RingP, "p")>>,
         <<Spent(RingP, None), Spent(RingQ, None), Spent(RingP, None)>>,
         <<Spent(RingQ, "q"), Spent(RingP, None), Spent(RingQ, "q")>>}

MCPlans == {[t1 |-> s] : s \in [1..1 -> InputKinds] \cup [1..2 -> InputKinds] \cup Long}
           \cup {[t1 |-> <<Spent(RingP, "p")>>, t2 |-> <<Spent(RingP, "p"), Spent(RingQ, "q")>>]}

\* Two transactions of as many inputs, which answers can be mistaken between:
\* for the detour "stray".
MCAlike == {[t1 |-> <<Spent(RingP, "p")>>, t2 |-> <<Spent(RingP, "p")>>]}
=============================================================================
