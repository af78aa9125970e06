------------------------------ MODULE Courier ------------------------------
(***************************************************************************)
(* What the animated QR transport promises. There is no session identifier *)
(* on the wire: the only thing every frame of a transfer repeats is the    *)
(* number of frames. What a listener accepts is therefore put together, at *)
(* every position, from transfers it heard itself since it began to        *)
(* listen, all of one length; it is one transfer only if no other of that  *)
(* length was heard.                                                       *)
(***************************************************************************)
EXTENDS Integers

CONSTANT Transfers    \* a payload and a number of frames, [of, n]

VARIABLES
  open,      \* somebody is listening
  heard,     \* the transfers heard since
  accepted   \* the transfer each part of the last accepted message is from

cvars == <<open, heard, accepted>>

Patchworks(S) == UNION {[0 .. n - 1 -> {q \in S : q.n = n}] : n \in {q.n : q \in S}}

Init == open = FALSE /\ heard = {} /\ accepted = <<>>

Listen == ~open /\ open' = TRUE /\ heard' = {} /\ accepted' = <<>>

Hear == /\ open
        /\ \E q \in Transfers : heard' = heard \cup {q}
        /\ open' \in BOOLEAN
        /\ UNCHANGED accepted

Accept == /\ open
          /\ \E q \in Transfers : heard' = heard \cup {q}
          /\ accepted' \in Patchworks(heard')
          /\ open' = FALSE

Stop == open /\ open' = FALSE /\ UNCHANGED <<heard, accepted>>

Next == Listen \/ Hear \/ Accept \/ Stop

Spec == Init /\ [][Next]_cvars
=============================================================================
