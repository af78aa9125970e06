---- MODULE DecodeService ----
(***************************************************************************)
(* What the dual-core decoder promises to the camera loop, with no core,   *)
(* no buffer and no state byte in sight: one place that holds at most one  *)
(* job; a job is answered once, by the decoding of that very job, and is   *)
(* collected once, after its answer.  DecodeHandoff implements it.         *)
(***************************************************************************)
CONSTANTS
    Jobs,          \* a window, a resolution, a generation and a frame
    Decoded(_)     \* what the decoder makes of a job

VARIABLE slot

Empty == [phase |-> "empty"]
Asked(j) == [phase |-> "asked", job |-> j]
Answered(j) == [phase |-> "answered", job |-> j, outcome |-> Decoded(j)]

Init == slot = Empty

Ask == slot = Empty /\ \E j \in Jobs : slot' = Asked(j)

Answer == \E j \in Jobs : slot = Asked(j) /\ slot' = Answered(j)

Collect == \E j \in Jobs : slot = Answered(j) /\ slot' = Empty

Next == Ask \/ Answer \/ Collect

Spec == Init /\ [][Next]_slot
====
