---------------------------- MODULE MCFat32Save ----------------------------
(***************************************************************************)
(* Instances of Fat32Save and of the card drivers below it (SdCard), which *)
(* share no state: a behaviour follows one of the two.                     *)
(*                                                                         *)
(* One name the device saves under, besides the test's and the photo's;    *)
(* clusters in table sectors of two, so that a chain of three crosses      *)
(* sectors; two slots in a directory page, so that the photo fills one and *)
(* the first save extends the directory. Two cards of both addressings and *)
(* different capacities. A liveness property is checked, so there is no    *)
(* symmetry.                                                               *)
(***************************************************************************)
EXTENDS Fat32Save, SdCard, TLC

CONSTANTS ByteCard, BlockCard
Capacities == ByteCard :> 2 @@ BlockCard :> 3

\* A behaviour of the files: the drivers rest, on neither board.
OfFiles == board = "none"
NoDriver == /\ board = "none" /\ slot = NoCard /\ memory = <<>> /\ task = Idle
            /\ host = [type |-> "none", address |-> 0, sectors |-> 0]
            /\ pins = [owner |-> "display", select |-> FALSE] /\ power = {"rest"}
            /\ spent = [sessions |-> 0, swaps |-> 0]
MCInit == \/ Init /\ NoDriver
          \/ Init /\ page[Root] = EmptyPage /\ CardInit
MCNext == \/ OfFiles /\ Next /\ UNCHANGED cardVars
          \/ ~OfFiles /\ CardNext /\ UNCHANGED vars
MCSpec == MCInit /\ [][MCNext]_<<vars, cardVars>> /\ WF_vars(OfFiles /\ Writes)
=============================================================================
