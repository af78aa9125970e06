-------------------------------- MODULE AskNode --------------------------------
(***************************************************************************)
(* What the page may rely on when it asks a node something: a call ends    *)
(* once, with the node's answer to this very call or with a failure.  A    *)
(* failure says nothing of whether a node has handled the call, or will.   *)
(***************************************************************************)
CONSTANT Calls

VARIABLES handled,  \* calls some node has handled
          outcome   \* "none", "open", "answered" or "failed", per call

vars == <<handled, outcome>>

Init == handled = {} /\ outcome = [c \in Calls |-> "none"]

Ask(c) ==
  /\ outcome[c] = "none"
  /\ outcome' = [outcome EXCEPT ![c] = "open"]
  /\ UNCHANGED handled

Handle(c) ==
  /\ outcome[c] # "none"
  /\ handled' = handled \cup {c}
  /\ UNCHANGED outcome

Answer(c) ==
  /\ outcome[c] = "open"
  /\ c \in handled
  /\ outcome' = [outcome EXCEPT ![c] = "answered"]
  /\ UNCHANGED handled

Fail(c) ==
  /\ outcome[c] = "open"
  /\ outcome' = [outcome EXCEPT ![c] = "failed"]
  /\ UNCHANGED handled

Next == \E c \in Calls : Ask(c) \/ Handle(c) \/ Answer(c) \/ Fail(c)

Spec == Init /\ [][Next]_vars
=============================================================================
