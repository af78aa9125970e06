---------------------------- MODULE TaggedThread ----------------------------
(***************************************************************************)
(* What KasSee's two global covenants promise of the coins they hold: the  *)
(* whole balance is one thread; a capped holder takes at most rules.max of *)
(* it and only when the thread has rested for rules.wait; whoever adds to  *)
(* it under the cap starts the rest again.  The owner of an allowance      *)
(* (rules.free) may take the thread back at any time.  Nobody ever makes   *)
(* two threads of one, and a thread that is gone does not come back.       *)
(***************************************************************************)
EXTENDS Integers, FiniteSets

CONSTANT Rules  \* the terms a covenant may have: [max : Nat, wait : Nat, free : BOOLEAN]

VARIABLES rules, threads, clock
vars == <<rules, threads, clock>>

Thread(h) == [held |-> h, since |-> clock]
Rested(t) == clock >= t.since + rules.wait

Init == /\ rules \in Rules /\ clock = 0
        /\ Cardinality(threads) <= 1
        /\ \A t \in threads : t.held > 0 /\ t.since = 0

Draw == \E t \in threads, k \in 0..rules.max :
           /\ Rested(t) /\ k < t.held
           /\ threads' = {Thread(t.held - k)}
           /\ UNCHANGED <<rules, clock>>
Close == \E t \in threads :
           /\ Rested(t) /\ t.held <= rules.max
           /\ threads' = {}
           /\ UNCHANGED <<rules, clock>>
Add == \E t \in threads, u \in threads' :
           /\ rules.free \/ Rested(t)
           /\ u.held >= t.held
           /\ threads' = {Thread(u.held)}
           /\ UNCHANGED <<rules, clock>>
Reclaim == /\ rules.free /\ threads # {}
           /\ \A u \in threads' : u.held > 0 /\ threads' = {Thread(u.held)}
           /\ UNCHANGED <<rules, clock>>
Tick == clock' = clock + 1 /\ UNCHANGED <<rules, threads>>

Next == Draw \/ Close \/ Add \/ Reclaim \/ Tick
Spec == Init /\ [][Next]_vars
=============================================================================
