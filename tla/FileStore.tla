------------------------------ MODULE FileStore ------------------------------
(***************************************************************************)
(* What saving to the card promises its user, with no sector, cluster or   *)
(* slot in sight.  The store maps a name to the version a reader would be  *)
(* given.  A call works on one name: it may take the old version away, and *)
(* it may put the new one there, whole; the power may go at any moment, so *)
(* that a call under way just stops.  Whatever happens to it, every other  *)
(* name keeps its version, and no reader is given a part of one.           *)
(*                                                                         *)
(* Formatting is the exception: from its first write to its last the       *)
(* contents are unknown, and stay so if it is cut off.                     *)
(***************************************************************************)
CONSTANTS Names, Versions, Absent, Damaged, Unknown

VARIABLES store,    \* what a reader of each name is given
          work      \* the name and version of the call under way

vars == <<store, work>>

NoWork == [name |-> Absent, version |-> Absent]
Lost == store = [n \in Names |-> Unknown]

Init == /\ store \in [Names -> Versions \union {Absent, Damaged}]
        /\ work = NoWork

\* A save of version v, or (v absent) a deletion.
Begin(n, v) == work = NoWork /\ work' = [name |-> n, version |-> v] /\ UNCHANGED store

\* The old version is gone; the new one is not there yet, and may never be.
Drop == /\ work # NoWork /\ ~Lost
        /\ store' = [store EXCEPT ![work.name] = Absent]
        /\ UNCHANGED work

\* The new version appears, all of it at once.
Commit == /\ work.version \in Versions /\ ~Lost
          /\ store' = [store EXCEPT ![work.name] = work.version]
          /\ \/ UNCHANGED work
             \/ work' = NoWork
             \/ work' = [work EXCEPT !.version = Absent]

End == work # NoWork /\ work' = NoWork /\ UNCHANGED store

BeginFormat == work = NoWork /\ store' = [n \in Names |-> Unknown] /\ UNCHANGED work
EndFormat   == Lost /\ work = NoWork /\ store' = [n \in Names |-> Absent] /\ UNCHANGED work

\* A deletion's only write also ends it when nothing has to be freed.
DropAndEnd == /\ work # NoWork /\ ~Lost
              /\ store' = [store EXCEPT ![work.name] = Absent]
              /\ work' = NoWork

Next == \/ \E n \in Names, v \in Versions \union {Absent} : Begin(n, v)
        \/ Drop \/ Commit \/ End \/ DropAndEnd
        \/ BeginFormat \/ EndFormat

Spec == Init /\ [][Next]_vars
=============================================================================
