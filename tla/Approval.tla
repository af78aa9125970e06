------------------------------ MODULE Approval ------------------------------
(***************************************************************************)
(* What the signing device promises the person holding it: an answer is    *)
(* produced for the request that was shown page by page to its last page   *)
(* and then approved, once per approval, and for no other.                 *)
(***************************************************************************)
CONSTANTS
  Requests,   \* what can be asked of the signer
  None,       \* no request, no answer
  Pages       \* the pages of a request that have to be seen

VARIABLES
  request,    \* under review or approved, None otherwise
  seen,       \* its pages shown so far
  approved,   \* the holder said yes
  answer      \* the request the device holds a signed answer to

avars == <<request, seen, approved, answer>>

Init == request = None /\ seen = {} /\ approved = FALSE /\ answer = None

(* A new request is shown from its first page. Taking it may cost the      *)
(* answer still held.                                                      *)
Take == /\ request = None
        /\ request' \in Requests
        /\ \E p \in Pages[request'] : seen' = {p}
        /\ approved' = FALSE
        /\ answer' \in {answer, None}

Look == /\ ~approved
        /\ request # None
        /\ \E p \in Pages[request] \ seen : seen' = seen \cup {p}
        /\ UNCHANGED <<request, approved, answer>>

Approve == /\ request # None
           /\ ~approved
           /\ seen = Pages[request]
           /\ approved' = TRUE
           /\ UNCHANGED <<request, seen, answer>>

Over == request' = None /\ seen' = {} /\ approved' = FALSE

Sign == /\ approved
        /\ answer' = request
        /\ Over

Drop == request # None /\ Over /\ answer' \in {answer, None}

Forget == answer # None /\ answer' = None /\ UNCHANGED <<request, seen, approved>>

Next == Take \/ Look \/ Approve \/ Sign \/ Drop \/ Forget

Spec == Init /\ [][Next]_avars
=============================================================================
