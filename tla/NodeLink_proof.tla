--------------------------- MODULE NodeLink_proof ---------------------------
(***************************************************************************)
(* Proofs about NodeLink, for any calls, nodes, networks and attempts.     *)
(*                                                                         *)
(* That no call gets another's answer rests on replies without an id: such *)
(* a reply goes to the only call that waits, so whatever can still be      *)
(* heard must be waited for (Awaited).  A call that gives up leaves a      *)
(* reply behind that nobody waits for, but it drops its socket before any  *)
(* other event.                                                            *)
(***************************************************************************)
EXTENDS NodeLink, FiniteSetTheorems, TLAPS

-----------------------------------------------------------------------------
Urls == (UNION {Public[n] : n \in Networks}) \cup Customs \cup {None}
States == {"connecting", "open", "closing", "closed"}
Socket == [url : Urls, state : States]
Request == [id : Calls \X Nat, gen : Nat, call : Calls]
Letter == [kind : {"request", "reply"}, named : BOOLEAN, id : Calls \X Nat, gen : Nat, call : Calls]
Results == {None, "ok", "no socket", "error", "closed", "timeout", "node error", "failed"}
Stages == {"idle", "begin", "resolving", "send", "waiting", "resumed", "done"}
CallState ==
  [pc : Stages,
   attempt : Nat, fallback : BOOLEAN, url : Urls, net : Networks \cup {None},
   gen : Nat \cup {None}, result : Results, of : Calls \cup {None}]

TypeOK ==
  /\ network \in Networks /\ custom \in Customs \cup {None}
  /\ resolved \in {None} \cup [url : Urls, net : Networks]
  /\ sockets \in Seq(Socket) /\ pool \in DOMAIN sockets \cup {None}
  /\ pending \subseteq Request /\ outbox \subseteq Request /\ wire \subseteq Letter
  /\ \A r \in pending \cup outbox \cup wire : r.gen \in DOMAIN sockets
  /\ call \in [Calls -> CallState]
  /\ served \subseteq Calls /\ switches \in Nat

\* Only the pooled socket is live.
OneLive == \A g \in DOMAIN sockets : sockets[g].state \in Live => pool = g

\* A pending request is the one its call waits for, and may still be ended by
\* its socket; every call that waits has one.
Riding ==
  /\ \A p \in pending :
       /\ call[p.call].pc = "waiting"
       /\ p.id = RequestId(p.call) /\ p.gen = call[p.call].gen
       /\ sockets[p.gen].state # "closed"
  /\ \A c \in Calls : call[c].pc = "waiting" => \E p \in pending : p.call = c

\* A queued request is for a socket that is still to open.
Queued == \A r \in outbox : sockets[r.gen].state \in {"connecting", "closing"}

\* What was asked carries the number of an attempt made, and no two things
\* carry the same.
Numbered ==
  \A r \in outbox \cup wire :
    LET k == call[r.call] IN
    /\ r.id[1] = r.call /\ k.pc # "idle"
    /\ k.pc # "done" => r.id[2] <= k.attempt
    /\ k.pc \in {"begin", "resolving", "send"} => r.id[2] < k.attempt
Sole ==
  /\ \A m, n \in wire : m.id = n.id => m = n
  /\ \A r, q \in outbox : r.id = q.id => r = q
  /\ \A m \in wire, r \in outbox : m.id # r.id

\* What may still be heard on a live socket is waited for, or its call has
\* just given up and is about to drop the socket.
Awaited ==
  \A r \in outbox \cup wire : sockets[r.gen].state \in Live =>
    \/ \E p \in pending : p.id = r.id /\ p.gen = r.gen
    \/ LET k == call[r.call] IN k.pc = "resumed" /\ k.result = "timeout" /\ k.gen = r.gen

\* A reply is of a call that was handled, a result that of its own call.
Truthful ==
  /\ \A m \in wire : m.kind = "reply" => m.call \in served
  /\ \A c \in Calls : call[c].result = "ok" =>
       call[c].pc \in {"resumed", "done"} /\ call[c].of = c /\ c \in served
Kept == OneLive /\ Riding /\ Queued /\ Numbered /\ Sole /\ Awaited /\ Truthful

-----------------------------------------------------------------------------
(* Operators. *)

(* Closing a set of sockets closes those of them that are live.            *)
LEMMA ClosingSockets ==
  ASSUME sockets \in Seq(Socket), NEW S
  PROVE  /\ Closing(S) \in Seq(Socket) /\ Len(Closing(S)) = Len(sockets)
         /\ DOMAIN Closing(S) = DOMAIN sockets
         /\ \A g \in DOMAIN sockets :
              /\ Closing(S)[g].url = sockets[g].url
              /\ Closing(S)[g].state =
                   IF g \in S /\ sockets[g].state \in Live THEN "closing" ELSE sockets[g].state
<1> DEFINE n == Len(sockets)
<1>1. n \in Nat /\ DOMAIN sockets = 1 .. n /\ \A g \in 1 .. n : sockets[g] \in Socket
  OBVIOUS
<1>2. Closing(S) \in [1 .. n -> Socket]
  BY <1>1 DEF Closing, Socket, States
<1>3. \A g \in DOMAIN sockets :
        /\ Closing(S)[g].url = sockets[g].url
        /\ Closing(S)[g].state =
             IF g \in S /\ sockets[g].state \in Live THEN "closing" ELSE sockets[g].state
  BY <1>1 DEF Closing, Socket
<1>4. QED BY <1>1, <1>2, <1>3

(* A set of one element has just that one.                                 *)
LEMMA OnlyOne ==
  ASSUME NEW S, IsFiniteSet(S), Cardinality(S) = 1 PROVE \E x : S = {x}
<1>1. PICK x : x \in S
  BY FS_EmptySet
<1>2. IsFiniteSet(S \ {x}) /\ Cardinality(S \ {x}) = 0
  BY <1>1, FS_RemoveElement
<1>3. S \ {x} = {}
  BY <1>2, FS_EmptySet
<1>4. QED BY <1>1, <1>3

(* What the handlers make of a call.  A record is updated field by field.  *)

LEMMA PcUpdate ==
  ASSUME NEW k \in CallState, NEW v \in Stages
  PROVE  LET r == [k EXCEPT !.pc = v]
         IN  /\ r \in CallState
             /\ r.pc = v /\ r.attempt = k.attempt /\ r.fallback = k.fallback
             /\ r.url = k.url /\ r.net = k.net /\ r.gen = k.gen
             /\ r.result = k.result /\ r.of = k.of
<1>1. [k EXCEPT !.pc = v] \in CallState
  BY DEF CallState
<1>2. QED
  BY <1>1 DEF CallState

LEMMA AttemptUpdate ==
  ASSUME NEW k \in CallState, NEW v \in Nat
  PROVE  LET r == [k EXCEPT !.attempt = v]
         IN  /\ r \in CallState
             /\ r.pc = k.pc /\ r.attempt = v /\ r.fallback = k.fallback
             /\ r.url = k.url /\ r.net = k.net /\ r.gen = k.gen
             /\ r.result = k.result /\ r.of = k.of
<1>1. [k EXCEPT !.attempt = v] \in CallState
  BY DEF CallState
<1>2. QED
  BY <1>1 DEF CallState

LEMMA FallbackUpdate ==
  ASSUME NEW k \in CallState, NEW v \in BOOLEAN
  PROVE  LET r == [k EXCEPT !.fallback = v]
         IN  /\ r \in CallState
             /\ r.pc = k.pc /\ r.attempt = k.attempt /\ r.fallback = v
             /\ r.url = k.url /\ r.net = k.net /\ r.gen = k.gen
             /\ r.result = k.result /\ r.of = k.of
<1>1. [k EXCEPT !.fallback = v] \in CallState
  BY DEF CallState
<1>2. QED
  BY <1>1 DEF CallState

LEMMA UrlUpdate ==
  ASSUME NEW k \in CallState, NEW v \in Urls
  PROVE  LET r == [k EXCEPT !.url = v]
         IN  /\ r \in CallState
             /\ r.pc = k.pc /\ r.attempt = k.attempt /\ r.fallback = k.fallback
             /\ r.url = v /\ r.net = k.net /\ r.gen = k.gen
             /\ r.result = k.result /\ r.of = k.of
<1>1. [k EXCEPT !.url = v] \in CallState
  BY DEF CallState
<1>2. QED
  BY <1>1 DEF CallState

LEMMA NetUpdate ==
  ASSUME NEW k \in CallState, NEW v \in Networks \cup {None}
  PROVE  LET r == [k EXCEPT !.net = v]
         IN  /\ r \in CallState
             /\ r.pc = k.pc /\ r.attempt = k.attempt /\ r.fallback = k.fallback
             /\ r.url = k.url /\ r.net = v /\ r.gen = k.gen
             /\ r.result = k.result /\ r.of = k.of
<1>1. [k EXCEPT !.net = v] \in CallState
  BY DEF CallState
<1>2. QED
  BY <1>1 DEF CallState

LEMMA GenUpdate ==
  ASSUME NEW k \in CallState, NEW v \in Nat \cup {None}
  PROVE  LET r == [k EXCEPT !.gen = v]
         IN  /\ r \in CallState
             /\ r.pc = k.pc /\ r.attempt = k.attempt /\ r.fallback = k.fallback
             /\ r.url = k.url /\ r.net = k.net /\ r.gen = v
             /\ r.result = k.result /\ r.of = k.of
<1>1. [k EXCEPT !.gen = v] \in CallState
  BY DEF CallState
<1>2. QED
  BY <1>1 DEF CallState

LEMMA ResultUpdate ==
  ASSUME NEW k \in CallState, NEW v \in Results
  PROVE  LET r == [k EXCEPT !.result = v]
         IN  /\ r \in CallState
             /\ r.pc = k.pc /\ r.attempt = k.attempt /\ r.fallback = k.fallback
             /\ r.url = k.url /\ r.net = k.net /\ r.gen = k.gen
             /\ r.result = v /\ r.of = k.of
<1>1. [k EXCEPT !.result = v] \in CallState
  BY DEF CallState
<1>2. QED
  BY <1>1 DEF CallState

LEMMA OfUpdate ==
  ASSUME NEW k \in CallState, NEW v \in Calls \cup {None}
  PROVE  LET r == [k EXCEPT !.of = v]
         IN  /\ r \in CallState
             /\ r.pc = k.pc /\ r.attempt = k.attempt /\ r.fallback = k.fallback
             /\ r.url = k.url /\ r.net = k.net /\ r.gen = k.gen
             /\ r.result = k.result /\ r.of = v
<1>1. [k EXCEPT !.of = v] \in CallState
  BY DEF CallState
<1>2. QED
  BY <1>1 DEF CallState

(* The updates the handlers make, by name. *)
Begun(k) == [k EXCEPT !.pc = "begin", !.net = network]
Located(k, u) == [k EXCEPT !.pc = "send", !.url = u]
Sent(k, g) == [k EXCEPT !.pc = "waiting", !.gen = g]
Unsent(k) == [k EXCEPT !.pc = "resumed", !.result = "no socket", !.gen = None]
Resolved(k, why, whose) == [k EXCEPT !.pc = "resumed", !.result = why, !.of = whose]

(* Start.                                                                  *)
LEMMA BeginEffect ==
  ASSUME NEW k \in CallState, network \in Networks
  PROVE  LET r == Begun(k)
         IN  /\ r \in CallState
             /\ r.pc = "begin" /\ r.attempt = k.attempt /\ r.fallback = k.fallback
             /\ r.url = k.url /\ r.net = network /\ r.gen = k.gen
             /\ r.result = k.result /\ r.of = k.of
<1> DEFINE a == [k EXCEPT !.pc = "begin"]
           b == [a EXCEPT !.net = network]
<1>1. /\ a \in CallState
      /\ a.pc = "begin" /\ a.attempt = k.attempt /\ a.fallback = k.fallback
      /\ a.url = k.url /\ a.net = k.net /\ a.gen = k.gen
      /\ a.result = k.result /\ a.of = k.of
  BY PcUpdate DEF Stages
<1>2. /\ b \in CallState
      /\ b.pc = a.pc /\ b.attempt = a.attempt /\ b.fallback = a.fallback
      /\ b.url = a.url /\ b.net = network /\ b.gen = a.gen
      /\ b.result = a.result /\ b.of = a.of
  <2> HIDE DEF a
  <2> QED BY <1>1, NetUpdate
<1>3. Begun(k) = b
  BY DEF Begun
<1> HIDE DEF a, b
<1> QED BY <1>1, <1>2, <1>3

(* A node was found.                                                       *)
LEMMA UrlEffect ==
  ASSUME NEW k \in CallState, NEW u \in Urls
  PROVE  LET r == Located(k, u)
         IN  /\ r \in CallState
             /\ r.pc = "send" /\ r.attempt = k.attempt /\ r.fallback = k.fallback
             /\ r.url = u /\ r.net = k.net /\ r.gen = k.gen
             /\ r.result = k.result /\ r.of = k.of
<1> DEFINE a == [k EXCEPT !.pc = "send"]
           b == [a EXCEPT !.url = u]
<1>1. /\ a \in CallState
      /\ a.pc = "send" /\ a.attempt = k.attempt /\ a.fallback = k.fallback
      /\ a.url = k.url /\ a.net = k.net /\ a.gen = k.gen
      /\ a.result = k.result /\ a.of = k.of
  BY PcUpdate DEF Stages
<1>2. /\ b \in CallState
      /\ b.pc = a.pc /\ b.attempt = a.attempt /\ b.fallback = a.fallback
      /\ b.url = u /\ b.net = a.net /\ b.gen = a.gen
      /\ b.result = a.result /\ b.of = a.of
  <2> HIDE DEF a
  <2> QED BY <1>1, UrlUpdate
<1>3. Located(k, u) = b
  BY DEF Located
<1> HIDE DEF a, b
<1> QED BY <1>1, <1>2, <1>3

(* A request was made.                                                     *)
LEMMA SentEffect ==
  ASSUME NEW k \in CallState, NEW g \in Nat
  PROVE  LET r == Sent(k, g)
         IN  /\ r \in CallState
             /\ r.pc = "waiting" /\ r.attempt = k.attempt /\ r.fallback = k.fallback
             /\ r.url = k.url /\ r.net = k.net /\ r.gen = g
             /\ r.result = k.result /\ r.of = k.of
<1> DEFINE a == [k EXCEPT !.pc = "waiting"]
           b == [a EXCEPT !.gen = g]
<1>1. /\ a \in CallState
      /\ a.pc = "waiting" /\ a.attempt = k.attempt /\ a.fallback = k.fallback
      /\ a.url = k.url /\ a.net = k.net /\ a.gen = k.gen
      /\ a.result = k.result /\ a.of = k.of
  BY PcUpdate DEF Stages
<1>2. /\ b \in CallState
      /\ b.pc = a.pc /\ b.attempt = a.attempt /\ b.fallback = a.fallback
      /\ b.url = a.url /\ b.net = a.net /\ b.gen = g
      /\ b.result = a.result /\ b.of = a.of
  <2> HIDE DEF a
  <2> QED BY <1>1, GenUpdate
<1>3. Sent(k, g) = b
  BY DEF Sent
<1> HIDE DEF a, b
<1> QED BY <1>1, <1>2, <1>3

(* No socket could be had.                                                 *)
LEMMA NoSocketEffect ==
  ASSUME NEW k \in CallState
  PROVE  LET r == Unsent(k)
         IN  /\ r \in CallState
             /\ r.pc = "resumed" /\ r.attempt = k.attempt /\ r.fallback = k.fallback
             /\ r.url = k.url /\ r.net = k.net /\ r.gen = None
             /\ r.result = "no socket" /\ r.of = k.of
<1> DEFINE a == [k EXCEPT !.pc = "resumed"]
           b == [a EXCEPT !.result = "no socket"]
           d == [b EXCEPT !.gen = None]
<1>1. /\ a \in CallState
      /\ a.pc = "resumed" /\ a.attempt = k.attempt /\ a.fallback = k.fallback
      /\ a.url = k.url /\ a.net = k.net /\ a.gen = k.gen
      /\ a.result = k.result /\ a.of = k.of
  BY PcUpdate DEF Stages
<1>2. /\ b \in CallState
      /\ b.pc = a.pc /\ b.attempt = a.attempt /\ b.fallback = a.fallback
      /\ b.url = a.url /\ b.net = a.net /\ b.gen = a.gen
      /\ b.result = "no socket" /\ b.of = a.of
  <2> HIDE DEF a
  <2> QED BY <1>1, ResultUpdate DEF Results
<1>3. /\ d \in CallState
      /\ d.pc = b.pc /\ d.attempt = b.attempt /\ d.fallback = b.fallback
      /\ d.url = b.url /\ d.net = b.net /\ d.gen = None
      /\ d.result = b.result /\ d.of = b.of
  <2> HIDE DEF b
  <2> QED BY <1>2, GenUpdate
<1>4. Unsent(k) = d
  BY DEF Unsent
<1> HIDE DEF a, b, d
<1> QED BY <1>1, <1>2, <1>3, <1>4

(* The call is resolved.                                                   *)
LEMMA ResumedEffect ==
  ASSUME NEW k \in CallState, NEW why \in Results, NEW whose \in Calls \cup {None}
  PROVE  LET r == Resolved(k, why, whose)
         IN  /\ r \in CallState
             /\ r.pc = "resumed" /\ r.attempt = k.attempt /\ r.fallback = k.fallback
             /\ r.url = k.url /\ r.net = k.net /\ r.gen = k.gen
             /\ r.result = why /\ r.of = whose
<1> DEFINE a == [k EXCEPT !.pc = "resumed"]
           b == [a EXCEPT !.result = why]
           d == [b EXCEPT !.of = whose]
<1>1. /\ a \in CallState
      /\ a.pc = "resumed" /\ a.attempt = k.attempt /\ a.fallback = k.fallback
      /\ a.url = k.url /\ a.net = k.net /\ a.gen = k.gen
      /\ a.result = k.result /\ a.of = k.of
  BY PcUpdate DEF Stages
<1>2. /\ b \in CallState
      /\ b.pc = a.pc /\ b.attempt = a.attempt /\ b.fallback = a.fallback
      /\ b.url = a.url /\ b.net = a.net /\ b.gen = a.gen
      /\ b.result = why /\ b.of = a.of
  <2> HIDE DEF a
  <2> QED BY <1>1, ResultUpdate
<1>3. /\ d \in CallState
      /\ d.pc = b.pc /\ d.attempt = b.attempt /\ d.fallback = b.fallback
      /\ d.url = b.url /\ d.net = b.net /\ d.gen = b.gen
      /\ d.result = b.result /\ d.of = whose
  <2> HIDE DEF b
  <2> QED BY <1>2, OfUpdate
<1>4. Resolved(k, why, whose) = d
  BY DEF Resolved
<1> HIDE DEF a, b, d
<1> QED BY <1>1, <1>2, <1>3, <1>4

(* The call is tried again.                                                *)
LEMMA AgainEffect ==
  ASSUME NEW k \in CallState, network \in Networks
  PROVE  LET r == Again(k)
         IN  /\ r \in CallState
             /\ r.pc = "begin" /\ r.attempt = k.attempt + 1 /\ r.fallback = k.fallback
             /\ r.url = k.url /\ r.net = network /\ r.gen = None
             /\ r.result = k.result /\ r.of = k.of
<1> DEFINE a == [k EXCEPT !.pc = "begin"]
           b == [a EXCEPT !.attempt = k.attempt + 1]
           d == [b EXCEPT !.net = network]
           e == [d EXCEPT !.gen = None]
<1>1. /\ a \in CallState
      /\ a.pc = "begin" /\ a.attempt = k.attempt /\ a.fallback = k.fallback
      /\ a.url = k.url /\ a.net = k.net /\ a.gen = k.gen
      /\ a.result = k.result /\ a.of = k.of
  BY PcUpdate DEF Stages
<1>2. /\ b \in CallState
      /\ b.pc = a.pc /\ b.attempt = k.attempt + 1 /\ b.fallback = a.fallback
      /\ b.url = a.url /\ b.net = a.net /\ b.gen = a.gen
      /\ b.result = a.result /\ b.of = a.of
  <2> HIDE DEF a
  <2> QED BY <1>1, AttemptUpdate DEF CallState
<1>3. /\ d \in CallState
      /\ d.pc = b.pc /\ d.attempt = b.attempt /\ d.fallback = b.fallback
      /\ d.url = b.url /\ d.net = network /\ d.gen = b.gen
      /\ d.result = b.result /\ d.of = b.of
  <2> HIDE DEF b
  <2> QED BY <1>2, NetUpdate
<1>4. /\ e \in CallState
      /\ e.pc = d.pc /\ e.attempt = d.attempt /\ e.fallback = d.fallback
      /\ e.url = d.url /\ e.net = d.net /\ e.gen = None
      /\ e.result = d.result /\ e.of = d.of
  <2> HIDE DEF d
  <2> QED BY <1>3, GenUpdate
<1>5. Again(k) = e
  BY DEF Again
<1> HIDE DEF a, b, d, e
<1> QED BY <1>1, <1>2, <1>3, <1>4, <1>5

(* The call is tried at a public node.                                     *)
LEMMA ToPublicEffect ==
  ASSUME NEW k \in CallState, network \in Networks
  PROVE  LET r == ToPublic(k)
         IN  /\ r \in CallState
             /\ r.pc = "resolving" /\ r.attempt = k.attempt + 1 /\ r.fallback = TRUE
             /\ r.url = k.url /\ r.net = network /\ r.gen = None
             /\ r.result = k.result /\ r.of = k.of
<1> DEFINE a == [k EXCEPT !.pc = "resolving"]
           b == [a EXCEPT !.attempt = k.attempt + 1]
           d == [b EXCEPT !.fallback = TRUE]
           e == [d EXCEPT !.net = network]
           f == [e EXCEPT !.gen = None]
<1>1. /\ a \in CallState
      /\ a.pc = "resolving" /\ a.attempt = k.attempt /\ a.fallback = k.fallback
      /\ a.url = k.url /\ a.net = k.net /\ a.gen = k.gen
      /\ a.result = k.result /\ a.of = k.of
  BY PcUpdate DEF Stages
<1>2. /\ b \in CallState
      /\ b.pc = a.pc /\ b.attempt = k.attempt + 1 /\ b.fallback = a.fallback
      /\ b.url = a.url /\ b.net = a.net /\ b.gen = a.gen
      /\ b.result = a.result /\ b.of = a.of
  <2> HIDE DEF a
  <2> QED BY <1>1, AttemptUpdate DEF CallState
<1>3. /\ d \in CallState
      /\ d.pc = b.pc /\ d.attempt = b.attempt /\ d.fallback = TRUE
      /\ d.url = b.url /\ d.net = b.net /\ d.gen = b.gen
      /\ d.result = b.result /\ d.of = b.of
  <2> HIDE DEF b
  <2> QED BY <1>2, FallbackUpdate
<1>4. /\ e \in CallState
      /\ e.pc = d.pc /\ e.attempt = d.attempt /\ e.fallback = d.fallback
      /\ e.url = d.url /\ e.net = network /\ e.gen = d.gen
      /\ e.result = d.result /\ e.of = d.of
  <2> HIDE DEF d
  <2> QED BY <1>3, NetUpdate
<1>5. /\ f \in CallState
      /\ f.pc = e.pc /\ f.attempt = e.attempt /\ f.fallback = e.fallback
      /\ f.url = e.url /\ f.net = e.net /\ f.gen = None
      /\ f.result = e.result /\ f.of = e.of
  <2> HIDE DEF e
  <2> QED BY <1>4, GenUpdate
<1>6. ToPublic(k) = f
  BY DEF ToPublic
<1> HIDE DEF a, b, d, e, f
<1> QED BY <1>1, <1>2, <1>3, <1>4, <1>5, <1>6

LEMMA FreshCall ==
  /\ Fresh \in CallState
  /\ Fresh.pc = "idle" /\ Fresh.attempt = 1 /\ Fresh.fallback = FALSE /\ Fresh.url = None
  /\ Fresh.net = None /\ Fresh.gen = None /\ Fresh.result = None /\ Fresh.of = None
BY DEF Fresh, CallState, Stages, Results, Urls

(* The call ends.                                                          *)
LEMMA EndedEffect ==
  ASSUME NEW k \in CallState
  PROVE  LET r == Ended(k)
         IN  /\ r \in CallState
             /\ r.pc = "done" /\ r.attempt = 1 /\ r.url = None /\ r.net = None /\ r.gen = None
             /\ r.result = (IF k.result = "ok" THEN "ok" ELSE "failed") /\ r.of = k.of
<1> DEFINE w == IF k.result = "ok" THEN "ok" ELSE "failed"
           a == [Fresh EXCEPT !.pc = "done"]
           b == [a EXCEPT !.result = w]
           d == [b EXCEPT !.of = k.of]
<1>1. /\ a \in CallState
      /\ a.pc = "done" /\ a.attempt = 1 /\ a.url = None /\ a.net = None /\ a.gen = None
  BY PcUpdate, FreshCall DEF Stages
<1>2. w \in Results
  BY DEF Results
<1>3. /\ b \in CallState
      /\ b.pc = a.pc /\ b.attempt = a.attempt /\ b.url = a.url /\ b.net = a.net
      /\ b.gen = a.gen /\ b.result = w
  <2> HIDE DEF a, w
  <2> QED BY <1>1, <1>2, ResultUpdate
<1>4. k.of \in Calls \cup {None}
  BY DEF CallState
<1>5. /\ d \in CallState
      /\ d.pc = b.pc /\ d.attempt = b.attempt /\ d.url = b.url /\ d.net = b.net
      /\ d.gen = b.gen /\ d.result = b.result /\ d.of = k.of
  <2> HIDE DEF b
  <2> QED BY <1>3, <1>4, OfUpdate
<1>6. Ended(k) = d
  BY DEF Ended
<1> HIDE DEF a, b, d
<1> QED BY <1>1, <1>3, <1>5, <1>6
(* The calls of a set are resolved, the others are untouched.              *)
LEMMA ResumedCalls ==
  ASSUME call \in [Calls -> CallState], NEW S, NEW why \in Results,
         NEW whose \in Calls \cup {None}
  PROVE  /\ Resumed(S, why, whose) \in [Calls -> CallState]
         /\ \A c \in Calls \ S : Resumed(S, why, whose)[c] = call[c]
         /\ \A c \in S \cap Calls :
              LET r == Resumed(S, why, whose)[c]
                  k == call[c]
              IN  /\ r.pc = "resumed" /\ r.result = why /\ r.of = whose
                  /\ r.attempt = k.attempt /\ r.url = k.url /\ r.net = k.net /\ r.gen = k.gen
<1>1. ASSUME NEW c \in Calls
      PROVE  LET r == Resumed(S, why, whose)[c]
                 k == call[c]
             IN  /\ r \in CallState
                 /\ c \notin S => r = k
                 /\ c \in S =>
                      /\ r.pc = "resumed" /\ r.result = why /\ r.of = whose
                      /\ r.attempt = k.attempt /\ r.url = k.url /\ r.net = k.net /\ r.gen = k.gen
  <2>1. call[c] \in CallState
    OBVIOUS
  <2>2. Resumed(S, why, whose)[c] = IF c \in S THEN Resolved(call[c], why, whose) ELSE call[c]
    BY DEF Resumed, Resolved
  <2>3. QED
    BY <2>1, <2>2, ResumedEffect
<1>2. Resumed(S, why, whose) = [c \in Calls |-> Resumed(S, why, whose)[c]]
  BY DEF Resumed
<1>3. \A c \in Calls : Resumed(S, why, whose)[c] \in CallState
  BY <1>1
<1>4. Resumed(S, why, whose) \in [Calls -> CallState]
  <2> HIDE DEF Resumed
  <2> QED BY <1>2, <1>3
<1>5. QED
  BY <1>1, <1>4

(* The same of a step that resolves them.                                  *)
LEMMA ResumedStep ==
  ASSUME call \in [Calls -> CallState], NEW S, NEW why \in Results,
         NEW whose \in Calls \cup {None}, call' = Resumed(S, why, whose)
  PROVE  /\ call' \in [Calls -> CallState]
         /\ \A c \in Calls \ S : call'[c] = call[c]
         /\ \A c \in Calls : c \in S =>
              /\ call'[c].pc = "resumed" /\ call'[c].result = why /\ call'[c].of = whose
              /\ call'[c].attempt = call[c].attempt /\ call'[c].gen = call[c].gen
              /\ call'[c].url = call[c].url /\ call'[c].net = call[c].net
<1>1. call' = [c \in Calls |-> IF c \in S THEN Resolved(call[c], why, whose) ELSE call[c]]
  BY DEF Resumed, Resolved
<1>2. ASSUME NEW c \in Calls
      PROVE  /\ call'[c] \in CallState
             /\ c \notin S => call'[c] = call[c]
             /\ c \in S =>
                  /\ call'[c].pc = "resumed" /\ call'[c].result = why /\ call'[c].of = whose
                  /\ call'[c].attempt = call[c].attempt /\ call'[c].gen = call[c].gen
                  /\ call'[c].url = call[c].url /\ call'[c].net = call[c].net
  <2>1. call[c] \in CallState /\ call'[c] = IF c \in S THEN Resolved(call[c], why, whose) ELSE call[c]
    BY <1>1
  <2>2. QED BY <2>1, ResumedEffect
<1>3. call' \in [Calls -> CallState]
  BY <1>1, <1>2
<1>4. QED BY <1>2, <1>3

-----------------------------------------------------------------------------
(* What each step of a call makes of it. *)

(* One call becomes k.                                                     *)
LEMMA OneCall ==
  ASSUME call \in [Calls -> CallState], NEW c \in Calls, NEW k \in CallState,
         call' = [call EXCEPT ![c] = k]
  PROVE  /\ call' \in [Calls -> CallState]
         /\ call'[c] = k
         /\ \A d \in Calls \ {c} : call'[d] = call[d]
OBVIOUS

LEMMA StartCall ==
  ASSUME TypeOK, NEW c \in Calls, Start(c)
  PROVE  /\ call' \in [Calls -> CallState]
         /\ \A d \in Calls \ {c} : call'[d] = call[d]
         /\ call'[c].pc = "begin" /\ call'[c].net = network
         /\ call'[c].attempt = call[c].attempt /\ call'[c].result = call[c].result
<1>1. call[c] \in CallState
  BY DEF TypeOK
<1>2. call' = [call EXCEPT ![c] = Begun(call[c])]
  BY DEF Start, Begun
<1>3. QED BY <1>1, <1>2, BeginEffect, OneCall DEF TypeOK

LEMMA BeginCall ==
  ASSUME TypeOK, NEW c \in Calls, Begin(c)
  PROVE  /\ call' \in [Calls -> CallState]
         /\ \A d \in Calls \ {c} : call'[d] = call[d]
         /\ \/ /\ call'[c].pc = "send"
               /\ \/ custom # None /\ call'[c].url = custom
                  \/ custom = None /\ Cached /\ call'[c].url = resolved.url
            \/ call'[c].pc = "resolving" /\ call'[c].url = call[c].url
         /\ call'[c].attempt = call[c].attempt /\ call'[c].result = call[c].result
         /\ call'[c].net = call[c].net
<1> DEFINE k == call[c]
<1>1. k \in CallState
  BY DEF TypeOK
<1>2. CASE custom # None
  <2>1. custom \in Urls
    BY <1>2 DEF TypeOK, Urls
  <2>2. call' = [call EXCEPT ![c] = Located(k, custom)]
    BY <1>2 DEF Begin, Located
  <2>3. QED BY <1>1, <1>2, <2>1, <2>2, UrlEffect, OneCall DEF TypeOK
<1>3. CASE custom = None /\ Cached
  <2>1. resolved.url \in Urls
    BY <1>3 DEF TypeOK, Cached
  <2>2. call' = [call EXCEPT ![c] = Located(k, resolved.url)]
    BY <1>3 DEF Begin, Located
  <2>3. QED BY <1>1, <1>3, <2>1, <2>2, UrlEffect, OneCall DEF TypeOK
<1>4. CASE custom = None /\ ~Cached
  <2>1. call' = [call EXCEPT ![c] = [k EXCEPT !.pc = "resolving"]]
    BY <1>4 DEF Begin
  <2>2. "resolving" \in Stages
    BY DEF Stages
  <2>3. QED BY <1>1, <2>1, <2>2, PcUpdate, OneCall DEF TypeOK
<1>5. QED BY <1>2, <1>3, <1>4

LEMMA AnswersCall ==
  ASSUME TypeOK, NEW c \in Calls, NEW url \in UNION {Public[n] : n \in Networks},
         ResolverAnswers(c, url)
  PROVE  /\ call' \in [Calls -> CallState] /\ url \in Urls
         /\ \A d \in Calls \ {c} : call'[d] = call[d]
         /\ call'[c].pc = "send" /\ call'[c].url = url
         /\ call'[c].attempt = call[c].attempt /\ call'[c].result = call[c].result
         /\ call'[c].net = call[c].net
<1>1. call[c] \in CallState /\ url \in Urls
  BY DEF TypeOK, Urls
<1>2. call' = [call EXCEPT ![c] = Located(call[c], url)]
  BY DEF ResolverAnswers, Located
<1>3. QED BY <1>1, <1>2, UrlEffect, OneCall DEF TypeOK

LEMMA FailsCall ==
  ASSUME TypeOK, NEW c \in Calls, ResolverFails(c)
  PROVE  /\ call' \in [Calls -> CallState]
         /\ \A d \in Calls \ {c} : call'[d] = call[d]
         /\ call'[c].pc = "done" /\ call'[c].of = call[c].of
         /\ call'[c].result = IF call[c].result = "ok" THEN "ok" ELSE "failed"
<1>1. call[c] \in CallState
  BY DEF TypeOK
<1>2. call' = [call EXCEPT ![c] = Ended(call[c])]
  BY DEF ResolverFails
<1>3. QED BY <1>1, <1>2, EndedEffect, OneCall DEF TypeOK

LEMMA CannotOpenCall ==
  ASSUME TypeOK, NEW c \in Calls, CannotOpen(c)
  PROVE  /\ call' \in [Calls -> CallState]
         /\ \A d \in Calls \ {c} : call'[d] = call[d]
         /\ call'[c].pc = "resumed" /\ call'[c].result = "no socket" /\ call'[c].gen = None
         /\ call'[c].attempt = call[c].attempt /\ call'[c].net = call[c].net
         /\ call'[c].of = call[c].of
<1>1. call[c] \in CallState
  BY DEF TypeOK
<1>2. call' = [call EXCEPT ![c] = Unsent(call[c])]
  BY DEF CannotOpen, Unsent
<1>3. QED BY <1>1, <1>2, NoSocketEffect, OneCall DEF TypeOK

\* The request a call makes.
Asked(c) == [id |-> RequestId(c), gen |-> pool', call |-> c]

(* Sending uses the pooled socket or opens a new one in its place; the     *)
(* request goes out, or waits for the socket to open.                      *)
LEMMA SendEffect ==
  ASSUME TypeOK, NEW c \in Calls, Send(c)
  PROVE  /\ sockets' \in Seq(Socket) /\ pool' \in DOMAIN sockets'
         /\ DOMAIN sockets \subseteq DOMAIN sockets'
         /\ \/ pool' = pool /\ sockets' = sockets /\ Reusable(call[c].url)
            \/ /\ pool' \notin DOMAIN sockets
               /\ sockets'[pool'].state = "connecting" /\ sockets'[pool'].url = call[c].url
               /\ DOMAIN sockets' = DOMAIN sockets \cup {pool'}
               /\ \A g \in DOMAIN sockets :
                    sockets'[g].state = IF g = pool /\ sockets[g].state \in Live
                                        THEN "closing" ELSE sockets[g].state
         /\ pool' \in Nat /\ Asked(c) \in Request /\ Asked(c).id = RequestId(c)
         /\ Asked(c).gen = pool' /\ Asked(c).call = c
         /\ pending' = pending \cup {Asked(c)}
         /\ IF sockets'[pool'].state = "open"
            THEN wire' = wire \cup {Message(Asked(c), "request", TRUE)} /\ outbox' = outbox
            ELSE outbox' = outbox \cup {Asked(c)} /\ wire' = wire
<1>1. /\ sockets' \in Seq(Socket) /\ pool' \in DOMAIN sockets'
      /\ DOMAIN sockets \subseteq DOMAIN sockets'
      /\ \/ pool' = pool /\ sockets' = sockets /\ Reusable(call[c].url)
         \/ /\ pool' \notin DOMAIN sockets
            /\ sockets'[pool'].state = "connecting" /\ sockets'[pool'].url = call[c].url
            /\ DOMAIN sockets' = DOMAIN sockets \cup {pool'}
            /\ \A g \in DOMAIN sockets :
                 sockets'[g].state = IF g = pool /\ sockets[g].state \in Live
                                     THEN "closing" ELSE sockets[g].state
  <2>1. CASE Reusable(call[c].url)
    BY <2>1 DEF TypeOK, Send, Reusable
  <2>2. CASE ~Reusable(call[c].url)
    <3> DEFINE old == Closing({pool})
               new == [url |-> call[c].url, state |-> "connecting"]
    <3>1. new \in Socket /\ new.state = "connecting" /\ new.url = call[c].url
      BY DEF TypeOK, CallState, Socket, States
    <3>2. /\ old \in Seq(Socket) /\ Len(old) = Len(sockets) /\ DOMAIN old = DOMAIN sockets
          /\ \A g \in DOMAIN sockets :
               old[g].state = IF g = pool /\ sockets[g].state \in Live
                              THEN "closing" ELSE sockets[g].state
      BY ClosingSockets DEF TypeOK
    <3>3. sockets' = Append(old, new) /\ pool' = Len(sockets) + 1
      BY <2>2 DEF Send
    <3>4. sockets \in Seq(Socket)
      BY DEF TypeOK
    <3> HIDE DEF old, new
    <3>5. /\ sockets' \in Seq(Socket) /\ DOMAIN sockets' = 1 .. (Len(sockets) + 1)
          /\ sockets'[pool'] = new /\ \A g \in DOMAIN sockets : sockets'[g] = old[g]
      BY <3>1, <3>2, <3>3, <3>4
    <3>6. DOMAIN sockets = 1 .. Len(sockets) /\ Len(sockets) \in Nat
      BY <3>4
    <3>7. pool' \notin DOMAIN sockets /\ DOMAIN sockets' = DOMAIN sockets \cup {pool'}
      BY <3>3, <3>5, <3>6
    <3>8. \A g \in DOMAIN sockets :
            sockets'[g].state = IF g = pool /\ sockets[g].state \in Live
                                THEN "closing" ELSE sockets[g].state
      BY <3>2, <3>5
    <3>9. QED BY <3>1, <3>5, <3>7, <3>8
  <2>3. QED BY <2>1, <2>2
<1>2. pool' \in Nat
  <2>1. DOMAIN sockets' = 1 .. Len(sockets') /\ Len(sockets') \in Nat
    BY <1>1
  <2>2. QED BY <1>1, <2>1
<1>3. RequestId(c) \in Calls \X Nat
  BY DEF TypeOK, RequestId, CallState
<1>4. QED
  BY <1>1, <1>2, <1>3 DEF Send, Asked, Request

LEMMA SendCall ==
  ASSUME TypeOK, NEW c \in Calls, Send(c)
  PROVE  /\ call' \in [Calls -> CallState]
         /\ \A d \in Calls \ {c} : call'[d] = call[d]
         /\ call'[c].pc = "waiting" /\ call'[c].gen = pool' /\ call'[c].url = call[c].url
         /\ call'[c].attempt = call[c].attempt /\ call'[c].result = call[c].result
         /\ call'[c].net = call[c].net
<1>1. call[c] \in CallState
  BY DEF TypeOK
<1>2. call' = [call EXCEPT ![c] = Sent(call[c], pool')]
  BY DEF Send, Sent
<1>3. pool' \in Nat
  BY SendEffect
<1>4. Sent(call[c], pool') \in CallState
  BY <1>1, <1>3, SentEffect
<1>5. /\ call' \in [Calls -> CallState] /\ call'[c] = Sent(call[c], pool')
      /\ \A d \in Calls \ {c} : call'[d] = call[d]
  BY <1>2, <1>4, OneCall DEF TypeOK
<1>6. QED BY <1>1, <1>3, <1>5, SentEffect

\* The generations whose sockets a call that resumes drops, and the calls
\* that fail with them.
Dropping(c) == IF Dead(call[c].result) THEN Dropped(call[c].gen) ELSE {}
FailingWith(c) == {p.call : p \in {q \in pending : q.gen \in Dropping(c)}}

(* A call that resumes ends, or is asked again; others fail with it.       *)
LEMMA ResumeCall ==
  ASSUME TypeOK, NEW c \in Calls, Resume(c)
  PROVE  /\ call' \in [Calls -> CallState]
         /\ \/ call[c].result = "ok" /\ \A d \in Calls \ {c} : call'[d] = call[d]
            \/ /\ call[c].result # "ok"
               /\ \A d \in Calls \ ({c} \cup FailingWith(c)) : call'[d] = call[d]
               /\ \A d \in FailingWith(c) \ {c} :
                    /\ call'[d].pc = "resumed" /\ call'[d].result = "closed"
                    /\ call'[d].attempt = call[d].attempt /\ call'[d].net = call[d].net
         /\ \/ /\ call'[c].pc = "done" /\ call'[c].of = call[c].of
               /\ call'[c].result = IF call[c].result = "ok" THEN "ok" ELSE "failed"
            \/ /\ call'[c].pc \in {"begin", "resolving"} /\ call[c].result # "ok"
               /\ call'[c].attempt = call[c].attempt + 1 /\ call'[c].net = network
               /\ call'[c].result = call[c].result
<1> DEFINE k == call[c]
           others == Resumed(FailingWith(c), "closed", None)
<1>1. k \in CallState
  BY DEF TypeOK
<1>2. /\ Ended(k) \in CallState /\ Ended(k).pc = "done" /\ Ended(k).of = k.of
      /\ Ended(k).result = IF k.result = "ok" THEN "ok" ELSE "failed"
  BY <1>1, EndedEffect
<1>3. CASE k.result = "ok"
  <2>1. call' = [call EXCEPT ![c] = Ended(k)]
    BY <1>3 DEF Resume
  <2>2. QED BY <1>2, <1>3, <2>1, OneCall DEF TypeOK
<1>4. CASE k.result # "ok"
  <2>1. /\ others \in [Calls -> CallState]
        /\ \A d \in Calls \ FailingWith(c) : others[d] = call[d]
        /\ \A d \in FailingWith(c) \cap Calls :
             /\ others[d].pc = "resumed" /\ others[d].result = "closed"
             /\ others[d].attempt = call[d].attempt /\ others[d].net = call[d].net
    <3>1. "closed" \in Results /\ None \in Calls \cup {None} /\ call \in [Calls -> CallState]
      BY DEF TypeOK, Results
    <3> HIDE DEF others
    <3>2. QED BY <3>1, ResumedCalls DEF others
  <2>2. FailingWith(c) \subseteq Calls
    BY DEF TypeOK, FailingWith, Request
  <2>3. call' = AfterFailure(c, others)
    BY <1>4 DEF Resume, FailingWith, Dropping
  <2>4. /\ Again(k) \in CallState /\ Again(k).pc = "begin"
        /\ Again(k).attempt = k.attempt + 1 /\ Again(k).net = network
        /\ Again(k).result = k.result
    BY <1>1, AgainEffect DEF TypeOK
  <2>5. /\ ToPublic(k) \in CallState /\ ToPublic(k).pc = "resolving"
        /\ ToPublic(k).attempt = k.attempt + 1 /\ ToPublic(k).net = network
        /\ ToPublic(k).result = k.result
    BY <1>1, ToPublicEffect DEF TypeOK
  <2>6. \E r \in {Again(k), ToPublic(k), Ended(k)} : call' = [others EXCEPT ![c] = r]
    BY <2>3 DEF AfterFailure
  <2> HIDE DEF others
  <2>7. PICK r \in {Again(k), ToPublic(k), Ended(k)} : call' = [others EXCEPT ![c] = r]
    BY <2>6
  <2>8. r \in CallState
    BY <1>2, <2>4, <2>5
  <2>9. /\ call' \in [Calls -> CallState] /\ call'[c] = r
        /\ \A d \in Calls \ {c} : call'[d] = others[d]
    BY <2>1, <2>7, <2>8
  <2>10. QED
    BY <1>2, <1>4, <2>1, <2>2, <2>4, <2>5, <2>7, <2>9
<1>5. QED BY <1>3, <1>4

-----------------------------------------------------------------------------
(* Types. *)

(* What follows from a request being made, or handled.                     *)
LEMMA Messages ==
  ASSUME NEW r \in Request \cup Letter, NEW kind \in {"request", "reply"}, NEW named \in BOOLEAN
  PROVE  LET m == Message(r, kind, named)
         IN  /\ m \in Letter /\ m.kind = kind /\ m.named = named
             /\ m.id = r.id /\ m.gen = r.gen /\ m.call = r.call
BY DEF Message, Letter, Request

(* A socket in another state.                                              *)
LEMMA SocketIn ==
  ASSUME sockets \in Seq(Socket), NEW g \in DOMAIN sockets, NEW s \in States,
         sockets' = [sockets EXCEPT ![g].state = s]
  PROVE  /\ sockets' \in Seq(Socket) /\ DOMAIN sockets' = DOMAIN sockets
         /\ sockets'[g].state = s
         /\ \A h \in DOMAIN sockets \ {g} : sockets'[h] = sockets[h]
<1> DEFINE e == [sockets[g] EXCEPT !.state = s]
<1>1. sockets[g] \in Socket
  OBVIOUS
<1>2. e \in Socket /\ e.state = s
  BY <1>1 DEF Socket
<1>3. sockets' = [sockets EXCEPT ![g] = e]
  OBVIOUS
<1> HIDE DEF e
<1>4. QED BY <1>2, <1>3

(* The initial state is well typed.                                        *)
LEMMA InitType == Init => TypeOK
BY HomeAssumption, FreshCall DEF Init, TypeOK

(* Every step keeps the types.                                             *)
LEMMA TypeStep == TypeOK /\ [Next]_vars => TypeOK'
<1> SUFFICES ASSUME TypeOK, [Next]_vars PROVE TypeOK'
  OBVIOUS
<1>1. ASSUME NEW c \in Calls, Start(c) PROVE TypeOK'
  <2>1. call' \in [Calls -> CallState]
    BY <1>1, StartCall
  <2>2. QED BY <1>1, <2>1 DEF TypeOK, Start, link
<1>2. ASSUME NEW c \in Calls, Begin(c) PROVE TypeOK'
  <2>1. call' \in [Calls -> CallState]
    BY <1>2, BeginCall
  <2>2. QED BY <1>2, <2>1 DEF TypeOK, Begin, link
<1>3. ASSUME NEW c \in Calls, Send(c) PROVE TypeOK'
  <2>1. call' \in [Calls -> CallState]
    BY <1>3, SendCall
  <2>2. /\ sockets' \in Seq(Socket) /\ pool' \in DOMAIN sockets'
        /\ DOMAIN sockets \subseteq DOMAIN sockets'
        /\ Asked(c) \in Request /\ Asked(c).gen = pool'
        /\ pending' = pending \cup {Asked(c)}
        /\ outbox' \subseteq outbox \cup {Asked(c)}
        /\ wire' \subseteq wire \cup {Message(Asked(c), "request", TRUE)}
    BY <1>3, SendEffect
  <2>3. Message(Asked(c), "request", TRUE) \in Letter
        /\ Message(Asked(c), "request", TRUE).gen = pool'
    BY <2>2, Messages
  <2>4. pending' \subseteq Request /\ outbox' \subseteq Request /\ wire' \subseteq Letter
    BY <2>2, <2>3 DEF TypeOK
  <2>5. \A r \in pending' \cup outbox' \cup wire' : r.gen \in DOMAIN sockets'
    BY <2>2, <2>3 DEF TypeOK
  <2>6. QED BY <1>3, <2>1, <2>2, <2>4, <2>5 DEF TypeOK, Send
<1>4. ASSUME NEW c \in Calls, CannotOpen(c) PROVE TypeOK'
  <2>1. call' \in [Calls -> CallState]
    BY <1>4, CannotOpenCall
  <2>2. sockets' \in Seq(Socket) /\ DOMAIN sockets' = DOMAIN sockets
    BY <1>4, ClosingSockets DEF CannotOpen, TypeOK
  <2>3. QED BY <1>4, <2>1, <2>2 DEF TypeOK, CannotOpen
<1>5. ASSUME NEW c \in Calls, Resume(c) PROVE TypeOK'
  <2>1. call' \in [Calls -> CallState]
    BY <1>5, ResumeCall
  <2>2. sockets' \in Seq(Socket) /\ DOMAIN sockets' = DOMAIN sockets
    BY <1>5, ClosingSockets DEF Resume, TypeOK
  <2>3. QED BY <1>5, <2>1, <2>2 DEF TypeOK, Resume
<1>6. ASSUME NEW c \in Calls, Resolver(c) PROVE TypeOK'
  <2>1. ASSUME ResolverFails(c) PROVE TypeOK'
    <3>1. call' \in [Calls -> CallState]
      BY <2>1, FailsCall
    <3>2. QED BY <2>1, <3>1 DEF TypeOK, ResolverFails, link
  <2>2. ASSUME NEW url \in UNION {Public[n] : n \in Networks}, ResolverAnswers(c, url)
        PROVE TypeOK'
    <3>1. call' \in [Calls -> CallState] /\ url \in Urls
      BY <2>2, AnswersCall
    <3>2. QED BY <2>2, <3>1 DEF TypeOK, ResolverAnswers, link
  <2>3. QED BY <1>6, <2>1, <2>2 DEF Resolver
<1>7. ASSUME NEW c \in Calls, TimesOut(c) PROVE TypeOK'
  <2>1. call' \in [Calls -> CallState]
    <3>1. call' = Resumed({c}, "timeout", None) /\ "timeout" \in Results /\ None \in Calls \cup {None}
      BY <1>7 DEF TimesOut, Results
    <3>2. QED BY <3>1, ResumedStep DEF TypeOK
  <2>2. QED BY <1>7, <2>1 DEF TypeOK, TimesOut
<1>8. ASSUME NEW n \in Networks, NEW url \in Customs \cup {None}, SaveSettings(n, url)
      PROVE TypeOK'
  <2>1. /\ network' \in Networks /\ custom' \in Customs \cup {None}
        /\ switches' = switches + 1
        /\ resolved' = resolved /\ call' = call /\ served' = served /\ link' = link
    BY <1>8 DEF SaveSettings
  <2>2. QED BY <2>1 DEF TypeOK, link
<1>9. ASSUME NEW g \in DOMAIN sockets, Opens(g) PROVE TypeOK'
  <2>1. sockets' \in Seq(Socket) /\ DOMAIN sockets' = DOMAIN sockets
    BY <1>9, SocketIn DEF Opens, States, TypeOK
  <2>2. ASSUME NEW r \in outbox
        PROVE Message(r, "request", TRUE) \in Letter /\ Message(r, "request", TRUE).gen = r.gen
    BY <2>2, Messages DEF TypeOK
  <2>3. QED BY <1>9, <2>1, <2>2 DEF TypeOK, Opens
<1>10. ASSUME NEW g \in DOMAIN sockets, Breaks(g) PROVE TypeOK'
  <2>1. call' \in [Calls -> CallState]
    <3>1. call' = Resumed(RidingOn(g), "error", None) /\ "error" \in Results /\ None \in Calls \cup {None}
      BY <1>10 DEF Breaks, DispatchFailure, Results
    <3>2. QED BY <3>1, ResumedStep DEF TypeOK
  <2>2. sockets' \in Seq(Socket) /\ DOMAIN sockets' = DOMAIN sockets
    BY <1>10, ClosingSockets DEF Breaks, TypeOK
  <2>3. QED BY <1>10, <2>1, <2>2 DEF TypeOK, Breaks, DispatchFailure
<1>11. ASSUME NEW g \in DOMAIN sockets, Closes(g) PROVE TypeOK'
  <2>1. call' \in [Calls -> CallState]
    <3>1. call' = Resumed(RidingOn(g), "closed", None) /\ "closed" \in Results /\ None \in Calls \cup {None}
      BY <1>11 DEF Closes, DispatchFailure, Results
    <3>2. QED BY <3>1, ResumedStep DEF TypeOK
  <2>2. sockets' \in Seq(Socket) /\ DOMAIN sockets' = DOMAIN sockets
    BY <1>11, SocketIn DEF Closes, States, TypeOK
  <2>3. QED BY <1>11, <2>1, <2>2 DEF TypeOK, Closes, DispatchFailure
<1>12. ASSUME NEW m \in wire, NEW named \in BOOLEAN, Serve(m, named) PROVE TypeOK'
  <2>1. m \in Letter /\ m.call \in Calls /\ m.gen \in DOMAIN sockets
    BY DEF TypeOK, Letter
  <2>2. Message(m, "reply", named) \in Letter /\ Message(m, "reply", named).gen = m.gen
    BY <2>1, Messages
  <2>3. wire' \subseteq wire \cup {Message(m, "reply", named)} /\ served' = served \cup {m.call}
    BY <1>12 DEF Serve
  <2>4. wire' \subseteq Letter /\ \A r \in wire' : r.gen \in DOMAIN sockets
    BY <2>1, <2>2, <2>3 DEF TypeOK
  <2>5. QED BY <1>12, <2>1, <2>3, <2>4 DEF TypeOK, Serve
<1>13. ASSUME NEW m \in wire, NEW answer \in Results, Deliver(m, answer) PROVE TypeOK'
  <2>1. m.call \in Calls /\ call' = Resumed({p.call : p \in Receiver(m)}, answer, m.call)
    BY <1>13 DEF Deliver, DispatchResult, Letter, TypeOK
  <2>2. call' \in [Calls -> CallState]
    BY <2>1, ResumedStep DEF TypeOK
  <2>3. QED BY <1>13, <2>2 DEF TypeOK, Deliver, DispatchResult
<1>14. CASE UNCHANGED vars
  BY <1>14 DEF TypeOK, vars, link
<1>15. "ok" \in Results /\ "node error" \in Results
  BY DEF Results
<1>16. QED
  BY <1>1, <1>2, <1>3, <1>4, <1>5, <1>6, <1>7, <1>8, <1>9, <1>10, <1>11, <1>12, <1>13, <1>14, <1>15
  DEF Next, Microtasks

-----------------------------------------------------------------------------
(* The link. *)

(* What the types say of requests, letters and calls.                      *)
LEMMA Typed ==
  ASSUME TypeOK
  PROVE  /\ \A r \in pending \cup outbox \cup wire :
              r.call \in Calls /\ r.id \in Calls \X Nat /\ r.gen \in DOMAIN sockets
         /\ \A p \in pending : p = [id |-> p.id, gen |-> p.gen, call |-> p.call]
         /\ \A c \in Calls : call[c] \in CallState /\ call[c].attempt \in Nat
BY DEF TypeOK, Request, Letter, CallState

(* No two calls share a pending request, and none has two.                 *)
LEMMA OneEach ==
  ASSUME TypeOK, Kept, NEW p \in pending, NEW q \in pending, p.call = q.call \/ p.id = q.id
  PROVE  p = q
<1>1. p.call = q.call
  BY Typed DEF Kept, Riding, RequestId
<1>2. p.id = q.id /\ p.gen = q.gen
  BY <1>1 DEF Kept, Riding
<1>3. QED BY <1>1, <1>2, Typed

LEMMA InitKept == Init => Kept
BY FreshCall, NoneAssumption DEF Init, Kept, OneLive, Riding, Queued, Numbered, Sole, Awaited, Truthful

(* A call that is on no socket may go on without touching the link.        *)
LEMMA Elsewhere ==
  ASSUME TypeOK, Kept, NEW c \in Calls, link' = link, served' = served,
         \A d \in Calls \ {c} : call'[d] = call[d],
         call[c].pc \in {"idle", "begin", "resolving"},
         call'[c].pc \in {"begin", "resolving", "send", "done"},
         call'[c].pc # "done" => call'[c].attempt = call[c].attempt,
         call'[c].result \in {call[c].result, "failed"}
  PROVE  Kept'
<1>1. /\ pool' = pool /\ sockets' = sockets
      /\ pending' = pending /\ outbox' = outbox /\ wire' = wire
  BY DEF link
<1>2. OneLive' /\ Queued' /\ Sole'
  BY <1>1 DEF Kept, OneLive, Queued, Sole
<1>3. Riding'
  BY <1>1, Typed DEF Kept, Riding, RequestId
<1>4. Numbered'
  BY <1>1, Typed DEF Kept, Numbered
<1>5. Awaited'
  BY <1>1, Typed DEF Kept, Awaited
<1>6. Truthful'
  BY <1>1, Typed DEF Kept, Truthful
<1>7. QED BY <1>2, <1>3, <1>4, <1>5, <1>6 DEF Kept

LEMMA SendKept ==
  ASSUME TypeOK, Kept, NEW c \in Calls, Send(c) PROVE Kept'
<1> DEFINE m == Message(Asked(c), "request", TRUE)
<1>1. /\ call[c].pc = "send" /\ served' = served
      /\ \A d \in Calls \ {c} : call'[d] = call[d]
      /\ call'[c].pc = "waiting" /\ call'[c].gen = pool'
      /\ call'[c].attempt = call[c].attempt /\ call'[c].result = call[c].result
  BY SendCall DEF Send
<1>2. /\ pool' \in DOMAIN sockets' /\ sockets'[pool'].state \in Live
      /\ \A g \in DOMAIN sockets :
           /\ g \in DOMAIN sockets'
           /\ sockets'[g].state = "closed" => sockets[g].state = "closed"
           /\ sockets'[g].state \in Live => sockets[g].state \in Live
           /\ sockets[g].state \in {"connecting", "closing"}
                => sockets'[g].state \in {"connecting", "closing"}
           /\ sockets'[g].state \in Live => g = pool'
      /\ \A g \in DOMAIN sockets' : g \in DOMAIN sockets \/ g = pool'
  <2>1. CASE pool' = pool /\ sockets' = sockets /\ Reusable(call[c].url)
    <3>1. sockets[pool].state \in Live
      BY <2>1 DEF Reusable
    <3>2. pool' \in DOMAIN sockets'
      BY SendEffect
    <3>3. QED BY <2>1, <3>1, <3>2 DEF Kept, OneLive
  <2>2. CASE /\ pool' \notin DOMAIN sockets /\ sockets'[pool'].state = "connecting"
             /\ DOMAIN sockets' = DOMAIN sockets \cup {pool'}
             /\ \A g \in DOMAIN sockets :
                  sockets'[g].state = IF g = pool /\ sockets[g].state \in Live
                                      THEN "closing" ELSE sockets[g].state
    BY <2>2 DEF Kept, OneLive, Live
  <2>3. QED BY <2>1, <2>2, SendEffect
<1>3. /\ Asked(c).id = <<c, call[c].attempt>> /\ Asked(c).gen = pool' /\ Asked(c).call = c
      /\ pending' = pending \cup {Asked(c)}
      /\ m.kind = "request" /\ m.id = Asked(c).id /\ m.gen = pool' /\ m.call = c
  <2>1. /\ Asked(c) \in Request /\ Asked(c).id = RequestId(c) /\ Asked(c).gen = pool'
        /\ Asked(c).call = c /\ pending' = pending \cup {Asked(c)}
    BY SendEffect
  <2>2. QED BY <2>1, Messages DEF RequestId
<1>4. \/ /\ sockets'[pool'].state = "open"
         /\ wire' = wire \cup {m} /\ outbox' = outbox
      \/ /\ sockets'[pool'].state # "open"
         /\ outbox' = outbox \cup {Asked(c)} /\ wire' = wire
  BY SendEffect
<1> HIDE DEF m
<1>5. OneLive'
  BY <1>2 DEF OneLive
<1>6. Riding'
  <2>1. ASSUME NEW p \in pending
        PROVE  /\ call'[p.call].pc = "waiting" /\ p.id = <<p.call, call'[p.call].attempt>>
               /\ p.gen = call'[p.call].gen /\ sockets'[p.gen].state # "closed"
    BY <1>1, <1>2, Typed DEF Kept, Riding, RequestId
  <2>2. \A d \in Calls : call'[d].pc = "waiting" => \E p \in pending' : p.call = d
    BY <1>1, <1>3 DEF Kept, Riding
  <2>3. sockets'[pool'].state # "closed"
    BY <1>2 DEF Live
  <2>4. QED BY <1>1, <1>3, <2>1, <2>2, <2>3 DEF Riding, RequestId
<1>7. Queued'
  <2>1. \A r \in outbox : sockets'[r.gen].state \in {"connecting", "closing"}
    BY <1>2, Typed DEF Kept, Queued
  <2>2. sockets'[pool'].state # "open" => sockets'[pool'].state = "connecting"
    BY <1>2 DEF Live
  <2>3. QED BY <1>3, <1>4, <2>1, <2>2 DEF Queued
<1>8. \A r \in outbox \cup wire : r.id # Asked(c).id
  <2>1. SUFFICES ASSUME NEW r \in outbox \cup wire, r.id = Asked(c).id PROVE FALSE
    OBVIOUS
  <2>2. r.call = c /\ r.id[2] < call[c].attempt
    BY <1>1, <1>3, <2>1 DEF Kept, Numbered
  <2>3. QED BY <1>3, <2>1, <2>2, Typed
<1>9. Numbered'
  <2>1. ASSUME NEW r \in outbox \cup wire
        PROVE  LET k == call'[r.call]
               IN  /\ r.id[1] = r.call /\ k.pc # "idle"
                   /\ k.pc # "done" => r.id[2] <= k.attempt
                   /\ k.pc \in {"begin", "resolving", "send"} => r.id[2] < k.attempt
    BY <1>1, Typed DEF Kept, Numbered
  <2>2. <<c, call[c].attempt>>[1] = c /\ <<c, call[c].attempt>>[2] <= call'[c].attempt
    BY <1>1, Typed
  <2>3. QED BY <1>1, <1>3, <1>4, <2>1, <2>2 DEF Numbered
<1>10. Sole'
  BY <1>3, <1>4, <1>8 DEF Kept, Sole
<1>11. Awaited'
  <2>1. ASSUME NEW r \in outbox \cup wire, sockets'[r.gen].state \in Live
        PROVE  \/ \E p \in pending : p.id = r.id /\ p.gen = r.gen
               \/ LET k == call'[r.call]
                  IN  k.pc = "resumed" /\ k.result = "timeout" /\ k.gen = r.gen
    BY <1>1, <1>2, <2>1, Typed DEF Kept, Awaited
  <2>2. QED BY <1>3, <1>4, <2>1 DEF Awaited
<1>12. Truthful'
  BY <1>1, <1>3, <1>4 DEF Kept, Truthful
<1>13. QED BY <1>5, <1>6, <1>7, <1>9, <1>10, <1>11, <1>12 DEF Kept

(* When a socket fails, only the calls riding on it do.                    *)
LEMMA FailureKept ==
  ASSUME TypeOK, Kept, NEW g \in DOMAIN sockets, NEW why \in {"error", "closed"},
         Quiet, DispatchFailure(g, why), pool' = pool, served' = served,
         DOMAIN sockets' = DOMAIN sockets,
         \A h \in DOMAIN sockets \ {g} : sockets'[h].state = sockets[h].state,
         sockets'[g].state \notin Live, wire' \subseteq wire
  PROVE  Kept'
<1>1. /\ pending' = {p \in pending : p.gen # g} /\ outbox' = {r \in outbox : r.gen # g}
      /\ \A c \in Calls \ RidingOn(g) : call'[c] = call[c]
      /\ \A c \in Calls : c \in RidingOn(g) =>
           /\ call'[c].pc = "resumed" /\ call'[c].result = why
           /\ call'[c].attempt = call[c].attempt
  <2>1. why \in Results /\ call \in [Calls -> CallState] /\ call' = Resumed(RidingOn(g), why, None)
    BY DEF DispatchFailure, TypeOK, Results
  <2>2. pending' = {p \in pending : p.gen # g} /\ outbox' = {r \in outbox : r.gen # g}
    BY DEF DispatchFailure
  <2>3. None \in Calls \cup {None}
    OBVIOUS
  <2>4. QED BY <2>1, <2>2, <2>3, ResumedStep
<1>2. \A p \in pending : p.gen # g => p.call \notin RidingOn(g)
  BY OneEach DEF RidingOn
<1>3. \A c \in RidingOn(g) : c \in Calls /\ call[c].pc = "waiting"
  BY Typed DEF RidingOn, Kept, Riding
<1>4. OneLive'
  BY DEF Kept, OneLive
<1>5. Riding'
  <2>1. ASSUME NEW p \in pending'
        PROVE  /\ call'[p.call].pc = "waiting" /\ p.id = RequestId(p.call)'
               /\ p.gen = call'[p.call].gen /\ sockets'[p.gen].state # "closed"
    BY <1>1, <1>2, Typed DEF Kept, Riding, RequestId
  <2>2. ASSUME NEW c \in Calls, call'[c].pc = "waiting" PROVE \E p \in pending' : p.call = c
    BY <1>1, <2>2 DEF Kept, Riding, RidingOn
  <2>3. QED BY <2>1, <2>2 DEF Riding
<1>6. Queued'
  BY <1>1, Typed DEF Kept, Queued
<1>7. Numbered'
  BY <1>1, <1>3, Typed DEF Kept, Numbered
<1>8. Sole'
  BY <1>1 DEF Kept, Sole
<1>9. Awaited'
  <2>1. ASSUME NEW r \in outbox' \cup wire', sockets'[r.gen].state \in Live
        PROVE  \E p \in pending' : p.id = r.id /\ p.gen = r.gen
    <3>1. r \in outbox \cup wire /\ r.gen \in DOMAIN sockets /\ r.call \in Calls
      BY <1>1, Typed
    <3>2. r.gen # g /\ sockets[r.gen].state \in Live
      BY <2>1, <3>1
    <3>3. PICK p \in pending : p.id = r.id /\ p.gen = r.gen
      BY <3>1, <3>2 DEF Kept, Awaited, Quiet, Microtask
    <3>4. QED BY <1>1, <3>2, <3>3
  <2>2. QED BY <2>1 DEF Awaited
<1>10. Truthful'
  BY <1>1, <1>3 DEF Kept, Truthful
<1>11. QED BY <1>4, <1>5, <1>6, <1>7, <1>8, <1>9, <1>10 DEF Kept

LEMMA OpensKept ==
  ASSUME TypeOK, Kept, NEW g \in DOMAIN sockets, Opens(g) PROVE Kept'
<1> DEFINE mine == {r \in outbox : r.gen = g}
           sent == {Message(r, "request", TRUE) : r \in mine}
<1>1. /\ sockets[g].state = "connecting" /\ sockets'[g].state = "open"
      /\ DOMAIN sockets' = DOMAIN sockets
      /\ \A h \in DOMAIN sockets \ {g} : sockets'[h] = sockets[h]
  BY SocketIn DEF Opens, TypeOK, States
<1>2. /\ wire' = wire \cup sent /\ outbox' = outbox \ mine
      /\ pending' = pending /\ pool' = pool /\ call' = call /\ served' = served
  BY DEF Opens
<1>3. \A m \in sent : \E r \in outbox :
        /\ r.gen = g /\ m = Message(r, "request", TRUE)
        /\ m.kind = "request" /\ m.id = r.id /\ m.gen = r.gen /\ m.call = r.call
  <2>1. ASSUME NEW r \in outbox
        PROVE  LET m == Message(r, "request", TRUE)
               IN  m.kind = "request" /\ m.id = r.id /\ m.gen = r.gen /\ m.call = r.call
    BY Messages DEF TypeOK
  <2>2. QED BY <2>1
<1> HIDE DEF sent
<1>0. \A r \in outbox' \cup wire' : \E q \in outbox \cup wire :
        r.id = q.id /\ r.gen = q.gen /\ r.call = q.call
  BY <1>2, <1>3
<1>4. OneLive'
  BY <1>1, <1>2 DEF Kept, OneLive, Live
<1>5. Riding'
  BY <1>1, <1>2, Typed DEF Kept, Riding, RequestId
<1>6. Queued'
  BY <1>1, <1>2, Typed DEF Kept, Queued
<1>7. Numbered'
  BY <1>0, <1>2 DEF Kept, Numbered
<1>8. Sole'
  <2>1. ASSUME NEW m \in sent, NEW n \in wire PROVE m.id # n.id
    <3>1. PICK r \in outbox : m.id = r.id
      BY <1>3
    <3>2. QED BY <3>1 DEF Kept, Sole
  <2>2. ASSUME NEW m \in sent, NEW n \in sent, m.id = n.id PROVE m = n
    <3>1. PICK r \in outbox : m.id = r.id /\ m = Message(r, "request", TRUE)
      BY <1>3
    <3>2. PICK q \in outbox : n.id = q.id /\ n = Message(q, "request", TRUE)
      BY <1>3
    <3>3. r = q
      BY <2>2, <3>1, <3>2 DEF Kept, Sole
    <3>4. QED BY <3>1, <3>2, <3>3
  <2>3. ASSUME NEW m \in sent, NEW q \in outbox' PROVE m.id # q.id
    <3>1. PICK r \in outbox : m.id = r.id /\ r.gen = g
      BY <1>3
    <3>2. q \in outbox /\ q.gen # g
      BY <1>2
    <3>3. QED BY <3>1, <3>2 DEF Kept, Sole
  <2>4. QED BY <1>2, <2>1, <2>2, <2>3 DEF Kept, Sole
<1>9. Awaited'
  <2>1. \A r \in outbox \cup wire : sockets'[r.gen].state \in Live => sockets[r.gen].state \in Live
    BY <1>1, Typed DEF Live
  <2>2. QED BY <1>0, <1>2, <2>1 DEF Kept, Awaited
<1>10. Truthful'
  BY <1>2, <1>3 DEF Kept, Truthful
<1>11. QED BY <1>4, <1>5, <1>6, <1>7, <1>8, <1>9, <1>10 DEF Kept

LEMMA ServeKept ==
  ASSUME TypeOK, Kept, NEW m \in wire, NEW named \in BOOLEAN, Serve(m, named) PROVE Kept'
<1> DEFINE n == Message(m, "reply", named)
<1>1. n.kind = "reply" /\ n.id = m.id /\ n.gen = m.gen /\ n.call = m.call
  BY Messages DEF TypeOK
<1> HIDE DEF n
<1>2. /\ wire' = wire \ {m} \/ wire' = (wire \ {m}) \cup {n}
      /\ served' = served \cup {m.call}
      /\ pending' = pending /\ pool' = pool /\ call' = call /\ sockets' = sockets
      /\ outbox' = outbox
  BY DEF Serve, n
<1>3. OneLive' /\ Queued'
  BY <1>2 DEF Kept, OneLive, Queued
<1>4. Riding'
  BY <1>2 DEF Kept, Riding, RequestId
<1>5. Numbered'
  BY <1>1, <1>2 DEF Kept, Numbered
<1>6. Sole'
  BY <1>1, <1>2 DEF Kept, Sole
<1>7. Awaited'
  BY <1>1, <1>2 DEF Kept, Awaited
<1>8. Truthful'
  BY <1>1, <1>2 DEF Kept, Truthful
<1>9. QED BY <1>3, <1>4, <1>5, <1>6, <1>7, <1>8 DEF Kept

(* A reply goes to the call it answers, or to none.                        *)
LEMMA RightReceiver ==
  ASSUME TypeOK, Kept, IsFiniteSet(pending), Quiet, NEW m \in wire,
         sockets[m.gen].state = "open"
  PROVE  \/ Receiver(m) = {}
         \/ \E p \in pending : Receiver(m) = {p} /\ p.id = m.id /\ p.call = m.call
<1>1. m.call \in Calls /\ m.id[1] = m.call
  BY Typed DEF Kept, Numbered
<1>2. PICK p \in pending : p.id = m.id /\ p.gen = m.gen
  BY <1>1 DEF Kept, Awaited, Quiet, Microtask, Live
<1>3. p.call = m.call
  BY <1>1, <1>2 DEF Kept, Riding, RequestId
<1>4. CASE m.named
  BY <1>2, <1>3, <1>4, OneEach DEF Receiver
<1>5. CASE ~m.named /\ Cardinality(pending) = 1
  <2>1. \E q : pending = {q}
    BY <1>5, FS_CardinalityType, OnlyOne
  <2>2. QED BY <1>2, <1>3, <1>5, <2>1 DEF Receiver
<1>6. CASE ~m.named /\ Cardinality(pending) # 1
  BY <1>6 DEF Receiver
<1>7. QED BY <1>4, <1>5, <1>6

(* One call is resolved.                                                   *)
LEMMA ResumedOne ==
  ASSUME call \in [Calls -> CallState], NEW c \in Calls, NEW why \in Results,
         NEW whose \in Calls \cup {None}, call' = Resumed({c}, why, whose)
  PROVE  /\ \A d \in Calls \ {c} : call'[d] = call[d]
         /\ call'[c].pc = "resumed" /\ call'[c].result = why /\ call'[c].of = whose
         /\ call'[c].attempt = call[c].attempt /\ call'[c].gen = call[c].gen
<1> DEFINE k == Resolved(call[c], why, whose)
<1>1. call[c] \in CallState
  OBVIOUS
<1>2. call' = [call EXCEPT ![c] = k]
  BY DEF Resumed, Resolved
<1>3. /\ k \in CallState /\ k.pc = "resumed" /\ k.result = why /\ k.of = whose
      /\ k.attempt = call[c].attempt /\ k.gen = call[c].gen
  BY <1>1, ResumedEffect
<1> HIDE DEF k
<1>4. call'[c] = k /\ \A d \in Calls \ {c} : call'[d] = call[d]
  BY <1>2, <1>3, OneCall
<1>5. QED BY <1>3, <1>4

(* A call that is given the answer to what it asked.                       *)
LEMMA HeardKept ==
  ASSUME TypeOK, Kept, Quiet, NEW m \in wire, m.kind = "reply",
         NEW p \in pending, NEW c \in Calls, p.id = m.id, p.call = c, m.call = c,
         NEW answer \in Results, call' = Resumed({c}, answer, c),
         wire' = wire \ {m}, pending' = pending \ {p}, outbox' = outbox,
         pool' = pool, sockets' = sockets, served' = served
  PROVE  Kept'
<1>1. /\ \A d \in Calls \ {c} : call'[d] = call[d]
      /\ call'[c].pc = "resumed" /\ call'[c].result = answer /\ call'[c].of = c
      /\ call'[c].attempt = call[c].attempt
  <2>1. c \in Calls \cup {None} /\ call \in [Calls -> CallState]
    BY DEF TypeOK
  <2>2. QED BY <2>1, ResumedOne
<1>2. \A q \in pending : q = p <=> q.call = c
  BY OneEach
<1>3. call[c].pc = "waiting" /\ c \in served
  <2>1. call[p.call].pc = "waiting"
    BY DEF Kept, Riding
  <2>2. m.call \in served
    BY DEF Kept, Truthful
  <2>3. QED BY <2>1, <2>2
<1>4. OneLive' /\ Queued'
  BY DEF Kept, OneLive, Queued
<1>5. Riding'
  <2>1. ASSUME NEW q \in pending'
        PROVE  /\ call'[q.call].pc = "waiting" /\ q.id = RequestId(q.call)'
               /\ q.gen = call'[q.call].gen /\ sockets'[q.gen].state # "closed"
    <3>1. q \in pending /\ q.call \in Calls /\ call'[q.call] = call[q.call]
      BY <1>1, <1>2, Typed
    <3>2. QED BY <3>1 DEF Kept, Riding, RequestId
  <2>2. ASSUME NEW d \in Calls, call'[d].pc = "waiting" PROVE \E q \in pending' : q.call = d
    <3>1. d # c /\ call[d].pc = "waiting"
      BY <1>1, <2>2
    <3>2. QED BY <1>2, <3>1 DEF Kept, Riding
  <2>3. QED BY <2>1, <2>2 DEF Riding
<1>6. Numbered'
  <2>1. ASSUME NEW r \in outbox \cup wire
        PROVE  LET k == call'[r.call]
               IN  /\ r.id[1] = r.call /\ k.pc # "idle"
                   /\ k.pc # "done" => r.id[2] <= k.attempt
                   /\ k.pc \in {"begin", "resolving", "send"} => r.id[2] < k.attempt
    <3>1. CASE r.call = c
      BY <1>1, <1>3, <3>1 DEF Kept, Numbered
    <3>2. CASE r.call # c
      BY <1>1, <3>2, Typed DEF Kept, Numbered
    <3>3. QED BY <3>1, <3>2
  <2>2. QED BY <2>1 DEF Numbered
<1>7. Sole'
  BY DEF Kept, Sole
<1>8. Awaited'
  <2>1. ASSUME NEW r \in outbox' \cup wire', sockets'[r.gen].state \in Live
        PROVE  \E q \in pending' : q.id = r.id /\ q.gen = r.gen
    <3>1. r \in outbox \cup wire /\ r.call \in Calls /\ sockets[r.gen].state \in Live
      BY <2>1, Typed
    <3>2. PICK q \in pending : q.id = r.id /\ q.gen = r.gen
      BY <3>1 DEF Kept, Awaited, Quiet, Microtask
    <3>3. r.id # m.id
      BY DEF Kept, Sole
    <3>4. QED BY <3>2, <3>3
  <2>2. QED BY <2>1 DEF Awaited
<1>9. Truthful'
  <2>1. ASSUME NEW d \in Calls, call'[d].result = "ok"
        PROVE  call'[d].pc \in {"resumed", "done"} /\ call'[d].of = d /\ d \in served'
    <3>1. CASE d = c
      BY <1>1, <1>3, <3>1
    <3>2. CASE d # c
      BY <1>1, <2>1, <3>2 DEF Kept, Truthful
    <3>3. QED BY <3>1, <3>2
  <2>2. QED BY <2>1 DEF Kept, Truthful
<1>10. QED BY <1>4, <1>5, <1>6, <1>7, <1>8, <1>9 DEF Kept

LEMMA DeliverKept ==
  ASSUME TypeOK, Kept, IsFiniteSet(pending), NEW m \in wire,
         NEW answer \in Results, Deliver(m, answer)
  PROVE  Kept'
<1>1. /\ Quiet /\ m.kind = "reply" /\ sockets[m.gen].state = "open"
      /\ wire' = wire \ {m} /\ pending' = pending \ Receiver(m) /\ outbox' = outbox
      /\ call' = Resumed({p.call : p \in Receiver(m)}, answer, m.call)
      /\ pool' = pool /\ sockets' = sockets /\ served' = served
  BY DEF Deliver, DispatchResult
<1>2. m.call \in Calls
  BY Typed
<1>3. CASE Receiver(m) = {}
  <2>1. call' = Resumed({}, answer, m.call) /\ pending' = pending
    BY <1>1, <1>3
  <2>2. call \in [Calls -> CallState]
    BY DEF TypeOK
  <2>3. call' = call
    BY <2>1, <2>2 DEF Resumed
  <2>5. OneLive' /\ Queued'
    BY <1>1 DEF Kept, OneLive, Queued
  <2>6. Riding'
    BY <1>1, <2>1, <2>3 DEF Kept, Riding, RequestId
  <2>7. Numbered' /\ Sole'
    BY <1>1, <2>3 DEF Kept, Numbered, Sole
  <2>8. Awaited'
    BY <1>1, <2>1, <2>3 DEF Kept, Awaited
  <2>9. Truthful'
    BY <1>1, <2>3 DEF Kept, Truthful
  <2>10. QED BY <2>5, <2>6, <2>7, <2>8, <2>9 DEF Kept
<1>4. ASSUME NEW p \in pending, Receiver(m) = {p}, p.id = m.id, p.call = m.call
      PROVE  Kept'
  <2>1. {q.call : q \in Receiver(m)} = {m.call} /\ pending' = pending \ {p}
    BY <1>1, <1>4
  <2>2. call' = Resumed({m.call}, answer, m.call)
    BY <1>1, <2>1
  <2>3. QED BY <1>1, <1>2, <1>4, <2>1, <2>2, HeardKept
<1>5. QED BY <1>1, <1>3, <1>4, RightReceiver

LEMMA TimesOutKept ==
  ASSUME TypeOK, Kept, NEW c \in Calls, TimesOut(c) PROVE Kept'
<1>1. /\ Quiet /\ call[c].pc = "waiting" /\ pending' = {p \in pending : p.call # c}
      /\ pool' = pool /\ sockets' = sockets /\ served' = served
      /\ outbox' = outbox /\ wire' = wire /\ call' = Resumed({c}, "timeout", None)
  BY DEF TimesOut
<1>2. /\ \A d \in Calls \ {c} : call'[d] = call[d]
      /\ call'[c].pc = "resumed" /\ call'[c].result = "timeout"
      /\ call'[c].attempt = call[c].attempt /\ call'[c].gen = call[c].gen
  <2>1. "timeout" \in Results /\ call \in [Calls -> CallState]
    BY DEF TypeOK, Results
  <2>2. None \in Calls \cup {None} /\ call' = Resumed({c}, "timeout", None)
    BY <1>1
  <2>3. QED BY <2>1, <2>2, ResumedOne
<1>3. OneLive' /\ Queued' /\ Sole'
  BY <1>1 DEF Kept, OneLive, Queued, Sole
<1>4. Riding'
  <2>1. ASSUME NEW p \in pending'
        PROVE  /\ call'[p.call].pc = "waiting" /\ p.id = RequestId(p.call)'
               /\ p.gen = call'[p.call].gen /\ sockets'[p.gen].state # "closed"
    <3>1. p \in pending /\ p.call \in Calls /\ call'[p.call] = call[p.call]
      BY <1>1, <1>2, Typed
    <3>2. QED BY <1>1, <3>1 DEF Kept, Riding, RequestId
  <2>2. ASSUME NEW d \in Calls, call'[d].pc = "waiting" PROVE \E p \in pending' : p.call = d
    <3>1. d # c /\ call[d].pc = "waiting"
      BY <1>2, <2>2
    <3>2. QED BY <1>1, <3>1 DEF Kept, Riding
  <2>3. QED BY <2>1, <2>2 DEF Riding
<1>5. Numbered'
  BY <1>1, <1>2, Typed DEF Kept, Numbered
<1>6. Awaited'
  <2>1. ASSUME NEW r \in outbox \cup wire, sockets[r.gen].state \in Live
        PROVE  \/ \E p \in pending' : p.id = r.id /\ p.gen = r.gen
               \/ LET k == call'[r.call]
                  IN  k.pc = "resumed" /\ k.result = "timeout" /\ k.gen = r.gen
    <3>1. PICK p \in pending : p.id = r.id /\ p.gen = r.gen
      BY <1>1, <2>1, Typed DEF Kept, Awaited, Quiet, Microtask
    <3>2. p.call = r.call /\ p.gen = call[p.call].gen
      BY <3>1 DEF Kept, Riding, Numbered, RequestId
    <3>3. QED BY <1>1, <1>2, <3>1, <3>2
  <2>2. QED BY <1>1, <2>1 DEF Awaited
<1>7. Truthful'
  BY <1>1, <1>2 DEF Kept, Truthful
<1>8. QED BY <1>3, <1>4, <1>5, <1>6, <1>7 DEF Kept

LEMMA CannotOpenKept ==
  ASSUME TypeOK, Kept, NEW c \in Calls, CannotOpen(c) PROVE Kept'
<1>1. /\ call[c].pc = "send" /\ served' = served /\ pool' = None
      /\ pending' = pending /\ outbox' = outbox /\ wire' = wire
      /\ \A d \in Calls \ {c} : call'[d] = call[d]
      /\ call'[c].pc = "resumed" /\ call'[c].result = "no socket"
      /\ call'[c].attempt = call[c].attempt
  BY CannotOpenCall DEF CannotOpen
<1>2. /\ DOMAIN sockets' = DOMAIN sockets
      /\ \A g \in DOMAIN sockets :
           sockets'[g].state = IF g \in {pool} /\ sockets[g].state \in Live
                               THEN "closing" ELSE sockets[g].state
  BY ClosingSockets DEF TypeOK, CannotOpen
<1>3. \A g \in DOMAIN sockets : sockets'[g].state \notin Live
  BY <1>2 DEF Kept, OneLive, Live
<1>4. OneLive'
  BY <1>2, <1>3 DEF OneLive
<1>5. Riding'
  <2>1. ASSUME NEW p \in pending
        PROVE  /\ call'[p.call].pc = "waiting" /\ p.id = RequestId(p.call)'
               /\ p.gen = call'[p.call].gen /\ sockets'[p.gen].state # "closed"
    <3>1. p.call \in Calls /\ call'[p.call] = call[p.call] /\ p.gen \in DOMAIN sockets
      BY <1>1, Typed DEF Kept, Riding
    <3>2. QED BY <1>2, <3>1 DEF Kept, Riding, RequestId
  <2>2. ASSUME NEW d \in Calls, call'[d].pc = "waiting" PROVE \E p \in pending : p.call = d
    <3>1. d # c /\ call[d].pc = "waiting"
      BY <1>1, <2>2
    <3>2. QED BY <3>1 DEF Kept, Riding
  <2>3. QED BY <1>1, <2>1, <2>2 DEF Riding
<1>6. Queued'
  BY <1>1, <1>2, Typed DEF Kept, Queued
<1>7. Numbered'
  BY <1>1, Typed DEF Kept, Numbered
<1>8. Sole'
  BY <1>1 DEF Kept, Sole
<1>9. Awaited'
  BY <1>1, <1>3, Typed DEF Awaited
<1>10. Truthful'
  BY <1>1 DEF Kept, Truthful
<1>11. QED BY <1>4, <1>5, <1>6, <1>7, <1>8, <1>9, <1>10 DEF Kept

LEMMA ResumeKept ==
  ASSUME TypeOK, Kept, NEW c \in Calls, Resume(c) PROVE Kept'
<1> DEFINE dead == Dropping(c)
           with == FailingWith(c)
<1>1. /\ call[c].pc = "resumed" /\ served' = served /\ wire' = wire
      /\ pool' = IF pool \in dead THEN None ELSE pool
      /\ pending' = {p \in pending : p.gen \notin dead}
      /\ outbox' = {r \in outbox : r.gen \notin dead}
  BY DEF Resume, Dropping
<1>2. /\ DOMAIN sockets' = DOMAIN sockets
      /\ \A g \in DOMAIN sockets :
           sockets'[g].state = IF g \in dead /\ sockets[g].state \in Live
                               THEN "closing" ELSE sockets[g].state
  BY ClosingSockets DEF TypeOK, Resume, Dropping
<1>3. /\ with \subseteq Calls /\ c \notin with
      /\ \A d \in with : call[d].pc = "waiting"
      /\ \A p \in pending : p.gen \notin dead => p.call \notin with
      /\ \A p \in pending : p.gen \in dead => p.call \in with
  BY <1>1, Typed, OneEach DEF Kept, Riding, FailingWith
<1>4. call[c].result = "ok" => dead = {} /\ with = {}
  BY DEF Dropping, FailingWith, Dead
<1>5. /\ \A d \in Calls \ ({c} \cup with) : call'[d] = call[d]
      /\ \A d \in with : call'[d].pc = "resumed" /\ call'[d].result = "closed"
                         /\ call'[d].attempt = call[d].attempt
  BY <1>3, <1>4, ResumeCall
<1>6. \/ /\ call'[c].pc = "done" /\ call'[c].of = call[c].of
         /\ call'[c].result = IF call[c].result = "ok" THEN "ok" ELSE "failed"
      \/ /\ call'[c].pc \in {"begin", "resolving"} /\ call[c].result # "ok"
         /\ call'[c].attempt = call[c].attempt + 1 /\ call'[c].result = call[c].result
  BY ResumeCall
<1>7. \A g \in DOMAIN sockets : sockets'[g].state \in Live => sockets[g].state \in Live /\ g \notin dead
  BY <1>2 DEF Live
<1>8. call[c].result = "timeout" /\ pool = call[c].gen => call[c].gen \in dead
  BY DEF Dropping, Dropped, Dead
<1> HIDE DEF dead, with
<1>9. OneLive'
  BY <1>1, <1>2, <1>7 DEF Kept, OneLive
<1>10. Riding'
  <2>1. ASSUME NEW p \in pending'
        PROVE  /\ call'[p.call].pc = "waiting" /\ p.id = RequestId(p.call)'
               /\ p.gen = call'[p.call].gen /\ sockets'[p.gen].state # "closed"
    <3>1. p \in pending /\ p.gen \notin dead /\ p.call \in Calls /\ p.gen \in DOMAIN sockets
      BY <1>1, Typed
    <3>2. call[p.call].pc = "waiting"
      BY <3>1 DEF Kept, Riding
    <3>3. call'[p.call] = call[p.call]
      BY <1>1, <1>3, <1>5, <3>1, <3>2
    <3>4. QED BY <1>2, <3>1, <3>3 DEF Kept, Riding, RequestId
  <2>2. ASSUME NEW d \in Calls, call'[d].pc = "waiting" PROVE \E p \in pending' : p.call = d
    <3>1. d # c /\ d \notin with /\ call[d].pc = "waiting"
      BY <1>5, <1>6, <2>2
    <3>2. QED BY <1>1, <1>3, <3>1 DEF Kept, Riding
  <2>3. QED BY <2>1, <2>2 DEF Riding
<1>11. Queued'
  BY <1>1, <1>2, Typed DEF Kept, Queued
<1>12. Numbered'
  <2>1. ASSUME NEW r \in outbox \cup wire
        PROVE  LET k == call'[r.call]
               IN  /\ r.id[1] = r.call /\ k.pc # "idle"
                   /\ k.pc # "done" => r.id[2] <= k.attempt
                   /\ k.pc \in {"begin", "resolving", "send"} => r.id[2] < k.attempt
    <3>1. /\ r.call \in Calls /\ r.id[2] \in Nat /\ call[r.call].attempt \in Nat
          /\ r.id[1] = r.call /\ call[r.call].pc # "idle"
          /\ call[r.call].pc # "done" => r.id[2] <= call[r.call].attempt
          /\ call[r.call].pc \in {"begin", "resolving", "send"} => r.id[2] < call[r.call].attempt
      BY Typed DEF Kept, Numbered
    <3>2. CASE r.call = c
      BY <1>1, <1>6, <3>1, <3>2
    <3>3. CASE r.call \in with
      BY <1>3, <1>5, <3>1, <3>3
    <3>4. CASE r.call # c /\ r.call \notin with
      BY <1>5, <3>1, <3>4
    <3>5. QED BY <3>2, <3>3, <3>4
  <2>2. QED BY <1>1, <2>1 DEF Numbered
<1>13. Sole'
  BY <1>1 DEF Kept, Sole
<1>14. Awaited'
  <2>1. ASSUME NEW r \in outbox \cup wire, sockets'[r.gen].state \in Live
        PROVE  \/ \E p \in pending' : p.id = r.id /\ p.gen = r.gen
               \/ LET k == call'[r.call]
                  IN  k.pc = "resumed" /\ k.result = "timeout" /\ k.gen = r.gen
    <3>1. /\ r.gen \in DOMAIN sockets /\ sockets[r.gen].state \in Live /\ r.gen \notin dead
          /\ r.call \in Calls /\ pool = r.gen
      BY <1>7, <2>1, Typed DEF Kept, OneLive
    <3>2. CASE \E p \in pending : p.id = r.id /\ p.gen = r.gen
      BY <1>1, <3>1, <3>2
    <3>3. CASE call[r.call].pc = "resumed" /\ call[r.call].result = "timeout"
               /\ call[r.call].gen = r.gen
      <4>1. r.call # c
        BY <1>8, <3>1, <3>3
      <4>2. call'[r.call] = call[r.call]
        BY <1>3, <1>5, <3>1, <3>3, <4>1
      <4>3. QED BY <3>3, <4>2
    <3>4. QED BY <3>1, <3>2, <3>3 DEF Kept, Awaited
  <2>2. QED BY <1>1, <2>1 DEF Awaited
<1>15. Truthful'
  <2>1. ASSUME NEW d \in Calls, call'[d].result = "ok"
        PROVE  call'[d].pc \in {"resumed", "done"} /\ call'[d].of = d /\ d \in served
    <3>1. CASE d = c
      BY <1>6, <2>1, <3>1 DEF Kept, Truthful
    <3>2. CASE d # c
      BY <1>5, <2>1, <3>2 DEF Kept, Truthful
    <3>3. QED BY <3>1, <3>2
  <2>2. QED BY <1>1, <2>1 DEF Kept, Truthful
<1>16. QED BY <1>9, <1>10, <1>11, <1>12, <1>13, <1>14, <1>15 DEF Kept

-----------------------------------------------------------------------------
(* The inductive invariant. *)

Inv == TypeOK /\ IsFiniteSet(pending) /\ Kept

(* A step adds one pending request at most.                                *)
LEMMA PendingStep ==
  ASSUME TypeOK, IsFiniteSet(pending), [Next]_vars PROVE IsFiniteSet(pending')
<1>1. ASSUME NEW c \in Calls, Send(c) PROVE IsFiniteSet(pending')
  <2>1. pending' = pending \cup {Asked(c)}
    BY <1>1, SendEffect
  <2>2. QED BY <2>1, FS_AddElement
<1>2. CASE pending' \subseteq pending
  BY <1>2, FS_Subset
<1>3. ASSUME NEW c \in Calls, Start(c) \/ Begin(c) \/ CannotOpen(c) \/ Resume(c)
      PROVE  pending' \subseteq pending
  BY <1>3 DEF Start, Begin, CannotOpen, Resume, link
<1>4. ASSUME NEW c \in Calls, Resolver(c) \/ TimesOut(c) PROVE pending' \subseteq pending
  BY <1>4 DEF Resolver, ResolverFails, ResolverAnswers, TimesOut, link
<1>5. ASSUME NEW n \in Networks, NEW url \in Customs \cup {None}, SaveSettings(n, url)
      PROVE  pending' \subseteq pending
  BY <1>5 DEF SaveSettings, link
<1>6. ASSUME NEW g \in DOMAIN sockets, Opens(g) \/ Breaks(g) \/ Closes(g)
      PROVE  pending' \subseteq pending
  BY <1>6 DEF Opens, Breaks, Closes, DispatchFailure
<1>7. ASSUME NEW m \in wire, \/ \E named \in BOOLEAN : Serve(m, named)
                             \/ \E result \in {"ok", "node error"} : Deliver(m, result)
      PROVE  pending' \subseteq pending
  BY <1>7 DEF Serve, Deliver, DispatchResult
<1>8. CASE UNCHANGED vars
  BY <1>2, <1>8 DEF vars, link
<1>9. QED
  BY <1>1, <1>2, <1>3, <1>4, <1>5, <1>6, <1>7, <1>8 DEF Next, Microtasks

LEMMA KeptStep ==
  ASSUME TypeOK, IsFiniteSet(pending), Kept, [Next]_vars PROVE Kept'
<1>1. ASSUME NEW c \in Calls, Start(c) PROVE Kept'
  <2>1. link' = link /\ served' = served /\ call[c].pc = "idle"
    BY <1>1 DEF Start
  <2>2. QED BY <1>1, <2>1, StartCall, Elsewhere
<1>2. ASSUME NEW c \in Calls, Begin(c) PROVE Kept'
  <2>1. link' = link /\ served' = served /\ call[c].pc = "begin"
    BY <1>2 DEF Begin
  <2>2. QED BY <1>2, <2>1, BeginCall, Elsewhere
<1>3. ASSUME NEW c \in Calls, Resolver(c) PROVE Kept'
  <2>1. ASSUME ResolverFails(c) PROVE Kept'
    <3>1. link' = link /\ served' = served /\ call[c].pc = "resolving"
      BY <2>1 DEF ResolverFails
    <3>2. call[c].result # "ok"
      BY <3>1 DEF Kept, Truthful
    <3>3. QED BY <2>1, <3>1, <3>2, FailsCall, Elsewhere
  <2>2. ASSUME NEW url \in UNION {Public[n] : n \in Networks}, ResolverAnswers(c, url)
        PROVE  Kept'
    <3>1. link' = link /\ served' = served /\ call[c].pc = "resolving"
      BY <2>2 DEF ResolverAnswers
    <3>2. QED BY <2>2, <3>1, AnswersCall, Elsewhere
  <2>3. QED BY <1>3, <2>1, <2>2 DEF Resolver
<1>4. ASSUME NEW c \in Calls, Send(c) \/ CannotOpen(c) \/ Resume(c) \/ TimesOut(c) PROVE Kept'
  BY <1>4, SendKept, CannotOpenKept, ResumeKept, TimesOutKept
<1>5. ASSUME UNCHANGED <<link, call, served>> PROVE Kept'
  <2>1. /\ pool' = pool /\ sockets' = sockets /\ pending' = pending
        /\ outbox' = outbox /\ wire' = wire /\ call' = call /\ served' = served
    BY <1>5 DEF link
  <2>2. OneLive' /\ Queued' /\ Numbered' /\ Sole'
    BY <2>1 DEF Kept, OneLive, Queued, Numbered, Sole
  <2>3. Riding' /\ Awaited' /\ Truthful'
    BY <2>1 DEF Kept, Riding, RequestId, Awaited, Truthful
  <2>4. QED BY <2>2, <2>3 DEF Kept
<1>6. ASSUME NEW n \in Networks, NEW url \in Customs \cup {None}, SaveSettings(n, url)
      PROVE  Kept'
  BY <1>5, <1>6 DEF SaveSettings
<1>7. ASSUME NEW g \in DOMAIN sockets, Opens(g) PROVE Kept'
  BY <1>7, OpensKept
<1>8. ASSUME NEW g \in DOMAIN sockets, Breaks(g) PROVE Kept'
  <2>1. /\ Quiet /\ DispatchFailure(g, "error") /\ sockets' = Closing({g})
        /\ pool' = pool /\ served' = served /\ wire' \subseteq wire
    BY <1>8 DEF Breaks
  <2>2. /\ DOMAIN sockets' = DOMAIN sockets /\ sockets'[g].state \notin Live
        /\ \A h \in DOMAIN sockets \ {g} : sockets'[h].state = sockets[h].state
    BY <2>1, ClosingSockets DEF TypeOK, Live
  <2>3. QED BY <2>1, <2>2, FailureKept
<1>9. ASSUME NEW g \in DOMAIN sockets, Closes(g) PROVE Kept'
  <2>1. /\ Quiet /\ DispatchFailure(g, "closed") /\ sockets' = [sockets EXCEPT ![g].state = "closed"]
        /\ pool' = pool /\ served' = served /\ wire' \subseteq wire
    BY <1>9 DEF Closes
  <2>2. /\ DOMAIN sockets' = DOMAIN sockets /\ sockets'[g].state \notin Live
        /\ \A h \in DOMAIN sockets \ {g} : sockets'[h].state = sockets[h].state
    BY <2>1, SocketIn DEF TypeOK, States, Live
  <2>3. QED BY <2>1, <2>2, FailureKept
<1>10. ASSUME NEW m \in wire, NEW named \in BOOLEAN, Serve(m, named) PROVE Kept'
  BY <1>10, ServeKept
<1>11. ASSUME NEW m \in wire, Deliver(m, "ok") \/ Deliver(m, "node error") PROVE Kept'
  <2>1. "ok" \in Results /\ "node error" \in Results
    BY DEF Results
  <2>2. QED BY <1>11, <2>1, DeliverKept
<1>12. CASE UNCHANGED vars
  BY <1>5, <1>12 DEF vars
<1>13. QED
  BY <1>1, <1>2, <1>3, <1>4, <1>6, <1>7, <1>8, <1>9, <1>10, <1>11, <1>12 DEF Next, Microtasks

(* Every state of the link is well typed, and in order.                    *)
THEOREM LinkInvariant == Spec => []Inv
<1>1. Init => Inv
  BY InitType, InitKept, FS_EmptySet DEF Init, Inv
<1>2. Inv /\ [Next]_vars => Inv'
  BY TypeStep, PendingStep, KeptStep DEF Inv
<1>3. QED
  BY <1>1, <1>2, PTL DEF Spec

(* Nothing leaks and nothing waits in vain (pooled_socket,                 *)
(* dispatch_failure): only the pooled socket is live, a waiting call rides *)
(* on a socket that can still end it, a queued request is for a socket     *)
(* that is still to open.                                                  *)
THEOREM NothingWaitsInVain == Spec => []LinkTidy
<1>1. Inv => LinkTidy
  <2>1. SUFFICES ASSUME Inv PROVE LinkTidy
    OBVIOUS
  <2>2. TypeOK /\ Kept
    BY <2>1 DEF Inv
  <2>3. {p.call : p \in pending} = {c \in Calls : call[c].pc = "waiting"}
    BY <2>2, Typed DEF Kept, Riding
  <2>4. QED BY <2>2, <2>3 DEF LinkTidy, Kept, OneLive, Riding, Queued
<1>2. QED BY <1>1, LinkInvariant, PTL

-----------------------------------------------------------------------------
(* What the page may rely on. *)

\* What the page sees of the calls.
Out == [c \in Calls |-> Outcome(c)]
Plainly(c) ==
  IF call[c].pc = "idle" THEN "none"
  ELSE IF call[c].pc # "done" THEN "open"
  ELSE IF call[c].result = "ok" THEN "answered" ELSE "failed"
Outcomes == \A c \in Calls : Outcome(c) = Plainly(c)

LEMMA NeverMisled == Kept => Outcomes
<1> SUFFICES ASSUME Kept, NEW c \in Calls PROVE Outcome(c) = Plainly(c)
  BY DEF Outcomes
<1>1. call[c].result = "ok" => call[c].of = c
  BY DEF Kept, Truthful
<1>2. CASE call[c].pc = "idle"
  BY <1>2 DEF Outcome, Plainly
<1>3. CASE call[c].pc # "idle" /\ call[c].pc # "done"
  BY <1>3 DEF Outcome, Plainly
<1>4. CASE call[c].pc = "done" /\ call[c].result = "ok"
  BY <1>1, <1>4 DEF Outcome, Plainly
<1>5. CASE call[c].pc = "done" /\ call[c].result # "ok"
  BY <1>5 DEF Outcome, Plainly
<1>6. QED BY <1>2, <1>3, <1>4, <1>5

\* A call that is under way stays so, or nothing happens to it.
OnItsWay(c) ==
  \/ call'[c] = call[c]
  \/ call[c].pc \notin {"idle", "done"} /\ call'[c].pc \notin {"idle", "done"}

(* What happens on a call's way the page does not see.                     *)
LEMMA Unseen ==
  ASSUME Kept, Kept', \A c \in Calls : OnItsWay(c) PROVE Out' = Out
<1>1. Outcomes /\ Outcomes'
  BY NeverMisled, PTL
<1>2. ASSUME NEW c \in Calls PROVE Outcome(c)' = Outcome(c)
  BY <1>1 DEF Outcomes, Plainly, OnItsWay
<1>3. QED BY <1>2 DEF Out


(* Resolving calls that wait is not seen.                                  *)
LEMMA ResumedOnTheirWay ==
  ASSUME TypeOK, Kept, NEW S, \A c \in S : call[c].pc = "waiting", NEW why \in Results,
         NEW whose \in Calls \cup {None}, call' = Resumed(S, why, whose)
  PROVE  \A c \in Calls : OnItsWay(c)
<1>1. call \in [Calls -> CallState]
  BY DEF TypeOK
<1>2. \A c \in Calls \ S : call'[c] = call[c]
  BY <1>1, ResumedStep
<1>3. \A c \in Calls : c \in S => call'[c].pc = "resumed"
  BY <1>1, ResumedStep
<1>4. QED BY <1>2, <1>3 DEF OnItsWay

(* A call that ends has an answer of a node's, to this very call, or       *)
(* fails.                                                                  *)
LEMMA EndsRightly ==
  ASSUME Kept, Kept', NEW c \in Calls, call[c].pc \notin {"idle", "done"}, call'[c].pc = "done",
         call'[c].result = (IF call[c].result = "ok" THEN "ok" ELSE "failed"),
         \A d \in Calls \ {c} : OnItsWay(d), served' = served
  PROVE  Promise!Answer(c) \/ Promise!Fail(c)
<1>1. Outcomes /\ Outcomes'
  BY NeverMisled, PTL
<1>2. \A d \in Calls \ {c} : Outcome(d)' = Outcome(d)
  BY <1>1 DEF Outcomes, Plainly, OnItsWay
<1>3. Outcome(c) = "open"
  BY <1>1 DEF Outcomes, Plainly
<1>4. CASE call[c].result = "ok"
  <2>1. c \in served
    BY <1>4 DEF Kept, Truthful
  <2>2. Outcome(c)' = "answered"
    BY <1>1, <1>4 DEF Outcomes, Plainly
  <2>3. Out' = [Out EXCEPT ![c] = "answered"]
    BY <1>2, <2>2 DEF Out
  <2>4. QED BY <1>3, <2>1, <2>3 DEF Promise!Answer, Out
<1>5. CASE call[c].result # "ok"
  <2>1. Outcome(c)' = "failed"
    BY <1>1, <1>5 DEF Outcomes, Plainly
  <2>2. Out' = [Out EXCEPT ![c] = "failed"]
    BY <1>2, <2>1 DEF Out
  <2>3. QED BY <1>3, <2>2 DEF Promise!Fail, Out
<1>6. QED BY <1>4, <1>5

LEMMA PromiseInit == Init => Promise!Init
BY FreshCall DEF Init, Promise!Init, Outcome

LEMMA PromiseStep ==
  ASSUME TypeOK, Kept, Kept', IsFiniteSet(pending), [Next]_vars
  PROVE  [Promise!Next]_(Promise!vars)
<1>1. ASSUME served' = served, \A c \in Calls : OnItsWay(c) PROVE UNCHANGED Promise!vars
  BY <1>1, Unseen DEF Promise!vars, Out
<1>2. ASSUME NEW c \in Calls, Start(c) PROVE Promise!Next
  <2>1. Outcomes /\ Outcomes'
    BY NeverMisled, PTL
  <2>2. call[c].pc = "idle" /\ served' = served
    BY <1>2 DEF Start
  <2>3. call'[c].pc = "begin" /\ \A d \in Calls \ {c} : call'[d] = call[d]
    BY <1>2, StartCall
  <2>4. Outcome(c) = "none" /\ Outcome(c)' = "open"
    BY <2>1, <2>2, <2>3 DEF Outcomes, Plainly
  <2>5. \A d \in Calls \ {c} : Outcome(d)' = Outcome(d)
    BY <2>1, <2>3 DEF Outcomes, Plainly
  <2>6. Out' = [Out EXCEPT ![c] = "open"]
    BY <2>4, <2>5 DEF Out
  <2>7. QED BY <2>2, <2>4, <2>6 DEF Promise!Next, Promise!Ask, Out
<1>3. ASSUME NEW c \in Calls, Begin(c) PROVE UNCHANGED Promise!vars
  <2>1. call[c].pc = "begin" /\ served' = served
    BY <1>3 DEF Begin
  <2>2. QED BY <1>1, <1>3, <2>1, BeginCall DEF OnItsWay
<1>4. ASSUME NEW c \in Calls, Send(c) PROVE UNCHANGED Promise!vars
  <2>1. call[c].pc = "send" /\ served' = served
    BY <1>4 DEF Send
  <2>2. QED BY <1>1, <1>4, <2>1, SendCall DEF OnItsWay
<1>5. ASSUME NEW c \in Calls, CannotOpen(c) PROVE UNCHANGED Promise!vars
  <2>1. call[c].pc = "send" /\ served' = served
    BY <1>5 DEF CannotOpen
  <2>2. QED BY <1>1, <1>5, <2>1, CannotOpenCall DEF OnItsWay
<1>6. ASSUME NEW c \in Calls, Resume(c) PROVE [Promise!Next]_(Promise!vars)
  <2>1. call[c].pc = "resumed" /\ served' = served
    BY <1>6 DEF Resume
  <2>2. \A d \in FailingWith(c) : call[d].pc = "waiting"
    BY DEF FailingWith, Kept, Riding
  <2>3. \A d \in Calls \ {c} : OnItsWay(d)
    BY <1>6, <2>2, ResumeCall DEF OnItsWay
  <2>4. CASE /\ call'[c].pc = "done"
             /\ call'[c].result = (IF call[c].result = "ok" THEN "ok" ELSE "failed")
    BY <2>1, <2>3, <2>4, EndsRightly DEF Promise!Next
  <2>5. CASE call'[c].pc \in {"begin", "resolving"}
    BY <1>1, <2>1, <2>3, <2>5 DEF OnItsWay
  <2>6. QED BY <1>6, <2>4, <2>5, ResumeCall
<1>7. ASSUME NEW c \in Calls, Resolver(c) PROVE [Promise!Next]_(Promise!vars)
  <2>1. ASSUME ResolverFails(c) PROVE Promise!Next
    <3>1. call[c].pc = "resolving" /\ served' = served
      BY <2>1 DEF ResolverFails
    <3>2. QED BY <2>1, <3>1, FailsCall, EndsRightly DEF OnItsWay, Promise!Next
  <2>2. ASSUME NEW url \in UNION {Public[n] : n \in Networks}, ResolverAnswers(c, url)
        PROVE  UNCHANGED Promise!vars
    <3>1. call[c].pc = "resolving" /\ served' = served
      BY <2>2 DEF ResolverAnswers
    <3>2. QED BY <1>1, <2>2, <3>1, AnswersCall DEF OnItsWay
  <2>3. QED BY <1>7, <2>1, <2>2 DEF Resolver
<1>8. ASSUME NEW c \in Calls, TimesOut(c) PROVE UNCHANGED Promise!vars
  <2>1. call[c].pc = "waiting" /\ served' = served /\ call' = Resumed({c}, "timeout", None)
    BY <1>8 DEF TimesOut
  <2>2. "timeout" \in Results /\ \A d \in {c} : call[d].pc = "waiting"
    BY <2>1 DEF Results
  <2>3. QED BY <1>1, <2>1, <2>2, ResumedOnTheirWay
<1>9. ASSUME NEW n \in Networks, NEW url \in Customs \cup {None}, SaveSettings(n, url)
      PROVE  UNCHANGED Promise!vars
  BY <1>1, <1>9 DEF SaveSettings, OnItsWay
<1>10. ASSUME NEW g \in DOMAIN sockets, Opens(g) PROVE UNCHANGED Promise!vars
  BY <1>1, <1>10 DEF Opens, OnItsWay
<1>11. ASSUME NEW g \in DOMAIN sockets, Breaks(g) \/ Closes(g) PROVE UNCHANGED Promise!vars
  <2>1. \A d \in RidingOn(g) : call[d].pc = "waiting"
    BY DEF RidingOn, Kept, Riding
  <2>2. PICK why \in {"error", "closed"} : call' = Resumed(RidingOn(g), why, None)
    BY <1>11 DEF Breaks, Closes, DispatchFailure
  <2>3. why \in Results /\ served' = served
    BY <1>11, <2>2 DEF Results, Breaks, Closes
  <2>4. QED BY <1>1, <2>1, <2>2, <2>3, ResumedOnTheirWay
<1>12. ASSUME NEW m \in wire, NEW named \in BOOLEAN, Serve(m, named) PROVE Promise!Next
  <2>1. served' = served \cup {m.call} /\ call' = call /\ m.call \in Calls
    BY <1>12, Typed DEF Serve
  <2>2. call[m.call].pc # "idle"
    BY DEF Kept, Numbered
  <2>3. Outcome(m.call) # "none"
    BY <2>1, <2>2, NeverMisled DEF Outcomes, Plainly
  <2>4. Out' = Out
    BY <2>1, Unseen DEF OnItsWay
  <2>5. QED BY <2>1, <2>3, <2>4 DEF Promise!Next, Promise!Handle, Out
<1>13. ASSUME NEW m \in wire, NEW answer \in Results, Deliver(m, answer)
       PROVE  UNCHANGED Promise!vars
  <2>1. \A d \in {p.call : p \in Receiver(m)} : call[d].pc = "waiting"
    BY DEF Receiver, Kept, Riding
  <2>2. /\ call' = Resumed({p.call : p \in Receiver(m)}, answer, m.call)
        /\ m.call \in Calls /\ served' = served
    BY <1>13, Typed DEF Deliver, DispatchResult
  <2>3. QED BY <1>1, <2>1, <2>2, ResumedOnTheirWay
<1>14. CASE UNCHANGED vars
  BY <1>1, <1>14 DEF vars, OnItsWay
<1>15. "ok" \in Results /\ "node error" \in Results
  BY DEF Results
<1>16. QED
  BY <1>2, <1>3, <1>4, <1>5, <1>6, <1>7, <1>8, <1>9, <1>10, <1>11, <1>12, <1>13, <1>14, <1>15
  DEF Next, Microtasks

(* No call gets another call's answer (dispatch_result): the link keeps    *)
(* what the page relies on.                                                *)
THEOREM AnswersAreItsOwn == Spec => KeepsPromise
<1>1. Inv /\ Inv' /\ [Next]_vars => [Promise!Next]_(Promise!vars)
  BY PromiseStep DEF Inv
<1>2. QED
  BY <1>1, PromiseInit, LinkInvariant, PTL DEF Spec, KeepsPromise, Promise!Spec

-----------------------------------------------------------------------------
(* The network of a call. *)

\* While settings are not saved with a call under way, calls are of the
\* network the page is on, and the cached node is of the network it was found
\* for.
OnNetwork ==
  /\ \A c \in Calls : InFlight(c) => call[c].net = network
  /\ resolved # None => resolved.url \in Public[resolved.net]
  /\ OwnNetwork

(* A call that was sent to a node keeps its node and its network.          *)
LEMMA SameNode ==
  ASSUME TypeOK, OnNetwork, network' = network, resolved' = resolved \/ resolved' = None,
         \A c \in Calls :
           \/ call'[c] = call[c] \/ call'[c].pc = "done"
           \/ /\ InFlight(c) /\ call'[c].net = call[c].net
              /\ call'[c].pc \in {"send", "waiting"} =>
                   call[c].pc \in {"send", "waiting"} /\ call'[c].url = call[c].url
  PROVE  OnNetwork'
<1>1. \A c \in Calls : InFlight(c)' => call'[c].net = network'
  BY DEF OnNetwork, InFlight
<1>2. (resolved # None => resolved.url \in Public[resolved.net])'
  BY DEF OnNetwork
<1>3. OwnNetwork'
  BY DEF OnNetwork, OwnNetwork
<1>4. QED BY <1>1, <1>2, <1>3 DEF OnNetwork

LEMMA ResumedSameNode ==
  ASSUME TypeOK, Kept, OnNetwork, network' = network, resolved' = resolved,
         NEW S, \A c \in S : call[c].pc = "waiting", NEW why \in Results,
         NEW whose \in Calls \cup {None}, call' = Resumed(S, why, whose)
  PROVE  OnNetwork'
<1>1. call \in [Calls -> CallState]
  BY DEF TypeOK
<1>2. \A c \in Calls \ S : call'[c] = call[c]
  BY <1>1, ResumedStep
<1>3. \A c \in Calls : c \in S => call'[c].pc = "resumed" /\ call'[c].net = call[c].net
  BY <1>1, ResumedStep
<1>4. QED BY <1>2, <1>3, SameNode DEF InFlight

LEMMA OnNetworkStep ==
  ASSUME Detours = {}, TypeOK, Kept, OnNetwork, [Next]_vars PROVE OnNetwork'
<1>1. ASSUME NEW c \in Calls, Start(c) PROVE OnNetwork'
  <2>1. network' = network /\ resolved' = resolved
    BY <1>1 DEF Start
  <2>2. /\ call'[c].pc = "begin" /\ call'[c].net = network
        /\ \A d \in Calls \ {c} : call'[d] = call[d]
    BY <1>1, StartCall
  <2>3. OwnNetwork'
    BY <2>2 DEF OnNetwork, OwnNetwork
  <2>4. QED BY <2>1, <2>2, <2>3 DEF OnNetwork, InFlight
<1>2. ASSUME NEW c \in Calls, Begin(c) PROVE OnNetwork'
  <2>1. /\ network' = network /\ resolved' = resolved /\ call[c].pc = "begin"
        /\ call[c].net = network
    BY <1>2 DEF Begin, OnNetwork, InFlight
  <2>2. \A d \in Calls \ {c} : call'[d] = call[d]
    BY <1>2, BeginCall
  <2>3. call'[c].net = network /\ call'[c].pc \in {"send", "resolving"}
    BY <1>2, <2>1, BeginCall
  <2>4. call'[c].pc = "send" => call'[c].url \in Customs \cup Public[network]
    BY <1>2, BeginCall DEF TypeOK, Cached, OnNetwork
  <2>5. OwnNetwork'
    BY <2>2, <2>3, <2>4 DEF OnNetwork, OwnNetwork
  <2>6. QED BY <2>1, <2>2, <2>3, <2>5 DEF OnNetwork, InFlight
<1>3. ASSUME NEW c \in Calls, Send(c) PROVE OnNetwork'
  <2>1. network' = network /\ resolved' = resolved /\ call[c].pc = "send"
    BY <1>3 DEF Send
  <2>2. QED BY <1>3, <2>1, SendCall, SameNode DEF InFlight
<1>4. ASSUME NEW c \in Calls, CannotOpen(c) PROVE OnNetwork'
  <2>1. network' = network /\ resolved' = resolved /\ call[c].pc = "send"
    BY <1>4 DEF CannotOpen
  <2>2. QED BY <1>4, <2>1, CannotOpenCall, SameNode DEF InFlight
<1>5. ASSUME NEW c \in Calls, Resume(c) PROVE OnNetwork'
  <2>1. /\ network' = network
        /\ resolved' = resolved \/ resolved' = None
        /\ call[c].pc = "resumed" /\ call[c].net = network
    <3>1. network' = network /\ call[c].pc = "resumed"
      BY <1>5 DEF Resume
    <3>2. QED BY <1>5, <3>1 DEF Resume, OnNetwork, InFlight
  <2>2. \A d \in FailingWith(c) : call[d].pc = "waiting" /\ d \in Calls
    BY Typed DEF FailingWith, Kept, Riding
  <2>3. \A d \in Calls \ {c} :
          \/ call'[d] = call[d]
          \/ call[d].pc = "waiting" /\ call'[d].pc = "resumed" /\ call'[d].net = call[d].net
    BY <1>5, <2>2, ResumeCall
  <2>4. \/ call'[c].pc = "done"
        \/ call'[c].pc \in {"begin", "resolving"} /\ call'[c].net = network
    BY <1>5, ResumeCall
  <2>5. \A d \in Calls :
          \/ call'[d] = call[d] \/ call'[d].pc = "done"
          \/ /\ InFlight(d) /\ call'[d].net = call[d].net
             /\ call'[d].pc \in {"send", "waiting"} =>
                  call[d].pc \in {"send", "waiting"} /\ call'[d].url = call[d].url
    BY <2>1, <2>3, <2>4 DEF InFlight
  <2>6. QED BY <2>1, <2>5, SameNode
<1>6. ASSUME NEW c \in Calls, ResolverFails(c) PROVE OnNetwork'
  <2>1. network' = network /\ resolved' = resolved
    BY <1>6 DEF ResolverFails
  <2>2. QED BY <1>6, <2>1, FailsCall, SameNode
<1>7. ASSUME NEW c \in Calls, NEW url \in UNION {Public[n] : n \in Networks},
             ResolverAnswers(c, url)
      PROVE  OnNetwork'
  <2>1. /\ network' = network /\ url \in Public[network] /\ call[c].net = network
        /\ resolved' = resolved \/ resolved' = [url |-> url, net |-> network]
    BY <1>7 DEF ResolverAnswers, OnNetwork, InFlight
  <2>2. /\ \A d \in Calls \ {c} : call'[d] = call[d]
        /\ call'[c].pc = "send" /\ call'[c].url = url /\ call'[c].net = network
    BY <1>7, <2>1, AnswersCall
  <2>3. OwnNetwork'
    BY <2>1, <2>2 DEF OnNetwork, OwnNetwork
  <2>4. (resolved # None => resolved.url \in Public[resolved.net])'
    BY <2>1 DEF OnNetwork
  <2>5. QED BY <2>1, <2>2, <2>3, <2>4 DEF OnNetwork, InFlight
<1>8. ASSUME NEW c \in Calls, TimesOut(c) PROVE OnNetwork'
  <2>1. /\ call[c].pc = "waiting" /\ call' = Resumed({c}, "timeout", None)
        /\ network' = network /\ resolved' = resolved
    BY <1>8 DEF TimesOut
  <2>2. "timeout" \in Results /\ \A d \in {c} : call[d].pc = "waiting"
    BY <2>1 DEF Results
  <2>3. QED BY <2>1, <2>2, ResumedSameNode
<1>9. ASSUME NEW n \in Networks, NEW url \in Customs \cup {None}, SaveSettings(n, url)
      PROVE  OnNetwork'
  <2>1. resolved' = resolved /\ call' = call /\ \A c \in Calls : ~InFlight(c)
    BY <1>9 DEF SaveSettings
  <2>2. QED BY <2>1 DEF OnNetwork, OwnNetwork, InFlight
<1>10. ASSUME UNCHANGED <<network, resolved, call>> PROVE OnNetwork'
  BY <1>10 DEF OnNetwork, OwnNetwork, InFlight
<1>11. ASSUME NEW g \in DOMAIN sockets, Opens(g) PROVE OnNetwork'
  BY <1>10, <1>11 DEF Opens
<1>12. ASSUME NEW g \in DOMAIN sockets, Breaks(g) \/ Closes(g) PROVE OnNetwork'
  <2>1. \A d \in RidingOn(g) : call[d].pc = "waiting"
    BY DEF RidingOn, Kept, Riding
  <2>2. PICK why \in {"error", "closed"} : call' = Resumed(RidingOn(g), why, None)
    BY <1>12 DEF Breaks, Closes, DispatchFailure
  <2>3. why \in Results /\ network' = network /\ resolved' = resolved
    BY <1>12, <2>2 DEF Results, Breaks, Closes
  <2>4. QED BY <2>1, <2>2, <2>3, ResumedSameNode
<1>13. ASSUME NEW m \in wire, NEW named \in BOOLEAN, Serve(m, named) PROVE OnNetwork'
  BY <1>10, <1>13 DEF Serve
<1>14. ASSUME NEW m \in wire, NEW answer \in Results, Deliver(m, answer) PROVE OnNetwork'
  <2>1. \A d \in {p.call : p \in Receiver(m)} : call[d].pc = "waiting"
    BY DEF Receiver, Kept, Riding
  <2>2. /\ call' = Resumed({p.call : p \in Receiver(m)}, answer, m.call)
        /\ m.call \in Calls /\ network' = network /\ resolved' = resolved
    BY <1>14, Typed DEF Deliver, DispatchResult
  <2>3. QED BY <2>1, <2>2, ResumedSameNode
<1>15. CASE UNCHANGED vars
  BY <1>10, <1>15 DEF vars
<1>16. "ok" \in Results /\ "node error" \in Results
  BY DEF Results
<1>17. QED
  BY <1>1, <1>2, <1>3, <1>4, <1>5, <1>6, <1>7, <1>8, <1>9, <1>11, <1>12, <1>13, <1>14, <1>15, <1>16
  DEF Next, Microtasks, Resolver

(* A call goes to a node of the network the page was on when it was made,  *)
(* unless the user names a node himself (resolveNodeUrl), as long as the   *)
(* settings are not saved while a call is under way.                       *)
THEOREM OnItsOwnNetwork ==
  ASSUME Detours = {} PROVE Spec => []OwnNetwork
<1>1. Init => OnNetwork
  BY FreshCall DEF Init, OnNetwork, OwnNetwork, InFlight
<1>2. Inv /\ OnNetwork /\ [Next]_vars => OnNetwork'
  BY OnNetworkStep DEF Inv
<1>3. OnNetwork => OwnNetwork
  BY DEF OnNetwork
<1>4. QED
  BY <1>1, <1>2, <1>3, LinkInvariant, PTL DEF Spec
=============================================================================
