-------------------------------- MODULE NodeLink --------------------------------
(***************************************************************************)
(* KasSee's connection to a node: one pooled WebSocket, calls in flight on *)
(* it, the dispatcher that gives each reply to its call, timeouts, and the *)
(* retries around them (withNodeRetry).                                    *)
(*                                                                         *)
(* The browser runs an event to the end of the continuations it caused:    *)
(* while a call is "resumed", "begin" or "send" no other event is handled. *)
(***************************************************************************)
EXTENDS Naturals, FiniteSets, Sequences

CONSTANTS Calls,        \* what the page asks, each wrapped in withNodeRetry
          Networks,
          Home,         \* the network a page starts on
          Public,       \* the nodes the resolvers know, per network
          Customs,      \* nodes the user may set
          MaxAttempts,  \* maxRetries
          MaxSockets,   \* bound on the sockets opened
          MaxSwitches,  \* bound on visits to the settings
          Detours,      \* ways to leave the straight path, see below
          None

\* "switch in flight": the settings are saved while a call is under way.
ASSUME DetoursAssumption == Detours \subseteq {"switch in flight"}
ASSUME AttemptsAssumption == MaxAttempts \in Nat \ {0}
ASSUME HomeAssumption == Home \in Networks
ASSUME NoneAssumption == None \notin Nat /\ None # "ok"

VARIABLES network,   \* the network of the page
          custom,    \* customNodeUrl
          resolved,  \* _resolvedNodeUrl and _resolvedNodeNetwork
          pool,      \* WS_POOL: a generation, or None
          sockets,   \* every socket opened; its index is its generation
          pending,   \* WS_PENDING: [id, gen, call]
          outbox,    \* WS_OUTBOX: [id, gen, call]
          wire,      \* requests and replies on their way
          call,      \* where each call stands
          served,    \* calls a node has handled
          switches   \* visits to the settings

link == <<pool, sockets, pending, outbox, wire>>
vars == <<network, custom, resolved, link, call, served, switches>>

Live == {"connecting", "open"}
Microtask == {"resumed", "begin", "send"}
Quiet == \A c \in Calls : call[c].pc \notin Microtask
InFlight(c) == call[c].pc \notin {"idle", "done"}

Fresh == [pc |-> "idle", attempt |-> 1, fallback |-> FALSE, url |-> None,
          net |-> None, gen |-> None, result |-> None, of |-> None]

Ended(k) == [Fresh EXCEPT !.pc = "done", !.result = IF k.result = "ok" THEN "ok" ELSE "failed", !.of = k.of]

\* What travels of a request: itself, or the reply to it.
Message(r, kind, named) ==
  [kind |-> kind, named |-> named, id |-> r.id, gen |-> r.gen, call |-> r.call]

\* next_request_id: no two requests share one.
RequestId(c) == <<c, call[c].attempt>>

-----------------------------------------------------------------------------
\* The calls of S are resolved with this result.
Resumed(S, result, of) ==
  [c \in Calls |-> IF c \in S THEN [call[c] EXCEPT !.pc = "resumed", !.result = result, !.of = of]
                   ELSE call[c]]

RidingOn(g) == {p.call : p \in {q \in pending : q.gen = g}}

(* Mutant: what was queued for the socket stays queued. *)
MutDispatchFailure(g, why) ==
  /\ pending' = {p \in pending : p.gen # g}
  /\ outbox' = outbox
  /\ call' = Resumed(RidingOn(g), why, None)

\* dispatch_failure: only the calls riding on this connection.
DispatchFailure(g, why) ==
  /\ pending' = {p \in pending : p.gen # g}
  /\ outbox' = {r \in outbox : r.gen # g}
  /\ call' = Resumed(RidingOn(g), why, None)

(* Mutant: a reply without an id goes to the call that has waited longest. *)
MutReceiver(m) ==
  IF m.named THEN {p \in pending : p.id = m.id}
  ELSE {p \in pending : \A q \in pending : p.gen <= q.gen}

\* The call a reply is for: by id, or the only one waiting.
Receiver(m) ==
  IF m.named THEN {p \in pending : p.id = m.id}
  ELSE IF Cardinality(pending) = 1 THEN pending ELSE {}

\* dispatch_result
DispatchResult(m, result) ==
  LET to == Receiver(m) IN
  /\ pending' = pending \ to
  /\ call' = Resumed({p.call : p \in to}, result, m.call)
  /\ UNCHANGED outbox

\* drop_pooled_socket: the socket of generation g, if it is the pooled one.
Dropped(g) == IF pool = g THEN {g} ELSE {}
Closing(S) == [g \in DOMAIN sockets |->
  IF g \in S /\ sockets[g].state \in Live THEN [sockets[g] EXCEPT !.state = "closing"] ELSE sockets[g]]

-----------------------------------------------------------------------------
Init ==
  /\ network = Home
  /\ custom = None
  /\ resolved = None
  /\ pool = None
  /\ sockets = <<>>
  /\ pending = {} /\ outbox = {} /\ wire = {}
  /\ call = [c \in Calls |-> Fresh]
  /\ served = {}
  /\ switches = 0

\* The page asks: withNodeRetry(fn).
Start(c) ==
  /\ Quiet /\ call[c].pc = "idle"
  /\ call' = [call EXCEPT ![c] = [@ EXCEPT !.pc = "begin", !.net = network]]
  /\ UNCHANGED <<network, custom, resolved, link, served, switches>>

\* saveSettings: a node of his own, or none, and the network.
SaveSettings(n, url) ==
  /\ Quiet /\ switches < MaxSwitches
  /\ "switch in flight" \in Detours \/ \A c \in Calls : ~InFlight(c)
  /\ network' = n
  /\ custom' = url
  /\ switches' = switches + 1
  /\ UNCHANGED <<resolved, link, call, served>>

-----------------------------------------------------------------------------
(* Mutant: the cached node is used on whatever network the page is now. *)
MutCached == resolved # None
Cached == resolved # None /\ resolved.net = network

\* resolveNodeUrl
Begin(c) ==
  /\ call[c].pc = "begin"
  /\ call' = [call EXCEPT ![c] =
       IF custom # None THEN [@ EXCEPT !.pc = "send", !.url = custom]
       ELSE IF Cached THEN [@ EXCEPT !.pc = "send", !.url = resolved.url]
       ELSE [@ EXCEPT !.pc = "resolving"]]
  /\ UNCHANGED <<network, custom, resolved, link, served, switches>>

\* resolvePublicNode answers; the node is kept unless this was the fallback.
\* The resolver was asked for the network of that moment (call[c].net).
ResolverAnswers(c, url) ==
  /\ Quiet /\ call[c].pc = "resolving"
  /\ url \in Public[call[c].net]
  /\ resolved' = IF call[c].fallback THEN resolved ELSE [url |-> url, net |-> network]
  /\ call' = [call EXCEPT ![c] = [@ EXCEPT !.pc = "send", !.url = url]]
  /\ UNCHANGED <<network, custom, link, served, switches>>

\* Every resolver failed: nothing retries that.
ResolverFails(c) ==
  /\ Quiet /\ call[c].pc = "resolving"
  /\ call' = [call EXCEPT ![c] = Ended(@)]
  /\ UNCHANGED <<network, custom, resolved, link, served, switches>>

\* pooled_socket and the first half of ws_rpc_call.
Reusable(url) == pool # None /\ sockets[pool].url = url /\ sockets[pool].state \in Live

Send(c) ==
  /\ call[c].pc = "send"
  /\ IF Reusable(call[c].url)
     THEN pool' = pool /\ sockets' = sockets
     ELSE /\ Len(sockets) < MaxSockets
          /\ pool' = Len(sockets) + 1
          /\ sockets' = Append(Closing({pool}), [url |-> call[c].url, state |-> "connecting"])
  /\ LET request == [id |-> RequestId(c), gen |-> pool', call |-> c] IN
     /\ pending' = pending \cup {request}
     /\ IF sockets'[pool'].state = "open"
        THEN wire' = wire \cup {Message(request, "request", TRUE)} /\ UNCHANGED outbox
        ELSE outbox' = outbox \cup {request} /\ UNCHANGED wire
  /\ call' = [call EXCEPT ![c] = [@ EXCEPT !.pc = "waiting", !.gen = pool']]
  /\ UNCHANGED <<network, custom, resolved, served, switches>>

\* WebSocket::new fails after the old socket was let go.
CannotOpen(c) ==
  /\ call[c].pc = "send" /\ ~Reusable(call[c].url)
  /\ pool' = None
  /\ sockets' = Closing({pool})
  /\ call' = [call EXCEPT ![c] = [@ EXCEPT !.pc = "resumed", !.result = "no socket", !.gen = None]]
  /\ UNCHANGED <<network, custom, resolved, pending, outbox, wire, served, switches>>

-----------------------------------------------------------------------------
\* Events of a socket (install_dispatcher).
Opens(g) ==
  /\ Quiet /\ sockets[g].state = "connecting"
  /\ sockets' = [sockets EXCEPT ![g].state = "open"]
  /\ LET mine == {r \in outbox : r.gen = g} IN
     /\ wire' = wire \cup {Message(r, "request", TRUE) : r \in mine}
     /\ outbox' = outbox \ mine
  /\ UNCHANGED <<network, custom, resolved, pool, pending, call, served, switches>>

\* onerror; onclose always follows.
Breaks(g) ==
  /\ Quiet /\ sockets[g].state \in Live
  /\ sockets' = Closing({g})
  /\ DispatchFailure(g, "error")
  /\ UNCHANGED <<network, custom, resolved, pool, wire, served, switches>>

\* onclose: what the node still had to say on it is not heard.
Closes(g) ==
  /\ Quiet /\ sockets[g].state \in {"open", "closing"}
  /\ sockets' = [sockets EXCEPT ![g].state = "closed"]
  /\ DispatchFailure(g, "closed")
  /\ wire' = {m \in wire : m.kind = "request" \/ m.gen # g}
  /\ UNCHANGED <<network, custom, resolved, pool, served, switches>>

\* A node handles a request; some replies carry no id.
Serve(m, named) ==
  /\ Quiet /\ m \in wire /\ m.kind = "request"
  /\ served' = served \cup {m.call}
  /\ wire' = (wire \ {m}) \cup
       (IF sockets[m.gen].state = "closed" THEN {} ELSE {Message(m, "reply", named)})
  /\ UNCHANGED <<network, custom, resolved, pool, sockets, pending, outbox, call, switches>>

\* onmessage: an answer, or an error of the node's.
Deliver(m, result) ==
  /\ Quiet /\ m \in wire /\ m.kind = "reply" /\ sockets[m.gen].state = "open"
  /\ wire' = wire \ {m}
  /\ DispatchResult(m, result)
  /\ UNCHANGED <<network, custom, resolved, pool, sockets, served, switches>>

(* Mutant: the timer is only armed for a request that was sent at once. *)
MutTimesOut(c) ==
  /\ Quiet /\ call[c].pc = "waiting" /\ sockets[call[c].gen].state # "connecting"
  /\ pending' = {p \in pending : p.call # c}
  /\ call' = Resumed({c}, "timeout", None)
  /\ UNCHANGED <<network, custom, resolved, pool, sockets, outbox, wire, served, switches>>

\* The 15 seconds of a call are over.
TimesOut(c) ==
  /\ Quiet /\ call[c].pc = "waiting"
  /\ pending' = {p \in pending : p.call # c}
  /\ call' = Resumed({c}, "timeout", None)
  /\ UNCHANGED <<network, custom, resolved, pool, sockets, outbox, wire, served, switches>>

-----------------------------------------------------------------------------
\* The second half of ws_rpc_call, and the catch of withNodeRetry.
Dead(result) == result \in {"timeout", "error"}
Retried(c) == Dead(call[c].result) /\ ~call[c].fallback /\ call[c].attempt < MaxAttempts

Again(k) == [k EXCEPT !.pc = "begin", !.attempt = @ + 1, !.net = network, !.gen = None]
ToPublic(k) == [k EXCEPT !.pc = "resolving", !.attempt = @ + 1, !.fallback = TRUE,
                         !.net = network, !.gen = None]

AfterFailure(c, others) ==
  LET k == call[c] IN
  IF Retried(c) THEN [others EXCEPT ![c] = Again(k)]
  ELSE IF custom # None /\ ~k.fallback THEN [others EXCEPT ![c] = ToPublic(k)]
  ELSE [others EXCEPT ![c] = Ended(k)]

Resume(c) ==
  LET k == call[c]
      dead == IF Dead(k.result) THEN Dropped(k.gen) ELSE {}
      with == {p.call : p \in {q \in pending : q.gen \in dead}}
  IN
  /\ k.pc = "resumed"
  /\ sockets' = Closing(dead)
  /\ pool' = IF pool \in dead THEN None ELSE pool
  /\ pending' = {p \in pending : p.gen \notin dead}
  /\ outbox' = {r \in outbox : r.gen \notin dead}
  /\ call' = IF k.result = "ok" THEN [call EXCEPT ![c] = Ended(k)]
             ELSE AfterFailure(c, Resumed(with, "closed", None))
  /\ resolved' = IF Retried(c) /\ custom = None THEN None ELSE resolved
  /\ UNCHANGED <<network, custom, wire, served, switches>>

Microtasks(c) == Begin(c) \/ Send(c) \/ CannotOpen(c) \/ Resume(c)
Resolver(c) == ResolverFails(c) \/ \E url \in UNION {Public[n] : n \in Networks} : ResolverAnswers(c, url)

Next ==
  \/ \E c \in Calls : Start(c) \/ Microtasks(c) \/ Resolver(c) \/ TimesOut(c)
  \/ \E n \in Networks, url \in Customs \cup {None} : SaveSettings(n, url)
  \/ \E g \in DOMAIN sockets : Opens(g) \/ Breaks(g) \/ Closes(g)
  \/ \E m \in wire : \/ \E named \in BOOLEAN : Serve(m, named)
                     \/ \E result \in {"ok", "node error"} : Deliver(m, result)

\* Continuations run, timers fire, and a resolver's request is aborted after
\* five seconds.  Of nodes and sockets nothing is assumed.
Fairness == \A c \in Calls :
  WF_vars(Microtasks(c)) /\ WF_vars(Resolver(c)) /\ WF_vars(TimesOut(c))

Spec == Init /\ [][Next]_vars /\ Fairness
-----------------------------------------------------------------------------
\* Nothing leaks and nothing waits in vain: only the pooled socket is live, a
\* waiting call rides on a socket that can still end it, and a queued request
\* is for a socket that is still to open (pooled_socket, dispatch_failure).
LinkTidy ==
  /\ \A g \in DOMAIN sockets : sockets[g].state \in Live => pool = g
  /\ {p.call : p \in pending} = {c \in Calls : call[c].pc = "waiting"}
  /\ \A p \in pending : p.gen = call[p.call].gen /\ sockets[p.gen].state # "closed"
  /\ \A r \in outbox : sockets[r.gen].state \in {"connecting", "closing"}

\* A call goes to a node of the network the page was on when it was made,
\* unless the user names a node himself (resolveNodeUrl).
OwnNetwork == \A c \in Calls :
  call[c].pc \in {"send", "waiting"} /\ call[c].url \notin Customs => call[c].url \in Public[call[c].net]

\* Every call ends, whatever nodes and sockets do (the 15 s timeout).
CallsEnd == \A c \in Calls : call[c].pc = "begin" ~> call[c].pc = "done"

\* What the rest of the page relies on: no call gets another call's answer.
Outcome(c) ==
  CASE call[c].pc = "idle" -> "none"
    [] call[c].pc = "done" /\ call[c].result # "ok" -> "failed"
    [] call[c].pc = "done" /\ call[c].result = "ok" /\ call[c].of = c -> "answered"
    [] call[c].pc = "done" /\ call[c].result = "ok" /\ call[c].of # c -> "misled"
    [] OTHER -> "open"
Promise == INSTANCE AskNode WITH handled <- served, outcome <- [c \in Calls |-> Outcome(c)]
KeepsPromise == Promise!Spec
=============================================================================
