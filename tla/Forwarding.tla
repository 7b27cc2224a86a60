----------------------------- MODULE Forwarding -----------------------------
(***************************************************************************)
(* The request pipeline of the gateway: route, walk the ranked candidates  *)
(* behind their circuit breakers, report the outcome                       *)
(* (hier-kv-gateway-api/src/handlers.rs, chat_completions and              *)
(* forward_with_retries).  A non-streaming request with coalescing enabled *)
(* runs the same steps inside a flight of module Coalescer.                *)
(*                                                                         *)
(* Requests run concurrently on the tokio runtime and share only the       *)
(* breakers.  A step ends where the code awaits (routing, the backoff      *)
(* sleep, the connector's forward, draining the chunk stream) or takes a   *)
(* breaker's lock.  A client that goes away makes the server drop the      *)
(* handler's future at such an await: the request simply stops there.      *)
(*                                                                         *)
(* Routing may return any ranking.  That covers what the steps feed back   *)
(* into later rankings: the adaptive controller's samples, and the session *)
(* affinity that route_candidates records.                                 *)
(***************************************************************************)
EXTENDS CircuitBreaker, Sequences

CONSTANTS
    Requests,     \* request slots: a slot serves one request after another
    MaxRetries,   \* routing.max_retries
    None          \* no backend

ASSUME ForwardingConfig ==
    /\ MaxRetries \in Nat
    /\ None \notin Backends

VARIABLES
    connected,   \* the backends the ConnectorRegistry has a connector for
    pc,          \* request -> where its handler is
    decisions,   \* request -> ranked candidates returned by route_candidates
    loop,        \* request -> locals of forward_with_retries
    events,      \* request -> decision events emitted, in order
    reply        \* request -> what the client is sent

forwardVars == <<pc, decisions, loop, events, reply>>
vars == <<breakerVars, forwardVars, connected>>

MaxAttempts == MaxRetries + 1

\* What route_candidates may return: at most MaxAttempts distinct backends.
Rankings ==
    { d \in UNION { [1 .. n -> Backends] : n \in 1 .. MaxAttempts } :
        \A i, j \in DOMAIN d : d[i] = d[j] => i = j }

\* One ForwardAttempt; skipped_open_circuit, success and error as one outcome.
Attempt(b, outcome) == [backend |-> b, outcome |-> outcome]
Attempts == [backend : Backends, outcome : {"skipped", "failed", "success"}]

Event(outcome, selected, attempts) ==
    [outcome |-> outcome, selected |-> selected, attempts |-> attempts]

FreshLoop == [cursor |-> 1, failures |-> 0, lastErr |-> FALSE, attempts |-> <<>>]

\* The candidate the loop of r is at.
Candidate(r) == decisions[r][loop[r].cursor]

\* Mutant: a candidate whose circuit is open is not recorded.
SkipUnrecorded(l, b) == [l EXCEPT !.cursor = @ + 1]

\* Mutant: the loop waits for the open circuit instead of skipping it.
SkipWaits(l, b) == l

\* `continue` after a candidate skipped by its breaker.
Skip(l, b) ==
    [ cursor |-> l.cursor + 1, failures |-> l.failures, lastErr |-> l.lastErr,
      attempts |-> Append(l.attempts, Attempt(b, "skipped")) ]

\* Mutant: the error of a failed attempt is not kept.
FailForgetsError(l, b) ==
    [l EXCEPT !.cursor = @ + 1, !.failures = @ + 1,
              !.attempts = Append(@, Attempt(b, "failed"))]

\* The end of an iteration whose candidate failed.
Fail(l, b) ==
    [ cursor |-> l.cursor + 1, failures |-> l.failures + 1, lastErr |-> TRUE,
      attempts |-> Append(l.attempts, Attempt(b, "failed")) ]

\* The iteration whose candidate answered; the loop returns.
Succeed(l, b) ==
    [ cursor |-> l.cursor, failures |-> l.failures, lastErr |-> l.lastErr,
      attempts |-> Append(l.attempts, Attempt(b, "success")) ]

-----------------------------------------------------------------------------

ForwardInit ==
    /\ pc = [r \in Requests |-> "idle"]
    /\ decisions = [r \in Requests |-> <<>>]
    /\ loop = [r \in Requests |-> FreshLoop]
    /\ events = [r \in Requests |-> <<>>]
    /\ reply = [r \in Requests |-> "none"]

\* Discovery ended before the server started; a backend it did not report, but
\* another gateway did, has no connector.
Init == BreakerInit /\ ForwardInit /\ connected \in SUBSET Backends

Goto(r, from, to) == pc[r] = from /\ pc' = [pc EXCEPT ![r] = to]

Emit(r, event) == events' = [events EXCEPT ![r] = Append(@, event)]

\* A request arrives and route_candidates is awaited.
Receive(r) ==
    /\ pc[r] \in {"idle", "done", "dropped"}
    /\ pc' = [pc EXCEPT ![r] = "routing"]
    /\ decisions' = [decisions EXCEPT ![r] = <<>>]
    /\ loop' = [loop EXCEPT ![r] = FreshLoop]
    /\ events' = [events EXCEPT ![r] = <<>>]
    /\ reply' = [reply EXCEPT ![r] = "none"]
    /\ UNCHANGED breakerVars

\* route_candidates returned an error or an empty list: 503.
RouteFailed(r) ==
    /\ Goto(r, "routing", "done")
    /\ Emit(r, Event("RoutingFailed", None, <<>>))
    /\ reply' = [reply EXCEPT ![r] = "routing_failed"]
    /\ UNCHANGED <<breakerVars, decisions, loop>>

Routed(r) ==
    /\ Goto(r, "routing", "gate")
    /\ \E d \in Rankings : decisions' = [decisions EXCEPT ![r] = d]
    /\ UNCHANGED <<breakerVars, loop, events, reply>>

MoreCandidates(r) == loop[r].cursor <= Len(decisions[r])

\* allow() refuses: the candidate is skipped.
GateSkips(r) ==
    /\ pc[r] = "gate"
    /\ MoreCandidates(r)
    /\ ~Allowed(breaker[Candidate(r)])
    /\ loop' = [loop EXCEPT ![r] = Skip(@, Candidate(r))]
    /\ UNCHANGED <<breakerVars, pc, decisions, events, reply>>

\* allow() admits: sleep first if an earlier candidate failed.
GateAdmits(r) ==
    /\ pc[r] = "gate"
    /\ MoreCandidates(r)
    /\ Allowed(breaker[Candidate(r)])
    /\ pc' = [pc EXCEPT ![r] = IF loop[r].failures > 0 THEN "backoff" ELSE "connect"]
    /\ Allow(Candidate(r))
    /\ UNCHANGED <<decisions, loop, events, reply>>

\* The backoff sleep ends.  The breaker is not consulted again.
BackoffEnds(r) ==
    /\ Goto(r, "backoff", "connect")
    /\ UNCHANGED <<breakerVars, decisions, loop, events, reply>>

\* No connector for the backend: a failure the breaker is not told of.
ConnectorMissing(r) ==
    /\ Goto(r, "connect", "gate")
    /\ Candidate(r) \notin connected
    /\ loop' = [loop EXCEPT ![r] = Fail(@, Candidate(r))]
    /\ UNCHANGED <<breakerVars, decisions, events, reply>>

\* connector.forward is called and awaited.
ForwardStarts(r) ==
    /\ Goto(r, "connect", "forwarding")
    /\ Candidate(r) \in connected
    /\ UNCHANGED <<breakerVars, decisions, loop, events, reply>>

\* The forward produced a stream: report success, emit the event, and go on to
\* answer the client from the stream.
ForwardSucceeds(r) ==
    /\ Goto(r, "forwarding", "streaming")
    /\ OnSuccess(Candidate(r))
    /\ loop' = [loop EXCEPT ![r] = Succeed(@, Candidate(r))]
    /\ Emit(r, Event("Success", Candidate(r), loop'[r].attempts))
    /\ UNCHANGED <<decisions, reply>>

ForwardFails(r) ==
    /\ Goto(r, "forwarding", "gate")
    /\ OnFailure(Candidate(r))
    /\ loop' = [loop EXCEPT ![r] = Fail(@, Candidate(r))]
    /\ UNCHANGED <<decisions, events, reply>>

\* The loop ran out of candidates: 502 with the last error, or with
\* BackendUnavailable when there was none.
Exhausted(r) ==
    /\ Goto(r, "gate", "done")
    /\ ~MoreCandidates(r)
    /\ Emit(r, Event("AllCandidatesFailed", None, loop[r].attempts))
    /\ reply' = [reply EXCEPT ![r] = IF loop[r].lastErr THEN "connector_error"
                                                       ELSE "backend_unavailable"]
    /\ UNCHANGED <<breakerVars, decisions, loop>>

\* The chunk stream ends, well or with an error chunk.
StreamEnds(r) ==
    /\ Goto(r, "streaming", "done")
    /\ \E outcome \in {"ok", "stream_error"} : reply' = [reply EXCEPT ![r] = outcome]
    /\ UNCHANGED <<breakerVars, decisions, loop, events>>

AwaitPoints == {"routing", "backoff", "forwarding", "streaming"}

\* The client disconnects: the handler's future is dropped at an await.
Disconnect(r) ==
    /\ pc[r] \in AwaitPoints
    /\ pc' = [pc EXCEPT ![r] = "dropped"]
    /\ UNCHANGED <<breakerVars, decisions, loop, events, reply>>

\* The steps of the handler up to the chunk stream: each computes, sleeps for
\* the backoff, or waits for a call that has a timeout.
Handle(r) ==
    \/ RouteFailed(r) \/ Routed(r)
    \/ GateSkips(r) \/ GateAdmits(r) \/ BackoffEnds(r)
    \/ ConnectorMissing(r) \/ ForwardStarts(r)
    \/ ForwardSucceeds(r) \/ ForwardFails(r)
    \/ Exhausted(r)

ClockTick == Tick /\ UNCHANGED forwardVars

Next ==
    /\ \/ \E r \in Requests : Receive(r) \/ Handle(r) \/ StreamEnds(r) \/ Disconnect(r)
       \/ ClockTick
    /\ UNCHANGED connected

Spec == Init /\ [][Next]_vars

\* The runtime polls every live handler; the backoff sleep is finite and each
\* connector's forward has a timeout, so each of these waits ends.  Time goes on.
\* Nothing is assumed of StreamEnds: an OpenAI-compatible stream yields Done at
\* every poll and never ends by itself (module Connectors, StreamedRepliesEnd).
FairSpec ==
    /\ Spec
    /\ \A r \in Requests : WF_vars(Handle(r) /\ UNCHANGED connected)
    /\ WF_vars(ClockTick /\ UNCHANGED connected)

-----------------------------------------------------------------------------
(* Properties.                                                              *)

InLoop == {"gate", "backoff", "connect", "forwarding"}
Replies == {"none", "routing_failed", "connector_error", "backend_unavailable",
            "ok", "stream_error"}
Outcomes == {"RoutingFailed", "AllCandidatesFailed", "Success"}

\* Type invariant.  A handler that holds a candidate has one: the loop never
\* indexes past the ranked list.
TypeOK ==
    /\ BreakerTypeOK
    /\ connected \subseteq Backends
    /\ pc \in [Requests -> InLoop \cup {"idle", "routing", "streaming", "done", "dropped"}]
    /\ decisions \in [Requests -> Rankings \cup {<<>>}]
    /\ loop \in [Requests -> [cursor : 1 .. MaxAttempts + 1, failures : 0 .. MaxAttempts,
                               lastErr : BOOLEAN, attempts : Seq(Attempts)]]
    /\ events \in [Requests -> Seq([outcome : Outcomes, selected : Backends \cup {None},
                                     attempts : Seq(Attempts)])]
    /\ reply \in [Requests -> Replies]

Failed(a) == a.outcome = "failed"
Success(a) == a.outcome = "success"

\* The attempts of a request trace its ranking: while the loop runs there is
\* one attempt for every candidate before the cursor, in rank order and naming
\* that candidate, none of them successful; and the loop remembers an error
\* exactly when some attempt failed.
LoopTracesRanking ==
    \A r \in Requests :
        LET l == loop[r] IN
        /\ pc[r] \in InLoop => /\ Len(l.attempts) = l.cursor - 1
                              /\ \A k \in DOMAIN l.attempts : ~Success(l.attempts[k])
        /\ pc[r] \in InLoop \ {"gate"} => MoreCandidates(r)
        /\ Len(l.attempts) <= Len(decisions[r])
        /\ \A k \in DOMAIN l.attempts : l.attempts[k].backend = decisions[r][k]
        /\ l.lastErr <=> \E k \in DOMAIN l.attempts : Failed(l.attempts[k])
        /\ l.failures > 0 <=> l.lastErr

\* What an event says of the request that emitted it.
Truthful(r, e) ==
    LET a == e.attempts
        n == Len(a)
    IN  CASE e.outcome = "Success" ->
               /\ n > 0 /\ Success(a[n]) /\ e.selected = a[n].backend
               /\ \A k \in 1 .. n - 1 : ~Success(a[k])
               /\ a = loop[r].attempts
          [] e.outcome = "AllCandidatesFailed" ->
               /\ n = Len(decisions[r]) /\ e.selected = None
               /\ \A k \in DOMAIN a : ~Success(a[k])
               /\ a = loop[r].attempts
          [] OTHER -> n = 0 /\ e.selected = None /\ decisions[r] = <<>>

\* A handler that ran to its end emitted exactly one decision event, one that
\* is still choosing a backend none, and the event tells the truth: a selected
\* backend is the one whose forward succeeded, after every better-ranked
\* candidate was tried or skipped; a failed request tried or skipped them all.
OneTruthfulEvent ==
    \A r \in Requests :
        /\ pc[r] \in InLoop \cup {"idle", "routing"} => events[r] = <<>>
        /\ pc[r] \in {"streaming", "done"} => Len(events[r]) = 1
        /\ \A k \in DOMAIN events[r] : Truthful(r, events[r][k])

\* The client is told that every backend was short-circuited only when every
\* candidate was, and of a connector error only when one occurred; it gets an
\* answer from a backend only if a forward succeeded.
ReplyMatchesAttempts ==
    \A r \in Requests :
        LET a == loop[r].attempts IN
        /\ reply[r] = "backend_unavailable" =>
               \A k \in DOMAIN a : a[k].outcome = "skipped"
        /\ reply[r] = "connector_error" => \E k \in DOMAIN a : Failed(a[k])
        /\ reply[r] \in {"ok", "stream_error"} => a # <<>> /\ Success(a[Len(a)])

\* Every received request gets, unless its client leaves, an error reply or a
\* stream to answer from, whatever the other requests do to the breakers it is
\* gated by, and however long their streams last.  Whether its own stream ends is
\* not the pipeline's doing.
RequestsResolve ==
    \A r \in Requests : pc[r] = "routing" ~> pc[r] \in {"streaming", "done", "dropped"}

=============================================================================
