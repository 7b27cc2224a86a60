------------------------------ MODULE Routing ------------------------------
(* The routing engine (routing/engine.rs) and the dispatch history behind    *)
(* its degraded mode (prefix_history.rs, degradation.rs).  A request runs    *)
(* route_candidates: between the awaits of that function, and between those  *)
(* of other requests, backends come and go, metrics age and peers overwrite  *)
(* the session's affinity record.                                            *)
EXTENDS Strategies

CONSTANTS
    Requests, Request,  \* request -> its RoutingContext
    Configs,            \* the configurations build_routing_engine may be given
    MaxHistory,         \* max_entries of the prefix history
    TickSecs,           \* the clock advances by this much
    Moving,             \* the backends that come, go and report
    MaxClock, MaxCalls, MaxReports  \* bounds on the clock, on registration
                        \* calls and on the other changes of the store

ASSUME RoutingAssumption ==
    /\ MaxHistory \in Nat /\ TickSecs \in Nat /\ MaxClock \in Nat
    /\ MaxCalls \in Nat /\ MaxReports \in Nat
    /\ Moving \subseteq BackendIds
    /\ \A r \in Requests : /\ Request[r].hashes \in Seq(Hashes)
                           /\ Request[r].session \in Sessions \cup {""}
    /\ \A c \in Configs :
           /\ c.limit \in Nat
           /\ c.strategy \in {"hybrid", "round_robin", "kv", "model", "load", "topology"}

VARIABLES
    cfg,        \* the engine's configuration
    history,    \* prefix of block hashes -> last dispatch
    cursor,     \* the round-robin cursor
    pc,         \* request -> where route_candidates stands
    pinned,     \* request -> the affinity head, or None
    cands,      \* request -> the candidates collected
    ranked,     \* request -> the ranking selected
    reply,      \* request -> the result
    seen,       \* request -> the backends up, and in a call, at Collect, and
                \* those that fit the request (ghost state)
    edits       \* the store's changes so far

engineVars == <<history, cursor, pc, pinned, cands, ranked, reply, seen>>
vars == <<storeVars, cfg, engineVars, edits>>

None == -2
NoReply == [ok |-> FALSE, error |-> "none", list |-> <<>>]
Ok(list) == [ok |-> TRUE, error |-> "none", list |-> list]
Err(kind) == [ok |-> FALSE, error |-> kind, list |-> <<>>]
HasHead(r) == pinned[r] # None

-----------------------------------------------------------------------------
(* The dispatch history.  A prefix hash is the prefix itself: the chained    *)
(* hash of the code tells prefixes apart up to collisions.                   *)

PrefixesOf(hashes) == {SubSeq(hashes, 1, i) : i \in 1..Len(hashes)}

\* evict_if_needed: the oldest surplus goes; ties are broken any way.
SurvivorsOneTooMany(h) ==       \* mutant: the bound is off by one
    {keep \in SUBSET DOMAIN h : Cardinality(keep) = Min({Cardinality(DOMAIN h), MaxHistory + 1})}

Survivors(h) ==
    {keep \in SUBSET DOMAIN h :
        /\ Cardinality(keep) = Min({Cardinality(DOMAIN h), MaxHistory})
        /\ \A k \in keep, d \in DOMAIN h \ keep : h[d].ts =< h[k].ts}

\* record_dispatch: every prefix now points at b.
RecordDispatch(hashes, b) ==
    LET noted == [p \in DOMAIN history \cup PrefixesOf(hashes) |->
                    IF p \in PrefixesOf(hashes) THEN [backend |-> b, ts |-> clock]
                    ELSE history[p]]
    IN  \E keep \in Survivors(noted) : history' = [p \in keep |-> noted[p]]

\* find_longest_match: its length, 0 without a match.
LongestMatch(hashes) ==
    Max({i \in 0..Len(hashes) : i = 0 \/ SubSeq(hashes, 1, i) \in DOMAIN history})

\* degradation: the backend that served the longest known prefix gets
\* match/total, scaled by the confidence of a small history; the others 0.01.
\* Scores are in units of 1/(1000 * total).
Degradation(q, cs) ==
    LET match == LongestMatch(q.hashes)
        conf  == Min({Cardinality(DOMAIN history), ConfidentEntries})
    IN  [b \in cs |->
            IF match > 0 /\ history[SubSeq(q.hashes, 1, match)].backend = b
            THEN Scored(100 * match * conf, -(100 * match * conf))
            ELSE Scored(10 * Max({Len(q.hashes), 1}), 1000 * Max({Len(q.hashes), 1}))]

\* The KV index always reports confidence, so what is left is the load.
DegradationAvailable ==
    \A b \in backends : HasMetrics(b) => OlderThan(b, AllStaleSecs)

\* select_ranked: distinct picks.  Greedy repeatedly takes the last of the
\* highest scores; softmax sampling may produce any order.
Better(f, b, c) == f[b].score > f[c].score \/ (f[b].score = f[c].score /\ b > c)
Rankings(f, slots, greedy) ==
    {s \in [1..Min({slots, Cardinality(DOMAIN f)}) -> DOMAIN f] :
        /\ \A i, j \in DOMAIN s : i # j => s[i] # s[j]
        /\ greedy => /\ \A i, j \in DOMAIN s : i < j => Better(f, s[i], s[j])
                     /\ \A i \in DOMAIN s, b \in DOMAIN f \ Range(s) : Better(f, s[i], b)}

-----------------------------------------------------------------------------
(* route_candidates.                                                         *)

At(r, step) == pc[r] = step
Goto(r, step) == pc' = [pc EXCEPT ![r] = step]
Answer(r, result) == Goto(r, "done") /\ reply' = [reply EXCEPT ![r] = result]

\* Nothing is asked for; else the affinity record counts while its backend
\* is registered.
Lookup(r) ==
    LET s   == Request[r].session
        hit == s \in DOMAIN sessions /\ sessions[s].backend \in backends
    IN  /\ At(r, "start")
        /\ \/ /\ cfg.limit = 0 /\ Answer(r, Ok(<<>>))
              /\ UNCHANGED pinned
           \/ /\ cfg.limit > 0 /\ hit /\ Goto(r, "pin")
              /\ pinned' = [pinned EXCEPT ![r] = sessions[s].backend]
              /\ UNCHANGED reply
           \/ /\ cfg.limit > 0 /\ ~hit /\ Goto(r, "collect")
              /\ UNCHANGED <<pinned, reply>>
        /\ UNCHANGED <<storeVars, cfg, history, cursor, cands, ranked, seen, edits>>

\* After the overlap query: the record is renewed and the dispatch noted.
Pin(r) ==
    LET q == Request[r]
    IN  /\ At(r, "pin")
        /\ SessionSet(q.session, pinned[r], LocalOverlap(q.hashes, pinned[r]))
        /\ RecordDispatch(q.hashes, pinned[r])
        /\ IF cfg.limit = 1 THEN Answer(r, Ok(<<pinned[r]>>))
           ELSE Goto(r, "collect") /\ UNCHANGED reply
        /\ UNCHANGED <<backends, models, byRegion, byDomain, load, latency, held,
                       clock, ops, cfg, cursor, pinned, cands, ranked, seen, edits>>

CandidatesWithHead(r) ==        \* mutant: the head is scored again
    IF ModelFindBackends(Request[r].model) = {} THEN backends
    ELSE ModelFindBackends(Request[r].model)

\* The backends of the model if there are any, else all; never the head.
Candidates(r) ==
    LET model   == Request[r].model
        byModel == IF model = "" THEN {} ELSE ModelFindBackends(model)
    IN  (IF byModel = {} THEN backends ELSE byModel) \ {pinned[r]}

\* What a request asks for, whatever the strategies make of it: one instance of
\* the model, by name or architecture, with room for it and the tools it needs.
Fits(q, b) ==
    /\ q.model # ""
    /\ \E i \in DOMAIN Instances(b) :
           LET inst == Instances(b)[i]
           IN  /\ q.model \in {inst.name, inst.arch}
               /\ inst.ctx >= q.tokens
               /\ q.tools => inst.tools
Fitting(q) == {b \in BackendIds : Fits(q, b)}

Sighting(r) ==
    [up |-> backends, busy |-> {b \in BackendIds : ~OpAt(b, "none")},
     fit |-> Fitting(Request[r])]

Collect(r) ==
    /\ At(r, "collect")
    /\ cands' = [cands EXCEPT ![r] = Candidates(r)]
    /\ seen' = [seen EXCEPT ![r] = Sighting(r)]
    /\ IF Candidates(r) # {} THEN Goto(r, "decide") /\ UNCHANGED reply
       ELSE Answer(r, IF HasHead(r) THEN Ok(<<pinned[r]>>) ELSE Err("unavailable"))
    /\ UNCHANGED <<storeVars, cfg, history, cursor, pinned, ranked, edits>>

\* Score, rank, and note the dispatch of a head that affinity did not give.
\* A failed strategy falls back to the history, if degraded; otherwise its
\* error is the answer, even to a request that has an affinity head.
Slots(r) == cfg.limit - (IF HasHead(r) THEN 1 ELSE 0)

Decide(r) ==
    LET q      == Request[r]
        fails  == Fails(q, cands[r], cfg)
        scores == IF fails THEN Degradation(q, cands[r])
                  ELSE Evaluate(q, cands[r], cfg, cursor)
    IN  /\ At(r, "decide")
        /\ cursor' = IF PrimaryOf(cfg) = "round_robin" THEN cursor + 1 ELSE cursor
        /\ \/ /\ fails /\ ~DegradationAvailable
              /\ Answer(r, Err("routing_failed"))
              /\ UNCHANGED <<history, ranked>>
           \/ /\ ~fails \/ DegradationAvailable
              /\ \E s \in Rankings(scores, Slots(r), cfg.greedy) :
                    /\ ranked' = [ranked EXCEPT ![r] = s]
                    /\ IF HasHead(r) THEN UNCHANGED history
                       ELSE RecordDispatch(q.hashes, s[1])
              /\ Goto(r, "remember")
              /\ UNCHANGED reply
        /\ seen' = [seen EXCEPT ![r].fit = @ \cap Fitting(q)]
        /\ UNCHANGED <<storeVars, cfg, pinned, cands, edits>>

\* After the overlap query the head becomes the session's affinity; the list
\* is the head, then the ranking.
Remember(r) ==
    LET q    == Request[r]
        list == (IF HasHead(r) THEN <<pinned[r]>> ELSE <<>>) \o ranked[r]
    IN  /\ At(r, "remember")
        /\ IF HasHead(r) \/ q.session = "" THEN UNCHANGED sessions
           ELSE SessionSet(q.session, list[1], LocalOverlap(q.hashes, list[1]))
        /\ Answer(r, Ok(list))
        /\ UNCHANGED <<backends, models, byRegion, byDomain, load, latency, held, clock,
                       ops, cfg, history, cursor, pinned, cands, ranked, seen, edits>>

-----------------------------------------------------------------------------
(* What else happens to the store.                                           *)

Call(b) ==
    \/ \E list \in ModelLists[b] : RegisterBackend(b, list)
    \/ UnregisterBackend(b)

Report(b) ==
    \/ \E m \in MetricsValues, ts \in {0, clock} : LoadUpdate(b, m, ts)
    \/ \E r \in Regions, rtt \in RttValues : TopoUpdateLatency(SelfRegion, r, rtt)
    \/ \E s \in Sessions : SessionBroadcast(s, b)
    \/ \E hs \in HeldValues : KvEvent(b, hs)

StoreChange ==
    /\ \/ /\ edits.calls < MaxCalls
          /\ \E b \in Moving : Call(b)
          /\ edits' = [edits EXCEPT !.calls = @ + 1]
       \/ /\ edits.reports < MaxReports
          /\ \E b \in Moving : Report(b)
          /\ edits' = [edits EXCEPT !.reports = @ + 1]
       \/ clock < MaxClock /\ Tick(TickSecs) /\ UNCHANGED edits
       \/ SessionEvict /\ UNCHANGED edits
    /\ UNCHANGED <<cfg, engineVars>>

StoreStep ==
    /\ \E b \in BackendIds : RegistrationStep(b)
    /\ UNCHANGED <<cfg, engineVars, edits>>

RouteStep(r) ==
    Lookup(r) \/ Pin(r) \/ Collect(r) \/ Decide(r) \/ Remember(r)

EngineInit ==
    /\ cfg \in Configs /\ history = <<>> /\ cursor = 0
    /\ edits = [calls |-> 0, reports |-> 0]
    /\ pc = [r \in Requests |-> "start"]
    /\ pinned = [r \in Requests |-> None]
    /\ cands = [r \in Requests |-> {}]
    /\ ranked = [r \in Requests |-> <<>>]
    /\ reply = [r \in Requests |-> NoReply]
    /\ seen = [r \in Requests |-> [up |-> {}, busy |-> {}, fit |-> {}]]

Next == StoreChange \/ StoreStep \/ \E r \in Requests : RouteStep(r)

Spec == StoreInit /\ EngineInit /\ [][Next]_vars

-----------------------------------------------------------------------------
RoutingTypeOK ==
    /\ StoreTypeOK /\ cfg \in Configs
    /\ edits \in [calls : 0..MaxCalls, reports : 0..MaxReports]
    /\ pc \in [Requests -> {"start", "pin", "collect", "decide", "remember",
                            "done"}]
    /\ pinned \in [Requests -> BackendIds \cup {None}]
    /\ cands \in [Requests -> SUBSET BackendIds]
    /\ ranked \in [Requests -> Seq(BackendIds)]
    /\ Cardinality(DOMAIN history) =< MaxHistory
    /\ \A p \in DOMAIN history : history[p].backend \in BackendIds

\* An answer that is a list names no backend twice and at most `limit` of
\* them, starts with the affinity backend where there was one, goes on with
\* backends that were registered (or just being unregistered) when the
\* candidates were collected, and is empty only if nothing was asked for
\* (engine.rs route_candidates, relied on by the forwarding loop).
RankingContract ==
    \A r \in Requests : At(r, "done") /\ reply[r].ok =>
        LET list == reply[r].list
        IN  /\ Len(list) =< cfg.limit
            /\ list = <<>> <=> cfg.limit = 0
            /\ \A i, j \in DOMAIN list : i # j => list[i] # list[j]
            /\ HasHead(r) => list[1] = pinned[r]
            /\ \A i \in DOMAIN list : list[i] = pinned[r] \/ list[i] \in seen[r].up \cup seen[r].busy

\* A request gets an error only if no backend could be found for it: none that
\* offers what it asks for, both when the candidates were collected and when
\* they were scored, but the session's own.  "Unavailable" says that no backend
\* was registered at all, "routing failed" that there were candidates and the
\* strategy, the hybrid, turned all of them down (engine.rs route_candidates,
\* its error returns; hybrid.rs evaluate, its only Err).
ErrorsAreExplained ==
    \A r \in Requests : At(r, "done") /\ ~reply[r].ok =>
        /\ \/ reply[r].error = "unavailable" /\ seen[r].up = {} /\ ~HasHead(r)
           \/ reply[r].error = "routing_failed" /\ cands[r] # {} /\ PrimaryOf(cfg) = "hybrid"
        /\ seen[r].fit \subseteq {pinned[r]}

\* "If the request carries a `session_id`, first look up the affinity record;
\* on a hit the affinity backend becomes the head of the returned list"
\* (engine.rs:171-172).  It does not: the strategy's error, when it turns down
\* all the other backends, is returned although there is a head that serves
\* the request (engine.rs:275, 286 and 297).
HeadAnswers ==
    \A r \in Requests :
        At(r, "done") /\ HasHead(r) /\ pinned[r] \in seen[r].fit => reply[r].ok
=============================================================================
