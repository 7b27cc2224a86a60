----------------------------- MODULE Strategies -----------------------------
(* The routing strategies (crate routing): pure functions of the request,    *)
(* the candidates and the metadata store.  An evaluation is a function from  *)
(* backends to [score, cost].  Scores and weights of the code are floats;    *)
(* here One is 1.0 and quotients are rounded down, so scores closer than     *)
(* 1/One tie.  f64::MAX is a number larger than every cost, FMax, and        *)
(* f64::INFINITY is Inf: the code treats the two differently.                *)
EXTENDS MetadataStore, KvEstimate

CONSTANTS
    Prices,         \* model -> [in, out] price per token, the [cost] table
    Tiers,          \* model -> "small" or "large", the [model_tier] table
    RemoteHeld      \* region -> hashes the cross-Region filter answers for

One == 2520
FMax == 100000
StaleLoadSecs == 10     \* STALE_LOAD_THRESHOLD_SECS of hybrid.rs
AllStaleSecs == 30      \* LOAD_STALE_THRESHOLD_SECS of degradation.rs
ConfidentEntries == 10  \* MIN_CONFIDENT_HISTORY_ENTRIES

Scored(score, cost) == [score |-> score, cost |-> cost]
Reciprocal(cost) == One \div (1 + cost)
Excluded == Scored(0, FMax)         \* excluded with f64::MAX
Impossible == Scored(0, Inf)        \* excluded with f64::INFINITY
Neutral == Scored(One, 0)

-----------------------------------------------------------------------------
(* What build_routing_engine() makes of a configuration.                     *)

\* The plugins attached to the ensemble: the tier strategy only with the pick
\* policy.
PluginsOf(cfg) ==
    {p \in {"cost", "tier", "capacity"} :
        CASE p = "cost"     -> cfg.cost
          [] p = "tier"     -> cfg.tier = "pick"
          [] p = "capacity" -> cfg.capacity}

\* The strategy that scores: the fallback policy replaces the configured one.
PrimaryOf(cfg) == IF cfg.tier = "fallback" THEN "tier_fallback" ELSE cfg.strategy

-----------------------------------------------------------------------------
(* The four built-in strategies.                                             *)

\* kv_aware: blocks still to prefill plus blocks being decoded.
Overlap(q, b) ==
    BatchOverlap(q.hashes, b) + PrefixOverlap(q.hashes, RemoteHeld[RegionOf[b]])
DecodeBlocks(b) == IF HasMetrics(b) THEN load[b].decode ELSE 0

KvAware(q, cands, cfg) ==
    [b \in cands |->
        LET cost == cfg.prefillScale * Max({Len(q.hashes) - Overlap(q, b), 0})
                        + DecodeBlocks(b)
        IN  Scored(Reciprocal(cost) + One * cfg.credit * Overlap(q, b), cost)]

\* load_aware; `pressure` is the sum of the terms that only the metrics enter
\* (requests, queue, latency, GPU, cache usage and prefill).
OutputBlocks(q) == IF q.blockSize > 0 THEN DivCeil(q.out, q.blockSize) ELSE 0

LoadAware(q, cands) ==
    [b \in cands |->
        IF ~HasMetrics(b) THEN Excluded
        ELSE IF AvailableCapacity(load[b]) =< 0 THEN Excluded
        ELSE LET cost == load[b].pressure + load[b].decode + OutputBlocks(q)
             IN  Scored(Reciprocal(cost), cost)]

\* topology_aware: an unknown path costs f64::INFINITY.
TopologyAware(cands) ==
    [b \in cands |->
        LET rtt == Rtt(SelfRegion, RegionOf[b])
        IN  IF rtt = Inf THEN Impossible
            ELSE Scored((100 * One) \div (100 + rtt), rtt)]

\* model_aware: a hard filter.  The context length and the tool support may
\* be those of two different instances of the model.
ServesByName(inst, name) == inst.name = name    \* mutant: no architecture
Serves(inst, name) == MatchScore(inst, name) > 0
PassesCtx(q, b) ==
    \E i \in DOMAIN Instances(b) : /\ Serves(Instances(b)[i], q.model)
                                   /\ q.tokens = 0 \/ Instances(b)[i].ctx >= q.tokens
PassesTool(q, b) ==
    \E i \in DOMAIN Instances(b) : /\ Serves(Instances(b)[i], q.model)
                                   /\ q.tools => Instances(b)[i].tools

ModelAware(q, cands) ==
    [b \in cands |->
        LET match == ModelMatchScore(b, q.model)
        IN  IF match > 0 /\ PassesCtx(q, b) /\ PassesTool(q, b)
            THEN Scored((10 * One) \div (20 - match), 10 - match)
            ELSE Excluded]

\* round_robin: the ranks of the sorted candidates, rotated to the cursor.
RoundRobin(cands, cursor) ==
    LET n     == Cardinality(cands)
        rank  == [b \in cands |-> Cardinality({c \in cands : c < b})]
        start == cursor % n
    IN  [b \in cands |->
            LET score == n - ((rank[b] - start) % n) IN Scored(score, -score)]

-----------------------------------------------------------------------------
(* The plugins.                                                              *)

PromptTokens(q) ==
    CASE q.tokens > 0                           -> q.tokens
      [] Len(q.hashes) > 0 /\ q.blockSize > 0   -> Len(q.hashes) * q.blockSize
      [] OTHER                                  -> 0

\* resolve_served_model: the model asked for, else the backend's first one.
Serving(b) == Instances(b) # <<>>
ServedModel(q, b) ==
    IF \E i \in DOMAIN Instances(b) : Instances(b)[i].name = q.model
    THEN q.model ELSE Instances(b)[1].name

\* cost_aware: what the request would cost, unknown prices by the policy.
ProjectedCost(model, inTokens, outTokens) ==
    inTokens * Prices[model].in + outTokens * Prices[model].out

CostAware(q, cands, cfg) ==
    [b \in cands |->
        IF Serving(b) /\ ServedModel(q, b) \in DOMAIN Prices
        THEN LET cost == ProjectedCost(ServedModel(q, b), PromptTokens(q),
                                       q.out * cfg.outputScale)
             IN  Scored(Reciprocal(cost), cost)
        ELSE IF cfg.excludeUnknown THEN Impossible ELSE Neutral]

\* model_tier: the tier of the requested model where the backend serves it
\* and it has one, else that of the first served model that has one.
TierOf(q, b) ==
    LET names  == [i \in DOMAIN Instances(b) |-> Instances(b)[i].name]
        tiered == {i \in DOMAIN names : names[i] \in DOMAIN Tiers}
    IN  CASE q.model \in Range(names) /\ q.model \in DOMAIN Tiers -> Tiers[q.model]
          [] tiered # {}                          -> Tiers[names[Min(tiered)]]
          [] OTHER                                -> "unknown"

IsComplex(q, cfg) ==
    \/ PromptTokens(q) > cfg.promptThreshold
    \/ q.out > cfg.outThreshold
    \/ q.tools

\* The two policies, in halves: Pick compares with the wanted tier, Fallback
\* ranks small before unknown before large.
TierPick(q, cands, cfg) ==
    LET desired == IF IsComplex(q, cfg) THEN "large" ELSE "small"
        cost(t) == CASE t = desired -> 0 [] t = "unknown" -> 1 [] OTHER -> 2
    IN  [b \in cands |-> Scored(2 - cost(TierOf(q, b)), cost(TierOf(q, b)))]

TierFallback(q, cands) ==
    LET score(t) == CASE t = "small" -> 2 [] t = "unknown" -> 1 [] t = "large" -> 0
    IN  [b \in cands |-> Scored(score(TierOf(q, b)), -score(TierOf(q, b)))]

\* kv_capacity: the share of the headroom the request would take, in units
\* of 1/One; a backend that cannot hold it is excluded.
KvCapacity(q, cands, cfg) ==
    [b \in cands |->
        IF ~Serving(b) THEN Neutral
        ELSE IF ~Estimable(ServedModel(q, b))
             THEN IF cfg.excludeUnknown THEN Impossible ELSE Neutral
        ELSE IF ~HasMetrics(b) THEN Neutral
        ELSE LET est == EstimateKv(SpecFor(ServedModel(q, b)), PromptTokens(q), q.out,
                                   q.blockSize)
             IN  IF ~HasCapacitySignal(est, load[b], q.blockSize) THEN Neutral
                 ELSE IF ~Admits(est, load[b], q.blockSize) THEN Impossible
                 ELSE LET cost == (One * est.bytes) \div FreeBytes(est, load[b], q.blockSize)
                      IN  Scored((One * One) \div (One + cost), cost)]

Plugins == {"cost", "tier", "capacity"}
PluginAvailable(p) == p = "tier" => DOMAIN Tiers # {}

EvaluatePlugin(p, q, cands, cfg) ==
    CASE p = "cost"     -> CostAware(q, cands, cfg)
      [] p = "tier"     -> TierPick(q, cands, cfg)
      [] p = "capacity" -> KvCapacity(q, cands, cfg)

-----------------------------------------------------------------------------
(* The ensemble.                                                             *)

\* normalize_costs: the cheapest gets One, the dearest 0, f64::INFINITY 0.
\* f64::MAX is finite to the code, so it does stretch the span.
NormalizeCosts(f) ==
    LET finite == {f[b].cost : b \in {x \in DOMAIN f : f[x].cost # Inf}}
        lo     == Min(finite)
        span   == Max(finite) - lo
    IN  [b \in DOMAIN f |->
            IF f[b].cost = Inf THEN 0
            ELSE IF span = 0 THEN One
            ELSE One - (One * (f[b].cost - lo)) \div span]

\* The weights of a call, in tenths: a stale candidate discounts the load,
\* and with nothing left the three built-in ones share equally.
Weights(cands, cfg) ==
    LET stale == \E b \in cands : OlderThan(b, StaleLoadSecs)
        raw   == [s \in {"kv", "load", "topology"} \cup Plugins |->
                    CASE s = "load" -> cfg.weights["load"] * (IF stale THEN 3 ELSE 10)
                      [] s \in Plugins ->
                            IF s \in PluginsOf(cfg) /\ PluginAvailable(s)
                            THEN cfg.weights[s] * 10 ELSE 0
                      [] OTHER -> cfg.weights[s] * 10]
    IN  IF \E s \in DOMAIN raw : raw[s] > 0 THEN raw
        ELSE [s \in DOMAIN raw |-> IF s \in Plugins THEN 0 ELSE 1]

\* hybrid: filter by model, then the weighted sum of the normalised costs of
\* what has a weight.  The common divisor does not change the order.
Filtered(q, cands) == {b \in cands : ModelAware(q, cands)[b].score > 0}

Hybrid(q, cands, cfg) ==
    LET kept == Filtered(q, cands)
        w    == Weights(kept, cfg)
        norm == [s \in {x \in DOMAIN w : w[x] > 0} |->
                    NormalizeCosts(CASE s = "kv"       -> KvAware(q, kept, cfg)
                                     [] s = "load"     -> LoadAware(q, kept)
                                     [] s = "topology" -> TopologyAware(kept)
                                     [] OTHER -> EvaluatePlugin(s, q, kept, cfg))]
        sum(b) == MapThenSumSet(LAMBDA s : w[s] * norm[s][b], DOMAIN norm)
    IN  [b \in kept |-> Scored(sum(b), -sum(b))]

\* An Err of the strategy: only the hybrid can fail, when its filter leaves
\* nothing.
Fails(q, cands, cfg) == PrimaryOf(cfg) = "hybrid" /\ Filtered(q, cands) = {}

Evaluate(q, cands, cfg, cursor) ==
    CASE PrimaryOf(cfg) = "hybrid"        -> Hybrid(q, cands, cfg)
      [] PrimaryOf(cfg) = "round_robin"   -> RoundRobin(cands, cursor)
      [] PrimaryOf(cfg) = "kv"            -> KvAware(q, cands, cfg)
      [] PrimaryOf(cfg) = "model"         -> ModelAware(q, cands)
      [] PrimaryOf(cfg) = "load"          -> LoadAware(q, cands)
      [] PrimaryOf(cfg) = "topology"      -> TopologyAware(cands)
      [] PrimaryOf(cfg) = "tier_fallback" -> TierFallback(q, cands)
=============================================================================
