--------------------------- MODULE AdaptiveWeights ---------------------------
(* The adaptive weight controller (routing/adaptive.rs).  The forwarding     *)
(* loop feeds outcome and KV-hit averages; effective_weights recomputes the  *)
(* weights when the interval is over, without holding a lock between its     *)
(* clock check and the publication, so callers may compute at once and       *)
(* publish in any order.  Fractions are integers out of Scale, and averages  *)
(* are rounded to that grid.  A set of weights is kept as the shares the     *)
(* normalisation starts from and the set it clamped to the floor: a share    *)
(* not clamped keeps its proportion to the others exactly.                   *)
EXTENDS Integers, FiniteSets, FiniteSetsExt

CONSTANTS
    Workers,        \* the backends
    Routers,        \* concurrent callers of effective_weights
    Scale,          \* units of 1.0
    Base,           \* dimension -> base weight
    MinWeight, WeightUnit,  \* min_weight is MinWeight / WeightUnit
    MaxAdjustment,  \* max_adjustment, in units
    AlphaDiv,       \* ema_alpha is 1 / AlphaDiv
    Overlaps,       \* kv_overlap / prompt_blocks of served requests, in units
    LoadViews,      \* worker -> active requests, for the workers with metrics
    Interval,       \* adjust_interval_secs
    MaxAge          \* bound on the clock

Dims == {"kv", "load", "topology", "cost"}

ASSUME AdaptiveAssumption ==
    /\ Scale \in Nat \ {0} /\ Base \in [Dims -> Nat]
    /\ MinWeight \in Nat /\ WeightUnit \in Nat \ {0} /\ WeightUnit % 4 = 0
    /\ MaxAdjustment \in Nat /\ AlphaDiv \in Nat \ {0}
    /\ Overlaps \subseteq Nat /\ Interval \in Nat /\ MaxAge \in Nat
    /\ \A view \in LoadViews : IsFiniteSet(DOMAIN view) /\ view \in [DOMAIN view -> Nat]

VARIABLES
    outcomes,   \* worker -> EMA of its success rate, for workers with samples
    kvHit,      \* EMA of the KV hit ratio, or NoSample
    loads,      \* the load snapshots of the metadata store
    weights,    \* current: [share, clamped]
    lastAdjust,
    router,     \* router -> [pc, new]: effective_weights under way
    age         \* seconds since the start

adaptiveVars == <<outcomes, kvHit, loads, weights, lastAdjust, router, age>>

NoSample == -1
BaseWeights == [share |-> Base, clamped |-> {}, adjusted |-> FALSE]

AdaptiveInit ==
    /\ outcomes = <<>> /\ kvHit = NoSample /\ loads \in LoadViews
    /\ weights = BaseWeights /\ lastAdjust = 0 /\ age = 0
    /\ router = [r \in Routers |-> [pc |-> "idle", new |-> BaseWeights]]

-----------------------------------------------------------------------------
(* Signals.                                                                  *)

\* ema(): the first sample is adopted, later ones are blended in.
Ema(prev, value) == prev + (value - prev) \div AlphaDiv

\* record_success() and record_failure(); the latency average is only shown.
RecordOutcome(b, value) ==
    /\ outcomes' = [w \in DOMAIN outcomes \cup {b} |->
                        IF w # b THEN outcomes[w]
                        ELSE IF b \in DOMAIN outcomes THEN Ema(outcomes[b], value) ELSE value]
    /\ UNCHANGED <<kvHit, loads, weights, lastAdjust, router, age>>

\* record_kv_overlap(): the ratio is clamped to one; a request without prompt
\* blocks records nothing.
RecordOverlap(ratio) ==
    /\ LET r == Min({ratio, Scale})
       IN  kvHit' = IF kvHit = NoSample THEN r ELSE Ema(kvHit, r)
    /\ UNCHANGED <<outcomes, loads, weights, lastAdjust, router, age>>

LoadsChange ==
    /\ loads' \in LoadViews
    /\ UNCHANGED <<outcomes, kvHit, weights, lastAdjust, router, age>>

-----------------------------------------------------------------------------
(* compute().                                                                *)

Clamp(x) == Max({0, Min({x, Scale})})

FailurePressure == IF outcomes = <<>> THEN 0
                   ELSE Clamp(Scale - Min({outcomes[b] : b \in DOMAIN outcomes}))

KvBoost == IF kvHit = NoSample THEN 0 ELSE Clamp(2 * kvHit - Scale)

SumOf(f, S) == MapThenSumSet(LAMBDA x : f[x], S)

\* load_spread(): standard deviation over mean, whose square is
\* n * (sum of squares) / (square of the sum) - 1; at most Scale matters.
LoadSpread ==
    LET sum == SumOf(loads, DOMAIN loads)
        sq  == Cardinality(DOMAIN loads)
                   * SumOf([b \in DOMAIN loads |-> loads[b] * loads[b]], DOMAIN loads)
    IN  IF Cardinality(DOMAIN loads) < 2 \/ sum = 0 THEN 0
        ELSE Max({ s \in 0 .. Scale : s * s * sum * sum <= Scale * Scale * (sq - sum * sum) })

Boosted(base, boost) == base * (Scale * Scale + boost * MaxAdjustment)

Shares ==
    [ kv       |-> Boosted(Base["kv"], KvBoost),
      load     |-> Boosted(Base["load"], Max({FailurePressure, LoadSpread})),
      topology |-> Boosted(Base["topology"], 0),
      cost     |-> Boosted(Base["cost"], 0) ]

Floor == Min({MinWeight, WeightUnit \div 4})

\* The dimensions one pass of normalize_with_floor leaves at the floor, when
\* those of `clamped` are there already: the others share out the budget.
Pass(share, clamped) ==
    LET rest   == SumOf(share, Dims \ clamped)
        budget == WeightUnit - Cardinality(clamped) * Floor
    IN  clamped \cup { d \in Dims \ clamped :
            IF rest > 0 THEN share[d] * budget < Floor * rest
                        ELSE budget < Floor * Cardinality(Dims \ clamped) }

\* Mutant: the budget is shared out once.
NormalizeOnce(share) == Pass(share, {})

\* normalize_with_floor(): passes until none clamps; each of the passes before
\* the last clamps a dimension.
NormalizeWithFloor(share) ==
    LET after[n \in 0 .. Cardinality(Dims)] == IF n = 0 THEN {} ELSE Pass(share, after[n - 1])
    IN  after[Cardinality(Dims)]

Compute ==
    IF SumOf(Shares, Dims) = 0 THEN BaseWeights
    ELSE [share |-> Shares, clamped |-> NormalizeWithFloor(Shares), adjusted |-> TRUE]

-----------------------------------------------------------------------------
(* effective_weights().                                                      *)

\* The interval is not over: the caller gets the current weights.  Over: it
\* computes new ones from the signals as they are, holding no lock.
Recompute(r) ==
    /\ router[r].pc = "idle" /\ age - lastAdjust >= Interval
    /\ router' = [router EXCEPT ![r] = [pc |-> "publish", new |-> Compute]]
    /\ UNCHANGED <<outcomes, kvHit, loads, weights, lastAdjust, age>>

Publish(r) ==
    /\ router[r].pc = "publish"
    /\ weights' = router[r].new
    /\ lastAdjust' = age
    /\ router' = [router EXCEPT ![r] = [pc |-> "idle", new |-> BaseWeights]]
    /\ UNCHANGED <<outcomes, kvHit, loads, age>>

Ages ==
    /\ age < MaxAge
    /\ age' = age + 1
    /\ UNCHANGED <<outcomes, kvHit, loads, weights, lastAdjust, router>>

AdaptiveNext ==
    \/ \E b \in Workers : RecordOutcome(b, Scale) \/ RecordOutcome(b, 0)
    \/ \E ratio \in Overlaps : RecordOverlap(ratio)
    \/ LoadsChange
    \/ \E r \in Routers : Recompute(r) \/ Publish(r)
    \/ Ages

AdaptiveSpec == AdaptiveInit /\ [][AdaptiveNext]_adaptiveVars

-----------------------------------------------------------------------------

\* The value of dimension d, as a fraction of WeightUnit * (sum of the others' shares).
Numerator(w, d) ==
    LET rest == SumOf(w.share, Dims \ w.clamped)
    IN  IF d \in w.clamped THEN Floor * rest
        ELSE w.share[d] * (WeightUnit - Cardinality(w.clamped) * Floor)

\* Whatever the signals, and whichever of several callers published last, the
\* weights in effect sum to one, none is below the floor, and no boost lets one
\* dimension outgrow another by more than max_adjustment beyond the base ratio,
\* clamping apart (adaptive.rs: "all bounded by AdaptiveConfig::max_adjustment").
WeightsAreBounded ==
    weights.adjusted =>
        LET rest == SumOf(weights.share, Dims \ weights.clamped) IN
        /\ rest > 0
        /\ SumOf([d \in Dims |-> Numerator(weights, d)], Dims) = WeightUnit * rest
        /\ \A d \in Dims : Numerator(weights, d) >= Floor * rest
        /\ \A d, e \in Dims \ weights.clamped :
               Scale * Numerator(weights, d) * Base[e]
                   <= (Scale + MaxAdjustment) * Numerator(weights, e) * Base[d]

=============================================================================
