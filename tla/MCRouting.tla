----------------------------- MODULE MCRouting -----------------------------
(* Two requests of one session, and one backend of each kind: an exact model *)
(* match, an architecture match and one in another Region.                   *)
EXTENDS Routing

MCBackendIds == 1..3
MCRegionOf == [b \in 1..3 |-> IF b = 3 THEN "far" ELSE "near"]
MCDomainOf == [b \in 1..3 |-> IF b = 1 THEN "d1" ELSE "d2"]

Inst(name, arch, ctx, tools) == [name |-> name, arch |-> arch, ctx |-> ctx, tools |-> tools]
MCModelLists ==
    [b \in 1..3 |->
        CASE b = 1 -> {<<Inst("m", "a", 8, TRUE)>>, <<Inst("m", "a", 2, TRUE)>>}
          [] b = 2 -> {<<Inst("n", "a", 8, FALSE), Inst("m", "a", 2, TRUE)>>}
          [] b = 3 -> {<<Inst("o", "m", 8, TRUE)>>}]

Metrics(pressure, decode, used) ==
    [pressure |-> pressure, decode |-> decode, kvUsed |-> used, kvTotal |-> 10,
     gpuUsed |-> 0, gpuTotal |-> 0, ts |-> 0]
MCMetricsValues == {Metrics(0, 4, 6)}

MCRequest ==
    [r \in {"r1", "r2"} |->
        [session |-> "s", model |-> IF r = "r1" THEN "m" ELSE "",
         tokens |-> IF r = "r1" THEN 4 ELSE 0, hashes |-> IF r = "r1" THEN <<"h1">> ELSE <<"h1", "h2">>,
         blockSize |-> 2, out |-> 3, tools |-> r = "r1"]]

Config(strategy, greedy, limit, plugins, weight) ==
    [strategy |-> strategy, greedy |-> greedy, limit |-> limit,
     cost |-> "cost" \in plugins, capacity |-> "capacity" \in plugins,
     tier |-> IF "fallback" \in plugins THEN "fallback" ELSE IF "tier" \in plugins THEN "pick" ELSE "off",
     weights |-> [s \in {"kv", "load", "topology"} \cup Plugins |->
                    IF s = "tier" THEN 2 ELSE weight],
     prefillScale |-> 1, credit |-> 0, outputScale |-> 1, excludeUnknown |-> TRUE,
     promptThreshold |-> 3, outThreshold |-> 8]

MCConfigs ==
    {Config("hybrid", TRUE, 2, Plugins, 3), Config("hybrid", FALSE, 2, {}, 0),
     Config("round_robin", TRUE, 2, {}, 1), Config("kv", TRUE, 1, {}, 1),
     Config("model", TRUE, 2, {}, 1), Config("load", TRUE, 2, {}, 1),
     Config("topology", TRUE, 3, {}, 1), Config("hybrid", TRUE, 2, {"fallback"}, 1),
     Config("hybrid", TRUE, 0, {}, 1)}

MCPrices == [x \in {"m", "n"} |-> [in |-> 1, out |-> IF x = "m" THEN 2 ELSE 3]]
MCTiers == [x \in {"m", "o"} |-> IF x = "m" THEN "small" ELSE "large"]
MCRemoteHeld == [r \in {"near", "far"} |-> IF r = "far" THEN {"h1"} ELSE {}]
MCCustom == << [name |-> "m", spec |-> StandardSpec(2, 2, 2, "fp32", 0)],
               [name |-> "m", spec |-> StandardSpec(1, 1, 2, "fp16", 4)] >>
MCBuiltin == << [pattern |-> "n-long", spec |-> StandardSpec(2, 2, 2, "fp32", 0)],
                [pattern |-> "n", spec |-> MlaSpec(2, 2, 1, "fp8")],
                [pattern |-> "m", spec |-> StandardSpec(2, 2, 2, "fp32", 0)] >>
MCContains == {<<"n", "n">>, <<"m", "m">>}

\* Startup has discovered the backends, one after the other, two have reported
\* metrics and the session has been routed before; with the hybrid strategy
\* also nothing of this, or the backends only.  Two connectors have reported
\* backend 1.
Ids(up, pred(_)) ==
    (IF 1 \in up /\ pred(1) THEN <<1>> ELSE <<>>) \o SetToSortSeq({b \in up : pred(b)}, <)
MCInit ==
    /\ EngineInit
    /\ backends \in {{}, 1..3}
    /\ models = [b \in backends |-> CHOOSE l \in ModelLists[b] : l[1].ctx = 8]
    /\ byRegion = [r \in Regions |-> Ids(backends, LAMBDA b : RegionOf[b] = r)]
    /\ byDomain = [d \in Domains |-> Ids(backends, LAMBDA b : DomainOf[b] = d)]
    /\ load \in {<<>>, [b \in backends \ {3} |-> Metrics(b, 0, 2)]}
    /\ sessions \in {<<>>} \cup
          {[s \in {"s"} |-> [backend |-> b, used |-> 0, overlap |-> 0]] :
              b \in IF "cost" \in PluginsOf(cfg) THEN {1, 3} ELSE {1}}
    /\ latency = <<>> /\ clock = 0
    /\ load = <<>> <=> sessions = <<>>
    /\ ~cfg.greedy \/ PrimaryOf(cfg) # "hybrid" \/ cfg.limit = 0 => load # <<>>
    /\ held = [b \in BackendIds |-> IF b = 1 THEN {"h1"} ELSE {}]
    /\ ops = [b \in BackendIds |-> Idle]

MCSpec == MCInit /\ [][Next]_vars
=============================================================================
