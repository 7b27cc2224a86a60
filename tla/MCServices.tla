----------------------------- MODULE MCServices -----------------------------
(* The components that share no state with the request pipeline, side by     *)
(* side: each behaviour is one of one component, chosen at the start, while  *)
(* the others rest in an initial state.                                      *)
(*   index      two backends and one local lane of four one-slot buckets;    *)
(*   consumer   one cross-Region lane and a query;                           *)
(*   producer   all event sequences over four hashes in such a lane: h1 and  *)
(*              h2 share fingerprint and buckets, h4 has those buckets and   *)
(*              another fingerprint, and h3 shares only the primary bucket   *)
(*              of h1, so that insertions use the alternate bucket, evict    *)
(*              along a chain, and fail;                                     *)
(*   tenants    a Premium tenant with limits and one without;                *)
(*   locks      two clients taking a lock of the local store, or of Redis;   *)
(*   entries    the same clients reading and writing entries (entries and    *)
(*              locks do not depend on each other);                          *)
(*   weights    two routers computing adaptive weights;                      *)
(*   sync       two instances in two Regions, and one that is not a member;  *)
(*   connectors one connector of each kind, and one replaced by another,     *)
(*              forwarding a request once every backend listed its models (a *)
(*              call leaves nothing behind for the next);                    *)
(*   metrics    the same connectors after any discovery, collecting metrics  *)
(*              (forwarding and metrics do not depend on each other).        *)
EXTENDS LocalIndex, CkfProducer, TenantScheduler, SharedState, AdaptiveWeights, MetaSync,
        CkfConsumer, MCConnectors

CONSTANTS b1, b2, h1, h2, h3, h4, f1, f2, f3, q1, q2, q3, c1, c2, r1, r2

VARIABLE scenario

MCHash(f, i) == [fp |-> f, bucket |-> i]

MCProbe ==
    [h \in {h1, h2, h3, h4} |->
        CASE h = h1 -> MCHash(f1, 0)
          [] h = h2 -> MCHash(f1, 1)
          [] h = h3 -> MCHash(f2, 0)
          [] h = h4 -> MCHash(f3, 0)]

MCDelta == [f \in {f1, f2, f3} |-> CASE f = f1 -> 1 [] f = f2 -> 2 [] f = f3 -> 1]

\* i xor d on two-bit indices.
MCXor(i, d) ==
    (((i % 2) + (d % 2)) % 2) + 2 * (((i \div 2) + (d \div 2)) % 2)

MCAlt == [i \in 0 .. 3 |-> [f \in {f1, f2, f3} |-> MCXor(i, MCDelta[f])]]

MCChains == { <<h2, h1>> }
MCRemovals == { <<h1>>, <<h1, h1>> }

\* What a producer published that stored h1 and h2, or h1 and h4.
MCImages == { Put(Put(EmptyLane, 0, f1), 1, f1), Put(Put(EmptyLane, 0, f1), 1, f3) }
MCQueries == { <<h1, h2>>, <<h4>> }

MCTenantTiers ==
    [t \in {"gold", "free"} |->
        IF t = "gold" THEN [priority |-> "Premium", rate |-> 3, concurrent |-> 1, reserved |-> 30]
                      ELSE NoEntry]
MCDefaults == [rate |-> NoLimit, concurrent |-> NoLimit]

MCBase == [kv |-> 12, load |-> 4, topology |-> 2, cost |-> 0]
MCLoadViews == { ("b1" :> 8 @@ "b2" :> 0), ("b1" :> 5) }

MCHomeOf == [n \in {"n1", "n2"} |-> IF n = "n1" THEN "near" ELSE "far"]
MCPeers == [n \in {"n1", "n2"} |-> {"n1", "n2"}]
MCServerRegion == [s \in {"s1", "s2"} |-> IF s = "s1" THEN "near" ELSE "far"]
MCAnnouncements ==
    { [region |-> "near", servers |-> {"s1", "s2"}], [region |-> "near", servers |-> {"s2"}] }

Symmetric == Permutations({b1, b2})

-----------------------------------------------------------------------------

MCServicesInit ==
    /\ scenario \in {"index", "consumer", "producer", "tenants", "locks", "entries", "weights",
                    "sync", "connectors", "metrics"}
    /\ IndexInit /\ PInit /\ ConsumerInit /\ MetaInit /\ ConnectorInit
    /\ TenantInit /\ (scenario # "tenants" => enabled)
    /\ SharedInit /\ (scenario \notin {"locks", "entries"} => kind = "local")
    /\ AdaptiveInit /\ (scenario # "weights" => DOMAIN loads = {"b1"})

MCServicesNext ==
    \/ /\ scenario = "index" /\ IndexNext
       /\ UNCHANGED <<scenario, producerVars, tenantVars, sharedVars,
                      adaptiveVars, metaVars, connectorVars, consumerVars>>
    \/ /\ scenario = "producer" /\ PNext
       /\ UNCHANGED <<scenario, indexVars, tenantVars, sharedVars,
                      adaptiveVars, metaVars, connectorVars, consumerVars>>
    \/ /\ scenario = "tenants" /\ TenantNext
       /\ UNCHANGED <<scenario, indexVars, producerVars, sharedVars,
                      adaptiveVars, metaVars, connectorVars, consumerVars>>
    \/ /\ scenario \in {"locks", "entries"} /\ SharedNext
       /\ scenario = "locks" => entries' = entries
       /\ scenario = "entries" => \A c \in Clients : client'[c].pc # "lock"
       /\ UNCHANGED <<scenario, indexVars, producerVars, tenantVars,
                      adaptiveVars, metaVars, connectorVars, consumerVars>>
    \/ /\ scenario = "weights" /\ AdaptiveNext
       /\ UNCHANGED <<scenario, indexVars, producerVars, tenantVars,
                      sharedVars, metaVars, connectorVars, consumerVars>>
    \/ /\ scenario = "sync" /\ MetaNext
       /\ UNCHANGED <<scenario, indexVars, producerVars, tenantVars,
                      sharedVars, adaptiveVars, connectorVars, consumerVars>>
    \/ /\ scenario = "connectors" /\ call.pc # "over" /\ ConnectorNext
       /\ sample' = sample
       /\ catalog' = catalog \/ \E c \in toDiscover : Discover(c, "models")
       /\ UNCHANGED <<scenario, indexVars, producerVars, tenantVars,
                      sharedVars, adaptiveVars, metaVars, consumerVars>>
    \/ /\ scenario = "metrics" /\ ConnectorNext
       /\ call' = call
       /\ UNCHANGED <<scenario, indexVars, producerVars, tenantVars,
                      sharedVars, adaptiveVars, metaVars, consumerVars>>
    \/ /\ scenario = "consumer" /\ ConsumerNext
       /\ UNCHANGED <<scenario, indexVars, producerVars, tenantVars,
                      sharedVars, adaptiveVars, metaVars, connectorVars>>

MCServicesSpec ==
    MCServicesInit
    /\ [][MCServicesNext]_<<scenario, indexVars, producerVars, tenantVars, sharedVars, adaptiveVars,
                            metaVars, connectorVars, consumerVars>>
=============================================================================
