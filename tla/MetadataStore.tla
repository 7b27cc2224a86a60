--------------------------- MODULE MetadataStore ---------------------------
(* The metadata store the routing engine reads (metadata/store.rs and the    *)
(* maps behind it).  A HashMap is a partial function; a reverse index is a   *)
(* sequence, because registering twice pushes twice.  register_backend and   *)
(* unregister_backend write several maps, each under a lock of its own, so   *)
(* each of their writes is a step: `ops` holds the calls under way, at most  *)
(* one per backend, and the router may run between any two steps.            *)
EXTENDS Integers, Sequences, FiniteSets, SequencesExt

CONSTANTS
    BackendIds,     \* the ids, as naturals: their order is the ids' order
    Regions, SelfRegion,
    RegionOf, DomainOf,     \* BackendInfo.region and .indexer_domain
    ModelLists,     \* id -> the model lists a discovery may report for it
    MetricsValues,  \* reported metrics, without their timestamp
    Hashes,         \* block hashes
    HeldValues,     \* what a lane may come to answer for
    Sessions,
    SessionTtl,     \* session_affinity_ttl_secs
    RttValues       \* measured round-trip times

ASSUME StoreAssumption ==
    /\ BackendIds \subseteq Nat /\ IsFiniteSet(BackendIds)
    /\ SelfRegion \in Regions
    /\ RegionOf \in [BackendIds -> Regions]
    /\ HeldValues \subseteq SUBSET Hashes
    /\ SessionTtl \in Nat /\ RttValues \subseteq Nat

VARIABLES
    backends,   \* the registered ids
    models,     \* id -> model instances
    byRegion, byDomain,     \* region, domain -> sequence of ids
    load,       \* id -> the latest metrics, with their timestamp
    latency,    \* ordered pair of regions -> rtt
    sessions,   \* session -> affinity record
    held,       \* id -> hashes its local KV lane answers for
    clock,      \* seconds
    ops         \* id -> the registration call under way

storeVars == <<backends, models, byRegion, byDomain, load, latency, sessions,
               held, clock, ops>>

Domains == {DomainOf[b] : b \in BackendIds}
Idle == [call |-> "none", list |-> <<>>]

\* f with k mapped to v, and f without k.
Put(f, k, v) == [x \in DOMAIN f \cup {k} |-> IF x = k THEN v ELSE f[x]]
Drop(f, k) == [x \in DOMAIN f \ {k} |-> f[x]]

WithoutOne(seq, b) ==           \* mutant: a duplicate survives
    IF b \in Range(seq) THEN RemoveFirst(seq, b) ELSE seq
Without(seq, b) ==              \* Vec::retain
    LET kept[i \in 0..Len(seq)] ==
            IF i = 0 THEN <<>>
            ELSE IF seq[i] = b THEN kept[i - 1] ELSE Append(kept[i - 1], seq[i])
    IN  kept[Len(seq)]

StoreInit ==
    /\ backends = {} /\ models = <<>> /\ load = <<>> /\ latency = <<>>
    /\ sessions = <<>> /\ clock = 0
    /\ byRegion = [r \in Regions |-> <<>>]
    /\ byDomain = [d \in Domains |-> <<>>]
    /\ held = [b \in BackendIds |-> {}]
    /\ ops = [b \in BackendIds |-> Idle]

-----------------------------------------------------------------------------
(* Registration.                                                             *)

OpAt(b, call) == ops[b].call = call
MoveTo(b, call) == ops' = [ops EXCEPT ![b].call = call]

\* register_backend: the primary map, the models, the two reverse indices.
RegisterBackend(b, list) ==
    /\ OpAt(b, "none") /\ list \in ModelLists[b]
    /\ backends' = backends \cup {b}
    /\ ops' = [ops EXCEPT ![b] = [call |-> "models", list |-> list]]
    /\ UNCHANGED <<models, byRegion, byDomain, load, latency, sessions, held, clock>>

RegisterModels(b) ==
    /\ OpAt(b, "models") /\ MoveTo(b, "indices")
    /\ models' = Put(models, b, ops[b].list)
    /\ UNCHANGED <<backends, byRegion, byDomain, load, latency, sessions, held, clock>>

\* Each index has a lock of its own; nothing reads one without the other.
RegisterIndices(b) ==
    /\ OpAt(b, "indices") /\ ops' = [ops EXCEPT ![b] = Idle]
    /\ byRegion' = [byRegion EXCEPT ![RegionOf[b]] = Append(@, b)]
    /\ byDomain' = [byDomain EXCEPT ![DomainOf[b]] = Append(@, b)]
    /\ UNCHANGED <<backends, models, load, latency, sessions, held, clock>>

\* unregister_backend: an id the primary map lacks skips the reverse indices.
UnregisterBackend(b) ==
    /\ OpAt(b, "none")
    /\ backends' = backends \ {b}
    /\ MoveTo(b, IF b \in backends THEN "unindex" ELSE "unmodel")
    /\ UNCHANGED <<models, byRegion, byDomain, load, latency, sessions, held, clock>>

UnregisterIndices(b) ==
    /\ OpAt(b, "unindex") /\ MoveTo(b, "unmodel")
    /\ byRegion' = [byRegion EXCEPT ![RegionOf[b]] = Without(@, b)]
    /\ byDomain' = [byDomain EXCEPT ![DomainOf[b]] = Without(@, b)]
    /\ UNCHANGED <<backends, models, load, latency, sessions, held, clock>>

UnregisterModels(b) ==
    /\ OpAt(b, "unmodel") /\ MoveTo(b, "unload")
    /\ models' = Drop(models, b)
    /\ UNCHANGED <<backends, byRegion, byDomain, load, latency, sessions, held, clock>>

\* The sessions and the KV index keep naming the backend.
UnregisterLoad(b) ==
    /\ OpAt(b, "unload") /\ ops' = [ops EXCEPT ![b] = Idle]
    /\ load' = Drop(load, b)
    /\ UNCHANGED <<backends, models, byRegion, byDomain, latency, sessions, held, clock>>

-----------------------------------------------------------------------------
(* The other writers: metric reports, gossip, KV events, the clock.          *)

\* load_update, by the metrics poll or a peer; the timestamp is the report's.
LoadUpdate(b, m, ts) ==
    /\ ts =< clock
    /\ load' = Put(load, b, [m EXCEPT !.ts = ts])
    /\ UNCHANGED <<backends, models, byRegion, byDomain, latency, sessions, held,
                   clock, ops>>

\* topo_update_latency keeps both directions, and ignores a loop.
TopoUpdateLatency(r, s, rtt) ==
    /\ r # s
    /\ latency' = Put(Put(latency, <<r, s>>, rtt), <<s, r>>, rtt)
    /\ UNCHANGED <<backends, models, byRegion, byDomain, load, sessions, held,
                   clock, ops>>

\* session_set, as an assignment for the actions that make it.
Affinity(b, overlap) == [backend |-> b, used |-> clock, overlap |-> overlap]
SessionSet(s, b, overlap) == sessions' = Put(sessions, s, Affinity(b, overlap))

\* A peer's SessionAffinityBroadcast; the record carries no overlap.
SessionBroadcast(s, b) ==
    /\ SessionSet(s, b, 0)
    /\ UNCHANGED <<backends, models, byRegion, byDomain, load, latency, held,
                   clock, ops>>

\* session_evict_expired.
Expired(s) == sessions[s].used + SessionTtl < clock
SessionEvict ==
    /\ \E s \in DOMAIN sessions : Expired(s)
    /\ sessions' = [s \in {x \in DOMAIN sessions : ~Expired(x)} |-> sessions[s]]
    /\ UNCHANGED <<backends, models, byRegion, byDomain, load, latency, held,
                   clock, ops>>

\* A KV event changes what a lane answers for (LocalIndex has the detail).
KvEvent(b, hs) ==
    /\ hs # held[b]
    /\ held' = [held EXCEPT ![b] = hs]
    /\ UNCHANGED <<backends, models, byRegion, byDomain, load, latency, sessions,
                   clock, ops>>

Tick(secs) ==
    /\ clock' = clock + secs
    /\ UNCHANGED <<backends, models, byRegion, byDomain, load, latency, sessions,
                   held, ops>>

RegistrationStep(b) ==
    \/ RegisterModels(b) \/ RegisterIndices(b) \/ UnregisterIndices(b)
    \/ UnregisterModels(b) \/ UnregisterLoad(b)

-----------------------------------------------------------------------------
(* Queries.                                                                  *)

BackendsByRegion(r) == byRegion[r]
Instances(b) == IF b \in DOMAIN models THEN models[b] ELSE <<>>

\* match_score, times ten: the name, or else a non-empty architecture.
MatchScore(inst, name) ==
    IF inst.name = name THEN 10
    ELSE IF inst.arch # "" /\ inst.arch = name THEN 7 ELSE 0

ModelMatchScore(b, name) ==
    LET scores == {MatchScore(Instances(b)[i], name) : i \in DOMAIN Instances(b)}
    IN  Max(scores \cup {0})

ModelFindBackends(name) == {b \in DOMAIN models : ModelMatchScore(b, name) > 0}

\* freshness saturates at zero for a timestamp ahead of the clock.
HasMetrics(b) == b \in DOMAIN load
Freshness(b) == Max({clock - load[b].ts, 0})
OlderThan(b, secs) == HasMetrics(b) /\ Freshness(b) > secs
AvailableCapacity(m) == m.kvTotal - (m.kvUsed + m.decode)

\* rtt_ms; Inf stands for f64::INFINITY.
Inf == -1
Rtt(r, s) ==
    CASE r = s                      -> 0
      [] <<r, s>> \in DOMAIN latency -> latency[<<r, s>>]
      [] OTHER                      -> Inf

\* kv_find_local_overlap: the prefix up to the first miss.
PrefixOverlap(hs, S) ==
    Max({k \in 0..Len(hs) : \A i \in 1..k : hs[i] \in S})
LocalOverlap(hs, b) == PrefixOverlap(hs, held[b])

\* kv_find_all_local_overlap: every hit of the lane counts, its own misses
\* included in between, until a hash that no lane answers for.
BatchOverlap(hs, b) ==
    LET scanned == PrefixOverlap(hs, UNION {held[c] : c \in BackendIds})
    IN  Cardinality({i \in 1..scanned : hs[i] \in held[b]})

-----------------------------------------------------------------------------
StoreTypeOK ==
    /\ backends \subseteq BackendIds
    /\ DOMAIN models \subseteq BackendIds /\ DOMAIN load \subseteq BackendIds
    /\ \A b \in DOMAIN models : models[b] \in ModelLists[b]
    /\ byRegion \in [Regions -> Seq(BackendIds)]
    /\ byDomain \in [Domains -> Seq(BackendIds)]
    /\ DOMAIN sessions \subseteq Sessions
    /\ \A s \in DOMAIN sessions :
           sessions[s] \in [backend : BackendIds, used : 0..clock, overlap : Nat]
    /\ DOMAIN latency \subseteq Regions \X Regions
    /\ held \in [BackendIds -> SUBSET Hashes]
    /\ clock \in Nat

\* Between calls a backend is in the primary map, the model registry and the
\* two reverse indices, or in none of them, however often it was registered,
\* and the indices of other Regions never name it (register_backend and
\* unregister_backend write the four maps one lock at a time).
IndicesAgree ==
    \A b \in BackendIds : OpAt(b, "none") =>
        /\ (b \in backends) <=> (b \in DOMAIN models)
        /\ \A r \in Regions :
               (b \in Range(BackendsByRegion(r))) <=> (b \in backends /\ r = RegionOf[b])
        /\ \A d \in Domains :
               (b \in Range(byDomain[d])) <=> (b \in backends /\ d = DomainOf[b])
=============================================================================
