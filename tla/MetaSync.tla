------------------------------ MODULE MetaSync ------------------------------
(* Metadata carried by cluster messages: the handler side of gossip.rs and   *)
(* the store writes of cluster_bridge.rs.  Ping, Pong and Meet are module    *)
(* Gossip's.  The repository handles these messages and answers sync         *)
(* requests, but nothing in it sends a request or a broadcast yet: both      *)
(* come from outside, as the message types allow them.  Messages may be      *)
(* lost, duplicated and reordered (a message in the mail may be handled any  *)
(* number of times, or never).  A metrics value is tagged with the Region it *)
(* was announced for, which the store does not keep.                         *)
EXTENDS Integers, FiniteSets, Functions

CONSTANTS
    Nodes,          \* gateway instances
    HomeOf,         \* node -> its Region
    Peers,          \* node -> the instances in its member list
    Senders,        \* who may send a sync request
    Servers,        \* backend ids
    ServerRegion,   \* backend -> its Region
    Announcements,  \* metrics broadcasts: [region, servers], decodable
    SyncKeys,       \* the keys a sync request may ask for
    LaneRegions,    \* Regions with a CKF lane
    MaxVersion,     \* bound on the version counters
    MaxMail         \* bound on the responses in flight

ASSUME MetaAssumption ==
    /\ DOMAIN HomeOf = Nodes
    /\ ServerRegion \in [Servers -> Range(HomeOf)]
    /\ Peers \in [Nodes -> SUBSET Nodes]
    /\ MaxVersion \in Nat /\ MaxMail \in Nat

VARIABLES
    known,      \* node -> backends registered in its store
    metrics,    \* node -> backend -> the Region its metrics were announced for
    regions,    \* node -> Regions in its topology
    versions,   \* node -> the VersionCounter
    mail        \* sync responses in flight

metaVars == <<known, metrics, regions, versions, mail>>

None == "none"
Counters == {"kv", "model", "load", "topology", "members"}
KeyOfState == [load_state |-> "load", topology_state |-> "topology", kv_state |-> "kv",
               model_state |-> "model", members |-> "members"]

MetaInit ==
    /\ known = [n \in Nodes |-> { b \in Servers : ServerRegion[b] = HomeOf[n] }]
    /\ metrics = [n \in Nodes |-> [b \in Servers |-> None]]
    /\ regions = [n \in Nodes |-> {HomeOf[n]}]
    /\ versions = [n \in Nodes |-> [c \in Counters |-> 0]]
    /\ mail = {}

Bump(n, c, by) ==
    /\ versions[n][c] + by <= MaxVersion
    /\ versions' = [versions EXCEPT ![n][c] = @ + by]

\* load_update(), whatever was there before.
Report(n, new) ==
    metrics' = [metrics EXCEPT ![n] = [b \in Servers |->
                    IF b \in DOMAIN new THEN new[b] ELSE @[b]]]

\* apply_topology_state(): Regions are added and never taken away.
AddRegions(n, rs) == regions' = [regions EXCEPT ![n] = @ \cup rs]

-----------------------------------------------------------------------------

\* A local collector reports, and a remote backend is registered: no version
\* moves for local writes.
CollectLocally(n, b) ==
    /\ b \in known[n] /\ ServerRegion[b] = HomeOf[n]
    /\ Report(n, [x \in {b} |-> HomeOf[n]])
    /\ UNCHANGED <<known, regions, versions, mail>>

RegisterRemote(n, b) ==
    /\ known' = [known EXCEPT ![n] = @ \cup {b}]
    /\ UNCHANGED <<metrics, regions, versions, mail>>

\* Mutant: the announced Region is not compared with the backend's.
AcceptedUnchecked(a) == a.servers

\* handle_metrics_broadcast() takes the backends of the announced Region only.
Accepted(a) == { b \in a.servers : ServerRegion[b] = a.region }

HandleMetrics(n, a) ==
    /\ Report(n, [b \in Accepted(a) |-> a.region])
    /\ Bump(n, "load", Cardinality(Accepted(a)))
    /\ UNCHANGED <<known, regions, mail>>

\* handle_sync_request(): load state is the metrics of the registered backends,
\* topology state the known Regions; the other keys carry only a version.
Entry(n, key) ==
    [ key     |-> key,
      version |-> versions[n][KeyOfState[key]],
      load    |-> [b \in { s \in known[n] : key = "load_state" /\ metrics[n][s] # None } |->
                        metrics[n][b]],
      regions |-> IF key = "topology_state" THEN regions[n] ELSE {} ]

\* The response goes to the sender's address, or to everyone if it is not a
\* member; a key that is not known is left out.
HandleSyncRequest(n, sender, key) ==
    LET to == IF sender \in Peers[n] THEN {sender} ELSE Peers[n] \ {n}
        entries == IF key \in DOMAIN KeyOfState THEN { Entry(n, key) } ELSE {}
    IN
    /\ Cardinality(mail) + Cardinality(to) <= MaxMail
    /\ mail' = mail \cup { [to |-> m, entries |-> entries] : m \in to }
    /\ UNCHANGED <<known, metrics, regions, versions>>

\* apply_sync_response(): what the entry holds, whatever its version; entries
\* without a payload are skipped.
ApplySyncResponse(m, e) ==
    /\ e \in m.entries
    /\ \/ /\ e.key = "load_state"
          /\ Report(m.to, e.load) /\ Bump(m.to, "load", 1)
          /\ UNCHANGED regions
       \/ /\ e.key = "topology_state"
          /\ AddRegions(m.to, e.regions) /\ Bump(m.to, "topology", 1)
          /\ UNCHANGED metrics
    /\ UNCHANGED <<known, mail>>

LoseMail(m) ==
    /\ mail' = mail \ {m}
    /\ UNCHANGED <<known, metrics, regions, versions>>

\* handle_topology_update() counts a version; the latency it writes, like the
\* session that handle_session_affinity() pins, is module MetadataStore's.
HandleTopology(n) ==
    /\ Bump(n, "topology", 1)
    /\ UNCHANGED <<known, metrics, regions, mail>>

\* handle_ckf_barrier_snapshot() and handle_ckf_delta() of a Region with a
\* lane count even when the consumer refuses them (module CkfConsumer).
HandleCkf(n, r) ==
    /\ r \in LaneRegions
    /\ Bump(n, "kv", 1)
    /\ UNCHANGED <<known, metrics, regions, mail>>

MetaNext ==
    \/ \E n \in Nodes :
        \/ \E b \in Servers : CollectLocally(n, b) \/ RegisterRemote(n, b)
        \/ \E a \in Announcements : HandleMetrics(n, a)
        \/ \E sender \in Senders, key \in SyncKeys : HandleSyncRequest(n, sender, key)
        \/ HandleTopology(n)
        \/ \E r \in LaneRegions : HandleCkf(n, r)
    \/ \E m \in mail :
        \/ \E e \in m.entries : ApplySyncResponse(m, e)
        \/ LoseMail(m)

MetaSpec == MetaInit /\ [][MetaNext]_metaVars

-----------------------------------------------------------------------------

\* No crosstalk between Regions (cluster_bridge.rs:318): wherever metrics of a
\* backend end up, also by way of sync responses, which are applied without a
\* check, they were announced for the backend's own Region; and a Region is
\* only known to an instance if some instance lives there.
NoCrosstalk ==
    \A n \in Nodes :
        /\ \A b \in Servers : metrics[n][b] \in {None, ServerRegion[b]}
        /\ regions[n] \subseteq Range(HomeOf)
        /\ HomeOf[n] \in regions[n]

=============================================================================
