------------------------------ MODULE CkfRelay ------------------------------
(***************************************************************************)
(* Cross-Region publication of a Region's cuckoo filters: the KvRelay of   *)
(* the publishing gateway (hier-kv-gateway-cluster/src/ckf_relay.rs), the  *)
(* messages it broadcasts, and the lane of one remote gateway              *)
(* (hier-kv-gateway/src/cluster_bridge.rs, the ckf handlers, and           *)
(* hier-kv-gateway-metadata/src/ckf_consumer.rs).                          *)
(*                                                                         *)
(* Ingestion tasks call apply_event concurrently with each other and with  *)
(* the background timer; a step is one atomic or one map-entry lock.  Each *)
(* broadcast runs in a task of its own over a connection of its own, so    *)
(* messages arrive in any order or not at all.  The receiver handles one   *)
(* message at a time.  All the pools are of one Region.                    *)
(***************************************************************************)
EXTENDS CuckooFilter, Sequences

CONSTANTS
    Pools,
    Ingesters,              \* tasks that feed backend KV events
    Timer,                  \* the background flush task
    PublicationThreshold,   \* publication_threshold
    MaxEvents, MaxBarriers  \* bounds on the environment

ASSUME RelayConfig ==
    /\ Timer \notin Ingesters
    /\ PublicationThreshold \in Nat
    /\ MaxEvents \in Nat /\ MaxBarriers \in Nat

Flushers == Ingesters \cup {Timer}

VARIABLES
    producers,   \* pool -> its CkfProducer
    known,       \* the pools that have an entry in the map
    seq,         \* pool -> pub_seq
    pending,     \* pending_count
    pc,          \* flusher -> where it is
    left,        \* flusher -> pools its flush has still to visit
    budget,      \* events and barriers still to come
    fenced,      \* history: pools reset since their last snapshot
    images,      \* history: pool -> the buckets at each publication
    net,         \* messages in flight
    assigned,    \* the receiver has bound a lane to the Region
    lane,        \* that lane's buckets
    active,      \* lane_status is LANE_ACTIVE
    aligned      \* history: the pool and sequence an unbroken run has reached

senderVars == <<producers, known, seq, pending, pc, left, budget, fenced, images>>
receiverVars == <<assigned, lane, active, aligned>>
vars == <<senderVars, net, receiverVars>>

NoRun == [pool |-> {}, at |-> 0]

RunOf(p, n) == [pool |-> {p}, at |-> n]

Init ==
    /\ producers = [p \in Pools |-> EmptyProducer]
    /\ known = {}
    /\ seq = [p \in Pools |-> 0]
    /\ pending = 0
    /\ pc = [t \in Flushers |-> "idle"]
    /\ left = [t \in Flushers |-> {}]
    /\ budget = [events |-> MaxEvents, barriers |-> MaxBarriers]
    /\ fenced = {}
    /\ images = [p \in Pools |-> <<>>]
    /\ net = {}
    /\ assigned = FALSE
    /\ lane = EmptyLane
    /\ active = FALSE
    /\ aligned = NoRun

-----------------------------------------------------------------------------
(* The publishing gateway.                                                  *)

\* CkfProducer::apply_event: the producers one event may lead to.
AfterEvent(p) ==
    (UNION { AfterStored(p, h, b) : h \in Hashes, b \in Backends })
        \cup { AfterRemoved(p, h, b) : h \in Hashes, b \in Backends }
        \cup { AfterClear(p, b) : b \in Backends }

\* apply_event() up to the release of the pool's entry.
Apply(t, p) ==
    /\ pc[t] = "idle"
    /\ budget.events > 0
    /\ budget' = [budget EXCEPT !.events = @ - 1]
    /\ known' = known \cup {p}
    /\ \/ /\ \E q \in AfterEvent(producers[p]) : producers' = [producers EXCEPT ![p] = q]
          /\ UNCHANGED fenced
       \/ /\ producers' = [producers EXCEPT ![p] = AfterReset(@)]
          /\ fenced' = fenced \cup {p}
    /\ pc' = [pc EXCEPT ![t] = "count"]
    /\ UNCHANGED <<seq, pending, left, images, net, receiverVars>>

\* fetch_add on pending_count; at the threshold, flush.
Count(t) ==
    /\ pc[t] = "count"
    /\ pending' = pending + 1
    /\ pc' = [pc EXCEPT ![t] = IF pending' >= PublicationThreshold THEN "flush" ELSE "idle"]
    /\ UNCHANGED <<producers, known, seq, left, budget, fenced, images, net, receiverVars>>

\* The background task ticks and finds something pending.
TimerFires ==
    /\ pc[Timer] = "idle"
    /\ pending > 0
    /\ pc' = [pc EXCEPT ![Timer] = "flush"]
    /\ UNCHANGED <<producers, known, seq, pending, left, budget, fenced, images, net,
                   receiverVars>>

\* flush(): the counter is reset first, then the keys are collected.
FlushStarts(t) ==
    /\ pc[t] = "flush"
    /\ pending' = 0
    /\ left' = [left EXCEPT ![t] = known]
    /\ pc' = [pc EXCEPT ![t] = "walk"]
    /\ UNCHANGED <<producers, known, seq, budget, fenced, images, net, receiverVars>>

Message(kind, p, image) ==
    [ kind |-> kind, pool |-> p, sequence |-> seq[p] + 1, prev |-> seq[p],
      image |-> image, fenced |-> p \in fenced ]

\* Publish image under the next sequence number; the broadcast is spawned.
Publish(kind, p, image) ==
    /\ seq' = [seq EXCEPT ![p] = @ + 1]
    /\ images' = [images EXCEPT ![p] = Append(@, producers[p].filter.buckets)]
    /\ producers' = [producers EXCEPT ![p] = AfterPublish(@)]
    /\ net' = net \cup {Message(kind, p, image)}

Visited(t, p) == left' = [left EXCEPT ![t] = @ \ {p}]

\* A pool with dirty buckets is published as a delta ...
FlushPool(t, p) ==
    /\ pc[t] = "walk"
    /\ p \in left[t]
    /\ producers[p].filter.dirty # {}
    /\ Publish("delta", p, [i \in producers[p].filter.dirty |-> producers[p].filter.buckets[i]])
    /\ Visited(t, p)
    /\ UNCHANGED <<known, pending, pc, budget, fenced, receiverVars>>

\* ... and one without is passed over.
PassPool(t, p) ==
    /\ pc[t] = "walk"
    /\ p \in left[t]
    /\ producers[p].filter.dirty = {}
    /\ Visited(t, p)
    /\ UNCHANGED <<producers, known, seq, pending, pc, budget, fenced, images, net,
                   receiverVars>>

\* Mutant: the counter is reset at the end of the flush.
FlushEndsResetsCount(t) ==
    /\ pc[t] = "walk"
    /\ left[t] = {}
    /\ pending' = 0
    /\ pc' = [pc EXCEPT ![t] = "idle"]
    /\ UNCHANGED <<producers, known, seq, left, budget, fenced, images, net, receiverVars>>

\* Mutant: the walk may stop with pools left.
FlushEndsEarly(t) ==
    /\ pc[t] = "walk"
    /\ pc' = [pc EXCEPT ![t] = "idle"]
    /\ UNCHANGED <<producers, known, seq, pending, left, budget, fenced, images, net,
                   receiverVars>>

FlushEnds(t) ==
    /\ pc[t] = "walk"
    /\ left[t] = {}
    /\ pc' = [pc EXCEPT ![t] = "idle"]
    /\ UNCHANGED <<producers, known, seq, pending, left, budget, fenced, images, net,
                   receiverVars>>

\* publish_barrier(): a full snapshot on demand.
PublishBarrier(p) ==
    /\ p \in known
    /\ budget.barriers > 0
    /\ budget' = [budget EXCEPT !.barriers = @ - 1]
    /\ Publish("snapshot", p, producers[p].filter.buckets)
    /\ fenced' = fenced \ {p}
    /\ UNCHANGED <<known, pending, pc, left, receiverVars>>

-----------------------------------------------------------------------------
(* The network and the receiving gateway.                                   *)

Lose(m) ==
    /\ net' = net \ {m}
    /\ UNCHANGED <<senderVars, receiverVars>>

\* assign_lane(), by the layer above.
AssignLane ==
    /\ ~assigned
    /\ assigned' = TRUE
    /\ UNCHANGED <<senderVars, net, lane, active, aligned>>

\* Either handler, without a lane for the Region: dropped.
DropUnassigned(m) ==
    /\ ~assigned
    /\ net' = net \ {m}
    /\ UNCHANGED <<senderVars, receiverVars>>

\* handle_ckf_barrier_snapshot(): every bucket is overwritten, the lane activated.
InstallSnapshot(m) ==
    /\ assigned
    /\ m.kind = "snapshot"
    /\ lane' = m.image
    /\ active' = TRUE
    /\ aligned' = RunOf(m.pool, m.sequence)
    /\ net' = net \ {m}
    /\ UNCHANGED <<senderVars, assigned>>

\* Mutant: a delta's buckets are merged into the lane instead of stored.
MergeImage(m) ==
    [i \in Buckets |-> IF i \in DOMAIN m.image
                       THEN [f \in Fps |-> lane[i][f] + m.image[i][f]]
                       ELSE lane[i]]

\* apply_delta(): the dirty buckets are stored.
StoreImage(m) ==
    [i \in Buckets |-> IF i \in DOMAIN m.image THEN m.image[i] ELSE lane[i]]

\* handle_ckf_delta(): applied whatever its sequence numbers are.
ApplyDelta(m) ==
    /\ assigned
    /\ m.kind = "delta"
    /\ lane' = StoreImage(m)
    /\ aligned' = IF aligned = RunOf(m.pool, m.prev) /\ ~m.fenced
                  THEN RunOf(m.pool, m.sequence) ELSE NoRun
    /\ net' = net \ {m}
    /\ UNCHANGED <<senderVars, assigned, active>>

Flush(t) ==
    \/ Count(t) \/ FlushStarts(t) \/ FlushEnds(t)
    \/ \E p \in Pools : FlushPool(t, p) \/ PassPool(t, p)

Next ==
    \/ \E t \in Ingesters, p \in Pools : Apply(t, p)
    \/ \E t \in Flushers : Flush(t)
    \/ TimerFires
    \/ \E p \in Pools : PublishBarrier(p)
    \/ AssignLane
    \/ \E m \in net : Lose(m) \/ DropUnassigned(m) \/ InstallSnapshot(m) \/ ApplyDelta(m)

Spec == Init /\ [][Next]_vars

\* Ingestion tasks run on, and the interval of the background task ticks.
FairSpec ==
    /\ Spec
    /\ \A t \in Flushers : WF_vars(Flush(t))
    /\ WF_vars(TimerFires)

-----------------------------------------------------------------------------
(* Properties.                                                              *)

\* Type invariant.  Only a flush under way has pools left to visit.
RelayTypeOK ==
    /\ known \subseteq Pools
    /\ seq \in [Pools -> Nat]
    /\ pending \in Nat
    /\ pc \in [Flushers -> {"idle", "count", "flush", "walk"}]
    /\ left \in [Flushers -> SUBSET known]
    /\ \A t \in Flushers : pc[t] # "walk" => left[t] = {}
    /\ fenced \subseteq known
    /\ assigned \in BOOLEAN /\ active \in BOOLEAN

\* Somebody is going to look at pool p again.
WillVisit(p) ==
    \/ pending > 0
    \/ \E t \in Flushers : pc[t] \in {"count", "flush"}
    \/ \E t \in Flushers : pc[t] = "walk" /\ p \in left[t]

\* No change is stranded: flush() resets pending_count while events keep being
\* counted, yet a pool with unpublished buckets is always announced by a
\* nonzero counter, or by a task that is about to count or to flush it.
NothingStranded ==
    \A p \in Pools : producers[p].filter.dirty # {} => p \in known /\ WillVisit(p)

\* The buckets of p as the last publication left them; nothing was published of
\* an empty lane.
LastPublished(p) == IF images[p] = <<>> THEN EmptyLane ELSE images[p][Len(images[p])]

Outdated(p) == producers[p].filter.buckets # LastPublished(p)

\* What differs from the last publication is published in the end, if only by the
\* background task.  A reset is not: it empties the filter and forgets the dirty
\* buckets (ckf_producer.rs, reset_internal), so that no flush sees a change, and
\* the other Regions keep the old blocks until a barrier is asked for.
ChangesGetPublished ==
    \A p \in Pools : Outdated(p) /\ p \notin fenced ~> ~ Outdated(p) \/ p \in fenced

\* Delivery in order is exact: a receiver that installed a snapshot and then
\* applied every later delta of that pool, each on its prev_sequence, has the
\* producer's buckets of that publication.
AlignedLaneIsExact ==
    \A p \in aligned.pool :
        aligned.at \in DOMAIN images[p] /\ lane = images[p][aligned.at]

-----------------------------------------------------------------------------
(* What the documentation says, and the code does not do.                   *)

\* docs/en/01-architecture.md:432: on a delivery gap, "Retire that lane; install
\* a new barrier snapshot": an active lane never mixes publications.
ActiveLaneHasNoGap ==
    active => \E p \in Pools : \E n \in DOMAIN images[p] : lane = images[p][n]

=============================================================================
