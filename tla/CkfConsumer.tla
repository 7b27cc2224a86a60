---------------------------- MODULE CkfConsumer ----------------------------
(***************************************************************************)
(* The lanes of the cross-Region index as concurrent queries see them      *)
(* (hier-kv-gateway-metadata/src/ckf_consumer.rs).                         *)
(*                                                                         *)
(* One writer, the gossip message loop, installs snapshots and deltas with *)
(* one atomic store per bucket; a query loads the lane's status once and   *)
(* then one bucket per hash.  Stores of a snapshot are relaxed, so they    *)
(* become visible in any order.                                            *)
(***************************************************************************)
EXTENDS CuckooFilter, Sequences

CONSTANTS
    RemoteLanes,    \* 0 .. LANE_COUNT - 1
    Regions,
    NoRegion,   \* an unbound lane
    Images,     \* lanes a producer may have published
    Queries     \* hash sequences asked for

ASSUME ConsumerConfig ==
    /\ NoRegion \notin Regions
    /\ Images \subseteq [Buckets -> [Fps -> Nat]]
    /\ Queries \subseteq Seq(Hashes)

VARIABLES
    bound,     \* lane_regions: lane -> Region
    status,    \* lane_status
    table,     \* lane -> its buckets
    writer,    \* the message being applied
    reader,    \* the query being answered
    witness    \* history: the images the query's lane had since its status check

consumerVars == <<bound, status, table, writer, reader, witness>>

IdleWriter == [pc |-> "idle", lane |-> {}, image |-> EmptyLane, todo |-> {}]
IdleReader == [pc |-> "idle", lane |-> {}, query |-> <<>>, at |-> 1, overlap |-> 0]

ConsumerInit ==
    /\ bound = [l \in RemoteLanes |-> NoRegion]
    /\ status = [l \in RemoteLanes |-> "Retired"]
    /\ table = [l \in RemoteLanes |-> EmptyLane]
    /\ writer = IdleWriter
    /\ reader = IdleReader
    /\ witness = {}

LanesOf(r) == { l \in RemoteLanes : bound[l] = r }

-----------------------------------------------------------------------------

\* assign_lane() binds, unassign_lane() unbinds; buckets and status stay.
AssignRegion(l, r) ==
    /\ bound' = [bound EXCEPT ![l] = r]
    /\ UNCHANGED <<status, table, writer, reader, witness>>

UnassignRegion(l) ==
    /\ bound' = [bound EXCEPT ![l] = NoRegion]
    /\ UNCHANGED <<status, table, writer, reader, witness>>

RetireLane(l) ==
    /\ status' = [status EXCEPT ![l] = "Retired"]
    /\ UNCHANGED <<bound, table, writer, reader, witness>>

ActivateLane(l) ==
    /\ status' = [status EXCEPT ![l] = "Active"]
    /\ UNCHANGED <<bound, table, writer, reader, witness>>

\* install_snapshot(): retire the lane ...
BeginSnapshot(l, image) ==
    /\ writer.pc = "idle"
    /\ status' = [status EXCEPT ![l] = "Retired"]
    /\ writer' = [pc |-> "snapshot", lane |-> {l}, image |-> image, todo |-> Buckets]
    /\ UNCHANGED <<bound, table, reader, witness>>

\* apply_delta() does not touch the status.
BeginDelta(l, image, dirty) ==
    /\ writer.pc = "idle"
    /\ writer' = [pc |-> "delta", lane |-> {l}, image |-> image, todo |-> dirty]
    /\ UNCHANGED <<bound, status, table, reader, witness>>

\* ... store one bucket after the other ...
StoreBucket(i) ==
    /\ i \in writer.todo
    /\ table' = [l \in RemoteLanes |-> IF l \in writer.lane
                                   THEN [table[l] EXCEPT ![i] = writer.image[i]]
                                   ELSE table[l]]
    /\ writer' = [writer EXCEPT !.todo = @ \ {i}]
    /\ witness' = IF reader.pc = "probe" THEN witness \cup { table'[l] : l \in reader.lane }
                                         ELSE witness
    /\ UNCHANGED <<bound, status, reader>>

\* ... and activate a snapshot's lane.
EndWrite ==
    /\ writer.pc # "idle"
    /\ writer.todo = {}
    /\ status' = [l \in RemoteLanes |-> IF l \in writer.lane /\ writer.pc = "snapshot"
                                    THEN "Active" ELSE status[l]]
    /\ writer' = IdleWriter
    /\ UNCHANGED <<bound, table, reader, witness>>

-----------------------------------------------------------------------------
(* estimate_overlap()                                                       *)

\* lane_of() finds a lane for the Region; a Region without one has overlap 0.
QueryStarts(r, q) ==
    /\ reader.pc = "idle"
    /\ \E l \in LanesOf(r) :
          reader' = [pc |-> "status", lane |-> {l}, query |-> q, at |-> 1, overlap |-> 0]
    /\ UNCHANGED <<bound, status, table, writer, witness>>

\* The status is loaded once: a retired lane answers 0.
StatusLoaded ==
    /\ reader.pc = "status"
    /\ \E l \in reader.lane :
          /\ reader' = [reader EXCEPT !.pc = IF status[l] = "Active" THEN "probe" ELSE "idle"]
          /\ witness' = IF status[l] = "Active" THEN { table[l] } ELSE {}
    /\ UNCHANGED <<bound, status, table, writer>>

\* Mutant: a miss does not end the prefix.
AfterProbeSkips(hit) ==
    [reader EXCEPT !.at = @ + 1, !.overlap = IF hit THEN @ + 1 ELSE @]

\* Mutant: a hit is counted but the query does not move on.
AfterProbeStays(hit) ==
    IF hit THEN [reader EXCEPT !.overlap = @ + 1]
           ELSE [reader EXCEPT !.at = Len(reader.query) + 1]

\* A hit counts; the first miss breaks off.
AfterProbe(hit) ==
    IF hit THEN [reader EXCEPT !.at = @ + 1, !.overlap = @ + 1]
           ELSE [reader EXCEPT !.at = Len(reader.query) + 1]

HashAsked == reader.query[reader.at]

\* One hash: its fingerprint is looked for in its primary bucket.
ProbeHash ==
    /\ reader.pc = "probe"
    /\ reader.at <= Len(reader.query)
    /\ \E l \in reader.lane :
          reader' = AfterProbe(Holds(table[l], Probe[HashAsked].bucket, Probe[HashAsked].fp))
    /\ UNCHANGED <<bound, status, table, writer, witness>>

QueryEnds ==
    /\ reader.pc = "probe"
    /\ reader.at > Len(reader.query)
    /\ reader' = IdleReader
    /\ witness' = {}
    /\ UNCHANGED <<bound, status, table, writer>>

ConsumerNext ==
    \/ \E l \in RemoteLanes :
          \/ \E r \in Regions : AssignRegion(l, r)
          \/ UnassignRegion(l) \/ RetireLane(l) \/ ActivateLane(l)
          \/ \E image \in Images :
                \/ BeginSnapshot(l, image)
                \/ \E dirty \in SUBSET Buckets \ {{}} : BeginDelta(l, image, dirty)
    \/ \E i \in Buckets : StoreBucket(i)
    \/ EndWrite
    \/ \E r \in Regions, q \in Queries : QueryStarts(r, q)
    \/ StatusLoaded \/ ProbeHash \/ QueryEnds

ConsumerSpec == ConsumerInit /\ [][ConsumerNext]_consumerVars

-----------------------------------------------------------------------------
(* Properties.                                                              *)

\* Type invariant.  No query finds more blocks than it asks for.
ConsumerTypeOK ==
    /\ bound \in [RemoteLanes -> Regions \cup {NoRegion}]
    /\ status \in [RemoteLanes -> {"Active", "Retired"}]
    /\ table \in [RemoteLanes -> Lanes]
    /\ writer.todo \subseteq Buckets
    /\ reader.overlap <= Len(reader.query)

InPrimary(image, h) == Holds(image, Probe[h].bucket, Probe[h].fp)

\* Reference: n is the length of the longest prefix of q found in the image.
PrefixHits(image, q, n) ==
    /\ \A k \in 1 .. n : InPrimary(image, q[k])
    /\ n < Len(q) => ~InPrimary(image, q[n + 1])

\* A query whose lane was not written while it ran answers with the exact
\* longest prefix, whatever is done to bindings, statuses and other lanes
\* meanwhile; one that raced a write counts only blocks the lane held at some
\* moment since the status check.
AnswersAreWitnessed ==
    reader.pc = "probe" =>
        /\ \A k \in 1 .. reader.overlap :
               \E image \in witness : InPrimary(image, reader.query[k])
        /\ reader.at > Len(reader.query) /\ Cardinality(witness) = 1
               => \A image \in witness : PrefixHits(image, reader.query, reader.overlap)

-----------------------------------------------------------------------------
(* What the comments and the documentation say, and the code does not do.   *)

\* docs/en/03-interfaces-data-models.md:867: a hash is found in either of its
\* two buckets, so a fingerprint that cuckoo eviction moved still counts.
EitherBucketCounts ==
    [][ProbeHash =>
          \A l \in reader.lane :
              LET h == HashAsked IN
              Holds(table[l], Alt[Probe[h].bucket][Probe[h].fp], Probe[h].fp)
                  => reader'.overlap = reader.overlap + 1]_consumerVars

=============================================================================
