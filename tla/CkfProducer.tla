---------------------------- MODULE CkfProducer ----------------------------
(***************************************************************************)
(* The cuckoo-filter producer of one pool                                  *)
(* (hier-kv-gateway-metadata/src/ckf_producer.rs).  Every method takes     *)
(* &mut self under the relay's lock, so each is one step.  The block list  *)
(* of an event is applied hash by hash; here each hash is an event of its  *)
(* own.  Publication sequence numbers are in module CkfRelay.              *)
(***************************************************************************)
EXTENDS CuckooFilter

VARIABLES
    producer,
    published,   \* history: the buckets at the last snapshot or delta
    fenced,      \* history: reset since the last snapshot
    overfull     \* history: some insertion failed since the last reset

producerVars == <<producer, published, fenced, overfull>>

PInit ==
    /\ producer = EmptyProducer
    /\ published = EmptyLane
    /\ fenced = FALSE
    /\ overfull = FALSE

Stored(h, b) ==
    /\ producer' \in AfterStored(producer, h, b)
    /\ overfull' = (overfull \/ (producer.owners[h] = {} /\ producer'.filter.items = producer.filter.items))
    /\ UNCHANGED <<published, fenced>>

Removed(h, b) ==
    /\ producer' = AfterRemoved(producer, h, b)
    /\ UNCHANGED <<published, fenced, overfull>>

Clear(b) ==
    /\ producer' = AfterClear(producer, b)
    /\ UNCHANGED <<published, fenced, overfull>>

Reset ==
    /\ producer' = AfterReset(producer)
    /\ fenced' = TRUE
    /\ overfull' = FALSE
    /\ UNCHANGED published

Snapshot ==
    /\ producer' = AfterPublish(producer)
    /\ published' = producer.filter.buckets
    /\ fenced' = FALSE
    /\ UNCHANGED overfull

\* The receiver of every delta knows the new value of the dirty buckets only.
Delta ==
    /\ producer.filter.dirty # {}
    /\ producer' = AfterPublish(producer)
    /\ published' = [i \in Buckets |-> IF i \in producer.filter.dirty THEN producer.filter.buckets[i]
                                                               ELSE published[i]]
    /\ UNCHANGED <<fenced, overfull>>

PNext ==
    \/ \E h \in Hashes, b \in Backends : Stored(h, b) \/ Removed(h, b)
    \/ \E b \in Backends : Clear(b)
    \/ Reset
    \/ Snapshot
    \/ Delta

PSpec == PInit /\ [][PNext]_producerVars

-----------------------------------------------------------------------------
(* Properties.                                                              *)

\* Type invariant.  No bucket holds more fingerprints than it has slots.
PTypeOK ==
    /\ producer.filter.buckets \in Lanes
    /\ \A i \in Buckets : Used(producer.filter.buckets[i]) <= Slots
    /\ producer.filter.items \in Nat
    /\ producer.filter.dirty \subseteq Buckets
    /\ producer.refcount \in [Hashes -> Nat]
    /\ producer.owners \in [Hashes -> SUBSET Backends]
    /\ producer.held \in [Backends -> SUBSET Hashes]
    /\ published \in Lanes
    /\ fenced \in BOOLEAN /\ overfull \in BOOLEAN

\* The two ownership tables agree, whatever events arrive in whatever order
\* (repeated Stored, Removed of what was never stored, Clear of a shared block):
\* the refcount of a hash is the number of its owners, and the set kept per
\* worker for Clear is the inverse of the owner sets.
OwnershipAgrees ==
    /\ \A h \in Hashes : producer.refcount[h] = Cardinality(producer.owners[h])
    /\ \A h \in Hashes, b \in Backends :
           b \in producer.owners[h] <=> h \in producer.held[b]

Pair(h) == {Probe[h].bucket, Alt[Probe[h].bucket][Probe[h].fp]}

Owned == { h \in Hashes : producer.owners[h] # {} }

\* The hashes that h cannot be told apart from.
Twins(h) == { g \in Owned : Probe[g].fp = Probe[h].fp /\ Pair(g) = Pair(h) }

Copies(h) ==
    LET fp == Probe[h].fp
        a  == Probe[h].bucket
    IN  producer.filter.buckets[a][fp] + producer.filter.buckets[Alt[a][fp]][fp]

\* How many slots of each bucket are taken.
Loads == [i \in Buckets |-> Used(producer.filter.buckets[i])]

\* No false negatives and no leaks: num_items is the number of fingerprints in
\* the filter, also when insertions fail and when a hash whose insertion failed
\* is removed; and as long as no insertion failed, the filter holds exactly one
\* copy of a fingerprint for each owned hash that maps to it, in one of the
\* hash's two buckets, after any evictions and deletions.
FingerprintsMatchOwners ==
    /\ producer.filter.items = MapThenSumSet(LAMBDA i : Loads[i], Buckets)
    /\ ~overfull => \A h \in Hashes : Copies(h) = Cardinality(Twins(h))

\* Deltas lose nothing: applied in order to the last published image they give
\* the producer's buckets, because every bucket that differs from that image
\* is dirty (evictions touch many, a failed insertion none).  A reset forgets
\* the dirty set, so this holds again only from the next snapshot.
ChangesAreDirty ==
    ~fenced => \A i \in Buckets \ producer.filter.dirty : producer.filter.buckets[i] = published[i]

=============================================================================
