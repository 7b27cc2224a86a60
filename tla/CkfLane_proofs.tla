---------------------------- MODULE CkfLane_proofs ----------------------------
(***************************************************************************)
(* The two ends of a CKF lane.  The producer: its ownership tables agree,  *)
(* its filter holds one fingerprint per owned hash, and a delta carries    *)
(* every bucket that changed.  The consumer: a query's answer is that of   *)
(* buckets the lane really had while the query ran.                        *)
(***************************************************************************)
EXTENDS CkfProducer, CkfConsumer, CuckooFilter_proofs, SequenceTheorems

-----------------------------------------------------------------------------
(* The producer.                                                              *)

\* The filter is sound; while no insertion failed it stands for the owned
\* hashes; and what was not published since the last snapshot is dirty.
ProducerInv ==
    /\ OwnershipInv(producer)
    /\ Sound(producer.filter)
    /\ published \in Lanes
    /\ fenced \in BOOLEAN /\ overfull \in BOOLEAN
    /\ ~overfull => Holding(producer.filter, OwnedBy(producer))
    /\ ~fenced => \A i \in Buckets \ producer.filter.dirty :
                     producer.filter.buckets[i] = published[i]

LEMMA ProducerInvInit == PInit => ProducerInv
<1> SUFFICES ASSUME PInit PROVE ProducerInv
  OBVIOUS
<1>1. OwnershipInv(producer)
  BY EmptyOwnership DEF PInit
<1>2. /\ producer.filter = EmptyFilter /\ OwnedBy(producer) = {}
      /\ producer.filter.buckets = EmptyLane /\ published = EmptyLane
  BY DEF PInit, EmptyProducer, OwnedBy, EmptyFilter
<1>3. published \in Lanes /\ fenced \in BOOLEAN /\ overfull \in BOOLEAN
  BY <1>2, EmptyIsLane DEF PInit
<1> QED BY <1>1, <1>2, <1>3, EmptyFilterFacts DEF ProducerInv

\* A step that releases hashes of one worker.
LEMMA ReleaseKeeps ==
    ASSUME ProducerInv, NEW b \in Backends, NEW hs \in SUBSET producer.held[b],
           producer' = Released(producer, hs, b), UNCHANGED <<published, fenced, overfull>>
    PROVE  ProducerInv'
<1>o. OwnershipInv(producer) /\ Sound(producer.filter)
  BY DEF ProducerInv
<1>1. OwnershipInv(producer')
  BY <1>o, ReleasedKeepsTables
<1>2. PICK gone \in SUBSET OwnedBy(producer) :
        /\ producer'.filter = Without(producer.filter, gone)
        /\ OwnedBy(producer') = OwnedBy(producer) \ gone
  BY <1>o, ReleasedFilter
<1> DEFINE O == OwnedBy(producer)
<1>3. O \in SUBSET Hashes /\ gone \in SUBSET Hashes /\ gone \subseteq O
  BY DEF OwnedBy
<1> HIDE DEF O
<1>4. /\ Sound(producer'.filter) /\ Follows(producer.filter, producer'.filter)
      /\ Holding(producer.filter, O) => Holding(producer'.filter, O \ gone)
  BY <1>o, <1>2, <1>3, WithoutFacts
<1>5. ~overfull' => Holding(producer'.filter, OwnedBy(producer'))
  BY <1>2, <1>4 DEF ProducerInv, O
<1>6. ~fenced' => \A i \in Buckets \ producer'.filter.dirty :
                    producer'.filter.buckets[i] = published'[i]
  BY <1>4, FollowerKeepsDirty DEF ProducerInv
<1>7. published' \in Lanes /\ fenced' \in BOOLEAN /\ overfull' \in BOOLEAN
  BY DEF ProducerInv
<1> QED BY <1>1, <1>4, <1>5, <1>6, <1>7 DEF ProducerInv, OwnershipInv

LEMMA StoredKeeps ==
    ASSUME ProducerInv, NEW h \in Hashes, NEW b \in Backends, Stored(h, b)
    PROVE  ProducerInv'
<1>o. OwnershipInv(producer) /\ Sound(producer.filter) /\ producer' \in AfterStored(producer, h, b)
  BY DEF ProducerInv, Stored
<1>1. OwnershipInv(producer')
  BY <1>o, StoredKeepsTables
<1>7. published' \in Lanes /\ fenced' \in BOOLEAN /\ overfull' \in BOOLEAN
  BY DEF ProducerInv, Stored
<1>2. CASE /\ producer'.filter = producer.filter
           /\ OwnedBy(producer') = OwnedBy(producer)
  <2>1. ~overfull' => Holding(producer'.filter, OwnedBy(producer'))
    BY <1>2 DEF ProducerInv, Stored
  <2>2. ~fenced' => \A i \in Buckets \ producer'.filter.dirty :
                    producer'.filter.buckets[i] = published'[i]
    BY <1>2 DEF ProducerInv, Stored
  <2>3. Sound(producer'.filter)
    BY <1>o, <1>2
  <2> QED BY <1>1, <1>7, <2>1, <2>2, <2>3 DEF ProducerInv, OwnershipInv
<1>3. CASE /\ h \notin OwnedBy(producer)
           /\ producer'.filter \in InsertFingerprint(producer.filter, h)
           /\ OwnedBy(producer') = OwnedBy(producer) \cup {h}
  <2> DEFINE O == OwnedBy(producer)
  <2>0. O \in SUBSET Hashes /\ h \notin O
    BY <1>3 DEF OwnedBy
  <2>f. producer.owners[h] = {}
    BY <1>3 DEF OwnedBy
  <2> HIDE DEF O
  <2>1. Sound(producer'.filter) /\ Follows(producer.filter, producer'.filter)
    BY <1>o, <1>3, InsertFacts
  <2>2. ASSUME ~overfull' PROVE Holding(producer'.filter, OwnedBy(producer'))
    <3>1. ~overfull /\ producer'.filter.items # producer.filter.items
      BY <2>2, <2>f DEF Stored
    <3>2. Holding(producer.filter, O)
      BY <3>1 DEF ProducerInv, O
    <3>3. Holding(producer'.filter, O \cup {h})
      BY <1>o, <1>3, <2>0, <3>1, <3>2, InsertHolds
    <3> QED BY <1>3, <3>3 DEF O
  <2>3. ~fenced' => \A i \in Buckets \ producer'.filter.dirty :
                    producer'.filter.buckets[i] = published'[i]
    BY <2>1, FollowerKeepsDirty DEF ProducerInv, Stored
  <2> QED BY <1>1, <1>7, <2>1, <2>2, <2>3 DEF ProducerInv, OwnershipInv
<1> QED BY <1>o, <1>2, <1>3, StoredFilter

\* A publication clears the dirty set.
LEMMA PublishKeeps ==
    ASSUME ProducerInv, producer' = AfterPublish(producer), overfull' = overfull,
           published' \in Lanes, fenced' \in BOOLEAN,
           ~fenced' => \A i \in Buckets : producer.filter.buckets[i] = published'[i]
    PROVE  ProducerInv'
<1>1. /\ producer'.filter.buckets = producer.filter.buckets
      /\ producer'.filter.items = producer.filter.items /\ producer'.filter.dirty = {}
      /\ producer'.filter = [buckets |-> producer.filter.buckets,
                             items |-> producer.filter.items, dirty |-> {}]
      /\ producer'.owners = producer.owners
  BY DEF AfterPublish
<1>2. OwnershipInv(producer')
  BY DEF AfterPublish, OwnershipInv, ProducerInv
<1>3. Sound(producer'.filter)
  <2>1. producer.filter \in Filters
    BY DEF ProducerInv, Sound
  <2>2. producer'.filter \in Filters
    BY <1>1, <2>1 DEF Filters
  <2> QED BY <1>1, <2>2 DEF ProducerInv, Sound
<1>4. OwnedBy(producer') = OwnedBy(producer)
  BY <1>1 DEF OwnedBy
<1>5. ~overfull' => Holding(producer'.filter, OwnedBy(producer'))
  BY <1>1, <1>4 DEF ProducerInv, Holding
<1>6. overfull' \in BOOLEAN
  BY DEF ProducerInv
<1>7. ~fenced' => \A i \in Buckets \ producer'.filter.dirty :
                    producer'.filter.buckets[i] = published'[i]
  BY <1>1
<1> QED BY <1>2, <1>3, <1>5, <1>6, <1>7 DEF ProducerInv, OwnershipInv

LEMMA ProducerInvStep == ProducerInv /\ [PNext]_producerVars => ProducerInv'
<1> SUFFICES ASSUME ProducerInv, [PNext]_producerVars PROVE ProducerInv'
  OBVIOUS
<1>l. producer.filter.buckets \in Lanes
  BY DEF ProducerInv, Sound, Filters
<1>1. ASSUME NEW h \in Hashes, NEW b \in Backends, Stored(h, b) PROVE ProducerInv'
  BY <1>1, StoredKeeps
<1>2. ASSUME NEW h \in Hashes, NEW b \in Backends, Removed(h, b) PROVE ProducerInv'
  <2>1. CASE b \in producer.owners[h]
    <3>1. {h} \in SUBSET producer.held[b]
      BY <2>1 DEF OwnershipInv, ProducerInv
    <3>2. producer' = Released(producer, {h}, b) /\ UNCHANGED <<published, fenced, overfull>>
      BY <1>2, <2>1 DEF Removed, AfterRemoved
    <3> QED BY <3>1, <3>2, ReleaseKeeps
  <2>2. CASE b \notin producer.owners[h]
    <3>1. UNCHANGED producerVars
      BY <1>2, <2>2 DEF Removed, AfterRemoved, producerVars
    <3> QED BY <3>1 DEF producerVars, ProducerInv, OwnershipInv
  <2> QED BY <2>1, <2>2
<1>3. ASSUME NEW b \in Backends, Clear(b) PROVE ProducerInv'
  <2>1. producer.held[b] \in SUBSET producer.held[b]
    OBVIOUS
  <2>2. producer' = Released(producer, producer.held[b], b)
        /\ UNCHANGED <<published, fenced, overfull>>
    BY <1>3 DEF Clear, AfterClear
  <2> QED BY <2>1, <2>2, ReleaseKeeps
<1>4. CASE Reset
  <2>1. /\ producer' = EmptyProducer /\ fenced' = TRUE /\ overfull' = FALSE
        /\ published' = published
    BY <1>4 DEF Reset, AfterReset
  <2>2. OwnershipInv(producer')
    BY <2>1, EmptyOwnership
  <2>3. producer'.filter = EmptyFilter /\ OwnedBy(producer') = {}
    BY <2>1 DEF EmptyProducer, OwnedBy
  <2> QED BY <2>1, <2>2, <2>3, EmptyFilterFacts DEF ProducerInv, OwnershipInv
<1>5. CASE Snapshot
  <2>1. /\ producer' = AfterPublish(producer) /\ overfull' = overfull
        /\ published' = producer.filter.buckets /\ fenced' = FALSE
    BY <1>5 DEF Snapshot
  <2> QED BY <1>l, <2>1, PublishKeeps
<1>6. CASE Delta
  <2> DEFINE image == [i \in Buckets |-> IF i \in producer.filter.dirty
                                          THEN producer.filter.buckets[i] ELSE published[i]]
  <2>1. /\ producer' = AfterPublish(producer) /\ overfull' = overfull
        /\ published' = image /\ fenced' = fenced
    BY <1>6 DEF Delta
  <2>2. image \in Lanes
    BY <1>l DEF Lanes, ProducerInv
  <2>3. ~fenced => \A i \in Buckets : producer.filter.buckets[i] = image[i]
    BY DEF ProducerInv
  <2>4. fenced \in BOOLEAN
    BY DEF ProducerInv
  <2> HIDE DEF image
  <2> QED BY <2>1, <2>2, <2>3, <2>4, PublishKeeps
<1>7. CASE UNCHANGED producerVars
  BY <1>7 DEF producerVars, ProducerInv, OwnershipInv
<1> QED BY <1>1, <1>2, <1>3, <1>4, <1>5, <1>6, <1>7 DEF PNext

LEMMA ProducerInvariant == PSpec => []ProducerInv
BY ProducerInvInit, ProducerInvStep, PTL DEF PSpec

\* The producer's tables and its filter keep their types, and no bucket ever
\* holds more fingerprints than it has slots, however long the evictions go on.
THEOREM ProducerTyped == PSpec => []PTypeOK
<1>1. ProducerInv => PTypeOK
  BY DEF ProducerInv, PTypeOK, OwnershipInv, Sound, Filters, Fits
<1> QED BY <1>1, ProducerInvariant, PTL

\* Whatever Stored, Removed, Clear and Reset events arrive, in whatever order
\* and repeated or not, the reference count of a hash is the number of workers
\* that own it and the per-worker sets are the inverse of the owner sets.
THEOREM OwnershipCorrect == PSpec => []OwnershipAgrees
<1>1. ProducerInv => OwnershipAgrees
  BY DEF ProducerInv, OwnershipInv, OwnershipAgrees
<1> QED BY <1>1, ProducerInvariant, PTL

\* num_items is the number of stored fingerprints, and as long as no insertion
\* failed the filter holds one copy of a fingerprint for each owned hash that
\* maps to it and no other: no false negatives, and nothing left behind.
THEOREM FingerprintsFollowOwners == PSpec => []FingerprintsMatchOwners
<1>1. ASSUME ProducerInv PROVE FingerprintsMatchOwners
  <2>1. producer.filter.items = MapThenSumSet(LAMBDA i : Loads[i], Buckets)
    <3>1. LoadOf(producer.filter.buckets) = Loads
      BY DEF LoadOf, Loads
    <3>2. Total(producer.filter.buckets) = NatSum(Loads, Buckets)
      BY <3>1, Zenon DEF Total
    <3>3. producer.filter.items = NatSum(Loads, Buckets)
      BY <1>1, <3>2 DEF ProducerInv, Sound
    <3> QED BY <3>3, Zenon DEF NatSum
  <2>2. ASSUME ~overfull, NEW h \in Hashes PROVE Copies(h) = Cardinality(Twins(h))
    <3> DEFINE a == Probe[h].bucket
               fp == Probe[h].fp
    <3>1. a \in Buckets /\ fp \in Fps
      BY ProbeFacts
    <3>2. Found(producer.filter.buckets, a, fp) = Cardinality(Mapped(OwnedBy(producer), a, fp))
      BY <1>1, <2>2, <3>1 DEF ProducerInv, Holding
    <3>3. Copies(h) = Found(producer.filter.buckets, a, fp)
      BY DEF Copies, Found
    <3>4. ASSUME NEW g \in Hashes
          PROVE  (Probe[g].fp = fp /\ Pair(g) = Pair(h)) <=> Maps(g, a, fp)
      <4>1. Probe[g].fp = fp => (Pair(g) = Pair(h) <=> InPair(a, fp, Probe[g].bucket))
        <5> SUFFICES ASSUME Probe[g].fp = fp
                     PROVE  Pair(g) = Pair(h) <=> InPair(a, fp, Probe[g].bucket)
          OBVIOUS
        <5> DEFINE c == Probe[g].bucket
        <5>1. /\ Alt[a][fp] \in Buckets /\ Alt[a][fp] # a /\ Alt[Alt[a][fp]][fp] = a
              /\ Alt[c][fp] \in Buckets /\ Alt[c][fp] # c /\ Alt[Alt[c][fp]][fp] = c
          BY <3>1, ProbeFacts, PairFacts
        <5>2. Pair(g) = {c, Alt[c][fp]} /\ Pair(h) = {a, Alt[a][fp]}
          BY DEF Pair
        <5>3. InPair(a, fp, c) <=> c = a \/ c = Alt[a][fp]
          BY DEF InPair
        <5> HIDE DEF c, a, fp
        <5> QED BY <5>1, <5>2, <5>3 DEF c
      <4> QED BY <4>1 DEF Maps
    <3>5. Twins(h) = Mapped(OwnedBy(producer), a, fp)
      BY <3>4 DEF Twins, Owned, OwnedBy, Mapped
    <3> QED BY <3>2, <3>3, <3>5
  <2> QED BY <2>1, <2>2 DEF FingerprintsMatchOwners
<1> QED BY <1>1, ProducerInvariant, PTL

\* Deltas lose nothing: until the next reset every bucket that differs from
\* what was last published is dirty, through evictions and deletions alike.
THEOREM DeltasLoseNothing == PSpec => []ChangesAreDirty
<1>1. ProducerInv => ChangesAreDirty
  BY DEF ProducerInv, ChangesAreDirty
<1> QED BY <1>1, ProducerInvariant, PTL

-----------------------------------------------------------------------------
(* The consumer.  A query under way has seen, for every hash it counted, an   *)
(* image of its lane that holds the hash, and for the hash it stopped at one  *)
(* that does not; the lane's present image is among those it witnessed.       *)

Writers ==
    [pc : {"idle", "snapshot", "delta"}, lane : SUBSET RemoteLanes, image : Lanes, todo : SUBSET Buckets]
Readers ==
    [pc : {"idle", "status", "probe"}, lane : SUBSET RemoteLanes, query : Seq(Hashes),
     at : Nat \ {0}, overlap : Nat]

ReaderIsSound ==
    /\ reader.overlap < reader.at /\ reader.at <= Len(reader.query) + 1
    /\ reader.pc # "idle" => \E l \in RemoteLanes : reader.lane = {l}
    /\ reader.pc = "status" => reader.at = 1
    /\ reader.pc = "probe" =>
        /\ \A l \in reader.lane : table[l] \in witness
        /\ \A k \in 1 .. reader.overlap :
               \E image \in witness : InPrimary(image, reader.query[k])
        /\ reader.at <= Len(reader.query) => reader.overlap = reader.at - 1
        /\ reader.at > Len(reader.query) /\ reader.overlap < Len(reader.query) =>
               \E image \in witness : ~InPrimary(image, reader.query[reader.overlap + 1])

ConsumerInv ==
    /\ bound \in [RemoteLanes -> Regions \cup {NoRegion}]
    /\ status \in [RemoteLanes -> {"Active", "Retired"}]
    /\ table \in [RemoteLanes -> Lanes]
    /\ writer \in Writers
    /\ reader \in Readers
    /\ IsFiniteSet(witness)
    /\ ReaderIsSound

LEMMA IdlesTyped ==
    /\ IdleWriter \in Writers
    /\ IdleReader \in Readers /\ IdleReader.pc = "idle" /\ IdleReader.query = <<>>
    /\ IdleReader.at = 1 /\ IdleReader.overlap = 0
BY EmptyIsLane DEF IdleWriter, IdleReader, Writers, Readers

LEMMA ConsumerInvInit == ConsumerInit => ConsumerInv
<1> SUFFICES ASSUME ConsumerInit PROVE ConsumerInv
  OBVIOUS
<1>1. IsFiniteSet(witness)
  BY FS_EmptySet DEF ConsumerInit
<1>2. ReaderIsSound
  BY IdlesTyped DEF ConsumerInit, ReaderIsSound
<1> QED BY <1>1, <1>2, IdlesTyped, EmptyIsLane DEF ConsumerInit, ConsumerInv

LEMMA ReaderFields ==
    ASSUME reader \in Readers
    PROVE  /\ reader.query \in Seq(Hashes) /\ Len(reader.query) \in Nat
           /\ reader.at \in Nat \ {0} /\ reader.overlap \in Nat /\ reader.lane \subseteq RemoteLanes
BY LenProperties DEF Readers

LEMMA ConsumerInvStep == ConsumerInv /\ [ConsumerNext]_consumerVars => ConsumerInv'
<1> SUFFICES ASSUME ConsumerInv, [ConsumerNext]_consumerVars PROVE ConsumerInv'
  OBVIOUS
<1>t. /\ bound \in [RemoteLanes -> Regions \cup {NoRegion}]
      /\ status \in [RemoteLanes -> {"Active", "Retired"}]
      /\ table \in [RemoteLanes -> Lanes]
      /\ writer \in Writers /\ reader \in Readers /\ IsFiniteSet(witness) /\ ReaderIsSound
  BY DEF ConsumerInv
\* Neither bindings nor statuses nor the choice of a message concern a query.
<1>0. ASSUME bound' \in [RemoteLanes -> Regions \cup {NoRegion}],
             status' \in [RemoteLanes -> {"Active", "Retired"}],
             writer' \in Writers, UNCHANGED <<table, reader, witness>>
      PROVE  ConsumerInv'
  BY <1>0, <1>t DEF ConsumerInv, ReaderIsSound
<1>1. ASSUME NEW l \in RemoteLanes, NEW r \in Regions, AssignRegion(l, r) PROVE ConsumerInv'
  BY <1>0, <1>1, <1>t DEF AssignRegion
<1>2. ASSUME NEW l \in RemoteLanes, UnassignRegion(l) \/ RetireLane(l) \/ ActivateLane(l) PROVE ConsumerInv'
  BY <1>0, <1>2, <1>t DEF UnassignRegion, RetireLane, ActivateLane
<1>3. ASSUME NEW l \in RemoteLanes, NEW image \in Images, BeginSnapshot(l, image) PROVE ConsumerInv'
  <2>1. [pc |-> "snapshot", lane |-> {l}, image |-> image, todo |-> Buckets] \in Writers
    BY ConsumerConfig DEF Writers, Lanes
  <2> QED BY <1>0, <1>3, <1>t, <2>1 DEF BeginSnapshot
<1>4. ASSUME NEW l \in RemoteLanes, NEW image \in Images, NEW dirty \in SUBSET Buckets,
             BeginDelta(l, image, dirty)
      PROVE  ConsumerInv'
  <2>1. [pc |-> "delta", lane |-> {l}, image |-> image, todo |-> dirty] \in Writers
    BY ConsumerConfig DEF Writers, Lanes
  <2> QED BY <1>0, <1>4, <1>t, <2>1 DEF BeginDelta
<1>5. CASE EndWrite
  BY <1>0, <1>5, <1>t, IdlesTyped DEF EndWrite
<1>6. ASSUME NEW i \in Buckets, StoreBucket(i) PROVE ConsumerInv'
  <2>1. writer.image \in Lanes /\ writer.todo \subseteq Buckets
    BY <1>t DEF Writers
  <2>2. table' \in [RemoteLanes -> Lanes]
    BY <1>6, <1>t, <2>1 DEF StoreBucket, Lanes
  <2>3. writer' \in Writers
    BY <1>6, <1>t DEF StoreBucket, Writers
  <2>4. UNCHANGED <<bound, status, reader>>
    BY <1>6 DEF StoreBucket
  <2>5. CASE reader.pc = "probe"
    <3>1. PICK l \in RemoteLanes : reader.lane = {l}
      BY <1>t, <2>5 DEF ReaderIsSound
    <3>2. witness' = witness \cup {table'[l]}
      BY <1>6, <2>5, <3>1 DEF StoreBucket
    <3>3. IsFiniteSet(witness')
      BY <1>t, <3>2, FS_AddElement
    <3>4. ReaderIsSound'
      BY <1>t, <2>4, <2>5, <3>1, <3>2 DEF ReaderIsSound
    <3> QED BY <1>t, <2>2, <2>3, <2>4, <3>3, <3>4 DEF ConsumerInv
  <2>6. CASE reader.pc # "probe"
    <3>1. witness' = witness
      BY <1>6, <2>6 DEF StoreBucket
    <3>2. ReaderIsSound'
      BY <1>t, <2>4, <2>6, <3>1 DEF ReaderIsSound
    <3> QED BY <1>t, <2>2, <2>3, <2>4, <3>1, <3>2 DEF ConsumerInv
  <2> QED BY <2>5, <2>6
<1>7. ASSUME NEW r \in Regions, NEW q \in Queries, QueryStarts(r, q) PROVE ConsumerInv'
  <2>1. PICK l \in RemoteLanes :
          reader' = [pc |-> "status", lane |-> {l}, query |-> q, at |-> 1, overlap |-> 0]
    BY <1>7 DEF QueryStarts, LanesOf
  <2>2. q \in Seq(Hashes) /\ Len(q) \in Nat
    BY ConsumerConfig, LenProperties
  <2>3. reader' \in Readers
    BY <2>1, <2>2 DEF Readers
  <2>4. ReaderIsSound'
    BY <2>1, <2>2 DEF ReaderIsSound
  <2> QED BY <1>7, <1>t, <2>3, <2>4 DEF QueryStarts, ConsumerInv
<1>8. CASE StatusLoaded
  <2>1. PICK l \in RemoteLanes :
          /\ reader.lane = {l}
          /\ reader' = [reader EXCEPT !.pc = IF status[l] = "Active" THEN "probe" ELSE "idle"]
          /\ witness' = IF status[l] = "Active" THEN { table[l] } ELSE {}
    BY <1>8, <1>t DEF StatusLoaded, ReaderIsSound
  <2>2. /\ reader'.lane = {l} /\ reader'.query = reader.query /\ reader'.at = 1
        /\ reader'.overlap = 0 /\ reader' \in Readers
        /\ reader'.pc = IF status[l] = "Active" THEN "probe" ELSE "idle"
    <3> DEFINE p == IF status[l] = "Active" THEN "probe" ELSE "idle"
    <3>1. p \in {"probe", "idle"} /\ reader' = [reader EXCEPT !.pc = p]
      BY <2>1
    <3> HIDE DEF p
    <3>2. /\ reader'.lane = reader.lane /\ reader'.query = reader.query /\ reader'.at = reader.at
          /\ reader'.overlap = reader.overlap /\ reader' \in Readers /\ reader'.pc = p
      BY <1>t, <3>1 DEF Readers
    <3>3. reader.at = 1 /\ reader.overlap < reader.at
      BY <1>8, <1>t DEF StatusLoaded, ReaderIsSound
    <3>4. reader.overlap = 0
      BY <1>t, <3>3, ReaderFields
    <3> QED BY <2>1, <3>2, <3>3, <3>4 DEF p
  <2>3. IsFiniteSet(witness')
    BY <2>1, FS_Singleton, FS_EmptySet
  <2>4. UNCHANGED <<bound, status, table, writer>>
    BY <1>8 DEF StatusLoaded
  <2>5. Len(reader.query) \in Nat
    BY <1>t, ReaderFields
  <2>6. ReaderIsSound'
    BY <2>1, <2>2, <2>4, <2>5 DEF ReaderIsSound
  <2> QED BY <1>t, <2>2, <2>3, <2>4, <2>6 DEF ConsumerInv
<1>9. CASE ProbeHash
  <2> DEFINE n == Len(reader.query)
  <2>1. /\ reader.pc = "probe" /\ reader.at <= n
        /\ UNCHANGED <<bound, status, table, writer, witness>>
    BY <1>9 DEF ProbeHash
  <2>2. PICK l \in RemoteLanes : reader.lane = {l} /\ table[l] \in witness
                             /\ reader' = AfterProbe(InPrimary(table[l], HashAsked))
    BY <1>9, <1>t DEF ProbeHash, ReaderIsSound, InPrimary
  <2>3. /\ n \in Nat /\ reader.at \in Nat \ {0} /\ reader.overlap \in Nat
        /\ reader.overlap = reader.at - 1
    BY <1>t, <2>1, ReaderFields DEF ReaderIsSound
  <2>4. CASE InPrimary(table[l], HashAsked)
    <3> DEFINE a == reader.at + 1
               o == reader.overlap + 1
    <3>1. a \in Nat \ {0} /\ o \in Nat /\ reader' = [reader EXCEPT !.at = a, !.overlap = o]
      BY <2>2, <2>3, <2>4 DEF AfterProbe
    <3> HIDE DEF a, o
    <3>2. /\ reader' \in Readers /\ reader'.pc = "probe" /\ reader'.lane = {l}
          /\ reader'.query = reader.query /\ reader'.at = a /\ reader'.overlap = o
      BY <1>t, <2>1, <2>2, <3>1 DEF Readers
    <3>3. o = reader.at /\ a = o + 1 /\ o <= n
      BY <2>1, <2>3 DEF a, o
    <3>4. \A k \in 1 .. o : \E image \in witness : InPrimary(image, reader.query[k])
      <4>1. ASSUME NEW k \in 1 .. o
            PROVE  \E image \in witness : InPrimary(image, reader.query[k])
        <5>1. CASE k \in 1 .. reader.overlap
          BY <1>t, <2>1, <5>1 DEF ReaderIsSound
        <5>2. CASE k = reader.at
          BY <2>2, <2>4, <5>2 DEF HashAsked
        <5> QED BY <2>3, <3>3, <5>1, <5>2
      <4> QED BY <4>1
    <3>5. ReaderIsSound'
      BY <2>1, <2>2, <2>3, <3>1, <3>2, <3>3, <3>4 DEF ReaderIsSound
    <3> QED BY <1>t, <2>1, <3>2, <3>5 DEF ConsumerInv
  <2>5. CASE ~InPrimary(table[l], HashAsked)
    <3> DEFINE a == n + 1
    <3>1. a \in Nat \ {0} /\ reader' = [reader EXCEPT !.at = a]
      BY <2>2, <2>3, <2>5 DEF AfterProbe
    <3> HIDE DEF a
    <3>2. /\ reader' \in Readers /\ reader'.pc = "probe" /\ reader'.lane = {l}
          /\ reader'.query = reader.query /\ reader'.at = a /\ reader'.overlap = reader.overlap
      BY <1>t, <2>1, <2>2, <3>1 DEF Readers
    <3>3. reader.overlap + 1 = reader.at /\ a = n + 1 /\ reader.overlap < n
      BY <2>1, <2>3 DEF a
    <3>4. \E image \in witness : ~InPrimary(image, reader.query[reader.overlap + 1])
      BY <2>2, <2>5, <3>3 DEF HashAsked
    <3>5. \A k \in 1 .. reader.overlap : \E image \in witness : InPrimary(image, reader.query[k])
      BY <1>t, <2>1 DEF ReaderIsSound
    <3>6. ReaderIsSound'
      BY <2>1, <2>2, <2>3, <3>1, <3>2, <3>3, <3>4, <3>5 DEF ReaderIsSound
    <3> QED BY <1>t, <2>1, <3>2, <3>6 DEF ConsumerInv
  <2> QED BY <2>4, <2>5
<1>10. CASE QueryEnds
  <2>1. reader' = IdleReader /\ witness' = {} /\ UNCHANGED <<bound, status, table, writer>>
    BY <1>10 DEF QueryEnds
  <2>2. IsFiniteSet(witness')
    BY <2>1, FS_EmptySet
  <2>3. ReaderIsSound'
    BY <2>1, IdlesTyped DEF ReaderIsSound
  <2> QED BY <1>t, <2>1, <2>2, <2>3, IdlesTyped DEF ConsumerInv
<1>11. CASE UNCHANGED consumerVars
  BY <1>0, <1>11, <1>t DEF consumerVars
<1> QED
  BY <1>1, <1>2, <1>3, <1>4, <1>5, <1>6, <1>7, <1>8, <1>9, <1>10, <1>11 DEF ConsumerNext

LEMMA ConsumerInvariant == ConsumerSpec => []ConsumerInv
BY ConsumerInvInit, ConsumerInvStep, PTL DEF ConsumerSpec

\* Bindings, statuses, buckets and the message being applied keep their types,
\* and no query finds more blocks than it asks for.
THEOREM ConsumerTyped == ConsumerSpec => []ConsumerTypeOK
<1>1. ConsumerInv => ConsumerTypeOK
  <2> SUFFICES ASSUME ConsumerInv PROVE ConsumerTypeOK
    OBVIOUS
  <2>1. writer.todo \subseteq Buckets
    BY DEF ConsumerInv, Writers
  <2>2. reader.overlap <= Len(reader.query)
    BY ReaderFields DEF ConsumerInv, ReaderIsSound
  <2> QED BY <2>1, <2>2 DEF ConsumerInv, ConsumerTypeOK
<1> QED BY <1>1, ConsumerInvariant, PTL

\* A query that raced no write of its lane answers the exact longest prefix, and
\* one that did counts only blocks the lane held since its status was checked;
\* for any lanes, images and queries, and stores visible in any order.
THEOREM AnswersHaveWitnesses == ConsumerSpec => []AnswersAreWitnessed
<1>1. ConsumerInv => AnswersAreWitnessed
  <2> SUFFICES ASSUME ConsumerInv, reader.pc = "probe" PROVE AnswersAreWitnessed
    BY DEF AnswersAreWitnessed
  <2>1. ReaderIsSound /\ reader \in Readers /\ IsFiniteSet(witness)
    BY DEF ConsumerInv
  <2>2. ASSUME reader.at > Len(reader.query), Cardinality(witness) = 1, NEW image \in witness
        PROVE  PrefixHits(image, reader.query, reader.overlap)
    <3>1. \A other \in witness : other = image
      BY <2>1, <2>2, FS_Singleton
    <3>2. \A k \in 1 .. reader.overlap : InPrimary(image, reader.query[k])
      BY <2>1, <3>1 DEF ReaderIsSound
    <3>3. reader.overlap < Len(reader.query) => ~InPrimary(image, reader.query[reader.overlap + 1])
      BY <2>1, <2>2, <3>1 DEF ReaderIsSound
    <3> QED BY <3>2, <3>3 DEF PrefixHits
  <2> QED BY <2>1, <2>2 DEF AnswersAreWitnessed, ReaderIsSound
<1> QED BY <1>1, ConsumerInvariant, PTL

===============================================================================
