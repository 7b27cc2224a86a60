-------------------------- MODULE CkfRelay_proofs --------------------------
(***************************************************************************)
(* No change of a producer is stranded by the races between apply_event    *)
(* and flush, for any number of ingestion tasks and pools and any          *)
(* publication threshold, zero included.                                   *)
(***************************************************************************)
EXTENDS CkfRelay, CuckooFilter_proofs, SequenceTheorems

\* The part of the state the argument is about.
RelayInv ==
    /\ RelayTypeOK
    /\ producers = [p \in Pools |-> producers[p]]
    /\ NothingStranded

LEMMA RelayInvInit == Init => RelayInv
<1> SUFFICES ASSUME Init PROVE RelayInv
  OBVIOUS
<1>1. RelayTypeOK
  BY DEF Init, RelayTypeOK
<1>2. \A p \in Pools : producers[p].filter.dirty = {}
  BY DEF Init, EmptyProducer, EmptyFilter
<1> QED BY <1>1, <1>2 DEF RelayInv, NothingStranded, Init

\* Publishing a pool leaves it without dirty buckets and the others as they were.
LEMMA PublishCleans ==
    ASSUME NEW kind, NEW p \in Pools, NEW image, Publish(kind, p, image),
           producers = [q \in Pools |-> producers[q]]
    PROVE  /\ producers' = [q \in Pools |-> producers'[q]]
           /\ producers'[p].filter.dirty = {}
           /\ \A q \in Pools : q # p => producers'[q] = producers[q]
           /\ seq \in [Pools -> Nat] => seq' \in [Pools -> Nat]
<1>1. producers' = [producers EXCEPT ![p] = AfterPublish(producers[p])]
  BY DEF Publish
<1>2. AfterPublish(producers[p]).filter.dirty = {}
  BY DEF AfterPublish
<1>3. seq' = [seq EXCEPT ![p] = seq[p] + 1]
  BY DEF Publish
<1> QED BY <1>1, <1>2, <1>3

LEMMA RelayInvStep == RelayInv /\ [Next]_vars => RelayInv'
<1> SUFFICES ASSUME RelayInv, [Next]_vars PROVE RelayInv'
  OBVIOUS
<1> USE RelayConfig
<1>1. ASSUME NEW t \in Ingesters, NEW p \in Pools, Apply(t, p) PROVE RelayInv'
  <2>1. t \in Flushers /\ pc'[t] = "count"
    BY <1>1 DEF Apply, Flushers, RelayInv, RelayTypeOK
  <2>2. RelayTypeOK'
    BY <1>1, <2>1 DEF Apply, RelayInv, RelayTypeOK, receiverVars
  <2>3. \E q : producers' = [producers EXCEPT ![p] = q]
    BY <1>1 DEF Apply
  <2>4. \A q \in Pools : WillVisit(q)'
    BY <2>1 DEF WillVisit
  <2>5. \A q \in Pools : producers'[q].filter.dirty # {} => q \in known'
    BY <1>1, <2>3 DEF Apply, RelayInv, NothingStranded
  <2> QED BY <2>2, <2>3, <2>4, <2>5 DEF RelayInv, NothingStranded
<1>2. ASSUME NEW t \in Flushers, Count(t) PROVE RelayInv'
  <2>1. RelayTypeOK'
    BY <1>2 DEF Count, RelayInv, RelayTypeOK, receiverVars
  <2>2. pending' > 0 /\ producers' = producers /\ known' = known
    BY <1>2 DEF Count, RelayInv, RelayTypeOK
  <2> QED BY <2>1, <2>2 DEF RelayInv, NothingStranded, WillVisit
<1>3. ASSUME NEW t \in Flushers, FlushStarts(t) PROVE RelayInv'
  <2>1. RelayTypeOK'
    BY <1>3 DEF FlushStarts, RelayInv, RelayTypeOK, receiverVars
  <2>2. pc'[t] = "walk" /\ left'[t] = known /\ producers' = producers /\ known' = known
    BY <1>3 DEF FlushStarts, RelayInv, RelayTypeOK
  <2> QED BY <2>1, <2>2 DEF RelayInv, NothingStranded, WillVisit
<1>4. ASSUME NEW t \in Flushers, FlushEnds(t) PROVE RelayInv'
  <2>1. RelayTypeOK'
    BY <1>4 DEF FlushEnds, RelayInv, RelayTypeOK, receiverVars
  <2>2. ASSUME NEW p \in Pools, WillVisit(p) PROVE WillVisit(p)'
    BY <1>4, <2>2 DEF FlushEnds, WillVisit, RelayInv, RelayTypeOK
  <2> QED BY <1>4, <2>1, <2>2 DEF FlushEnds, RelayInv, NothingStranded
<1>5. ASSUME NEW t \in Flushers, NEW p \in Pools, FlushPool(t, p) \/ PassPool(t, p)
      PROVE  RelayInv'
  <2>1. /\ left' = [left EXCEPT ![t] = left[t] \ {p}]
        /\ known' = known /\ pending' = pending /\ pc' = pc /\ fenced' = fenced
        /\ assigned' = assigned /\ active' = active
        /\ pc[t] = "walk"
    BY <1>5 DEF FlushPool, PassPool, Visited, receiverVars
  <2>2. /\ producers' = [q \in Pools |-> producers'[q]]
        /\ producers'[p].filter.dirty = {}
        /\ \A q \in Pools : q # p => producers'[q] = producers[q]
        /\ seq' \in [Pools -> Nat]
    <3>1. CASE FlushPool(t, p)
      BY <3>1, PublishCleans DEF FlushPool, RelayInv, RelayTypeOK
    <3>2. CASE PassPool(t, p)
      BY <3>2 DEF PassPool, RelayInv, RelayTypeOK
    <3> QED BY <1>5, <3>1, <3>2
  <2>3. RelayTypeOK'
    BY <2>1, <2>2 DEF RelayInv, RelayTypeOK
  <2>4. ASSUME NEW q \in Pools, q # p, WillVisit(q) PROVE WillVisit(q)'
    BY <2>1, <2>4 DEF WillVisit, RelayInv, RelayTypeOK
  <2>5. NothingStranded'
    BY <2>1, <2>2, <2>4 DEF RelayInv, NothingStranded
  <2> QED BY <2>2, <2>3, <2>5 DEF RelayInv
<1>6. CASE TimerFires
  <2>1. Timer \in Flushers
    BY DEF Flushers
  <2>2. RelayTypeOK'
    BY <1>6, <2>1 DEF TimerFires, RelayInv, RelayTypeOK, receiverVars
  <2> QED BY <1>6, <2>2 DEF TimerFires, RelayInv, NothingStranded, WillVisit
<1>7. ASSUME NEW p \in Pools, PublishBarrier(p) PROVE RelayInv'
  <2>1. /\ producers' = [q \in Pools |-> producers'[q]]
        /\ producers'[p].filter.dirty = {}
        /\ \A q \in Pools : q # p => producers'[q] = producers[q]
        /\ seq' \in [Pools -> Nat]
    BY <1>7, PublishCleans DEF PublishBarrier, RelayInv, RelayTypeOK
  <2>2. /\ known' = known /\ pending' = pending /\ pc' = pc /\ left' = left
        /\ fenced' = fenced \ {p} /\ assigned' = assigned /\ active' = active
    BY <1>7 DEF PublishBarrier, receiverVars
  <2>3. RelayTypeOK'
    BY <2>1, <2>2 DEF RelayInv, RelayTypeOK
  <2>4. NothingStranded'
    BY <2>1, <2>2 DEF RelayInv, NothingStranded, WillVisit
  <2> QED BY <2>1, <2>3, <2>4 DEF RelayInv
<1>8. ASSUME UNCHANGED senderVars, assigned' \in BOOLEAN, active' \in BOOLEAN PROVE RelayInv'
  BY <1>8 DEF senderVars, RelayInv, RelayTypeOK, NothingStranded, WillVisit
<1>9. CASE AssignLane
  BY <1>8, <1>9 DEF AssignLane, RelayInv, RelayTypeOK
<1>10. ASSUME NEW m \in net,
              Lose(m) \/ DropUnassigned(m) \/ InstallSnapshot(m) \/ ApplyDelta(m)
       PROVE  RelayInv'
  BY <1>8, <1>10 DEF Lose, DropUnassigned, InstallSnapshot, ApplyDelta, receiverVars,
                     RelayInv, RelayTypeOK
<1>11. CASE UNCHANGED vars
  BY <1>8, <1>11 DEF vars, receiverVars, RelayInv, RelayTypeOK
<1> QED BY <1>1, <1>2, <1>3, <1>4, <1>5, <1>6, <1>7, <1>9, <1>10, <1>11 DEF Next, Flush

\* A pool with unpublished buckets is always announced: flush() may reset the
\* pending counter under the feet of concurrent apply_event calls, but then it
\* still has that pool to visit, or the event is still to be counted.
THEOREM RelayStrandsNothing == Spec => [](RelayTypeOK /\ NothingStranded)
<1>1. RelayInv => RelayTypeOK /\ NothingStranded
  BY DEF RelayInv
<1> QED BY <1>1, RelayInvInit, RelayInvStep, PTL DEF Spec

\* Known pools, sequence numbers, the counter of pending pools and the flush
\* tasks keep their types, and only a flush under way has pools left to visit.
THEOREM RelayTyped == Spec => []RelayTypeOK
BY RelayStrandsNothing, PTL

-----------------------------------------------------------------------------
(* Delivery in order.                                                         *)

\* A pool's producer is sound, its sequence number counts its publications, and
\* unless it was reset every bucket that is not dirty is as last published.
PoolInv(p) ==
    /\ GoodProducer(producers[p])
    /\ images[p] \in Seq(Lanes) /\ seq[p] = Len(images[p])
    /\ p \notin fenced /\ Len(images[p]) > 0 =>
         \A i \in Buckets \ producers[p].filter.dirty :
             producers[p].filter.buckets[i] = images[p][Len(images[p])][i]

\* A message carries the publication of its number: all of its buckets, or, in
\* an unfenced delta, at least those that differ from the one before.
MessageInv(m, published) ==
    /\ m.kind \in {"snapshot", "delta"}
    /\ m.pool \in Pools
    /\ m.sequence \in 1 .. Len(published[m.pool]) /\ m.prev = m.sequence - 1
    /\ m.kind = "snapshot" => m.image = published[m.pool][m.sequence]
    /\ m.kind = "delta" =>
         /\ DOMAIN m.image \subseteq Buckets
         /\ \A i \in DOMAIN m.image : m.image[i] = published[m.pool][m.sequence][i]
         /\ ~m.fenced /\ m.prev > 0 =>
              \A i \in Buckets \ DOMAIN m.image :
                  published[m.pool][m.sequence][i] = published[m.pool][m.prev][i]

RunInv ==
    \/ aligned = NoRun
    \/ \E p \in Pools, n \in Nat :
         /\ aligned = RunOf(p, n) /\ n \in 1 .. Len(images[p]) /\ lane = images[p][n]

DeliveryInv ==
    /\ producers = [p \in Pools |-> producers[p]]
    /\ seq = [p \in Pools |-> seq[p]]
    /\ images = [p \in Pools |-> images[p]]
    /\ \A p \in Pools : PoolInv(p)
    /\ \A m \in net : MessageInv(m, images)
    /\ RunInv

LEMMA DeliveryInvInit == Init => DeliveryInv
<1> SUFFICES ASSUME Init PROVE DeliveryInv
  OBVIOUS
<1>1. ASSUME NEW p \in Pools PROVE PoolInv(p)
  <2>1. producers[p] = EmptyProducer /\ images[p] = <<>> /\ seq[p] = 0
    BY DEF Init
  <2> QED BY <2>1, EmptyIsGood DEF PoolInv
<1> QED BY <1>1 DEF Init, DeliveryInv, RunInv

\* What one event makes of a producer.
LEMMA EventIsGood ==
    ASSUME NEW p, GoodProducer(p), NEW q \in AfterEvent(p)
    PROVE  GoodProducer(q) /\ Follows(p.filter, q.filter)
<1>1. \/ \E h \in Hashes, b \in Backends : q \in AfterStored(p, h, b)
      \/ \E h \in Hashes, b \in Backends : q = AfterRemoved(p, h, b)
      \/ \E b \in Backends : q = AfterClear(p, b)
  BY DEF AfterEvent
<1> QED BY <1>1, StoredIsGood, RemovedIsGood, ClearIsGood

\* Publishing appends to the images of one pool and changes no earlier one.
LEMMA ImagesGrow ==
    ASSUME NEW s \in Seq(Lanes), NEW image \in Lanes
    PROVE  /\ Append(s, image) \in Seq(Lanes)
           /\ Len(s) \in Nat /\ Len(Append(s, image)) = Len(s) + 1
           /\ Append(s, image)[Len(s) + 1] = image
           /\ \A n \in 1 .. Len(s) : Append(s, image)[n] = s[n]
OBVIOUS

\* The histories of the images are longer than before, or the same.
Grown == \A p \in Pools : /\ Len(images[p]) \in Nat /\ Len(images'[p]) \in Nat
                          /\ Len(images[p]) <= Len(images'[p])
                          /\ \A n \in 1 .. Len(images[p]) : images'[p][n] = images[p][n]

LEMMA GrownKeepsMessages ==
    ASSUME Grown, NEW m, MessageInv(m, images) PROVE MessageInv(m, images')
<1> DEFINE p == m.pool
           n == m.sequence
<1>1. p \in Pools /\ n \in 1 .. Len(images[p]) /\ m.prev = n - 1
  BY DEF MessageInv
<1>2. /\ Len(images[p]) \in Nat /\ Len(images'[p]) \in Nat /\ Len(images[p]) <= Len(images'[p])
      /\ \A k \in 1 .. Len(images[p]) : images'[p][k] = images[p][k]
  BY <1>1 DEF Grown
<1>3. n \in 1 .. Len(images'[p]) /\ images'[p][n] = images[p][n]
  BY <1>1, <1>2
<1>4. m.prev > 0 => images'[p][m.prev] = images[p][m.prev]
  BY <1>1, <1>2
<1> QED BY <1>1, <1>3, <1>4 DEF MessageInv

LEMMA GrownKeepsRun ==
    ASSUME Grown, RunInv, lane' = lane, aligned' = aligned PROVE RunInv'
<1>1. CASE aligned = NoRun
  BY <1>1 DEF RunInv
<1>2. ASSUME NEW p \in Pools, NEW n \in Nat, aligned = RunOf(p, n),
             n \in 1 .. Len(images[p]), lane = images[p][n]
      PROVE  RunInv'
  <2>1. n \in 1 .. Len(images'[p]) /\ lane' = images'[p][n]
    BY <1>2 DEF Grown
  <2> QED BY <1>2, <2>1 DEF RunInv
<1> QED BY <1>1, <1>2 DEF RunInv

\* A publication: the pool's new image is the last of its images, and the
\* message about it is true of them.
LEMMA PublishDelivers ==
    ASSUME DeliveryInv, NEW p \in Pools, NEW kind \in {"snapshot", "delta"}, NEW image,
           Publish(kind, p, image), lane' = lane, aligned' = aligned,
           \A q \in Pools : q # p /\ q \notin fenced' => q \notin fenced,
           kind = "snapshot" => image = producers[p].filter.buckets,
           kind = "delta" =>
               /\ fenced' = fenced
               /\ image = [i \in producers[p].filter.dirty |-> producers[p].filter.buckets[i]]
    PROVE  DeliveryInv'
<1> DEFINE old == producers[p]
           new == AfterPublish(old)
           now == old.filter.buckets
           s == images[p]
           N == Len(s)
           m == Message(kind, p, image)
<1>1. /\ producers' = [producers EXCEPT ![p] = new] /\ seq' = [seq EXCEPT ![p] = seq[p] + 1]
      /\ images' = [images EXCEPT ![p] = Append(s, now)] /\ net' = net \cup {m}
  BY DEF Publish
<1>2. GoodProducer(old) /\ s \in Seq(Lanes) /\ seq[p] = N
  BY DEF DeliveryInv, PoolInv
<1>3. now \in Lanes /\ old.filter.dirty \in SUBSET Buckets
  BY <1>2 DEF GoodProducer, Sound, Filters
<1>4. GoodProducer(new) /\ new.filter.buckets = now /\ new.filter.dirty = {}
  BY <1>2, PublishedIsGood
<1>5. /\ Append(s, now) \in Seq(Lanes) /\ N \in Nat /\ Len(Append(s, now)) = N + 1
      /\ Append(s, now)[N + 1] = now /\ \A n \in 1 .. N : Append(s, now)[n] = s[n]
  BY <1>2, <1>3, ImagesGrow
<1>6. /\ m.kind = kind /\ m.pool = p /\ m.sequence = N + 1 /\ m.prev = N
      /\ m.image = image /\ m.fenced = (p \in fenced)
  BY <1>2 DEF Message
<1>d. /\ producers = [q \in Pools |-> producers[q]] /\ seq = [q \in Pools |-> seq[q]]
      /\ images = [q \in Pools |-> images[q]]
  BY DEF DeliveryInv
<1> DEFINE grown == Append(s, now)
<1> HIDE DEF new, now, m, grown, old
<1>7. /\ producers'[p] = new /\ seq'[p] = seq[p] + 1 /\ images'[p] = grown
      /\ \A q \in Pools : q # p =>
           producers'[q] = producers[q] /\ seq'[q] = seq[q] /\ images'[q] = images[q]
      /\ producers' = [q \in Pools |-> producers'[q]] /\ seq' = [q \in Pools |-> seq'[q]]
      /\ images' = [q \in Pools |-> images'[q]]
  BY <1>1, <1>d DEF grown
<1>8. /\ grown \in Seq(Lanes) /\ Len(grown) = N + 1 /\ grown[N + 1] = now
      /\ \A n \in 1 .. N : grown[n] = s[n]
  BY <1>5 DEF grown
<1>9. Grown
  <2> SUFFICES ASSUME NEW q \in Pools
               PROVE  /\ Len(images[q]) \in Nat /\ Len(images'[q]) \in Nat
                      /\ Len(images[q]) <= Len(images'[q])
                      /\ \A n \in 1 .. Len(images[q]) : images'[q][n] = images[q][n]
    BY DEF Grown
  <2>1. images[q] \in Seq(Lanes)
    BY DEF DeliveryInv, PoolInv
  <2>2. Len(images[q]) \in Nat
    BY <2>1, LenProperties
  <2>3. CASE q # p
    BY <1>7, <2>2, <2>3
  <2>4. CASE q = p
    BY <1>5, <1>7, <1>8, <2>4
  <2> QED BY <2>3, <2>4
<1>10. ASSUME NEW q \in Pools PROVE PoolInv(q)'
  <2>1. CASE q # p
    BY <1>7, <2>1 DEF DeliveryInv, PoolInv, GoodProducer, OwnershipInv
  <2>2. CASE q = p
    <3>1. GoodProducer(producers'[p]) /\ images'[p] \in Seq(Lanes) /\ seq'[p] = Len(images'[p])
      BY <1>2, <1>4, <1>7, <1>8
    <3>2. producers'[p].filter.buckets = images'[p][Len(images'[p])]
      BY <1>4, <1>5, <1>7, <1>8
    <3> QED BY <2>2, <3>1, <3>2 DEF PoolInv, GoodProducer, OwnershipInv
  <2> QED BY <2>1, <2>2
<1>11. MessageInv(m, images')
  <2>1. m.sequence \in 1 .. Len(images'[p]) /\ m.prev = m.sequence - 1
    BY <1>5, <1>6, <1>7, <1>8
  <2>2. images'[p][m.sequence] = now
    BY <1>6, <1>7, <1>8
  <2>3. CASE kind = "snapshot"
    BY <1>6, <2>1, <2>2, <2>3 DEF MessageInv, now, old
  <2>4. CASE kind = "delta"
    <3>1. image = [i \in old.filter.dirty |-> now[i]]
      BY <2>4 DEF now, old
    <3>2. DOMAIN m.image = old.filter.dirty /\ \A i \in DOMAIN m.image : m.image[i] = now[i]
      BY <1>6, <3>1
    <3>3. ASSUME ~m.fenced, m.prev > 0, NEW i \in Buckets \ old.filter.dirty
          PROVE  now[i] = images'[p][m.prev][i]
      <4>1. p \notin fenced /\ N > 0
        BY <1>6, <3>3
      <4>2. now[i] = s[N][i]
        BY <4>1, <3>3 DEF DeliveryInv, PoolInv, now, old
      <4>3. images'[p][m.prev] = s[N]
        BY <1>5, <1>6, <1>7, <1>8, <4>1
      <4> QED BY <4>2, <4>3
    <3> QED BY <1>3, <1>6, <2>1, <2>2, <2>4, <3>2, <3>3 DEF MessageInv
  <2> QED BY <2>3, <2>4
<1>12. ASSUME NEW x \in net' PROVE MessageInv(x, images')
  <2>1. CASE x = m
    BY <1>11, <2>1
  <2>2. CASE x # m
    <3>1. MessageInv(x, images)
      BY <1>1, <2>2 DEF DeliveryInv
    <3> QED BY <1>9, <3>1, GrownKeepsMessages
  <2> QED BY <2>1, <2>2
<1>13. RunInv'
  BY <1>9, GrownKeepsRun DEF DeliveryInv
<1> QED BY <1>7, <1>10, <1>12, <1>13 DEF DeliveryInv

\* Steps that publish nothing: one producer changes, or none.
LEMMA QuietDelivers ==
    ASSUME DeliveryInv, UNCHANGED <<seq, images, fenced, net, lane, aligned, producers>>
    PROVE  DeliveryInv'
BY DEF DeliveryInv, PoolInv, MessageInv, RunInv, GoodProducer, OwnershipInv

LEMMA ApplyDelivers ==
    ASSUME DeliveryInv, NEW t \in Ingesters, NEW p \in Pools, Apply(t, p)
    PROVE  DeliveryInv'
<1>u. /\ seq' = seq /\ images' = images /\ net' = net /\ lane' = lane /\ aligned' = aligned
      /\ fenced \subseteq fenced'
  BY DEF Apply, receiverVars
<1>g. GoodProducer(producers[p])
  BY DEF DeliveryInv, PoolInv
<1>1. PICK q : /\ producers' = [producers EXCEPT ![p] = q] /\ GoodProducer(q)
               /\ \/ fenced' = fenced /\ Follows(producers[p].filter, q.filter)
                  \/ p \in fenced'
  <2>1. CASE \E q \in AfterEvent(producers[p]) :
               producers' = [producers EXCEPT ![p] = q] /\ fenced' = fenced
    BY <1>g, <2>1, EventIsGood
  <2>2. CASE producers' = [producers EXCEPT ![p] = EmptyProducer] /\ fenced' = fenced \cup {p}
    BY <2>2, EmptyIsGood
  <2> QED BY <2>1, <2>2 DEF Apply, AfterReset
<1>2. /\ producers' = [r \in Pools |-> producers'[r]] /\ producers'[p] = q
      /\ \A r \in Pools : r # p => producers'[r] = producers[r]
  <2>1. producers = [r \in Pools |-> producers[r]]
    BY DEF DeliveryInv
  <2> QED BY <1>1, <2>1
<1>3. ASSUME NEW r \in Pools PROVE PoolInv(r)'
  <2>0. images[r] \in Seq(Lanes) /\ seq[r] = Len(images[r])
    BY DEF DeliveryInv, PoolInv
  <2>1. CASE r # p
    BY <1>u, <1>2, <2>1 DEF DeliveryInv, PoolInv, GoodProducer, OwnershipInv
  <2>2. CASE r = p /\ p \notin fenced'
    <3>1. p \notin fenced /\ Follows(producers[p].filter, q.filter)
      BY <1>1, <1>u, <2>2
    <3>2. ASSUME Len(images[p]) > 0
          PROVE  \A i \in Buckets \ q.filter.dirty : q.filter.buckets[i] = images[p][Len(images[p])][i]
      <4>1. \A i \in Buckets \ producers[p].filter.dirty :
              producers[p].filter.buckets[i] = images[p][Len(images[p])][i]
        BY <3>1, <3>2 DEF DeliveryInv, PoolInv
      <4> QED BY <3>1, <4>1, FollowerKeepsDirty
    <3> QED BY <1>u, <1>1, <1>2, <2>0, <2>2, <3>2 DEF PoolInv, GoodProducer, OwnershipInv
  <2>3. CASE r = p /\ p \in fenced'
    BY <1>u, <1>1, <1>2, <2>0, <2>3 DEF PoolInv, GoodProducer, OwnershipInv
  <2> QED BY <2>1, <2>2, <2>3
<1>4. \A m \in net' : MessageInv(m, images')
  BY <1>u DEF DeliveryInv, MessageInv
<1>5. RunInv'
  BY <1>u DEF DeliveryInv, RunInv
<1> QED BY <1>u, <1>2, <1>3, <1>4, <1>5 DEF DeliveryInv

\* The receiver: the lane after a step is what the run says.
LEMMA ReceiverDelivers ==
    ASSUME DeliveryInv, UNCHANGED <<producers, seq, images, fenced>>, net' \subseteq net, RunInv'
    PROVE  DeliveryInv'
BY DEF DeliveryInv, PoolInv, MessageInv, GoodProducer, OwnershipInv

LEMMA SameRun == \A p, q, n, k : RunOf(p, n) = RunOf(q, k) => p = q /\ n = k
<1> SUFFICES ASSUME NEW p, NEW q, NEW n, NEW k, RunOf(p, n) = RunOf(q, k) PROVE p = q /\ n = k
  OBVIOUS
<1>1. RunOf(p, n).pool = {p} /\ RunOf(q, k).pool = {q} /\ RunOf(p, n).at = n /\ RunOf(q, k).at = k
  BY DEF RunOf
<1> QED BY <1>1

LEMMA RunIsSomewhere == \A p, n : RunOf(p, n) # NoRun
<1> SUFFICES ASSUME NEW p, NEW n PROVE RunOf(p, n).pool # NoRun.pool
  OBVIOUS
<1> QED BY DEF RunOf, NoRun

LEMMA InstallDelivers ==
    ASSUME DeliveryInv, NEW m \in net, InstallSnapshot(m) PROVE DeliveryInv'
<1>1. MessageInv(m, images)
  BY DEF DeliveryInv
<1>2. /\ m.pool \in Pools /\ m.sequence \in 1 .. Len(images[m.pool])
      /\ m.image = images[m.pool][m.sequence]
  BY <1>1 DEF MessageInv, InstallSnapshot
<1>3. /\ aligned' = RunOf(m.pool, m.sequence) /\ lane' = m.image /\ images' = images
      /\ net' \subseteq net /\ UNCHANGED <<producers, seq, images, fenced>>
  BY DEF InstallSnapshot, senderVars
<1>4. m.sequence \in Nat
  BY <1>2
<1>5. RunInv'
  BY <1>2, <1>3, <1>4 DEF RunInv
<1> QED BY <1>3, <1>5, ReceiverDelivers

LEMMA DeltaDelivers ==
    ASSUME DeliveryInv, NEW m \in net, ApplyDelta(m) PROVE DeliveryInv'
<1> DEFINE p == m.pool
           n == m.sequence
<1>1. MessageInv(m, images)
  BY DEF DeliveryInv
<1>2. /\ p \in Pools /\ n \in 1 .. Len(images[p]) /\ m.prev = n - 1
      /\ DOMAIN m.image \subseteq Buckets
      /\ \A i \in DOMAIN m.image : m.image[i] = images[p][n][i]
      /\ ~m.fenced /\ m.prev > 0 =>
           \A i \in Buckets \ DOMAIN m.image : images[p][n][i] = images[p][m.prev][i]
  BY <1>1 DEF MessageInv, ApplyDelta
<1>3. /\ lane' = StoreImage(m) /\ images' = images /\ net' \subseteq net
      /\ UNCHANGED <<producers, seq, images, fenced>>
      /\ aligned' = IF aligned = RunOf(p, m.prev) /\ ~m.fenced THEN RunOf(p, n) ELSE NoRun
  BY DEF ApplyDelta, senderVars
<1>4. RunInv'
  <2>1. CASE aligned = RunOf(p, m.prev) /\ ~m.fenced
    <3>1. m.prev \in 1 .. Len(images[p]) /\ lane = images[p][m.prev]
      <4>1. PICK q \in Pools, k \in Nat :
              aligned = RunOf(q, k) /\ k \in 1 .. Len(images[q]) /\ lane = images[q][k]
        BY <2>1, RunIsSomewhere DEF DeliveryInv, RunInv
      <4>2. q = p /\ k = m.prev
        <5>1. RunOf(q, k) = RunOf(m.pool, m.prev)
          BY <2>1, <4>1
        <5> QED BY <5>1, SameRun, Zenon
      <4> QED BY <4>1, <4>2
    <3>2. images[p] \in Seq(Lanes)
      BY <1>2 DEF DeliveryInv, PoolInv
    <3>3. images[p][n] \in Lanes
      BY <1>2, <3>2, ElementOfSeq
    <3>4. m.prev > 0
      BY <3>1
    <3>5. ASSUME NEW i \in Buckets PROVE StoreImage(m)[i] = images[p][n][i]
      <4>1. CASE i \in DOMAIN m.image
        BY <1>2, <4>1 DEF StoreImage
      <4>2. CASE i \notin DOMAIN m.image
        BY <1>2, <2>1, <3>1, <3>4, <4>2 DEF StoreImage
      <4> QED BY <4>1, <4>2
    <3>6. StoreImage(m) = images[p][n]
      <4>1. StoreImage(m) = [i \in Buckets |-> StoreImage(m)[i]]
        BY DEF StoreImage
      <4>2. images[p][n] = [i \in Buckets |-> images[p][n][i]]
        BY <3>3 DEF Lanes
      <4> QED BY <3>5, <4>1, <4>2
    <3>7. n \in Nat /\ aligned' = RunOf(p, n) /\ lane' = images'[p][n] /\ n \in 1 .. Len(images'[p])
      BY <1>2, <1>3, <2>1, <3>6
    <3> QED BY <1>2, <3>7 DEF RunInv
  <2>2. CASE ~(aligned = RunOf(p, m.prev) /\ ~m.fenced)
    BY <1>3, <2>2 DEF RunInv
  <2> QED BY <2>1, <2>2
<1> QED BY <1>3, <1>4, ReceiverDelivers

LEMMA DeliveryInvStep == DeliveryInv /\ [Next]_vars => DeliveryInv'
<1> SUFFICES ASSUME DeliveryInv, [Next]_vars PROVE DeliveryInv'
  OBVIOUS
<1>1. ASSUME NEW t \in Ingesters, NEW p \in Pools, Apply(t, p) PROVE DeliveryInv'
  BY <1>1, ApplyDelivers
<1>2. ASSUME NEW t \in Flushers, Count(t) \/ FlushStarts(t) \/ FlushEnds(t) PROVE DeliveryInv'
  BY <1>2, QuietDelivers DEF Count, FlushStarts, FlushEnds, receiverVars
<1>3. ASSUME NEW t \in Flushers, NEW p \in Pools, PassPool(t, p) PROVE DeliveryInv'
  BY <1>3, QuietDelivers DEF PassPool, receiverVars
<1>4. ASSUME NEW t \in Flushers, NEW p \in Pools, FlushPool(t, p) PROVE DeliveryInv'
  <2> DEFINE image == [i \in producers[p].filter.dirty |-> producers[p].filter.buckets[i]]
  <2>1. Publish("delta", p, image) /\ lane' = lane /\ aligned' = aligned /\ fenced' = fenced
    BY <1>4 DEF FlushPool, receiverVars
  <2> QED BY <2>1, PublishDelivers
<1>5. CASE TimerFires
  BY <1>5, QuietDelivers DEF TimerFires, receiverVars
<1>6. ASSUME NEW p \in Pools, PublishBarrier(p) PROVE DeliveryInv'
  <2>1. /\ Publish("snapshot", p, producers[p].filter.buckets)
        /\ lane' = lane /\ aligned' = aligned /\ fenced' = fenced \ {p}
    BY <1>6 DEF PublishBarrier, receiverVars
  <2> QED BY <2>1, PublishDelivers
<1>7. CASE AssignLane
  BY <1>7, QuietDelivers DEF AssignLane, senderVars
<1>8. ASSUME NEW m \in net, Lose(m) \/ DropUnassigned(m) PROVE DeliveryInv'
  <2>1. UNCHANGED <<producers, seq, images, fenced>> /\ net' \subseteq net
        /\ lane' = lane /\ aligned' = aligned
    BY <1>8 DEF Lose, DropUnassigned, senderVars, receiverVars
  <2>2. RunInv'
    BY <2>1 DEF DeliveryInv, RunInv
  <2> QED BY <2>1, <2>2, ReceiverDelivers
<1>9. ASSUME NEW m \in net, InstallSnapshot(m) PROVE DeliveryInv'
  BY <1>9, InstallDelivers
<1>10. ASSUME NEW m \in net, ApplyDelta(m) PROVE DeliveryInv'
  BY <1>10, DeltaDelivers
<1>11. CASE UNCHANGED vars
  BY <1>11, QuietDelivers DEF vars, senderVars, receiverVars
<1> QED BY <1>1, <1>2, <1>3, <1>4, <1>5, <1>6, <1>7, <1>8, <1>9, <1>10, <1>11 DEF Next, Flush

\* A receiver that installed a snapshot of a pool and then applied that pool's
\* deltas each on its prev_sequence has exactly the buckets the producer had at
\* that publication, however events, flushes and barriers interleaved.
THEOREM InOrderIsExact == Spec => []AlignedLaneIsExact
<1>1. ASSUME DeliveryInv PROVE AlignedLaneIsExact
  <2> SUFFICES ASSUME NEW p \in aligned.pool
               PROVE  aligned.at \in DOMAIN images[p] /\ lane = images[p][aligned.at]
    BY DEF AlignedLaneIsExact
  <2>1. aligned # NoRun
    BY DEF NoRun
  <2>2. PICK q \in Pools, n \in Nat :
          aligned = RunOf(q, n) /\ n \in 1 .. Len(images[q]) /\ lane = images[q][n]
    BY <1>1, <2>1 DEF DeliveryInv, RunInv
  <2>3. p = q /\ aligned.at = n
    BY <2>2 DEF RunOf
  <2>4. images[q] \in Seq(Lanes)
    BY <1>1 DEF DeliveryInv, PoolInv
  <2>5. DOMAIN images[q] = 1 .. Len(images[q])
    BY <2>4, LenProperties
  <2> QED BY <2>2, <2>3, <2>5
<1> QED BY <1>1, DeliveryInvInit, DeliveryInvStep, PTL DEF Spec

=============================================================================
