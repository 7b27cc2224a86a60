--------------------------- MODULE Services_proofs ---------------------------
(***************************************************************************)
(* The components beside the request pipeline, each for any number of      *)
(* backends, clients, tenants or instances: the shared store's locks, the  *)
(* lanes of the local index, the tenants' rate limits, the metadata that   *)
(* instances exchange, the adaptive weights, and what the connectors hand  *)
(* on of a backend's answer.                                               *)
(***************************************************************************)
EXTENDS LocalIndex, TenantScheduler, SharedState, AdaptiveWeights, MetaSync, Connectors,
        CuckooFilter_proofs, SequenceTheorems

-----------------------------------------------------------------------------
(* Locks of the shared store.                                               *)

-----------------------------------------------------------------------------
(* The invariant.                                                            *)

\* The clocks and times involved are numbers.
TimesAreNumbers ==
    /\ clock \in Nat
    /\ holds \in [Clients -> [Locks -> Nat]]
    /\ \A k \in DOMAIN lock : lock[k].until \in Nat

\* A call of try_lock() under way works with an instant already past.
CallsArePast ==
    /\ DOMAIN client = Clients
    /\ \A c \in Clients : client[c].pc = "lock" =>
        client[c].k \in Locks /\ client[c].ttl \in Nat
        /\ client[c].now \in Nat /\ client[c].now <= clock

\* A hold with more left than truncation can cost is in the store, for as long
\* but for that.
HoldsAreStored ==
    \A c \in Clients, k \in Locks : holds[c][k] > clock + Truncated =>
        k \in DOMAIN lock /\ lock[k].holder = c /\ holds[c][k] <= lock[k].until + Truncated

LockInv == TimesAreNumbers /\ CallsArePast /\ HoldsAreStored

-----------------------------------------------------------------------------

\* Dividing by the length of a second loses less than a second.
LEMMA WholeSeconds ==
    ASSUME NEW t \in Nat
    PROVE  /\ AsSecs(t) \in Nat
           /\ Sec * AsSecs(t) \in Nat /\ Sec * AsSecs(t) <= t /\ t <= Sec * AsSecs(t) + Sec - 1
<1>1. Sec \in Nat \ {0}
  BY SharedAssumption
<1>2. t \div Sec \in Nat
  BY <1>1
<1>3. t - Sec < Sec * (t \div Sec) /\ Sec * (t \div Sec) <= t
  BY <1>1
<1>4. Sec * (t \div Sec) \in Nat
  BY <1>1, <1>2
<1>. QED  BY <1>1, <1>2, <1>3, <1>4 DEF AsSecs

\* An entry written at `at` lasts for its time to live, but for the fractions
\* that are dropped.
LEMMA ExpiryCovers ==
    ASSUME NEW at \in Nat, NEW ttl \in Nat
    PROVE  Expiry(at, ttl) \in Nat /\ at + ttl <= Expiry(at, ttl) + Truncated
<1>. DEFINE x == AsSecs(at)
            y == AsSecs(ttl)
<1>1. Sec \in Nat \ {0}
  BY SharedAssumption
<1>2. /\ x \in Nat /\ Sec * x \in Nat /\ at <= Sec * x + Sec - 1
      /\ y \in Nat /\ Sec * y \in Nat /\ ttl <= Sec * y + Sec - 1
  BY WholeSeconds
<1>3. Sec * (x + y) = Sec * x + Sec * y
  BY <1>1, <1>2
<1>4. y = 0 => Sec * y = 0
  BY <1>1
<1>5. Sec * 1 = Sec
  BY <1>1
<1>6. CASE kind = "local"
  <2>1. Expiry(at, ttl) = Sec * x + Sec * y
    BY <1>3, <1>6 DEF Expiry
  <2>. HIDE DEF x, y
  <2>. QED  BY <1>1, <1>2, <2>1 DEF Truncated
<1>7. CASE kind # "local"
  <2>1. Expiry(at, ttl) = at + (IF y > 0 THEN Sec * y ELSE Sec)
    BY <1>5, <1>7 DEF Expiry
  <2>. HIDE DEF x, y
  <2>. QED  BY <1>1, <1>2, <1>4, <2>1 DEF Truncated
<1>. QED  BY <1>6, <1>7

\* A hold that lasts is that of the store's holder, so two of them agree.
LEMMA StoredHoldsExclude == LockInv => LockExclusive
BY DEF LockInv, HoldsAreStored, LockExclusive

LEMMA TruncatedIsNumber == Truncated \in Nat
BY SharedAssumption DEF Truncated

LEMMA LockInitially == SharedInit => LockInv
<1>. SUFFICES ASSUME SharedInit PROVE LockInv
  OBVIOUS
<1>1. TimesAreNumbers
  BY DEF SharedInit, TimesAreNumbers
<1>2. CallsArePast
  BY DEF SharedInit, CallsArePast, NoCall
<1>3. HoldsAreStored
  BY TruncatedIsNumber DEF SharedInit, HoldsAreStored
<1>. QED  BY <1>1, <1>2, <1>3 DEF LockInv

\* What leaves locks, holds and the clock alone, and starts no try_lock(),
\* keeps the invariant: all the operations on entries.
LEMMA EntriesKeepLocks ==
    ASSUME LockInv, UNCHANGED <<lock, holds, clock>>,
           DOMAIN client' = Clients,
           \A c \in Clients : client'[c].pc = "lock" => client'[c] = client[c]
    PROVE  LockInv'
<1>1. TimesAreNumbers'
  BY DEF LockInv, TimesAreNumbers
<1>2. CallsArePast'
  BY DEF LockInv, CallsArePast
<1>3. HoldsAreStored'
  BY DEF LockInv, HoldsAreStored
<1>. QED  BY <1>1, <1>2, <1>3 DEF LockInv

\* A call that has just read the clock works with an instant not in the future.
LEMMA TryLockKeeps ==
    ASSUME LockInv, NEW c \in Clients, NEW k \in Locks, NEW ttl \in Ttls, TryLock(c, k, ttl)
    PROVE  LockInv'
<1>1. TimesAreNumbers'
  BY DEF LockInv, TimesAreNumbers, TryLock
<1>2. CallsArePast'
  BY SharedAssumption DEF LockInv, CallsArePast, TimesAreNumbers, TryLock
<1>3. HoldsAreStored'
  BY DEF LockInv, HoldsAreStored, TryLock
<1>. QED  BY <1>1, <1>2, <1>3 DEF LockInv

\* The heart of the matter: what is taken over had expired, by the caller's
\* instant and hence by the clock, or was the caller's own; so no other hold on
\* this lock lasts, and the new entry covers the caller's.
LEMMA AcquireKeeps ==
    ASSUME LockInv, NEW c \in Clients, Acquire(c)
    PROVE  LockInv'
<1>. DEFINE q     == client[c]
            from  == IF kind = "local" THEN q.now ELSE clock
            until == Expiry(from, q.ttl)
            hold  == q.now + q.ttl
<1>1. /\ q.k \in Locks /\ q.ttl \in Nat /\ q.now \in Nat /\ q.now <= clock
      /\ Obtainable(c, q)
      /\ lock' = With(lock, q.k, [holder |-> c, until |-> until])
      /\ \/ holds' = [holds EXCEPT ![c][q.k] = hold]
         \/ kind = "redis" /\ holds' = holds
      /\ client' = [client EXCEPT ![c] = NoCall]
      /\ clock' = clock
  BY DEF Acquire, LockInv, CallsArePast
<1>2. clock \in Nat /\ from \in Nat /\ q.now <= from
  BY <1>1 DEF LockInv, TimesAreNumbers
<1>. HIDE DEF from
<1>3. /\ clock \in Nat /\ until \in Nat /\ hold \in Nat /\ Truncated \in Nat
      /\ hold <= until + Truncated
  BY <1>1, <1>2, ExpiryCovers, TruncatedIsNumber
<1>. HIDE DEF until, hold
<1>4. /\ DOMAIN lock' = DOMAIN lock \cup {q.k}
      /\ lock'[q.k] = [holder |-> c, until |-> until]
      /\ \A k \in DOMAIN lock : k # q.k => lock'[k] = lock[k]
  BY <1>1 DEF With
<1>5. TimesAreNumbers'
  <2>1. \A k \in DOMAIN lock' : lock'[k].until \in Nat
    BY <1>3, <1>4 DEF LockInv, TimesAreNumbers
  <2>2. holds' \in [Clients -> [Locks -> Nat]]
    BY <1>1, <1>3 DEF LockInv, TimesAreNumbers
  <2>. QED  BY <1>1, <2>1, <2>2 DEF LockInv, TimesAreNumbers
<1>6. CallsArePast'
  BY <1>1 DEF LockInv, CallsArePast, NoCall
<1>7. HoldsAreStored'
  <2>. SUFFICES ASSUME NEW d \in Clients, NEW k \in Locks, holds'[d][k] > clock + Truncated
                PROVE  /\ k \in DOMAIN lock' /\ lock'[k].holder = d
                       /\ holds'[d][k] <= lock'[k].until + Truncated
    BY <1>1 DEF HoldsAreStored
  <2>1. holds'[d][k] = IF d = c /\ k = q.k /\ holds' # holds
                       THEN hold ELSE holds[d][k]
    BY <1>1 DEF LockInv, TimesAreNumbers
  <2>2. CASE k # q.k
    BY <1>4, <2>1, <2>2 DEF LockInv, HoldsAreStored
  <2>3. CASE k = q.k /\ d = c /\ holds' = [holds EXCEPT ![c][q.k] = hold]
    <3>1. holds'[d][k] = hold
      BY <2>3, <1>1 DEF LockInv, TimesAreNumbers
    <3>. QED  BY <1>3, <1>4, <2>3, <3>1
  <2>4. CASE k = q.k /\ ~ (d = c /\ holds' = [holds EXCEPT ![c][q.k] = hold])
    <3>1. holds'[d][k] = holds[d][k]
      BY <1>1, <2>4 DEF LockInv, TimesAreNumbers
    <3>2. k \in DOMAIN lock /\ lock[k].holder = d /\ holds[d][k] <= lock[k].until + Truncated
      BY <3>1 DEF LockInv, HoldsAreStored
    <3>3. lock[k].until > clock
      BY <3>1, <3>2, <1>3 DEF LockInv, TimesAreNumbers
    <3>4. kind = "local" /\ d = c
      BY <1>1, <2>4, <3>2, <3>3, <1>3 DEF Obtainable, LockInv, TimesAreNumbers
    <3>. QED  BY <1>1, <2>4, <3>4
  <2>. QED  BY <1>1, <2>2, <2>3, <2>4
<1>. QED  BY <1>5, <1>6, <1>7 DEF LockInv

\* Only the holder's own entry goes, together with the holder's belief.
LEMMA UnlockKeeps ==
    ASSUME LockInv, NEW c \in Clients, NEW k \in Locks, Unlock(c, k)
    PROVE  LockInv'
<1>1. TimesAreNumbers'
  BY DEF LockInv, TimesAreNumbers, Unlock, Minus
<1>2. CallsArePast'
  BY DEF LockInv, CallsArePast, Unlock
<1>3. HoldsAreStored'
  <2>. SUFFICES ASSUME NEW d \in Clients, NEW m \in Locks, holds'[d][m] > clock + Truncated
                PROVE  /\ m \in DOMAIN lock' /\ lock'[m].holder = d
                       /\ holds'[d][m] <= lock'[m].until + Truncated
    BY DEF HoldsAreStored, Unlock
  <2>1. ~ (d = c /\ m = k) /\ holds'[d][m] = holds[d][m]
    BY TruncatedIsNumber DEF Unlock, LockInv, TimesAreNumbers
  <2>2. m \in DOMAIN lock /\ lock[m].holder = d /\ holds[d][m] <= lock[m].until + Truncated
    BY <2>1 DEF LockInv, HoldsAreStored
  <2>3. ~ (m = k /\ lock[k].holder = c)
    BY <2>1, <2>2
  <2>4. m \in DOMAIN lock' /\ lock'[m] = lock[m]
    BY <2>2, <2>3 DEF Unlock, Minus
  <2>. QED  BY <2>1, <2>2, <2>4
<1>. QED  BY <1>1, <1>2, <1>3 DEF LockInv

\* Time only ends holds.
LEMMA ClockTicksKeeps == ASSUME LockInv, ClockTicks PROVE LockInv'
<1>1. TimesAreNumbers'
  BY DEF LockInv, TimesAreNumbers, ClockTicks
<1>2. CallsArePast'
  BY DEF LockInv, CallsArePast, TimesAreNumbers, ClockTicks
<1>3. HoldsAreStored'
  BY TruncatedIsNumber DEF LockInv, HoldsAreStored, TimesAreNumbers, ClockTicks
<1>. QED  BY <1>1, <1>2, <1>3 DEF LockInv

\* LockInv is inductive, one case per operation of the store.
LEMMA LockStep == LockInv /\ [SharedNext]_sharedVars => LockInv'
<1>. SUFFICES ASSUME LockInv, [SharedNext]_sharedVars PROVE LockInv'
  OBVIOUS
<1>. DEFINE OnlyEntries ==
        /\ UNCHANGED <<lock, holds, clock>>
        /\ DOMAIN client' = Clients
        /\ \A d \in Clients : client'[d].pc = "lock" => client'[d] = client[d]
<1>0. OnlyEntries => LockInv'
  BY EntriesKeepLocks
<1>d. DOMAIN client = Clients
  BY DEF LockInv, CallsArePast
<1>1. ASSUME NEW t \in Tables, NEW k \in Keys, NEW v \in Values, NEW ttl \in Ttls,
             SetEntry(t, k, v, ttl)
      PROVE  OnlyEntries
  BY <1>1, <1>d DEF SetEntry
<1>2. ASSUME NEW k \in Keys, Deregister(k) PROVE OnlyEntries
  BY <1>2, <1>d DEF Deregister
<1>3. ASSUME NEW k \in Keys, NEW ttl \in Ttls, HeartbeatLocal(k, ttl) PROVE OnlyEntries
  BY <1>3, <1>d DEF HeartbeatLocal
<1>4. ASSUME NEW c \in Clients, NEW t \in Tables, NEW k \in Keys, GetEntry(c, t, k)
      PROVE  OnlyEntries
  BY <1>4, <1>d DEF GetEntry
<1>5. ASSUME NEW c \in Clients, EvictSeen(c) PROVE OnlyEntries
  BY <1>5, <1>d DEF EvictSeen, NoCall
<1>6. ASSUME NEW c \in Clients, NEW k \in Keys, NEW ttl \in Ttls, HeartbeatExpire(c, k, ttl)
      PROVE  OnlyEntries
  BY <1>6, <1>d DEF HeartbeatExpire
<1>7. ASSUME NEW c \in Clients, HeartbeatGet(c) PROVE OnlyEntries
  BY <1>7, <1>d DEF HeartbeatGet, NoCall
<1>8. ASSUME NEW c \in Clients, HeartbeatPut(c) PROVE OnlyEntries
  BY <1>8, <1>d DEF HeartbeatPut, NoCall
<1>9. ASSUME NEW c \in Clients, CommandFails(c) PROVE OnlyEntries
  BY <1>9, <1>d DEF CommandFails, NoCall
<1>10. ASSUME NEW c \in Clients, LockRefused(c) PROVE OnlyEntries
  BY <1>10, <1>d DEF LockRefused, NoCall
<1>11. CASE UNCHANGED sharedVars
  BY <1>11, <1>d, <1>0 DEF sharedVars
<1>. HIDE DEF OnlyEntries
<1>12. CASE SharedNext
  BY <1>0, <1>1, <1>2, <1>3, <1>4, <1>5, <1>6, <1>7, <1>8, <1>9, <1>10, <1>12, TryLockKeeps,
     AcquireKeeps, UnlockKeeps, ClockTicksKeeps DEF SharedNext
<1>. QED  BY <1>11, <1>12

\* try_lock() and unlock() exclude, for any length of the second in units of the
\* clock and any times to live: however calls stall, answers are lost and holders
\* come back late, no two clients both have more of the time asked for left than
\* the dropped fractions, in the local store and with Redis.
THEOREM LocksExclude == SharedSpec => []LockExclusive
<1>1. SharedSpec => []LockInv
  BY LockInitially, LockStep, PTL DEF SharedSpec
<1>. QED  BY <1>1, StoredHoldsExclude, PTL

-----------------------------------------------------------------------------
(* The local index.  unassign_lane() gives a lane up in three steps, while    *)
(* the backend may be assigned another: until the last one, the lane stays    *)
(* bound to the backend that gives it up, and is nobody's lane.               *)

EventRecords ==
    [pc : {"idle", "tree", "project", "retire", "activate"},
     kind : {"Stored", "Removed", "Clear"},
     rest : Seq(Hashes), lane : LaneIds \cup {NoLane}]
RemovalRecords ==
    [pc : {"idle", "retire", "unbind", "tree", "drop"}, lane : LaneIds \cup {NoLane}]

IndexTypes ==
    /\ active \subseteq LaneIds
    /\ ev \in [Backends -> EventRecords]
    /\ rm \in [Backends -> RemovalRecords]
    /\ \A b \in Backends :
        /\ ev[b].pc = "project" => ev[b].rest # <<>>
        /\ ev[b].pc \in {"project", "retire", "activate"} => ev[b].lane # NoLane

\* The lane a backend holds or gives up is bound to it, and a backend that
\* gives a lane up does not hold that lane any more.
LanesBound ==
    /\ \A b \in DOMAIN laneOf :
        laneOf[b] \in LaneIds /\ laneOf[b] \in DOMAIN backendOf /\ backendOf[laneOf[b]] = b
    /\ \A b \in Backends : rm[b].pc \in {"retire", "unbind"} =>
        /\ rm[b].lane \in LaneIds /\ rm[b].lane \in DOMAIN backendOf /\ backendOf[rm[b].lane] = b
        /\ b \in DOMAIN laneOf => laneOf[b] # rm[b].lane

LanesServe ==
    \A b \in DOMAIN laneOf :
        laneOf[b] \in active
        \/ \E c \in Backends : ev[c].pc = "activate" /\ ev[c].lane = laneOf[b]

IndexInv == DOMAIN laneOf \subseteq Backends /\ IndexTypes /\ LanesBound /\ LanesServe

LEMMA IndexInvInit == IndexInit => IndexInv
BY DEF IndexInit, IndexInv, IndexTypes, LanesBound, LanesServe, NoEvent, NoRemoval,
       EventRecords, RemovalRecords

\* The first free lane is a free lane.
LEMMA FirstFreeLane ==
    ASSUME FreeLanes # {} PROVE Min(FreeLanes) \in FreeLanes
<1>1. FreeLanes \subseteq Nat
  BY LocalIndexAssumption DEF FreeLanes
<1>2. \E x \in FreeLanes : \A y \in FreeLanes : x <= y
  BY <1>1, LeastNatural
<1> QED BY <1>2 DEF Min

LEMMA LongerTail ==
    ASSUME NEW S, NEW s \in Seq(S), s # <<>>, Len(s) # 1
    PROVE  Tail(s) \in Seq(S) /\ Tail(s) # <<>>
<1>1. Len(s) \in Nat /\ Len(s) # 0
  BY EmptySeq, LenProperties
<1>2. Tail(s) \in Seq(S) /\ Len(Tail(s)) = Len(s) - 1
  BY HeadTailProperties
<1>3. Len(Tail(s)) # 0
  BY <1>1, <1>2
<1> QED BY <1>2, <1>3, EmptySeq

LEMMA LaneFacts == NoLane \notin LaneIds
BY LocalIndexAssumption DEF NoLane

\* Taking the lane keeps what is known of the lanes.
LEMMA AssignKeeps ==
    ASSUME IndexInv, NEW b \in Backends, NEW l \in LaneIds \cup {NoLane}, AssignLane(b, l),
           rm' = rm, ev' = [ev EXCEPT ![b] = ev'[b]], ev[b].pc = "idle"
    PROVE  DOMAIN laneOf' \subseteq Backends /\ active' \subseteq LaneIds /\ LanesBound' /\ LanesServe'
<1>e. ev \in [Backends -> EventRecords]
  BY DEF IndexInv, IndexTypes
<1>1. CASE UNCHANGED <<laneOf, backendOf, active, buckets>>
  <2>1. LanesServe'
    BY <1>1, <1>e DEF IndexInv, LanesServe
  <2> QED BY <1>1, <2>1 DEF IndexInv, IndexTypes, LanesBound
<1>2. CASE /\ LaneOf(b) = NoLane /\ FreeLanes # {} /\ l = Min(FreeLanes)
           /\ laneOf' = Bind(laneOf, b, l) /\ backendOf' = Bind(backendOf, l, b)
           /\ active' = active \cup {l} /\ buckets' = [buckets EXCEPT ![l] = EmptyLane]
  <2>1. l \in LaneIds /\ l \notin DOMAIN backendOf
    BY <1>2, FirstFreeLane DEF FreeLanes
  <2>2. b \notin DOMAIN laneOf
    BY <1>2, LaneFacts DEF IndexInv, LanesBound, LaneOf
  <2>3. /\ DOMAIN laneOf' = DOMAIN laneOf \cup {b} /\ laneOf'[b] = l
        /\ \A c \in DOMAIN laneOf : laneOf'[c] = laneOf[c]
        /\ DOMAIN backendOf' = DOMAIN backendOf \cup {l} /\ backendOf'[l] = b
        /\ \A m \in DOMAIN backendOf : backendOf'[m] = backendOf[m]
    BY <1>2, <2>1, <2>2 DEF Bind
  <2>4. LanesBound'
    BY <2>1, <2>2, <2>3 DEF IndexInv, LanesBound
  <2>5. LanesServe'
    BY <1>2, <1>e, <2>2, <2>3 DEF IndexInv, LanesServe
  <2> QED BY <1>2, <2>1, <2>3, <2>4, <2>5 DEF IndexInv, IndexTypes
<1> QED BY <1>1, <1>2 DEF AssignLane

LEMMA IndexInvStep == IndexInv /\ [IndexNext]_indexVars => IndexInv'
<1> SUFFICES ASSUME IndexInv, [IndexNext]_indexVars PROVE IndexInv'
  OBVIOUS
<1>t. ev \in [Backends -> EventRecords] /\ rm \in [Backends -> RemovalRecords]
  BY DEF IndexInv, IndexTypes
<1>n. NoEvent \in EventRecords /\ NoRemoval \in RemovalRecords
  BY DEF NoEvent, NoRemoval, EventRecords, RemovalRecords
<1>i. NoEvent.pc = "idle"
  BY DEF NoEvent
\* Steps of an event that is not about to activate its lane change no binding.
<1>e. ASSUME NEW b \in Backends, NEW e \in EventRecords, ev[b].pc # "activate",
             ev' = [ev EXCEPT ![b] = e], e.pc = "project" => e.rest # <<>>,
             e.pc \in {"project", "retire", "activate"} => e.lane # NoLane,
             UNCHANGED <<laneOf, backendOf, active, rm>>
      PROVE  IndexInv'
  <2>1. IndexTypes'
    BY <1>t, <1>e DEF IndexInv, IndexTypes
  <2>2. LanesServe'
    BY <1>t, <1>e DEF IndexInv, LanesServe
  <2>3. LanesBound'
    BY <1>e DEF IndexInv, LanesBound
  <2> QED BY <1>e, <2>1, <2>2, <2>3 DEF IndexInv
<1>1. ASSUME NEW b \in Backends, NEW k \in {"Stored", "Removed", "Clear"}, NEW hs \in Seq(Hashes),
             StartEvent(b, k, hs)
      PROVE  IndexInv'
  <2>1. PICK l \in LaneIds \cup {NoLane} :
            /\ AssignLane(b, l)
            /\ ev' = [ev EXCEPT ![b] = [pc |-> "tree", kind |-> k, rest |-> hs, lane |-> l]]
    BY <1>1 DEF StartEvent
  <2>2. ev[b].pc = "idle" /\ rm' = rm
    BY <1>1 DEF StartEvent
  <2>3. ev' = [ev EXCEPT ![b] = ev'[b]]
    BY <1>t, <2>1
  <2>4. /\ DOMAIN laneOf' \subseteq Backends /\ active' \subseteq LaneIds
        /\ LanesBound' /\ LanesServe'
    BY <2>1, <2>2, <2>3, AssignKeeps
  <2>5. [pc |-> "tree", kind |-> k, rest |-> hs, lane |-> l] \in EventRecords
    BY DEF EventRecords
  <2>6. IndexTypes'
    BY <1>t, <2>1, <2>2, <2>4, <2>5 DEF IndexInv, IndexTypes
  <2> QED BY <2>4, <2>6 DEF IndexInv
<1>2. ASSUME NEW b \in Backends, TreeApply(b) PROVE IndexInv'
  <2> DEFINE e == ev[b]
             next == IF e.lane = NoLane \/ (e.kind # "Clear" /\ e.rest = <<>>) THEN NoEvent
                     ELSE [e EXCEPT !.pc = IF e.kind = "Clear" THEN "retire" ELSE "project"]
  <2>1. e \in EventRecords /\ e.pc = "tree"
    BY <1>2, <1>t DEF TreeApply
  <2>2. ev' = [ev EXCEPT ![b] = next] /\ UNCHANGED <<laneOf, backendOf, active, rm>>
    BY <1>2 DEF TreeApply
  <2>3. next \in EventRecords /\ (next.pc = "project" => next.rest # <<>>)
        /\ (next.pc \in {"project", "retire", "activate"} => next.lane # NoLane)
    <3>1. CASE e.lane = NoLane \/ (e.kind # "Clear" /\ e.rest = <<>>)
      BY <1>n, <1>i, <3>1
    <3>2. ASSUME NEW p \in {"retire", "project"}, next = [e EXCEPT !.pc = p]
          PROVE  next \in EventRecords /\ next.pc = p /\ next.rest = e.rest /\ next.lane = e.lane
      BY <2>1, <3>2 DEF EventRecords
    <3>3. CASE ~ (e.lane = NoLane \/ (e.kind # "Clear" /\ e.rest = <<>>))
      <4>1. CASE e.kind = "Clear"
        <5>1. next = [e EXCEPT !.pc = "retire"]
          BY <3>3, <4>1
        <5> QED BY <3>2, <3>3, <5>1
      <4>2. CASE e.kind # "Clear"
        <5>1. next = [e EXCEPT !.pc = "project"]
          BY <3>3, <4>2
        <5> QED BY <3>2, <3>3, <4>2, <5>1
      <4> QED BY <4>1, <4>2
    <3> QED BY <3>1, <3>3
  <2> HIDE DEF next
  <2> QED BY <1>e, <2>1, <2>2, <2>3
<1>3. ASSUME NEW b \in Backends, TreeGone(b) PROVE IndexInv'
  <2>1. NoEvent.pc = "idle"
    BY DEF NoEvent
  <2> QED BY <1>3, <1>n, <1>e, <2>1 DEF TreeGone
<1>4. ASSUME NEW b \in Backends, Project(b) PROVE IndexInv'
  <2> DEFINE e == ev[b]
             next == IF Len(e.rest) = 1 THEN NoEvent ELSE [e EXCEPT !.rest = Tail(@)]
  <2>1. e \in EventRecords /\ e.pc = "project" /\ e.rest # <<>> /\ e.lane # NoLane
    BY <1>4, <1>t DEF Project, IndexInv, IndexTypes
  <2>2. ev' = [ev EXCEPT ![b] = next] /\ UNCHANGED <<laneOf, backendOf, active, rm>>
    BY <1>4 DEF Project
  <2>3. e.rest \in Seq(Hashes)
    BY <2>1 DEF EventRecords
  <2>4. Len(e.rest) # 1 => Tail(e.rest) \in Seq(Hashes) /\ Tail(e.rest) # <<>>
    BY <2>1, <2>3, LongerTail
  <2>5. next \in EventRecords /\ (next.pc = "project" => next.rest # <<>>)
        /\ (next.pc \in {"project", "retire", "activate"} => next.lane # NoLane)
    <3>1. CASE Len(e.rest) = 1
      BY <1>n, <1>i, <3>1
    <3>2. CASE Len(e.rest) # 1
      <4>1. next = [e EXCEPT !.rest = Tail(e.rest)]
        BY <3>2
      <4>2. next \in EventRecords /\ next.rest = Tail(e.rest) /\ next.lane = e.lane
        <5> HIDE DEF next
        <5> QED BY <2>1, <2>4, <3>2, <4>1 DEF EventRecords
      <4> QED BY <2>1, <2>4, <3>2, <4>2
    <3> QED BY <3>1, <3>2
  <2> HIDE DEF next
  <2> QED BY <1>e, <2>1, <2>2, <2>5
<1>5. ASSUME NEW b \in Backends, ClearLane(b) PROVE IndexInv'
  <2> DEFINE next == [ev[b] EXCEPT !.pc = "activate"]
  <2>1. /\ ev[b].pc = "retire" /\ active' = active \ {ev[b].lane}
        /\ ev' = [ev EXCEPT ![b] = next] /\ UNCHANGED <<laneOf, backendOf, rm>>
    BY <1>5 DEF ClearLane
  <2>2. /\ next \in EventRecords /\ next.pc = "activate"
        /\ next.lane = ev[b].lane /\ ev[b].lane # NoLane
    BY <1>t, <2>1 DEF EventRecords, IndexInv, IndexTypes
  <2> HIDE DEF next
  <2>3. IndexTypes'
    BY <1>t, <2>1, <2>2 DEF IndexInv, IndexTypes
  <2>4. LanesServe'
    BY <1>t, <2>1, <2>2 DEF IndexInv, LanesServe
  <2>5. LanesBound'
    BY <2>1 DEF IndexInv, LanesBound
  <2> QED BY <2>1, <2>3, <2>4, <2>5 DEF IndexInv
<1>6. ASSUME NEW b \in Backends, ClearLaneEnds(b) PROVE IndexInv'
  <2>1. ev[b].lane \in LaneIds
    BY <1>6, <1>t DEF ClearLaneEnds, IndexInv, IndexTypes, EventRecords
  <2>2. NoEvent.pc = "idle"
    BY DEF NoEvent
  <2>3. IndexTypes'
    BY <1>6, <1>t, <1>n, <2>1, <2>2 DEF ClearLaneEnds, IndexInv, IndexTypes
  <2>4. LanesServe'
    BY <1>6, <1>t DEF ClearLaneEnds, IndexInv, LanesServe
  <2>5. LanesBound'
    BY <1>6 DEF ClearLaneEnds, IndexInv, LanesBound
  <2> QED BY <1>6, <2>3, <2>4, <2>5 DEF ClearLaneEnds, IndexInv
<1>7. ASSUME NEW b \in Backends, StartRemoval(b) PROVE IndexInv'
  <2> DEFINE next == [pc |-> IF LaneOf(b) = NoLane THEN "tree" ELSE "retire", lane |-> LaneOf(b)]
  <2>1. /\ laneOf' = Unbind(laneOf, b) /\ rm' = [rm EXCEPT ![b] = next] /\ rm[b].pc = "idle"
        /\ UNCHANGED <<backendOf, active, ev>>
    BY <1>7 DEF StartRemoval
  <2>2. /\ DOMAIN laneOf' = DOMAIN laneOf \ {b}
        /\ \A c \in DOMAIN laneOf' : laneOf'[c] = laneOf[c]
    BY <2>1 DEF Unbind
  <2>3. LaneOf(b) \in LaneIds \cup {NoLane}
        /\ (LaneOf(b) # NoLane => b \in DOMAIN laneOf /\ LaneOf(b) = laneOf[b])
    BY DEF LaneOf, IndexInv, LanesBound
  <2>4. /\ next \in RemovalRecords /\ next.lane = LaneOf(b)
        /\ next.pc \in {"retire", "unbind"} => LaneOf(b) # NoLane
    BY <2>3 DEF RemovalRecords
  <2> HIDE DEF next
  <2>5. IndexTypes'
    BY <1>t, <2>1, <2>4 DEF IndexInv, IndexTypes
  <2>6. LanesBound'
    BY <1>t, <2>1, <2>2, <2>3, <2>4 DEF IndexInv, LanesBound
  <2>7. LanesServe'
    BY <2>1, <2>2 DEF IndexInv, LanesServe
  <2> QED BY <2>2, <2>5, <2>6, <2>7 DEF IndexInv
<1>8. ASSUME NEW b \in Backends, Unassign(b) PROVE IndexInv'
  <2> DEFINE l == rm[b].lane
  <2>1. l \in LaneIds /\ l \in DOMAIN backendOf /\ backendOf[l] = b /\ UNCHANGED <<laneOf, ev>>
        /\ \A c \in DOMAIN laneOf : laneOf[c] # l
    BY <1>8 DEF Unassign, IndexInv, LanesBound
  <2>2. CASE rm[b].pc = "retire"
    <3>1. /\ active' = active \ {l} /\ backendOf' = backendOf
          /\ rm' = [rm EXCEPT ![b] = [rm[b] EXCEPT !.pc = "unbind"]]
      BY <1>8, <2>2 DEF Unassign
    <3>2. [rm[b] EXCEPT !.pc = "unbind"] \in RemovalRecords
          /\ [rm[b] EXCEPT !.pc = "unbind"].lane = l
      BY <1>t DEF RemovalRecords
    <3>3. IndexTypes'
      BY <1>t, <2>1, <3>1, <3>2 DEF IndexInv, IndexTypes
    <3>4. LanesBound'
      BY <1>t, <2>1, <2>2, <3>1, <3>2 DEF IndexInv, LanesBound
    <3>5. LanesServe'
      BY <2>1, <3>1 DEF IndexInv, LanesServe
    <3> QED BY <2>1, <3>3, <3>4, <3>5 DEF IndexInv
  <2>3. CASE rm[b].pc = "unbind"
    <3>1. /\ active' = active /\ backendOf' = Unbind(backendOf, l)
          /\ rm' = [rm EXCEPT ![b] = [rm[b] EXCEPT !.pc = "tree"]]
      BY <1>8, <2>3 DEF Unassign
    <3>2. [rm[b] EXCEPT !.pc = "tree"] \in RemovalRecords /\ [rm[b] EXCEPT !.pc = "tree"].pc = "tree"
      BY <1>t DEF RemovalRecords
    <3>3. /\ DOMAIN backendOf' = DOMAIN backendOf \ {l}
          /\ \A m \in DOMAIN backendOf' : backendOf'[m] = backendOf[m]
      BY <3>1 DEF Unbind
    <3>4. IndexTypes'
      BY <1>t, <2>1, <3>1, <3>2 DEF IndexInv, IndexTypes
    <3>5. LanesBound'
      BY <1>t, <2>1, <2>3, <3>1, <3>2, <3>3 DEF IndexInv, LanesBound
    <3>6. LanesServe'
      BY <2>1, <3>1 DEF IndexInv, LanesServe
    <3> QED BY <2>1, <3>4, <3>5, <3>6 DEF IndexInv
  <2> QED BY <1>8, <2>2, <2>3 DEF Unassign
\* The rest of a removal touches no lane.
<1>r. ASSUME NEW b \in Backends, NEW x \in RemovalRecords, x.pc \notin {"retire", "unbind"},
             rm' = [rm EXCEPT ![b] = x], UNCHANGED <<laneOf, backendOf, active, ev>>
      PROVE  IndexInv'
  BY <1>t, <1>r DEF IndexInv, IndexTypes, LanesBound, LanesServe
<1>m. NoRemoval.pc = "idle"
  BY DEF NoRemoval
<1>9. ASSUME NEW b \in Backends, NEW handle \in {"index", "store"}, RemoveFromTree(b, handle)
      PROVE  IndexInv'
  <2> DEFINE next == IF handle = "index" THEN NoRemoval ELSE [rm[b] EXCEPT !.pc = "drop"]
  <2>1. rm' = [rm EXCEPT ![b] = next] /\ UNCHANGED <<laneOf, backendOf, active, ev>>
    BY <1>9 DEF RemoveFromTree
  <2>2. next \in RemovalRecords /\ next.pc \notin {"retire", "unbind"}
    BY <1>t, <1>n, <1>m DEF RemovalRecords
  <2> HIDE DEF next
  <2> QED BY <1>r, <2>1, <2>2
<1>10. ASSUME NEW b \in Backends, DropHandle(b) PROVE IndexInv'
  BY <1>10, <1>n, <1>m, <1>r DEF DropHandle
<1>11. CASE UNCHANGED indexVars
  BY <1>11 DEF indexVars, IndexInv, IndexTypes, LanesBound, LanesServe
<1>12. CASE IndexNext
  <2>1. Chains \subseteq Seq(Hashes) /\ Removals \subseteq Seq(Hashes) /\ <<>> \in Seq(Hashes)
    BY LocalIndexAssumption
  <2> QED BY <1>12, <1>1, <1>2, <1>3, <1>4, <1>5, <1>6, <1>7, <1>8, <1>9, <1>10, <2>1 DEF IndexNext
<1> QED BY <1>11, <1>12

\* Whatever events and removals of any number of backends overlap, the lane a
\* backend answers from is bound to that backend, and active unless a clear is
\* halfway through it.
THEOREM LaneMapsAgree == IndexSpec => []LanesAgree
<1>1. IndexInv => LanesAgree
  BY DEF IndexInv, LanesBound, LanesServe, LanesAgree, Tenant
<1> QED BY <1>1, IndexInvInit, IndexInvStep, PTL DEF IndexSpec

-----------------------------------------------------------------------------
(* The local index: the lane covers the tree.  A lane is tracked while it has *)
(* at least as many copies of a fingerprint as the backend owns hashes with   *)
(* that fingerprint and pair of buckets.  While an event is projected, the    *)
(* blocks it stores and the lane has not got yet do not count, and the blocks *)
(* it removes and the lane still has do.                                      *)

\* The hashes a backend owns in the tree.
Owned(b) == { Last(p) : p \in owns[b] }

\* The hashes whose fingerprints the backend's lane must have.
Due(b) ==
    IF ev[b].pc # "project" THEN Owned(b)
    ELSE IF ev[b].kind = "Stored" THEN Owned(b) \ Range(ev[b].rest)
    ELSE Owned(b) \cup Range(ev[b].rest)

\* The lane has a copy of a fingerprint for each of the hashes.
Copied(lane, O) ==
    \A i \in Buckets, f \in Fps : Cardinality(Mapped(O, i, f)) <= Found(lane, i, f)

TreeTypes ==
    /\ buckets \in [LaneIds -> Lanes]
    /\ owns \in [Backends -> SUBSET (Seq(Hashes) \ {<<>>})]

\* What is left of an event fits the tree it was applied to.
EventFits(b) ==
    /\ ev[b].pc = "project" => ev[b].kind \in {"Stored", "Removed"}
    /\ ev[b].pc = "project" /\ ev[b].kind = "Removed" /\ b \notin gaps =>
           IsInjective(ev[b].rest) /\ Range(ev[b].rest) \cap Owned(b) = {}
    /\ ev[b].pc \in {"retire", "activate"} => owns[b] = {}

\* A backend that owns anything has a lane that covers it, unless the lane is
\* recorded in gaps or the backend is being removed.
Tracked(b) ==
    b \notin gaps /\ rm[b].pc \in {"idle", "drop"} /\ owns[b] # {} =>
        b \in DOMAIN laneOf /\ Copied(buckets[laneOf[b]], Due(b))

TreeInv == IndexInv /\ TreeTypes /\ \A b \in Backends : EventFits(b) /\ Tracked(b)

LEMMA OwnedTyped ==
    ASSUME TreeTypes, NEW b \in Backends
    PROVE  Owned(b) \subseteq Hashes
<1> SUFFICES ASSUME NEW p \in owns[b] PROVE Last(p) \in Hashes
  BY DEF Owned
<1>1. p \in Seq(Hashes) /\ p # <<>>
  BY DEF TreeTypes
<1>2. Len(p) \in Nat /\ Len(p) # 0
  BY <1>1, EmptySeq, LenProperties
<1>3. p[Len(p)] \in Hashes
  BY <1>1, <1>2, ElementOfSeq
<1> QED BY <1>3 DEF Last

\* Fewer hashes need fewer copies.
LEMMA CopiedFewer ==
    ASSUME NEW lane \in Lanes, NEW O \in SUBSET Hashes, NEW P, P \subseteq O, Copied(lane, O)
    PROVE  Copied(lane, P)
<1> SUFFICES ASSUME NEW i \in Buckets, NEW f \in Fps
             PROVE  Cardinality(Mapped(P, i, f)) <= Found(lane, i, f)
  BY DEF Copied
<1>1. Mapped(P, i, f) \subseteq Mapped(O, i, f) /\ Mapped(O, i, f) \subseteq Hashes
  BY DEF Mapped
<1>2. IsFiniteSet(Mapped(O, i, f))
  BY <1>1, FiniteConfig, FS_Subset
<1>3. /\ Cardinality(Mapped(P, i, f)) <= Cardinality(Mapped(O, i, f))
      /\ Cardinality(Mapped(P, i, f)) \in Nat /\ Cardinality(Mapped(O, i, f)) \in Nat
  BY <1>1, <1>2, FS_Subset, FS_CardinalityType
<1>4. Cardinality(Mapped(O, i, f)) <= Found(lane, i, f) /\ Found(lane, i, f) \in Nat
  BY FoundIsNat DEF Copied
<1> QED BY <1>3, <1>4

LEMMA CopiedNone ==
    ASSUME NEW lane \in Lanes PROVE Copied(lane, {})
<1> SUFFICES ASSUME NEW i \in Buckets, NEW f \in Fps
             PROVE  Cardinality(Mapped({}, i, f)) <= Found(lane, i, f)
  BY DEF Copied
<1>1. Mapped({}, i, f) = {}
  BY DEF Mapped
<1>2. Cardinality(Mapped({}, i, f)) = 0
  BY <1>1, FS_EmptySet
<1> QED BY <1>2, FoundIsNat

\* insert() adds a copy of the fingerprint or changes nothing.
LEMMA LaneInsertFacts ==
    ASSUME NEW lane \in Lanes, NEW h \in Hashes
    PROVE  LET new == LaneInsert(lane, h) IN
           /\ new \in Lanes
           /\ new # lane => \A i \in Buckets, f \in Fps :
                Found(new, i, f) = Found(lane, i, f) + Bit(Maps(h, i, f))
<1> DEFINE fp == Probe[h].fp
           a == Probe[h].bucket
           b == Alt[a][fp]
           new == LaneInsert(lane, h)
<1>1. fp \in Fps /\ a \in Buckets /\ b \in Buckets
  BY ProbeFacts
<1>2. new = Put(lane, a, fp) \/ new = Put(lane, b, fp) \/ new = lane
  BY DEF LaneInsert
<1>m. \A i \in Buckets, f \in Fps : Maps(h, i, f) <=> (f = fp /\ InPair(i, f, a))
  BY DEF Maps
<1>s. \A i \in Buckets, f \in Fps : (f = fp /\ InPair(i, f, b)) <=> (f = fp /\ InPair(i, f, a))
  BY <1>1, PairShifts
<1> HIDE DEF fp, a, new
<1>3. ASSUME NEW x \in {a, b}, new = Put(lane, x, fp)
      PROVE  /\ new \in Lanes
             /\ \A i \in Buckets, f \in Fps :
                  Found(new, i, f) = Found(lane, i, f) + Bit(Maps(h, i, f))
  <2>1. x \in Buckets
    BY <1>1
  <2>2. new \in Lanes
    BY <1>1, <1>3, <2>1, PutFacts
  <2>3. ASSUME NEW i \in Buckets, NEW f \in Fps
        PROVE  Found(new, i, f) = Found(lane, i, f) + Bit(Maps(h, i, f))
    <3>1. Found(new, i, f) = Found(lane, i, f) + Bit(f = fp /\ InPair(i, f, x))
      BY <1>1, <1>3, <2>1, PutFound
    <3>2. Maps(h, i, f) <=> (f = fp /\ InPair(i, f, x))
      BY <1>m, <1>s
    <3>3. Bit(Maps(h, i, f)) = Bit(f = fp /\ InPair(i, f, x))
      BY <3>2 DEF Bit
    <3> QED BY <3>1, <3>3
  <2> QED BY <2>2, <2>3
<1> QED BY <1>2, <1>3 DEF new

\* delete() takes a copy out if there is one.
LEMMA LaneDeleteFacts ==
    ASSUME NEW lane \in Lanes, NEW h \in Hashes
    PROVE  LET new == LaneDelete(lane, h) IN
           /\ new \in Lanes
           /\ \/ new = lane
              \/ \A i \in Buckets, f \in Fps :
                   Found(new, i, f) + Bit(Maps(h, i, f)) = Found(lane, i, f)
<1> DEFINE fp == Probe[h].fp
           a == Probe[h].bucket
           b == Alt[a][fp]
           new == LaneDelete(lane, h)
<1>1. fp \in Fps /\ a \in Buckets /\ b \in Buckets
  BY ProbeFacts
<1>2. \/ Holds(lane, a, fp) /\ new = Take(lane, a, fp)
      \/ Holds(lane, b, fp) /\ new = Take(lane, b, fp)
      \/ new = lane
  BY DEF LaneDelete
<1>m. \A i \in Buckets, f \in Fps : Maps(h, i, f) <=> (f = fp /\ InPair(i, f, a))
  BY DEF Maps
<1>s. \A i \in Buckets, f \in Fps : (f = fp /\ InPair(i, f, b)) <=> (f = fp /\ InPair(i, f, a))
  BY <1>1, PairShifts
<1> HIDE DEF fp, a, new
<1>3. ASSUME NEW x \in {a, b}, Holds(lane, x, fp), new = Take(lane, x, fp)
      PROVE  /\ new \in Lanes
             /\ \A i \in Buckets, f \in Fps :
                  Found(new, i, f) + Bit(Maps(h, i, f)) = Found(lane, i, f)
  <2>1. x \in Buckets
    BY <1>1
  <2>2. new \in Lanes
    BY <1>1, <1>3, <2>1, TakeFacts
  <2>3. ASSUME NEW i \in Buckets, NEW f \in Fps
        PROVE  Found(new, i, f) + Bit(Maps(h, i, f)) = Found(lane, i, f)
    <3>1. Found(new, i, f) + Bit(f = fp /\ InPair(i, f, x)) = Found(lane, i, f)
      BY <1>1, <1>3, <2>1, TakeFound
    <3>2. Maps(h, i, f) <=> (f = fp /\ InPair(i, f, x))
      BY <1>m, <1>s
    <3>3. Bit(Maps(h, i, f)) = Bit(f = fp /\ InPair(i, f, x))
      BY <3>2 DEF Bit
    <3> QED BY <3>1, <3>3
  <2> QED BY <2>2, <2>3
<1> QED BY <1>2, <1>3 DEF new

\* One hash more in the lane.
LEMMA InsertCopies ==
    ASSUME NEW lane \in Lanes, NEW O \in SUBSET Hashes, Copied(lane, O), NEW h \in Hashes,
           LaneInsert(lane, h) # lane, NEW P, P \subseteq O \cup {h}
    PROVE  Copied(LaneInsert(lane, h), P)
<1> DEFINE new == LaneInsert(lane, h)
<1>1. /\ new \in Lanes
      /\ \A i \in Buckets, f \in Fps : Found(new, i, f) = Found(lane, i, f) + Bit(Maps(h, i, f))
  BY LaneInsertFacts
<1> HIDE DEF new
<1>2. Copied(new, O \cup {h})
  <2> SUFFICES ASSUME NEW i \in Buckets, NEW f \in Fps
               PROVE  Cardinality(Mapped(O \cup {h}, i, f)) <= Found(new, i, f)
    BY DEF Copied
  <2> DEFINE x == Bit(Maps(h, i, f))
  <2>1. /\ Cardinality(Mapped(O, i, f)) \in Nat
        /\ h \notin O => Cardinality(Mapped(O \cup {h}, i, f)) = Cardinality(Mapped(O, i, f)) + x
    BY MappedCounted
  <2>2. h \in O => O \cup {h} = O
    OBVIOUS
  <2>3. Cardinality(Mapped(O, i, f)) <= Found(lane, i, f) /\ Found(lane, i, f) \in Nat
    BY FoundIsNat DEF Copied
  <2>4. x \in Nat /\ Found(new, i, f) = Found(lane, i, f) + x
    BY <1>1, BitIsNat
  <2> HIDE DEF x
  <2>5. CASE h \in O
    <3>1. Cardinality(Mapped(O \cup {h}, i, f)) = Cardinality(Mapped(O, i, f))
      BY <2>2, <2>5, Zenon
    <3> QED BY <2>1, <2>3, <2>4, <3>1
  <2>6. CASE h \notin O
    BY <2>1, <2>3, <2>4, <2>6
  <2> QED BY <2>5, <2>6
<1> QED BY <1>1, <1>2, CopiedFewer DEF new

\* One hash less.
LEMMA DeleteCopies ==
    ASSUME NEW lane \in Lanes, NEW O \in SUBSET Hashes, Copied(lane, O), NEW h \in O
    PROVE  Copied(LaneDelete(lane, h), O \ {h})
<1> DEFINE new == LaneDelete(lane, h)
<1>1. /\ new \in Lanes
      /\ \/ new = lane
         \/ \A i \in Buckets, f \in Fps : Found(new, i, f) + Bit(Maps(h, i, f)) = Found(lane, i, f)
  BY LaneDeleteFacts
<1> HIDE DEF new
<1>2. CASE new = lane
  BY <1>2, CopiedFewer DEF new
<1>3. CASE \A i \in Buckets, f \in Fps : Found(new, i, f) + Bit(Maps(h, i, f)) = Found(lane, i, f)
  <2> SUFFICES ASSUME NEW i \in Buckets, NEW f \in Fps
               PROVE  Cardinality(Mapped(O \ {h}, i, f)) <= Found(new, i, f)
    BY DEF Copied, new
  <2> DEFINE x == Bit(Maps(h, i, f))
  <2>1. /\ Cardinality(Mapped(O \ {h}, i, f)) \in Nat
        /\ Cardinality(Mapped(O \ {h}, i, f)) + x = Cardinality(Mapped(O, i, f))
    BY MappedCounted
  <2>2. Cardinality(Mapped(O, i, f)) <= Found(lane, i, f)
    BY DEF Copied
  <2>3. x \in Nat /\ Found(new, i, f) \in Nat /\ Found(new, i, f) + x = Found(lane, i, f)
    BY <1>1, <1>3, FoundIsNat, BitIsNat
  <2> HIDE DEF x
  <2> QED BY <2>1, <2>2, <2>3
<1> QED BY <1>1, <1>2, <1>3

\* The path to a block of a chain ends with that block.
LEMMA PathEnds ==
    ASSUME NEW hs \in Seq(Hashes), NEW n \in 1 .. Len(hs)
    PROVE  SubSeq(hs, 1, n) \in Seq(Hashes) \ {<<>>} /\ Last(SubSeq(hs, 1, n)) = hs[n]
<1> DEFINE p == SubSeq(hs, 1, n)
<1>1. Len(hs) \in Nat /\ \A m \in 1 .. Len(hs) : hs[m] \in Hashes
  BY LenProperties, ElementOfSeq
<1>2. p \in Seq(Hashes) /\ Len(p) = n /\ p[n] = hs[n]
  BY <1>1
<1> HIDE DEF p
<1>3. p # <<>>
  BY <1>2, EmptySeq
<1> QED BY <1>2, <1>3 DEF Last, p

\* A stored chain makes its blocks the backend's, and nothing else.
LEMMA StoredOwns ==
    ASSUME NEW paths \in SUBSET (Seq(Hashes) \ {<<>>}), NEW hs \in Seq(Hashes)
    PROVE  /\ TreeStored(paths, hs) \in SUBSET (Seq(Hashes) \ {<<>>})
           /\ { Last(p) : p \in TreeStored(paths, hs) } = { Last(p) : p \in paths } \cup Range(hs)
<1> DEFINE new == { SubSeq(hs, 1, n) : n \in 1 .. Len(hs) }
<1>1. Len(hs) \in Nat /\ DOMAIN hs = 1 .. Len(hs) /\ \A n \in 1 .. Len(hs) : hs[n] \in Hashes
  BY LenProperties, ElementOfSeq
<1>2. \A n \in 1 .. Len(hs) :
        SubSeq(hs, 1, n) \in Seq(Hashes) \ {<<>>} /\ Last(SubSeq(hs, 1, n)) = hs[n]
  BY PathEnds
<1>3. { Last(p) : p \in new } = Range(hs)
  BY <1>1, <1>2 DEF Range
<1>4. TreeStored(paths, hs) = paths \cup new
  BY DEF TreeStored
<1>5. new \in SUBSET (Seq(Hashes) \ {<<>>})
  BY <1>2
<1> HIDE DEF new
<1> QED BY <1>3, <1>4, <1>5

LEMMA RemovedOwns ==
    ASSUME NEW paths \in SUBSET (Seq(Hashes) \ {<<>>}), NEW hs
    PROVE  /\ TreeRemoved(paths, hs) \in SUBSET (Seq(Hashes) \ {<<>>})
           /\ { Last(p) : p \in TreeRemoved(paths, hs) } = { Last(p) : p \in paths } \ Range(hs)
BY DEF TreeRemoved

\* The first hash of what is left of an event, and the rest.
LEMMA NextHash ==
    ASSUME NEW s \in Seq(Hashes), s # <<>>
    PROVE  /\ Head(s) \in Hashes /\ Tail(s) \in Seq(Hashes)
           /\ Range(s) = {Head(s)} \cup Range(Tail(s)) /\ Range(s) \subseteq Hashes
           /\ Len(s) = 1 => Range(Tail(s)) = {}
           /\ IsInjective(s) => IsInjective(Tail(s)) /\ Head(s) \notin Range(Tail(s))
<1> DEFINE t == Tail(s)
<1>1. Len(s) \in Nat /\ Len(s) # 0 /\ DOMAIN s = 1 .. Len(s) /\ \A n \in 1 .. Len(s) : s[n] \in Hashes
  BY EmptySeq, LenProperties, ElementOfSeq
<1>2. Head(s) = s[1] /\ 1 \in 1 .. Len(s)
  BY <1>1
<1>3. t \in Seq(Hashes) /\ Len(t) = Len(s) - 1 /\ \A n \in 1 .. (Len(s) - 1) : t[n] = s[n + 1]
  BY <1>1
<1> HIDE DEF t
<1>4. DOMAIN t = 1 .. (Len(s) - 1)
  BY <1>3, LenProperties
<1>5. \A n \in 1 .. Len(s) : n = 1 \/ (n - 1 \in 1 .. (Len(s) - 1) /\ (n - 1) + 1 = n)
  BY <1>1
<1>6. \A n \in 1 .. (Len(s) - 1) : n + 1 \in 1 .. Len(s) /\ n + 1 # 1
  BY <1>1
<1>7. Range(s) = {Head(s)} \cup Range(t)
  <2>1. ASSUME NEW n \in 1 .. Len(s) PROVE s[n] \in {Head(s)} \cup Range(t)
    <3>1. CASE n = 1
      BY <1>2, <3>1
    <3>2. CASE n # 1
      <4>1. n - 1 \in DOMAIN t /\ t[n - 1] = s[n]
        BY <1>3, <1>4, <1>5, <3>2
      <4> QED BY <4>1 DEF Range
    <3> QED BY <3>1, <3>2
  <2>2. ASSUME NEW n \in DOMAIN t PROVE t[n] \in Range(s)
    BY <1>1, <1>3, <1>4, <1>6 DEF Range
  <2>3. Head(s) \in Range(s)
    BY <1>1, <1>2 DEF Range
  <2> QED BY <1>1, <2>1, <2>2, <2>3 DEF Range
<1>8. Range(s) \subseteq Hashes /\ Head(s) \in Hashes
  BY <1>1, <1>2 DEF Range
<1>9. Len(s) = 1 => Range(t) = {}
  BY <1>4 DEF Range
<1>10. ASSUME IsInjective(s) PROVE IsInjective(t) /\ Head(s) \notin Range(t)
  <2>1. \A x, y \in 1 .. Len(s) : s[x] = s[y] => x = y
    BY <1>1, <1>10 DEF IsInjective
  <2>2. ASSUME NEW x \in DOMAIN t, NEW y \in DOMAIN t, t[x] = t[y] PROVE x = y
    <3>1. s[x + 1] = s[y + 1] /\ x + 1 \in 1 .. Len(s) /\ y + 1 \in 1 .. Len(s)
      BY <1>3, <1>4, <1>6, <2>2
    <3>2. x + 1 = y + 1
      BY <2>1, <3>1
    <3> QED BY <1>1, <1>4, <3>2
  <2>3. ASSUME NEW x \in DOMAIN t, t[x] = Head(s) PROVE FALSE
    <3>1. s[x + 1] = s[1] /\ x + 1 \in 1 .. Len(s) /\ x + 1 # 1
      BY <1>2, <1>3, <1>4, <1>6, <2>3
    <3> QED BY <1>2, <2>1, <3>1
  <2> QED BY <2>2, <2>3 DEF IsInjective, Range
<1> QED BY <1>3, <1>7, <1>8, <1>9, <1>10 DEF t

-----------------------------------------------------------------------------

LEMMA TreeInvInit == IndexInit => TreeInv
<1> SUFFICES ASSUME IndexInit PROVE TreeInv
  OBVIOUS
<1>1. IndexInv
  BY IndexInvInit
<1>2. /\ buckets = [l \in LaneIds |-> EmptyLane] /\ owns = [b \in Backends |-> {}]
      /\ ev = [b \in Backends |-> NoEvent]
  BY DEF IndexInit
<1>3. TreeTypes
  BY <1>2, EmptyIsLane DEF TreeTypes
<1>4. \A b \in Backends : EventFits(b) /\ Tracked(b)
  BY <1>2 DEF EventFits, Tracked, NoEvent
<1> QED BY <1>1, <1>3, <1>4 DEF TreeInv

\* A backend whose event and paths a step leaves alone.
LEMMA OtherKeeps ==
    ASSUME NEW c \in Backends, EventFits(c), Tracked(c), gaps \subseteq gaps',
           ev'[c] = ev[c], owns'[c] = owns[c],
           rm'[c].pc \in {"idle", "drop"} => rm[c].pc \in {"idle", "drop"},
           c \in DOMAIN laneOf /\ c \notin gaps' /\ rm'[c].pc \in {"idle", "drop"} =>
               /\ c \in DOMAIN laneOf' /\ laneOf'[c] = laneOf[c]
               /\ buckets'[laneOf[c]] = buckets[laneOf[c]]
    PROVE  EventFits(c)' /\ Tracked(c)'
<1>1. Owned(c)' = Owned(c)
  BY DEF Owned
<1>2. Due(c)' = Due(c)
  BY <1>1 DEF Due
<1>3. EventFits(c)'
  BY <1>1 DEF EventFits
<1>4. Tracked(c)'
  BY <1>2 DEF Tracked
<1> QED BY <1>3, <1>4

\* No two backends have one lane.
LEMMA OwnLane ==
    ASSUME IndexInv, NEW b \in Backends, NEW c \in DOMAIN laneOf
    PROVE  /\ Tenant(laneOf[c]) = {c} /\ laneOf[c] \in LaneIds /\ laneOf[c] # NoLane
           /\ LaneOf(c) = laneOf[c]
           /\ LaneOf(b) = laneOf[c] => b = c
BY LaneFacts DEF IndexInv, LanesBound, Tenant, LaneOf

\* A backend that owns nothing needs nothing.
LEMMA EmptyTracked ==
    ASSUME NEW b \in Backends, owns[b] = {} PROVE Tracked(b)
BY DEF Tracked

LEMMA StartEventTracks ==
    ASSUME TreeInv, NEW b \in Backends, NEW k, NEW hs, StartEvent(b, k, hs)
    PROVE  TreeTypes' /\ \A c \in Backends : EventFits(c)' /\ Tracked(c)'
<1>1. IndexInv /\ TreeTypes /\ \A c \in Backends : EventFits(c) /\ Tracked(c)
  BY DEF TreeInv
<1>t. ev \in [Backends -> EventRecords]
  BY <1>1 DEF IndexInv, IndexTypes
<1>2. PICK l \in LaneIds \cup {NoLane} :
          /\ AssignLane(b, l)
          /\ ev' = [ev EXCEPT ![b] = [pc |-> "tree", kind |-> k, rest |-> hs, lane |-> l]]
  BY DEF StartEvent
<1>3. ev[b].pc = "idle" /\ owns' = owns /\ rm' = rm /\ gaps' = gaps
  BY DEF StartEvent
<1>4. ev'[b].pc = "tree" /\ \A c \in Backends : c # b => ev'[c] = ev[c]
  BY <1>t, <1>2
<1>5. CASE UNCHANGED <<laneOf, backendOf, active, buckets>>
  <2>1. TreeTypes'
    BY <1>1, <1>3, <1>5 DEF TreeTypes
  <2>2. ASSUME NEW c \in Backends PROVE EventFits(c)' /\ Tracked(c)'
    <3>1. CASE c # b
      BY <1>1, <1>3, <1>4, <1>5, <3>1, OtherKeeps
    <3>2. CASE c = b
      <4>1. Owned(b)' = Owned(b)
        BY <1>3 DEF Owned
      <4>2. Due(b)' = Due(b)
        BY <1>3, <1>4, <4>1 DEF Due
      <4>3. EventFits(b)'
        BY <1>4 DEF EventFits
      <4>4. Tracked(b)'
        BY <1>1, <1>3, <1>5, <4>2 DEF Tracked
      <4> QED BY <3>2, <4>3, <4>4
    <3> QED BY <3>1, <3>2
  <2> QED BY <2>1, <2>2
<1>6. CASE /\ LaneOf(b) = NoLane /\ FreeLanes # {} /\ l = Min(FreeLanes)
           /\ laneOf' = Bind(laneOf, b, l) /\ backendOf' = Bind(backendOf, l, b)
           /\ active' = active \cup {l} /\ buckets' = [buckets EXCEPT ![l] = EmptyLane]
  <2>1. l \in LaneIds /\ l \notin DOMAIN backendOf
    BY <1>6, FirstFreeLane DEF FreeLanes
  <2>2. b \notin DOMAIN laneOf
    BY <1>1, <1>6, OwnLane
  <2>3. TreeTypes'
    BY <1>1, <1>3, <1>6, EmptyIsLane DEF TreeTypes
  <2>4. ASSUME NEW c \in Backends PROVE EventFits(c)' /\ Tracked(c)'
    <3>1. CASE c # b
      <4>1. c \in DOMAIN laneOf => c \in DOMAIN laneOf' /\ laneOf'[c] = laneOf[c]
        BY <1>6, <3>1 DEF Bind
      <4>2. c \in DOMAIN laneOf => laneOf[c] # l
        BY <1>1, <2>1 DEF IndexInv, LanesBound
      <4>3. c \in DOMAIN laneOf => buckets'[laneOf[c]] = buckets[laneOf[c]]
        BY <1>1, <1>6, <4>2, OwnLane DEF TreeTypes
      <4> QED BY <1>1, <1>3, <1>4, <3>1, <4>1, <4>3, OtherKeeps
    <3>2. CASE c = b
      <4>1. EventFits(b)'
        BY <1>4 DEF EventFits
      <4>2. Tracked(b)'
        BY <1>1, <1>3, <2>2 DEF Tracked
      <4> QED BY <3>2, <4>1, <4>2
    <3> QED BY <3>1, <3>2
  <2> QED BY <2>3, <2>4
<1> QED BY <1>2, <1>5, <1>6 DEF AssignLane

LEMMA TreeApplyTracks ==
    ASSUME TreeInv, NEW b \in Backends, TreeApply(b)
    PROVE  TreeTypes' /\ \A c \in Backends : EventFits(c)' /\ Tracked(c)'
<1> DEFINE e == ev[b]
           hs == e.rest
<1>1. IndexInv /\ TreeTypes /\ \A c \in Backends : EventFits(c) /\ Tracked(c)
  BY DEF TreeInv
<1>t. ev \in [Backends -> EventRecords] /\ e \in EventRecords
  BY <1>1 DEF IndexInv, IndexTypes
<1>u. hs \in Seq(Hashes) /\ e.kind \in {"Stored", "Removed", "Clear"}
  BY <1>t DEF EventRecords
<1>2. e.pc = "tree" /\ UNCHANGED <<laneOf, backendOf, active, buckets, worker, rm>>
  BY DEF TreeApply
<1> DEFINE paths == CASE e.kind = "Stored"  -> TreeStored(owns[b], hs)
                      [] e.kind = "Removed" -> TreeRemoved(owns[b], hs)
                      [] e.kind = "Clear"   -> TreeCleared
<1>3. owns' = [owns EXCEPT ![b] = paths]
  BY DEF TreeApply
<1>4. /\ e.kind = "Stored" => paths = TreeStored(owns[b], hs)
      /\ e.kind = "Removed" => paths = TreeRemoved(owns[b], hs)
      /\ e.kind = "Clear" => paths = {}
  BY DEF TreeCleared
<1>o. owns[b] \in SUBSET (Seq(Hashes) \ {<<>>})
  BY <1>1 DEF TreeTypes
<1> HIDE DEF paths
<1>5. /\ paths \in SUBSET (Seq(Hashes) \ {<<>>})
      /\ e.kind = "Stored" => { Last(p) : p \in paths } = Owned(b) \cup Range(hs)
      /\ e.kind = "Removed" => { Last(p) : p \in paths } = Owned(b) \ Range(hs)
      /\ e.kind = "Clear" => paths = {}
  <2>1. CASE e.kind = "Stored"
    BY <1>u, <1>o, <1>4, <2>1, StoredOwns DEF Owned
  <2>2. CASE e.kind = "Removed"
    BY <1>o, <1>4, <2>2, RemovedOwns DEF Owned
  <2>3. CASE e.kind = "Clear"
    BY <1>4, <2>3
  <2> QED BY <1>u, <2>1, <2>2, <2>3
<1>6. TreeTypes'
  BY <1>1, <1>2, <1>3, <1>5 DEF TreeTypes
<1>7. owns'[b] = paths /\ \A c \in Backends : c # b => owns'[c] = owns[c]
  BY <1>1, <1>3 DEF TreeTypes
<1>8. Owned(b)' = { Last(p) : p \in paths }
  BY <1>7 DEF Owned
<1> DEFINE next == IF e.lane = NoLane \/ (e.kind # "Clear" /\ hs = <<>>) THEN NoEvent
                   ELSE [e EXCEPT !.pc = IF e.kind = "Clear" THEN "retire" ELSE "project"]
<1>9. ev' = [ev EXCEPT ![b] = next]
  BY DEF TreeApply
<1>10. ev'[b] = next /\ \A c \in Backends : c # b => ev'[c] = ev[c]
  BY <1>t, <1>9
<1>11. \/ next.pc = "idle" /\ (e.lane = NoLane \/ (e.kind # "Clear" /\ hs = <<>>))
       \/ next.pc = "retire" /\ e.kind = "Clear"
       \/ next.pc = "project" /\ e.kind \in {"Stored", "Removed"} /\ next.kind = e.kind /\ next.rest = hs
  <2>1. CASE e.lane = NoLane \/ (e.kind # "Clear" /\ hs = <<>>)
    BY <2>1 DEF NoEvent
  <2>2. CASE ~ (e.lane = NoLane \/ (e.kind # "Clear" /\ hs = <<>>)) /\ e.kind = "Clear"
    <3>1. next = [e EXCEPT !.pc = "retire"]
      BY <2>2
    <3> HIDE DEF next
    <3> QED BY <1>t, <2>2, <3>1 DEF EventRecords
  <2>3. CASE ~ (e.lane = NoLane \/ (e.kind # "Clear" /\ hs = <<>>)) /\ e.kind # "Clear"
    <3>1. next = [e EXCEPT !.pc = "project"]
      BY <2>3
    <3> HIDE DEF next
    <3> QED BY <1>t, <1>u, <2>3, <3>1 DEF EventRecords
  <2> QED BY <2>1, <2>2, <2>3
<1> HIDE DEF next
<1>12. /\ gaps \subseteq gaps'
       /\ b \notin gaps' => /\ b \notin gaps /\ e.lane = LaneOf(b) /\ e.lane # NoLane
                            /\ e.kind = "Removed" => IsInjective(hs) /\ Range(hs) \subseteq Owned(b)
  BY DEF TreeApply, Owned
<1>13. ASSUME NEW c \in Backends, c # b PROVE EventFits(c)' /\ Tracked(c)'
  BY <1>1, <1>2, <1>7, <1>10, <1>12, <1>13, OtherKeeps
<1>14. EventFits(b)'
  BY <1>5, <1>7, <1>8, <1>10, <1>11, <1>12 DEF EventFits
<1>15. Tracked(b)'
  <2> SUFFICES ASSUME b \notin gaps', rm'[b].pc \in {"idle", "drop"}, owns'[b] # {}
               PROVE  b \in DOMAIN laneOf' /\ Copied(buckets'[laneOf'[b]], Due(b)')
    BY DEF Tracked
  <2> DEFINE lane == buckets[laneOf[b]]
  <2>1. b \in DOMAIN laneOf /\ laneOf[b] \in LaneIds
    BY <1>1, <1>12, OwnLane DEF LaneOf
  <2>2. lane \in Lanes
    BY <1>1, <2>1 DEF TreeTypes
  <2>3. Owned(b) \subseteq Hashes
    BY <1>1, OwnedTyped
  <2>4. Copied(lane, Owned(b))
    <3>1. CASE owns[b] # {}
      <4>1. Due(b) = Owned(b)
        BY <1>2 DEF Due
      <4> QED BY <1>1, <1>2, <1>12, <3>1, <4>1 DEF Tracked
    <3>2. CASE owns[b] = {}
      <4>1. Owned(b) = {}
        BY <3>2 DEF Owned
      <4> QED BY <2>2, <4>1, CopiedNone
    <3> QED BY <3>1, <3>2
  <2>5. e.kind \in {"Stored", "Removed"}
    BY <1>5, <1>7, <1>u
  <2>6. Due(b)' \subseteq Owned(b)
    <3>1. CASE next.pc = "project"
      <4>1. CASE e.kind = "Stored"
        BY <1>5, <1>8, <1>10, <1>11, <3>1, <4>1 DEF Due
      <4>2. CASE e.kind = "Removed"
        BY <1>5, <1>8, <1>10, <1>11, <1>12, <3>1, <4>2 DEF Due
      <4> QED BY <2>5, <4>1, <4>2
    <3>2. CASE next.pc # "project"
      <4>1. hs = <<>> /\ Range(hs) = {}
        BY <1>11, <1>12, <2>5, <3>2 DEF Range
      <4> QED BY <1>5, <1>8, <1>10, <2>5, <3>2, <4>1 DEF Due
    <3> QED BY <3>1, <3>2
  <2> HIDE DEF lane
  <2>7. Copied(lane, Due(b)')
    BY <2>2, <2>3, <2>4, <2>6, CopiedFewer
  <2> QED BY <1>2, <2>1, <2>7 DEF lane
<1> QED BY <1>6, <1>13, <1>14, <1>15

LEMMA ProjectTracks ==
    ASSUME TreeInv, NEW b \in Backends, Project(b)
    PROVE  TreeTypes' /\ \A c \in Backends : EventFits(c)' /\ Tracked(c)'
<1> DEFINE e == ev[b]
           h == Head(e.rest)
           lane == buckets[e.lane]
           new == IF e.kind = "Stored" THEN LaneInsert(lane, h) ELSE LaneDelete(lane, h)
<1>1. IndexInv /\ TreeTypes /\ \A c \in Backends : EventFits(c) /\ Tracked(c)
  BY DEF TreeInv
<1>t. ev \in [Backends -> EventRecords] /\ e \in EventRecords
  BY <1>1 DEF IndexInv, IndexTypes
<1>2. /\ e.pc = "project" /\ UNCHANGED <<laneOf, backendOf, active, owns, worker, rm>>
      /\ buckets' = IF e.lane \in active THEN [buckets EXCEPT ![e.lane] = new] ELSE buckets
      /\ ev' = [ev EXCEPT ![b] = IF Len(e.rest) = 1 THEN NoEvent ELSE [e EXCEPT !.rest = Tail(@)]]
      /\ gaps' = gaps \cup (IF LaneOf(b) # e.lane THEN {b} \cup Tenant(e.lane)
                            ELSE IF e.kind = "Stored" /\ buckets' = buckets THEN {b} ELSE {})
  BY DEF Project
<1>3. e.rest \in Seq(Hashes) /\ e.rest # <<>> /\ e.lane \in LaneIds /\ e.kind \in {"Stored", "Removed"}
  BY <1>1, <1>t, <1>2 DEF IndexInv, IndexTypes, EventRecords, EventFits
<1>4. lane \in Lanes
  BY <1>1, <1>3 DEF TreeTypes
<1>5. /\ h \in Hashes /\ Tail(e.rest) \in Seq(Hashes)
      /\ Range(e.rest) = {h} \cup Range(Tail(e.rest)) /\ Range(e.rest) \subseteq Hashes
      /\ Len(e.rest) = 1 => Range(Tail(e.rest)) = {}
      /\ IsInjective(e.rest) => IsInjective(Tail(e.rest)) /\ h \notin Range(Tail(e.rest))
  BY <1>3, NextHash
<1> DEFINE next == IF Len(e.rest) = 1 THEN NoEvent ELSE [e EXCEPT !.rest = Tail(@)]
<1>6. ev'[b] = next /\ \A c \in Backends : c # b => ev'[c] = ev[c]
  BY <1>t, <1>2
<1>7. \/ next.pc = "idle" /\ Range(Tail(e.rest)) = {}
      \/ next.pc = "project" /\ next.kind = e.kind /\ next.rest = Tail(e.rest)
  <2>1. CASE Len(e.rest) = 1
    BY <1>5, <2>1 DEF NoEvent
  <2>2. CASE Len(e.rest) # 1
    <3>1. next = [e EXCEPT !.rest = Tail(e.rest)]
      BY <2>2
    <3> HIDE DEF next
    <3> QED BY <1>t, <1>2, <3>1 DEF EventRecords
  <2> QED BY <2>1, <2>2
<1> HIDE DEF next
<1>8. new \in Lanes
  BY <1>4, <1>5, LaneInsertFacts, LaneDeleteFacts
<1> HIDE DEF new, h
<1>9. TreeTypes'
  BY <1>1, <1>2, <1>8 DEF TreeTypes
<1>10. \A l \in LaneIds : l # e.lane => buckets'[l] = buckets[l]
  BY <1>1, <1>2 DEF TreeTypes
<1>11. ASSUME NEW c \in Backends, c # b PROVE EventFits(c)' /\ Tracked(c)'
  <2>1. ASSUME c \in DOMAIN laneOf, c \notin gaps' PROVE buckets'[laneOf[c]] = buckets[laneOf[c]]
    <3>1. laneOf[c] # e.lane
      BY <1>1, <1>2, <1>11, <2>1, OwnLane
    <3> QED BY <1>1, <1>10, <2>1, <3>1, OwnLane
  <2> QED BY <1>1, <1>2, <1>6, <1>11, <2>1, OtherKeeps
<1>12. Owned(b)' = Owned(b)
  BY <1>2 DEF Owned
<1>13. EventFits(b)'
  <2>1. b \notin gaps' => b \notin gaps
    BY <1>2
  <2>2. b \notin gaps /\ e.kind = "Removed" => IsInjective(e.rest) /\ Range(e.rest) \cap Owned(b) = {}
    BY <1>1, <1>2 DEF EventFits
  <2> QED BY <1>3, <1>5, <1>6, <1>7, <1>12, <2>1, <2>2 DEF EventFits
<1>14. Tracked(b)'
  <2> SUFFICES ASSUME b \notin gaps', rm'[b].pc \in {"idle", "drop"}, owns'[b] # {}
               PROVE  b \in DOMAIN laneOf' /\ Copied(buckets'[laneOf'[b]], Due(b)')
    BY DEF Tracked
  <2>1. b \in DOMAIN laneOf /\ Copied(buckets[laneOf[b]], Due(b)) /\ b \notin gaps
    BY <1>1, <1>2 DEF Tracked
  <2>2. laneOf[b] = e.lane /\ ~ (e.kind = "Stored" /\ buckets' = buckets)
    BY <1>1, <1>2, <2>1, OwnLane
  <2>3. Owned(b) \subseteq Hashes
    BY <1>1, OwnedTyped
  <2>4. CASE e.kind = "Stored"
    <3>1. Due(b) = Owned(b) \ Range(e.rest) /\ Due(b) \subseteq Hashes
      BY <1>2, <2>3, <2>4 DEF Due
    <3>2. Due(b)' = Owned(b) \ Range(Tail(e.rest))
      BY <1>6, <1>7, <1>12, <2>4 DEF Due
    <3>3. Due(b)' \subseteq Due(b) \cup {h}
      BY <1>5, <3>1, <3>2
    <3>4. buckets' = [buckets EXCEPT ![e.lane] = new] /\ new = LaneInsert(lane, h)
      BY <1>2, <2>2, <2>4 DEF new
    <3>5. new # lane /\ buckets'[e.lane] = new
      BY <1>1, <1>3, <2>2, <2>4, <3>4 DEF TreeTypes
    <3>6. Copied(new, Due(b)')
      BY <1>4, <1>5, <2>1, <2>2, <3>1, <3>3, <3>4, <3>5, InsertCopies
    <3> QED BY <1>2, <2>1, <2>2, <3>5, <3>6
  <2>5. CASE e.kind = "Removed"
    <3>1. Due(b) = Owned(b) \cup Range(e.rest) /\ Due(b) \subseteq Hashes
      BY <1>2, <1>5, <2>3, <2>5 DEF Due
    <3>2. Due(b)' = Owned(b) \cup Range(Tail(e.rest))
      BY <1>6, <1>7, <1>12, <2>5 DEF Due
    <3>3. Due(b)' = Due(b) \ {h} /\ h \in Due(b)
      <4>1. IsInjective(e.rest) /\ Range(e.rest) \cap Owned(b) = {}
        BY <1>1, <1>2, <2>1, <2>5 DEF EventFits
      <4> QED BY <1>5, <3>1, <3>2, <4>1
    <3>4. CASE e.lane \in active
      <4>1. buckets'[e.lane] = LaneDelete(lane, h)
        BY <1>1, <1>2, <1>3, <2>5, <3>4 DEF TreeTypes, new
      <4>2. Copied(LaneDelete(lane, h), Due(b) \ {h})
        BY <1>4, <2>1, <2>2, <3>1, <3>3, DeleteCopies
      <4> QED BY <1>2, <2>1, <2>2, <3>3, <4>1, <4>2
    <3>5. CASE e.lane \notin active
      <4>1. Copied(lane, Due(b)')
        BY <1>4, <2>1, <2>2, <3>1, <3>3, CopiedFewer
      <4> QED BY <1>2, <2>1, <2>2, <3>5, <4>1
    <3> QED BY <3>4, <3>5
  <2> QED BY <1>3, <2>4, <2>5
<1> QED BY <1>9, <1>11, <1>13, <1>14

\* A lane that is swept is the clearing backend's, and that backend owns
\* nothing, or its tenant is recorded in gaps.
LEMMA ClearLaneTracks ==
    ASSUME TreeInv, NEW b \in Backends, ClearLane(b)
    PROVE  TreeTypes' /\ \A c \in Backends : EventFits(c)' /\ Tracked(c)'
<1> DEFINE l == ev[b].lane
           next == [ev[b] EXCEPT !.pc = "activate"]
<1>1. IndexInv /\ TreeTypes /\ \A c \in Backends : EventFits(c) /\ Tracked(c)
  BY DEF TreeInv
<1>t. ev \in [Backends -> EventRecords]
  BY <1>1 DEF IndexInv, IndexTypes
<1>2. /\ ev[b].pc = "retire" /\ buckets' = [buckets EXCEPT ![l] = EmptyLane]
      /\ ev' = [ev EXCEPT ![b] = next] /\ UNCHANGED <<laneOf, backendOf, owns, worker, rm>>
      /\ gaps' = gaps \cup (IF LaneOf(b) # l THEN Tenant(l) ELSE {})
  BY DEF ClearLane
<1>3. next.pc = "activate"
  BY <1>t DEF EventRecords
<1> HIDE DEF next
<1>4. ev'[b] = next /\ \A c \in Backends : c # b => ev'[c] = ev[c]
  BY <1>t, <1>2
<1>5. TreeTypes'
  BY <1>1, <1>2, EmptyIsLane DEF TreeTypes
<1>6. owns'[b] = {}
  BY <1>1, <1>2 DEF EventFits
<1>7. EventFits(b)' /\ Tracked(b)'
  BY <1>3, <1>4, <1>6 DEF EventFits, Tracked
<1>8. ASSUME NEW c \in Backends, c # b PROVE EventFits(c)' /\ Tracked(c)'
  <2>1. ASSUME c \in DOMAIN laneOf, c \notin gaps' PROVE buckets'[laneOf[c]] = buckets[laneOf[c]]
    <3>1. laneOf[c] # l
      BY <1>1, <1>2, <1>8, <2>1, OwnLane
    <3> QED BY <1>1, <1>2, <2>1, <3>1, OwnLane DEF TreeTypes
  <2> QED BY <1>1, <1>2, <1>4, <1>8, <2>1, OtherKeeps
<1> QED BY <1>5, <1>7, <1>8

\* An event that ends without touching the lane.
LEMMA EventEndTracks ==
    ASSUME TreeInv, NEW b \in Backends, TreeGone(b) \/ ClearLaneEnds(b)
    PROVE  TreeTypes' /\ \A c \in Backends : EventFits(c)' /\ Tracked(c)'
<1>1. IndexInv /\ TreeTypes /\ \A c \in Backends : EventFits(c) /\ Tracked(c)
  BY DEF TreeInv
<1>t. ev \in [Backends -> EventRecords]
  BY <1>1 DEF IndexInv, IndexTypes
<1>2. /\ ev[b].pc # "project" /\ ev' = [ev EXCEPT ![b] = NoEvent]
      /\ UNCHANGED <<laneOf, buckets, owns, rm, gaps>>
  BY DEF TreeGone, ClearLaneEnds
<1>3. ev'[b].pc = "idle" /\ \A c \in Backends : c # b => ev'[c] = ev[c]
  BY <1>t, <1>2 DEF NoEvent
<1>4. TreeTypes'
  BY <1>1, <1>2 DEF TreeTypes
<1>5. EventFits(b)'
  BY <1>3 DEF EventFits
<1>6. Tracked(b)'
  <2>1. Owned(b)' = Owned(b)
    BY <1>2 DEF Owned
  <2>2. Due(b)' = Due(b)
    BY <1>2, <1>3, <2>1 DEF Due
  <2> QED BY <1>1, <1>2, <2>2 DEF Tracked
<1>7. ASSUME NEW c \in Backends, c # b PROVE EventFits(c)' /\ Tracked(c)'
  BY <1>1, <1>2, <1>3, <1>7, OtherKeeps
<1> QED BY <1>4, <1>5, <1>6, <1>7

\* A removal takes the lane and then the paths; in between nothing is promised.
LEMMA StartRemovalTracks ==
    ASSUME TreeInv, NEW b \in Backends, StartRemoval(b)
    PROVE  TreeTypes' /\ \A c \in Backends : EventFits(c)' /\ Tracked(c)'
<1>1. IndexInv /\ TreeTypes /\ \A c \in Backends : EventFits(c) /\ Tracked(c)
  BY DEF TreeInv
<1>t. rm \in [Backends -> RemovalRecords]
  BY <1>1 DEF IndexInv, IndexTypes
<1>2. /\ laneOf' = Unbind(laneOf, b) /\ UNCHANGED <<buckets, owns, ev, gaps>>
      /\ rm' = [rm EXCEPT ![b] = [pc |-> IF LaneOf(b) = NoLane THEN "tree" ELSE "retire",
                                  lane |-> LaneOf(b)]]
  BY DEF StartRemoval
<1>3. rm'[b].pc \in {"tree", "retire"} /\ \A c \in Backends : c # b => rm'[c] = rm[c]
  BY <1>t, <1>2
<1>4. TreeTypes'
  BY <1>1, <1>2 DEF TreeTypes
<1>5. EventFits(b)'
  <2>1. Owned(b)' = Owned(b)
    BY <1>2 DEF Owned
  <2> QED BY <1>1, <1>2, <2>1 DEF EventFits
<1>6. Tracked(b)'
  BY <1>3 DEF Tracked
<1>7. ASSUME NEW c \in Backends, c # b PROVE EventFits(c)' /\ Tracked(c)'
  <2>1. c \in DOMAIN laneOf => c \in DOMAIN laneOf' /\ laneOf'[c] = laneOf[c]
    BY <1>2, <1>7 DEF Unbind
  <2> QED BY <1>1, <1>2, <1>3, <1>7, <2>1, OtherKeeps
<1> QED BY <1>4, <1>5, <1>6, <1>7

LEMMA UnassignTracks ==
    ASSUME TreeInv, NEW b \in Backends, Unassign(b)
    PROVE  TreeTypes' /\ \A c \in Backends : EventFits(c)' /\ Tracked(c)'
<1> DEFINE l == rm[b].lane
<1>1. IndexInv /\ TreeTypes /\ \A c \in Backends : EventFits(c) /\ Tracked(c)
  BY DEF TreeInv
<1>t. rm \in [Backends -> RemovalRecords]
  BY <1>1 DEF IndexInv, IndexTypes
<1>2. /\ rm[b].pc \in {"retire", "unbind"} /\ UNCHANGED <<laneOf, owns, ev, gaps>>
      /\ buckets' = [buckets EXCEPT ![l] = EmptyLane] \/ buckets' = buckets
      /\ \E p \in {"unbind", "tree"} : rm' = [rm EXCEPT ![b] = [rm[b] EXCEPT !.pc = p]]
  BY DEF Unassign
<1>3. rm'[b].pc \in {"unbind", "tree"} /\ \A c \in Backends : c # b => rm'[c] = rm[c]
  BY <1>t, <1>2 DEF RemovalRecords
<1>4. TreeTypes'
  BY <1>1, <1>2, EmptyIsLane DEF TreeTypes
<1>5. EventFits(b)'
  <2>1. Owned(b)' = Owned(b)
    BY <1>2 DEF Owned
  <2> QED BY <1>1, <1>2, <2>1 DEF EventFits
<1>6. Tracked(b)'
  BY <1>3 DEF Tracked
<1>7. ASSUME NEW c \in Backends, c # b PROVE EventFits(c)' /\ Tracked(c)'
  <2>1. c \in DOMAIN laneOf => laneOf[c] # l
    BY <1>1, <1>2, <1>7 DEF IndexInv, LanesBound
  <2>2. c \in DOMAIN laneOf => buckets'[laneOf[c]] = buckets[laneOf[c]]
    BY <1>1, <1>2, <2>1, OwnLane DEF TreeTypes
  <2> QED BY <1>1, <1>2, <1>3, <1>7, <2>2, OtherKeeps
<1> QED BY <1>4, <1>5, <1>6, <1>7

LEMMA TreeRemovalTracks ==
    ASSUME TreeInv, NEW b \in Backends, NEW handle, RemoveFromTree(b, handle)
    PROVE  TreeTypes' /\ \A c \in Backends : EventFits(c)' /\ Tracked(c)'
<1>1. IndexInv /\ TreeTypes /\ \A c \in Backends : EventFits(c) /\ Tracked(c)
  BY DEF TreeInv
<1>t. rm \in [Backends -> RemovalRecords]
  BY <1>1 DEF IndexInv, IndexTypes
<1>2. /\ owns' = [owns EXCEPT ![b] = {}] /\ UNCHANGED <<laneOf, buckets, ev, gaps>>
      /\ rm' = [rm EXCEPT ![b] = IF handle = "index" THEN NoRemoval ELSE [@ EXCEPT !.pc = "drop"]]
  BY DEF RemoveFromTree, TreeCleared
<1>3. \A c \in Backends : c # b => rm'[c] = rm[c] /\ owns'[c] = owns[c]
  BY <1>1, <1>t, <1>2 DEF TreeTypes
<1>4. owns'[b] = {} /\ Owned(b)' = {}
  BY <1>1, <1>2 DEF TreeTypes, Owned
<1>5. TreeTypes'
  BY <1>1, <1>2 DEF TreeTypes
<1>6. EventFits(b)' /\ Tracked(b)'
  BY <1>1, <1>2, <1>4 DEF EventFits, Tracked
<1>7. ASSUME NEW c \in Backends, c # b PROVE EventFits(c)' /\ Tracked(c)'
  BY <1>1, <1>2, <1>3, <1>7, OtherKeeps
<1> QED BY <1>5, <1>6, <1>7

LEMMA DropHandleTracks ==
    ASSUME TreeInv, NEW b \in Backends, DropHandle(b)
    PROVE  TreeTypes' /\ \A c \in Backends : EventFits(c)' /\ Tracked(c)'
<1>1. TreeTypes /\ \A c \in Backends : EventFits(c)
  BY DEF TreeInv
<1>2. owns' = [c \in Backends |-> {}] /\ UNCHANGED <<buckets, ev, gaps>>
  BY DEF DropHandle
<1>3. TreeTypes'
  BY <1>1, <1>2 DEF TreeTypes
<1>4. ASSUME NEW c \in Backends PROVE EventFits(c)' /\ Tracked(c)'
  <2>1. owns'[c] = {} /\ Owned(c)' = {}
    BY <1>2 DEF Owned
  <2> QED BY <1>1, <1>2, <2>1 DEF EventFits, Tracked
<1> QED BY <1>3, <1>4

LEMMA TreeInvStep == TreeInv /\ [IndexNext]_indexVars => TreeInv'
<1> SUFFICES ASSUME TreeInv, [IndexNext]_indexVars PROVE TreeInv'
  OBVIOUS
<1>1. IndexInv'
  BY IndexInvStep DEF TreeInv
<1>2. TreeTypes' /\ \A c \in Backends : EventFits(c)' /\ Tracked(c)'
  <2>1. CASE IndexNext
    <3>1. PICK b \in Backends :
            \/ \E k, hs : StartEvent(b, k, hs)
            \/ TreeApply(b) \/ Project(b) \/ ClearLane(b) \/ TreeGone(b) \/ ClearLaneEnds(b)
            \/ StartRemoval(b) \/ Unassign(b) \/ DropHandle(b)
            \/ \E handle : RemoveFromTree(b, handle)
      BY <2>1 DEF IndexNext
    <3>2. CASE \E k, hs : StartEvent(b, k, hs)
      BY <3>2, StartEventTracks
    <3>3. CASE TreeApply(b)
      BY <3>3, TreeApplyTracks
    <3>4. CASE Project(b)
      BY <3>4, ProjectTracks
    <3>5. CASE ClearLane(b)
      BY <3>5, ClearLaneTracks
    <3>6. CASE TreeGone(b) \/ ClearLaneEnds(b)
      BY <3>6, EventEndTracks
    <3>7. CASE StartRemoval(b)
      BY <3>7, StartRemovalTracks
    <3>8. CASE Unassign(b)
      BY <3>8, UnassignTracks
    <3>9. CASE DropHandle(b)
      BY <3>9, DropHandleTracks
    <3>10. CASE \E handle : RemoveFromTree(b, handle)
      BY <3>10, TreeRemovalTracks
    <3> QED BY <3>1, <3>2, <3>3, <3>4, <3>5, <3>6, <3>7, <3>8, <3>9, <3>10
  <2>2. CASE UNCHANGED indexVars
    <3>1. TreeTypes'
      BY <2>2 DEF indexVars, TreeInv, TreeTypes
    <3>2. ASSUME NEW c \in Backends PROVE EventFits(c)' /\ Tracked(c)'
      BY <2>2, <3>2, OtherKeeps DEF indexVars, TreeInv
    <3> QED BY <3>1, <3>2
  <2> QED BY <2>1, <2>2
<1> QED BY <1>1, <1>2 DEF TreeInv

-----------------------------------------------------------------------------

\* A block the tree matches is one the backend owns: the matched blocks are the
\* first ones of the chain, as many as find_matches() counts.
LEMMA MatchedIsOwned ==
    ASSUME TreeTypes, NEW b \in Backends, NEW hs \in Seq(Hashes), NEW n \in 1 .. FindMatches(hs, b)
    PROVE  n \in 1 .. Len(hs) /\ hs[n] \in Owned(b)
<1> DEFINE D == { k \in 1 .. Len(hs) : \A m \in 1 .. k : SubSeq(hs, 1, m) \in owns[b] }
<1>1. Len(hs) \in Nat
  BY LenProperties
<1>2. FindMatches(hs, b) = Cardinality(D)
  BY DEF FindMatches
<1>3. IsFiniteSet(1 .. Len(hs)) /\ D \subseteq 1 .. Len(hs)
  BY <1>1, FS_Interval
<1>4. IsFiniteSet(D) /\ Cardinality(D) \in Nat
  BY <1>3, FS_Subset, FS_CardinalityType
<1>5. n \in Nat /\ n >= 1 /\ n <= Cardinality(D)
  BY <1>2, <1>4
<1>6. n \in D
  <2> SUFFICES ASSUME n \notin D PROVE FALSE
    OBVIOUS
  <2>1. ASSUME NEW k \in D PROVE k \in 1 .. (n - 1)
    <3>1. ASSUME k >= n PROVE FALSE
      <4>1. n \in 1 .. Len(hs) /\ \A m \in 1 .. n : m \in 1 .. k
        BY <1>1, <1>5, <2>1, <3>1
      <4>2. n \in D
        BY <2>1, <4>1
      <4> QED BY <4>2
    <3>2. k \in Nat /\ k >= 1
      BY <1>1, <2>1
    <3> QED BY <1>5, <3>1, <3>2
  <2>2. IsFiniteSet(1 .. (n - 1)) /\ Cardinality(1 .. (n - 1)) = n - 1
    <3> DEFINE k == n - 1
    <3>1. k \in Int /\ 1 \in Int /\ (1 > k => k = 0) /\ k - 1 + 1 = k
      BY <1>5
    <3> HIDE DEF k
    <3>2. IsFiniteSet(1 .. k) /\ Cardinality(1 .. k) = IF 1 > k THEN 0 ELSE k - 1 + 1
      BY <3>1, FS_Interval
    <3>3. Cardinality(1 .. k) = k
      BY <3>1, <3>2
    <3> QED BY <3>2, <3>3 DEF k
  <2> HIDE DEF D
  <2>3. Cardinality(D) <= n - 1
    BY <2>1, <2>2, FS_Subset
  <2> QED BY <1>4, <1>5, <2>3
<1>7. n \in 1 .. Len(hs) /\ SubSeq(hs, 1, n) \in owns[b]
  BY <1>5, <1>6
<1>8. Last(SubSeq(hs, 1, n)) = hs[n]
  BY <1>7, PathEnds
<1> QED BY <1>7, <1>8 DEF Owned

\* A lane with a copy for each hash has the fingerprint of each.
LEMMA CopiedIsHeld ==
    ASSUME NEW lane \in Lanes, NEW O \in SUBSET Hashes, Copied(lane, O), NEW h \in O
    PROVE  LET fp == Probe[h].fp
               a  == Probe[h].bucket
           IN  Holds(lane, a, fp) \/ Holds(lane, Alt[a][fp], fp)
<1> DEFINE fp == Probe[h].fp
           a == Probe[h].bucket
           M == Mapped(O, a, fp)
<1>1. h \in Hashes /\ a \in Buckets /\ fp \in Fps /\ Alt[a][fp] \in Buckets
  BY ProbeFacts
<1>2. h \in M /\ M \subseteq Hashes
  BY <1>1, MapsItself DEF Mapped
<1>3. IsFiniteSet(M)
  BY <1>2, FiniteConfig, FS_Subset
<1> HIDE DEF M
<1>4. Cardinality(M) \in Nat /\ Cardinality(M) # 0
  BY <1>2, <1>3, FS_EmptySet, FS_CardinalityType
<1>5. Cardinality(M) <= Found(lane, a, fp)
  BY <1>1 DEF Copied, M
<1>6. lane[a][fp] \in Nat /\ lane[Alt[a][fp]][fp] \in Nat
  BY <1>1 DEF Lanes
<1> HIDE DEF a, fp
<1>7. lane[a][fp] > 0 \/ lane[Alt[a][fp]][fp] > 0
  BY <1>4, <1>5, <1>6 DEF Found
<1> QED BY <1>7 DEF Holds, a, fp

\* Whatever events and removals of any number of backends overlap, and however
\* fingerprints collide, a block that the tree matches for a backend at rest and
\* the lane's query misses is in its alternate bucket, unless the lane lost track
\* for a reason gaps records.
THEOREM LanesLoseNothing == IndexSpec => []MissesAreDisplaced
<1>1. TreeInv => MissesAreDisplaced
  <2> SUFFICES ASSUME TreeInv, NEW b \in DOMAIN laneOf \ gaps, ev[b].pc = "idle", rm[b].pc = "idle",
                      NEW hs \in Chains, NEW n \in 1 .. FindMatches(hs, b)
               PROVE  LET fp == Probe[hs[n]].fp
                          a  == Probe[hs[n]].bucket
                      IN  \/ Holds(buckets[laneOf[b]], a, fp)
                          \/ Holds(buckets[laneOf[b]], Alt[a][fp], fp)
    BY DEF MissesAreDisplaced, LaneMisses
  <2>1. IndexInv /\ TreeTypes /\ b \in Backends /\ Tracked(b)
    BY DEF TreeInv, IndexInv
  <2>2. hs \in Seq(Hashes)
    BY LocalIndexAssumption
  <2>3. hs[n] \in Owned(b) /\ Owned(b) \subseteq Hashes
    BY <2>1, <2>2, MatchedIsOwned, OwnedTyped
  <2>4. owns[b] # {} /\ Due(b) = Owned(b)
    BY <2>3 DEF Owned, Due
  <2>5. Copied(buckets[laneOf[b]], Owned(b)) /\ buckets[laneOf[b]] \in Lanes
    BY <2>1, <2>4, OwnLane DEF Tracked, TreeTypes
  <2> QED BY <2>3, <2>5, CopiedIsHeld
<1> QED BY <1>1, TreeInvInit, TreeInvStep, PTL DEF IndexSpec

-----------------------------------------------------------------------------
(* Admission by token bucket.  The invariant that carries the rate limit says *)
(* what the bucket still holds as well: for every token taken, the tokens     *)
(* taken since and the tokens left together fit in one burst and what the     *)
(* rate has added until the last refill.                                      *)

Quotas == [priority : {"Premium", "Normal", "Background"}, rate : Nat \cup {NoLimit},
           concurrent : Nat \cup {NoLimit}, reserved : 0 .. 100]
TenantBuckets == [quota : Quotas, tokens : Int, last : Nat, flying : Int]

WithinRate(bk, s) ==
    bk.quota.rate # NoLimit =>
        /\ bk.tokens >= 0 /\ bk.tokens <= Burst(bk.quota)
        /\ \A i \in 1 .. Len(s) :
            bk.tokens + (Len(s) - i + 1) * Unit
                <= Burst(bk.quota) + (bk.last - s[i]) * bk.quota.rate
        /\ \A i, j \in 1 .. Len(s) : i <= j =>
            (j - i + 1) * Unit <= Burst(bk.quota) + (s[j] - s[i]) * bk.quota.rate

RequestRecords ==
    [pc : {"new", "token", "limits", "done", "running", "ended"},
     tenant : Tenants \cup {NoRequest.tenant}, now : Nat,
     answer : {"none", "Admitted", "RateLimited", "Queued"}]

TenantInv ==
    /\ DOMAIN bucketOf \subseteq Tenants
    /\ bucketOf \in [DOMAIN bucketOf -> TenantBuckets]
    /\ time \in Nat
    /\ request \in [Requests -> RequestRecords]
    /\ taken \in [Tenants -> Seq(Nat)]
    /\ \A r \in Requests :
        /\ request[r].pc # "new" => request[r].tenant \in Tenants
        /\ request[r].pc \in {"token", "limits", "running"} => request[r].tenant \in DOMAIN bucketOf
    /\ \A t \in Tenants \ DOMAIN bucketOf : taken[t] = <<>>
    /\ \A t \in DOMAIN bucketOf : WithinRate(bucketOf[t], taken[t])

\* Products are opaque to the provers; these are the three facts used of them.
LEMMA OneMore ==
    ASSUME NEW n \in Int, NEW u \in Int PROVE (n + 1) * u = n * u + u
OBVIOUS
LEMMA Distributes ==
    ASSUME NEW a \in Int, NEW b \in Int, NEW r \in Int PROVE (a + b) * r = a * r + b * r
OBVIOUS
LEMMA ProductsAreNumbers ==
    ASSUME NEW a \in Int, NEW b \in Int PROVE a * b \in Int
OBVIOUS
LEMMA ZeroTimes ==
    ASSUME NEW a \in Int, NEW b \in Int, a = 0 PROVE a * b = 0
OBVIOUS
LEMMA Elapsed ==
    ASSUME NEW a \in Int, NEW b \in Int, NEW c \in Int, NEW r \in Int
    PROVE  (c - a) * r = (b - a) * r + (c - b) * r
<1>1. c - a = (b - a) + (c - b) /\ b - a \in Int /\ c - b \in Int
  OBVIOUS
<1> QED BY <1>1, Distributes
LEMMA AddGain ==
    ASSUME NEW x \in Int, NEW y \in Int, NEW g \in Int, NEW u \in Int, NEW v \in Int, NEW w \in Int,
           x <= y + g, y + u <= v + w
    PROVE  x + u <= v + (w + g)
OBVIOUS
LEMMA NatProduct ==
    ASSUME NEW a \in Nat, NEW b \in Nat PROVE a * b \in Nat
OBVIOUS

LEMMA MinOfTwo ==
    ASSUME NEW a \in Int, NEW b \in Int
    PROVE  Min({a, b}) = IF a <= b THEN a ELSE b
<1> DEFINE m == IF a <= b THEN a ELSE b
<1>1. m \in {a, b} /\ \A y \in {a, b} : m <= y
  OBVIOUS
<1>2. \A x \in {a, b} : (\A y \in {a, b} : x <= y) => x = m
  OBVIOUS
<1> HIDE DEF m
<1>3. (CHOOSE x \in {a, b} : \A y \in {a, b} : x <= y) = m
  BY <1>1, <1>2
<1> QED BY <1>3 DEF Min, m

LEMMA QuotaTyped == \A t \in Tenants : ResolveQuota(t) \in Quotas
BY TenantAssumption DEF ResolveQuota, OrDefault, Quotas, NoLimit

LEMMA BurstTyped == \A q \in Quotas : Burst(q) \in Nat /\ Burst(q) >= Unit
BY TenantAssumption DEF Quotas, Burst, NoLimit

\* What refill() does to the fields of a bucket.
LEMMA RefillFields ==
    ASSUME NEW bk \in TenantBuckets, NEW now \in Nat, bk.quota.rate # NoLimit
    PROVE  LET b == Refill(bk, now) IN
           /\ b \in TenantBuckets /\ b.quota = bk.quota /\ b.flying = bk.flying
           /\ now <= bk.last => b = bk
           /\ now > bk.last =>
                /\ b.last = now
                /\ b.tokens = IF bk.tokens + (now - bk.last) * bk.quota.rate <= Burst(bk.quota)
                              THEN bk.tokens + (now - bk.last) * bk.quota.rate
                              ELSE Burst(bk.quota)
<1>1. CASE now <= bk.last
  BY <1>1 DEF Refill, TenantBuckets
<1>2. CASE now > bk.last
  <2> DEFINE new == bk.tokens + (now - bk.last) * bk.quota.rate
  <2>1. bk.quota.rate \in Nat /\ bk.tokens \in Int /\ bk.last \in Nat /\ Burst(bk.quota) \in Int
    BY BurstTyped DEF TenantBuckets, Quotas
  <2>2. new \in Int
    BY <2>1, ProductsAreNumbers
  <2> HIDE DEF new
  <2> DEFINE m == Min({new, Burst(bk.quota)})
  <2>3. m = IF new <= Burst(bk.quota) THEN new ELSE Burst(bk.quota)
    BY <2>1, <2>2, MinOfTwo
  <2>4. m \in Int
    BY <2>1, <2>2, <2>3
  <2>5. ~(now <= bk.last)
    BY <1>2, <2>1
  <2>6. Refill(bk, now) = [bk EXCEPT !.tokens = m, !.last = now]
    BY <2>5 DEF Refill, new
  <2> HIDE DEF m
  <2>7. /\ Refill(bk, now).tokens = m /\ Refill(bk, now).last = now
        /\ Refill(bk, now).quota = bk.quota /\ Refill(bk, now).flying = bk.flying
        /\ Refill(bk, now) \in TenantBuckets
    BY <2>4, <2>6 DEF TenantBuckets
  <2> QED BY <1>2, <2>1, <2>3, <2>7 DEF new
<1>3. now \in Nat /\ bk.last \in Nat
  BY DEF TenantBuckets
<1> QED BY <1>1, <1>2, <1>3

LEMMA BucketFields ==
    ASSUME NEW bk \in TenantBuckets
    PROVE  /\ bk.quota \in Quotas /\ bk.tokens \in Int /\ bk.last \in Nat
           /\ Burst(bk.quota) \in Nat /\ Burst(bk.quota) >= Unit /\ Unit \in Nat \ {0}
           /\ bk.quota.rate # NoLimit => bk.quota.rate \in Nat
BY BurstTyped, TenantAssumption DEF TenantBuckets, Quotas

\* A refill adds no more than the rate allows.
LEMMA RefillKeeps ==
    ASSUME NEW bk \in TenantBuckets, NEW now \in Nat, NEW s \in Seq(Nat),
           bk.quota.rate # NoLimit, WithinRate(bk, s)
    PROVE  WithinRate(Refill(bk, now), s)
<1> DEFINE b == Refill(bk, now)
           n == Len(s)
           B == Burst(bk.quota)
           q == bk.quota.rate
<1>1. /\ q \in Nat /\ B \in Nat /\ bk.tokens \in Int /\ bk.last \in Nat /\ Unit \in Nat
      /\ n \in Nat /\ \A i \in 1 .. n : s[i] \in Nat
  BY BucketFields, LenProperties
<1>2. /\ b.quota = bk.quota
      /\ now <= bk.last => b = bk
      /\ now > bk.last => /\ b.last = now
                          /\ b.tokens = IF bk.tokens + (now - bk.last) * q <= B
                                        THEN bk.tokens + (now - bk.last) * q ELSE B
  BY RefillFields
<1>w. /\ bk.tokens >= 0 /\ bk.tokens <= B
      /\ \A i \in 1 .. n : bk.tokens + (n - i + 1) * Unit <= B + (bk.last - s[i]) * q
      /\ \A i, j \in 1 .. n : i <= j => (j - i + 1) * Unit <= B + (s[j] - s[i]) * q
  BY DEF WithinRate
<1>3. CASE now <= bk.last
  BY <1>2, <1>3
<1>4. CASE now > bk.last
  <2>i. bk.last \in Int /\ now \in Int /\ q \in Int /\ Unit \in Int
    BY <1>1
  <2> DEFINE gain == (now - bk.last) * q
  <2>1. gain \in Nat
    <3>1. now - bk.last \in Nat
      BY <1>1, <1>4
    <3> QED BY <1>1, <3>1, NatProduct
  <2> HIDE DEF gain
  <2>2. /\ b.last = now /\ b.tokens \in Int /\ b.tokens >= 0 /\ b.tokens <= B
        /\ b.tokens <= bk.tokens + gain
    BY <1>1, <1>2, <1>4, <1>w, <2>1 DEF gain
  <2>3. ASSUME NEW i \in 1 .. n
        PROVE  b.tokens + (n - i + 1) * Unit <= B + (b.last - s[i]) * q
    <3> DEFINE since == (n - i + 1) * Unit
               old == (bk.last - s[i]) * q
    <3>1. s[i] \in Nat /\ n - i + 1 \in Int
      BY <1>1
    <3>2. since \in Int /\ old \in Int
      <4>1. bk.last - s[i] \in Int
        BY <2>i, <3>1
      <4> QED BY <2>i, <3>1, <4>1, ProductsAreNumbers
    <3>3. (now - s[i]) * q = old + gain
      <4>1. s[i] \in Int /\ bk.last \in Int /\ now \in Int /\ q \in Int
        BY <2>i, <3>1
      <4> HIDE DEF q
      <4>2. (now - s[i]) * q = (bk.last - s[i]) * q + (now - bk.last) * q
        BY <4>1, Elapsed
      <4> QED BY <4>2 DEF gain
    <3>4. bk.tokens + since <= B + old
      BY <1>w
    <3> HIDE DEF since, old
    <3>5. b.tokens + since <= B + (old + gain)
      <4>1. b.tokens \in Int /\ bk.tokens \in Int /\ gain \in Int /\ B \in Int
        BY <1>1, <2>1, <2>2
      <4> HIDE DEF b, B
      <4> QED BY <2>2, <3>2, <3>4, <4>1, AddGain
    <3> QED BY <2>2, <3>3, <3>5 DEF since
  <2> QED BY <1>2, <1>w, <2>2, <2>3 DEF WithinRate
<1> QED BY <1>1, <1>3, <1>4

\* Taking a token moves it from the bucket to the history.
LEMMA TakeKeeps ==
    ASSUME NEW bk \in TenantBuckets, NEW s \in Seq(Nat), bk.quota.rate # NoLimit,
           WithinRate(bk, s), bk.tokens >= Unit
    PROVE  /\ [bk EXCEPT !.tokens = @ - Unit] \in TenantBuckets
           /\ WithinRate([bk EXCEPT !.tokens = @ - Unit], Append(s, bk.last))
<1> DEFINE b == [bk EXCEPT !.tokens = @ - Unit]
           n == Len(s)
           z == Append(s, bk.last)
           B == Burst(bk.quota)
           q == bk.quota.rate
<1>1. /\ q \in Nat /\ B \in Nat /\ bk.tokens \in Int /\ bk.last \in Nat
      /\ Unit \in Nat /\ B >= Unit
      /\ n \in Nat /\ \A i \in 1 .. n : s[i] \in Nat
  BY BucketFields, LenProperties
<1>2. /\ b \in TenantBuckets /\ b.quota = bk.quota /\ b.last = bk.last
      /\ b.tokens = bk.tokens - Unit
  <2> DEFINE x == bk.tokens - Unit
  <2>1. x \in Int
    BY <1>1
  <2>2. b = [bk EXCEPT !.tokens = x]
    OBVIOUS
  <2> HIDE DEF x, b
  <2>3. b \in TenantBuckets /\ b.quota = bk.quota /\ b.last = bk.last /\ b.tokens = x
    BY <2>1, <2>2 DEF TenantBuckets
  <2> QED BY <2>3 DEF x
<1>w. /\ bk.tokens >= 0 /\ bk.tokens <= B
      /\ \A i \in 1 .. n : bk.tokens + (n - i + 1) * Unit <= B + (bk.last - s[i]) * q
      /\ \A i, j \in 1 .. n : i <= j => (j - i + 1) * Unit <= B + (s[j] - s[i]) * q
  BY DEF WithinRate
<1>3. Len(z) = n + 1 /\ z[n + 1] = bk.last /\ \A i \in 1 .. n : z[i] = s[i]
  BY <1>1, AppendProperties
<1> HIDE DEF b, z
<1>4. ASSUME NEW i \in 1 .. n + 1
      PROVE  /\ b.tokens + (n + 1 - i + 1) * Unit <= B + (b.last - z[i]) * q
             /\ (n + 1 - i + 1) * Unit <= B + (z[n + 1] - z[i]) * q
  <2> DEFINE since == (n - i + 1) * Unit
  <2>1. since \in Int /\ (n + 1 - i + 1) * Unit = since + Unit
    <3>1. n - i + 1 \in Int /\ n + 1 - i + 1 = (n - i + 1) + 1
      BY <1>1
    <3> QED BY <1>1, <3>1, OneMore, ProductsAreNumbers
  <2>2. bk.tokens + since <= B + (bk.last - z[i]) * q
    <3>1. CASE i \in 1 .. n
      BY <1>3, <1>w, <3>1
    <3>2. CASE i = n + 1
      <4>1. n - i + 1 = 0 /\ bk.last - z[i] = 0
        BY <1>1, <1>3, <3>2
      <4>2. since = 0 /\ (bk.last - z[i]) * q = 0
        <5>1. n - i + 1 \in Int /\ bk.last - z[i] \in Int /\ Unit \in Int /\ q \in Int
          BY <1>1, <4>1
        <5> QED BY <4>1, <5>1, ZeroTimes
      <4> QED BY <1>1, <1>w, <4>2
    <3> QED BY <1>1, <3>1, <3>2
  <2>3. (bk.last - z[i]) * q \in Int
    <3>1. bk.last - z[i] \in Int
      BY <1>1, <1>3
    <3> QED BY <1>1, <3>1, ProductsAreNumbers
  <2> DEFINE old == (bk.last - z[i]) * q
  <2> HIDE DEF since, old
  <2>4. (bk.tokens - Unit) + (since + Unit) <= B + old /\ since + Unit <= B + old
    BY <1>1, <2>1, <2>2, <2>3 DEF old
  <2> QED BY <1>2, <1>3, <2>1, <2>4 DEF old
<1>5. ASSUME NEW i \in 1 .. n + 1, NEW j \in 1 .. n + 1, i <= j
      PROVE  (j - i + 1) * Unit <= B + (z[j] - z[i]) * q
  <2>1. CASE j = n + 1
    BY <1>4, <2>1
  <2>2. CASE j # n + 1
    <3>1. i \in 1 .. n /\ j \in 1 .. n
      BY <1>1, <1>5, <2>2
    <3> QED BY <1>3, <1>5, <1>w, <3>1
  <2> QED BY <2>1, <2>2
<1>6. b.tokens >= 0 /\ b.tokens <= B
  BY <1>1, <1>2, <1>w
<1>7. WithinRate(b, z)
  BY <1>2, <1>3, <1>4, <1>5, <1>6 DEF WithinRate
<1> QED BY <1>2, <1>7 DEF b, z

\* A bucket nobody has taken a token from is full.
LEMMA FreshBucket ==
    ASSUME NEW t \in Tenants, NEW now \in Nat
    PROVE  LET bk == [quota |-> ResolveQuota(t), tokens |-> Burst(ResolveQuota(t)),
                      last |-> now, flying |-> 0]
           IN  bk \in TenantBuckets /\ WithinRate(bk, <<>>)
<1>1. ResolveQuota(t) \in Quotas /\ Burst(ResolveQuota(t)) \in Nat
  BY QuotaTyped, BurstTyped
<1> QED BY <1>1 DEF TenantBuckets, WithinRate

\* The number of requests in flight has no part in the rate limit.
LEMMA FlyingKeeps ==
    ASSUME NEW bk \in TenantBuckets, NEW n \in Int, NEW s, WithinRate(bk, s)
    PROVE  /\ [bk EXCEPT !.flying = n] \in TenantBuckets
           /\ WithinRate([bk EXCEPT !.flying = n], s)
BY DEF TenantBuckets, WithinRate

LEMMA BecomeFields ==
    ASSUME request \in [Requests -> RequestRecords], NEW r \in Requests,
           NEW p \in {"new", "token", "limits", "done", "running", "ended"},
           NEW a \in {"none", "Admitted", "RateLimited", "Queued"}, Become(r, p, a)
    PROVE  /\ request' \in [Requests -> RequestRecords]
           /\ request'[r].pc = p /\ request'[r].tenant = request[r].tenant
           /\ \A x \in Requests \ {r} : request'[x] = request[x]
<1> DEFINE new == [request[r] EXCEPT !.pc = p, !.answer = a]
<1>1. new \in RequestRecords /\ new.pc = p /\ new.tenant = request[r].tenant
  BY DEF RequestRecords
<1>2. request' = [request EXCEPT ![r] = new]
  BY DEF Become
<1> HIDE DEF new
<1> QED BY <1>1, <1>2

LEMMA TenantInvInit == TenantInit => TenantInv
<1> SUFFICES ASSUME TenantInit PROVE TenantInv
  OBVIOUS
<1>1. NoRequest \in RequestRecords /\ NoRequest.pc = "new"
  BY DEF NoRequest, RequestRecords
<1>2. DOMAIN bucketOf = {} /\ bucketOf \in [DOMAIN bucketOf -> TenantBuckets]
  BY DEF TenantInit
<1> QED BY <1>1, <1>2 DEF TenantInit, TenantInv

\* get_or_create_bucket(), for a tenant with or without a bucket.
LEMMA SeenKeeps ==
    ASSUME TenantInv, NEW t \in Tenants
    PROVE  /\ DOMAIN Seen(t) = DOMAIN bucketOf \cup {t}
           /\ Seen(t) \in [DOMAIN Seen(t) -> TenantBuckets]
           /\ \A s \in DOMAIN Seen(t) : WithinRate(Seen(t)[s], taken[s])
<1> DEFINE new == [quota |-> ResolveQuota(t), tokens |-> Burst(ResolveQuota(t)),
                   last |-> time, flying |-> 0]
<1>1. new \in TenantBuckets /\ WithinRate(new, <<>>)
  BY FreshBucket DEF TenantInv
<1>2. CASE t \in DOMAIN bucketOf
  BY <1>2 DEF Seen, TenantInv
<1>3. CASE t \notin DOMAIN bucketOf
  <2>1. Seen(t) = [s \in DOMAIN bucketOf \cup {t} |-> IF s # t THEN bucketOf[s] ELSE new]
    BY <1>3 DEF Seen
  <2>2. taken[t] = <<>>
    BY <1>3 DEF TenantInv
  <2> HIDE DEF new
  <2> QED BY <1>1, <1>3, <2>1, <2>2 DEF TenantInv
<1> QED BY <1>2, <1>3

LEMMA TenantInvStep == TenantInv /\ [TenantNext]_tenantVars => TenantInv'
<1> SUFFICES ASSUME TenantInv, [TenantNext]_tenantVars PROVE TenantInv'
  OBVIOUS
<1>t. /\ DOMAIN bucketOf \subseteq Tenants /\ bucketOf \in [DOMAIN bucketOf -> TenantBuckets]
      /\ request \in [Requests -> RequestRecords] /\ time \in Nat
      /\ taken \in [Tenants -> Seq(Nat)]
  BY DEF TenantInv
\* A step that replaces one bucket by one within its rate, and moves one request on.
<1>b. ASSUME NEW t \in DOMAIN bucketOf, NEW bk \in TenantBuckets, NEW s \in Seq(Nat),
             bucketOf' = [bucketOf EXCEPT ![t] = bk], taken' = [taken EXCEPT ![t] = s],
             WithinRate(bk, s), time' = time, NEW r \in Requests,
             request' \in [Requests -> RequestRecords],
             request'[r].pc # "new", request'[r].tenant = t,
             \A x \in Requests \ {r} : request'[x] = request[x]
      PROVE  TenantInv'
  <2>1. DOMAIN bucketOf' = DOMAIN bucketOf /\ bucketOf' \in [DOMAIN bucketOf' -> TenantBuckets]
        /\ taken' \in [Tenants -> Seq(Nat)]
    BY <1>b, <1>t
  <2>2. \A u \in DOMAIN bucketOf' : WithinRate(bucketOf'[u], taken'[u])
    BY <1>b, <1>t, <2>1 DEF TenantInv
  <2>3. \A u \in Tenants \ DOMAIN bucketOf' : taken'[u] = <<>>
    BY <1>b, <1>t, <2>1 DEF TenantInv
  <2>4. \A x \in Requests :
          /\ request'[x].pc # "new" => request'[x].tenant \in Tenants
          /\ request'[x].pc \in {"token", "limits", "running"} => request'[x].tenant \in DOMAIN bucketOf'
    BY <1>b, <1>t, <2>1 DEF TenantInv
  <2> QED BY <1>b, <1>t, <2>1, <2>2, <2>3, <2>4 DEF TenantInv
<1>1. ASSUME NEW r \in Requests, NEW t \in Tenants, Arrive(r, t) PROVE TenantInv'
  <2>1. taken' = taken /\ time' = time
    BY <1>1 DEF Arrive
  <2>2. CASE enabled
    <3> DEFINE q == [pc |-> "token", tenant |-> t, now |-> time, answer |-> "none"]
    <3>1. bucketOf' = Seen(t) /\ request' = [request EXCEPT ![r] = q]
      BY <1>1, <2>2 DEF Arrive
    <3>2. q \in RequestRecords
      BY <1>t DEF RequestRecords
    <3>3. /\ DOMAIN bucketOf' = DOMAIN bucketOf \cup {t}
          /\ bucketOf' \in [DOMAIN bucketOf' -> TenantBuckets]
          /\ \A s \in DOMAIN bucketOf' : WithinRate(bucketOf'[s], taken'[s])
      BY <2>1, <3>1, SeenKeeps
    <3> QED BY <1>t, <2>1, <3>1, <3>2, <3>3 DEF TenantInv
  <2>3. CASE ~enabled
    <3> DEFINE q == [pc |-> "done", tenant |-> t, now |-> time, answer |-> "Admitted"]
    <3>1. bucketOf' = bucketOf /\ request' = [request EXCEPT ![r] = q]
      BY <1>1, <2>3 DEF Arrive
    <3>2. q \in RequestRecords
      BY <1>t DEF RequestRecords
    <3> QED BY <1>t, <2>1, <3>1, <3>2 DEF TenantInv
  <2> QED BY <2>2, <2>3
<1>2. ASSUME NEW r \in Requests, TakeToken(r) PROVE TenantInv'
  <2> DEFINE t == request[r].tenant
             bk == Refill(bucketOf[t], request[r].now)
  <2>1. /\ t \in DOMAIN bucketOf /\ t \in Tenants /\ bucketOf[t] \in TenantBuckets
        /\ request[r].now \in Nat /\ taken[t] \in Seq(Nat)
        /\ WithinRate(bucketOf[t], taken[t]) /\ time' = time
    BY <1>2, <1>t DEF TakeToken, TenantInv, RequestRecords
  <2>2. bk.quota = bucketOf[t].quota
    BY <2>1 DEF Refill, TenantBuckets
  <2>3. CASE bk.quota.rate = NoLimit /\ Become(r, "limits", "none") /\ UNCHANGED <<bucketOf, taken>>
    <3>1. /\ request' \in [Requests -> RequestRecords]
          /\ request'[r].pc = "limits" /\ request'[r].tenant = t
          /\ \A x \in Requests \ {r} : request'[x] = request[x]
      BY <1>t, <2>3, BecomeFields
    <3>2. /\ bucketOf' = [bucketOf EXCEPT ![t] = bucketOf[t]]
          /\ taken' = [taken EXCEPT ![t] = taken[t]]
      BY <1>t, <2>1, <2>3
    <3> QED BY <1>b, <2>1, <3>1, <3>2
  <2>4. CASE /\ bk.quota.rate # NoLimit /\ bk.tokens >= Unit
             /\ bucketOf' = [bucketOf EXCEPT ![t] = [bk EXCEPT !.tokens = @ - Unit]]
             /\ taken' = [taken EXCEPT ![t] = Append(@, bk.last)]
             /\ Become(r, "limits", "none")
    <3>1. /\ request' \in [Requests -> RequestRecords]
          /\ request'[r].pc = "limits" /\ request'[r].tenant = t
          /\ \A x \in Requests \ {r} : request'[x] = request[x]
      BY <1>t, <2>4, BecomeFields
    <3>2. bk \in TenantBuckets /\ WithinRate(bk, taken[t])
      BY <2>1, <2>2, <2>4, RefillFields, RefillKeeps
    <3>3. bk.last \in Nat
      BY <3>2 DEF TenantBuckets
    <3>4. Append(taken[t], bk.last) \in Seq(Nat)
      BY <2>1, <3>3, AppendProperties
    <3> DEFINE after == [bk EXCEPT !.tokens = @ - Unit]
    <3>5. after \in TenantBuckets /\ WithinRate(after, Append(taken[t], bk.last))
      BY <2>1, <2>4, <3>2, TakeKeeps
    <3>6. bucketOf' = [bucketOf EXCEPT ![t] = after]
          /\ taken' = [taken EXCEPT ![t] = Append(taken[t], bk.last)]
      BY <2>4
    <3> HIDE DEF after, bk
    <3> QED BY <1>b, <2>1, <3>1, <3>4, <3>5, <3>6
  <2>5. CASE /\ bk.quota.rate # NoLimit /\ bk.tokens < Unit
             /\ bucketOf' = [bucketOf EXCEPT ![t] = bk]
             /\ Become(r, "done", "RateLimited")
             /\ UNCHANGED taken
    <3>1. /\ request' \in [Requests -> RequestRecords]
          /\ request'[r].pc = "done" /\ request'[r].tenant = t
          /\ \A x \in Requests \ {r} : request'[x] = request[x]
      BY <1>t, <2>5, BecomeFields
    <3>2. bk \in TenantBuckets /\ WithinRate(bk, taken[t])
      BY <2>1, <2>2, <2>5, RefillFields, RefillKeeps
    <3>3. taken' = [taken EXCEPT ![t] = taken[t]]
      BY <1>t, <2>5
    <3> HIDE DEF bk
    <3> QED BY <1>b, <2>1, <2>5, <3>1, <3>2, <3>3
  <2> QED BY <1>2, <2>3, <2>4, <2>5 DEF TakeToken
<1>3. ASSUME NEW r \in Requests, CheckLimits(r) PROVE TenantInv'
  <2> DEFINE t == request[r].tenant
             a == Answer(bucketOf[t].quota, bucketOf[t].flying)
  <2>1. a \in {"none", "Admitted", "RateLimited", "Queued"}
    BY DEF Answer
  <2>2. Become(r, "done", a) /\ UNCHANGED <<bucketOf, taken, time>> /\ request[r].pc = "limits"
    BY <1>3 DEF CheckLimits
  <2>3. t \in DOMAIN bucketOf
    BY <2>2 DEF TenantInv
  <2> HIDE DEF a
  <2>4. /\ request' \in [Requests -> RequestRecords]
        /\ request'[r].pc = "done" /\ request'[r].tenant = t
        /\ \A x \in Requests \ {r} : request'[x] = request[x]
    BY <1>t, <2>1, <2>2, BecomeFields
  <2>5. /\ bucketOf' = [bucketOf EXCEPT ![t] = bucketOf[t]]
        /\ taken' = [taken EXCEPT ![t] = taken[t]]
        /\ bucketOf[t] \in TenantBuckets /\ taken[t] \in Seq(Nat)
        /\ WithinRate(bucketOf[t], taken[t])
    BY <1>t, <2>2, <2>3 DEF TenantInv
  <2> QED BY <1>b, <2>2, <2>3, <2>4, <2>5
<1>4. ASSUME NEW r \in Requests, RecordStart(r) PROVE TenantInv'
  <2> DEFINE t == request[r].tenant
             S == Seen(t)
             bk == [S[t] EXCEPT !.flying = @ + 1]
  <2>1. /\ t \in Tenants /\ Become(r, "running", "Admitted") /\ UNCHANGED <<taken, time>>
        /\ bucketOf' = [S EXCEPT ![t] = bk]
    BY <1>4 DEF RecordStart, TenantInv
  <2>2. /\ DOMAIN S = DOMAIN bucketOf \cup {t}
        /\ S \in [DOMAIN S -> TenantBuckets]
        /\ \A s \in DOMAIN S : WithinRate(S[s], taken[s])
    BY <2>1, SeenKeeps
  <2> HIDE DEF S
  <2>3. S[t] \in TenantBuckets /\ S[t].flying + 1 \in Int /\ WithinRate(S[t], taken[t])
    BY <2>2 DEF TenantBuckets
  <2>4. bk \in TenantBuckets /\ WithinRate(bk, taken[t])
    BY <2>3, FlyingKeeps
  <2> HIDE DEF bk
  <2>5. /\ request' \in [Requests -> RequestRecords]
        /\ request'[r].pc = "running" /\ request'[r].tenant = t
        /\ \A x \in Requests \ {r} : request'[x] = request[x]
    BY <1>t, <2>1, BecomeFields
  <2>6. /\ DOMAIN bucketOf' = DOMAIN bucketOf \cup {t}
        /\ bucketOf' \in [DOMAIN bucketOf' -> TenantBuckets]
        /\ \A s \in DOMAIN bucketOf' : WithinRate(bucketOf'[s], taken[s])
    BY <2>1, <2>2, <2>4
  <2>7. \A x \in Requests :
          /\ request'[x].pc # "new" => request'[x].tenant \in Tenants
          /\ request'[x].pc \in {"token", "limits", "running"} => request'[x].tenant \in DOMAIN bucketOf'
    BY <2>1, <2>5, <2>6 DEF TenantInv
  <2> QED BY <1>t, <2>1, <2>5, <2>6, <2>7 DEF TenantInv
<1>5. ASSUME NEW r \in Requests, RecordEnd(r) PROVE TenantInv'
  <2> DEFINE t == request[r].tenant
             bk == [bucketOf[t] EXCEPT !.flying = @ - 1]
  <2>1. /\ t \in DOMAIN bucketOf /\ t \in Tenants /\ Become(r, "ended", "Admitted")
        /\ bucketOf' = [bucketOf EXCEPT ![t] = bk] /\ UNCHANGED <<taken, time>>
    BY <1>5 DEF RecordEnd, TenantInv
  <2>2. bucketOf[t] \in TenantBuckets /\ bucketOf[t].flying - 1 \in Int
        /\ WithinRate(bucketOf[t], taken[t])
    BY <1>t, <2>1 DEF TenantInv, TenantBuckets
  <2>3. bk \in TenantBuckets /\ WithinRate(bk, taken[t])
    BY <2>2, FlyingKeeps
  <2> HIDE DEF bk
  <2>4. /\ request' \in [Requests -> RequestRecords]
        /\ request'[r].pc = "ended" /\ request'[r].tenant = t
        /\ \A x \in Requests \ {r} : request'[x] = request[x]
    BY <1>t, <2>1, BecomeFields
  <2>5. taken' = [taken EXCEPT ![t] = taken[t]] /\ taken[t] \in Seq(Nat)
    BY <1>t, <2>1
  <2> QED BY <1>b, <2>1, <2>3, <2>4, <2>5
<1>6. ASSUME UNCHANGED <<bucketOf, request, taken>>, time' \in Nat PROVE TenantInv'
  BY <1>6 DEF TenantInv
<1>7. ASSUME NEW n \in Capacities, UpdateTotal(n) \/ UpdateUsed(n) PROVE TenantInv'
  BY <1>6, <1>7, <1>t DEF UpdateTotal, UpdateUsed
<1>8. CASE TimePasses
  <2>1. time' \in Nat
    BY <1>8, <1>t DEF TimePasses
  <2> QED BY <1>6, <1>8, <2>1 DEF TimePasses
<1>9. CASE UNCHANGED tenantVars
  BY <1>6, <1>9, <1>t DEF tenantVars
<1> QED BY <1>1, <1>2, <1>3, <1>4, <1>5, <1>7, <1>8, <1>9 DEF TenantNext

\* For any tenants, rates and number of concurrent callers: between any two
\* tokens of a tenant no more were taken than one burst and the rate allow.
THEOREM RatesAreLimited == TenantSpec => []RateLimitHolds
<1>1. TenantInv => RateLimitHolds
  <2> SUFFICES ASSUME TenantInv, NEW t \in DOMAIN bucketOf, bucketOf[t].quota.rate # NoLimit
               PROVE  \A i, j \in DOMAIN taken[t] : i <= j =>
                        (j - i + 1) * Unit <= Burst(bucketOf[t].quota)
                            + (taken[t][j] - taken[t][i]) * bucketOf[t].quota.rate
    BY DEF RateLimitHolds
  <2>1. WithinRate(bucketOf[t], taken[t]) /\ DOMAIN taken[t] = 1 .. Len(taken[t])
    BY LenProperties DEF TenantInv
  <2> QED BY <2>1 DEF WithinRate
<1> QED BY <1>1, TenantInvInit, TenantInvStep, PTL DEF TenantSpec

-----------------------------------------------------------------------------
(* Metadata synchronisation.  What an instance stores comes from announce-   *)
(* ments and collectors, which are checked, and from responses, which are    *)
(* not: so what travels in the mail must already be free of crosstalk.       *)

\* A load state names no backend of another Region.
Announced(load) == \A b \in DOMAIN load \cap Servers : load[b] = ServerRegion[b]

MetaInv ==
    /\ metrics \in [Nodes -> [Servers -> Range(HomeOf) \cup {None}]]
    /\ regions \in [Nodes -> SUBSET Range(HomeOf)]
    /\ NoCrosstalk
    /\ \A m \in mail :
        /\ m.to \in Nodes
        /\ \A e \in m.entries : Announced(e.load) /\ e.regions \subseteq Range(HomeOf)

LEMMA HomesAreRegions == \A n \in Nodes : HomeOf[n] \in Range(HomeOf)
BY MetaAssumption DEF Range

LEMMA MetaInvInit == MetaInit => MetaInv
BY HomesAreRegions DEF MetaInit, MetaInv, NoCrosstalk

\* Reporting announced metrics, whoever they come from, mixes nothing up.
LEMMA ReportKeeps ==
    ASSUME MetaInv, NEW n \in Nodes, NEW new, Announced(new), Report(n, new)
    PROVE  /\ metrics' \in [Nodes -> [Servers -> Range(HomeOf) \cup {None}]]
           /\ \A i \in Nodes, b \in Servers : metrics'[i][b] \in {None, ServerRegion[b]}
<1> DEFINE row == [b \in Servers |-> IF b \in DOMAIN new THEN new[b] ELSE metrics[n][b]]
<1>1. metrics' = [metrics EXCEPT ![n] = row]
  BY DEF Report
<1>2. \A b \in Servers : row[b] \in {None, ServerRegion[b]} /\ ServerRegion[b] \in Range(HomeOf)
  BY MetaAssumption DEF Announced, MetaInv, NoCrosstalk
<1>3. row \in [Servers -> Range(HomeOf) \cup {None}]
  BY <1>2
<1> QED BY <1>1, <1>2, <1>3 DEF MetaInv, NoCrosstalk

\* What a sync request is answered with is free of crosstalk.
LEMMA EntryIsClean ==
    ASSUME MetaInv, NEW n \in Nodes, NEW key
    PROVE  Announced(Entry(n, key).load) /\ Entry(n, key).regions \subseteq Range(HomeOf)
BY DEF Entry, Announced, MetaInv, NoCrosstalk

LEMMA MetaInvStep == MetaInv /\ [MetaNext]_metaVars => MetaInv'
<1> SUFFICES ASSUME MetaInv, [MetaNext]_metaVars PROVE MetaInv'
  OBVIOUS
<1>0. ASSUME UNCHANGED <<metrics, regions, mail>> PROVE MetaInv'
  BY <1>0 DEF MetaInv, NoCrosstalk, Announced
<1>r. ASSUME NEW n \in Nodes, NEW new, Announced(new), Report(n, new),
             UNCHANGED <<regions, mail>>
      PROVE  MetaInv'
  BY <1>r, ReportKeeps DEF MetaInv, NoCrosstalk, Announced
<1>1. ASSUME NEW n \in Nodes, NEW b \in Servers, CollectLocally(n, b) PROVE MetaInv'
  <2>1. Announced([x \in {b} |-> HomeOf[n]])
    BY <1>1 DEF CollectLocally, Announced
  <2> QED BY <1>1, <1>r, <2>1 DEF CollectLocally
<1>2. ASSUME NEW n \in Nodes, NEW b \in Servers, RegisterRemote(n, b) PROVE MetaInv'
  BY <1>0, <1>2 DEF RegisterRemote
<1>3. ASSUME NEW n \in Nodes, NEW a \in Announcements, HandleMetrics(n, a) PROVE MetaInv'
  <2>1. Announced([b \in Accepted(a) |-> a.region])
    BY DEF Accepted, Announced
  <2> QED BY <1>3, <1>r, <2>1 DEF HandleMetrics
<1>4. ASSUME NEW n \in Nodes, NEW sender \in Senders, NEW key \in SyncKeys,
             HandleSyncRequest(n, sender, key)
      PROVE  MetaInv'
  <2> DEFINE to == IF sender \in Peers[n] THEN {sender} ELSE Peers[n] \ {n}
             sent == IF key \in DOMAIN KeyOfState THEN { Entry(n, key) } ELSE {}
  <2>1. mail' = mail \cup { [to |-> m, entries |-> sent] : m \in to }
    BY <1>4 DEF HandleSyncRequest
  <2>2. to \subseteq Nodes
    BY MetaAssumption
  <2>3. \A e \in sent : Announced(e.load) /\ e.regions \subseteq Range(HomeOf)
    BY EntryIsClean
  <2>4. \A m \in mail' : /\ m.to \in Nodes
                         /\ \A e \in m.entries :
                                Announced(e.load) /\ e.regions \subseteq Range(HomeOf)
    <3> HIDE DEF sent, to
    <3> QED BY <2>1, <2>2, <2>3 DEF MetaInv
  <2> QED BY <1>4, <2>4 DEF HandleSyncRequest, MetaInv, NoCrosstalk, Announced
<1>5. ASSUME NEW n \in Nodes, HandleTopology(n) \/ \E r \in LaneRegions : HandleCkf(n, r)
      PROVE  MetaInv'
  BY <1>0, <1>5 DEF HandleTopology, HandleCkf
<1>6. ASSUME NEW m \in mail, NEW e \in m.entries, ApplySyncResponse(m, e) PROVE MetaInv'
  <2>1. m.to \in Nodes /\ Announced(e.load) /\ e.regions \subseteq Range(HomeOf)
    BY DEF MetaInv
  <2>2. CASE Report(m.to, e.load) /\ UNCHANGED regions
    BY <1>6, <1>r, <2>1, <2>2 DEF ApplySyncResponse
  <2>3. CASE AddRegions(m.to, e.regions) /\ UNCHANGED metrics
    BY <1>6, <2>1, <2>3 DEF ApplySyncResponse, AddRegions, MetaInv, NoCrosstalk, Announced
  <2> QED BY <1>6, <2>2, <2>3 DEF ApplySyncResponse
<1>7. ASSUME NEW m \in mail, LoseMail(m) PROVE MetaInv'
  BY <1>7 DEF LoseMail, MetaInv, NoCrosstalk, Announced
<1>8. CASE UNCHANGED metaVars
  BY <1>0, <1>8 DEF metaVars
<1> QED BY <1>1, <1>2, <1>3, <1>4, <1>5, <1>6, <1>7, <1>8 DEF MetaNext

\* Wherever metrics of a backend end up in a cluster of any size and by whatever
\* exchange of sync responses, they were announced for the backend's Region.
THEOREM SyncMixesNoRegions == MetaSpec => []NoCrosstalk
<1>1. MetaInv => NoCrosstalk
  BY DEF MetaInv
<1> QED BY <1>1, MetaInvInit, MetaInvStep, PTL DEF MetaSpec

-----------------------------------------------------------------------------
(* Sets of numbers.                                                           *)

\* A set of numbers up to a bound has a greatest one.
LEMMA GreatestUpTo ==
    ASSUME NEW N \in Nat, NEW S, S \subseteq 0 .. N, S # {}
    PROVE  Max(S) \in S /\ \A y \in S : y <= Max(S)
<1> DEFINE T == { N - k : k \in S }
<1>1. PICK t \in T : \A u \in T : t <= u
  <2>1. T \subseteq Nat
    <3>1. \A k \in S : k \in 0 .. N
      OBVIOUS
    <3>2. \A k \in 0 .. N : N - k \in Nat
      OBVIOUS
    <3> QED BY <3>1, <3>2
  <2>2. T # {}
    OBVIOUS
  <2> HIDE DEF T
  <2> QED BY <2>1, <2>2, LeastNatural
<1>2. PICK x \in S : t = N - x
  BY <1>1
<1>3. \A y \in S : x >= y
  <2> SUFFICES ASSUME NEW y \in S PROVE x >= y
    OBVIOUS
  <2>1. N - y \in T /\ x \in 0 .. N /\ y \in 0 .. N
    OBVIOUS
  <2>2. N - x <= N - y
    BY <1>1, <1>2, <2>1
  <2> HIDE DEF T
  <2> QED BY <2>1, <2>2
<1>4. Max(S) \in S /\ \A y \in S : Max(S) >= y
  BY <1>3 DEF Max
<1>5. Max(S) \in 0 .. N /\ \A y \in S : y \in 0 .. N
  BY <1>4
<1> HIDE DEF T
<1> QED BY <1>4, <1>5

-----------------------------------------------------------------------------
(* Sums over finite sets.                                                     *)

\* Induction over a finite set, one element at a time.
LEMMA ElementInduction ==
    ASSUME NEW S, IsFiniteSet(S), NEW P, {} \in P,
           \A T \in SUBSET S : \A c \in T : T \ {c} \in P => T \in P
    PROVE  S \in P
<1>1. ASSUME NEW T \in SUBSET S, \A U \in SUBSET T : U # T => U \in P
      PROVE  T \in P
  <2>1. CASE T = {}
    BY <2>1
  <2>2. CASE T # {}
    <3>1. PICK c \in T : TRUE
      BY <2>2
    <3>2. T \ {c} \in SUBSET T /\ T \ {c} # T
      BY <3>1
    <3> QED BY <1>1, <3>1, <3>2
  <2> QED BY <2>1, <2>2
<1>2. SUBSET S \subseteq P
  BY <1>1, SubsetInduction
<1> QED BY <1>2

\* What an induction step knows of a set and the set without one element.
LEMMA OneLess ==
    ASSUME NEW S, IsFiniteSet(S), NEW T \in SUBSET S, NEW c \in T
    PROVE  /\ c \in S /\ T \ {c} \in SUBSET S
           /\ IsFiniteSet(T) /\ IsFiniteSet(T \ {c})
           /\ Cardinality(T) \in Nat /\ Cardinality(T \ {c}) \in Nat
           /\ Cardinality(T) = Cardinality(T \ {c}) + 1
<1>1. IsFiniteSet(T)
  BY FS_Subset
<1>2. IsFiniteSet(T \ {c}) /\ Cardinality(T \ {c}) = Cardinality(T) - 1
  BY <1>1, FS_RemoveElement
<1>3. Cardinality(T) \in Nat /\ Cardinality(T \ {c}) \in Nat
  BY <1>1, <1>2, FS_CardinalityType
<1> QED BY <1>1, <1>2, <1>3

LEMMA SumStepDown ==
    ASSUME NEW S, IsFiniteSet(S), NEW f, \A x \in S : f[x] \in Nat,
           NEW T \in SUBSET S, NEW c \in T
    PROVE  /\ f[c] \in Nat /\ NatSum(f, T) \in Nat /\ NatSum(f, T \ {c}) \in Nat
           /\ NatSum(f, T) = f[c] + NatSum(f, T \ {c})
<1>1. IsFiniteSet(T) /\ IsFiniteSet(T \ {c}) /\ c \in S
  BY OneLess
<1>2. \A x \in T : f[x] \in Nat
  OBVIOUS
<1>3. NatSum(f, T) = f[c] + NatSum(f, T \ {c})
  BY <1>1, <1>2, SumSplits
<1> QED BY <1>1, <1>2, <1>3, SumIsNat

LEMMA Distribute == \A k, a, b \in Nat : k * (a + b) = k * a + k * b /\ k * a \in Nat
OBVIOUS

\* g is k times f on S; g is the square of f on S.
Multiplies(g, k, f, S) == \A x \in S : f[x] \in Nat /\ g[x] = k * f[x]
Squares(g, f, S) == \A x \in S : f[x] \in Nat /\ g[x] = f[x] * f[x]

\* A common factor may be taken out.
LEMMA SumScales ==
    ASSUME NEW S, IsFiniteSet(S), NEW f, NEW g, NEW k \in Nat, Multiplies(g, k, f, S)
    PROVE  NatSum(g, S) = k * NatSum(f, S)
<1> DEFINE P == { T \in SUBSET S : NatSum(g, T) = k * NatSum(f, T) }
<1>f. \A x \in S : f[x] \in Nat
  BY DEF Multiplies
<1>g. \A x \in S : g[x] \in Nat
  BY Distribute DEF Multiplies
<1>1. {} \in P
  <2>1. NatSum(g, {}) = 0 /\ NatSum(f, {}) = 0
    BY SumOfNone
  <2>2. k * 0 = 0
    OBVIOUS
  <2> QED BY <2>1, <2>2
<1>2. ASSUME NEW T \in SUBSET S, NEW c \in T, T \ {c} \in P PROVE T \in P
  <2>1. /\ f[c] \in Nat /\ NatSum(f, T \ {c}) \in Nat
        /\ NatSum(f, T) = f[c] + NatSum(f, T \ {c})
    BY <1>f, SumStepDown
  <2>2. NatSum(g, T) = g[c] + NatSum(g, T \ {c})
    BY <1>g, SumStepDown
  <2>3. g[c] = k * f[c] /\ NatSum(g, T \ {c}) = k * NatSum(f, T \ {c})
    BY <1>2 DEF Multiplies
  <2> QED BY <2>1, <2>2, <2>3, Distribute
<1> HIDE DEF P
<1>3. S \in P
  BY <1>1, <1>2, ElementInduction
<1> QED BY <1>3 DEF P

\* The parts of a sum over a set and over the rest.
LEMMA SumOfParts ==
    ASSUME NEW S, IsFiniteSet(S), NEW f, \A x \in S : f[x] \in Nat, NEW C \in SUBSET S
    PROVE  NatSum(f, S) = NatSum(f, C) + NatSum(f, S \ C)
<1> DEFINE P == { T \in SUBSET C : NatSum(f, S) = NatSum(f, T) + NatSum(f, S \ T) }
<1>c. IsFiniteSet(C)
  BY FS_Subset
<1>1. {} \in P
  <2>1. S \ {} = S
    OBVIOUS
  <2> QED BY <2>1, SumOfNone, SumIsNat
<1>2. ASSUME NEW T \in SUBSET C, NEW c \in T, T \ {c} \in P PROVE T \in P
  <2>1. /\ f[c] \in Nat /\ NatSum(f, T \ {c}) \in Nat
        /\ NatSum(f, T) = f[c] + NatSum(f, T \ {c})
    BY SumStepDown
  <2> DEFINE U == S \ (T \ {c})
  <2>2. U \in SUBSET S /\ c \in U /\ U \ {c} = S \ T
    BY <1>2
  <2>3. NatSum(f, U) = f[c] + NatSum(f, S \ T) /\ NatSum(f, S \ T) \in Nat
    BY <2>2, SumStepDown
  <2>4. NatSum(f, S) = NatSum(f, T \ {c}) + NatSum(f, U)
    BY <1>2
  <2> HIDE DEF U
  <2> QED BY <2>1, <2>3, <2>4
<1> HIDE DEF P
<1>3. C \in P
  BY <1>c, <1>1, <1>2, ElementInduction
<1> QED BY <1>3 DEF P

\* A sum of equal summands.
LEMMA SumOfEquals ==
    ASSUME NEW S, IsFiniteSet(S), NEW f, NEW k \in Nat, \A x \in S : f[x] = k
    PROVE  NatSum(f, S) = k * Cardinality(S)
<1> DEFINE P == { T \in SUBSET S : NatSum(f, T) = k * Cardinality(T) }
<1>1. {} \in P
  BY SumOfNone, FS_EmptySet
<1>2. ASSUME NEW T \in SUBSET S, NEW c \in T, T \ {c} \in P PROVE T \in P
  <2>1. NatSum(f, T) = f[c] + NatSum(f, T \ {c})
    BY SumStepDown
  <2>2. f[c] = k /\ NatSum(f, T \ {c}) = k * Cardinality(T \ {c})
    BY <1>2
  <2>3. Cardinality(T) = Cardinality(T \ {c}) + 1 /\ Cardinality(T \ {c}) \in Nat
    BY OneLess
  <2> QED BY <2>1, <2>2, <2>3, Distribute
<1> HIDE DEF P
<1>3. S \in P
  BY <1>1, <1>2, ElementInduction
<1> QED BY <1>3 DEF P

\* A sum without one of its summands.
IsNatOn(f, S) == \A x \in S : f[x] \in Nat

LEMMA SumStepOn ==
    ASSUME NEW S, IsFiniteSet(S), NEW f, IsNatOn(f, S), NEW T \in SUBSET S, NEW c \in T
    PROVE  /\ f[c] \in Nat /\ NatSum(f, T \ {c}) \in Nat
           /\ NatSum(f, T) = f[c] + NatSum(f, T \ {c})
BY SumStepDown DEF IsNatOn

\* Smaller summands make a sum that is smaller by their number.
LEMMA SumsCompare ==
    ASSUME NEW S, IsFiniteSet(S), NEW f, NEW g, \A x \in S : f[x] \in Nat /\ g[x] \in Nat,
           \A x \in S : f[x] < g[x]
    PROVE  NatSum(f, S) + Cardinality(S) <= NatSum(g, S)
<1> DEFINE P == { T \in SUBSET S : NatSum(f, T) + Cardinality(T) <= NatSum(g, T) }
<1>1. {} \in P
  BY SumOfNone, FS_EmptySet
<1>2. ASSUME NEW T \in SUBSET S, NEW c \in T, T \ {c} \in P PROVE T \in P
  <2> HIDE DEF P
  <2>1. IsNatOn(f, S) /\ IsNatOn(g, S)
    BY DEF IsNatOn
  <2>2. /\ f[c] \in Nat /\ NatSum(f, T \ {c}) \in Nat
        /\ NatSum(f, T) = f[c] + NatSum(f, T \ {c})
        /\ g[c] \in Nat /\ NatSum(g, T \ {c}) \in Nat
        /\ NatSum(g, T) = g[c] + NatSum(g, T \ {c})
    BY <2>1, SumStepOn
  <2>3. Cardinality(T) = Cardinality(T \ {c}) + 1 /\ Cardinality(T \ {c}) \in Nat
    BY OneLess
  <2>4. f[c] < g[c] /\ NatSum(f, T \ {c}) + Cardinality(T \ {c}) <= NatSum(g, T \ {c})
    BY <1>2 DEF P
  <2> QED BY <2>2, <2>3, <2>4 DEF P
<1> HIDE DEF P
<1>3. S \in P
  BY <1>1, <1>2, ElementInduction
<1> QED BY <1>3 DEF P

LEMMA SquareStep ==
    ASSUME NEW n \in Nat, NEW q \in Nat, NEW s \in Nat, NEW y \in Nat,
           n * q >= s * s, n = 0 => s = 0
    PROVE  (n + 1) * (q + y * y) >= (s + y) * (s + y)
<1>1. (n + 1) * (q + y * y) = n * q + n * (y * y) + q + y * y
  OBVIOUS
<1>2. (s + y) * (s + y) = s * s + 2 * (s * y) + y * y
  OBVIOUS
<1>3. q + n * (y * y) >= 2 * (s * y)
  <2>1. CASE n = 0
    BY <2>1
  <2>2. CASE n # 0
    <3> DEFINE z == s - n * y
    <3>1. z * z >= 0
      OBVIOUS
    <3>2. z * z = s * s + n * (n * (y * y)) - n * (2 * (s * y))
      OBVIOUS
    <3>3. n * (q + n * (y * y)) = n * q + n * (n * (y * y))
      OBVIOUS
    <3> DEFINE a == q + n * (y * y)
               b == 2 * (s * y)
    <3>4. n * a >= n * b
      BY <3>1, <3>2, <3>3
    <3>5. a \in Nat /\ b \in Nat
      OBVIOUS
    <3> HIDE DEF a, b, z
    <3>6. a >= b
      BY <2>2, <3>4, <3>5
    <3> QED BY <3>6 DEF a, b
  <2> QED BY <2>1, <2>2
<1> QED BY <1>1, <1>2, <1>3

\* The square of a sum is at most the sum of the squares, once for each summand.
LEMMA SquareOfSum ==
    ASSUME NEW S, IsFiniteSet(S), NEW f, NEW g, Squares(g, f, S)
    PROVE  Cardinality(S) * NatSum(g, S) >= NatSum(f, S) * NatSum(f, S)
<1> DEFINE P == { T \in SUBSET S :
                    Cardinality(T) * NatSum(g, T) >= NatSum(f, T) * NatSum(f, T) }
<1>f. \A x \in S : f[x] \in Nat
  BY DEF Squares
<1>g. \A x \in S : g[x] \in Nat
  BY Distribute DEF Squares
<1>1. {} \in P
  BY SumOfNone, FS_EmptySet
<1>2. ASSUME NEW T \in SUBSET S, NEW c \in T, T \ {c} \in P PROVE T \in P
  <2> DEFINE n == Cardinality(T \ {c})
             q == NatSum(g, T \ {c})
             s == NatSum(f, T \ {c})
             y == f[c]
  <2>1. y \in Nat /\ s \in Nat /\ NatSum(f, T) = y + s
    BY <1>f, SumStepDown
  <2>2. q \in Nat /\ NatSum(g, T) = g[c] + q
    BY <1>g, SumStepDown
  <2>3. Cardinality(T) = n + 1 /\ n \in Nat /\ IsFiniteSet(T \ {c}) /\ c \in S
    BY OneLess
  <2>4. g[c] = y * y
    BY <2>3 DEF Squares
  <2>5. n * q >= s * s
    BY <1>2
  <2>6. n = 0 => s = 0
    <3>1. n = 0 => T \ {c} = {}
      BY <2>3, FS_EmptySet
    <3> QED BY <3>1, SumOfNone
  <2> HIDE DEF n, q, s, y
  <2>7. (n + 1) * (q + y * y) >= (s + y) * (s + y)
    BY <2>1, <2>2, <2>3, <2>5, <2>6, SquareStep
  <2>8. NatSum(f, T) = s + y /\ NatSum(g, T) = q + y * y
    BY <2>1, <2>2, <2>4
  <2> QED BY <2>3, <2>7, <2>8
<1> HIDE DEF P
<1>3. S \in P
  BY <1>1, <1>2, ElementInduction
<1> QED BY <1>3 DEF P

-----------------------------------------------------------------------------
(* Adaptive weights: normalize_with_floor.                                    *)

LEMMA FourDims == IsFiniteSet(Dims) /\ Cardinality(Dims) = 4
<1> DEFINE d1 == {"kv"}
           d2 == d1 \cup {"load"}
           d3 == d2 \cup {"topology"}
           d4 == d3 \cup {"cost"}
<1>1. IsFiniteSet(d1) /\ Cardinality(d1) = 1
  BY FS_Singleton
<1>2. "load" \notin d1 /\ "topology" \notin d2 /\ "cost" \notin d3 /\ d4 = Dims
  BY DEF Dims
<1> HIDE DEF d1, d2, d3, d4
<1>3. IsFiniteSet(d2) /\ Cardinality(d2) = 2
  BY <1>1, <1>2, FS_AddElement DEF d2
<1>4. IsFiniteSet(d3) /\ Cardinality(d3) = 3
  BY <1>2, <1>3, FS_AddElement DEF d3
<1>5. IsFiniteSet(d4) /\ Cardinality(d4) = 4
  BY <1>2, <1>4, FS_AddElement DEF d4
<1> QED BY <1>2, <1>5

LEMMA FloorFits == Floor \in Nat /\ 4 * Floor <= WeightUnit
<1> DEFINE quarter == WeightUnit \div 4
<1>1. MinWeight \in Nat /\ WeightUnit \in Nat
  BY AdaptiveAssumption
<1>2. quarter \in Nat /\ 4 * quarter <= WeightUnit
  BY <1>1
<1> HIDE DEF quarter
<1>3. Floor \in Nat /\ Floor <= quarter
  <2>1. Floor = Min({MinWeight, quarter})
    BY DEF Floor, quarter
  <2>2. Min({MinWeight, quarter}) \in Nat /\ Min({MinWeight, quarter}) <= quarter
    BY <1>1, <1>2, MinOfTwo
  <2> QED BY <2>1, <2>2
<1> QED BY <1>1, <1>2, <1>3

LEMMA SumOfIs == ASSUME NEW f, NEW S PROVE SumOf(f, S) = NatSum(f, S)
BY DEF SumOf, NatSum

\* What is left of the unit when the dimensions of c are at the floor.
Budget(c) == WeightUnit - Cardinality(c) * Floor
RestOf(share, c) == NatSum(share, Dims \ c)

LEMMA BudgetArithmetic ==
    ASSUME NEW u \in Nat, NEW f \in Nat, 4 * f <= u, NEW n \in 0 .. 4
    PROVE  u - n * f \in Nat /\ (4 - n) * f <= u - n * f
OBVIOUS

LEMMA BudgetFits ==
    ASSUME NEW c \in SUBSET Dims
    PROVE  /\ IsFiniteSet(c) /\ IsFiniteSet(Dims \ c)
           /\ Cardinality(c) \in 0 .. 4 /\ Cardinality(Dims \ c) = 4 - Cardinality(c)
           /\ Budget(c) \in Nat /\ Cardinality(Dims \ c) * Floor <= Budget(c)
<1>1. IsFiniteSet(c) /\ IsFiniteSet(Dims \ c)
  BY FourDims, FS_Subset
<1>2. Cardinality(c) \in Nat /\ Cardinality(Dims \ c) = 4 - Cardinality(c) /\ Cardinality(c) <= 4
  <2>1. Cardinality(c) <= Cardinality(Dims)
    BY FourDims, FS_Subset
  <2>2. Cardinality(Dims \ c) = Cardinality(Dims) - Cardinality(Dims \cap c)
    BY FourDims, FS_Difference
  <2>3. Dims \cap c = c
    OBVIOUS
  <2>4. Cardinality(c) \in Nat
    BY <1>1, FS_CardinalityType
  <2> QED BY <2>1, <2>2, <2>3, <2>4, FourDims
<1>3. Cardinality(c) \in 0 .. 4
  BY <1>2
<1>4. WeightUnit \in Nat
  BY AdaptiveAssumption
<1>5. Budget(c) \in Nat /\ (4 - Cardinality(c)) * Floor <= Budget(c)
  BY <1>3, <1>4, FloorFits, BudgetArithmetic DEF Budget
<1> QED BY <1>1, <1>2, <1>3, <1>5

\* A pass, when something is left to share out.
LEMMA PassIs ==
    ASSUME NEW share \in [Dims -> Nat], NEW c \in SUBSET Dims, RestOf(share, c) > 0
    PROVE  /\ Pass(share, c) \in SUBSET Dims /\ c \subseteq Pass(share, c)
           /\ \A d \in Dims \ c : d \in Pass(share, c)
                                    <=> share[d] * Budget(c) < Floor * RestOf(share, c)
BY DEF Pass, SumOf, NatSum, Budget, RestOf

LEMMA PassGrows ==
    ASSUME NEW share \in [Dims -> Nat], NEW c \in SUBSET Dims, RestOf(share, c) > 0
    PROVE  Pass(share, c) = c \/ Cardinality(Pass(share, c)) >= Cardinality(c) + 1
<1> DEFINE p == Pass(share, c)
<1>1. p \in SUBSET Dims /\ c \subseteq p
  BY PassIs
<1>2. IsFiniteSet(p) /\ Cardinality(p) \in Nat /\ Cardinality(c) \in Nat
  <2>1. IsFiniteSet(p) /\ IsFiniteSet(c)
    BY <1>1, FourDims, FS_Subset
  <2> QED BY <2>1, FS_CardinalityType
<1> HIDE DEF p
<1>3. CASE p # c
  <2>1. Cardinality(c) < Cardinality(p)
    BY <1>1, <1>2, <1>3, FS_Subset
  <2> QED BY <1>2, <2>1 DEF p
<1> QED BY <1>3 DEF p

LEMMA PositiveFactor == \A a, b \in Nat : a * b > 0 => a > 0
OBVIOUS
LEMMA FactorOut == \A a, b, r \in Nat : r > 0 /\ a * r < b * r => a < b
OBVIOUS

\* Not every dimension left can be below the floor, so a pass leaves something
\* to share out.
LEMMA PassLeaves ==
    ASSUME NEW share \in [Dims -> Nat], NEW c \in SUBSET Dims, RestOf(share, c) > 0
    PROVE  RestOf(share, Pass(share, c)) > 0
<1> DEFINE p == Pass(share, c)
           D == Dims \ c
           rest == RestOf(share, c)
           budget == Budget(c)
<1>1. /\ p \in SUBSET Dims /\ c \subseteq p
      /\ \A d \in D : d \in p <=> share[d] * budget < Floor * rest
  BY PassIs
<1>2. /\ IsFiniteSet(D) /\ budget \in Nat /\ Cardinality(D) \in Nat
      /\ Cardinality(D) * Floor <= budget
  <2>1. /\ IsFiniteSet(D) /\ budget \in Nat /\ Cardinality(D) * Floor <= budget
    BY BudgetFits
  <2> QED BY <2>1, FS_CardinalityType
<1>3. \A d \in Dims : share[d] \in Nat
  OBVIOUS
<1>4. rest \in Nat /\ rest > 0 /\ rest = NatSum(share, D)
  BY <1>2, <1>3, SumIsNat DEF RestOf
<1> HIDE DEF p, rest, budget
<1>5. PICK d \in D : share[d] * budget >= Floor * rest
  <2> SUFFICES ASSUME \A d \in D : ~ (share[d] * budget >= Floor * rest) PROVE FALSE
    OBVIOUS
  <2> DEFINE f == [d \in D |-> budget * share[d]]
             g == [d \in D |-> Floor * rest]
  <2>1. Multiplies(f, budget, share, D)
    BY <1>3 DEF Multiplies
  <2>2. NatSum(f, D) = budget * rest
    BY <1>2, <1>4, <2>1, SumScales
  <2>3. Floor * rest \in Nat /\ \A d \in D : g[d] = Floor * rest
    BY <1>4, FloorFits, Distribute
  <2>4. NatSum(g, D) = (Floor * rest) * Cardinality(D)
    <3> HIDE DEF D, g
    <3> QED BY <1>2, <2>3, SumOfEquals
  <2>5. \A d \in D : f[d] \in Nat /\ g[d] \in Nat /\ f[d] < g[d]
    <3> SUFFICES ASSUME NEW d \in D PROVE f[d] \in Nat /\ g[d] \in Nat /\ f[d] < g[d]
      OBVIOUS
    <3>1. share[d] \in Nat /\ ~ (share[d] * budget >= Floor * rest)
      OBVIOUS
    <3>2. f[d] = budget * share[d] /\ g[d] = Floor * rest
      OBVIOUS
    <3> HIDE DEF f, g
    <3> QED BY <1>2, <2>3, <3>1, <3>2
  <2>6. D # {}
    <3>1. NatSum(share, {}) = 0
      BY SumOfNone
    <3> HIDE DEF D
    <3> QED BY <1>4, <3>1
  <2>7. Cardinality(D) # 0
    BY <1>2, <2>6, FS_EmptySet
  <2> HIDE DEF D, f, g
  <2>8. NatSum(f, D) + Cardinality(D) <= NatSum(g, D)
    BY <1>2, <2>5, SumsCompare
  <2>9. budget * rest < (Floor * Cardinality(D)) * rest
    <3>1. (Floor * rest) * Cardinality(D) = (Floor * Cardinality(D)) * rest
      BY <1>2, <1>4, FloorFits
    <3>2. budget * rest \in Nat /\ (Floor * rest) * Cardinality(D) \in Nat
      BY <1>2, <1>4, <2>3, Distribute
    <3> QED BY <1>2, <2>2, <2>4, <2>7, <2>8, <3>1, <3>2
  <2>10. budget < Floor * Cardinality(D)
    <3>1. Floor * Cardinality(D) \in Nat
      BY <1>2, FloorFits, Distribute
    <3> QED BY <1>2, <1>4, <2>9, <3>1, FactorOut
  <2> QED BY <1>2, <2>10, FloorFits
<1>6. CASE Floor > 0
  <2>1. Floor * rest \in Nat /\ Floor * rest > 0 /\ share[d] \in Nat
    BY <1>3, <1>4, <1>6, FloorFits
  <2>2. share[d] * budget > 0 /\ share[d] * budget \in Nat
    BY <1>2, <1>5, <2>1
  <2>3. d \in Dims \ p
    BY <1>1, <1>5, <2>1, <2>2
  <2>4. share[d] > 0
    BY <1>2, <2>1, <2>2, PositiveFactor
  <2>5. IsFiniteSet(Dims \ p) /\ IsFiniteSet((Dims \ p) \ {d})
    BY <1>1, FourDims, FS_Subset
  <2>6. NatSum(share, Dims \ p) = share[d] + NatSum(share, (Dims \ p) \ {d})
        /\ NatSum(share, (Dims \ p) \ {d}) \in Nat
    BY <1>3, <2>3, <2>5, SumSplits, SumIsNat
  <2> QED BY <2>1, <2>4, <2>6 DEF RestOf, p
<1>7. CASE Floor = 0
  <2>1. \A n \in D : share[n] * budget \in Nat
    BY <1>2, <1>3, Distribute
  <2>2. Floor * rest = 0
    BY <1>4, <1>7
  <2>3. p = c
    BY <1>1, <2>1, <2>2
  <2> QED BY <1>4, <2>3 DEF p, rest
<1> QED BY <1>6, <1>7, FloorFits

\* A step of the loop: something is left, and either n dimensions are clamped
\* or the passes have come to rest.
Reached(share, c, n) ==
    /\ c \in SUBSET Dims /\ RestOf(share, c) > 0
    /\ Pass(share, c) = c \/ Cardinality(c) >= n

LEMMA PassReaches ==
    ASSUME NEW share \in [Dims -> Nat], NEW n \in Nat, NEW c, Reached(share, c, n)
    PROVE  Reached(share, Pass(share, c), n + 1)
<1>1. c \in SUBSET Dims /\ RestOf(share, c) > 0
  BY DEF Reached
<1>2. Pass(share, c) \in SUBSET Dims /\ RestOf(share, Pass(share, c)) > 0
  BY <1>1, PassIs, PassLeaves
<1>3. CASE Pass(share, c) = c
  BY <1>1, <1>3 DEF Reached
<1>4. CASE Pass(share, c) # c
  <2>1. Cardinality(Pass(share, c)) >= Cardinality(c) + 1 /\ Cardinality(c) >= n
    BY <1>1, <1>4, PassGrows DEF Reached
  <2>2. Cardinality(c) \in 0 .. 4 /\ Cardinality(Pass(share, c)) \in 0 .. 4
    BY <1>1, <1>2, BudgetFits
  <2>3. Cardinality(Pass(share, c)) >= n + 1
    BY <2>1, <2>2
  <2> QED BY <1>2, <2>3 DEF Reached
<1> QED BY <1>3, <1>4

\* normalize_with_floor is four passes.
LEMMA FourPasses ==
    ASSUME NEW share
    PROVE  NormalizeWithFloor(share)
              = Pass(share, Pass(share, Pass(share, Pass(share, {}))))
<1> DEFINE P(c) == Pass(share, c)
           Unfold(a) == [n \in 0 .. Cardinality(Dims) |-> IF n = 0 THEN {} ELSE Pass(share, a[n - 1])]
           after == CHOOSE a : a = Unfold(a)
           g == [n \in 0 .. 4 |-> IF n = 0 THEN {}
                                  ELSE IF n = 1 THEN P({})
                                  ELSE IF n = 2 THEN P(P({}))
                                  ELSE IF n = 3 THEN P(P(P({})))
                                  ELSE P(P(P(P({}))))]
<1>1. NormalizeWithFloor(share) = after[Cardinality(Dims)]
  BY Zenon DEF NormalizeWithFloor
<1>2. g = Unfold(g)
  <2>1. Unfold(g) = [n \in 0 .. 4 |-> IF n = 0 THEN {} ELSE P(g[n - 1])]
    BY FourDims, Zenon
  <2>2. g[0] = {} /\ g[1] = P({}) /\ g[2] = P(P({})) /\ g[3] = P(P(P({})))
        /\ g[4] = P(P(P(P({}))))
    <3> HIDE DEF P
    <3> QED OBVIOUS
  <2>3. \A n \in 0 .. 4 : g[n] = IF n = 0 THEN {} ELSE P(g[n - 1])
    <3> HIDE DEF P, g
    <3>1. \A n \in 0 .. 4 : n \in {0, 1, 2, 3, 4}
      OBVIOUS
    <3> QED BY <2>2, <3>1
  <2>4. g = [n \in 0 .. 4 |-> g[n]]
    OBVIOUS
  <2> HIDE DEF g, P
  <2>5. g = [n \in 0 .. 4 |-> IF n = 0 THEN {} ELSE P(g[n - 1])]
    BY <2>3, <2>4
  <2> QED BY <2>1, <2>5 DEF P
<1>3. after = Unfold(after)
  <2> HIDE DEF Unfold, g
  <2> QED BY <1>2
<1> HIDE DEF after, g
<1>4. after[0] = {} /\ \A n \in 1 .. 4 : after[n] = P(after[n - 1])
  <2>1. after = [n \in 0 .. 4 |-> IF n = 0 THEN {} ELSE P(after[n - 1])]
    BY <1>3, FourDims, Zenon
  <2> HIDE DEF P
  <2>2. \A n \in 0 .. 4 : after[n] = IF n = 0 THEN {} ELSE P(after[n - 1])
    BY <2>1
  <2> QED BY <2>2
<1>5. after[4] = P(P(P(P({}))))
  <2> HIDE DEF P
  <2>1. after[1] = P({}) /\ after[2] = P(after[1]) /\ after[3] = P(after[2]) /\ after[4] = P(after[3])
    BY <1>4
  <2> QED BY <2>1
<1> QED BY <1>1, <1>5, FourDims

\* The passes come to rest, with something left to share out.
LEMMA NormalizeRests ==
    ASSUME NEW share \in [Dims -> Nat], NatSum(share, Dims) > 0
    PROVE  LET c == NormalizeWithFloor(share)
           IN  c \in SUBSET Dims /\ RestOf(share, c) > 0 /\ Pass(share, c) = c
<1> DEFINE c1 == Pass(share, {})
           c2 == Pass(share, c1)
           c3 == Pass(share, c2)
           c4 == Pass(share, c3)
<1>1. Reached(share, {}, 0)
  <2>1. Dims \ {} = Dims
    OBVIOUS
  <2> QED BY <2>1, FS_EmptySet DEF Reached, RestOf
<1>2. Reached(share, c1, 1)
  BY <1>1, PassReaches
<1> HIDE DEF c1
<1>3. Reached(share, c2, 2)
  BY <1>2, PassReaches
<1> HIDE DEF c2
<1>4. Reached(share, c3, 3)
  BY <1>3, PassReaches
<1> HIDE DEF c3
<1>5. Reached(share, c4, 4)
  BY <1>4, PassReaches
<1>6. NormalizeWithFloor(share) = c4
  BY FourPasses DEF c1, c2, c3
<1> HIDE DEF c4
<1>7. c4 \in SUBSET Dims /\ RestOf(share, c4) > 0
  BY <1>5 DEF Reached
<1>8. ~ (Cardinality(c4) >= 4)
  <2> SUFFICES ASSUME Cardinality(c4) >= 4 PROVE FALSE
    OBVIOUS
  <2>1. Cardinality(c4) \in 0 .. 4 /\ Cardinality(Dims \ c4) = 4 - Cardinality(c4)
        /\ IsFiniteSet(Dims \ c4)
    BY <1>7, BudgetFits
  <2>2. Cardinality(Dims \ c4) = 0
    BY <2>1
  <2>3. Dims \ c4 = {}
    BY <2>1, <2>2, FS_EmptySet
  <2>4. NatSum(share, {}) = 0
    BY SumOfNone
  <2> QED BY <1>7, <2>3, <2>4 DEF RestOf
<1>9. Pass(share, c4) = c4
  BY <1>5, <1>8 DEF Reached
<1> QED BY <1>6, <1>7, <1>9

\* The weights a set of shares becomes.
Normalized(share) == [share |-> share, clamped |-> NormalizeWithFloor(share), adjusted |-> TRUE]

LEMMA ShareOut ==
    ASSUME NEW u \in Nat, NEW n \in Nat, NEW f \in Nat, NEW r \in Nat
    PROVE  (f * r) * n + (u - n * f) * r = u * r
OBVIOUS

\* The normalised weights sum to one and none is below the floor.
LEMMA NormalizedFits ==
    ASSUME NEW share \in [Dims -> Nat], NatSum(share, Dims) > 0
    PROVE  LET w == Normalized(share)
               rest == RestOf(share, w.clamped)
           IN  /\ w.clamped \in SUBSET Dims /\ rest \in Nat /\ rest > 0
               /\ \A d \in Dims : Numerator(w, d) =
                     IF d \in w.clamped THEN Floor * rest ELSE share[d] * Budget(w.clamped)
               /\ NatSum([d \in Dims |-> Numerator(w, d)], Dims) = WeightUnit * rest
               /\ \A d \in Dims : Numerator(w, d) >= Floor * rest
<1> DEFINE w == Normalized(share)
           c == NormalizeWithFloor(share)
           rest == RestOf(share, c)
           num == [d \in Dims |-> Numerator(w, d)]
<1>1. c \in SUBSET Dims /\ rest > 0 /\ Pass(share, c) = c
  BY NormalizeRests
<1>2. w.clamped = c /\ w.share = share
  BY DEF Normalized
<1> HIDE DEF w, c
<1>3. \A d \in Dims : Numerator(w, d) = IF d \in c THEN Floor * rest ELSE share[d] * Budget(c)
  BY <1>2, SumOfIs DEF Numerator, RestOf, Budget
<1>4. IsFiniteSet(c) /\ IsFiniteSet(Dims \ c) /\ Budget(c) \in Nat /\ Cardinality(c) \in Nat
  <2>1. IsFiniteSet(c) /\ IsFiniteSet(Dims \ c) /\ Budget(c) \in Nat
    BY <1>1, BudgetFits
  <2> QED BY <2>1, FS_CardinalityType
<1>5. \A d \in Dims : share[d] \in Nat
  OBVIOUS
<1>6. rest \in Nat /\ rest = NatSum(share, Dims \ c)
  BY <1>4, <1>5, SumIsNat DEF RestOf
<1> HIDE DEF rest
<1>7. Floor * rest \in Nat /\ \A d \in Dims : share[d] * Budget(c) \in Nat
  BY <1>4, <1>5, <1>6, FloorFits, Distribute
<1>8. \A d \in Dims : num[d] = IF d \in c THEN Floor * rest ELSE share[d] * Budget(c)
  BY <1>3
<1>9. \A d \in Dims : num[d] \in Nat
  BY <1>7, <1>8
<1> HIDE DEF num
<1>10. NatSum(num, Dims) = WeightUnit * rest
  <2>1. NatSum(num, c) = (Floor * rest) * Cardinality(c)
    <3>1. \A d \in c : num[d] = Floor * rest
      BY <1>1, <1>8
    <3> QED BY <1>4, <1>7, <3>1, SumOfEquals
  <2>2. NatSum(num, Dims \ c) = Budget(c) * rest
    <3>1. \A d \in Dims \ c : num[d] = Budget(c) * share[d]
      BY <1>4, <1>5, <1>8
    <3>2. Multiplies(num, Budget(c), share, Dims \ c)
      BY <1>5, <3>1 DEF Multiplies
    <3> QED BY <1>4, <1>6, <3>2, SumScales
  <2>3. NatSum(num, Dims) = NatSum(num, c) + NatSum(num, Dims \ c)
    BY <1>1, <1>9, FourDims, SumOfParts
  <2>4. WeightUnit \in Nat
    BY AdaptiveAssumption
  <2> QED BY <1>4, <1>6, <2>1, <2>2, <2>3, <2>4, FloorFits, ShareOut DEF Budget
<1>11. \A d \in Dims : Numerator(w, d) >= Floor * rest
  <2> SUFFICES ASSUME NEW d \in Dims PROVE Numerator(w, d) >= Floor * rest
    OBVIOUS
  <2>1. CASE d \in c
    BY <1>3, <1>7, <2>1
  <2>2. CASE d \notin c
    <3>1. ~ (share[d] * Budget(c) < Floor * rest)
      BY <1>1, <2>2, PassIs DEF rest
    <3> QED BY <1>3, <1>7, <2>2, <3>1
  <2> QED BY <2>1, <2>2
<1> QED BY <1>1, <1>2, <1>3, <1>6, <1>10, <1>11 DEF w, c, rest, num

-----------------------------------------------------------------------------
(* Adaptive weights: the signals.                                             *)

LEMMA MaxOfTwo ==
    ASSUME NEW a \in Int, NEW b \in Int
    PROVE  Max({a, b}) = IF a >= b THEN a ELSE b
<1> DEFINE m == IF a >= b THEN a ELSE b
<1>1. m \in {a, b} /\ \A y \in {a, b} : m >= y
  OBVIOUS
<1>2. \A x \in {a, b} : (\A y \in {a, b} : x >= y) => x = m
  OBVIOUS
<1> HIDE DEF m
<1>3. (CHOOSE x \in {a, b} : \A y \in {a, b} : x >= y) = m
  BY <1>1, <1>2
<1> QED BY <1>3 DEF Max, m

LEMMA ClampBounds == \A x \in Int : Clamp(x) \in 0 .. Scale
<1> SUFFICES ASSUME NEW x \in Int PROVE Clamp(x) \in 0 .. Scale
  OBVIOUS
<1>1. Scale \in Nat
  BY AdaptiveAssumption
<1> DEFINE m == Min({x, Scale})
<1>2. m \in Int /\ m <= Scale
  BY <1>1, MinOfTwo
<1> HIDE DEF m
<1>3. Max({0, m}) = IF 0 >= m THEN 0 ELSE m
  BY <1>2, MaxOfTwo
<1>4. Clamp(x) = Max({0, m})
  BY DEF Clamp, m
<1> QED BY <1>1, <1>2, <1>3, <1>4

\* Over a finite set, a function has a least value.
LEMMA LeastValue ==
    ASSUME NEW S, IsFiniteSet(S), S # {}, NEW f, \A x \in S : f[x] \in Int
    PROVE  Min({ f[x] : x \in S }) \in Int
<1> DEFINE P == { T \in SUBSET S : T = {} \/ \E m \in T : \A x \in T : f[m] <= f[x] }
<1>1. {} \in P
  OBVIOUS
<1>2. ASSUME NEW T \in SUBSET S, NEW c \in T, T \ {c} \in P PROVE T \in P
  <2>1. CASE T \ {c} = {}
    <3>1. T = {c} /\ f[c] \in Int
      BY <2>1
    <3> QED BY <3>1
  <2>2. CASE T \ {c} # {}
    <3>1. PICK m \in T \ {c} : \A x \in T \ {c} : f[m] <= f[x]
      BY <1>2, <2>2
    <3>2. f[m] \in Int /\ f[c] \in Int /\ \A x \in T : f[x] \in Int
      BY <3>1
    <3>3. CASE f[m] <= f[c]
      BY <3>1, <3>3
    <3>4. CASE ~ (f[m] <= f[c])
      <4>1. \A x \in T : f[c] <= f[x]
        BY <3>1, <3>2, <3>4
      <4> QED BY <4>1
    <3> QED BY <3>3, <3>4
  <2> QED BY <2>1, <2>2
<1>3. S \in P
  <2> HIDE DEF P
  <2> QED BY <1>1, <1>2, ElementInduction
<1>4. PICK m \in S : \A x \in S : f[m] <= f[x]
  BY <1>3
<1> DEFINE V == { f[x] : x \in S }
<1>5. f[m] \in V /\ \A y \in V : f[m] <= y
  BY <1>4
<1>6. V \subseteq Int
  OBVIOUS
<1> HIDE DEF V
<1>7. Min(V) \in V
  BY <1>5 DEF Min
<1> QED BY <1>6, <1>7 DEF V

SignalTypes ==
    /\ outcomes = <<>> \/ DOMAIN outcomes # {}
    /\ IsFiniteSet(DOMAIN outcomes)
    /\ \A b \in DOMAIN outcomes : outcomes[b] \in Int
    /\ kvHit \in Int
    /\ loads \in LoadViews

LEMMA FailureBounds == SignalTypes => FailurePressure \in 0 .. Scale
<1> SUFFICES ASSUME SignalTypes PROVE FailurePressure \in 0 .. Scale
  OBVIOUS
<1>1. Scale \in Nat
  BY AdaptiveAssumption
<1>2. CASE outcomes = <<>>
  BY <1>1, <1>2 DEF FailurePressure
<1>3. CASE outcomes # <<>>
  <2> DEFINE least == Min({outcomes[b] : b \in DOMAIN outcomes})
  <2>1. least \in Int
    BY <1>3, LeastValue DEF SignalTypes
  <2>2. FailurePressure = Clamp(Scale - least)
    BY <1>3 DEF FailurePressure
  <2> HIDE DEF least
  <2> QED BY <1>1, <2>1, <2>2, ClampBounds
<1> QED BY <1>2, <1>3

LEMMA KvBounds == SignalTypes => KvBoost \in 0 .. Scale
<1> SUFFICES ASSUME SignalTypes PROVE KvBoost \in 0 .. Scale
  OBVIOUS
<1>1. Scale \in Nat /\ kvHit \in Int
  BY AdaptiveAssumption DEF SignalTypes
<1>2. 2 * kvHit - Scale \in Int
  BY <1>1
<1> QED BY <1>1, <1>2, ClampBounds DEF KvBoost

\* The spread is the greatest of a set that holds at least zero, since the
\* variance is not negative.
LEMMA SpreadBounds == SignalTypes => LoadSpread \in 0 .. Scale
<1> SUFFICES ASSUME SignalTypes PROVE LoadSpread \in 0 .. Scale
  OBVIOUS
<1> DEFINE D == DOMAIN loads
           squares == [b \in D |-> loads[b] * loads[b]]
           sum == SumOf(loads, D)
           sq == Cardinality(D) * SumOf(squares, D)
           In(s) == s * s * sum * sum <= Scale * Scale * (sq - sum * sum)
           G == { s \in 0 .. Scale : In(s) }
<1>1. Scale \in Nat
  BY AdaptiveAssumption
<1>2. IsFiniteSet(D) /\ \A b \in D : loads[b] \in Nat
  BY AdaptiveAssumption DEF SignalTypes
<1>3. Squares(squares, loads, D)
  BY <1>2 DEF Squares
<1>4. \A b \in D : squares[b] \in Nat
  BY <1>2, Distribute
<1>5. sum \in Nat /\ sq \in Nat /\ sq >= sum * sum
  <2>1. sum = NatSum(loads, D) /\ SumOf(squares, D) = NatSum(squares, D)
    BY SumOfIs
  <2> HIDE DEF D, squares
  <2>2. NatSum(loads, D) \in Nat /\ NatSum(squares, D) \in Nat /\ Cardinality(D) \in Nat
    BY <1>2, <1>4, SumIsNat, FS_CardinalityType
  <2>3. Cardinality(D) * NatSum(squares, D) >= NatSum(loads, D) * NatSum(loads, D)
    BY <1>2, <1>3, SquareOfSum
  <2> QED BY <2>1, <2>2, <2>3, Distribute
<1>6. LoadSpread = IF Cardinality(D) < 2 \/ sum = 0 THEN 0 ELSE Max(G)
  BY Zenon DEF LoadSpread
<1> HIDE DEF D, squares, sum, sq
<1>7. 0 \in G
  <2>1. sq - sum * sum \in Nat /\ Scale * Scale \in Nat
    BY <1>1, <1>5
  <2>2. Scale * Scale * (sq - sum * sum) \in Nat
    BY <2>1, Distribute
  <2>3. 0 * 0 * sum * sum = 0
    BY <1>5
  <2> QED BY <1>1, <2>2, <2>3
<1>8. Max(G) \in 0 .. Scale
  <2>1. G \subseteq 0 .. Scale /\ G # {}
    BY <1>7
  <2> HIDE DEF G
  <2>2. Max(G) \in G
    BY <1>1, <2>1, GreatestUpTo
  <2> QED BY <2>1, <2>2
<1> HIDE DEF G
<1> QED BY <1>1, <1>6, <1>8

\* Every share is its base with a boost of at most max_adjustment.
Boosts(share) ==
    /\ share \in [Dims -> Nat]
    /\ \A d \in Dims : \E boost \in 0 .. Scale : share[d] = Boosted(Base[d], boost)

LEMMA BoostIsNat == \A b, x \in Nat : Boosted(b, x) \in Nat
<1>1. Scale \in Nat /\ MaxAdjustment \in Nat
  BY AdaptiveAssumption
<1> SUFFICES ASSUME NEW b \in Nat, NEW x \in Nat PROVE Boosted(b, x) \in Nat
  OBVIOUS
<1>2. Scale * Scale \in Nat /\ x * MaxAdjustment \in Nat
  BY <1>1, Distribute
<1>3. Scale * Scale + x * MaxAdjustment \in Nat
  BY <1>2
<1> QED BY <1>3, Distribute DEF Boosted

LEMMA SharesBoost == SignalTypes => Boosts(Shares)
<1> SUFFICES ASSUME SignalTypes PROVE Boosts(Shares)
  OBVIOUS
<1> DEFINE kv == KvBoost
           load == Max({FailurePressure, LoadSpread})
<1>1. Scale \in Nat /\ Base \in [Dims -> Nat]
  BY AdaptiveAssumption
<1>2. kv \in 0 .. Scale
  BY KvBounds
<1>3. load \in 0 .. Scale
  <2>1. FailurePressure \in 0 .. Scale /\ LoadSpread \in 0 .. Scale
    BY FailureBounds, SpreadBounds
  <2>2. FailurePressure \in Int /\ LoadSpread \in Int
    BY <1>1, <2>1
  <2> QED BY <2>1, <2>2, MaxOfTwo
<1>4. Shares = [kv |-> Boosted(Base["kv"], kv), load |-> Boosted(Base["load"], load),
                topology |-> Boosted(Base["topology"], 0), cost |-> Boosted(Base["cost"], 0)]
  BY Zenon DEF Shares
<1> HIDE DEF kv, load
<1>5. DOMAIN Shares = Dims
  BY <1>4 DEF Dims
<1>6. /\ Shares["kv"] = Boosted(Base["kv"], kv) /\ Shares["load"] = Boosted(Base["load"], load)
      /\ Shares["topology"] = Boosted(Base["topology"], 0)
      /\ Shares["cost"] = Boosted(Base["cost"], 0)
  BY <1>4
<1>7. \A d \in Dims : \E boost \in 0 .. Scale : Shares[d] = Boosted(Base[d], boost)
  <2>1. 0 \in 0 .. Scale
    BY <1>1
  <2> QED BY <1>2, <1>3, <1>6, <2>1, Zenon DEF Dims
<1>8. ASSUME NEW d \in Dims PROVE Shares[d] \in Nat
  <2>1. PICK boost \in 0 .. Scale : Shares[d] = Boosted(Base[d], boost)
    BY <1>7
  <2>2. Base[d] \in Nat /\ boost \in Nat
    BY <1>1
  <2> QED BY <2>1, <2>2, BoostIsNat
<1>9. Shares = [d \in Dims |-> Shares[d]]
  BY <1>4, <1>5
<1>10. Shares \in [Dims -> Nat]
  BY <1>8, <1>9
<1> QED BY <1>7, <1>10 DEF Boosts

-----------------------------------------------------------------------------
(* Adaptive weights: no boost beyond max_adjustment.                          *)

LEMMA TimesMore ==
    ASSUME NEW a \in Nat, NEW b \in Nat, NEW k \in Nat, a <= b
    PROVE  k * a <= k * b
OBVIOUS

\* s is Scale, m max_adjustment, x and y the boosts of two dimensions.
LEMMA BoostRatio ==
    ASSUME NEW s \in Nat, NEW m \in Nat, NEW x \in 0 .. s, NEW y \in 0 .. s
    PROVE  s * (s * s + x * m) <= (s + m) * (s * s + y * m)
<1>1. x * m <= s * m /\ x * m \in Nat /\ s * m \in Nat /\ y * m \in Nat /\ s * s \in Nat
  <2>1. m * x <= m * s
    BY TimesMore
  <2> QED BY <2>1, Distribute
<1>2. s * (s * s + x * m) <= s * (s * s + s * m)
  BY <1>1, TimesMore
<1>3. s * (s * s + s * m) = (s + m) * (s * s)
  OBVIOUS
<1>4. (s + m) * (s * s) <= (s + m) * (s * s + y * m)
  BY <1>1, TimesMore
<1>5. s * (s * s + x * m) \in Nat /\ (s + m) * (s * s) \in Nat /\ (s + m) * (s * s + y * m) \in Nat
  BY <1>1, Distribute
<1> QED BY <1>2, <1>3, <1>4, <1>5

LEMMA Regroup ==
    ASSUME NEW a \in Nat, NEW b \in Nat, NEW e \in Nat, NEW p \in Nat, NEW q \in Nat
    PROVE  p * ((a * q) * b) * e = (a * b * e) * (p * q)
OBVIOUS

LEMMA RatioArithmetic ==
    ASSUME NEW s \in Nat, NEW m \in Nat, NEW x \in 0 .. s, NEW y \in 0 .. s,
           NEW a \in Nat, NEW e \in Nat, NEW b \in Nat
    PROVE  s * ((a * (s * s + x * m)) * b) * e <= (s + m) * ((e * (s * s + y * m)) * b) * a
<1> DEFINE l == s * s + x * m
           r == s * s + y * m
<1>1. l \in Nat /\ r \in Nat /\ s + m \in Nat
  BY Distribute
<1>2. s * l <= (s + m) * r
  BY BoostRatio
<1> HIDE DEF l, r
<1>3. s * ((a * l) * b) * e = (a * b * e) * (s * l)
  BY <1>1, Regroup
<1>4. (s + m) * ((e * r) * b) * a = (e * b * a) * ((s + m) * r)
  BY <1>1, Regroup
<1>5. a * b * e = e * b * a /\ a * b * e \in Nat
  OBVIOUS
<1>6. s * l \in Nat /\ (s + m) * r \in Nat
  BY <1>1, Distribute
<1>7. (a * b * e) * (s * l) <= (a * b * e) * ((s + m) * r)
  BY <1>2, <1>5, <1>6, TimesMore
<1> QED BY <1>3, <1>4, <1>5, <1>7 DEF l, r

\* What WeightsAreBounded says of the weights in effect, for any weights.
Bounded(w) ==
    w.adjusted =>
        LET rest == SumOf(w.share, Dims \ w.clamped) IN
        /\ rest > 0
        /\ SumOf([d \in Dims |-> Numerator(w, d)], Dims) = WeightUnit * rest
        /\ \A d \in Dims : Numerator(w, d) >= Floor * rest
        /\ \A d, e \in Dims \ w.clamped :
               Scale * Numerator(w, d) * Base[e] <= (Scale + MaxAdjustment) * Numerator(w, e) * Base[d]

LEMMA NormalizedBounded ==
    ASSUME NEW share, Boosts(share), NatSum(share, Dims) > 0
    PROVE  Bounded(Normalized(share))
<1> DEFINE w == Normalized(share)
           rest == RestOf(share, w.clamped)
           num == [d \in Dims |-> Numerator(w, d)]
<1>1. share \in [Dims -> Nat]
  BY DEF Boosts
<1>2. /\ w.clamped \in SUBSET Dims /\ rest \in Nat /\ rest > 0
      /\ \A d \in Dims : Numerator(w, d) =
            IF d \in w.clamped THEN Floor * rest ELSE share[d] * Budget(w.clamped)
      /\ NatSum(num, Dims) = WeightUnit * rest
      /\ \A d \in Dims : Numerator(w, d) >= Floor * rest
  BY <1>1, NormalizedFits, Zenon
<1>3. w.share = share
  BY DEF Normalized
<1>4. SumOf(w.share, Dims \ w.clamped) = rest /\ SumOf(num, Dims) = NatSum(num, Dims)
  BY <1>3, SumOfIs DEF RestOf
<1>5. ASSUME NEW d \in Dims \ w.clamped, NEW e \in Dims \ w.clamped
      PROVE  Scale * Numerator(w, d) * Base[e] <= (Scale + MaxAdjustment) * Numerator(w, e) * Base[d]
  <2>1. Numerator(w, d) = share[d] * Budget(w.clamped) /\ Numerator(w, e) = share[e] * Budget(w.clamped)
    BY <1>2
  <2>2. /\ Scale \in Nat /\ MaxAdjustment \in Nat /\ Base[d] \in Nat /\ Base[e] \in Nat
    BY AdaptiveAssumption
  <2>3. Budget(w.clamped) \in Nat
    BY <1>2, BudgetFits
  <2>4. PICK x \in 0 .. Scale : share[d] = Base[d] * (Scale * Scale + x * MaxAdjustment)
    BY DEF Boosts, Boosted
  <2>5. PICK y \in 0 .. Scale : share[e] = Base[e] * (Scale * Scale + y * MaxAdjustment)
    BY DEF Boosts, Boosted
  <2>6. Scale * ((Base[d] * (Scale * Scale + x * MaxAdjustment)) * Budget(w.clamped)) * Base[e]
           <= (Scale + MaxAdjustment)
                * ((Base[e] * (Scale * Scale + y * MaxAdjustment)) * Budget(w.clamped)) * Base[d]
    BY <2>2, <2>3, RatioArithmetic, Zenon
  <2> HIDE DEF w
  <2> QED BY <2>1, <2>4, <2>5, <2>6, Zenon
<1> HIDE DEF w, rest
<1> QED BY <1>2, <1>4, <1>5 DEF Bounded, w, num

LEMMA ComputeBounded == SignalTypes => Bounded(Compute)
<1> SUFFICES ASSUME SignalTypes PROVE Bounded(Compute)
  OBVIOUS
<1>1. Boosts(Shares) /\ Shares \in [Dims -> Nat]
  BY SharesBoost DEF Boosts
<1>2. SumOf(Shares, Dims) = NatSum(Shares, Dims) /\ NatSum(Shares, Dims) \in Nat
  <2>1. \A d \in Dims : Shares[d] \in Nat
    BY <1>1
  <2> QED BY <2>1, SumOfIs, SumIsNat, FourDims
<1>3. CASE SumOf(Shares, Dims) = 0
  <2>1. Compute = BaseWeights
    BY <1>3 DEF Compute
  <2>2. BaseWeights.adjusted = FALSE
    BY DEF BaseWeights
  <2> QED BY <2>1, <2>2 DEF Bounded
<1>4. CASE SumOf(Shares, Dims) # 0
  <2>1. Compute = Normalized(Shares)
    BY <1>4 DEF Compute, Normalized
  <2>2. NatSum(Shares, Dims) > 0
    BY <1>2, <1>4
  <2> QED BY <1>1, <2>1, <2>2, NormalizedBounded
<1> QED BY <1>3, <1>4

-----------------------------------------------------------------------------
(* Adaptive weights: the invariant.  Whatever a caller computed from the      *)
(* signals it read is bounded, so it does not matter when it publishes.       *)

AdaptiveInv ==
    /\ SignalTypes
    /\ Bounded(weights)
    /\ DOMAIN router = Routers
    /\ \A r \in Routers : Bounded(router[r].new)

LEMMA BaseBounded == Bounded(BaseWeights)
BY DEF Bounded, BaseWeights

LEMMA AdaptiveInvInit == AdaptiveInit => AdaptiveInv
<1> SUFFICES ASSUME AdaptiveInit PROVE AdaptiveInv
  OBVIOUS
<1>1. outcomes = <<>> /\ DOMAIN outcomes = {}
  BY DEF AdaptiveInit
<1>2. SignalTypes
  BY <1>1, FS_EmptySet DEF AdaptiveInit, SignalTypes, NoSample
<1>3. weights = BaseWeights /\ router = [r \in Routers |-> [pc |-> "idle", new |-> BaseWeights]]
  BY DEF AdaptiveInit
<1> QED BY <1>2, <1>3, BaseBounded DEF AdaptiveInv

LEMMA EmaIsInt == \A a, b \in Int : Ema(a, b) \in Int
<1>1. AlphaDiv \in Nat \ {0}
  BY AdaptiveAssumption
<1> QED BY <1>1 DEF Ema

LEMMA AdaptiveInvStep == AdaptiveInv /\ [AdaptiveNext]_adaptiveVars => AdaptiveInv'
<1> SUFFICES ASSUME AdaptiveInv, [AdaptiveNext]_adaptiveVars PROVE AdaptiveInv'
  OBVIOUS
<1>k. ASSUME UNCHANGED <<weights, router>>
      PROVE  /\ Bounded(weights') /\ DOMAIN router' = Routers
             /\ \A r \in Routers : Bounded(router'[r].new)
  BY <1>k DEF AdaptiveInv
<1>s. ASSUME UNCHANGED <<outcomes, kvHit, loads>> PROVE SignalTypes'
  BY <1>s DEF AdaptiveInv, SignalTypes
<1>1. ASSUME NEW b \in Workers, NEW v \in {0, Scale}, RecordOutcome(b, v) PROVE AdaptiveInv'
  <2>1. Scale \in Int /\ v \in Int
    BY AdaptiveAssumption
  <2>2. /\ DOMAIN outcomes' = DOMAIN outcomes \cup {b}
        /\ \A w \in DOMAIN outcomes' : outcomes'[w] =
              IF w # b THEN outcomes[w]
              ELSE IF b \in DOMAIN outcomes THEN Ema(outcomes[b], v) ELSE v
    BY <1>1 DEF RecordOutcome
  <2>3. IsFiniteSet(DOMAIN outcomes')
    BY <2>2, FS_AddElement DEF AdaptiveInv, SignalTypes
  <2>4. \A w \in DOMAIN outcomes' : outcomes'[w] \in Int
    BY <2>1, <2>2, EmaIsInt DEF AdaptiveInv, SignalTypes
  <2>5. UNCHANGED <<kvHit, loads, weights, router>>
    BY <1>1 DEF RecordOutcome
  <2>6. DOMAIN outcomes' # {}
    BY <2>2
  <2>7. SignalTypes'
    BY <2>3, <2>4, <2>5, <2>6 DEF AdaptiveInv, SignalTypes
  <2> QED BY <1>k, <2>5, <2>7 DEF AdaptiveInv
<1>2. ASSUME NEW ratio \in Overlaps, RecordOverlap(ratio) PROVE AdaptiveInv'
  <2> DEFINE m == Min({ratio, Scale})
  <2>1. m \in Int
    <3>1. ratio \in Int /\ Scale \in Int
      BY AdaptiveAssumption
    <3> QED BY <3>1, MinOfTwo
  <2>2. kvHit' = IF kvHit = NoSample THEN m ELSE Ema(kvHit, m)
    BY <1>2 DEF RecordOverlap
  <2>3. UNCHANGED <<outcomes, loads, weights, router>>
    BY <1>2 DEF RecordOverlap
  <2> HIDE DEF m
  <2>4. kvHit' \in Int
    BY <2>1, <2>2, EmaIsInt DEF AdaptiveInv, SignalTypes
  <2>5. SignalTypes'
    BY <2>3, <2>4 DEF AdaptiveInv, SignalTypes
  <2> QED BY <1>k, <2>3, <2>5 DEF AdaptiveInv
<1>3. CASE LoadsChange
  <2>1. loads' \in LoadViews /\ UNCHANGED <<outcomes, kvHit, weights, router>>
    BY <1>3 DEF LoadsChange
  <2>2. SignalTypes'
    BY <2>1 DEF AdaptiveInv, SignalTypes
  <2> QED BY <1>k, <2>1, <2>2 DEF AdaptiveInv
<1>4. ASSUME NEW r \in Routers, Recompute(r) PROVE AdaptiveInv'
  <2>1. /\ router' = [router EXCEPT ![r] = [pc |-> "publish", new |-> Compute]]
        /\ UNCHANGED <<outcomes, kvHit, loads, weights>>
    BY <1>4 DEF Recompute
  <2>2. Bounded(Compute)
    BY ComputeBounded DEF AdaptiveInv
  <2> DEFINE w == Compute
  <2> HIDE DEF w
  <2>3. Bounded(w) /\ router' = [router EXCEPT ![r] = [pc |-> "publish", new |-> w]]
    BY <2>1, <2>2 DEF w
  <2>4. DOMAIN router' = Routers
    BY <2>3 DEF AdaptiveInv
  <2>5. \A s \in Routers : router'[s].new = IF s = r THEN w ELSE router[s].new
    BY <2>3 DEF AdaptiveInv
  <2>6. \A s \in Routers : Bounded(router'[s].new)
    BY <2>3, <2>5 DEF AdaptiveInv
  <2>7. Bounded(weights)'
    BY <2>1 DEF AdaptiveInv, Bounded, Numerator
  <2>8. (\A s \in Routers : Bounded(router[s].new))'
    BY <2>6 DEF Bounded, Numerator
  <2> QED BY <1>s, <2>1, <2>4, <2>7, <2>8 DEF AdaptiveInv
<1>5. ASSUME NEW r \in Routers, Publish(r) PROVE AdaptiveInv'
  <2>1. /\ router' = [router EXCEPT ![r] = [pc |-> "idle", new |-> BaseWeights]]
        /\ weights' = router[r].new
        /\ UNCHANGED <<outcomes, kvHit, loads>>
    BY <1>5 DEF Publish
  <2>2. Bounded(router[r].new)
    BY DEF AdaptiveInv
  <2>3. Bounded(weights)'
    BY <2>1, <2>2 DEF Bounded, Numerator
  <2> DEFINE w == BaseWeights
  <2> HIDE DEF w
  <2>4. Bounded(w) /\ router' = [router EXCEPT ![r] = [pc |-> "idle", new |-> w]]
    BY <2>1, BaseBounded DEF w
  <2>5. DOMAIN router' = Routers
    BY <2>4 DEF AdaptiveInv
  <2>6. \A s \in Routers : router'[s].new = IF s = r THEN w ELSE router[s].new
    BY <2>4 DEF AdaptiveInv
  <2>7. \A s \in Routers : Bounded(router'[s].new)
    BY <2>4, <2>6 DEF AdaptiveInv
  <2>8. (\A s \in Routers : Bounded(router[s].new))'
    BY <2>7 DEF Bounded, Numerator
  <2> QED BY <1>s, <2>1, <2>3, <2>5, <2>8 DEF AdaptiveInv
<1>6. CASE Ages
  <2>1. UNCHANGED <<outcomes, kvHit, loads, weights, router>>
    BY <1>6 DEF Ages
  <2> QED BY <1>k, <1>s, <2>1 DEF AdaptiveInv
<1>7. CASE UNCHANGED adaptiveVars
  <2>1. UNCHANGED <<outcomes, kvHit, loads, weights, router>>
    BY <1>7 DEF adaptiveVars
  <2> QED BY <1>k, <1>s, <2>1 DEF AdaptiveInv
<1> QED BY <1>1, <1>2, <1>3, <1>4, <1>5, <1>6, <1>7 DEF AdaptiveNext

\* The adaptive weights in effect sum to one, none is below the floor, and
\* none outgrows another by more than max_adjustment, for any base weights,
\* any signals and any number of concurrent callers of effective_weights.
THEOREM WeightsStayBounded == AdaptiveSpec => []WeightsAreBounded
<1>1. AdaptiveInv => WeightsAreBounded
  BY DEF AdaptiveInv, Bounded, WeightsAreBounded
<1> QED BY <1>1, AdaptiveInvInit, AdaptiveInvStep, PTL DEF AdaptiveSpec

-----------------------------------------------------------------------------
(* Connectors: the text of an answer.                                         *)

\* it is the recursion from base with the n-th step taken at n, in A.
IsRecursion(it, N, A, base, step) ==
    it \in [0 .. N -> A] /\ it[0] = base /\ \A n \in 1 .. N : it[n] = step[n][it[n - 1]]

\* Any steps can be taken one after the other.
LEMMA RecursionExists ==
    ASSUME NEW A, NEW base \in A, NEW N \in Nat, NEW step \in [1 .. N -> [A -> A]]
    PROVE  \E it : IsRecursion(it, N, A, base, step)
<1> DEFINE P == { m \in 0 .. N : \E it : IsRecursion(it, m, A, base, step) }
<1>1. 0 \in P
  <2> DEFINE it == [n \in 0 .. 0 |-> base]
  <2>1. IsRecursion(it, 0, A, base, step)
    BY DEF IsRecursion
  <2> HIDE DEF it
  <2> QED BY <2>1
<1>2. ASSUME NEW m \in 1 .. N, m - 1 \in P PROVE m \in P
  <2>1. PICK it : IsRecursion(it, m - 1, A, base, step)
    BY <1>2
  <2>t. /\ it \in [0 .. (m - 1) -> A] /\ it[0] = base
        /\ \A n \in 1 .. (m - 1) : it[n] = step[n][it[n - 1]]
    BY <2>1 DEF IsRecursion
  <2> DEFINE new == [n \in 0 .. m |-> IF n = m THEN step[m][it[m - 1]] ELSE it[n]]
  <2>2. new \in [0 .. m -> A]
    <3>1. m - 1 \in 0 .. (m - 1) /\ it[m - 1] \in A
      BY <2>t
    <3>2. \A n \in 0 .. m : n # m => n \in 0 .. (m - 1)
      OBVIOUS
    <3>3. step[m][it[m - 1]] \in A
      BY <3>1
    <3> QED BY <2>t, <3>2, <3>3
  <2>3. new[0] = base
    BY <2>t
  <2>4. \A n \in 1 .. m : new[n] = step[n][new[n - 1]]
    <3> SUFFICES ASSUME NEW n \in 1 .. m PROVE new[n] = step[n][new[n - 1]]
      OBVIOUS
    <3>1. n - 1 \in 0 .. m /\ n - 1 # m /\ n \in 0 .. m
      OBVIOUS
    <3>2. new[n - 1] = it[n - 1]
      BY <3>1
    <3>3. CASE n = m
      BY <3>1, <3>2, <3>3
    <3>4. CASE n # m
      <4>1. n \in 1 .. (m - 1) /\ new[n] = it[n]
        BY <3>1, <3>4
      <4> QED BY <2>t, <3>2, <4>1
    <3> QED BY <3>3, <3>4
  <2> HIDE DEF new
  <2>5. IsRecursion(new, m, A, base, step)
    BY <2>2, <2>3, <2>4 DEF IsRecursion
  <2> QED BY <2>5
<1> HIDE DEF P
<1>3. 0 .. N \subseteq P
  BY <1>1, <1>2, BoundedInduction
<1> QED BY <1>3 DEF P

\* What reading line l makes of the text t before it.
Reads(parser, l, t) ==
    IF l.tag # "text" THEN t
    ELSE IF parser = "generate" /\ IsPrefix(t, l.text) THEN l.text ELSE t \o l.text

\* it gives the text of the first n lines, for every n.
IsSaid(it, parser, lines) ==
    /\ it \in [0 .. Len(lines) -> Seq(Nat)] /\ it[0] = <<>>
    /\ \A n \in 1 .. Len(lines) : it[n] = Reads(parser, lines[n], it[n - 1])

\* Texts stay texts.
LEMMA ReadsTyped ==
    ASSUME NEW l \in Lines, NEW t \in Seq(Nat), NEW parser
    PROVE  Reads(parser, l, t) \in Seq(Nat)
<1>1. l.text \in Seq(Nat)
  BY DEF Lines
<1>2. t \o l.text \in Seq(Nat)
  BY <1>1, ConcatProperties
<1> QED BY <1>1, <1>2 DEF Reads

\* There is such a function for any lines.
LEMMA SaidExists ==
    ASSUME NEW parser, NEW lines \in Seq(Lines)
    PROVE  \E it : IsSaid(it, parser, lines)
<1> DEFINE T == Seq(Nat)
           N == Len(lines)
           step == [n \in 1 .. N |-> [t \in T |-> Reads(parser, lines[n], t)]]
<1>1. N \in Nat /\ \A n \in 1 .. N : lines[n] \in Lines
  BY LenProperties, ElementOfSeq
<1>2. <<>> \in T
  OBVIOUS
<1>3. step \in [1 .. N -> [T -> T]]
  <2>1. \A n \in 1 .. N : \A t \in T : Reads(parser, lines[n], t) \in T
    BY <1>1, ReadsTyped
  <2> HIDE DEF T
  <2> QED BY <2>1
<1>4. \A n \in 1 .. N, t \in T : step[n][t] = Reads(parser, lines[n], t)
  OBVIOUS
<1> HIDE DEF T, N, step
<1>5. PICK it : IsRecursion(it, N, T, <<>>, step)
  BY <1>1, <1>2, <1>3, RecursionExists
<1>6. it \in [0 .. N -> T] /\ it[0] = <<>> /\ \A n \in 1 .. N : it[n] = step[n][it[n - 1]]
  BY <1>5 DEF IsRecursion
<1>7. \A n \in 1 .. N : it[n] = Reads(parser, lines[n], it[n - 1])
  <2> SUFFICES ASSUME NEW n \in 1 .. N PROVE it[n] = Reads(parser, lines[n], it[n - 1])
    OBVIOUS
  <2>1. n - 1 \in 0 .. N
    BY <1>1
  <2> QED BY <1>4, <1>6, <2>1
<1> QED BY <1>6, <1>7 DEF IsSaid, T, N

\* What Said computes.
LEMMA SaidIs ==
    ASSUME NEW parser, NEW lines \in Seq(Lines)
    PROVE  \E it : /\ IsSaid(it, parser, lines)
                   /\ \A m : Said(parser, lines, m) = it[m]
<1> DEFINE Unfold(f) == [n \in 0 .. Len(lines) |->
               IF n = 0 THEN <<>>
               ELSE IF lines[n].tag # "text" THEN f[n - 1]
               ELSE IF parser = "generate" /\ IsPrefix(f[n - 1], lines[n].text) THEN lines[n].text
               ELSE f[n - 1] \o lines[n].text]
           said == CHOOSE f : f = Unfold(f)
<1>0. Len(lines) \in Nat
  BY LenProperties
<1>1. \A m : Said(parser, lines, m) = said[m]
  BY Zenon DEF Said
<1>2. PICK it : IsSaid(it, parser, lines)
  BY SaidExists
<1>3. it = Unfold(it)
  <2>1. it \in [0 .. Len(lines) -> Seq(Nat)]
    BY <1>2 DEF IsSaid
  <2>2. ASSUME NEW n \in 0 .. Len(lines) PROVE it[n] = Unfold(it)[n]
    <3>1. CASE n = 0
      BY <1>2, <3>1 DEF IsSaid
    <3>2. CASE n # 0
      <4>1. n \in 1 .. Len(lines)
        BY <1>0, <3>2
      <4>2. it[n] = Reads(parser, lines[n], it[n - 1])
        BY <1>2, <4>1 DEF IsSaid
      <4> QED BY <3>2, <4>2 DEF Reads
    <3> QED BY <3>1, <3>2
  <2> QED BY <2>1, <2>2
<1>4. said = Unfold(said)
  <2> HIDE DEF Unfold
  <2> QED BY <1>3
<1> HIDE DEF said
<1>5. IsSaid(said, parser, lines)
  <2> DEFINE P == { n \in 0 .. Len(lines) : said[n] = it[n] }
  <2>1. 0 \in P
    BY <1>0, <1>2, <1>4 DEF IsSaid
  <2>2. ASSUME NEW n \in 1 .. Len(lines), n - 1 \in P PROVE n \in P
    <3>1. n \in 0 .. Len(lines) /\ n # 0
      BY <1>0
    <3>2. said[n] = Unfold(said)[n] /\ it[n] = Unfold(it)[n]
      BY <1>3, <1>4, Zenon
    <3>3. said[n - 1] = it[n - 1]
      BY <2>2
    <3> QED BY <3>1, <3>2, <3>3
  <2> HIDE DEF P
  <2>3. 0 .. Len(lines) \subseteq P
    BY <1>0, <2>1, <2>2, BoundedInduction
  <2>4. \A n \in 0 .. Len(lines) : said[n] = it[n]
    BY <2>3 DEF P
  <2>5. said = [n \in 0 .. Len(lines) |-> said[n]]
    BY <1>4
  <2>6. it = [n \in 0 .. Len(lines) |-> it[n]]
    BY <1>2 DEF IsSaid
  <2> HIDE DEF Unfold
  <2>7. said = it
    BY <2>4, <2>5, <2>6
  <2> QED BY <1>2, <2>7
<1> QED BY <1>1, <1>5

\* Said, as a recursion over the lines.
LEMMA SaidSteps ==
    ASSUME NEW parser, NEW lines \in Seq(Lines)
    PROVE  /\ Said(parser, lines, 0) = <<>>
           /\ \A n \in 0 .. Len(lines) : Said(parser, lines, n) \in Seq(Nat)
           /\ \A n \in 1 .. Len(lines) :
                Said(parser, lines, n)
                  = Reads(parser, lines[n], Said(parser, lines, n - 1))
<1>1. PICK it : /\ IsSaid(it, parser, lines)
                /\ \A m : Said(parser, lines, m) = it[m]
  BY SaidIs
<1>2. /\ it \in [0 .. Len(lines) -> Seq(Nat)] /\ it[0] = <<>>
      /\ \A n \in 1 .. Len(lines) : it[n] = Reads(parser, lines[n], it[n - 1])
  BY <1>1 DEF IsSaid
<1> QED BY <1>1, <1>2

-----------------------------------------------------------------------------
(* Connectors: what the handlers do with a chunk, field by field.             *)

CallFields == {"pc", "ask", "body", "mode", "text", "shown", "ends", "reply", "parser", "lines",
               "arrived", "net", "read", "emitted", "finished", "doneSent"}

\* r is a call that differs from q at most in the fields of S.
Same(r, q, S) == DOMAIN r = CallFields /\ \A x \in CallFields \ S : r[x] = q[x]

IsCall(q) == DOMAIN q = CallFields

\* Moving on to the next line.
LEMMA NextLineIs ==
    ASSUME NEW q, IsCall(q)
    PROVE  Same(NextLine(q), q, {"read"}) /\ NextLine(q).read = q.read + 1
BY DEF NextLine, Same, IsCall, CallFields

\* A terminal chunk: it is counted, and the first one is the reply.
LEMMA TerminalIs ==
    ASSUME NEW q, IsCall(q), NEW c
    PROVE  /\ Same(Terminal(q, c), q, {"ends", "reply"})
           /\ Terminal(q, c).ends = IF q.ends = 3 THEN 2 ELSE q.ends + 1
           /\ Terminal(q, c).reply = IF q.reply = "none" THEN c.tag ELSE q.reply
BY DEF Terminal, Same, IsCall, CallFields

\* A text chunk: only a streamed reply leaves out what comes with a finish reason.
LEMMA GiveText ==
    ASSUME NEW q, IsCall(q), NEW c, c.tag = "text"
    PROVE  /\ Same(Give(q, c), q, {"text", "shown"})
           /\ Give(q, c).text = q.text \o c.text
           /\ Give(q, c).shown = IF q.mode = "aggregate" \/ ~ c.finish THEN q.shown \o c.text
                                 ELSE q.shown
<1>1. CASE q.mode = "aggregate"
  <2>1. Give(q, c) = [q EXCEPT !.text = @ \o c.text, !.shown = @ \o c.text]
    BY <1>1 DEF Give, Aggregate
  <2> QED BY <1>1, <2>1 DEF Same, IsCall, CallFields
<1>2. CASE q.mode # "aggregate"
  <2>1. Give(q, c) = [q EXCEPT !.text = @ \o c.text, !.shown = IF c.finish THEN @ ELSE @ \o c.text]
    BY <1>2 DEF Give, ChunkToOpenAI
  <2> QED BY <1>2, <2>1 DEF Same, IsCall, CallFields
<1> QED BY <1>1, <1>2

\* A tool call changes nothing here.
LEMMA GiveTool ==
    ASSUME NEW q, NEW c, c.tag = "tool"
    PROVE  Give(q, c) = q
BY DEF Give, Aggregate, ChunkToOpenAI

\* A terminal chunk ends an aggregated reply.
LEMMA GiveEnd ==
    ASSUME NEW q, IsCall(q), NEW c, c.tag \in {"done", "error"}
    PROVE  /\ Same(Give(q, c), q, {"pc", "ends", "reply"})
           /\ Give(q, c).pc = IF q.mode = "aggregate" THEN "over" ELSE q.pc
           /\ Give(q, c).ends = IF q.ends = 3 THEN 2 ELSE q.ends + 1
           /\ Give(q, c).reply = IF q.reply = "none" THEN c.tag ELSE q.reply
<1> DEFINE t == Terminal(q, c)
<1>1. /\ Same(t, q, {"ends", "reply"})
      /\ t.ends = IF q.ends = 3 THEN 2 ELSE q.ends + 1
      /\ t.reply = IF q.reply = "none" THEN c.tag ELSE q.reply
  BY TerminalIs
<1>2. CASE q.mode = "aggregate"
  <2>1. Give(q, c) = [t EXCEPT !.pc = "over"]
    BY <1>2 DEF Give, Aggregate
  <2> HIDE DEF t
  <2> QED BY <1>1, <1>2, <2>1 DEF Same, IsCall, CallFields
<1>3. CASE q.mode # "aggregate"
  <2>1. Give(q, c) = t
    BY <1>3 DEF Give, ChunkToOpenAI
  <2> HIDE DEF t
  <2> QED BY <1>1, <1>3, <2>1 DEF Same, IsCall, CallFields
<1> QED BY <1>2, <1>3

-----------------------------------------------------------------------------
(* Connectors: the invariant of a call.                                       *)

\* Types, and the reply is there once a terminal chunk was.
CallTyped(q) ==
    /\ IsCall(q)
    /\ q.pc \in {"reading", "over"} /\ q.mode \in {"aggregate", "stream"}
    /\ q.parser \in {"sse", "generate", "nats"} /\ q.lines \in Seq(Lines)
    /\ q.parser = "nats" => q.lines \in Wires["nats"]
    /\ q.text \in Seq(Nat)
    /\ q.read \in 0 .. Len(q.lines) /\ q.arrived \in 0 .. 3 * Len(q.lines)
    /\ q.net \in {"open", "eof", "broken"}
    /\ q.ends \in Nat /\ q.reply \in {"none", "done", "error"} /\ (q.ends = 0 <=> q.reply = "none")
    /\ q.emitted \in Nat /\ q.finished \in BOOLEAN /\ q.doneSent \in BOOLEAN

\* The text handed on is that of the lines read, and an aggregated reply has it.
SaidRight(q) ==
    /\ Tellable(q.parser, q.lines) => q.text = Said(q.parser, q.lines, q.read)
    /\ q.mode = "aggregate" => q.shown = q.text

\* The backend said it was over in a line that was read.
WasOver(q) == \E i \in 1 .. q.read : SaysItIsOver(q, i)

\* A reply that is done: the backend had said so, or there was nothing left to read.
DoneRight(q) ==
    q.reply = "done" => WasOver(q) \/ (q.net # "open" /\ ~ HasLine(q))

\* /generate: what was emitted is counted, and Done is sent once.
GenerateRight(q) ==
    q.parser = "generate" =>
        /\ q.emitted = Len(q.text)
        /\ ~ q.finished => ~ q.doneSent
        /\ q.finished /\ ~ q.doneSent => WasOver(q)
        /\ q.reply # "error" => q.ends = IF q.doneSent THEN 1 ELSE 0

\* NATS: the reply is there, and after a terminal chunk nothing but junk.
NatsRight(q) ==
    q.parser = "nats" =>
        /\ q.net # "open" /\ q.arrived = 3 * Len(q.lines)
        /\ q.doneSent => \/ q.read = Len(q.lines)
                         \/ \E i \in 1 .. q.read : q.lines[i].tag \in {"done", "error"}
        /\ q.reply # "error" => q.ends = IF q.doneSent THEN 1 ELSE 0

\* The request sent is the client's.
BodyRight(q) ==
    /\ q.body.prompt = "ids" => q.ask.ids /\ q.parser # "nats"
    /\ q.parser = "generate" => q.body = GenerateBody
    /\ q.ask.tools /\ ~ q.body.tools => q.body.prompt = "ids" \/ q.parser = "nats"

GoodCall(q) ==
    CallTyped(q) /\ SaidRight(q) /\ DoneRight(q) /\ GenerateRight(q) /\ NatsRight(q) /\ BodyRight(q)

\* The lines of a call are lines.
LEMMA WiresTyped ==
    ASSUME NEW q, CallTyped(q)
    PROVE  q.lines \in Seq(Lines) /\ Len(q.lines) \in Nat
BY LenProperties DEF CallTyped

\* The next line, and what reading it makes of a text.
LEMMA NextLineReads ==
    ASSUME NEW q, CallTyped(q), q.read + 1 <= Len(q.lines)
    PROVE  /\ q.read + 1 \in 1 .. Len(q.lines) /\ Line(q) = q.lines[q.read + 1] /\ Line(q) \in Lines
           /\ Said(q.parser, q.lines, q.read + 1)
                = Reads(q.parser, Line(q), Said(q.parser, q.lines, q.read))
<1>1. q.lines \in Seq(Lines) /\ Len(q.lines) \in Nat /\ q.read \in Nat
  BY WiresTyped DEF CallTyped
<1>2. q.read + 1 \in 1 .. Len(q.lines) /\ (q.read + 1) - 1 = q.read
  BY <1>1
<1>3. Line(q) = q.lines[q.read + 1] /\ Line(q) \in Lines
  BY <1>1, <1>2, ElementOfSeq DEF Line
<1>4. Said(q.parser, q.lines, q.read + 1)
        = Reads(q.parser, q.lines[q.read + 1], Said(q.parser, q.lines, (q.read + 1) - 1))
  BY <1>1, <1>2, SaidSteps
<1> QED BY <1>2, <1>3, <1>4

\* A line that has arrived, or lacks only its newline, is one of the answer.
LEMMA LineIsThere ==
    ASSUME NEW q, CallTyped(q), HasLine(q) \/ q.arrived = 3 * q.read + 2
    PROVE  q.read + 1 <= Len(q.lines)
<1>1. Len(q.lines) \in Nat /\ q.read \in Nat /\ q.arrived \in 0 .. 3 * Len(q.lines)
  BY WiresTyped DEF CallTyped
<1>2. q.arrived >= 3 * (q.read + 1) \/ q.arrived = 3 * q.read + 2
  BY DEF HasLine
<1> DEFINE n == Len(q.lines)
           r == q.read
           a == q.arrived
<1> HIDE DEF n, r, a
<1>3. n \in Nat /\ r \in Nat /\ a \in 0 .. 3 * n /\ (a >= 3 * (r + 1) \/ a = 3 * r + 2)
  BY <1>1, <1>2 DEF n, r, a
<1>4. r + 1 <= n
  BY <1>3
<1> QED BY <1>4 DEF r, n

\* The call when the next line has been read, and nothing of it handed on yet.
Advanced(p, q) == Same(p, q, {"read", "emitted", "finished", "doneSent"}) /\ p.read = q.read + 1

\* What was over stays over.
LEMMA StillOver ==
    ASSUME NEW q, NEW r, CallTyped(q), r.parser = q.parser, r.lines = q.lines, q.read <= r.read,
           r.read \in Nat, WasOver(q)
    PROVE  WasOver(r)
<1>1. PICK i \in 1 .. q.read : SaysItIsOver(q, i)
  BY DEF WasOver
<1>2. SaysItIsOver(r, i)
  BY <1>1 DEF SaysItIsOver
<1>3. q.read \in Nat
  BY WiresTyped DEF CallTyped
<1>4. i \in 1 .. r.read
  BY <1>1, <1>3
<1> QED BY <1>2, <1>4 DEF WasOver

\* Reading on, whatever becomes of the line.
LEMMA ReadOn ==
    ASSUME NEW q, GoodCall(q), q.read + 1 <= Len(q.lines), NEW r,
           Same(r, q, {"pc", "text", "shown", "ends", "reply", "read", "emitted", "finished", "doneSent"}),
           r.read = q.read + 1
    PROVE  /\ IsCall(r) /\ r.mode = q.mode /\ r.parser = q.parser /\ r.lines = q.lines
           /\ r.arrived = q.arrived /\ r.net = q.net /\ BodyRight(r)
           /\ r.read \in 0 .. Len(r.lines)
           /\ q.reply = "done" => WasOver(r) \/ (r.net # "open" /\ ~ HasLine(r))
<1>1. /\ IsCall(r) /\ r.mode = q.mode /\ r.parser = q.parser /\ r.lines = q.lines
      /\ r.arrived = q.arrived /\ r.net = q.net /\ r.ask = q.ask /\ r.body = q.body
  BY DEF Same, IsCall, CallFields
<1>2. CallTyped(q) /\ DoneRight(q) /\ BodyRight(q)
  BY DEF GoodCall
<1>3. Len(q.lines) \in Nat /\ q.read \in Nat /\ q.arrived \in 0 .. 3 * Len(q.lines)
  BY <1>2, WiresTyped DEF CallTyped
<1>4. r.read \in 0 .. Len(r.lines)
  BY <1>1, <1>3
<1>5. BodyRight(r)
  BY <1>1, <1>2 DEF BodyRight
<1>6. ASSUME q.reply = "done" PROVE WasOver(r) \/ (r.net # "open" /\ ~ HasLine(r))
  <2>1. CASE WasOver(q)
    <3>1. q.read <= r.read /\ r.read \in Nat
      BY <1>3
    <3> QED BY <1>1, <1>2, <2>1, <3>1, StillOver
  <2>2. CASE q.net # "open" /\ ~ HasLine(q)
    <3>1. q.arrived \in Nat
      BY <1>3
    <3>2. ~ HasLine(r)
      BY <1>1, <1>3, <2>2, <3>1 DEF HasLine
    <3> QED BY <1>1, <2>2, <3>2
  <2> QED BY <1>2, <1>6, <2>1, <2>2 DEF DoneRight
<1> QED BY <1>1, <1>4, <1>5, <1>6

\* Nothing added.
LEMMA TailOfText ==
    ASSUME NEW t \in Seq(Nat) PROVE t \o <<>> = t
BY ConcatEmptySeq

\* The text after the next line.
LEMMA SaidNext ==
    ASSUME NEW q, CallTyped(q), SaidRight(q), q.read + 1 <= Len(q.lines),
           NEW r, r.parser = q.parser, r.lines = q.lines, r.read = q.read + 1,
           Tellable(q.parser, q.lines) => r.text = Reads(q.parser, Line(q), q.text),
           r.mode = "aggregate" => r.shown = r.text
    PROVE  SaidRight(r)
<1>1. Said(q.parser, q.lines, q.read + 1)
        = Reads(q.parser, Line(q), Said(q.parser, q.lines, q.read))
  BY NextLineReads
<1> QED BY <1>1 DEF SaidRight

\* A terminal chunk that is not a line of the answer.
LEMMA EndKeeps ==
    ASSUME NEW q, GoodCall(q), NEW p, Same(p, q, {"net", "finished", "doneSent"}), CallTyped(p),
           NEW c, c.tag \in {"done", "error"}
    PROVE  LET r == Give(p, c) IN
           /\ CallTyped(r) /\ SaidRight(r) /\ BodyRight(r)
           /\ r.parser = q.parser /\ r.lines = q.lines /\ r.read = q.read /\ r.arrived = q.arrived
           /\ r.text = q.text /\ r.shown = q.shown /\ r.emitted = q.emitted
           /\ r.net = p.net /\ r.finished = p.finished /\ r.doneSent = p.doneSent
           /\ r.ends = IF q.ends = 3 THEN 2 ELSE q.ends + 1
           /\ r.reply = IF q.reply = "none" THEN c.tag ELSE q.reply
<1> DEFINE r == Give(p, c)
<1>1. /\ Same(r, p, {"pc", "ends", "reply"})
      /\ r.pc = IF p.mode = "aggregate" THEN "over" ELSE p.pc
      /\ r.ends = IF p.ends = 3 THEN 2 ELSE p.ends + 1
      /\ r.reply = IF p.reply = "none" THEN c.tag ELSE p.reply
  BY GiveEnd DEF CallTyped
<1>2. CallTyped(q) /\ SaidRight(q) /\ BodyRight(q)
  BY DEF GoodCall
<1> HIDE DEF r
<1>3. /\ IsCall(r) /\ r.mode = p.mode /\ r.parser = p.parser /\ r.lines = p.lines /\ r.read = p.read
      /\ r.arrived = p.arrived /\ r.text = p.text /\ r.shown = p.shown /\ r.emitted = p.emitted
      /\ r.net = p.net /\ r.finished = p.finished /\ r.doneSent = p.doneSent
      /\ r.ask = p.ask /\ r.body = p.body
  BY <1>1 DEF Same, IsCall, CallFields
<1>4. /\ p.mode = q.mode /\ p.parser = q.parser /\ p.lines = q.lines /\ p.read = q.read
      /\ p.arrived = q.arrived /\ p.text = q.text /\ p.shown = q.shown /\ p.emitted = q.emitted
      /\ p.ends = q.ends /\ p.reply = q.reply /\ p.ask = q.ask /\ p.body = q.body /\ p.pc = q.pc
  BY DEF Same, CallFields
<1>5. CallTyped(r)
  <2>1. p.ends \in Nat /\ p.reply \in {"none", "done", "error"} /\ p.pc \in {"reading", "over"}
        /\ (p.ends = 0 <=> p.reply = "none")
    BY DEF CallTyped
  <2>2. r.ends \in Nat /\ r.ends # 0
    BY <1>1, <2>1
  <2>3. r.reply \in {"done", "error"} /\ r.pc \in {"reading", "over"}
    BY <1>1, <2>1
  <2> QED BY <1>3, <2>2, <2>3 DEF CallTyped
<1>6. SaidRight(r) /\ BodyRight(r)
  BY <1>2, <1>3, <1>4 DEF SaidRight, BodyRight
<1> QED BY <1>1, <1>3, <1>4, <1>5, <1>6 DEF r

\* A line that is passed over.
LEMMA SkipKeeps ==
    ASSUME NEW q, GoodCall(q), q.read + 1 <= Len(q.lines),
           Line(q).tag # "text" \/ (q.parser # "generate" /\ Line(q).text = <<>>)
    PROVE  LET r == NextLine(q) IN
           /\ CallTyped(r) /\ SaidRight(r) /\ BodyRight(r) /\ DoneRight(r)
           /\ Same(r, q, {"read"}) /\ r.read = q.read + 1
<1> DEFINE r == NextLine(q)
           l == Line(q)
<1>1. CallTyped(q) /\ SaidRight(q) /\ DoneRight(q) /\ IsCall(q)
  BY DEF GoodCall, CallTyped
<1>2. Same(r, q, {"read"}) /\ r.read = q.read + 1
  BY <1>1, NextLineIs
<1> HIDE DEF r
<1>3. /\ IsCall(r) /\ r.mode = q.mode /\ r.parser = q.parser /\ r.lines = q.lines
      /\ r.arrived = q.arrived /\ r.net = q.net /\ BodyRight(r)
      /\ r.read \in 0 .. Len(r.lines)
      /\ q.reply = "done" => WasOver(r) \/ (r.net # "open" /\ ~ HasLine(r))
  <2>1. Same(r, q, {"pc", "text", "shown", "ends", "reply", "read", "emitted", "finished", "doneSent"})
    BY <1>2 DEF Same
  <2> QED BY <1>2, <2>1, ReadOn
<1>4. /\ r.pc = q.pc /\ r.text = q.text /\ r.shown = q.shown /\ r.ends = q.ends /\ r.reply = q.reply
      /\ r.emitted = q.emitted /\ r.finished = q.finished /\ r.doneSent = q.doneSent
  BY <1>2 DEF Same, CallFields
<1>5. CallTyped(r)
  BY <1>1, <1>3, <1>4 DEF CallTyped
<1>6. DoneRight(r)
  BY <1>3, <1>4 DEF DoneRight
<1>7. q.text = Reads(q.parser, l, q.text)
  <2>1. q.text \o <<>> = q.text
    BY <1>1, TailOfText DEF CallTyped
  <2> QED BY <2>1 DEF Reads
<1> HIDE DEF l
<1>8. r.mode = "aggregate" => r.shown = r.text
  BY <1>1, <1>3, <1>4 DEF SaidRight
<1>10. SaidRight(r)
  BY <1>1, <1>2, <1>3, <1>4, <1>7, <1>8, SaidNext DEF l
<1> QED BY <1>2, <1>3, <1>5, <1>6, <1>10 DEF r

\* A line of the SSE or the Dynamo parser that is handed on.
LEMMA LineKeeps ==
    ASSUME NEW q, GoodCall(q), q.parser # "generate", q.read + 1 <= Len(q.lines),
           Line(q).tag # "junk", NEW p, Same(p, q, {"read", "doneSent"}), p.read = q.read + 1,
           p.doneSent \in BOOLEAN
    PROVE  LET r == Give(p, Line(q)) IN
           /\ CallTyped(r) /\ SaidRight(r) /\ BodyRight(r) /\ DoneRight(r)
           /\ r.parser = q.parser /\ r.lines = q.lines /\ r.read = q.read + 1
           /\ r.arrived = q.arrived /\ r.net = q.net /\ r.doneSent = p.doneSent
           /\ Line(q).tag \in {"done", "error"} =>
                /\ r.ends = IF q.ends = 3 THEN 2 ELSE q.ends + 1
                /\ r.reply = IF q.reply = "none" THEN Line(q).tag ELSE q.reply
           /\ Line(q).tag \notin {"done", "error"} => r.ends = q.ends /\ r.reply = q.reply
<1> DEFINE l == Line(q)
           r == Give(p, l)
<1>1. CallTyped(q) /\ SaidRight(q) /\ DoneRight(q) /\ IsCall(q) /\ IsCall(p)
  BY DEF GoodCall, CallTyped, Same, IsCall
<1>2. q.read + 1 \in 1 .. Len(q.lines) /\ l = q.lines[q.read + 1] /\ l \in Lines
  BY <1>1, NextLineReads
<1>3. /\ p.pc = q.pc /\ p.mode = q.mode /\ p.text = q.text /\ p.shown = q.shown
      /\ p.ends = q.ends /\ p.reply = q.reply /\ p.emitted = q.emitted /\ p.finished = q.finished
  BY DEF Same, CallFields
<1>4. l.tag \in {"text", "tool", "done", "error"} /\ l.finish \in BOOLEAN
  BY <1>2 DEF Lines
<1> HIDE DEF l
<1>5. /\ Same(r, p, {"pc", "text", "shown", "ends", "reply"})
      /\ l.tag = "text" => /\ r.text = p.text \o l.text
                           /\ r.shown = IF p.mode = "aggregate" \/ ~ l.finish THEN p.shown \o l.text
                                        ELSE p.shown
      /\ l.tag # "text" => r.text = p.text /\ r.shown = p.shown
      /\ l.tag \in {"text", "tool"} => r.pc = p.pc /\ r.ends = p.ends /\ r.reply = p.reply
      /\ l.tag \in {"done", "error"} =>
            /\ r.pc = IF p.mode = "aggregate" THEN "over" ELSE p.pc
            /\ r.ends = IF p.ends = 3 THEN 2 ELSE p.ends + 1
            /\ r.reply = IF p.reply = "none" THEN l.tag ELSE p.reply
  <2>1. CASE l.tag = "text"
    <3>1. /\ Same(r, p, {"text", "shown"})
          /\ r.text = p.text \o l.text
          /\ r.shown = IF p.mode = "aggregate" \/ ~ l.finish THEN p.shown \o l.text ELSE p.shown
      BY <1>1, <2>1, GiveText
    <3> HIDE DEF r
    <3> QED BY <2>1, <3>1 DEF Same, CallFields
  <2>2. CASE l.tag = "tool"
    <3>1. r = p
      BY <2>2, GiveTool
    <3> HIDE DEF r
    <3> QED BY <1>1, <2>2, <3>1 DEF Same, IsCall
  <2>3. CASE l.tag \in {"done", "error"}
    <3>1. /\ Same(r, p, {"pc", "ends", "reply"})
          /\ r.pc = IF p.mode = "aggregate" THEN "over" ELSE p.pc
          /\ r.ends = IF p.ends = 3 THEN 2 ELSE p.ends + 1
          /\ r.reply = IF p.reply = "none" THEN l.tag ELSE p.reply
      BY <1>1, <2>3, GiveEnd
    <3> HIDE DEF r
    <3> QED BY <2>3, <3>1 DEF Same, CallFields
  <2> QED BY <1>4, <2>1, <2>2, <2>3
<1> HIDE DEF r
<1>6. /\ IsCall(r) /\ r.mode = q.mode /\ r.parser = q.parser /\ r.lines = q.lines
      /\ r.arrived = q.arrived /\ r.net = q.net /\ BodyRight(r)
      /\ r.read = q.read + 1 /\ r.read \in 0 .. Len(r.lines)
      /\ q.reply = "done" => WasOver(r) \/ (r.net # "open" /\ ~ HasLine(r))
  <2>1. Same(r, q, {"pc", "text", "shown", "ends", "reply", "read", "emitted", "finished", "doneSent"})
        /\ r.read = q.read + 1
    BY <1>5 DEF Same, CallFields
  <2> QED BY <2>1, ReadOn
<1>7. r.doneSent = p.doneSent /\ r.emitted = q.emitted /\ r.finished = q.finished
  BY <1>3, <1>5 DEF Same, CallFields
<1>8. CallTyped(r)
  <2>t. r.text \in Seq(Nat)
    <3>1. q.text \in Seq(Nat) /\ l.text \in Seq(Nat)
      BY <1>1, <1>2 DEF CallTyped, Lines
    <3>2. q.text \o l.text \in Seq(Nat)
      BY <3>1, ConcatProperties
    <3> QED BY <1>3, <1>5, <3>1, <3>2
  <2>1. q.ends \in Nat /\ q.reply \in {"none", "done", "error"} /\ q.pc \in {"reading", "over"}
        /\ (q.ends = 0 <=> q.reply = "none")
    BY <1>1 DEF CallTyped
  <2>2. r.ends \in Nat /\ r.reply \in {"none", "done", "error"} /\ r.pc \in {"reading", "over"}
        /\ (r.ends = 0 <=> r.reply = "none")
    <3>1. CASE l.tag \in {"text", "tool"}
      BY <1>3, <1>5, <2>1, <3>1
    <3>2. CASE l.tag \in {"done", "error"}
      <4>1. r.ends \in Nat /\ r.ends # 0
        BY <1>3, <1>5, <2>1, <3>2
      <4>2. r.reply \in {"done", "error"} /\ r.pc \in {"reading", "over"}
        BY <1>3, <1>5, <2>1, <3>2
      <4> QED BY <4>1, <4>2
    <3> QED BY <1>4, <3>1, <3>2
  <2> QED BY <1>1, <1>6, <1>7, <2>t, <2>2 DEF CallTyped
<1>9. SaidRight(r)
  <2>1. r.text = Reads(q.parser, l, q.text)
    BY <1>3, <1>4, <1>5 DEF Reads
  <2>2. q.mode = "aggregate" => r.shown = r.text
    BY <1>1, <1>3, <1>4, <1>5 DEF SaidRight
  <2> QED BY <1>1, <1>2, <1>6, <2>1, <2>2, SaidNext DEF l
<1>10. DoneRight(r)
  <2>1. CASE q.reply = "done"
    BY <1>6, <2>1 DEF DoneRight
  <2>2. CASE q.reply # "done" /\ r.reply = "done"
    <3>1. l.tag = "done"
      BY <1>3, <1>4, <1>5, <2>2
    <3>2. SaysItIsOver(r, q.read + 1)
      BY <1>2, <1>6, <3>1 DEF SaysItIsOver
    <3>3. q.read + 1 \in 1 .. r.read
      BY <1>2, <1>6
    <3> QED BY <3>2, <3>3 DEF DoneRight, WasOver
  <2> QED BY <2>1, <2>2 DEF DoneRight
<1> QED BY <1>3, <1>4, <1>5, <1>6, <1>7, <1>8, <1>9, <1>10 DEF l, r

-----------------------------------------------------------------------------
(* Connectors: the three parsers.                                             *)

\* The two chunks a parser makes itself.
LEMMA EndTags == Done.tag = "done" /\ Error.tag = "error"
BY DEF Done, Error

\* One poll of the SSE parser.
LEMMA SseKeeps ==
    ASSUME NEW q, GoodCall(q), q.parser = "sse", HasLine(q) \/ q.net # "open"
    PROVE  GoodCall(SsePoll(q))
<1>1. CallTyped(q) /\ DoneRight(q) /\ IsCall(q)
  BY DEF GoodCall, CallTyped
<1>2. CASE HasLine(q)
  <2>1. q.read + 1 <= Len(q.lines)
    BY <1>1, <1>2, LineIsThere
  <2>2. SsePoll(q) = SseParse(q)
    BY <1>2 DEF SsePoll
  <2>3. CASE Line(q).tag = "junk"
             \/ (Line(q).tag = "text" /\ Line(q).text = <<>>)
    <3> DEFINE r == NextLine(q)
    <3>1. SseParse(q) = r
      BY <2>3 DEF SseParse, Skipped
    <3>2. CallTyped(r) /\ SaidRight(r) /\ BodyRight(r) /\ DoneRight(r) /\ Same(r, q, {"read"})
      BY <2>1, <2>3, SkipKeeps
    <3> HIDE DEF r
    <3>3. r.parser = "sse"
      BY <3>2 DEF Same, CallFields
    <3>4. GoodCall(r)
      BY <3>2, <3>3 DEF GoodCall, GenerateRight, NatsRight
    <3> QED BY <2>2, <3>1, <3>4
  <2>4. CASE ~ (Line(q).tag = "junk"
                \/ (Line(q).tag = "text" /\ Line(q).text = <<>>))
    <3> DEFINE p == NextLine(q)
               r == Give(p, Line(q))
    <3>1. SseParse(q) = r
      BY <2>4 DEF SseParse
    <3>2. Same(p, q, {"read"}) /\ p.read = q.read + 1
      BY <1>1, NextLineIs
    <3> HIDE DEF p
    <3>3. Same(p, q, {"read", "doneSent"}) /\ p.doneSent \in BOOLEAN
      BY <1>1, <3>2 DEF Same, CallFields, CallTyped
    <3>4. CallTyped(r) /\ SaidRight(r) /\ BodyRight(r) /\ DoneRight(r) /\ r.parser = q.parser
      BY <2>1, <2>4, <3>2, <3>3, LineKeeps
    <3> HIDE DEF r
    <3>5. GoodCall(r)
      BY <3>4 DEF GoodCall, GenerateRight, NatsRight
    <3> QED BY <2>2, <3>1, <3>5
  <2> QED BY <2>3, <2>4
<1>3. CASE ~ HasLine(q) /\ q.net = "broken"
  <2> DEFINE p == [q EXCEPT !.net = "eof"]
             r == Give(p, Error)
  <2>1. SsePoll(q) = r
    BY <1>3 DEF SsePoll
  <2>2. Same(p, q, {"net", "finished", "doneSent"}) /\ CallTyped(p) /\ p.net = "eof"
    <3>1. Same(p, q, {"net"}) /\ p.net = "eof"
      BY <1>1 DEF Same, IsCall, CallFields
    <3> HIDE DEF p
    <3> QED BY <1>1, <3>1 DEF Same, IsCall, CallFields, CallTyped
  <2> HIDE DEF p
  <2>3. /\ CallTyped(r) /\ SaidRight(r) /\ BodyRight(r) /\ r.parser = q.parser
        /\ r.lines = q.lines /\ r.read = q.read /\ r.arrived = q.arrived /\ r.net = p.net
    BY <2>2, EndTags, EndKeeps
  <2> HIDE DEF r
  <2>4. r.net # "open" /\ ~ HasLine(r)
    BY <1>3, <2>2, <2>3 DEF HasLine
  <2>5. GoodCall(r)
    BY <2>3, <2>4 DEF GoodCall, GenerateRight, NatsRight, DoneRight
  <2> QED BY <2>1, <2>5
<1>4. CASE ~ HasLine(q) /\ q.net # "broken"
  <2> DEFINE r == Give(q, Done)
  <2>1. SsePoll(q) = r
    BY <1>4 DEF SsePoll
  <2>2. Same(q, q, {"net", "finished", "doneSent"})
    BY <1>1 DEF Same, IsCall
  <2>3. /\ CallTyped(r) /\ SaidRight(r) /\ BodyRight(r) /\ r.parser = q.parser
        /\ r.lines = q.lines /\ r.read = q.read /\ r.arrived = q.arrived /\ r.net = q.net
    BY <1>1, <2>2, EndTags, EndKeeps
  <2> HIDE DEF r
  <2>4. r.net # "open" /\ ~ HasLine(r)
    BY <1>4, <2>3 DEF HasLine
  <2>5. GoodCall(r)
    BY <2>3, <2>4 DEF GoodCall, GenerateRight, NatsRight, DoneRight
  <2> QED BY <2>1, <2>5
<1> QED BY <1>2, <1>3, <1>4

\* Ending a call changes nothing the invariant speaks of.
LEMMA OverKeeps ==
    ASSUME NEW q, GoodCall(q)
    PROVE  GoodCall([q EXCEPT !.pc = "over"])
<1> DEFINE r == [q EXCEPT !.pc = "over"]
<1>1. CallTyped(q) /\ IsCall(q)
  BY DEF GoodCall, CallTyped
<1>2. Same(r, q, {"pc"}) /\ r.pc = "over"
  BY <1>1 DEF Same, IsCall, CallFields
<1> HIDE DEF r
<1>3. /\ IsCall(r) /\ r.mode = q.mode /\ r.parser = q.parser /\ r.lines = q.lines /\ r.read = q.read
      /\ r.arrived = q.arrived /\ r.text = q.text /\ r.shown = q.shown /\ r.emitted = q.emitted
      /\ r.net = q.net /\ r.finished = q.finished /\ r.doneSent = q.doneSent
      /\ r.ask = q.ask /\ r.body = q.body /\ r.ends = q.ends /\ r.reply = q.reply
  BY <1>2 DEF Same, IsCall, CallFields
<1>4. CallTyped(r) /\ SaidRight(r) /\ BodyRight(r)
  BY <1>1, <1>2, <1>3 DEF GoodCall, CallTyped, SaidRight, BodyRight
<1>5. WasOver(r) <=> WasOver(q)
  BY <1>3 DEF WasOver, SaysItIsOver
<1>6. DoneRight(r)
  BY <1>3, <1>5 DEF GoodCall, DoneRight, HasLine
<1>7. GenerateRight(r)
  BY <1>3, <1>5 DEF GoodCall, GenerateRight
<1>8. NatsRight(r)
  BY <1>3 DEF GoodCall, NatsRight
<1> QED BY <1>4, <1>6, <1>7, <1>8 DEF GoodCall, r

\* One poll of a Dynamo reply: after a terminal chunk it finds only junk.
LEMMA NatsKeeps ==
    ASSUME NEW q, GoodCall(q), q.parser = "nats"
    PROVE  GoodCall(NatsPoll(q))
<1>1. CallTyped(q) /\ DoneRight(q) /\ NatsRight(q) /\ IsCall(q)
  BY DEF GoodCall, CallTyped
<1>2. /\ q.net # "open" /\ q.arrived = 3 * Len(q.lines) /\ q.doneSent \in BOOLEAN
      /\ q.doneSent => \/ q.read = Len(q.lines)
                       \/ \E i \in 1 .. q.read : q.lines[i].tag \in {"done", "error"}
      /\ q.reply # "error" => q.ends = IF q.doneSent THEN 1 ELSE 0
  BY <1>1 DEF NatsRight, CallTyped
<1>3. Len(q.lines) \in Nat /\ q.read \in Nat /\ q.read <= Len(q.lines) /\ q.lines \in Wires["nats"]
  BY <1>1, WiresTyped DEF CallTyped
<1>4. HasLine(q) <=> q.read < Len(q.lines)
  BY <1>2, <1>3 DEF HasLine
<1>5. CASE HasLine(q) /\ Line(q).tag = "junk"
  <2> DEFINE r == NextLine(q)
  <2>1. NatsPoll(q) = r
    BY <1>5 DEF NatsPoll, Skipped
  <2>2. /\ CallTyped(r) /\ SaidRight(r) /\ BodyRight(r) /\ DoneRight(r)
        /\ Same(r, q, {"read"}) /\ r.read = q.read + 1
    <3>1. q.read + 1 <= Len(q.lines)
      BY <1>3, <1>4, <1>5
    <3> QED BY <1>5, <3>1, SkipKeeps
  <2> HIDE DEF r
  <2>3. /\ r.parser = q.parser /\ r.net = q.net /\ r.arrived = q.arrived /\ r.lines = q.lines
        /\ r.doneSent = q.doneSent /\ r.reply = q.reply /\ r.ends = q.ends
    BY <2>2 DEF Same, CallFields
  <2>4. ASSUME q.doneSent PROVE \E i \in 1 .. r.read : r.lines[i].tag \in {"done", "error"}
    <3>1. PICK i \in 1 .. q.read : q.lines[i].tag \in {"done", "error"}
      BY <1>2, <1>3, <1>4, <1>5, <2>4
    <3>2. i \in 1 .. r.read
      BY <1>3, <2>2, <3>1
    <3> QED BY <2>3, <3>1, <3>2
  <2>5. NatsRight(r)
    BY <1>2, <2>3, <2>4 DEF NatsRight
  <2>6. GoodCall(r)
    BY <2>2, <2>3, <2>5 DEF GoodCall, GenerateRight
  <2> QED BY <2>1, <2>6
<1>6. CASE HasLine(q) /\ Line(q).tag # "junk"
  <2> DEFINE l == Line(q)
             m == NextLine(q)
             sent == IsTerminal(l)
             p == [m EXCEPT !.doneSent = sent]
             r == Give(p, l)
  <2>1. NatsPoll(q) = r
    BY <1>6 DEF NatsPoll
  <2>2. Same(m, q, {"read"}) /\ m.read = q.read + 1
    BY <1>1, NextLineIs
  <2> HIDE DEF m
  <2>3. Same(p, q, {"read", "doneSent"}) /\ p.read = q.read + 1 /\ p.doneSent = sent
    BY <2>2 DEF Same, CallFields
  <2>4. q.read + 1 <= Len(q.lines) /\ q.read + 1 \in 1 .. Len(q.lines)
    BY <1>3, <1>4, <1>6
  <2> HIDE DEF p
  <2>5. /\ CallTyped(r) /\ SaidRight(r) /\ BodyRight(r) /\ DoneRight(r)
        /\ r.parser = q.parser /\ r.lines = q.lines /\ r.read = q.read + 1
        /\ r.arrived = q.arrived /\ r.net = q.net /\ r.doneSent = sent
        /\ sent => /\ r.ends = IF q.ends = 3 THEN 2 ELSE q.ends + 1
                   /\ r.reply = IF q.reply = "none" THEN Line(q).tag ELSE q.reply
        /\ ~ sent => r.ends = q.ends /\ r.reply = q.reply
    <3>1. sent \in BOOLEAN /\ (sent <=> l.tag \in {"done", "error"})
      BY DEF IsTerminal
    <3> QED BY <1>6, <2>3, <2>4, <3>1, LineKeeps
  <2> HIDE DEF r
  <2>6. l = q.lines[q.read + 1]
    BY DEF Line
  <2>7. ~ q.doneSent
    <3> SUFFICES ASSUME q.doneSent PROVE FALSE
      OBVIOUS
    <3>1. PICK i \in 1 .. q.read : q.lines[i].tag \in {"done", "error"}
      BY <1>2, <1>3, <1>4, <1>6
    <3>2. i \in 1 .. ((q.read + 1) - 1)
      BY <1>3, <3>1
    <3>3. q.lines[q.read + 1].tag = "junk"
      BY <1>3, <2>4, <3>1, <3>2, BackendAssumption
    <3> QED BY <1>6, <2>6, <3>3
  <2>8. sent => \E i \in 1 .. r.read : r.lines[i].tag \in {"done", "error"}
    <3>1. q.read + 1 \in 1 .. r.read
      BY <1>3, <2>5
    <3> QED BY <2>5, <2>6, <3>1 DEF IsTerminal
  <2>9. r.reply # "error" => r.ends = IF sent THEN 1 ELSE 0
    <3>1. q.ends \in Nat /\ (q.ends = 0 <=> q.reply = "none")
          /\ q.reply \in {"none", "done", "error"}
      BY <1>1 DEF CallTyped
    <3> HIDE DEF l
    <3> QED BY <1>2, <2>5, <2>7, <3>1
  <2>10. NatsRight(r)
    BY <1>2, <2>5, <2>8, <2>9 DEF NatsRight
  <2>11. GoodCall(r)
    BY <2>5, <2>10 DEF GoodCall, GenerateRight
  <2> QED BY <2>1, <2>11
<1>7. CASE ~ HasLine(q) /\ ~ q.doneSent
  <2> DEFINE p == [q EXCEPT !.doneSent = TRUE]
             r == Give(p, Done)
  <2>1. NatsPoll(q) = r
    BY <1>7 DEF NatsPoll
  <2>2. Same(p, q, {"net", "finished", "doneSent"}) /\ CallTyped(p)
        /\ p.net = q.net /\ p.doneSent = TRUE
    <3>1. Same(p, q, {"doneSent"}) /\ p.doneSent = TRUE
      BY <1>1 DEF Same, IsCall, CallFields
    <3> HIDE DEF p
    <3>2. Same(p, q, {"net", "finished", "doneSent"}) /\ p.net = q.net
      BY <3>1 DEF Same, CallFields
    <3>3. /\ IsCall(p) /\ p.pc = q.pc /\ p.mode = q.mode /\ p.parser = q.parser
          /\ p.lines = q.lines /\ p.read = q.read /\ p.arrived = q.arrived /\ p.ends = q.ends
          /\ p.reply = q.reply /\ p.emitted = q.emitted /\ p.finished = q.finished
          /\ p.text = q.text
      BY <3>1 DEF Same, IsCall, CallFields
    <3>4. CallTyped(p)
      BY <1>1, <3>1, <3>2, <3>3 DEF CallTyped
    <3> QED BY <3>1, <3>2, <3>4
  <2> HIDE DEF p
  <2>3. /\ CallTyped(r) /\ SaidRight(r) /\ BodyRight(r) /\ r.parser = q.parser
        /\ r.lines = q.lines /\ r.read = q.read /\ r.arrived = q.arrived
        /\ r.net = p.net /\ r.doneSent = p.doneSent
        /\ r.ends = IF q.ends = 3 THEN 2 ELSE q.ends + 1
        /\ r.reply = IF q.reply = "none" THEN Done.tag ELSE q.reply
    BY <2>2, EndTags, EndKeeps
  <2> HIDE DEF r
  <2>4. r.net # "open" /\ ~ HasLine(r) /\ r.read = Len(r.lines)
    BY <1>2, <1>3, <1>4, <1>7, <2>2, <2>3 DEF HasLine
  <2>5. r.reply # "error" => r.ends = 1
    BY <1>2, <1>7, <2>3
  <2>6. NatsRight(r) /\ DoneRight(r)
    BY <1>2, <2>2, <2>3, <2>4, <2>5 DEF NatsRight, DoneRight
  <2>7. GoodCall(r)
    BY <2>3, <2>6 DEF GoodCall, GenerateRight
  <2> QED BY <2>1, <2>7
<1>8. CASE ~ HasLine(q) /\ q.doneSent
  BY <1>8, OverKeeps DEF NatsPoll
<1> QED BY <1>2, <1>5, <1>6, <1>7, <1>8

-----------------------------------------------------------------------------
(* Connectors: the /generate parser.                                          *)

\* What an accumulated text adds to its prefix.
LEMMA RestOfText ==
    ASSUME NEW t \in Seq(Nat), NEW u \in Seq(Nat), IsPrefix(t, u)
    PROVE  LET new == SubSeq(u, Len(t) + 1, Len(u)) IN
           /\ Len(u) >= Len(t) /\ new \in Seq(Nat) /\ Len(t) + Len(new) = Len(u)
           /\ t \o new = u
<1> DEFINE new == SubSeq(u, Len(t) + 1, Len(u))
<1>1. Len(t) \in Nat /\ Len(u) \in Nat /\ Len(t) <= Len(u)
      /\ SubSeq(t, 1, Len(t)) = SubSeq(u, 1, Len(t))
  BY DEF IsPrefix
<1>2. new \in Seq(Nat) /\ Len(new) = Len(u) - Len(t)
      /\ \A i \in 1 .. (Len(u) - Len(t)) : new[i] = u[Len(t) + i]
  BY <1>1
<1>3. \A i \in 1 .. Len(t) : t[i] = u[i]
  <2> SUFFICES ASSUME NEW i \in 1 .. Len(t) PROVE t[i] = u[i]
    OBVIOUS
  <2>1. SubSeq(t, 1, Len(t))[i] = t[i] /\ SubSeq(u, 1, Len(t))[i] = u[i]
    BY <1>1
  <2> QED BY <1>1, <2>1
<1> HIDE DEF new
<1>4. t \o new \in Seq(Nat) /\ Len(t \o new) = Len(u)
  BY <1>1, <1>2
<1>5. \A i \in 1 .. Len(u) : (t \o new)[i] = u[i]
  <2> SUFFICES ASSUME NEW i \in 1 .. Len(u) PROVE (t \o new)[i] = u[i]
    OBVIOUS
  <2>1. CASE i <= Len(t)
    BY <1>1, <1>2, <1>3, <2>1
  <2>2. CASE i > Len(t)
    <3>1. i - Len(t) \in 1 .. (Len(u) - Len(t)) /\ Len(t) + (i - Len(t)) = i
      BY <1>1, <2>2
    <3>2. (t \o new)[i] = new[i - Len(t)]
      BY <1>1, <1>2, <2>2
    <3> QED BY <1>2, <3>1, <3>2
  <2>3. i \in Nat /\ (i <= Len(t) \/ i > Len(t))
    BY <1>1
  <2> QED BY <2>1, <2>2, <2>3
<1>6. t \o new = u
  BY <1>4, <1>5, SeqEqual
<1> QED BY <1>1, <1>2, <1>6 DEF new

\* What the /generate parser hands on of a text: while the lines can be told
\* apart it is what the line adds to the text so far.
LEMMA GenerateText ==
    ASSUME NEW q, GoodCall(q), q.parser = "generate", q.read + 1 <= Len(q.lines),
           Line(q).tag = "text"
    PROVE  LET new == NewText(q, Line(q)) IN
           /\ q.text \in Seq(Nat) /\ Line(q).text \in Seq(Nat) /\ new \in Seq(Nat)
           /\ Tellable(q.parser, q.lines) => q.text \o new = Reads("generate", Line(q), q.text)
           /\ q.emitted + Len(new) = Len(q.text \o new)
<1> DEFINE u == Line(q).text
           t == q.text
           l == Line(q)
           rest == SubSeq(u, Len(t) + 1, Len(u))
           new == NewText(q, Line(q))
<1>1. CallTyped(q) /\ SaidRight(q) /\ GenerateRight(q)
  BY DEF GoodCall
<1>2. q.read + 1 \in 1 .. Len(q.lines) /\ Line(q) = q.lines[q.read + 1] /\ Line(q) \in Lines
  BY <1>1, NextLineReads
<1>3. u \in Seq(Nat) /\ l.tag = "text" /\ l.text = u
  BY <1>2 DEF Lines
<1>4. q.lines \in Seq(Lines) /\ q.read \in Nat
  BY <1>1, WiresTyped DEF CallTyped
<1>5. t \in Seq(Nat) /\ q.emitted = Len(t)
  BY <1>1 DEF CallTyped, GenerateRight
<1>6. ASSUME Tellable(q.parser, q.lines) PROVE IsPrefix(t, u) \/ Len(u) < Len(t)
  <2>1. t = Said(q.parser, q.lines, (q.read + 1) - 1)
    BY <1>1, <1>4, <1>6 DEF SaidRight
  <2>2. q.lines[q.read + 1].tag = "text"
    BY <1>2
  <2>3. LET before == Said(q.parser, q.lines, (q.read + 1) - 1) IN
        IsPrefix(before, q.lines[q.read + 1].text) \/ Len(q.lines[q.read + 1].text) < Len(before)
    BY <1>2, <1>6, <2>2 DEF Tellable
  <2> QED BY <1>2, <2>1, <2>3
<1>7. new = IF Len(u) >= Len(t) THEN rest ELSE u
  BY <1>5, Zenon DEF NewText
<1> HIDE DEF u, t, l, new
<1>8. Len(u) \in Nat /\ Len(t) \in Nat /\ rest \in Seq(Nat)
  BY <1>3, <1>5
<1>p. IsPrefix(t, u) => Len(u) >= Len(t) /\ t \o rest = u
  BY <1>3, <1>5, RestOfText
<1>o. IsPrefix(t, u) => Len(t) <= Len(u)
  BY DEF IsPrefix
<1> HIDE DEF rest
<1>9. new \in Seq(Nat)
  BY <1>3, <1>7, <1>8
<1>10. Tellable(q.parser, q.lines) => t \o new = Reads("generate", l, t)
  <2>1. CASE IsPrefix(t, u)
    BY <1>3, <1>7, <1>p, <2>1 DEF Reads
  <2>2. CASE Len(u) < Len(t)
    <3>1. ~ IsPrefix(t, u) /\ new = u
      BY <1>7, <1>8, <1>o, <2>2
    <3> QED BY <1>3, <3>1 DEF Reads
  <2> QED BY <1>6, <2>1, <2>2
<1>11. q.emitted + Len(new) = Len(t \o new)
  BY <1>5, <1>9
<1> QED BY <1>3, <1>5, <1>9, <1>10, <1>11 DEF u, t, l, new

\* A line that the /generate parser has read, and what came of it.
LEMMA GenerateReads ==
    ASSUME NEW q, GoodCall(q), q.parser = "generate", ~ q.finished, q.read + 1 <= Len(q.lines),
           NEW r, Same(r, q, {"pc", "text", "shown", "ends", "reply", "read", "emitted", "finished",
                              "doneSent"}),
           r.read = q.read + 1, r.pc \in {"reading", "over"},
           r.finished \in BOOLEAN, r.doneSent \in BOOLEAN,
           r.text \in Seq(Nat), r.emitted = Len(r.text),
           Tellable(q.parser, q.lines) => r.text = Reads("generate", Line(q), q.text),
           q.mode = "aggregate" => r.shown = r.text,
           r.finished => SaysItIsOver(q, q.read + 1),
           ~ r.finished => ~ r.doneSent,
           \/ ~ r.doneSent /\ r.ends = q.ends /\ r.reply = q.reply
           \/ /\ r.doneSent /\ r.finished
              /\ r.ends = IF q.ends = 3 THEN 2 ELSE q.ends + 1
              /\ r.reply = IF q.reply = "none" THEN "done" ELSE q.reply
    PROVE  GoodCall(r)
<1> DEFINE l == Line(q)
<1>1. CallTyped(q) /\ SaidRight(q) /\ DoneRight(q) /\ GenerateRight(q)
  BY DEF GoodCall
<1>2. /\ IsCall(r) /\ r.mode = q.mode /\ r.parser = q.parser /\ r.lines = q.lines
      /\ r.arrived = q.arrived /\ r.net = q.net /\ BodyRight(r)
      /\ r.read \in 0 .. Len(r.lines)
      /\ q.reply = "done" => WasOver(r) \/ (r.net # "open" /\ ~ HasLine(r))
  BY ReadOn
<1>3. q.read + 1 \in 1 .. Len(q.lines) /\ l = q.lines[q.read + 1] /\ l \in Lines
  BY <1>1, NextLineReads
<1>4. SaidRight(r)
  BY <1>1, <1>2, SaidNext
<1>5. r.finished => WasOver(r)
  <2> SUFFICES ASSUME r.finished PROVE WasOver(r)
    OBVIOUS
  <2>1. SaysItIsOver(r, q.read + 1)
    BY <1>2 DEF SaysItIsOver
  <2>2. q.read + 1 \in 1 .. r.read
    BY <1>3
  <2> QED BY <2>1, <2>2 DEF WasOver
<1>6. /\ q.ends \in Nat /\ q.reply \in {"none", "done", "error"} /\ (q.ends = 0 <=> q.reply = "none")
      /\ (q.reply # "error" => q.ends = 0) /\ q.doneSent = FALSE
  BY <1>1 DEF CallTyped, GenerateRight
<1>7. /\ r.ends \in Nat /\ r.reply \in {"none", "done", "error"} /\ (r.ends = 0 <=> r.reply = "none")
      /\ (r.reply # "error" => r.ends = IF r.doneSent THEN 1 ELSE 0)
  BY <1>6
<1>8. DoneRight(r)
  BY <1>2, <1>5, <1>6 DEF DoneRight
<1>10. CallTyped(r)
  <2>1. r.emitted \in Nat
    BY LenProperties
  <2> QED BY <1>1, <1>2, <1>7, <2>1 DEF CallTyped
<1>12. GenerateRight(r)
  BY <1>2, <1>5, <1>7 DEF GenerateRight
<1>13. NatsRight(r)
  BY <1>2 DEF NatsRight
<1> QED BY <1>2, <1>4, <1>8, <1>10, <1>12, <1>13 DEF GoodCall

\* One line of /generate.
LEMMA GenerateParseKeeps ==
    ASSUME NEW q, GoodCall(q), q.parser = "generate", ~ q.finished, q.read + 1 <= Len(q.lines)
    PROVE  GoodCall(GenerateParse(q))
<1> DEFINE l == Line(q)
           new == NewText(q, l)
           n == NextLine(q)
<1>1. CallTyped(q) /\ SaidRight(q) /\ GenerateRight(q) /\ IsCall(q)
  BY DEF GoodCall, CallTyped
<1>2. q.read + 1 \in 1 .. Len(q.lines) /\ l = q.lines[q.read + 1] /\ l \in Lines
  BY <1>1, NextLineReads
<1>3. Same(n, q, {"read"}) /\ n.read = q.read + 1
  BY <1>1, NextLineIs
<1>4. q.doneSent = FALSE /\ q.finished = FALSE /\ q.emitted = Len(q.text) /\ q.text \in Seq(Nat)
      /\ q.pc \in {"reading", "over"} /\ q.mode \in {"aggregate", "stream"}
      /\ (q.mode = "aggregate" => q.shown = q.text)
  BY <1>1 DEF CallTyped, GenerateRight, SaidRight
<1>p. CASE SplitsCharacter(q, l)
  <2>1. GenerateParse(q) = [q EXCEPT !.pc = "over"]
    BY <1>p DEF GenerateParse, SplitsCharacter
  <2> QED BY <2>1, OverKeeps
<1>5. CASE l.tag = "done"
  <2> DEFINE p == [n EXCEPT !.finished = TRUE, !.doneSent = TRUE]
             r == Give(p, Done)
  <2>1. GenerateParse(q) = r
    BY <1>5 DEF GenerateParse, SplitsCharacter
  <2> HIDE DEF n
  <2>2. Same(p, q, {"read", "finished", "doneSent"}) /\ p.read = q.read + 1
        /\ p.finished = TRUE /\ p.doneSent = TRUE
    BY <1>3 DEF Same, CallFields
  <2> HIDE DEF p
  <2>3. /\ Same(r, p, {"pc", "ends", "reply"})
        /\ r.pc = IF p.mode = "aggregate" THEN "over" ELSE p.pc
        /\ r.ends = IF p.ends = 3 THEN 2 ELSE p.ends + 1
        /\ r.reply = IF p.reply = "none" THEN Done.tag ELSE p.reply
    BY <2>2, EndTags, GiveEnd DEF Same, IsCall
  <2> HIDE DEF r
  <2>4. /\ Same(r, q, {"pc", "text", "shown", "ends", "reply", "read", "emitted", "finished", "doneSent"})
        /\ r.read = q.read + 1 /\ r.finished = TRUE /\ r.doneSent = TRUE
        /\ r.text = q.text /\ r.shown = q.shown /\ r.emitted = q.emitted
        /\ p.pc = q.pc /\ p.mode = q.mode /\ p.ends = q.ends /\ p.reply = q.reply
    BY <2>2, <2>3 DEF Same, CallFields
  <2>5. r.text = Reads("generate", l, q.text) /\ (q.mode = "aggregate" => r.shown = r.text)
    BY <1>4, <1>5, <2>4 DEF Reads
  <2>6. SaysItIsOver(q, q.read + 1)
    BY <1>2, <1>5 DEF SaysItIsOver
  <2>7. /\ r.ends = IF q.ends = 3 THEN 2 ELSE q.ends + 1
        /\ r.reply = IF q.reply = "none" THEN "done" ELSE q.reply
        /\ r.pc \in {"reading", "over"} /\ r.emitted = Len(r.text) /\ r.text \in Seq(Nat)
    BY <1>4, <2>3, <2>4, EndTags
  <2>8. GoodCall(r)
    BY <2>4, <2>5, <2>6, <2>7, GenerateReads
  <2> QED BY <2>1, <2>8
<1>6. CASE l.tag = "text" /\ ~ SplitsCharacter(q, l) /\ (new # <<>> \/ l.finish)
  <2> DEFINE p == [n EXCEPT !.emitted = @ + Len(new), !.finished = l.finish]
             c == [tag |-> "text", text |-> new, finish |-> l.finish]
             r == Give(p, c)
  <2>1. GenerateParse(q) = r
    BY <1>6 DEF GenerateParse
  <2>g. /\ new \in Seq(Nat) /\ q.emitted + Len(new) = Len(q.text \o new)
        /\ Tellable(q.parser, q.lines) => q.text \o new = Reads("generate", l, q.text)
    BY <1>6, GenerateText
  <2>s. q.text \o new \in Seq(Nat)
    BY <1>4, <2>g, ConcatProperties
  <2>f. l.finish \in BOOLEAN
    BY <1>2 DEF Lines
  <2> HIDE DEF n, new
  <2>2. Same(p, q, {"read", "emitted", "finished"}) /\ p.read = q.read + 1
        /\ p.emitted = q.emitted + Len(new) /\ p.finished = l.finish
    BY <1>3 DEF Same, CallFields
  <2>c. c.tag = "text" /\ c.text = new /\ c.finish = l.finish
    OBVIOUS
  <2> HIDE DEF p, c
  <2>3. /\ Same(r, p, {"text", "shown"})
        /\ r.text = p.text \o c.text
        /\ r.shown = IF p.mode = "aggregate" \/ ~ c.finish THEN p.shown \o c.text ELSE p.shown
    BY <2>2, <2>c, GiveText DEF Same, IsCall
  <2> HIDE DEF r
  <2>4. /\ Same(r, q, {"pc", "text", "shown", "ends", "reply", "read", "emitted", "finished", "doneSent"})
        /\ r.read = q.read + 1 /\ r.finished = l.finish /\ r.doneSent = q.doneSent
        /\ r.emitted = q.emitted + Len(new) /\ r.pc = q.pc /\ r.ends = q.ends /\ r.reply = q.reply
        /\ p.mode = q.mode /\ p.text = q.text /\ p.shown = q.shown
    BY <2>2, <2>3 DEF Same, CallFields
  <2>5. /\ r.text = q.text \o new
        /\ q.mode = "aggregate" => r.shown = r.text
    BY <1>4, <2>3, <2>4, <2>c
  <2>7. l.finish => SaysItIsOver(q, q.read + 1)
    BY <1>2 DEF SaysItIsOver
  <2>8. r.text \in Seq(Nat) /\ r.emitted = Len(r.text) /\ (~ r.finished => ~ r.doneSent)
        /\ r.pc \in {"reading", "over"} /\ r.finished \in BOOLEAN /\ r.doneSent = FALSE
        /\ (r.finished => SaysItIsOver(q, q.read + 1))
    <3> HIDE DEF l
    <3> QED BY <1>4, <2>4, <2>5, <2>7, <2>f, <2>g, <2>s
  <2>9. GoodCall(r)
    BY <2>4, <2>5, <2>8, <2>g, GenerateReads
  <2> QED BY <2>1, <2>9
<1>7. CASE ~ SplitsCharacter(q, l) /\ l.tag # "done" /\ ~ (l.tag = "text" /\ (new # <<>> \/ l.finish))
  <2>1. GenerateParse(q) = n
    BY <1>7 DEF GenerateParse, Skipped
  <2> HIDE DEF n
  <2>2. /\ Same(n, q, {"pc", "text", "shown", "ends", "reply", "read", "emitted", "finished", "doneSent"})
        /\ n.finished = FALSE /\ n.doneSent = FALSE /\ n.pc \in {"reading", "over"}
        /\ n.text = q.text /\ n.shown = q.shown /\ n.emitted = Len(q.text)
        /\ n.ends = q.ends /\ n.reply = q.reply
    BY <1>3, <1>4 DEF Same, CallFields
  <2>3. Tellable(q.parser, q.lines) => q.text = Reads("generate", l, q.text)
    <3>1. CASE l.tag = "text"
      <4>1. l.finish \in BOOLEAN
        BY <1>2 DEF Lines
      <4>2. new = <<>>
        BY <1>7, <3>1, <4>1
      <4>3. q.text \o new = q.text
        BY <1>4, <4>2, TailOfText
      <4> QED BY <3>1, <4>3, GenerateText
    <3>2. CASE l.tag # "text"
      BY <3>2 DEF Reads
    <3> QED BY <3>1, <3>2
  <2>4. /\ Tellable(q.parser, q.lines) => n.text = Reads("generate", l, q.text)
        /\ q.mode = "aggregate" => n.shown = n.text
    <3> HIDE DEF l
    <3> QED BY <1>4, <2>2, <2>3
  <2>5. GoodCall(n)
    BY <1>3, <1>4, <2>2, <2>4, GenerateReads
  <2> QED BY <2>1, <2>5
<1> QED BY <1>p, <1>5, <1>6, <1>7

\* The /generate parser, having become p, ends the reply with c.
EndsWith(q, p, c) ==
    /\ Same(p, q, {"net", "finished", "doneSent"}) /\ ~ q.doneSent
    /\ p.net \in {"eof", "broken"} \/ p.net = q.net
    /\ \/ /\ p.doneSent = TRUE /\ p.finished = TRUE /\ c.tag = "done"
          /\ WasOver(q) \/ (p.net # "open" /\ ~ HasLine(q))
       \/ /\ p.doneSent = q.doneSent /\ p.finished = q.finished /\ c.tag = "error"
          /\ p.net # "open" /\ ~ HasLine(q)

\* One poll of the /generate parser.
LEMMA GenerateKeeps ==
    ASSUME NEW q, GoodCall(q), q.parser = "generate", HasLine(q) \/ q.net # "open" \/ q.finished
    PROVE  GoodCall(GeneratePoll(q))
<1>1. CallTyped(q) /\ DoneRight(q) /\ GenerateRight(q) /\ IsCall(q)
  BY DEF GoodCall, CallTyped
<1>2. /\ q.finished \in BOOLEAN /\ q.doneSent \in BOOLEAN /\ q.net \in {"open", "eof", "broken"}
      /\ q.ends \in Nat /\ q.reply \in {"none", "done", "error"} /\ (q.ends = 0 <=> q.reply = "none")
      /\ (~ q.finished => ~ q.doneSent)
      /\ (q.reply # "error" => q.ends = IF q.doneSent THEN 1 ELSE 0)
      /\ (q.finished /\ ~ q.doneSent => WasOver(q))
  BY <1>1 DEF CallTyped, GenerateRight
<1>3. ASSUME NEW p, NEW c, EndsWith(q, p, c) PROVE GoodCall(Give(p, c))
  <2> DEFINE r == Give(p, c)
  <2>1. /\ IsCall(p) /\ p.mode = q.mode /\ p.parser = q.parser /\ p.lines = q.lines /\ p.read = q.read
        /\ p.arrived = q.arrived /\ p.emitted = q.emitted /\ p.ends = q.ends /\ p.reply = q.reply
        /\ p.pc = q.pc /\ p.text = q.text
    BY <1>3 DEF EndsWith, Same, IsCall, CallFields
  <2>2. CallTyped(p)
    BY <1>1, <1>2, <1>3, <2>1 DEF CallTyped, EndsWith
  <2>3. /\ CallTyped(r) /\ SaidRight(r) /\ BodyRight(r)
        /\ r.parser = q.parser /\ r.lines = q.lines /\ r.read = q.read /\ r.arrived = q.arrived
        /\ r.text = q.text /\ r.shown = q.shown /\ r.emitted = q.emitted
        /\ r.net = p.net /\ r.finished = p.finished /\ r.doneSent = p.doneSent
        /\ r.ends = IF q.ends = 3 THEN 2 ELSE q.ends + 1
        /\ r.reply = IF q.reply = "none" THEN c.tag ELSE q.reply
    BY <1>3, <2>2, EndKeeps DEF EndsWith
  <2> HIDE DEF r
  <2>4. WasOver(q) => WasOver(r)
    BY <2>3 DEF WasOver, SaysItIsOver
  <2>5. HasLine(r) <=> HasLine(q)
    BY <2>3 DEF HasLine
  <2>6. DoneRight(r)
    BY <1>2, <1>3, <2>3, <2>4, <2>5 DEF DoneRight, EndsWith
  <2>7. r.reply # "error" => r.ends = IF r.doneSent THEN 1 ELSE 0
    BY <1>2, <1>3, <2>3 DEF EndsWith
  <2>8. GenerateRight(r)
    <3>2. r.emitted = Len(r.text)
      BY <1>1, <2>3 DEF GenerateRight
    <3>3. (~ r.finished => ~ r.doneSent) /\ (r.finished /\ ~ r.doneSent => WasOver(r))
      BY <1>2, <1>3, <2>3, <2>4 DEF EndsWith
    <3> QED BY <2>7, <3>2, <3>3 DEF GenerateRight
  <2>9. NatsRight(r)
    BY <2>3 DEF NatsRight
  <2> QED BY <2>3, <2>6, <2>8, <2>9 DEF GoodCall, r
<1>4. CASE q.finished /\ q.doneSent
  BY <1>4, OverKeeps DEF GeneratePoll
<1>5. CASE q.finished /\ ~ q.doneSent
  <2> DEFINE p == [q EXCEPT !.doneSent = TRUE]
  <2>1. GeneratePoll(q) = Give(p, Done)
    BY <1>5 DEF GeneratePoll
  <2>2. Same(p, q, {"net", "finished", "doneSent"}) /\ p.doneSent = TRUE /\ p.net = q.net
        /\ p.finished = q.finished
    BY <1>1 DEF Same, IsCall, CallFields
  <2> HIDE DEF p
  <2>3. EndsWith(q, p, Done)
    BY <1>2, <1>5, <2>2, EndTags DEF EndsWith
  <2>4. GoodCall(Give(p, Done))
    BY <1>3, <2>3
  <2> QED BY <2>1, <2>4
<1>6. CASE ~ q.finished /\ (HasLine(q) \/ (q.net = "eof" /\ q.arrived = 3 * q.read + 2))
  <2>1. q.read + 1 <= Len(q.lines)
    BY <1>1, <1>6, LineIsThere
  <2>2. GeneratePoll(q) = GenerateParse(q)
    BY <1>6 DEF GeneratePoll
  <2> QED BY <1>6, <2>1, <2>2, GenerateParseKeeps
<1>7. CASE ~ q.finished /\ ~ HasLine(q) /\ q.net = "broken"
  <2> DEFINE p == [q EXCEPT !.net = "eof"]
  <2>1. GeneratePoll(q) = Give(p, Error)
    BY <1>7 DEF GeneratePoll
  <2>2. Same(p, q, {"net", "finished", "doneSent"}) /\ p.doneSent = q.doneSent /\ p.net = "eof"
        /\ p.finished = q.finished
    BY <1>1 DEF Same, IsCall, CallFields
  <2> HIDE DEF p
  <2>3. EndsWith(q, p, Error)
    BY <1>2, <1>7, <2>2, EndTags DEF EndsWith
  <2>4. GoodCall(Give(p, Error))
    BY <1>3, <2>3
  <2> QED BY <2>1, <2>4
<1>8. CASE ~ q.finished /\ ~ HasLine(q) /\ q.net = "eof" /\ q.arrived # 3 * q.read + 2
  <2> DEFINE p == [q EXCEPT !.finished = TRUE, !.doneSent = TRUE]
  <2>1. GeneratePoll(q) = Give(p, Done)
    BY <1>8 DEF GeneratePoll
  <2>2. Same(p, q, {"net", "finished", "doneSent"}) /\ p.doneSent = TRUE /\ p.net = q.net
        /\ p.finished = TRUE
    BY <1>1 DEF Same, IsCall, CallFields
  <2> HIDE DEF p
  <2>3. EndsWith(q, p, Done)
    BY <1>2, <1>8, <2>2, EndTags DEF EndsWith
  <2>4. GoodCall(Give(p, Done))
    BY <1>3, <2>3
  <2> QED BY <2>1, <2>4
<1> QED BY <1>2, <1>4, <1>5, <1>6, <1>7, <1>8

-----------------------------------------------------------------------------
(* Connectors: the invariant.                                                 *)

\* A connector is registered under ids it reports.
Registered ==
    \A id \in DOMAIN registry : registry[id] \in 1 .. Len(Configs) /\ id \in Reports[registry[id]]

\* What discovery stored has a connector, and KV events come from Dynamo.
Cataloged ==
    /\ DOMAIN catalog \subseteq DOMAIN registry
    /\ \A id \in DOMAIN catalog :
        catalog[id].events => Configs[catalog[id].by].engine \in {"dynamo", "dynamo_http"}

\* The figures collected from a page that fits.
Sampled == sample.fits => sample.used <= sample.total

ConnectorInv ==
    /\ Registered /\ Cataloged /\ Sampled
    /\ toDiscover \subseteq 1 .. Len(Configs)
    /\ call = NoCallYet \/ GoodCall(call)

LEMMA ConnectorInvInit == ConnectorInit => ConnectorInv
<1> SUFFICES ASSUME ConnectorInit PROVE ConnectorInv
  OBVIOUS
<1>1. registry = FromConfigs /\ toDiscover = { registry[id] : id \in DOMAIN registry }
      /\ catalog = <<>> /\ sample = [used |-> 0, total |-> 0, fits |-> TRUE]
      /\ call = NoCallYet
  BY DEF ConnectorInit
<1>2. ASSUME NEW id \in DOMAIN FromConfigs
      PROVE  FromConfigs[id] \in 1 .. Len(Configs) /\ id \in Reports[FromConfigs[id]]
  <2> DEFINE S == { c \in 1 .. Len(Configs) : AnchorId(c) = id }
  <2>1. id \in { AnchorId(c) : c \in 1 .. Len(Configs) } /\ FromConfigs[id] = Max(S)
    BY <1>2 DEF FromConfigs
  <2>2. S # {} /\ Len(Configs) \in Nat
    BY <2>1, ConnectorAssumption
  <2>3. S \subseteq 0 .. Len(Configs)
    BY <2>2
  <2>4. S \subseteq 1 .. Len(Configs) /\ \A c \in S : AnchorId(c) = id
    OBVIOUS
  <2> HIDE DEF S
  <2>5. Max(S) \in S
    BY <2>2, <2>3, GreatestUpTo
  <2> QED BY <2>1, <2>4, <2>5, ConnectorAssumption
<1>3. Registered /\ toDiscover \subseteq 1 .. Len(Configs)
  BY <1>1, <1>2 DEF Registered
<1>4. Cataloged
  <2>1. DOMAIN catalog = {}
    BY <1>1
  <2> QED BY <2>1 DEF Cataloged
<1>5. Sampled
  BY <1>1 DEF Sampled
<1> QED BY <1>1, <1>3, <1>4, <1>5 DEF ConnectorInv

LEMMA DiscoverKeeps ==
    ASSUME ConnectorInv, NEW c \in toDiscover, NEW listing, Discover(c, listing)
    PROVE  ConnectorInv'
<1> DEFINE found == Inventory(Configs[c].engine, listing)
<1>1. Registered /\ Cataloged /\ Sampled /\ toDiscover \subseteq 1 .. Len(Configs)
      /\ (call = NoCallYet \/ GoodCall(call))
  BY DEF ConnectorInv
<1>2. c \in 1 .. Len(Configs) /\ Configs[c].engine \in Engines
  BY <1>1, ConnectorAssumption
<1>3. found.events => Configs[c].engine \in {"dynamo", "dynamo_http"}
  <2>1. CASE Configs[c].engine \in {"openai", "sglang"}
    <3>1. found = OpenAIDiscover(listing)
      BY <2>1 DEF Inventory
    <3>2. OpenAIDiscover(listing).events = FALSE
      BY DEF OpenAIDiscover
    <3> QED BY <3>1, <3>2
  <2> QED BY <1>2, <2>1 DEF Engines
<1>4. /\ toDiscover' = toDiscover \ {c} /\ registry' = WithAliases(Reports[c], c)
      /\ catalog' = [ id \in DOMAIN catalog \cup Reports[c] |->
                        IF id \in Reports[c]
                        THEN [by |-> c, models |-> found.models, events |-> found.events]
                        ELSE catalog[id] ]
      /\ sample' = sample /\ call' = call
  BY DEF Discover
<1> HIDE DEF found
<1>5. Registered'
  <2> SUFFICES ASSUME NEW id \in DOMAIN registry'
               PROVE  registry'[id] \in 1 .. Len(Configs) /\ id \in Reports[registry'[id]]
    BY DEF Registered
  <2>1. id \in DOMAIN registry \cup Reports[c]
        /\ registry'[id] = IF id \in DOMAIN registry THEN registry[id] ELSE c
    BY <1>4 DEF WithAliases
  <2> QED BY <1>1, <1>2, <2>1 DEF Registered
<1>6. Cataloged'
  <2>1. DOMAIN catalog' = DOMAIN catalog \cup Reports[c] /\ DOMAIN registry' = DOMAIN registry \cup Reports[c]
    BY <1>4 DEF WithAliases
  <2>2. ASSUME NEW id \in DOMAIN catalog', catalog'[id].events
        PROVE  Configs[catalog'[id].by].engine \in {"dynamo", "dynamo_http"}
    <3>1. CASE id \in Reports[c]
      <4>1. catalog'[id] = [by |-> c, models |-> found.models, events |-> found.events]
        BY <1>4, <2>1, <3>1
      <4>2. catalog'[id].by = c /\ catalog'[id].events = found.events
        BY <4>1
      <4> QED BY <1>3, <2>2, <4>2
    <3>2. CASE id \notin Reports[c]
      <4>1. catalog'[id] = catalog[id] /\ id \in DOMAIN catalog
        BY <1>4, <2>1, <3>2
      <4> QED BY <1>1, <2>2, <4>1 DEF Cataloged
    <3> QED BY <3>1, <3>2
  <2> QED BY <1>1, <2>1, <2>2 DEF Cataloged
<1>7. Sampled' /\ toDiscover' \subseteq 1 .. Len(Configs) /\ (call' = NoCallYet \/ GoodCall(call'))
  BY <1>1, <1>4 DEF Sampled
<1> QED BY <1>5, <1>6, <1>7 DEF ConnectorInv

\* Tokens to blocks, rounded down.
LEMMA BlocksFit ==
    ASSUME NEW u \in Nat, NEW t \in Nat, u <= t, NEW b \in Nat, b >= 1
    PROVE  u \div b \in Nat /\ t \div b \in Nat /\ u \div b <= t \div b
OBVIOUS

\* The figures of a page are of blocks used among all.
FiguresFit(m) == m.used \in Nat /\ m.total \in Nat /\ m.used <= m.total

\* A record of such figures.
LEMMA FiguresOf ==
    ASSUME NEW u \in Nat, NEW t \in Nat, u <= t PROVE FiguresFit([used |-> u, total |-> t])
BY DEF FiguresFit

\* A metrics page with usage lines gives the last one's figure.
LEMMA UsageFits ==
    ASSUME NEW lines, Len(lines) \in Nat,
           \A i \in 1 .. Len(lines) : lines[i].name = "usage" => lines[i].value \in 0 .. UsageBlocks
    PROVE  FiguresFit(PrometheusPage(lines))
<1> DEFINE S == { i \in 1 .. Len(lines) : lines[i].name = "usage" }
           v == lines[Max(S)].value
<1>1. CASE S = {}
  <2>1. PrometheusPage(lines) = [used |-> 0, total |-> 0]
    BY <1>1 DEF PrometheusPage
  <2> QED BY <2>1, FiguresOf
<1>2. CASE S # {}
  <2>1. PrometheusPage(lines) = [used |-> v, total |-> UsageBlocks]
    BY <1>2 DEF PrometheusPage
  <2>2. S \subseteq 0 .. Len(lines)
    OBVIOUS
  <2>3. \A i \in S : lines[i].value \in 0 .. UsageBlocks
    BY Zenon
  <2> HIDE DEF S
  <2>4. Max(S) \in S
    BY <1>2, <2>2, GreatestUpTo
  <2>5. v \in 0 .. UsageBlocks
    BY <2>3, <2>4, Zenon
  <2> HIDE DEF v
  <2>6. UsageBlocks \in Nat
    BY DEF UsageBlocks
  <2> QED BY <2>1, <2>5, <2>6, FiguresOf
<1> QED BY <1>1, <1>2

\* Tokens are counted in blocks of at least one token.
LEMMA ServerInfoFits ==
    ASSUME NEW page, page.block \in Nat, page.totalTokens \in Nat,
           page.usedTokens \in 0 .. page.totalTokens
    PROVE  FiguresFit(ServerInfo(page))
<1> DEFINE block == Max({page.block, 1})
           inUse == page.usedTokens
           inAll == page.totalTokens
<1>1. block \in Nat /\ block >= 1
  <2> DEFINE x == page.block
  <2>1. x \in Nat
    OBVIOUS
  <2> HIDE DEF x
  <2>2. Max({x, 1}) \in {x, 1} /\ \A y \in {x, 1} : Max({x, 1}) >= y
    BY <2>1 DEF Max
  <2> QED BY <2>1, <2>2 DEF x
<1>2. ServerInfo(page) = [used |-> inUse \div block, total |-> inAll \div block]
  BY DEF ServerInfo
<1>3. inUse \in Nat /\ inAll \in Nat /\ inUse <= inAll
  OBVIOUS
<1> HIDE DEF block, inUse, inAll
<1>4. inUse \div block \in Nat /\ inAll \div block \in Nat /\ inUse \div block <= inAll \div block
  BY <1>1, <1>3, BlocksFit
<1> QED BY <1>2, <1>4, FiguresOf

\* Whatever page that fits a connector finds.
LEMMA PagesFit ==
    ASSUME NEW page, PageFits(page)
    PROVE  /\ FiguresFit(OpenAIMetrics(page)) /\ FiguresFit(SglangMetrics(page))
           /\ FiguresFit(DynamoMetrics(page))
<1>z. FiguresFit(Zeros)
  BY FiguresOf DEF Zeros
<1>1. page.kind = "prometheus" => FiguresFit(PrometheusPage(page.lines))
  <2>1. page.kind = "prometheus" =>
            Len(page.lines) \in Nat /\ \A i \in 1 .. Len(page.lines) :
                page.lines[i].name = "usage" => page.lines[i].value \in 0 .. UsageBlocks
    BY Zenon DEF PageFits
  <2> DEFINE lines == page.lines
  <2> HIDE DEF lines
  <2>2. page.kind = "prometheus" => FiguresFit(PrometheusPage(lines))
    BY <2>1, UsageFits, Zenon DEF lines
  <2> QED BY <2>2 DEF lines
<1>2. page.kind = "server_info" => FiguresFit(ServerInfo(page))
  <2>1. page.kind = "server_info" =>
            page.block \in Nat /\ page.totalTokens \in Nat /\ page.usedTokens \in 0 .. page.totalTokens
    BY Zenon DEF PageFits
  <2> QED BY <2>1, ServerInfoFits, Zenon
<1>3. page.kind = "struct" => FiguresFit(page.metrics)
  <2> DEFINE figures == page.metrics
  <2>1. page.kind = "struct" => figures.total \in Nat /\ figures.used \in 0 .. figures.total
    BY Zenon DEF PageFits
  <2> HIDE DEF figures
  <2>2. page.kind = "struct" => FiguresFit(figures)
    BY <2>1 DEF FiguresFit
  <2> QED BY <2>2 DEF figures
<1> QED BY <1>z, <1>1, <1>2, <1>3, Zenon DEF OpenAIMetrics, SglangMetrics, DynamoMetrics

LEMMA CollectKeeps ==
    ASSUME ConnectorInv, NEW id \in DOMAIN catalog, NEW page \in Pages, CollectMetrics(id, page)
    PROVE  ConnectorInv'
<1>1. Registered /\ Cataloged /\ toDiscover \subseteq 1 .. Len(Configs)
      /\ (call = NoCallYet \/ GoodCall(call))
  BY DEF ConnectorInv
<1>2. EngineOf(id) \in Engines
  BY <1>1, ConnectorAssumption DEF Registered, Cataloged, EngineOf
<1> DEFINE m == MetricsOf(EngineOf(id), page)
<1>3. PageFits(page) => FiguresFit(m)
  BY <1>2, PagesFit DEF MetricsOf, Engines
<1>s. sample' = SampleOf(page, m)
  BY DEF CollectMetrics
<1> HIDE DEF m
<1>f. Sampled'
  <2>1. sample'.fits = PageFits(page) /\ sample'.used = m.used /\ sample'.total = m.total
    BY <1>s, Zenon DEF SampleOf
  <2> QED BY <1>3, <2>1 DEF Sampled, FiguresFit
<1>4. registry' = registry /\ catalog' = catalog /\ toDiscover' = toDiscover /\ call' = call
  BY DEF CollectMetrics
<1>5. Registered' /\ Cataloged' /\ Sampled'
  BY <1>1, <1>f, <1>4 DEF Registered, Cataloged
<1> QED BY <1>1, <1>4, <1>5 DEF ConnectorInv

\* A step that changes the call only.
LEMMA CallKeeps ==
    ASSUME ConnectorInv, UNCHANGED <<registry, catalog, toDiscover, sample>>, GoodCall(call')
    PROVE  ConnectorInv'
BY DEF ConnectorInv, Registered, Cataloged, Sampled

\* Sequences put in a row.
LEMMA FlattenTyped ==
    ASSUME NEW A, NEW N \in Nat, NEW seqs \in [1 .. N -> Seq(A)]
    PROVE  FlattenSeq(seqs) \in Seq(A)
<1> DEFINE T == Seq(A)
           Unfold(f) == [i \in 1 .. Len(seqs) |-> IF i = 1 THEN seqs[i] ELSE f[i - 1] \o seqs[i]]
           flat == CHOOSE f : f = Unfold(f)
           step == [n \in 1 .. N |-> [t \in T |-> t \o seqs[n]]]
<1>0. seqs \in Seq(T) /\ Len(seqs) = N
  OBVIOUS
<1>1. CASE N = 0
  <2>1. FlattenSeq(seqs) = seqs /\ seqs = <<>>
    BY <1>0, <1>1 DEF FlattenSeq
  <2> QED BY <2>1
<1>2. CASE N # 0
  <2>1. FlattenSeq(seqs) = flat[N]
    BY <1>0, <1>2, Zenon DEF FlattenSeq
  <2>2. \A n \in 1 .. N : \A t \in T : t \o seqs[n] \in T
    <3> SUFFICES ASSUME NEW n \in 1 .. N, NEW t \in Seq(A) PROVE t \o seqs[n] \in Seq(A)
      OBVIOUS
    <3>1. seqs[n] \in Seq(A)
      OBVIOUS
    <3> QED BY <3>1, ConcatProperties
  <2>e. <<>> \in T
    OBVIOUS
  <2>c. \A t \in T : <<>> \o t = t
    BY ConcatEmptySeq
  <2>s. \A n \in 1 .. N : seqs[n] \in T
    OBVIOUS
  <2>3. step \in [1 .. N -> [T -> T]] /\ \A n \in 1 .. N, t \in T : step[n][t] = t \o seqs[n]
    <3> HIDE DEF T
    <3> QED BY <2>2
  <2> HIDE DEF T, step, flat
  <2>4. PICK it : IsRecursion(it, N, T, <<>>, step)
    BY <2>3, <2>e, RecursionExists
  <2>5. it \in [0 .. N -> T] /\ it[0] = <<>> /\ \A n \in 1 .. N : it[n] = it[n - 1] \o seqs[n]
    <3>1. it \in [0 .. N -> T] /\ it[0] = <<>> /\ \A n \in 1 .. N : it[n] = step[n][it[n - 1]]
      BY <2>4 DEF IsRecursion
    <3>2. ASSUME NEW n \in 1 .. N PROVE it[n] = it[n - 1] \o seqs[n]
      <4>1. n - 1 \in 0 .. N
        OBVIOUS
      <4> QED BY <2>3, <3>1, <4>1
    <3> QED BY <3>1, <3>2
  <2> DEFINE g == [i \in 1 .. N |-> it[i]]
  <2>6. g = Unfold(g)
    <3> SUFFICES ASSUME NEW i \in 1 .. N
                 PROVE  it[i] = IF i = 1 THEN seqs[i] ELSE g[i - 1] \o seqs[i]
      BY <1>0
    <3>1. CASE i = 1
      <4>0. 1 \in 1 .. N /\ 1 - 1 = 0
        BY <3>1
      <4>1. it[1] = it[0] \o seqs[1]
        BY <2>5, <4>0
      <4> QED BY <2>5, <2>c, <2>s, <3>1, <4>1
    <3>2. CASE i # 1
      <4>1. i - 1 \in 1 .. N /\ g[i - 1] = it[i - 1]
        BY <3>2
      <4> QED BY <2>5, <3>2, <4>1
    <3> QED BY <3>1, <3>2
  <2>7. flat = Unfold(flat)
    <3> HIDE DEF Unfold, g
    <3> QED BY <2>6 DEF flat
  <2> DEFINE P == { n \in 0 .. N : n = 0 \/ flat[n] \in T }
  <2>8. 0 \in P
    OBVIOUS
  <2>9. ASSUME NEW n \in 1 .. N, n - 1 \in P PROVE n \in P
    <3>1. flat[n] = IF n = 1 THEN seqs[n] ELSE flat[n - 1] \o seqs[n]
      <4>1. flat[n] = Unfold(flat)[n]
        BY <2>7, Zenon
      <4> HIDE DEF P, g
      <4> QED BY <1>0, <4>1
    <3>2. CASE n = 1
      BY <2>s, <3>1, <3>2
    <3>3. CASE n # 1
      <4>0. n - 1 # 0
        BY <3>3
      <4>1. flat[n - 1] \in T
        BY <2>9, <4>0, Zenon
      <4>2. flat[n - 1] \o seqs[n] \in T
        BY <2>2, <4>1
      <4>3. flat[n] = flat[n - 1] \o seqs[n]
        BY <3>1, <3>3, Zenon
      <4>4. flat[n] \in T
        BY <4>2, <4>3, Zenon
      <4> QED BY <4>4
    <3> QED BY <3>2, <3>3
  <2> HIDE DEF P
  <2>i. 0 .. N \subseteq P
    BY <2>8, <2>9, BoundedInduction
  <2>10. N \in P
    BY <2>i
  <2>11. flat[N] \in T
    BY <1>2, <2>10 DEF P
  <2> QED BY <2>1, <2>11 DEF T
<1> QED BY <1>1, <1>2

\* A text cut anywhere is decoded to a text.
LEMMA LossyTyped ==
    ASSUME NEW text \in Seq(Nat), NEW cuts
    PROVE  Lossy(text, cuts) \in Seq(Nat)
<1> DEFINE seqs == [ i \in 1 .. Len(text) |-> Decoded(text, cuts, i) ]
<1>1. ASSUME NEW i \in 1 .. Len(text) PROVE Decoded(text, cuts, i) \in Seq(Nat)
  <2>1. <<text[i]>> \in Seq(Nat)
    OBVIOUS
  <2>2. Replacement \in Seq(Nat) /\ <<>> \in Seq(Nat)
    BY DEF Replacement
  <2> QED BY <2>1, <2>2, Zenon DEF Decoded
<1>2. seqs \in [1 .. Len(text) -> Seq(Nat)] /\ Len(text) \in Nat
  BY <1>1
<1> HIDE DEF seqs
<1>3. FlattenSeq(seqs) \in Seq(Nat)
  BY <1>2, FlattenTyped
<1> QED BY <1>3 DEF Lossy, seqs

\* What a parser receives are lines, and over NATS those that were sent.
LEMMA ReceivedTyped ==
    ASSUME NEW parser, NEW lines \in Seq(Lines), NEW got \in Received(parser, lines)
    PROVE  got \in Seq(Lines) /\ (parser = "nats" => got = lines)
<1>1. CASE parser = "nats"
  BY <1>1 DEF Received
<1>2. CASE parser # "nats"
  <2>1. got \in Decodings(lines)
    BY <1>2 DEF Received
  <2>2. PICK cuts : got = [ i \in 1 .. Len(lines) |->
            [lines[i] EXCEPT !.text = Lossy(@, { p \in Inside(@) : <<i, p>> \in cuts })] ]
    BY <2>1, Zenon DEF Decodings
  <2>3. ASSUME NEW l \in Lines, NEW C PROVE [l EXCEPT !.text = Lossy(@, C)] \in Lines
    <3>1. l.text \in Seq(Nat)
      BY DEF Lines
    <3>2. Lossy(l.text, C) \in Seq(Nat)
      BY <3>1, LossyTyped
    <3> QED BY <3>2 DEF Lines
  <2>4. Len(lines) \in Nat /\ \A i \in 1 .. Len(lines) : lines[i] \in Lines
    BY LenProperties, ElementOfSeq
  <2>5. \A i \in 1 .. Len(lines) : got[i] \in Lines
    <3> SUFFICES ASSUME NEW i \in 1 .. Len(lines) PROVE got[i] \in Lines
      OBVIOUS
    <3> DEFINE C == { p \in Inside(lines[i].text) : <<i, p>> \in cuts }
    <3>1. got[i] = [lines[i] EXCEPT !.text = Lossy(@, C)]
      BY <2>2, Zenon
    <3> HIDE DEF C
    <3>2. lines[i] \in Lines
      BY <2>4
    <3>3. [lines[i] EXCEPT !.text = Lossy(@, C)] \in Lines
      BY <2>3, <3>2, Zenon
    <3> QED BY <3>1, <3>3, Zenon
  <2>6. got \in [1 .. Len(lines) -> Lines]
    <3>1. DOMAIN got = 1 .. Len(lines) /\ got = [i \in 1 .. Len(lines) |-> got[i]]
      BY <2>2, Zenon
    <3> QED BY <2>5, <3>1
  <2>7. got \in Seq(Lines)
    <3> HIDE DEF Lines
    <3> QED BY <2>4, <2>6
  <2> QED BY <1>2, <2>7
<1> QED BY <1>1, <1>2

\* A call before its first poll.
LEMMA FreshCall ==
    ASSUME NEW engine \in Engines, NEW ask, NEW mode \in {"aggregate", "stream"},
           NEW wire \in Wires[Sent(engine, ask).parser],
           NEW lines \in Received(Sent(engine, ask).parser, wire)
    PROVE  GoodCall(Fresh(Sent(engine, ask).parser, lines, ask, Sent(engine, ask).body, mode))
<1> DEFINE parser == Sent(engine, ask).parser
           body == Sent(engine, ask).body
           q == Fresh(parser, lines, ask, body, mode)
<1>1. /\ parser \in {"sse", "generate", "nats"}
      /\ body.prompt = "ids" => ask.ids /\ parser # "nats"
      /\ parser = "generate" => body = GenerateBody
      /\ ask.tools /\ ~ body.tools => body.prompt = "ids" \/ parser = "nats"
  <2>1. \A emit : /\ OpenAIForward(ask, emit).parser = "sse"
                  /\ OpenAIForward(ask, emit).body = RequestBody(ask, emit)
    BY DEF OpenAIForward
  <2>2. ASSUME NEW emit, NEW b, b = RequestBody(ask, emit)
        PROVE  /\ b.prompt = "ids" => ask.ids
               /\ ask.tools /\ ~ b.tools => b.prompt = "ids"
    BY <2>2 DEF RequestBody, TokenIdBody, ChatBody, Body
  <2>3. CASE \E emit : Sent(engine, ask) = OpenAIForward(ask, emit)
    BY <2>1, <2>2, <2>3
  <2>4. CASE Sent(engine, ask) = [parser |-> "generate", body |-> GenerateBody] /\ ask.ids
    BY <2>4 DEF GenerateBody, Body
  <2>5. CASE Sent(engine, ask) = DynamoForward
    BY <2>5 DEF DynamoForward, DynamoBody, Body
  <2>6. \/ \E emit : Sent(engine, ask) = OpenAIForward(ask, emit)
        \/ Sent(engine, ask) = [parser |-> "generate", body |-> GenerateBody] /\ ask.ids
        \/ Sent(engine, ask) = DynamoForward
    BY DEF Sent, Engines, SglangForward, StubForward
  <2> QED BY <2>3, <2>4, <2>5, <2>6
<1> HIDE DEF parser, body
<1>2. /\ lines \in Seq(Lines) /\ Len(lines) \in Nat
      /\ parser = "nats" => lines \in Wires["nats"]
  <2>1. wire \in Wires[parser] /\ wire \in Seq(Lines) /\ lines \in Received(parser, wire)
    BY <1>1, BackendAssumption DEF parser
  <2>2. lines \in Seq(Lines) /\ (parser = "nats" => lines = wire)
    BY <2>1, ReceivedTyped
  <2> QED BY <2>1, <2>2, LenProperties
<1>3. /\ IsCall(q) /\ q.pc = "reading" /\ q.ask = ask /\ q.body = body /\ q.mode = mode
      /\ q.text = <<>> /\ q.shown = <<>> /\ q.ends = 0 /\ q.reply = "none"
      /\ q.parser = parser /\ q.lines = lines
      /\ q.arrived = (IF parser = "nats" THEN 3 * Len(lines) ELSE 0)
      /\ q.net = (IF parser = "nats" THEN "eof" ELSE "open")
      /\ q.read = 0 /\ q.emitted = 0 /\ q.finished = FALSE /\ q.doneSent = FALSE
  BY DEF Fresh, IsCall, CallFields
<1> HIDE DEF q
<1>4. CallTyped(q)
  <2>1. q.read \in 0 .. Len(q.lines) /\ q.arrived \in 0 .. 3 * Len(q.lines)
    BY <1>2, <1>3
  <2>2. q.net \in {"open", "eof", "broken"} /\ (q.ends = 0 <=> q.reply = "none")
    BY <1>3
  <2>3. q.ends \in Nat /\ q.emitted \in Nat /\ q.text \in Seq(Nat)
    BY <1>3
  <2> QED BY <1>1, <1>2, <1>3, <2>1, <2>2, <2>3 DEF CallTyped
<1>5. SaidRight(q)
  <2>1. Said(parser, lines, 0) = <<>>
    BY <1>2, SaidSteps
  <2> QED BY <1>3, <2>1 DEF SaidRight
<1>6. DoneRight(q) /\ BodyRight(q)
  BY <1>1, <1>3 DEF DoneRight, BodyRight
<1>7. GenerateRight(q) /\ NatsRight(q)
  BY <1>3 DEF GenerateRight, NatsRight
<1> QED BY <1>4, <1>5, <1>6, <1>7 DEF GoodCall, q, parser, body

\* More bytes, or the end of them.
LEMMA NetKeeps ==
    ASSUME NEW q, GoodCall(q), q.net = "open", NEW r, Same(r, q, {"arrived", "net"}),
           r.arrived \in 0 .. 3 * Len(q.lines), r.net \in {"open", "eof", "broken"}
    PROVE  GoodCall(r)
<1>1. CallTyped(q) /\ SaidRight(q) /\ DoneRight(q) /\ GenerateRight(q) /\ NatsRight(q) /\ BodyRight(q)
  BY DEF GoodCall
<1>2. /\ IsCall(r) /\ r.mode = q.mode /\ r.parser = q.parser /\ r.lines = q.lines /\ r.read = q.read
      /\ r.text = q.text /\ r.shown = q.shown /\ r.emitted = q.emitted /\ r.pc = q.pc
      /\ r.finished = q.finished /\ r.doneSent = q.doneSent
      /\ r.ask = q.ask /\ r.body = q.body /\ r.ends = q.ends /\ r.reply = q.reply
  BY DEF Same, IsCall, CallFields
<1>3. WasOver(r) <=> WasOver(q)
  BY <1>2 DEF WasOver, SaysItIsOver
<1>4. CallTyped(r) /\ SaidRight(r) /\ BodyRight(r)
  BY <1>1, <1>2 DEF CallTyped, SaidRight, BodyRight
<1>5. DoneRight(r) /\ GenerateRight(r)
  BY <1>1, <1>2, <1>3 DEF DoneRight, GenerateRight
<1>6. NatsRight(r)
  BY <1>1, <1>2 DEF NatsRight
<1> QED BY <1>4, <1>5, <1>6 DEF GoodCall

LEMMA ConnectorInvStep == ConnectorInv /\ [ConnectorNext]_connectorVars => ConnectorInv'
<1> SUFFICES ASSUME ConnectorInv, [ConnectorNext]_connectorVars PROVE ConnectorInv'
  OBVIOUS
<1>0. call = NoCallYet \/ GoodCall(call)
  BY DEF ConnectorInv
<1>n. NoCallYet.pc = "none"
  BY DEF NoCallYet
<1>1. ASSUME NEW c \in toDiscover, NEW listing \in {"models", "unavailable"}, Discover(c, listing)
      PROVE  ConnectorInv'
  BY <1>1, DiscoverKeeps
<1>2. ASSUME NEW id \in DOMAIN catalog, NEW page \in Pages, CollectMetrics(id, page)
      PROVE  ConnectorInv'
  BY <1>2, CollectKeeps
<1>3. ASSUME NEW id \in DOMAIN catalog, NEW ask \in Asks, NEW mode \in {"aggregate", "stream"},
             NEW lines, Forward(id, ask, mode, lines)
      PROVE  ConnectorInv'
  <2> DEFINE sent == Sent(EngineOf(id), ask)
  <2>1. /\ lines \in Wires[sent.parser] /\ UNCHANGED <<registry, catalog, toDiscover, sample>>
        /\ \E got \in Received(sent.parser, lines) :
                call' = Fresh(sent.parser, got, ask, sent.body, mode)
    BY <1>3 DEF Forward
  <2>2. EngineOf(id) \in Engines
    BY ConnectorAssumption DEF ConnectorInv, Registered, Cataloged, EngineOf
  <2>3. PICK got \in Received(sent.parser, lines) :
            call' = Fresh(sent.parser, got, ask, sent.body, mode)
    BY <2>1
  <2>f. GoodCall(Fresh(sent.parser, got, ask, sent.body, mode))
    BY <2>1, <2>2, <2>3, FreshCall
  <2> HIDE DEF sent
  <2>4. GoodCall(call')
    BY <2>3, <2>f
  <2> QED BY <2>1, <2>4, CallKeeps
<1>4. CASE BytesArrive
  <2>1. /\ GoodCall(call) /\ call.net = "open" /\ call.arrived < 3 * Len(call.lines)
        /\ call' = [call EXCEPT !.arrived = @ + 1]
        /\ UNCHANGED <<registry, catalog, toDiscover, sample>>
    BY <1>0, <1>n, <1>4 DEF BytesArrive
  <2>2. CallTyped(call) /\ IsCall(call)
    BY <2>1 DEF GoodCall, CallTyped
  <2>3. Same(call', call, {"arrived", "net"}) /\ call'.arrived = call.arrived + 1 /\ call'.net = "open"
    BY <2>1, <2>2 DEF Same, IsCall, CallFields
  <2>4. call'.arrived \in 0 .. 3 * Len(call.lines)
    <3>1. Len(call.lines) \in Nat /\ call.arrived \in 0 .. 3 * Len(call.lines)
      BY <2>2, WiresTyped DEF CallTyped
    <3> QED BY <2>1, <2>3, <3>1
  <2>5. GoodCall(call')
    BY <2>1, <2>3, <2>4, NetKeeps
  <2> QED BY <2>1, <2>5, CallKeeps
<1>5. ASSUME NEW how \in {"eof", "broken"}, ConnectionEnds(how) PROVE ConnectorInv'
  <2>1. /\ GoodCall(call) /\ call.net = "open" /\ call' = [call EXCEPT !.net = how]
        /\ UNCHANGED <<registry, catalog, toDiscover, sample>>
    BY <1>0, <1>n, <1>5 DEF ConnectionEnds
  <2>2. CallTyped(call) /\ IsCall(call)
    BY <2>1 DEF GoodCall, CallTyped
  <2>3. Same(call', call, {"arrived", "net"}) /\ call'.arrived = call.arrived /\ call'.net = how
    BY <2>1, <2>2 DEF Same, IsCall, CallFields
  <2>4. call'.arrived \in 0 .. 3 * Len(call.lines)
    BY <2>2, <2>3 DEF CallTyped
  <2>5. GoodCall(call')
    BY <2>1, <2>3, <2>4, NetKeeps
  <2> QED BY <2>1, <2>5, CallKeeps
<1>6. CASE Poll
  <2>1. /\ GoodCall(call) /\ UNCHANGED <<registry, catalog, toDiscover, sample>>
        /\ HasLine(call) \/ call.net # "open" \/ (call.parser = "generate" /\ call.finished)
        /\ call.parser = "sse" => call' = SsePoll(call)
        /\ call.parser = "generate" => call' = GeneratePoll(call)
        /\ call.parser = "nats" => call' = NatsPoll(call)
    BY <1>0, <1>n, <1>6 DEF Poll
  <2>2. call.parser \in {"sse", "generate", "nats"}
    BY <2>1 DEF GoodCall, CallTyped
  <2>3. GoodCall(call')
    BY <2>1, <2>2, SseKeeps, GenerateKeeps, NatsKeeps
  <2> QED BY <2>1, <2>3, CallKeeps
<1>7. CASE ClientLeaves
  <2>1. /\ GoodCall(call) /\ UNCHANGED <<registry, catalog, toDiscover, sample>>
        /\ call' = [call EXCEPT !.pc = "over"]
    BY <1>0, <1>n, <1>7 DEF ClientLeaves
  <2>2. GoodCall(call')
    BY <2>1, OverKeeps
  <2> QED BY <2>1, <2>2, CallKeeps
<1>8. CASE UNCHANGED connectorVars
  BY <1>8 DEF connectorVars, ConnectorInv, Registered, Cataloged, Sampled
<1> QED BY <1>1, <1>2, <1>3, <1>4, <1>5, <1>6, <1>7, <1>8 DEF ConnectorNext

LEMMA ConnectorInvContract == ConnectorInv => ConnectorContract
<1> SUFFICES ASSUME ConnectorInv PROVE ConnectorContract
  OBVIOUS
<1>1. Registered /\ Cataloged /\ Sampled /\ (call.pc # "none" => GoodCall(call))
  BY DEF ConnectorInv, NoCallYet
<1>2. StreamKeepsText
  <2> SUFFICES ASSUME call.pc # "none"
               PROVE  /\ SaidRight(call)
                      /\ call.reply = "done" => call.read >= call.arrived \div 3 \/ WasOver(call)
                      /\ call.parser # "sse" /\ call.reply # "error" => call.ends < 2
    BY DEF StreamKeepsText, SaidRight, WasOver
  <2>1. GoodCall(call) /\ CallTyped(call)
    BY <1>1 DEF GoodCall
  <2>2. Len(call.lines) \in Nat /\ call.read \in Nat /\ call.arrived \in 0 .. 3 * Len(call.lines)
    BY <2>1, WiresTyped DEF CallTyped
  <2>3. ~ HasLine(call) => call.read >= call.arrived \div 3
    <3>1. ASSUME NEW a \in Nat, NEW m \in Nat, ~ (a >= 3 * (m + 1)) PROVE m >= a \div 3
      BY <3>1
    <3>2. call.arrived \in Nat
      BY <2>2
    <3> QED BY <2>2, <3>1, <3>2 DEF HasLine
  <2>4. call.parser # "sse" /\ call.reply # "error" => call.ends < 2
    <3>1. call.parser \in {"sse", "generate", "nats"} /\ call.doneSent \in BOOLEAN
      BY <2>1 DEF CallTyped
    <3> QED BY <2>1, <3>1 DEF GoodCall, GenerateRight, NatsRight
  <2> QED BY <2>1, <2>3, <2>4 DEF GoodCall, DoneRight
<1>3. BodyCarriesAsk
  BY <1>1 DEF GoodCall, BodyRight, BodyCarriesAsk
<1>4. ASSUME NEW id \in DOMAIN catalog
      PROVE  /\ id \in DOMAIN registry /\ id \in Reports[registry[id]]
             /\ LET engine == Configs[catalog[id].by].engine IN
                catalog[id].events => SupportsKvEvents(engine) \/ engine = "dynamo_http"
  BY <1>1 DEF Registered, Cataloged, SupportsKvEvents
<1> QED BY <1>1, <1>2, <1>3, <1>4 DEF ConnectorContract, Sampled

\* For any backends, answers and requests, wherever the bytes of an answer stop
\* and the network cuts its characters: the reply has the text of the lines read
\* as they were decoded, once and in order (of /generate, while its lines still
\* repeat each other once decoded), all of it if it is aggregated; a reply that
\* ends with Done left no complete line out unless the backend had said it was
\* over; a parser other than SSE reports its end once; every backend that
\* discovery stored has a connector that reported it; and figures that fit on
\* their page fit as collected.
THEOREM ConnectorsKeepTheirContract == ConnectorSpec => []ConnectorContract
BY ConnectorInvInit, ConnectorInvStep, ConnectorInvContract, PTL DEF ConnectorSpec

=============================================================================
