---------------------------- MODULE CuckooFilter ----------------------------
(***************************************************************************)
(* The cuckoo-filter lane and what a producer does to it, as operators     *)
(* (hier-kv-gateway-metadata/src/cuckoo_filter.rs, ckf_producer.rs).       *)
(*                                                                         *)
(* A lane maps each bucket to a multiset of fingerprints: the position of  *)
(* a fingerprint among the slots of its bucket is never observed.  The     *)
(* slot a cuckoo eviction picks comes from a pseudo-random generator and   *)
(* is a nondeterministic choice, so an insertion has a set of outcomes.    *)
(* A producer is a record; a method that changes it is an operator from    *)
(* the record to the record after the call, or to the set of them.         *)
(***************************************************************************)
EXTENDS Naturals, FiniteSets, FiniteSetsExt

CONSTANTS
    Hashes,     \* block hashes
    Backends,   \* the workers of the pool
    Buckets,    \* bucket indices of a lane
    Fps,        \* fingerprints
    Probe,      \* hash -> [fp, bucket]: fingerprint and primary bucket
    Alt,        \* bucket -> fingerprint -> the alternate bucket
    Slots,      \* FP_PER_BUCKET
    MaxKicks    \* MAX_KICKS

\* alt_index xors the index with a nonzero value derived from the fingerprint.
ASSUME CkfConfig ==
    /\ IsFiniteSet(Hashes) /\ IsFiniteSet(Backends)
    /\ IsFiniteSet(Buckets) /\ IsFiniteSet(Fps)
    /\ Probe \in [Hashes -> [fp : Fps, bucket : Buckets]]
    /\ Alt \in [Buckets -> [Fps -> Buckets]]
    /\ \A i \in Buckets, f \in Fps : Alt[i][f] # i /\ Alt[Alt[i][f]][f] = i
    /\ Slots \in Nat \ {0}
    /\ MaxKicks \in Nat

EmptyBucket == [f \in Fps |-> 0]

EmptyLane == [i \in Buckets |-> EmptyBucket]

Lanes == [Buckets -> [Fps -> Nat]]

-----------------------------------------------------------------------------
(* Bucket primitives of cuckoo_filter.rs.                                   *)

Used(bucket) == MapThenSumSet(LAMBDA f : bucket[f], Fps)

\* Mutant: a full bucket is taken to have room.
HasRoomInFull(lane, i) == Used(lane[i]) <= Slots

\* Some slot of bucket i is empty.
HasRoom(lane, i) == Used(lane[i]) < Slots

\* bucket_contains(): does bucket i hold the fingerprint?
Holds(lane, i, fp) == lane[i][fp] > 0

\* try_insert() and try_delete() where they succeed.
Put(lane, i, fp) == [lane EXCEPT ![i][fp] = @ + 1]
Take(lane, i, fp) == [lane EXCEPT ![i][fp] = @ - 1]

-----------------------------------------------------------------------------
(* Cuckoo insertion.                                                        *)

\* One eviction from a walk that has not found room yet: the carried
\* fingerprint takes the place of a resident one, which is then carried to its
\* other bucket and stays there if there is room.
Kick(walk) ==
    IF walk.placed THEN {walk}
    ELSE { LET next   == Alt[walk.at][out]
               kicked == Put(Take(walk.lane, walk.at, out), walk.at, walk.fp)
               fits   == HasRoom(kicked, next)
           IN  [ lane    |-> IF fits THEN Put(kicked, next, out) ELSE kicked,
                 at      |-> next,
                 fp      |-> out,
                 touched |-> walk.touched \cup {walk.at} \cup (IF fits THEN {next} ELSE {}),
                 placed  |-> fits ]
           : out \in { f \in Fps : Holds(walk.lane, walk.at, f) } }

\* The eviction loop, started at either candidate bucket.
Walks(lane, starts, fp) ==
    LET after[n \in 0 .. MaxKicks] ==
            IF n = 0
            THEN { [lane |-> lane, at |-> i, fp |-> fp, touched |-> {}, placed |-> FALSE]
                   : i \in starts }
            ELSE UNION { Kick(w) : w \in after[n - 1] }
    IN  after[MaxKicks]

Placed(fl, lane, touched) ==
    [fl EXCEPT !.buckets = lane, !.dirty = @ \cup touched, !.items = @ + 1]

\* Mutant: the buckets the eviction went through are not marked dirty.
InsertMarksLast(fl, h) ==
    LET fp == Probe[h].fp
        a  == Probe[h].bucket
        b  == Alt[a][fp]
    IN  IF HasRoom(fl.buckets, a) THEN { Placed(fl, Put(fl.buckets, a, fp), {a}) }
        ELSE IF HasRoom(fl.buckets, b) THEN { Placed(fl, Put(fl.buckets, b, fp), {b}) }
        ELSE { IF w.placed THEN Placed(fl, w.lane, {w.at}) ELSE fl
               : w \in Walks(fl.buckets, {a, b}, fp) }

\* insert_fingerprint(): the primary bucket, the alternate one, then evictions;
\* when those run out they are rolled back and the producer is as before.
InsertFingerprint(fl, h) ==
    LET fp == Probe[h].fp
        a  == Probe[h].bucket
        b  == Alt[a][fp]
    IN  IF HasRoom(fl.buckets, a) THEN { Placed(fl, Put(fl.buckets, a, fp), {a}) }
        ELSE IF HasRoom(fl.buckets, b) THEN { Placed(fl, Put(fl.buckets, b, fp), {b}) }
        ELSE { IF w.placed THEN Placed(fl, w.lane, w.touched) ELSE fl
               : w \in Walks(fl.buckets, {a, b}, fp) }

TakenFrom(fl, i, fp) ==
    [fl EXCEPT !.buckets = Take(fl.buckets, i, fp), !.dirty = @ \cup {i},
              !.items = IF @ = 0 THEN 0 ELSE @ - 1]

\* delete_fingerprint(): one copy, from the primary bucket if it is there.
DeleteFingerprint(fl, h) ==
    LET fp == Probe[h].fp
        a  == Probe[h].bucket
        b  == Alt[a][fp]
    IN  IF Holds(fl.buckets, a, fp) THEN TakenFrom(fl, a, fp)
        ELSE IF Holds(fl.buckets, b, fp) THEN TakenFrom(fl, b, fp)
        ELSE fl

-----------------------------------------------------------------------------
(* Ownership.  A hash without an entry in hash_refcount has refcount 0.     *)

EmptyFilter == [buckets |-> EmptyLane, items |-> 0, dirty |-> {}]

EmptyProducer ==
    [ filter   |-> EmptyFilter,
      refcount |-> [h \in Hashes |-> 0],
      owners   |-> [h \in Hashes |-> {}],
      held     |-> [b \in Backends |-> {}] ]   \* worker_hashes

\* Worker b becomes an owner of h.
Own(p, h, b) ==
    [ filter   |-> p.filter,
      refcount |-> [p.refcount EXCEPT ![h] = @ + 1],
      owners   |-> [p.owners EXCEPT ![h] = @ \cup {b}],
      held     |-> [p.held EXCEPT ![b] = @ \cup {h}] ]

\* apply_stored(): only the first owner inserts the fingerprint.
AfterStored(p, h, b) ==
    IF b \in p.owners[h] THEN { p }
    ELSE IF p.owners[h] = {}
    THEN { [Own(p, h, b) EXCEPT !.filter = fl] : fl \in InsertFingerprint(p.filter, h) }
    ELSE { Own(p, h, b) }

SaturatingDec(n) == IF n = 0 THEN 0 ELSE n - 1

\* Worker b gives up the hashes hs.
Disown(p, hs, b) ==
    [ filter   |-> p.filter,
      refcount |-> [h \in Hashes |-> IF h \in hs THEN SaturatingDec(p.refcount[h])
                                                 ELSE p.refcount[h]],
      owners   |-> [h \in Hashes |-> IF h \in hs THEN p.owners[h] \ {b} ELSE p.owners[h]],
      held     |-> [p.held EXCEPT ![b] = @ \ hs] ]

\* Mutant: any owner's removal deletes the fingerprint.
ReleasedEagerly(p, hs, b) ==
    [Disown(p, hs, b) EXCEPT
        !.filter = FoldSet(LAMBDA h, fl : DeleteFingerprint(fl, h), @, hs)]

\* ... and the fingerprints of those it was the last owner of are deleted.
Released(p, hs, b) ==
    LET q == Disown(p, hs, b)
    IN  [q EXCEPT !.filter = FoldSet(LAMBDA h, fl : DeleteFingerprint(fl, h), @,
                                     { h \in hs : q.refcount[h] = 0 })]

\* apply_removed()
AfterRemoved(p, h, b) == IF b \in p.owners[h] THEN Released(p, {h}, b) ELSE p

\* apply_clear(): every hash the worker holds.  Deletions of different hashes
\* commute, so the iteration order of the set does not matter.
AfterClear(p, b) == Released(p, p.held[b], b)

\* Mutant: a reset leaves the per-worker sets behind.
AfterResetKeepsWorkers(p) == [EmptyProducer EXCEPT !.held = p.held]

\* reset_internal(): everything but the publication sequence, dirty set included.
AfterReset(p) == EmptyProducer

\* snapshot() and delta(): what was dirty is published.
AfterPublish(p) ==
    [ filter   |-> [buckets |-> p.filter.buckets, items |-> p.filter.items, dirty |-> {}],
      refcount |-> p.refcount,
      owners   |-> p.owners,
      held     |-> p.held ]

=============================================================================
