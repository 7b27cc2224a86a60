----------------------------- MODULE LocalIndex -----------------------------
(* The local KV index of one gateway (metadata/kv_index.rs, local_ckf.rs,    *)
(* radix_tree.rs): the radix tree says exactly which prefixes each backend   *)
(* holds, and one cuckoo-filter lane per backend answers queries without     *)
(* asking the tree's worker thread.  kv_apply_event takes the backend's      *)
(* lane, awaits the tree, and then writes the lane it took before;           *)
(* kv_remove_backend gives the lane up one map at a time.  Each backend's    *)
(* events come from one ingestion task, so one event and one removal per     *)
(* backend may be under way.  The status check and the compare-and-swap of   *)
(* one fingerprint are one step, and a bucket sweep is one step.             *)
(*                                                                           *)
(* The tree is the set of paths each backend owns; a node without an owned   *)
(* descendant is reclaimed, so nothing else of it can be observed.  `gaps`   *)
(* is history: the backends whose lane lost track of the tree, and why is    *)
(* written where they are added.                                             *)
EXTENDS CuckooFilter, Sequences, SequencesExt

CONSTANTS
    LaneIds,    \* 1 .. LOCAL_LANE_COUNT
    Chains,     \* the block sequences a Stored event or a query carries
    Removals    \* the block sequences a Removed event carries

ASSUME LocalIndexAssumption ==
    /\ LaneIds \subseteq Nat \ {0} /\ IsFiniteSet(LaneIds)
    /\ Chains \subseteq Seq(Hashes) /\ Removals \subseteq Seq(Hashes)

VARIABLES
    laneOf,     \* backend_lanes: backend -> lane
    backendOf,  \* lane_backends: lane -> backend
    active,     \* the lanes whose status is LANE_ACTIVE
    buckets,    \* lane -> its buckets
    owns,       \* backend -> the tree paths it owns
    worker,     \* is the tree's worker thread running?
    ev,         \* backend -> its event under way
    rm,         \* backend -> its removal under way
    gaps        \* history: backends whose lane lost track of the tree

indexVars == <<laneOf, backendOf, active, buckets, owns, worker, ev, rm, gaps>>

NoLane == 0
NoEvent == [pc |-> "idle", kind |-> "Clear", rest |-> <<>>, lane |-> NoLane]
NoRemoval == [pc |-> "idle", lane |-> NoLane]

IndexInit ==
    /\ laneOf = <<>> /\ backendOf = <<>> /\ active = {}
    /\ buckets = [l \in LaneIds |-> EmptyLane]
    /\ owns = [b \in Backends |-> {}]
    /\ worker = TRUE
    /\ ev = [b \in Backends |-> NoEvent]
    /\ rm = [b \in Backends |-> NoRemoval]
    /\ gaps = {}

Bind(f, k, v) == [x \in DOMAIN f \cup {k} |-> IF x = k THEN v ELSE f[x]]
Unbind(f, k) == [x \in DOMAIN f \ {k} |-> f[x]]

LaneOf(b) == IF b \in DOMAIN laneOf THEN laneOf[b] ELSE NoLane

\* The backend a lane is bound to, as a set.
Tenant(l) == IF l \in DOMAIN backendOf THEN {backendOf[l]} ELSE {}

-----------------------------------------------------------------------------
(* Lanes.                                                                    *)

FreeLanes == LaneIds \ DOMAIN backendOf

\* Mutant: the buckets of a lane already assigned are cleared again.
AssignLaneAgain(b, l) ==
    /\ l = IF LaneOf(b) # NoLane THEN LaneOf(b)
           ELSE IF FreeLanes = {} THEN NoLane ELSE Min(FreeLanes)
    /\ IF l = NoLane THEN UNCHANGED <<laneOf, backendOf, active, buckets>>
       ELSE /\ laneOf' = Bind(laneOf, b, l) /\ backendOf' = Bind(backendOf, l, b)
            /\ active' = active \cup {l} /\ buckets' = [buckets EXCEPT ![l] = EmptyLane]

\* assign_lane(): the backend's lane, else the first free one, cleared and
\* bound, else none.
AssignLane(b, l) ==
    \/ /\ LaneOf(b) # NoLane /\ l = LaneOf(b)
       /\ UNCHANGED <<laneOf, backendOf, active, buckets>>
    \/ /\ LaneOf(b) = NoLane /\ FreeLanes = {} /\ l = NoLane
       /\ UNCHANGED <<laneOf, backendOf, active, buckets>>
    \/ /\ LaneOf(b) = NoLane /\ FreeLanes # {} /\ l = Min(FreeLanes)
       /\ laneOf' = Bind(laneOf, b, l) /\ backendOf' = Bind(backendOf, l, b)
       /\ active' = active \cup {l} /\ buckets' = [buckets EXCEPT ![l] = EmptyLane]

\* insert(): the primary bucket, then the alternate one; no eviction.
LaneInsert(lane, h) ==
    LET fp == Probe[h].fp
        a  == Probe[h].bucket
    IN  IF HasRoom(lane, a) THEN Put(lane, a, fp)
        ELSE IF HasRoom(lane, Alt[a][fp]) THEN Put(lane, Alt[a][fp], fp)
        ELSE lane

\* delete()
LaneDelete(lane, h) ==
    LET fp == Probe[h].fp
        a  == Probe[h].bucket
    IN  IF Holds(lane, a, fp) THEN Take(lane, a, fp)
        ELSE IF Holds(lane, Alt[a][fp], fp) THEN Take(lane, Alt[a][fp], fp)
        ELSE lane

\* estimate_overlap() of an active lane ends at a hash that is not in its
\* primary bucket.
LaneMisses(l, h) == ~ Holds(buckets[l], Probe[h].bucket, Probe[h].fp)

-----------------------------------------------------------------------------
(* The tree.                                                                 *)

\* apply_stored(): every node on the path from the root.
TreeStored(paths, hs) == paths \cup { SubSeq(hs, 1, n) : n \in 1 .. Len(hs) }

\* apply_removed(): every node that carries one of the hashes, anywhere.
TreeRemoved(paths, hs) == { p \in paths : Last(p) \notin Range(hs) }

\* clear_backend_recursive(): nothing of the backend is left.
TreeCleared == {}

\* find_matches()
FindMatches(hs, b) ==
    Cardinality({ n \in 1 .. Len(hs) : \A m \in 1 .. n : SubSeq(hs, 1, m) \in owns[b] })

-----------------------------------------------------------------------------
(* kv_apply_event().                                                         *)

StartEvent(b, kind, hs) ==
    /\ ev[b].pc = "idle"
    /\ \E l \in LaneIds \cup {NoLane} :
        /\ AssignLane(b, l)
        /\ ev' = [ev EXCEPT ![b] = [pc |-> "tree", kind |-> kind, rest |-> hs, lane |-> l]]
    /\ UNCHANGED <<owns, worker, rm, gaps>>

\* The worker applies the event.  A lane missed the event when the backend had
\* none, when it is no longer the backend's, or when the event removes a block
\* the tree does not know, or one twice (its fingerprint may be another block's).
TreeApply(b) ==
    LET e == ev[b] IN
    /\ e.pc = "tree" /\ worker
    /\ owns' = [owns EXCEPT ![b] = CASE e.kind = "Stored"  -> TreeStored(@, e.rest)
                                     [] e.kind = "Removed" -> TreeRemoved(@, e.rest)
                                     [] e.kind = "Clear"   -> TreeCleared]
    /\ ev' = [ev EXCEPT ![b] = IF e.lane = NoLane \/ (e.kind # "Clear" /\ e.rest = <<>>)
                               THEN NoEvent
                               ELSE [e EXCEPT !.pc = IF e.kind = "Clear" THEN "retire"
                                                                         ELSE "project"]]
    /\ gaps' = IF \/ e.lane # LaneOf(b)
                  \/ e.lane = NoLane
                  \/ /\ e.kind = "Removed"
                     /\ ~ (IsInjective(e.rest) /\ Range(e.rest) \subseteq { Last(p) : p \in owns[b] })
               THEN gaps \cup {b} ELSE gaps
    /\ UNCHANGED <<laneOf, backendOf, active, buckets, worker, rm>>

\* The worker is gone: the call fails, and nothing is projected.
TreeGone(b) ==
    /\ ev[b].pc = "tree" /\ ~ worker
    /\ ev' = [ev EXCEPT ![b] = NoEvent]
    /\ UNCHANGED <<laneOf, backendOf, active, buckets, owns, worker, rm, gaps>>

\* The next fingerprint of the event, into the lane taken at its start.  The
\* lane loses track if the insertion finds no room, or if the lane has passed
\* to another backend, which then loses track as well.
Project(b) ==
    LET e    == ev[b]
        h    == Head(e.rest)
        lane == buckets[e.lane]
        next == IF e.kind = "Stored" THEN LaneInsert(lane, h) ELSE LaneDelete(lane, h)
    IN
    /\ e.pc = "project"
    /\ buckets' = IF e.lane \in active THEN [buckets EXCEPT ![e.lane] = next] ELSE buckets
    /\ ev' = [ev EXCEPT ![b] = IF Len(e.rest) = 1 THEN NoEvent ELSE [e EXCEPT !.rest = Tail(@)]]
    /\ gaps' = gaps \cup (IF LaneOf(b) # e.lane THEN {b} \cup Tenant(e.lane)
                          ELSE IF e.kind = "Stored" /\ buckets' = buckets THEN {b} ELSE {})
    /\ UNCHANGED <<laneOf, backendOf, active, owns, worker, rm>>

\* clear_lane(): retire and sweep, then activate.
ClearLane(b) ==
    LET l == ev[b].lane IN
    /\ ev[b].pc = "retire"
    /\ active' = active \ {l}
    /\ buckets' = [buckets EXCEPT ![l] = EmptyLane]
    /\ ev' = [ev EXCEPT ![b].pc = "activate"]
    /\ gaps' = gaps \cup (IF LaneOf(b) # l THEN Tenant(l) ELSE {})
    /\ UNCHANGED <<laneOf, backendOf, owns, worker, rm>>

ClearLaneEnds(b) ==
    /\ ev[b].pc = "activate"
    /\ active' = active \cup {ev[b].lane}
    /\ ev' = [ev EXCEPT ![b] = NoEvent]
    /\ UNCHANGED <<laneOf, backendOf, buckets, owns, worker, rm, gaps>>

-----------------------------------------------------------------------------
(* kv_remove_backend(), of the index and of the store.  The store's clones   *)
(* the tree's handle, and dropping the clone sends Shutdown to the worker.   *)

\* unassign_lane(): the backend's entry, then the lane, then the lane's entry.
StartRemoval(b) ==
    /\ rm[b].pc = "idle"
    /\ laneOf' = Unbind(laneOf, b)
    /\ rm' = [rm EXCEPT ![b] = [pc |-> IF LaneOf(b) = NoLane THEN "tree" ELSE "retire",
                                lane |-> LaneOf(b)]]
    /\ UNCHANGED <<backendOf, active, buckets, owns, worker, ev, gaps>>

\* Mutant: the lane is given back before it is retired.
RetireRemovedLate(b) ==
    LET l == rm[b].lane IN
    /\ \/ /\ rm[b].pc = "retire"
          /\ backendOf' = Unbind(backendOf, l)
          /\ rm' = [rm EXCEPT ![b].pc = "unbind"]
          /\ UNCHANGED <<active, buckets>>
       \/ /\ rm[b].pc = "unbind"
          /\ active' = active \ {l}
          /\ buckets' = [buckets EXCEPT ![l] = EmptyLane]
          /\ rm' = [rm EXCEPT ![b].pc = "tree"]
          /\ UNCHANGED backendOf
    /\ UNCHANGED <<laneOf, owns, worker, ev, gaps>>

Unassign(b) ==
    LET l == rm[b].lane IN
    /\ \/ /\ rm[b].pc = "retire"
          /\ active' = active \ {l}
          /\ buckets' = [buckets EXCEPT ![l] = EmptyLane]
          /\ rm' = [rm EXCEPT ![b].pc = "unbind"]
          /\ UNCHANGED backendOf
       \/ /\ rm[b].pc = "unbind"
          /\ backendOf' = Unbind(backendOf, l)
          /\ rm' = [rm EXCEPT ![b].pc = "tree"]
          /\ UNCHANGED <<active, buckets>>
    /\ UNCHANGED <<laneOf, owns, worker, ev, gaps>>

\* remove_backend(), through the index's handle or the store's; a worker that is
\* gone is not an error.
RemoveFromTree(b, handle) ==
    /\ rm[b].pc = "tree"
    /\ owns' = [owns EXCEPT ![b] = TreeCleared]
    /\ rm' = [rm EXCEPT ![b] = IF handle = "index" THEN NoRemoval ELSE [@ EXCEPT !.pc = "drop"]]
    /\ UNCHANGED <<laneOf, backendOf, active, buckets, worker, ev, gaps>>

\* The clone is dropped: the worker stops, and the tree goes with it.
DropHandle(b) ==
    /\ rm[b].pc = "drop"
    /\ worker' = FALSE
    /\ owns' = [c \in Backends |-> {}]
    /\ rm' = [rm EXCEPT ![b] = NoRemoval]
    /\ UNCHANGED <<laneOf, backendOf, active, buckets, ev, gaps>>

-----------------------------------------------------------------------------

IndexNext ==
    \E b \in Backends :
        \/ \E hs \in Chains : StartEvent(b, "Stored", hs)
        \/ \E hs \in Removals : StartEvent(b, "Removed", hs)
        \/ StartEvent(b, "Clear", <<>>)
        \/ TreeApply(b)
        \/ TreeGone(b)
        \/ Project(b)
        \/ ClearLane(b)
        \/ ClearLaneEnds(b)
        \/ StartRemoval(b)
        \/ Unassign(b)
        \/ \E handle \in {"index", "store"} : RemoveFromTree(b, handle)
        \/ DropHandle(b)

IndexSpec == IndexInit /\ [][IndexNext]_indexVars

-----------------------------------------------------------------------------
(* Properties.                                                               *)

\* The two lane maps of local_ckf.rs agree although unassign_lane writes them
\* under separate locks: a backend's lane is bound to that backend, so no lane
\* serves two, and it is active unless a clear_lane is halfway through it.
LanesAgree ==
    \A b \in DOMAIN laneOf :
        /\ Tenant(laneOf[b]) = {b}
        /\ laneOf[b] \in active
           \/ \E c \in Backends : ev[c].pc = "activate" /\ ev[c].lane = laneOf[b]

\* A lane loses no fingerprint: a block that the tree matches for a backend at
\* rest and a query of its lane misses, which probes the primary bucket alone,
\* has been displaced to its alternate bucket, unless the lane lost track of the
\* tree as recorded in gaps (local_ckf.rs insert, delete and clear_lane).  It does
\* not say that the query is exact, as kv_index.rs:60 has it: it is not.
MissesAreDisplaced ==
    \A b \in DOMAIN laneOf \ gaps :
        ev[b].pc = "idle" /\ rm[b].pc = "idle" =>
            \A hs \in Chains : \A n \in 1 .. FindMatches(hs, b) :
                LaneMisses(laneOf[b], hs[n]) =>
                    LET fp == Probe[hs[n]].fp
                    IN  Holds(buckets[laneOf[b]], Alt[Probe[hs[n]].bucket][fp], fp)

=============================================================================
