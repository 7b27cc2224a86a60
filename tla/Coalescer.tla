------------------------------ MODULE Coalescer ------------------------------
(***************************************************************************)
(* Request coalescing for non-streaming chat completions                   *)
(* (hier-kv-gateway-api/src/coalescer.rs, RequestCoalescer, called from    *)
(* handlers.rs, coalesced_chat_completions).                               *)
(*                                                                         *)
(* Each DashMap operation is one step.  A flight, the Shared future of one *)
(* run of the producer, is named after the request that created it.  It    *)
(* makes progress only while some live request polls a clone of it: the    *)
(* clone kept in the map is never polled.  A client that disconnects makes *)
(* the server drop its handler, and with it that handler's clone and the   *)
(* clean-up it would have scheduled.                                       *)
(***************************************************************************)
EXTENDS Naturals, FiniteSets

CONSTANTS
    Requests,      \* non-streaming requests
    Keys,          \* values of request_key
    KeyOf,         \* request -> key
    MaxInflight,   \* coalescing.max_inflight, 0 for unbounded
    TtlMs,         \* coalescing.ttl_ms
    None           \* no flight

ASSUME CoalescerConfig ==
    /\ KeyOf \in [Requests -> Keys]
    /\ MaxInflight \in Nat
    /\ TtlMs \in Nat
    /\ None \notin Requests

VARIABLES
    pc,         \* request -> where its handler is
    inflight,   \* the DashMap: key -> the flight stored under it, or None
    shared,     \* request -> the flight its handler awaits
    flight,     \* flight -> "none", "pending", or its result
    removals,   \* the flights whose leader spawned a delayed removal
    reply,      \* request -> the result its client is sent
    stats       \* CoalesceStats

vars == <<pc, inflight, shared, flight, removals, reply, stats>>

Landed == {"ok", "err"}

\* The places where a handler awaits a flight.
Awaiting == {"leading", "waiting", "bypassing"}

Entries == { k \in Keys : inflight[k] # None }

AtCapacity == MaxInflight > 0 /\ Cardinality(Entries) >= MaxInflight

Count(field) == stats' = [stats EXCEPT ![field] = @ + 1]

Init ==
    /\ pc = [r \in Requests |-> "idle"]
    /\ inflight = [k \in Keys |-> None]
    /\ shared = [r \in Requests |-> None]
    /\ flight = [r \in Requests |-> "none"]
    /\ removals = {}
    /\ reply = [r \in Requests |-> "none"]
    /\ stats = [leaders |-> 0, waiters |-> 0, bypassed |-> 0, forwards_saved |-> 0]

-----------------------------------------------------------------------------
(* coalesce(key, produce)                                                   *)

\* The map is full: forward directly, with no sharing.
Bypass(r) ==
    /\ pc[r] = "idle"
    /\ AtCapacity
    /\ pc' = [pc EXCEPT ![r] = "bypassing"]
    /\ shared' = [shared EXCEPT ![r] = r]
    /\ flight' = [flight EXCEPT ![r] = "pending"]
    /\ Count("bypassed")
    /\ UNCHANGED <<inflight, removals, reply>>

\* There is room; the entry is looked up by a later map operation.
PassCapacityCheck(r) ==
    /\ pc[r] = "idle"
    /\ ~AtCapacity
    /\ pc' = [pc EXCEPT ![r] = "checked"]
    /\ UNCHANGED <<inflight, shared, flight, removals, reply, stats>>

\* Mutant: an attached request is counted as a waiter but not as a saved forward.
AttachUncounted(r) ==
    /\ pc[r] = "checked"
    /\ inflight[KeyOf[r]] # None
    /\ pc' = [pc EXCEPT ![r] = "waiting"]
    /\ shared' = [shared EXCEPT ![r] = inflight[KeyOf[r]]]
    /\ Count("waiters")
    /\ UNCHANGED <<inflight, flight, removals, reply>>

\* entry(key) is occupied: attach to its flight.
Attach(r) ==
    /\ pc[r] = "checked"
    /\ inflight[KeyOf[r]] # None
    /\ pc' = [pc EXCEPT ![r] = "waiting"]
    /\ shared' = [shared EXCEPT ![r] = inflight[KeyOf[r]]]
    /\ stats' = [stats EXCEPT !.waiters = @ + 1, !.forwards_saved = @ + 1]
    /\ UNCHANGED <<inflight, flight, removals, reply>>

\* Mutant: the flight is inserted without looking whether the entry is vacant.
LeadOverwrites(r) ==
    /\ pc[r] = "checked"
    /\ pc' = [pc EXCEPT ![r] = "leading"]
    /\ inflight' = [inflight EXCEPT ![KeyOf[r]] = r]
    /\ shared' = [shared EXCEPT ![r] = r]
    /\ flight' = [flight EXCEPT ![r] = "pending"]
    /\ Count("leaders")
    /\ UNCHANGED <<removals, reply>>

\* entry(key) is vacant: insert a new flight and lead it.
Lead(r) ==
    /\ pc[r] = "checked"
    /\ inflight[KeyOf[r]] = None
    /\ pc' = [pc EXCEPT ![r] = "leading"]
    /\ inflight' = [inflight EXCEPT ![KeyOf[r]] = r]
    /\ shared' = [shared EXCEPT ![r] = r]
    /\ flight' = [flight EXCEPT ![r] = "pending"]
    /\ Count("leaders")
    /\ UNCHANGED <<removals, reply>>

\* Mutant: only the leader's own handler drives the flight.
DrivenByLeader(f) == pc[f] \in Awaiting

\* Some live handler polls a clone of f.
Driven(f) == \E r \in Requests : pc[r] \in Awaiting /\ shared[r] = f

\* The producer of f (route, forward, aggregate) runs to its result.
FlightLands(f) ==
    /\ flight[f] = "pending"
    /\ Driven(f)
    /\ \E res \in Landed : flight' = [flight EXCEPT ![f] = res]
    /\ UNCHANGED <<pc, inflight, shared, removals, reply, stats>>

\* Mutant: whoever awaited the flight cleans up, not only its leader.
CleansUpAnyone(r) == TRUE

\* `if is_leader`: only the request that inserted the flight cleans up.
CleansUp(r) == pc[r] = "leading"

\* schedule_cleanup(): remove the entry now, or spawn the delayed removal.
ScheduleCleanup(r) ==
    IF TtlMs = 0
    THEN inflight' = [inflight EXCEPT ![KeyOf[r]] = None] /\ UNCHANGED removals
    ELSE removals' = removals \cup {r} /\ UNCHANGED inflight

\* Mutant: the flight is peeked at instead of awaited.
ResumePeeks(r) ==
    /\ pc[r] \in Awaiting
    /\ pc' = [pc EXCEPT ![r] = "done"]
    /\ reply' = [reply EXCEPT ![r] = flight[shared[r]]]
    /\ IF CleansUp(r) THEN ScheduleCleanup(r) ELSE UNCHANGED <<inflight, removals>>
    /\ UNCHANGED <<shared, flight, stats>>

\* shared.await returns; a leader then schedules the clean-up.
Resume(r) ==
    /\ pc[r] \in Awaiting
    /\ flight[shared[r]] \in Landed
    /\ pc' = [pc EXCEPT ![r] = "done"]
    /\ reply' = [reply EXCEPT ![r] = flight[shared[r]]]
    /\ IF CleansUp(r) THEN ScheduleCleanup(r) ELSE UNCHANGED <<inflight, removals>>
    /\ UNCHANGED <<shared, flight, stats>>

\* The spawned task wakes after ttl_ms and removes whatever the key holds.
DelayedRemoval(f) ==
    /\ f \in removals
    /\ removals' = removals \ {f}
    /\ inflight' = [inflight EXCEPT ![KeyOf[f]] = None]
    /\ UNCHANGED <<pc, shared, flight, reply, stats>>

-----------------------------------------------------------------------------

\* The client goes away while its handler awaits; the handler is dropped.
Disconnect(r) ==
    /\ pc[r] \in Awaiting
    /\ pc' = [pc EXCEPT ![r] = "dropped"]
    /\ UNCHANGED <<inflight, shared, flight, removals, reply, stats>>

\* What the runtime does for the requests it has received.
Work(r) == Attach(r) \/ Lead(r) \/ FlightLands(r) \/ Resume(r) \/ DelayedRemoval(r)

Next ==
    \E r \in Requests :
        Bypass(r) \/ PassCapacityCheck(r) \/ Work(r) \/ Disconnect(r)

Spec == Init /\ [][Next]_vars

\* Live handlers are polled, a producer ends (every connector call has a
\* timeout), and a spawned removal wakes up.
Fairness ==
    \A r \in Requests :
        /\ WF_vars(Attach(r) \/ Lead(r))
        /\ WF_vars(FlightLands(r))
        /\ WF_vars(Resume(r))
        /\ WF_vars(DelayedRemoval(r))

FairSpec == Spec /\ Fairness

-----------------------------------------------------------------------------
(* Properties.                                                              *)

\* Type invariant.
TypeOK ==
    /\ pc \in [Requests -> Awaiting \cup {"idle", "checked", "done", "dropped"}]
    /\ inflight \in [Keys -> Requests \cup {None}]
    /\ shared \in [Requests -> Requests \cup {None}]
    /\ flight \in [Requests -> Landed \cup {"none", "pending"}]
    /\ removals \subseteq Requests
    /\ reply \in [Requests -> Landed \cup {"none"}]
    /\ stats \in [{"leaders", "waiters", "bypassed", "forwards_saved"} -> Nat]

\* The flight a request waits for, alone or shared, is of its own key and
\* running or landed; and an entry of the map is a flight of that key that a
\* leader put there, never the private flight of a request that bypassed.
FlightsBelongToKeys ==
    /\ \A r \in Requests :
        /\ pc[r] \in {"idle", "checked"} <=> shared[r] = None
        /\ pc[r] \in {"leading", "bypassing"} => shared[r] = r
        /\ shared[r] # None =>
               /\ KeyOf[shared[r]] = KeyOf[r]
               /\ flight[shared[r]] # "none"
               /\ shared[shared[r]] = shared[r]
    /\ \A k \in Keys : inflight[k] # None =>
        /\ KeyOf[inflight[k]] = k
        /\ shared[inflight[k]] = inflight[k]
        /\ pc[inflight[k]] \in {"leading", "done", "dropped"}

\* Nobody but the leader and its removal takes an entry out: a live leader's
\* flight is the one its key holds, and so is the flight a spawned removal is
\* about to remove, which has landed.  The removal removes by key alone, so
\* otherwise it would drop another leader's flight.
RemovalsAreOwn ==
    /\ \A r \in Requests : pc[r] = "leading" => inflight[KeyOf[r]] = r
    /\ \A f \in removals : inflight[KeyOf[f]] = f /\ pc[f] = "done" /\ flight[f] \in Landed

\* Live requests of one key that were not turned away at capacity all wait for
\* the same unfinished flight, the one in the map: the downstream forward runs
\* once, also after the leader's handler was dropped.
SingleFlightPerKey ==
    \A r \in Requests :
        pc[r] \in {"leading", "waiting"} /\ flight[shared[r]] = "pending"
            => inflight[KeyOf[r]] = shared[r]

\* Requests past the capacity check, and the forwards run for them.
Entered == { r \in Requests : shared[r] # None }
Forwards == { r \in Requests : flight[r] # "none" }

\* The counters tell what sharing saved: every entered request is a leader, a
\* waiter or a bypass, and forwards_saved is exactly the number of requests
\* that did not cause a forward of their own.
SavedForwardsAreReal ==
    /\ stats.leaders + stats.waiters + stats.bypassed = Cardinality(Entered)
    /\ stats.forwards_saved = Cardinality(Entered) - Cardinality(Forwards)

\* A request that awaits a flight is answered unless its client leaves, even
\* when the leader of that flight was dropped in the middle of it.
AwaitersAnswered ==
    \A r \in Requests : pc[r] \in Awaiting ~> pc[r] \in {"done", "dropped"}

\* Coalescing implements the single-flight contract.
Contract == INSTANCE SingleFlight
    WITH Callers <- Requests,
         current <- inflight,
         ticket  <- shared,
         outcome <- [r \in Requests |-> IF flight[r] \in Landed THEN flight[r] ELSE "none"],
         answer  <- reply

\* Every step of the coalescer is a step of the contract: a key's flight is
\* replaced only after it landed, and answers are results of the flight held.
ImplementsSingleFlight == Contract!SFSpec

-----------------------------------------------------------------------------
(* What the comments of the code say, and the code does not do.             *)

\* coalescer.rs:237: after the ttl "a later request starts a fresh forward so
\* the response reflects current backend state": a landed flight leaves the map.
LandedFlightsLeave ==
    \A f \in Requests :
        (flight[f] \in Landed /\ inflight[KeyOf[f]] = f) ~> (inflight[KeyOf[f]] # f)

=============================================================================
