-------------------------- MODULE Coalescer_proofs --------------------------
(***************************************************************************)
(* Request coalescing is single-flight, for any number of requests and     *)
(* keys and any max_inflight and ttl_ms, and implements SingleFlight.      *)
(***************************************************************************)
EXTENDS Coalescer, FiniteSetTheorems, TLAPS

\* A flight exists exactly for the requests that fly their own, and a request
\* that still awaits has not been answered.
FlightsAreOwn ==
    \A r \in Requests :
        /\ flight[r] # "none" => shared[r] = r
        /\ pc[r] \in Awaiting => reply[r] = "none"
        /\ shared[r] = None => reply[r] = "none"

CoalescerInv ==
    /\ TypeOK
    /\ FlightsBelongToKeys
    /\ RemovalsAreOwn
    /\ SingleFlightPerKey
    /\ FlightsAreOwn


LEMMA CoalescerInvInit == Init => CoalescerInv
BY CoalescerConfig DEF Init, CoalescerInv, TypeOK, FlightsBelongToKeys, RemovalsAreOwn,
   SingleFlightPerKey, FlightsAreOwn, Awaiting, Landed

LEMMA CoalescerInvStep == CoalescerInv /\ [Next]_vars => CoalescerInv'
<1> SUFFICES ASSUME CoalescerInv, [Next]_vars PROVE CoalescerInv'
  OBVIOUS
<1> USE CoalescerConfig DEF CoalescerInv, TypeOK, Awaiting, Landed
<1>1. ASSUME NEW r \in Requests, Bypass(r) PROVE CoalescerInv'
  <2>1. TypeOK'
    BY <1>1 DEF Bypass, Count
  <2>2. FlightsBelongToKeys'
    BY <1>1 DEF Bypass, FlightsBelongToKeys
  <2>3. RemovalsAreOwn'
    BY <1>1 DEF Bypass, RemovalsAreOwn
  <2>4. SingleFlightPerKey'
    BY <1>1 DEF Bypass, SingleFlightPerKey, FlightsBelongToKeys
  <2>5. FlightsAreOwn'
    BY <1>1 DEF Bypass, FlightsAreOwn, FlightsBelongToKeys
  <2> QED BY <2>1, <2>2, <2>3, <2>4, <2>5
<1>2. ASSUME NEW r \in Requests, PassCapacityCheck(r) PROVE CoalescerInv'
  BY <1>2 DEF PassCapacityCheck, FlightsBelongToKeys, RemovalsAreOwn, SingleFlightPerKey,
              FlightsAreOwn
<1>3. ASSUME NEW r \in Requests, Attach(r) PROVE CoalescerInv'
  <2>1. TypeOK'
    <3>1. stats' \in [{"leaders", "waiters", "bypassed", "forwards_saved"} -> Nat]
      <4>1. stats' = [stats EXCEPT !["waiters"] = stats["waiters"] + 1,
                                   !["forwards_saved"] = stats["forwards_saved"] + 1]
        BY <1>3 DEF Attach
      <4> QED BY <4>1
    <3> QED BY <1>3, <3>1 DEF Attach
  <2>2. FlightsBelongToKeys'
    <3> DEFINE f == inflight[KeyOf[r]]
    <3>1. /\ f \in Requests /\ f # r /\ shared[r] = None
          /\ shared[f] = f /\ KeyOf[f] = KeyOf[r] /\ flight[f] # "none"
      BY <1>3 DEF Attach, FlightsBelongToKeys
    <3>2. /\ shared' = [shared EXCEPT ![r] = f]
          /\ pc' = [pc EXCEPT ![r] = "waiting"]
          /\ flight' = flight /\ inflight' = inflight
      BY <1>3 DEF Attach
    <3> QED BY <3>1, <3>2 DEF FlightsBelongToKeys
  <2>3. RemovalsAreOwn'
    BY <1>3 DEF Attach, RemovalsAreOwn
  <2>4. SingleFlightPerKey'
    BY <1>3 DEF Attach, SingleFlightPerKey, FlightsBelongToKeys
  <2>5. FlightsAreOwn'
    BY <1>3 DEF Attach, FlightsAreOwn, FlightsBelongToKeys
  <2> QED BY <2>1, <2>2, <2>3, <2>4, <2>5
<1>4. ASSUME NEW r \in Requests, Lead(r) PROVE CoalescerInv'
  <2>1. TypeOK'
    BY <1>4 DEF Lead, Count
  <2>2. FlightsBelongToKeys'
    BY <1>4 DEF Lead, FlightsBelongToKeys
  <2>3. RemovalsAreOwn'
    BY <1>4 DEF Lead, RemovalsAreOwn, FlightsBelongToKeys
  <2>4. SingleFlightPerKey'
    BY <1>4 DEF Lead, SingleFlightPerKey, FlightsBelongToKeys
  <2>5. FlightsAreOwn'
    BY <1>4 DEF Lead, FlightsAreOwn, FlightsBelongToKeys
  <2> QED BY <2>1, <2>2, <2>3, <2>4, <2>5
<1>5. ASSUME NEW f \in Requests, FlightLands(f) PROVE CoalescerInv'
  BY <1>5 DEF FlightLands, FlightsBelongToKeys, RemovalsAreOwn, SingleFlightPerKey,
              FlightsAreOwn
<1>6. ASSUME NEW r \in Requests, Resume(r) PROVE CoalescerInv'
  <2>1. TypeOK'
    BY <1>6 DEF Resume, ScheduleCleanup, CleansUp
  <2>2. FlightsBelongToKeys'
    BY <1>6 DEF Resume, ScheduleCleanup, CleansUp, FlightsBelongToKeys
  <2>3. RemovalsAreOwn'
    BY <1>6 DEF Resume, ScheduleCleanup, CleansUp, FlightsBelongToKeys, RemovalsAreOwn
  <2>4. SingleFlightPerKey'
    BY <1>6 DEF Resume, ScheduleCleanup, CleansUp, FlightsBelongToKeys, RemovalsAreOwn,
                SingleFlightPerKey
  <2>5. FlightsAreOwn'
    BY <1>6 DEF Resume, FlightsAreOwn, FlightsBelongToKeys
  <2> QED BY <2>1, <2>2, <2>3, <2>4, <2>5
<1>7. ASSUME NEW f \in Requests, DelayedRemoval(f) PROVE CoalescerInv'
  <2>1. TypeOK' /\ FlightsBelongToKeys' /\ FlightsAreOwn'
    BY <1>7 DEF DelayedRemoval, FlightsBelongToKeys, FlightsAreOwn
  <2>2. RemovalsAreOwn'
    BY <1>7 DEF DelayedRemoval, RemovalsAreOwn
  <2>3. SingleFlightPerKey'
    BY <1>7 DEF DelayedRemoval, RemovalsAreOwn, SingleFlightPerKey
  <2> QED BY <2>1, <2>2, <2>3
<1>8. ASSUME NEW r \in Requests, Disconnect(r) PROVE CoalescerInv'
  BY <1>8 DEF Disconnect, FlightsBelongToKeys, RemovalsAreOwn, SingleFlightPerKey,
              FlightsAreOwn
<1>9. CASE UNCHANGED vars
  BY <1>9 DEF vars, FlightsBelongToKeys, RemovalsAreOwn, SingleFlightPerKey, FlightsAreOwn
<1> QED BY <1>1, <1>2, <1>3, <1>4, <1>5, <1>6, <1>7, <1>8, <1>9 DEF Next, Work

LEMMA CoalescerInvariant == Spec => []CoalescerInv
BY CoalescerInvInit, CoalescerInvStep, PTL DEF Spec

\* Live requests of a key that share a flight share the one in the map until it
\* lands, so concurrent identical requests cause one forward, whatever clients
\* disconnect and whenever the delayed removals run.
THEOREM CoalescingIsSingleFlight ==
    Spec => [](TypeOK /\ FlightsBelongToKeys /\ RemovalsAreOwn /\ SingleFlightPerKey)
<1>1. CoalescerInv => TypeOK /\ FlightsBelongToKeys /\ RemovalsAreOwn /\ SingleFlightPerKey
  BY DEF CoalescerInv
<1> QED BY <1>1, CoalescerInvariant, PTL

\* Every handler, map entry, flight, reply and counter keeps its type.
THEOREM CoalescerTyped == Spec => []TypeOK
BY CoalescingIsSingleFlight, PTL

\* A removal, immediate or delayed, removes its own leader's landed flight.
THEOREM RemovalsStayOwn == Spec => []RemovalsAreOwn
BY CoalescingIsSingleFlight, PTL

-----------------------------------------------------------------------------
(* The counters.  Entered and Forwards grow one request at a time from the   *)
(* empty set, so they stay finite whatever the set of requests is.           *)

CountsInv ==
    /\ IsFiniteSet(Entered)
    /\ IsFiniteSet(Forwards)
    /\ SavedForwardsAreReal

LEMMA CountsInit == Init => CountsInv
<1> SUFFICES ASSUME Init PROVE CountsInv
  OBVIOUS
<1>1. Entered = {} /\ Forwards = {}
  BY DEF Init, Entered, Forwards
<1> QED BY <1>1, FS_EmptySet DEF Init, CountsInv, SavedForwardsAreReal

\* The cardinalities are the only numbers in the counters' equations.
LEMMA CountsAreNumbers ==
    ASSUME CountsInv PROVE Cardinality(Entered) \in Nat /\ Cardinality(Forwards) \in Nat
BY FS_CardinalityType DEF CountsInv

LEMMA CountsStep == CoalescerInv /\ CountsInv /\ [Next]_vars => CountsInv'
<1> SUFFICES ASSUME CoalescerInv, CountsInv, [Next]_vars PROVE CountsInv'
  OBVIOUS
<1> USE CoalescerConfig
<1>t. stats \in [{"leaders", "waiters", "bypassed", "forwards_saved"} -> Nat]
  BY DEF CoalescerInv, TypeOK
<1>n. Cardinality(Entered) \in Nat /\ Cardinality(Forwards) \in Nat
  BY CountsAreNumbers
<1>1. ASSUME NEW r \in Requests, NEW c \in {"bypassed", "leaders"},
             pc[r] \in {"idle", "checked"}, stats' = [stats EXCEPT ![c] = @ + 1],
             shared' = [shared EXCEPT ![r] = r], flight' = [flight EXCEPT ![r] = "pending"]
      PROVE  CountsInv'
  <2>1. r \notin Entered /\ r \notin Forwards
    BY <1>1 DEF CoalescerInv, FlightsBelongToKeys, FlightsAreOwn, Entered, Forwards
  <2>2. Entered' = Entered \cup {r}
    BY <1>1 DEF CoalescerInv, TypeOK, Entered
  <2>3. Forwards' = Forwards \cup {r}
    BY <1>1 DEF CoalescerInv, TypeOK, Forwards
  <2>4. /\ IsFiniteSet(Entered') /\ Cardinality(Entered') = Cardinality(Entered) + 1
        /\ IsFiniteSet(Forwards') /\ Cardinality(Forwards') = Cardinality(Forwards) + 1
    BY <2>1, <2>2, <2>3, FS_AddElement DEF CountsInv
  <2>5. SavedForwardsAreReal'
    BY <1>1, <1>t, <1>n, <2>4 DEF CountsInv, SavedForwardsAreReal
  <2> QED BY <2>4, <2>5 DEF CountsInv
<1>2. ASSUME NEW r \in Requests, Attach(r) PROVE CountsInv'
  <2>1. r \notin Entered /\ inflight[KeyOf[r]] # None
    BY <1>2 DEF Attach, CoalescerInv, FlightsBelongToKeys, Entered
  <2>2. Entered' = Entered \cup {r}
    BY <1>2 DEF Attach, CoalescerInv, TypeOK, Entered
  <2>3. Forwards' = Forwards
    BY <1>2 DEF Attach, Forwards
  <2>4. IsFiniteSet(Entered') /\ Cardinality(Entered') = Cardinality(Entered) + 1
    BY <2>1, <2>2, FS_AddElement DEF CountsInv
  <2>5. stats' = [stats EXCEPT !["waiters"] = stats["waiters"] + 1,
                               !["forwards_saved"] = stats["forwards_saved"] + 1]
    BY <1>2 DEF Attach
  <2>6. SavedForwardsAreReal'
    BY <1>t, <1>n, <2>3, <2>4, <2>5 DEF CountsInv, SavedForwardsAreReal
  <2> QED BY <2>3, <2>4, <2>6 DEF CountsInv
<1>3. ASSUME stats' = stats, Entered' = Entered, Forwards' = Forwards PROVE CountsInv'
  BY <1>3 DEF CountsInv, SavedForwardsAreReal
<1>4. ASSUME NEW r \in Requests, Bypass(r) PROVE CountsInv'
  BY <1>1, <1>4 DEF Bypass, Count
<1>5. ASSUME NEW r \in Requests, Lead(r) PROVE CountsInv'
  BY <1>1, <1>5 DEF Lead, Count
<1>6. ASSUME NEW f \in Requests, FlightLands(f) PROVE CountsInv'
  <2>1. Forwards' = Forwards
    BY <1>6 DEF FlightLands, Landed, CoalescerInv, TypeOK, Forwards
  <2> QED BY <1>3, <1>6, <2>1 DEF FlightLands, Entered
<1>7. ASSUME NEW r \in Requests,
             PassCapacityCheck(r) \/ Resume(r) \/ DelayedRemoval(r) \/ Disconnect(r)
      PROVE  CountsInv'
  BY <1>3, <1>7 DEF PassCapacityCheck, Resume, DelayedRemoval, Disconnect, Entered, Forwards
<1>8. CASE UNCHANGED vars
  BY <1>3, <1>8 DEF vars, Entered, Forwards
<1> QED BY <1>2, <1>4, <1>5, <1>6, <1>7, <1>8 DEF Next, Work

\* forwards_saved is, at every moment, the number of requests that were let in
\* and did not cause a forward of their own; the other counters add up to the
\* requests let in.  Nothing is assumed of the number of requests.
THEOREM SavedForwardsCounted == Spec => []SavedForwardsAreReal
<1>1. Spec => []CountsInv
  BY CoalescerInvariant, CountsInit, CountsStep, PTL DEF Spec
<1>2. CountsInv => SavedForwardsAreReal
  BY DEF CountsInv
<1> QED BY <1>1, <1>2, PTL

-----------------------------------------------------------------------------
(* Refinement.                                                              *)

LEMMA ContractInit == Init => Contract!SFInit
BY DEF Init, Contract!SFInit, Landed

\* Every step is a step of the contract or leaves its variables alone.
LEMMA ContractStep ==
    CoalescerInv /\ [Next]_vars => [Contract!SFNext]_(Contract!sfVars)
<1> SUFFICES ASSUME CoalescerInv, [Next]_vars
             PROVE  Contract!SFNext \/ UNCHANGED Contract!sfVars
  OBVIOUS
<1> DEFINE outcome == [r \in Requests |-> IF flight[r] \in Landed THEN flight[r] ELSE "none"]
<1> USE CoalescerConfig DEF CoalescerInv, TypeOK, Awaiting, Landed
<1>1. ASSUME NEW r \in Requests, Bypass(r) PROVE Contract!SFNext
  <2>1. outcome' = outcome /\ shared[r] = None
    BY <1>1 DEF Bypass, FlightsBelongToKeys, FlightsAreOwn
  <2>2. Contract!Solo(r)
    BY <1>1, <2>1 DEF Bypass, Contract!Solo
  <2> QED BY <2>2 DEF Contract!SFNext
<1>2. ASSUME NEW r \in Requests, PassCapacityCheck(r) \/ Disconnect(r)
      PROVE  UNCHANGED Contract!sfVars
  BY <1>2 DEF PassCapacityCheck, Disconnect, Contract!sfVars
<1>3. ASSUME NEW r \in Requests, Attach(r) PROVE Contract!SFNext
  <2>1. Contract!Join(r)
    BY <1>3 DEF Attach, FlightsBelongToKeys, Contract!Join
  <2> QED BY <2>1 DEF Contract!SFNext
<1>4. ASSUME NEW r \in Requests, Lead(r) PROVE Contract!SFNext
  <2>1. outcome' = outcome /\ shared[r] = None
    BY <1>4 DEF Lead, FlightsBelongToKeys, FlightsAreOwn
  <2>2. Contract!Lead(r)
    BY <1>4, <2>1 DEF Lead, Contract!Lead
  <2> QED BY <2>2 DEF Contract!SFNext
<1>5. ASSUME NEW f \in Requests, FlightLands(f) PROVE Contract!SFNext
  <2>1. PICK res \in Landed : flight' = [flight EXCEPT ![f] = res]
    BY <1>5 DEF FlightLands
  <2>2. outcome[f] = "none" /\ outcome' = [outcome EXCEPT ![f] = res]
    BY <1>5, <2>1 DEF FlightLands
  <2>3. shared[f] = f
    BY <1>5 DEF FlightLands, FlightsAreOwn
  <2>4. Contract!Land(f)
    BY <1>5, <2>1, <2>2, <2>3 DEF FlightLands, Contract!Land, Contract!Results
  <2> QED BY <2>4 DEF Contract!SFNext
<1>6. ASSUME NEW r \in Requests, Resume(r) PROVE Contract!SFNext
  <2>1. /\ shared[r] \in Requests /\ reply[r] = "none"
        /\ outcome[shared[r]] = flight[shared[r]]
    BY <1>6 DEF Resume, FlightsBelongToKeys, FlightsAreOwn
  <2>2. CASE UNCHANGED inflight
    <3>1. Contract!Answer(r)
      BY <1>6, <2>1, <2>2 DEF Resume, Contract!Answer
    <3> QED BY <3>1 DEF Contract!SFNext
  <2>3. CASE ~UNCHANGED inflight
    <3>1. pc[r] = "leading" /\ inflight' = [inflight EXCEPT ![KeyOf[r]] = None]
      BY <1>6, <2>3 DEF Resume, CleansUp, ScheduleCleanup
    <3>2. inflight[KeyOf[r]] = r /\ shared[r] = r
      BY <3>1 DEF RemovalsAreOwn, FlightsBelongToKeys
    <3>3. Contract!Retire(KeyOf[r])
      BY <1>6, <2>1, <3>1, <3>2 DEF Resume, Contract!Retire
    <3>4. Contract!Answer(r)
      BY <1>6, <2>1, <3>3 DEF Resume, Contract!Answer
    <3> QED BY <3>4 DEF Contract!SFNext
  <2> QED BY <2>2, <2>3
<1>7. ASSUME NEW f \in Requests, DelayedRemoval(f) PROVE Contract!SFNext
  <2>1. Contract!Retire(KeyOf[f])
    BY <1>7 DEF DelayedRemoval, RemovalsAreOwn, Contract!Retire
  <2> QED BY <1>7, <2>1 DEF DelayedRemoval, Contract!SFNext
<1>8. CASE UNCHANGED vars
  BY <1>8 DEF vars, Contract!sfVars
<1> QED BY <1>1, <1>2, <1>3, <1>4, <1>5, <1>6, <1>7, <1>8 DEF Next, Work

\* The coalescer implements the single-flight contract: a key's flight is
\* replaced only after it landed, and a caller is answered only with the result
\* of the flight it holds.
THEOREM CoalescerRefinesContract == Spec => ImplementsSingleFlight
BY CoalescerInvariant, ContractInit, ContractStep, PTL
   DEF Spec, ImplementsSingleFlight, Contract!SFSpec

=============================================================================
