------------------------- MODULE Forwarding_proofs -------------------------
(***************************************************************************)
(* The forwarding pipeline, for any number of requests and backends, any   *)
(* retry limit and any breaker configuration: it uses the breakers only    *)
(* through their operations, and each request's attempts, decision event   *)
(* and reply agree with each other and with its ranking.                   *)
(***************************************************************************)
EXTENDS Forwarding, TLAPS

-----------------------------------------------------------------------------
(* The breakers alone.  For every set of backends, every threshold and every *)
(* cooldown their counters are bounded and agree with the reported outcomes. *)

\* What the operators of the breaker return, one state at a time.
LEMMA ThresholdsPositive ==
    OpensAfter \in Nat \ {0} /\ SuccessThreshold \in Nat \ {0}
BY BreakerConfig DEF OpensAfter, SuccessThreshold, AtLeastOne

\* A breaker state as the pair of its tag and counter.
LEMMA BreakerStateCases ==
    ASSUME NEW s \in BreakerState
    PROVE  /\ s = [state |-> s.state, n |-> s.n]
           /\ \/ s.state = "Closed" /\ s.n \in 0 .. OpensAfter - 1
              \/ s.state = "Open" /\ s.n \in 0 .. Cooldown
              \/ s.state = "HalfOpen" /\ s.n \in 0 .. SuccessThreshold - 1
BY DEF BreakerState

\* allow(), on_success(), on_failure() and the clock keep a breaker well formed.
LEMMA OperationsTyped ==
    ASSUME NEW s \in BreakerState
    PROVE  /\ Closed(0) \in BreakerState
           /\ AfterAllow(s) \in BreakerState
           /\ AfterSuccess(s) \in BreakerState
           /\ AfterFailure(s) \in BreakerState
           /\ Elapse(s) \in BreakerState
<1>1. Closed(0) \in BreakerState /\ Opened \in BreakerState /\ HalfOpen(0) \in BreakerState
  BY ThresholdsPositive, BreakerConfig DEF Closed, Opened, HalfOpen, BreakerState
<1>2. AfterAllow(s) \in BreakerState
  BY <1>1 DEF AfterAllow
<1>3. AfterSuccess(s) \in BreakerState
  BY <1>1, BreakerStateCases, ThresholdsPositive DEF AfterSuccess, HalfOpen, BreakerState
<1>4. AfterFailure(s) \in BreakerState
  <2>1. CASE s.state = "Closed" /\ s.n + 1 < FailureThreshold
    <3>1. s.n + 1 \in 0 .. OpensAfter - 1
      BY <2>1, BreakerStateCases, BreakerConfig DEF OpensAfter, AtLeastOne
    <3> QED BY <2>1, <3>1 DEF AfterFailure, Closed, BreakerState
  <2> QED BY <2>1, <1>1 DEF AfterFailure
<1>5. Elapse(s) \in BreakerState
  <2>1. CASE s.state = "Open" /\ ~CooledDown(s)
    <3>1. s.n + 1 \in 0 .. Cooldown
      BY <2>1, BreakerStateCases, BreakerConfig DEF CooledDown
    <3>2. [s EXCEPT !.n = @ + 1] = [state |-> "Open", n |-> s.n + 1]
      BY <2>1, BreakerStateCases
    <3> QED BY <2>1, <3>1, <3>2 DEF Elapse, BreakerState
  <2> QED BY <2>1 DEF Elapse
<1> QED BY <1>1, <1>2, <1>3, <1>4, <1>5

\* The agreement of one breaker with its history, conjunct of
\* CountsMatchOutcomes.
Agrees(s, k) ==
    /\ s.state = "Closed" => s.n = k
    /\ s.state = "Open" => k > 0
    /\ s.state = "HalfOpen" => (s.n = 0 <=> k > 0)

\* A success resets the history, and the breaker agrees.
LEMMA SuccessAgrees ==
    ASSUME NEW s \in BreakerState
    PROVE  Agrees(AfterSuccess(s), 0)
BY BreakerStateCases, ThresholdsPositive DEF Agrees, AfterSuccess, Closed, HalfOpen

\* A failure extends the history, and the breaker agrees.
LEMMA FailureAgrees ==
    ASSUME NEW s \in BreakerState, NEW k \in 0 .. OpensAfter, Agrees(s, k)
    PROVE  Agrees(AfterFailure(s), IF k < OpensAfter THEN k + 1 ELSE k)
<1>1. CASE s.state = "Closed" /\ s.n + 1 < FailureThreshold
  BY <1>1, BreakerStateCases, ThresholdsPositive DEF Agrees, AfterFailure, Closed
<1>2. CASE ~(s.state = "Closed" /\ s.n + 1 < FailureThreshold)
  BY <1>2, ThresholdsPositive DEF Agrees, AfterFailure, Opened
<1> QED BY <1>1, <1>2

\* The gate and the clock do not disturb the agreement.
LEMMA AllowAndElapseAgree ==
    ASSUME NEW s \in BreakerState, NEW k \in 0 .. OpensAfter, Agrees(s, k)
    PROVE  Agrees(AfterAllow(s), k) /\ Agrees(Elapse(s), k)
<1>1. Agrees(AfterAllow(s), k)
  BY BreakerStateCases DEF Agrees, AfterAllow, HalfOpen
<1>2. Agrees(Elapse(s), k)
  <2>1. CASE s.state = "Open" /\ ~CooledDown(s)
    <3>1. Elapse(s) = [state |-> "Open", n |-> s.n + 1]
      BY <2>1, BreakerStateCases DEF Elapse
    <3> QED BY <2>1, <3>1 DEF Agrees
  <2> QED BY <2>1 DEF Elapse
<1> QED BY <1>1, <1>2

\* The inductive step, for every operation of the registry.
LEMMA BreakerInvStep ==
    ASSUME BreakerInv, [BreakerNext]_breakerVars
    PROVE  BreakerInv'
<1> USE DEF BreakerInv, BreakerTypeOK
<1>0. \A b \in Backends : Agrees(breaker[b], streak[b])
  BY DEF CountsMatchOutcomes, Agrees
<1>1. ASSUME BreakerTypeOK', \A b \in Backends : Agrees(breaker'[b], streak'[b])
      PROVE  BreakerInv'
  BY <1>1 DEF CountsMatchOutcomes, Agrees
<1>2. CASE UNCHANGED breakerVars
  BY <1>0, <1>1, <1>2 DEF breakerVars
<1>3. ASSUME NEW b \in Backends, Allow(b) PROVE BreakerInv'
  BY <1>0, <1>1, <1>3, OperationsTyped, AllowAndElapseAgree DEF Allow
<1>4. ASSUME NEW b \in Backends, OnSuccess(b) PROVE BreakerInv'
  BY <1>0, <1>1, <1>4, OperationsTyped, SuccessAgrees, ThresholdsPositive DEF OnSuccess
<1>5. ASSUME NEW b \in Backends, OnFailure(b) PROVE BreakerInv'
  BY <1>0, <1>1, <1>5, OperationsTyped, FailureAgrees, ThresholdsPositive DEF OnFailure
<1>6. CASE Reset
  <2>1. Closed(0) \in BreakerState /\ Agrees(Closed(0), 0)
    BY ThresholdsPositive DEF Closed, BreakerState, Agrees
  <2> QED BY <1>1, <1>6, <2>1, ThresholdsPositive DEF Reset
<1>7. CASE Tick
  BY <1>0, <1>1, <1>7, OperationsTyped, AllowAndElapseAgree DEF Tick
<1> QED BY <1>2, <1>3, <1>4, <1>5, <1>6, <1>7 DEF BreakerNext

LEMMA BreakerInvInit == BreakerInit => BreakerInv
<1>1. Closed(0) \in BreakerState
  BY ThresholdsPositive DEF Closed, BreakerState
<1> QED BY <1>1, ThresholdsPositive
        DEF BreakerInit, BreakerInv, BreakerTypeOK, CountsMatchOutcomes, Closed

\* For every configuration, a breaker's counter is the failure streak reported
\* to it and stays below its threshold.
THEOREM BreakerCountsMatch == BreakerSpec => [](BreakerTypeOK /\ CountsMatchOutcomes)
<1>1. BreakerSpec => []BreakerInv
  BY BreakerInvInit, BreakerInvStep, PTL DEF BreakerSpec
<1> QED BY <1>1, PTL DEF BreakerInv

\* For every configuration, no circuit opens before its threshold and none
\* turns half-open before its cooldown.
THEOREM BreakerTransitions == BreakerSpec => TransitionsAreEarned
<1> DEFINE Earned(b) ==
      /\ breaker[b].state = "Closed" /\ breaker'[b].state # "Closed"
            => breaker'[b] = Opened /\ streak'[b] = OpensAfter
      /\ breaker[b].state = "Open" /\ breaker'[b].state = "HalfOpen"
            => breaker[b].n = Cooldown /\ streak'[b] > 0
<1>1. ASSUME BreakerInv, [BreakerNext]_breakerVars, NEW b \in Backends
      PROVE  Earned(b)
  <2> USE DEF BreakerInv, BreakerTypeOK
  <2>1. breaker[b] \in BreakerState /\ streak[b] \in 0 .. OpensAfter
    BY <1>1
  <2>2. /\ breaker[b].state = "Closed" => breaker[b].n = streak[b]
        /\ breaker[b].state = "Open" => streak[b] > 0
    BY <1>1 DEF CountsMatchOutcomes
  <2>3. CASE breaker'[b] = breaker[b]
    BY <2>3
  <2>4. ASSUME NEW c \in Backends, Allow(c) PROVE Earned(b)
    <3>1. breaker'[b] \in {breaker[b], AfterAllow(breaker[b])} /\ streak'[b] = streak[b]
      BY <1>1, <2>4 DEF Allow
    <3> QED BY <2>1, <2>2, <2>3, <3>1, BreakerStateCases, BreakerConfig
            DEF AfterAllow, CooledDown, HalfOpen
  <2>5. ASSUME NEW c \in Backends, OnSuccess(c) PROVE Earned(b)
    <3>1. breaker'[b] \in {breaker[b], AfterSuccess(breaker[b])}
      BY <1>1, <2>5 DEF OnSuccess
    <3> QED BY <2>3, <3>1 DEF AfterSuccess, HalfOpen, Closed
  <2>6. ASSUME NEW c \in Backends, OnFailure(c) PROVE Earned(b)
    <3>1. CASE c = b
      <4>1. /\ breaker'[b] = AfterFailure(breaker[b])
            /\ streak'[b] = IF streak[b] < OpensAfter THEN streak[b] + 1 ELSE streak[b]
        BY <1>1, <2>6, <3>1 DEF OnFailure
      <4>2. breaker[b].state = "Closed" /\ ~(breaker[b].n + 1 < FailureThreshold)
              => streak[b] + 1 = OpensAfter
        BY <2>1, <2>2, BreakerStateCases, BreakerConfig DEF OpensAfter, AtLeastOne
      <4> QED BY <2>1, <4>1, <4>2, BreakerConfig, ThresholdsPositive
              DEF AfterFailure, Closed, Opened
    <3>2. CASE c # b
      BY <1>1, <2>3, <2>6, <3>2 DEF OnFailure
    <3> QED BY <3>1, <3>2
  <2>7. CASE Reset
    BY <2>7 DEF Reset, Closed
  <2>8. CASE Tick
    <3>1. breaker'[b] = Elapse(breaker[b])
      BY <2>8 DEF Tick
    <3>2. breaker'[b].state = breaker[b].state
      BY <2>1, <3>1, BreakerStateCases DEF Elapse
    <3> QED BY <3>2
  <2>9. CASE UNCHANGED breakerVars
    BY <2>3, <2>9 DEF breakerVars
  <2> QED BY <1>1, <2>4, <2>5, <2>6, <2>7, <2>8, <2>9 DEF BreakerNext
<1>2. BreakerInv /\ [BreakerNext]_breakerVars
        => [\A b \in Backends : Earned(b)]_breakerVars
  BY <1>1
<1> QED BY <1>2, BreakerInvInit, BreakerInvStep, PTL DEF BreakerSpec, TransitionsAreEarned

-----------------------------------------------------------------------------
(* The pipeline around them.                                                *)

LoopRecords == [cursor : Nat \ {0}, failures : Nat, lastErr : BOOLEAN, attempts : Seq(Attempts)]
EventRecords == [outcome : Outcomes, selected : Backends \cup {None}, attempts : Seq(Attempts)]

\* What is true of one request: its program counter s, ranking d, loop state l,
\* events e and reply y.
TraceOf(s, d, l) ==
    LET a == l.attempts IN
    /\ d = <<>> \/ d \in Rankings
    /\ l \in LoopRecords
    /\ l.failures <= Len(a)
    /\ Len(a) <= Len(d)
    /\ l.cursor - 1 <= Len(a)
    /\ \A k \in 1 .. Len(a) : a[k].backend = d[k]
    /\ l.lastErr <=> \E k \in 1 .. Len(a) : Failed(a[k])
    /\ l.failures > 0 <=> l.lastErr
    /\ s \in {"idle", "routing"} => d = <<>> /\ l = FreshLoop
    /\ s \in InLoop => /\ d \in Rankings
                       /\ Len(a) = l.cursor - 1
                       /\ \A k \in 1 .. Len(a) : ~Success(a[k])
    /\ s \in InLoop \ {"gate"} => l.cursor <= Len(d)
    /\ s = "streaming" => Len(a) > 0 /\ Success(a[Len(a)])

EventOf(ev, d, l) ==
    LET a == l.attempts IN
    CASE ev.outcome = "Success" ->
           /\ Len(a) > 0 /\ Success(a[Len(a)]) /\ ev.selected = a[Len(a)].backend
           /\ \A k \in 1 .. Len(a) - 1 : ~Success(a[k])
           /\ ev.attempts = a
      [] ev.outcome = "AllCandidatesFailed" ->
           /\ Len(a) = Len(d) /\ ev.selected = None
           /\ \A k \in 1 .. Len(a) : ~Success(a[k])
           /\ ev.attempts = a
      [] OTHER -> ev.attempts = <<>> /\ ev.selected = None /\ d = <<>>

EventsOf(s, d, l, e) ==
    /\ e \in Seq(EventRecords)
    /\ s \in InLoop \cup {"idle", "routing"} => e = <<>>
    /\ s \in {"streaming", "done"} => Len(e) = 1
    /\ \A k \in 1 .. Len(e) : EventOf(e[k], d, l)

ReplyOf(s, l, y) ==
    LET a == l.attempts IN
    /\ y \in Replies
    /\ y # "none" => s = "done"
    /\ y = "backend_unavailable" => \A k \in 1 .. Len(a) : a[k].outcome = "skipped"
    /\ y = "connector_error" => \E k \in 1 .. Len(a) : Failed(a[k])
    /\ y \in {"ok", "stream_error"} => Len(a) > 0 /\ Success(a[Len(a)])

States == InLoop \cup {"idle", "routing", "streaming", "done", "dropped"}

Sound(s, d, l, e, y) ==
    /\ s \in States
    /\ TraceOf(s, d, l)
    /\ EventsOf(s, d, l, e)
    /\ ReplyOf(s, l, y)

AllSound ==
    /\ pc = [r \in Requests |-> pc[r]]
    /\ decisions = [r \in Requests |-> decisions[r]]
    /\ loop = [r \in Requests |-> loop[r]]
    /\ events = [r \in Requests |-> events[r]]
    /\ reply = [r \in Requests |-> reply[r]]
    /\ \A r \in Requests : Sound(pc[r], decisions[r], loop[r], events[r], reply[r])

-----------------------------------------------------------------------------
(* One iteration of the loop.                                               *)

LEMMA RankingFacts ==
    ASSUME NEW d \in Rankings
    PROVE  /\ d \in Seq(Backends) /\ Len(d) \in 1 .. MaxAttempts
           /\ \A k \in 1 .. Len(d) : d[k] \in Backends
<1>1. PICK n \in 1 .. MaxAttempts : d \in [1 .. n -> Backends]
  BY DEF Rankings
<1>2. n \in Nat /\ MaxAttempts \in Nat
  BY <1>1, ForwardingConfig DEF MaxAttempts
<1> QED BY <1>1, <1>2

LEMMA AppendFacts ==
    ASSUME NEW a \in Seq(Attempts), NEW x \in Attempts
    PROVE  /\ Append(a, x) \in Seq(Attempts)
           /\ Len(Append(a, x)) = Len(a) + 1
           /\ \A k \in 1 .. Len(a) : Append(a, x)[k] = a[k]
           /\ Append(a, x)[Len(a) + 1] = x
OBVIOUS

\* The loop passes on from its candidate, with an outcome that is not a success.
LEMMA NextCandidate ==
    ASSUME NEW s, NEW d, NEW l, TraceOf(s, d, l), s \in InLoop, l.cursor <= Len(d),
           NEW o \in {"skipped", "failed"}, NEW f \in {l.failures, l.failures + 1}, NEW le \in BOOLEAN,
           NEW m, m = [cursor |-> l.cursor + 1, failures |-> f, lastErr |-> le,
                       attempts |-> Append(l.attempts, Attempt(d[l.cursor], o))],
           o = "skipped" => f = l.failures /\ le = l.lastErr,
           o = "failed" => f = l.failures + 1 /\ le = TRUE
    PROVE  TraceOf("gate", d, m)
<1> DEFINE a == l.attempts
           x == Attempt(d[l.cursor], o)
           n == Len(a)
<1>1. /\ l \in LoopRecords /\ a \in Seq(Attempts) /\ n \in Nat /\ l.cursor = n + 1
      /\ l.failures \in Nat /\ l.lastErr \in BOOLEAN /\ l.failures <= n
      /\ d \in Rankings
  BY DEF TraceOf, LoopRecords
<1>2. d[l.cursor] \in Backends /\ Len(d) \in Nat
  BY <1>1, RankingFacts
<1>3. x \in Attempts /\ x.backend = d[n + 1] /\ x.outcome = o
  BY <1>1, <1>2 DEF Attempt, Attempts
<1>4. /\ m.attempts \in Seq(Attempts) /\ Len(m.attempts) = n + 1
      /\ \A k \in 1 .. n : m.attempts[k] = a[k]
      /\ m.attempts[n + 1] = x
  BY <1>1, <1>3, AppendFacts
<1>5. m \in LoopRecords
  BY <1>1, <1>4 DEF LoopRecords
<1>6. \A k \in 1 .. n + 1 : k \in 1 .. n \/ k = n + 1
  BY <1>1
<1>7. \A k \in 1 .. Len(m.attempts) : m.attempts[k].backend = d[k] /\ ~Success(m.attempts[k])
  BY <1>1, <1>3, <1>4, <1>6 DEF TraceOf, Success
<1>8. m.lastErr <=> \E k \in 1 .. Len(m.attempts) : Failed(m.attempts[k])
  <2>1. CASE o = "failed"
    BY <2>1, <1>1, <1>3, <1>4 DEF Failed
  <2>2. CASE o = "skipped"
    <3>1. ~Failed(x) /\ m.lastErr = l.lastErr
      BY <2>2, <1>3 DEF Failed
    <3>2. l.lastErr <=> \E k \in 1 .. n : Failed(a[k])
      BY DEF TraceOf
    <3> QED BY <3>1, <3>2, <1>1, <1>4, <1>6
  <2> QED BY <2>1, <2>2
<1>9. m.failures > 0 <=> m.lastErr
  BY <1>1 DEF TraceOf
<1> QED BY <1>1, <1>2, <1>4, <1>5, <1>7, <1>8, <1>9 DEF TraceOf, InLoop

LEMMA SkipTrace ==
    ASSUME NEW s, NEW d, NEW l, TraceOf(s, d, l), s \in InLoop, l.cursor <= Len(d)
    PROVE  TraceOf("gate", d, Skip(l, d[l.cursor]))
<1>1. Skip(l, d[l.cursor]) =
        [cursor |-> l.cursor + 1, failures |-> l.failures, lastErr |-> l.lastErr,
         attempts |-> Append(l.attempts, Attempt(d[l.cursor], "skipped"))]
  BY DEF Skip
<1>2. l.failures \in Nat /\ l.lastErr \in BOOLEAN
  BY DEF TraceOf, LoopRecords
<1> QED BY <1>1, <1>2, NextCandidate

LEMMA FailTrace ==
    ASSUME NEW s, NEW d, NEW l, TraceOf(s, d, l), s \in InLoop, l.cursor <= Len(d)
    PROVE  TraceOf("gate", d, Fail(l, d[l.cursor]))
<1>1. Fail(l, d[l.cursor]) =
        [cursor |-> l.cursor + 1, failures |-> l.failures + 1, lastErr |-> TRUE,
         attempts |-> Append(l.attempts, Attempt(d[l.cursor], "failed"))]
  BY DEF Fail
<1> QED BY <1>1, NextCandidate

LEMMA SucceedTrace ==
    ASSUME NEW s, NEW d, NEW l, TraceOf(s, d, l), s \in InLoop, l.cursor <= Len(d),
           NEW m, m = Succeed(l, d[l.cursor])
    PROVE  /\ TraceOf("streaming", d, m)
           /\ m.attempts \in Seq(Attempts)
           /\ EventOf(Event("Success", d[l.cursor], m.attempts), d, m)
           /\ Event("Success", d[l.cursor], m.attempts) \in EventRecords
<1> DEFINE a == l.attempts
           x == Attempt(d[l.cursor], "success")
           n == Len(a)
<1>1. /\ l \in LoopRecords /\ a \in Seq(Attempts) /\ n \in Nat /\ l.cursor = n + 1
      /\ l.failures \in Nat /\ l.lastErr \in BOOLEAN /\ l.failures <= n
      /\ d \in Rankings
  BY DEF TraceOf, LoopRecords
<1>2. d[l.cursor] \in Backends /\ Len(d) \in Nat
  BY <1>1, RankingFacts
<1>3. x \in Attempts /\ x.backend = d[n + 1] /\ Success(x) /\ ~Failed(x)
  BY <1>1, <1>2 DEF Attempt, Attempts, Success, Failed
<1>4. m = [cursor |-> l.cursor, failures |-> l.failures, lastErr |-> l.lastErr,
           attempts |-> Append(a, x)]
  BY <1>1 DEF Succeed
<1>5. /\ m.attempts \in Seq(Attempts) /\ Len(m.attempts) = n + 1
      /\ \A k \in 1 .. n : m.attempts[k] = a[k]
      /\ m.attempts[n + 1] = x
  <2>1. m.attempts = Append(a, x)
    BY <1>4
  <2>2. a \in Seq(Attempts) /\ x \in Attempts
    BY <1>1, <1>3
  <2> HIDE DEF a, x
  <2> QED BY <2>1, <2>2, AppendFacts
<1>6. m \in LoopRecords
  BY <1>1, <1>4, <1>5 DEF LoopRecords
<1>7. \A k \in 1 .. n + 1 : k \in 1 .. n \/ k = n + 1
  BY <1>1
<1>8. \A k \in 1 .. Len(m.attempts) : m.attempts[k].backend = d[k]
  BY <1>1, <1>3, <1>5, <1>7 DEF TraceOf
<1>9. m.lastErr <=> \E k \in 1 .. Len(m.attempts) : Failed(m.attempts[k])
  <2>1. l.lastErr <=> \E k \in 1 .. n : Failed(a[k])
    BY DEF TraceOf
  <2> QED BY <2>1, <1>1, <1>3, <1>4, <1>5, <1>7
<1>10. m.failures > 0 <=> m.lastErr
  BY <1>4 DEF TraceOf
<1>11. TraceOf("streaming", d, m)
  <2>1. m.cursor = n + 1 /\ m.failures <= n /\ n + 1 <= Len(d) /\ d \in Rankings
    BY <1>1, <1>4
  <2>2. /\ m.failures <= Len(m.attempts) /\ Len(m.attempts) <= Len(d)
        /\ m.cursor - 1 <= Len(m.attempts) /\ Len(m.attempts) > 0
        /\ Success(m.attempts[Len(m.attempts)])
    <3>1. m.failures \in Nat
      BY <1>1, <1>4
    <3> HIDE DEF n, x
    <3> QED BY <1>1, <1>3, <1>5, <2>1, <3>1
  <2> HIDE DEF a, n, x
  <2> QED BY <1>6, <1>8, <1>9, <1>10, <2>1, <2>2 DEF TraceOf, InLoop
<1>12. \A k \in 1 .. n : ~Success(m.attempts[k])
  BY <1>5 DEF TraceOf
<1>13. EventOf(Event("Success", d[l.cursor], m.attempts), d, m)
  BY <1>1, <1>3, <1>5, <1>12 DEF EventOf, Event
<1>14. Event("Success", d[l.cursor], m.attempts) \in EventRecords
  BY <1>2, <1>5 DEF Event, EventRecords, Outcomes
<1> QED BY <1>5, <1>11, <1>13, <1>14

-----------------------------------------------------------------------------
(* Every step keeps every request sound.                                    *)

\* A step of request r that leaves it with these values.
Moves(r, s, d, l, e, y) ==
    /\ pc' = [pc EXCEPT ![r] = s]
    /\ decisions' = [decisions EXCEPT ![r] = d]
    /\ loop' = [loop EXCEPT ![r] = l]
    /\ events' = [events EXCEPT ![r] = e]
    /\ reply' = [reply EXCEPT ![r] = y]

\* Such a step leaves the other requests alone.
LEMMA OneRequest ==
    ASSUME AllSound, NEW r \in Requests, NEW s, NEW d, NEW l, NEW e, NEW y,
           Moves(r, s, d, l, e, y), Sound(s, d, l, e, y)
    PROVE  AllSound'
<1>1. /\ pc' = [q \in Requests |-> IF q = r THEN s ELSE pc[q]]
      /\ decisions' = [q \in Requests |-> IF q = r THEN d ELSE decisions[q]]
      /\ loop' = [q \in Requests |-> IF q = r THEN l ELSE loop[q]]
      /\ events' = [q \in Requests |-> IF q = r THEN e ELSE events[q]]
      /\ reply' = [q \in Requests |-> IF q = r THEN y ELSE reply[q]]
  BY DEF AllSound, Moves
<1>2. ASSUME NEW q \in Requests
      PROVE  Sound(pc'[q], decisions'[q], loop'[q], events'[q], reply'[q])
  BY <1>1 DEF AllSound
<1> HIDE DEF Sound
<1> QED BY <1>1, <1>2 DEF AllSound

LEMMA EmptyAttempts == <<>> \in Seq(Attempts) /\ Len(<<>>) = 0
OBVIOUS

LEMMA FreshRequest ==
    \A s \in {"idle", "routing"} : Sound(s, <<>>, FreshLoop, <<>>, "none")
BY EmptyAttempts DEF Sound, TraceOf, EventsOf, ReplyOf, FreshLoop, LoopRecords, States,
   InLoop, Replies

LEMMA AllSoundInit == Init => AllSound
<1> SUFFICES ASSUME Init PROVE AllSound
  OBVIOUS
<1> HIDE DEF Sound
<1> QED BY FreshRequest DEF Init, ForwardInit, AllSound

\* Events and reply of a request that is still choosing, when it moves on
\* within the loop: none before, none after.
LEMMA StillChoosing ==
    ASSUME NEW s, NEW d, NEW l, NEW e, NEW y, Sound(s, d, l, e, y),
           s \in InLoop \cup {"routing", "idle"},
           NEW t \in InLoop \cup {"routing"}, NEW c, NEW m, TraceOf(t, c, m)
    PROVE  Sound(t, c, m, e, y)
<1>1. e = <<>> /\ y = "none"
  BY DEF Sound, EventsOf, ReplyOf, InLoop
<1>2. EventsOf(t, c, m, e)
  BY <1>1 DEF EventsOf, InLoop
<1>3. ReplyOf(t, m, y)
  BY <1>1 DEF ReplyOf, Replies
<1> QED BY <1>2, <1>3 DEF Sound, States

\* The single event of a request that has just finished choosing.
LEMMA FirstEvent ==
    ASSUME NEW s, NEW d, NEW l, NEW e, NEW y, Sound(s, d, l, e, y),
           s \in InLoop \cup {"routing"},
           NEW t \in {"streaming", "done"}, NEW m, NEW ev \in EventRecords, EventOf(ev, d, m)
    PROVE  EventsOf(t, d, m, Append(e, ev))
<1>1. e = <<>>
  BY DEF Sound, EventsOf
<1>2. Append(e, ev) \in Seq(EventRecords) /\ Len(Append(e, ev)) = 1 /\ Append(e, ev)[1] = ev
  BY <1>1
<1>3. \A k \in 1 .. Len(Append(e, ev)) : Append(e, ev)[k] = ev
  BY <1>2
<1> HIDE DEF EventOf
<1> QED BY <1>2, <1>3 DEF EventsOf, InLoop

LEMMA AllSoundStep == AllSound /\ [Next]_vars => AllSound'
<1> SUFFICES ASSUME AllSound, [Next]_vars PROVE AllSound'
  OBVIOUS
<1> DEFINE S(r) == Sound(pc[r], decisions[r], loop[r], events[r], reply[r])
<1>0. ASSUME NEW r \in Requests
      PROVE  /\ S(r)
             /\ pc = [pc EXCEPT ![r] = pc[r]] /\ decisions = [decisions EXCEPT ![r] = decisions[r]]
             /\ loop = [loop EXCEPT ![r] = loop[r]] /\ events = [events EXCEPT ![r] = events[r]]
             /\ reply = [reply EXCEPT ![r] = reply[r]]
             /\ TraceOf(pc[r], decisions[r], loop[r])
  BY DEF AllSound, Sound
<1> HIDE DEF S
<1>1. ASSUME NEW r \in Requests, Receive(r) PROVE AllSound'
  <2>1. Moves(r, "routing", <<>>, FreshLoop, <<>>, "none")
    BY <1>1 DEF Moves, Receive
  <2> QED BY <2>1, FreshRequest, OneRequest
<1>2. ASSUME NEW r \in Requests, RouteFailed(r) PROVE AllSound'
  <2> DEFINE ev == Event("RoutingFailed", None, <<>>)
  <2>1. decisions[r] = <<>> /\ loop[r] = FreshLoop
    BY <1>0, <1>2 DEF RouteFailed, Goto, TraceOf
  <2>2. ev \in EventRecords /\ EventOf(ev, decisions[r], loop[r])
    BY <2>1 DEF Event, EventRecords, Outcomes, EventOf
  <2>3. EventsOf("done", decisions[r], loop[r], Append(events[r], ev))
    BY <1>0, <1>2, <2>2, FirstEvent DEF RouteFailed, Goto, S
  <2>4. TraceOf("done", decisions[r], loop[r])
    BY <1>0, <1>2 DEF RouteFailed, Goto, TraceOf, InLoop
  <2>5. ReplyOf("done", loop[r], "routing_failed")
    BY DEF ReplyOf, Replies
  <2>6. Sound("done", decisions[r], loop[r], Append(events[r], ev), "routing_failed")
    BY <2>3, <2>4, <2>5 DEF Sound, States
  <2>7. Moves(r, "done", decisions[r], loop[r], Append(events[r], ev), "routing_failed")
    BY <1>0, <1>2 DEF Moves, RouteFailed, Goto, Emit
  <2> QED BY <2>6, <2>7, OneRequest
<1>3. ASSUME NEW r \in Requests, Routed(r) PROVE AllSound'
  <2>1. PICK d \in Rankings : decisions' = [decisions EXCEPT ![r] = d]
    BY <1>3 DEF Routed
  <2>2. decisions[r] = <<>> /\ loop[r] = FreshLoop
    BY <1>0, <1>3 DEF Routed, Goto, TraceOf
  <2>3. Len(d) \in Nat
    BY RankingFacts
  <2>4. TraceOf("gate", d, loop[r])
    BY <2>2, <2>3, EmptyAttempts DEF TraceOf, FreshLoop, LoopRecords, InLoop
  <2>5. Sound("gate", d, loop[r], events[r], reply[r])
    BY <1>0, <1>3, <2>4, StillChoosing DEF Routed, Goto, InLoop, S
  <2>6. Moves(r, "gate", d, loop[r], events[r], reply[r])
    BY <1>0, <1>3, <2>1 DEF Moves, Routed, Goto
  <2> QED BY <2>5, <2>6, OneRequest
<1>4. ASSUME NEW r \in Requests, GateSkips(r) PROVE AllSound'
  <2>1. TraceOf("gate", decisions[r], Skip(loop[r], Candidate(r)))
    BY <1>0, <1>4, SkipTrace DEF GateSkips, MoreCandidates, Candidate, InLoop
  <2>2. Sound("gate", decisions[r], Skip(loop[r], Candidate(r)), events[r], reply[r])
    BY <1>0, <1>4, <2>1, StillChoosing DEF GateSkips, InLoop, S
  <2>3. Moves(r, "gate", decisions[r], Skip(loop[r], Candidate(r)), events[r], reply[r])
    BY <1>0, <1>4 DEF Moves, GateSkips
  <2> QED BY <2>2, <2>3, OneRequest
<1>5. ASSUME NEW r \in Requests, GateAdmits(r) PROVE AllSound'
  <2> DEFINE t == IF loop[r].failures > 0 THEN "backoff" ELSE "connect"
  <2>1. t \in InLoop
    BY DEF InLoop
  <2>2. TraceOf(t, decisions[r], loop[r])
    BY <1>0, <1>5 DEF GateAdmits, MoreCandidates, TraceOf, InLoop
  <2>3. Sound(t, decisions[r], loop[r], events[r], reply[r])
    BY <1>0, <1>5, <2>1, <2>2, StillChoosing DEF GateAdmits, InLoop, S
  <2>4. Moves(r, t, decisions[r], loop[r], events[r], reply[r])
    BY <1>0, <1>5 DEF Moves, GateAdmits
  <2> QED BY <2>3, <2>4, OneRequest
<1>6. ASSUME NEW r \in Requests, BackoffEnds(r) PROVE AllSound'
  <2>1. TraceOf("connect", decisions[r], loop[r])
    BY <1>0, <1>6 DEF BackoffEnds, Goto, TraceOf, InLoop
  <2>2. Sound("connect", decisions[r], loop[r], events[r], reply[r])
    BY <1>0, <1>6, <2>1, StillChoosing DEF BackoffEnds, Goto, InLoop, S
  <2>3. Moves(r, "connect", decisions[r], loop[r], events[r], reply[r])
    BY <1>0, <1>6 DEF Moves, BackoffEnds, Goto
  <2> QED BY <2>2, <2>3, OneRequest
<1>7. ASSUME NEW r \in Requests, ForwardStarts(r) PROVE AllSound'
  <2>1. TraceOf("forwarding", decisions[r], loop[r])
    BY <1>0, <1>7 DEF ForwardStarts, Goto, TraceOf, InLoop
  <2>2. Sound("forwarding", decisions[r], loop[r], events[r], reply[r])
    BY <1>0, <1>7, <2>1, StillChoosing DEF ForwardStarts, Goto, InLoop, S
  <2>3. Moves(r, "forwarding", decisions[r], loop[r], events[r], reply[r])
    BY <1>0, <1>7 DEF Moves, ForwardStarts, Goto
  <2> QED BY <2>2, <2>3, OneRequest
<1>8. ASSUME NEW r \in Requests, ConnectorMissing(r) \/ ForwardFails(r) PROVE AllSound'
  <2>1. /\ pc[r] \in InLoop \ {"gate"}
        /\ pc' = [pc EXCEPT ![r] = "gate"]
        /\ loop' = [loop EXCEPT ![r] = Fail(loop[r], Candidate(r))]
        /\ decisions' = decisions /\ events' = events /\ reply' = reply
    BY <1>8 DEF ConnectorMissing, ForwardFails, Goto, InLoop
  <2>2. loop[r].cursor <= Len(decisions[r])
    BY <1>0, <2>1 DEF TraceOf
  <2>3. TraceOf("gate", decisions[r], Fail(loop[r], Candidate(r)))
    BY <1>0, <2>1, <2>2, FailTrace DEF Candidate
  <2>4. Sound("gate", decisions[r], Fail(loop[r], Candidate(r)), events[r], reply[r])
    BY <1>0, <2>1, <2>3, StillChoosing DEF InLoop, S
  <2>5. Moves(r, "gate", decisions[r], Fail(loop[r], Candidate(r)), events[r], reply[r])
    BY <1>0, <2>1 DEF Moves
  <2> QED BY <2>4, <2>5, OneRequest
<1>9. ASSUME NEW r \in Requests, ForwardSucceeds(r) PROVE AllSound'
  <2> DEFINE m == Succeed(loop[r], Candidate(r))
             ev == Event("Success", Candidate(r), m.attempts)
  <2>1. pc[r] \in InLoop /\ loop[r].cursor <= Len(decisions[r])
    BY <1>0, <1>9 DEF ForwardSucceeds, Goto, InLoop, TraceOf
  <2>2. /\ TraceOf("streaming", decisions[r], m)
        /\ EventOf(ev, decisions[r], m) /\ ev \in EventRecords
    BY <1>0, <2>1, SucceedTrace DEF Candidate
  <2> HIDE DEF m
  <2>3. EventsOf("streaming", decisions[r], m, Append(events[r], ev))
    BY <1>0, <2>1, <2>2, FirstEvent DEF S
  <2>4. reply[r] = "none"
    BY <1>0, <1>9 DEF S, Sound, ReplyOf, ForwardSucceeds, Goto
  <2>5. ReplyOf("streaming", m, reply[r])
    BY <2>4 DEF ReplyOf, Replies
  <2>6. Sound("streaming", decisions[r], m, Append(events[r], ev), reply[r])
    BY <2>2, <2>3, <2>5 DEF Sound, States
  <2>7. loop' = [loop EXCEPT ![r] = m] /\ loop'[r] = m
    BY <1>9 DEF ForwardSucceeds, m, AllSound
  <2>8. Moves(r, "streaming", decisions[r], m, Append(events[r], ev), reply[r])
    BY <1>0, <1>9, <2>7 DEF Moves, ForwardSucceeds, Goto, Emit
  <2> QED BY <2>6, <2>8, OneRequest
<1>10. ASSUME NEW r \in Requests, Exhausted(r) PROVE AllSound'
  <2> DEFINE a == loop[r].attempts
             ev == Event("AllCandidatesFailed", None, a)
             y == IF loop[r].lastErr THEN "connector_error" ELSE "backend_unavailable"
  <2>1. /\ decisions[r] \in Rankings /\ loop[r] \in LoopRecords
        /\ Len(a) = loop[r].cursor - 1 /\ Len(a) <= Len(decisions[r])
        /\ \A k \in 1 .. Len(a) : ~Success(a[k])
        /\ loop[r].lastErr <=> \E k \in 1 .. Len(a) : Failed(a[k])
    BY <1>0, <1>10 DEF Exhausted, Goto, TraceOf, InLoop
  <2>2. a \in Seq(Attempts) /\ loop[r].cursor \in Nat /\ Len(decisions[r]) \in Nat
    BY <2>1, RankingFacts DEF LoopRecords
  <2>3. Len(a) = Len(decisions[r])
    BY <1>10, <2>1, <2>2 DEF Exhausted, MoreCandidates
  <2>4. ev \in EventRecords /\ EventOf(ev, decisions[r], loop[r])
    BY <2>1, <2>2, <2>3 DEF Event, EventRecords, Outcomes, EventOf
  <2>5. EventsOf("done", decisions[r], loop[r], Append(events[r], ev))
    BY <1>0, <1>10, <2>4, FirstEvent DEF Exhausted, Goto, InLoop, S
  <2>6. TraceOf("done", decisions[r], loop[r])
    BY <1>0, <1>10 DEF Exhausted, Goto, TraceOf, InLoop
  <2>7. ReplyOf("done", loop[r], y)
    <3>1. \A k \in 1 .. Len(a) : a[k] \in Attempts
      BY <2>2
    <3>2. CASE loop[r].lastErr
      BY <2>1, <3>2 DEF ReplyOf, Replies
    <3>3. CASE ~loop[r].lastErr
      <4>1. \A k \in 1 .. Len(a) : a[k].outcome = "skipped"
        BY <2>1, <3>1, <3>3 DEF Failed, Success, Attempts
      <4> QED BY <3>3, <4>1 DEF ReplyOf, Replies
    <3> QED BY <3>2, <3>3
  <2>8. Sound("done", decisions[r], loop[r], Append(events[r], ev), y)
    BY <2>5, <2>6, <2>7 DEF Sound, States
  <2>9. Moves(r, "done", decisions[r], loop[r], Append(events[r], ev), y)
    BY <1>0, <1>10 DEF Moves, Exhausted, Goto, Emit
  <2> QED BY <2>8, <2>9, OneRequest
<1>11. ASSUME NEW r \in Requests, StreamEnds(r) PROVE AllSound'
  <2>1. PICK y \in {"ok", "stream_error"} : reply' = [reply EXCEPT ![r] = y]
    BY <1>11 DEF StreamEnds
  <2>2. TraceOf("done", decisions[r], loop[r])
    BY <1>0, <1>11 DEF StreamEnds, Goto, TraceOf, InLoop
  <2>3. EventsOf("done", decisions[r], loop[r], events[r])
    BY <1>0, <1>11 DEF StreamEnds, Goto, S, Sound, EventsOf, InLoop
  <2>4. ReplyOf("done", loop[r], y)
    BY <1>0, <1>11 DEF StreamEnds, Goto, TraceOf, ReplyOf, Replies
  <2>5. Sound("done", decisions[r], loop[r], events[r], y)
    BY <2>2, <2>3, <2>4 DEF Sound, States
  <2>6. Moves(r, "done", decisions[r], loop[r], events[r], y)
    BY <1>0, <1>11, <2>1 DEF Moves, StreamEnds, Goto
  <2> QED BY <2>5, <2>6, OneRequest
<1>12. ASSUME NEW r \in Requests, Disconnect(r) PROVE AllSound'
  <2>1. TraceOf("dropped", decisions[r], loop[r])
    BY <1>0, <1>12 DEF Disconnect, TraceOf, InLoop
  <2>2. EventsOf("dropped", decisions[r], loop[r], events[r])
    BY <1>0, <1>12 DEF Disconnect, S, Sound, EventsOf, InLoop
  <2>3. reply[r] = "none"
    BY <1>0, <1>12 DEF Disconnect, AwaitPoints, S, Sound, ReplyOf
  <2>4. ReplyOf("dropped", loop[r], reply[r])
    BY <2>3 DEF ReplyOf, Replies
  <2>5. Sound("dropped", decisions[r], loop[r], events[r], reply[r])
    BY <2>1, <2>2, <2>4 DEF Sound, States
  <2>6. Moves(r, "dropped", decisions[r], loop[r], events[r], reply[r])
    BY <1>0, <1>12 DEF Moves, Disconnect
  <2> QED BY <2>5, <2>6, OneRequest
<1>13. CASE ClockTick \/ UNCHANGED vars
  BY <1>13 DEF ClockTick, vars, forwardVars, AllSound
<1> QED BY <1>1, <1>2, <1>3, <1>4, <1>5, <1>6, <1>7, <1>8, <1>9, <1>10, <1>11, <1>12, <1>13
        DEF Next, Handle

LEMMA AllSoundInvariant == Spec => []AllSound
BY AllSoundInit, AllSoundStep, PTL DEF Spec

-----------------------------------------------------------------------------
(* The breakers, used through their operations only.                        *)

LEMMA CandidateIsBackend ==
    ASSUME AllSound, NEW r \in Requests, pc[r] \in InLoop, MoreCandidates(r)
    PROVE  Candidate(r) \in Backends
<1>1. TraceOf(pc[r], decisions[r], loop[r])
  BY DEF AllSound, Sound
<1>2. decisions[r] \in Rankings /\ loop[r].cursor \in Nat \ {0}
  BY <1>1 DEF TraceOf, LoopRecords
<1>3. loop[r].cursor \in 1 .. Len(decisions[r])
  BY <1>2, RankingFacts DEF MoreCandidates
<1> QED BY <1>2, <1>3, RankingFacts DEF Candidate

LEMMA HoldsCandidate ==
    ASSUME AllSound, NEW r \in Requests, pc[r] \in InLoop \ {"gate"}
    PROVE  MoreCandidates(r)
BY DEF AllSound, Sound, TraceOf, MoreCandidates

LEMMA BreakerStep == AllSound /\ [Next]_vars => [BreakerNext]_breakerVars
<1> SUFFICES ASSUME AllSound, [Next]_vars PROVE BreakerNext \/ UNCHANGED breakerVars
  OBVIOUS
<1>1. ASSUME NEW r \in Requests, GateAdmits(r) PROVE BreakerNext
  <2>1. Candidate(r) \in Backends
    BY <1>1, CandidateIsBackend DEF GateAdmits, InLoop
  <2> QED BY <1>1, <2>1 DEF GateAdmits, BreakerNext
<1>2. ASSUME NEW r \in Requests, ForwardSucceeds(r) \/ ForwardFails(r) PROVE BreakerNext
  <2>1. Candidate(r) \in Backends
    BY <1>2, HoldsCandidate, CandidateIsBackend DEF ForwardSucceeds, ForwardFails, Goto, InLoop
  <2> QED BY <1>2, <2>1 DEF ForwardSucceeds, ForwardFails, BreakerNext
<1>3. CASE ClockTick
  BY <1>3 DEF ClockTick, BreakerNext
<1>4. ASSUME NEW r \in Requests,
             \/ Receive(r) \/ RouteFailed(r) \/ Routed(r) \/ GateSkips(r) \/ BackoffEnds(r)
             \/ ConnectorMissing(r) \/ ForwardStarts(r) \/ Exhausted(r) \/ StreamEnds(r)
             \/ Disconnect(r)
      PROVE  UNCHANGED breakerVars
  BY <1>4 DEF Receive, RouteFailed, Routed, GateSkips, BackoffEnds, ConnectorMissing,
              ForwardStarts, Exhausted, StreamEnds, Disconnect
<1>5. CASE UNCHANGED vars
  BY <1>5 DEF vars
<1> QED BY <1>1, <1>2, <1>3, <1>4, <1>5 DEF Next, Handle

\* The pipeline is an implementation of the breaker registry: it never touches
\* a breaker but by allow, on_success, on_failure and the passing of time, so
\* what is proved of the registry holds under any interleaving of requests.
THEOREM ForwardingUsesBreakers == Spec => BreakerSpec /\ TransitionsAreEarned
<1>1. Init => BreakerInit
  BY DEF Init
<1>2. Spec => BreakerSpec
  BY <1>1, AllSoundInvariant, BreakerStep, PTL DEF Spec, BreakerSpec
<1> QED BY <1>2, BreakerTransitions, PTL

-----------------------------------------------------------------------------
(* The invariants of the pipeline.                                          *)

\* Sound is the invariants seen from one request.
LEMMA SoundMeans ==
    ASSUME AllSound, NEW r \in Requests
    PROVE  LET l == loop[r]
               a == l.attempts
           IN  /\ a \in Seq(Attempts) /\ DOMAIN a = 1 .. Len(a)
               /\ DOMAIN events[r] = 1 .. Len(events[r])
               /\ Len(decisions[r]) \in 0 .. MaxAttempts
               /\ decisions[r] \in Rankings \cup {<<>>}
               /\ l \in [cursor : 1 .. MaxAttempts + 1, failures : 0 .. MaxAttempts,
                         lastErr : BOOLEAN, attempts : Seq(Attempts)]
<1> DEFINE l == loop[r]
           a == l.attempts
           d == decisions[r]
<1>1. TraceOf(pc[r], d, l) /\ EventsOf(pc[r], d, l, events[r])
  BY DEF AllSound, Sound
<1>2. a \in Seq(Attempts) /\ DOMAIN a = 1 .. Len(a) /\ Len(a) \in Nat
  BY <1>1 DEF TraceOf, LoopRecords
<1>3. events[r] \in Seq(EventRecords) /\ DOMAIN events[r] = 1 .. Len(events[r])
  BY <1>1 DEF EventsOf
<1>4. MaxAttempts \in Nat \ {0}
  BY ForwardingConfig DEF MaxAttempts
<1>5. Len(d) \in 0 .. MaxAttempts
  BY <1>1, <1>4, RankingFacts DEF TraceOf
<1>6. l.cursor \in 1 .. MaxAttempts + 1 /\ l.failures \in 0 .. MaxAttempts
  BY <1>1, <1>2, <1>4, <1>5 DEF TraceOf, LoopRecords
<1>7. l \in [cursor : 1 .. MaxAttempts + 1, failures : 0 .. MaxAttempts,
             lastErr : BOOLEAN, attempts : Seq(Attempts)]
  BY <1>1, <1>6 DEF TraceOf, LoopRecords
<1>8. d \in Rankings \cup {<<>>}
  BY <1>1 DEF TraceOf
<1> QED BY <1>2, <1>3, <1>5, <1>7, <1>8

LEMMA ConnectedFixed == Spec => [](connected \subseteq Backends)
<1>1. Init => connected \subseteq Backends
  BY DEF Init
<1>2. connected \subseteq Backends /\ [Next]_vars => (connected \subseteq Backends)'
  BY DEF Next, vars
<1> QED BY <1>1, <1>2, PTL DEF Spec

LEMMA SoundIsTyped == AllSound /\ BreakerTypeOK /\ connected \subseteq Backends => TypeOK
<1> SUFFICES ASSUME AllSound, BreakerTypeOK, connected \subseteq Backends PROVE TypeOK
  OBVIOUS
<1>1. pc \in [Requests -> InLoop \cup {"idle", "routing", "streaming", "done", "dropped"}]
  BY DEF AllSound, Sound, States
<1>2. decisions \in [Requests -> Rankings \cup {<<>>}]
  BY SoundMeans DEF AllSound
<1>3. loop \in [Requests -> [cursor : 1 .. MaxAttempts + 1, failures : 0 .. MaxAttempts,
                              lastErr : BOOLEAN, attempts : Seq(Attempts)]]
  BY SoundMeans DEF AllSound
<1>4. events \in [Requests -> Seq(EventRecords)]
  BY DEF AllSound, Sound, EventsOf
<1>5. reply \in [Requests -> Replies]
  BY DEF AllSound, Sound, ReplyOf
<1> QED BY <1>1, <1>2, <1>3, <1>4, <1>5 DEF TypeOK, EventRecords

LEMMA SoundTraces == AllSound => LoopTracesRanking
<1> SUFFICES ASSUME AllSound, NEW r \in Requests
    PROVE  LET l == loop[r] IN
        /\ pc[r] \in InLoop => /\ Len(l.attempts) = l.cursor - 1
                              /\ \A k \in DOMAIN l.attempts : ~Success(l.attempts[k])
        /\ pc[r] \in InLoop \ {"gate"} => MoreCandidates(r)
        /\ Len(l.attempts) <= Len(decisions[r])
        /\ \A k \in DOMAIN l.attempts : l.attempts[k].backend = decisions[r][k]
        /\ l.lastErr <=> \E k \in DOMAIN l.attempts : Failed(l.attempts[k])
        /\ l.failures > 0 <=> l.lastErr
  BY DEF LoopTracesRanking
<1>1. TraceOf(pc[r], decisions[r], loop[r])
  BY DEF AllSound, Sound
<1>2. DOMAIN loop[r].attempts = 1 .. Len(loop[r].attempts)
  BY SoundMeans
<1> QED BY <1>1, <1>2 DEF TraceOf, MoreCandidates

LEMMA SoundEvents == AllSound => OneTruthfulEvent
<1> SUFFICES ASSUME AllSound, NEW r \in Requests
    PROVE  /\ pc[r] \in InLoop \cup {"idle", "routing"} => events[r] = <<>>
           /\ pc[r] \in {"streaming", "done"} => Len(events[r]) = 1
           /\ \A k \in DOMAIN events[r] : Truthful(r, events[r][k])
  BY DEF OneTruthfulEvent
<1>1. EventsOf(pc[r], decisions[r], loop[r], events[r])
  BY DEF AllSound, Sound
<1>2. /\ loop[r].attempts \in Seq(Attempts)
      /\ DOMAIN loop[r].attempts = 1 .. Len(loop[r].attempts)
      /\ DOMAIN events[r] = 1 .. Len(events[r])
  BY SoundMeans
<1>3. ASSUME NEW k \in DOMAIN events[r] PROVE Truthful(r, events[r][k])
  <2>1. EventOf(events[r][k], decisions[r], loop[r])
    BY <1>1, <1>2, <1>3 DEF EventsOf
  <2> QED BY <1>2, <2>1 DEF EventOf, Truthful
<1> QED BY <1>1, <1>3 DEF EventsOf

LEMMA SoundReplies == AllSound => ReplyMatchesAttempts
<1> SUFFICES ASSUME AllSound, NEW r \in Requests
    PROVE  LET a == loop[r].attempts IN
           /\ reply[r] = "backend_unavailable" =>
                  \A k \in DOMAIN a : a[k].outcome = "skipped"
           /\ reply[r] = "connector_error" => \E k \in DOMAIN a : Failed(a[k])
           /\ reply[r] \in {"ok", "stream_error"} => a # <<>> /\ Success(a[Len(a)])
  BY DEF ReplyMatchesAttempts
<1>1. ReplyOf(pc[r], loop[r], reply[r])
  BY DEF AllSound, Sound
<1>2. DOMAIN loop[r].attempts = 1 .. Len(loop[r].attempts)
  BY SoundMeans
<1> QED BY <1>1, <1>2 DEF ReplyOf

\* However requests interleave on the shared breakers, each one's attempts
\* trace its ranking in order, it emits exactly one decision event, which tells
\* what happened, and the client's reply agrees with the attempts.
THEOREM PipelineCorrect ==
    Spec => [](TypeOK /\ LoopTracesRanking /\ OneTruthfulEvent /\ ReplyMatchesAttempts)
<1>1. Spec => []BreakerTypeOK
  BY ForwardingUsesBreakers, BreakerCountsMatch, PTL
<1> QED BY <1>1, ConnectedFixed, AllSoundInvariant, SoundIsTyped, SoundTraces, SoundEvents, SoundReplies, PTL

\* Every handler's position, ranking, loop locals, events and reply keep their
\* types, and so do the breakers it shares.
THEOREM ForwardingTyped == Spec => []TypeOK
BY PipelineCorrect, PTL

\* The client of a non-streaming or streaming request is sent what the walk over
\* the candidates ended with.
THEOREM RepliesMatch == Spec => []ReplyMatchesAttempts
BY PipelineCorrect, PTL

=============================================================================
