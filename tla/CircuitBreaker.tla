--------------------------- MODULE CircuitBreaker ---------------------------
(***************************************************************************)
(* The per-backend circuit breakers of the gateway                         *)
(* (hier-kv-gateway-connector/src/resilience.rs, CircuitBreakerRegistry).  *)
(*                                                                         *)
(* Each operation takes the breaker's mutex once, so each is one step.     *)
(* The clock is a Tick action; an open circuit keeps the number of ticks   *)
(* since opened_at, saturating at Cooldown because the code only compares  *)
(* the elapsed time with the cooldown.                                     *)
(***************************************************************************)
EXTENDS Naturals

CONSTANTS
    Backends,                    \* the backend ids
    FailureThreshold,            \* circuit_breaker_failure_threshold
    Cooldown,                    \* circuit_breaker_cooldown_secs, in ticks
    HalfOpenSuccessThreshold     \* half_open_success_threshold

\* The configuration is three unsigned integers; zero is a legal value of each.
ASSUME BreakerConfig ==
    /\ FailureThreshold \in Nat
    /\ Cooldown \in Nat
    /\ HalfOpenSuccessThreshold \in Nat

VARIABLES
    breaker,   \* backend -> its BreakerState
    streak     \* history: failures reported since the last success, saturating

breakerVars == <<breaker, streak>>

AtLeastOne(n) == IF n = 0 THEN 1 ELSE n

\* `half_open_success_threshold.max(1)`.
SuccessThreshold == AtLeastOne(HalfOpenSuccessThreshold)

\* Failures in a row that open a closed circuit: the count is incremented
\* before it is compared, so a threshold of zero acts as one.
OpensAfter == AtLeastOne(FailureThreshold)

-----------------------------------------------------------------------------
(* BreakerState.  n is consecutive_failures, the elapsed ticks since        *)
(* opened_at, or consecutive_successes.                                     *)

Closed(failures)    == [state |-> "Closed", n |-> failures]
Opened              == [state |-> "Open", n |-> 0]
HalfOpen(successes) == [state |-> "HalfOpen", n |-> successes]

BreakerState ==
    [state : {"Closed"}, n : 0 .. OpensAfter - 1]
        \cup [state : {"Open"}, n : 0 .. Cooldown]
        \cup [state : {"HalfOpen"}, n : 0 .. SuccessThreshold - 1]

CooledDown(s) == s.n >= Cooldown

\* Mutant: the gate never leaves Open, whatever the elapsed time.
AllowedNeverProbes(s) == s.state # "Open"

\* allow(): whether a forward may be attempted now ...
Allowed(s) == s.state = "Open" => CooledDown(s)

\* ... and the lazy Open -> HalfOpen transition it makes.
AfterAllow(s) == IF s.state = "Open" /\ CooledDown(s) THEN HalfOpen(0) ELSE s

\* Mutant: a success leaves the failure count of a closed circuit alone.
AfterSuccessKeepsCount(s) ==
    IF s.state = "HalfOpen" /\ s.n + 1 < SuccessThreshold
    THEN HalfOpen(s.n + 1)
    ELSE IF s.state = "Closed" THEN s ELSE Closed(0)

\* on_success(): a half-open circuit closes after SuccessThreshold successes;
\* any other circuit, an open one too, becomes closed with a zero count.
AfterSuccess(s) ==
    IF s.state = "HalfOpen" /\ s.n + 1 < SuccessThreshold
    THEN HalfOpen(s.n + 1)
    ELSE Closed(0)

\* Mutant: the threshold is compared before the increment.
AfterFailureLate(s) ==
    IF s.state = "Closed" /\ s.n < FailureThreshold
    THEN Closed(s.n + 1)
    ELSE Opened

\* Mutant: the new failure is counted twice in the comparison.
AfterFailureEarly(s) ==
    IF s.state = "Closed" /\ s.n + 2 < FailureThreshold
    THEN Closed(s.n + 1)
    ELSE Opened

\* on_failure(): counts a closed circuit's failures up to the threshold; an
\* open or half-open circuit is (re)opened and its cooldown restarts.
AfterFailure(s) ==
    IF s.state = "Closed" /\ s.n + 1 < FailureThreshold
    THEN Closed(s.n + 1)
    ELSE Opened

\* state(): the snapshot reported to admin endpoints and tests.
CircuitState(s) ==
    IF s.state = "Open" /\ CooledDown(s) THEN "HalfOpen" ELSE s.state

-----------------------------------------------------------------------------
(* The registry as a state machine: any caller may use any operation.       *)

BreakerInit ==
    /\ breaker = [b \in Backends |-> Closed(0)]
    /\ streak = [b \in Backends |-> 0]

\* allow(b) by a caller that then forwards or skips.
Allow(b) ==
    /\ breaker' = [breaker EXCEPT ![b] = AfterAllow(@)]
    /\ UNCHANGED streak

OnSuccess(b) ==
    /\ breaker' = [breaker EXCEPT ![b] = AfterSuccess(@)]
    /\ streak' = [streak EXCEPT ![b] = 0]

OnFailure(b) ==
    /\ breaker' = [breaker EXCEPT ![b] = AfterFailure(@)]
    /\ streak' = [streak EXCEPT ![b] = IF @ < OpensAfter THEN @ + 1 ELSE @]

\* reset(): forgets every breaker; an absent entry reads as Closed { 0 }.
Reset ==
    /\ breaker' = [b \in Backends |-> Closed(0)]
    /\ streak' = [b \in Backends |-> 0]

Elapse(s) == IF s.state = "Open" /\ ~CooledDown(s) THEN [s EXCEPT !.n = @ + 1] ELSE s

\* One tick of the monotonic clock behind Instant::elapsed.
Tick ==
    /\ breaker' = [b \in Backends |-> Elapse(breaker[b])]
    /\ UNCHANGED streak

BreakerNext ==
    \/ \E b \in Backends : Allow(b) \/ OnSuccess(b) \/ OnFailure(b)
    \/ Reset
    \/ Tick

BreakerSpec == BreakerInit /\ [][BreakerNext]_breakerVars

-----------------------------------------------------------------------------

\* Type invariant.  The counters stay strictly below their thresholds, so the
\* u32 increments in on_success and on_failure never overflow.
BreakerTypeOK ==
    /\ breaker \in [Backends -> BreakerState]
    /\ streak \in [Backends -> 0 .. OpensAfter]

\* A breaker's counter agrees with the outcomes reported to it, whatever the
\* interleaving of the requests reporting them: a closed circuit's
\* consecutive_failures is exactly the number of failures since the last
\* success (so it cannot open early, nor miss a threshold), an open circuit has
\* an unanswered failure, and a half-open circuit counts only successes made
\* after its last failure.
CountsMatchOutcomes ==
    \A b \in Backends :
        LET s == breaker[b] IN
        /\ s.state = "Closed" => s.n = streak[b]
        /\ s.state = "Open" => streak[b] > 0
        /\ s.state = "HalfOpen" => (s.n = 0 <=> streak[b] > 0)

BreakerInv == BreakerTypeOK /\ CountsMatchOutcomes

\* A circuit that leaves Closed has just seen its OpensAfter-th failure in a
\* row, and one that leaves Open by allow() has served its cooldown.
TransitionsAreEarned ==
    [][\A b \in Backends :
          /\ breaker[b].state = "Closed" /\ breaker'[b].state # "Closed"
                => breaker'[b] = Opened /\ streak'[b] = OpensAfter
          /\ breaker[b].state = "Open" /\ breaker'[b].state = "HalfOpen"
                => breaker[b].n = Cooldown /\ streak'[b] > 0]_breakerVars

\* A circuit is not open for good: unless failures keep being reported, the
\* gate lets some later attempt through (the cooldown is evaluated lazily and
\* nothing else re-arms it).
GateReopens ==
    \A b \in Backends :
        ([]<>Allowed(breaker[b])) \/ ([]<><<OnFailure(b)>>_breakerVars)

=============================================================================
