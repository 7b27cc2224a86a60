--------------------------- MODULE TenantScheduler ---------------------------
(* Multi-tenant admission (routing/tenant_scheduler.rs, core/tenant.rs).     *)
(* Any number of tasks call check_admission at once; the instant a call      *)
(* reads is used after the bucket's lock is taken, and the checks after the  *)
(* token are made on values other calls go on changing.  A token is Unit     *)
(* units, so that rates below one request per tick can be expressed.  No     *)
(* caller exists in the gateway yet: the requests follow the documented      *)
(* order, check, start if admitted, end.                                     *)
EXTENDS Integers, Sequences, FiniteSets, FiniteSetsExt

CONSTANTS
    Tenants, Requests,
    Tiers,          \* tenant -> its entry in the configuration, or NoEntry
    Defaults,       \* default_max_rps and default_max_concurrent
    SaturationPct,  \* saturation_threshold, in percent
    Capacities,     \* the values update_capacity is called with
    Unit,           \* units per token
    MaxTime         \* bound on the clock

NoLimit == -1
NoEntry == [priority |-> "Normal", rate |-> NoLimit, concurrent |-> NoLimit, reserved |-> 0]

ASSUME TenantAssumption ==
    /\ Tiers \in [Tenants -> [priority : {"Premium", "Normal", "Background"},
                              rate : Nat \cup {NoLimit}, concurrent : Nat \cup {NoLimit},
                              reserved : 0 .. 100]]
    /\ Defaults \in [rate : Nat \cup {NoLimit}, concurrent : Nat \cup {NoLimit}]
    /\ Unit \in Nat \ {0} /\ MaxTime \in Nat /\ Capacities \subseteq Nat
    /\ SaturationPct \in Nat

VARIABLES
    enabled,    \* TenantConfig.enabled
    bucketOf,   \* tenant -> TenantBucket, for the tenants seen
    total, used,        \* the capacity view
    request,    \* request -> its call
    time,       \* Instant::now(), in ticks
    taken       \* history: tenant -> the refill instants its tokens were taken at

tenantVars == <<enabled, bucketOf, total, used, request, time, taken>>

NoRequest == [pc |-> "new", tenant |-> CHOOSE t \in Tenants : TRUE, now |-> 0, answer |-> "none"]

TenantInit ==
    /\ enabled \in BOOLEAN
    /\ bucketOf = <<>> /\ total = 100 /\ used = 0
    /\ request = [r \in Requests |-> NoRequest]
    /\ time = 0
    /\ taken = [t \in Tenants |-> <<>>]

-----------------------------------------------------------------------------

OrDefault(v, d) == IF v = NoLimit THEN d ELSE v

\* resolve_quota(): the configured entry, its limits defaulted; only Premium
\* tenants reserve capacity.
ResolveQuota(t) ==
    LET e == Tiers[t] IN
    [ priority   |-> e.priority,
      rate       |-> OrDefault(e.rate, Defaults.rate),
      concurrent |-> OrDefault(e.concurrent, Defaults.concurrent),
      reserved   |-> IF e.priority = "Premium" THEN e.reserved ELSE 0 ]

\* The burst is the rate, at least one token.
Burst(q) == IF q.rate > Unit THEN q.rate ELSE Unit

\* get_or_create_bucket(): a new bucket is full.
Seen(t) ==
    IF t \in DOMAIN bucketOf THEN bucketOf
    ELSE [s \in DOMAIN bucketOf \cup {t} |->
            IF s # t THEN bucketOf[s]
            ELSE [quota |-> ResolveQuota(t), tokens |-> Burst(ResolveQuota(t)),
                  last |-> time, flying |-> 0]]

\* Mutant: the instant of the refill is not remembered.
RefillForgetful(bk, now) ==
    IF now <= bk.last THEN bk
    ELSE [bk EXCEPT !.tokens = Min({@ + (now - bk.last) * bk.quota.rate, Burst(bk.quota)})]

\* refill(): an instant read before another call's refill adds nothing.
Refill(bk, now) ==
    IF now <= bk.last THEN bk
    ELSE [bk EXCEPT !.tokens = Min({@ + (now - bk.last) * bk.quota.rate, Burst(bk.quota)}),
                    !.last = now]

-----------------------------------------------------------------------------
(* check_admission().                                                        *)

Become(r, pc, answer) == request' = [request EXCEPT ![r].pc = pc, ![r].answer = answer]

\* Disabled: admitted at once.  Else the bucket is found and the clock read.
Arrive(r, t) ==
    /\ request[r].pc = "new"
    /\ IF enabled
       THEN /\ bucketOf' = Seen(t)
            /\ request' = [request EXCEPT ![r] = [pc |-> "token", tenant |-> t, now |-> time,
                                                  answer |-> "none"]]
       ELSE /\ request' = [request EXCEPT ![r] = [pc |-> "done", tenant |-> t, now |-> time,
                                                  answer |-> "Admitted"]]
            /\ UNCHANGED bucketOf
    /\ UNCHANGED <<enabled, total, used, time, taken>>

\* try_consume(1.0), under the bucket's lock.  Without a rate the tokens are
\* f64::MAX, from which taking one leaves f64::MAX.
TakeToken(r) ==
    LET t  == request[r].tenant
        bk == Refill(bucketOf[t], request[r].now)
    IN
    /\ request[r].pc = "token"
    /\ \/ /\ bk.quota.rate = NoLimit
          /\ Become(r, "limits", "none")
          /\ UNCHANGED <<bucketOf, taken>>
       \/ /\ bk.quota.rate # NoLimit /\ bk.tokens >= Unit
          /\ bucketOf' = [bucketOf EXCEPT ![t] = [bk EXCEPT !.tokens = @ - Unit]]
          /\ taken' = [taken EXCEPT ![t] = Append(@, bk.last)]
          /\ Become(r, "limits", "none")
       \/ /\ bk.quota.rate # NoLimit /\ bk.tokens < Unit
          /\ bucketOf' = [bucketOf EXCEPT ![t] = bk]
          /\ Become(r, "done", "RateLimited")
          /\ UNCHANGED taken
    /\ UNCHANGED <<enabled, total, used, time>>

\* saturation_state() and total_reserved_fraction(), in percent.
Saturated == used * 100 >= SaturationPct * total
Reserved ==
    LET seen == MapThenSumSet(LAMBDA t : bucketOf[t].quota.reserved, DOMAIN bucketOf)
    IN  Min({seen, 90})

\* The concurrency limit, then the priority when saturated.  The token is spent
\* whatever the answer.
Answer(q, flying) ==
    IF q.concurrent # NoLimit /\ flying >= q.concurrent THEN "RateLimited"
    ELSE IF \/ ~ Saturated
            \/ q.priority = "Premium"
            \/ q.priority = "Normal" /\ used * 100 < (100 - Reserved) * total
    THEN "Admitted"
    ELSE "Queued"

CheckLimits(r) ==
    LET bk == bucketOf[request[r].tenant] IN
    /\ request[r].pc = "limits"
    /\ Become(r, "done", Answer(bk.quota, bk.flying))
    /\ UNCHANGED <<enabled, bucketOf, total, used, time, taken>>

-----------------------------------------------------------------------------

\* record_request_start() and record_request_end().  The counter would wrap at
\* zero, but an end follows its start.
RecordStart(r) ==
    LET t == request[r].tenant IN
    /\ request[r].pc = "done" /\ request[r].answer = "Admitted"
    /\ bucketOf' = [Seen(t) EXCEPT ![t].flying = @ + 1]
    /\ Become(r, "running", "Admitted")
    /\ UNCHANGED <<enabled, total, used, time, taken>>

RecordEnd(r) ==
    /\ request[r].pc = "running"
    /\ bucketOf' = [bucketOf EXCEPT ![request[r].tenant].flying = @ - 1]
    /\ Become(r, "ended", "Admitted")
    /\ UNCHANGED <<enabled, total, used, time, taken>>

\* update_capacity() stores two counters, one after the other.
UpdateTotal(n) ==
    /\ total' = Max({n, 1})
    /\ UNCHANGED <<enabled, bucketOf, used, request, time, taken>>
UpdateUsed(n) ==
    /\ used' = n
    /\ UNCHANGED <<enabled, bucketOf, total, request, time, taken>>

TimePasses ==
    /\ time < MaxTime
    /\ time' = time + 1
    /\ UNCHANGED <<enabled, bucketOf, total, used, request, taken>>

TenantNext ==
    \/ \E r \in Requests :
        \/ \E t \in Tenants : Arrive(r, t)
        \/ TakeToken(r)
        \/ CheckLimits(r)
        \/ RecordStart(r)
        \/ RecordEnd(r)
    \/ \E n \in Capacities : UpdateTotal(n) \/ UpdateUsed(n)
    \/ TimePasses

TenantSpec == TenantInit /\ [][TenantNext]_tenantVars

-----------------------------------------------------------------------------

\* tenant_scheduler.rs limits the rate over every window, not only on average:
\* between any two tokens of a tenant, in the time its bucket has accounted
\* for, no more were taken than one burst and the rate allow, whatever order
\* the callers' clock readings reach the lock in.
RateLimitHolds ==
    \A t \in DOMAIN bucketOf :
        bucketOf[t].quota.rate # NoLimit =>
            \A i, j \in DOMAIN taken[t] :
                i <= j => (j - i + 1) * Unit
                            <= Burst(bucketOf[t].quota)
                               + (taken[t][j] - taken[t][i]) * bucketOf[t].quota.rate

=============================================================================
