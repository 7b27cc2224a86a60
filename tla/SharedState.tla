----------------------------- MODULE SharedState -----------------------------
(* The shared-state store (cluster/shared_state.rs): instances, sessions,    *)
(* prefix history and metrics with a time to live, and locks.  kind selects  *)
(* the implementation: "local" keeps maps and compares expiry times itself,  *)
(* over several steps of a call; "redis" sends commands, each atomic at the  *)
(* server, which drops a key when its time is up, and whose answer may be    *)
(* lost.  A key whose time is up is not told apart from an absent one, so an *)
(* expired entry is kept until something removes it, as the local maps do.   *)
(* Time is finer than a second: both implementations cut a time to live down *)
(* to whole seconds, and the local one its clock too.                        *)
(* Clients are the tasks and gateway instances that use the store; a client  *)
(* counts its hold on a lock from before it asked, and the whole time asked. *)
EXTENDS Integers, FiniteSets, FiniteSetsExt

CONSTANTS
    Kinds,          \* the implementations: "local", "redis"
    Clients,
    Tables,         \* "instances" and the plain tables
    Keys, Values,
    Sec,            \* a second, in units of the clock
    Ttls,           \* times to live, in such units; may be 0
    Locks,
    MaxClock        \* bound on the clock

ASSUME SharedAssumption ==
    /\ Kinds \subseteq {"local", "redis"} /\ "instances" \in Tables
    /\ Sec \in Nat \ {0} /\ Ttls \subseteq Nat /\ MaxClock \in Nat

VARIABLES
    kind,       \* the implementation in use, fixed at start
    entries,    \* table -> key -> [value, until]
    lock,       \* lock -> [holder, until], for the locks present
    client,     \* client -> its call under way
    holds,      \* client -> lock -> until when it believes it holds it
    clock       \* the time, in fractions of a second

sharedVars == <<kind, entries, lock, client, holds, clock>>

NoCall == [pc |-> "idle"]

SharedInit ==
    /\ kind \in Kinds
    /\ entries = [t \in Tables |-> <<>>]
    /\ lock = <<>>
    /\ client = [c \in Clients |-> NoCall]
    /\ holds = [c \in Clients |-> [k \in Locks |-> 0]]
    /\ clock = 0

-----------------------------------------------------------------------------

With(f, k, v) == [x \in DOMAIN f \cup {k} |-> IF x = k THEN v ELSE f[x]]
Minus(f, k) == [x \in DOMAIN f \ {k} |-> f[x]]

\* Duration::as_secs(): the fraction is dropped.
AsSecs(t) == t \div Sec

\* When an entry written at `at` is over.  The local store adds the whole
\* seconds of the time to live to now_unix(), the whole seconds of the clock;
\* Redis counts from the very instant, and at least one second.
Expiry(at, ttl) ==
    IF kind = "local" THEN Sec * (AsSecs(at) + AsSecs(ttl))
    ELSE at + Sec * (IF AsSecs(ttl) > 0 THEN AsSecs(ttl) ELSE 1)

\* The local store compares whole seconds, which is the same: its expiry times
\* are whole seconds, and those above now_unix() are those above the clock.
Live(f, k) == k \in DOMAIN f /\ f[k].until > clock

Store(t, k, e) == entries' = [entries EXCEPT ![t] = With(@, k, e)]

-----------------------------------------------------------------------------
(* Entries.                                                                  *)

\* register_instance(), session_set(), prefix_history_set(), metrics_set().
SetEntry(t, k, v, ttl) ==
    /\ Store(t, k, [value |-> v, until |-> Expiry(clock, ttl)])
    /\ UNCHANGED <<kind, lock, client, holds, clock>>

\* session_get(), prefix_history_get(), metrics_get() of the local store: what
\* was seen expired or missing is removed afterwards, by key.
GetEntry(c, t, k) ==
    /\ kind = "local" /\ t # "instances" /\ client[c].pc = "idle"
    /\ ~ Live(entries[t], k)
    /\ client' = [client EXCEPT ![c] = [pc |-> "evict", t |-> t, k |-> k]]
    /\ UNCHANGED <<kind, entries, lock, holds, clock>>

EvictSeen(c) ==
    /\ client[c].pc = "evict"
    /\ entries' = [entries EXCEPT ![client[c].t] = Minus(@, client[c].k)]
    /\ client' = [client EXCEPT ![c] = NoCall]
    /\ UNCHANGED <<kind, lock, holds, clock>>

\* deregister_instance()
Deregister(k) ==
    /\ entries' = [entries EXCEPT !["instances"] = Minus(@, k)]
    /\ UNCHANGED <<kind, lock, client, holds, clock>>

\* heartbeat() of the local store revives an expired entry and ignores a
\* missing one.
HeartbeatLocal(k, ttl) ==
    /\ kind = "local" /\ k \in DOMAIN entries["instances"]
    /\ Store("instances", k, [entries["instances"][k] EXCEPT !.until = Expiry(clock, ttl)])
    /\ UNCHANGED <<kind, lock, client, holds, clock>>

\* heartbeat() at Redis: EXPIRE, which fails for a missing key, ...
HeartbeatExpire(c, k, ttl) ==
    /\ kind = "redis" /\ client[c].pc = "idle"
    /\ Live(entries["instances"], k)
    /\ Store("instances", k, [entries["instances"][k] EXCEPT !.until = Expiry(clock, ttl)])
    /\ client' = [client EXCEPT ![c] = [pc |-> "get", k |-> k, ttl |-> ttl]]
    /\ UNCHANGED <<kind, lock, holds, clock>>

\* ... then GET, which may find the key gone, ...
HeartbeatGet(c) ==
    LET q == client[c] IN
    /\ q.pc = "get"
    /\ client' = [client EXCEPT ![c] =
            IF Live(entries["instances"], q.k)
            THEN [pc |-> "put", k |-> q.k, ttl |-> q.ttl, v |-> entries["instances"][q.k].value]
            ELSE NoCall]
    /\ UNCHANGED <<kind, entries, lock, holds, clock>>

\* ... then SETEX of what was read, even if the instance deregistered since.
HeartbeatPut(c) ==
    LET q == client[c] IN
    /\ q.pc = "put"
    /\ Store("instances", q.k, [value |-> q.v, until |-> Expiry(clock, q.ttl)])
    /\ client' = [client EXCEPT ![c] = NoCall]
    /\ UNCHANGED <<kind, lock, holds, clock>>

\* A Redis command fails: the call ends with an error.
CommandFails(c) ==
    /\ client[c].pc \in {"get", "put"}
    /\ client' = [client EXCEPT ![c] = NoCall]
    /\ UNCHANGED <<kind, entries, lock, holds, clock>>

\* list_instances() and metrics_get_all(): the entries still alive.
LiveKeys(t) == { k \in DOMAIN entries[t] : Live(entries[t], k) }

-----------------------------------------------------------------------------
(* Locks.                                                                    *)

\* try_lock() reads the clock, and looks at the lock later.
TryLock(c, k, ttl) ==
    /\ client[c].pc = "idle"
    /\ client' = [client EXCEPT ![c] = [pc |-> "lock", k |-> k, now |-> clock, ttl |-> ttl]]
    /\ UNCHANGED <<kind, entries, lock, holds, clock>>

\* The local store takes the lock if it is absent, expired or the holder's own,
\* by the time read; Redis (SET NX EX) only if it is absent or expired.
Obtainable(c, q) ==
    q.k \in DOMAIN lock =>
        IF kind = "local" THEN lock[q.k].until <= q.now \/ lock[q.k].holder = c
                          ELSE lock[q.k].until <= clock

Acquire(c) ==
    LET q == client[c]
        from == IF kind = "local" THEN q.now ELSE clock
    IN
    /\ q.pc = "lock" /\ Obtainable(c, q)
    /\ lock' = With(lock, q.k, [holder |-> c, until |-> Expiry(from, q.ttl)])
    /\ \/ holds' = [holds EXCEPT ![c][q.k] = q.now + q.ttl]
       \/ kind = "redis" /\ UNCHANGED holds       \* the answer is lost
    /\ client' = [client EXCEPT ![c] = NoCall]
    /\ UNCHANGED <<kind, entries, clock>>

LockRefused(c) ==
    /\ client[c].pc = "lock" /\ ~ Obtainable(c, client[c])
    /\ client' = [client EXCEPT ![c] = NoCall]
    /\ UNCHANGED <<kind, entries, lock, holds, clock>>

\* Mutant: the holder is not compared.
UnlockAnyones(c, k) ==
    /\ client[c].pc = "idle"
    /\ lock' = Minus(lock, k)
    /\ holds' = [holds EXCEPT ![c][k] = 0]
    /\ UNCHANGED <<kind, entries, client, clock>>

\* unlock(): only the holder's own lock goes; the caller lets go in any case.
Unlock(c, k) ==
    /\ client[c].pc = "idle"
    /\ lock' = IF k \in DOMAIN lock /\ lock[k].holder = c THEN Minus(lock, k) ELSE lock
    /\ holds' = [holds EXCEPT ![c][k] = 0]
    /\ UNCHANGED <<kind, entries, client, clock>>

-----------------------------------------------------------------------------

ClockTicks ==
    /\ clock < MaxClock
    /\ clock' = clock + 1
    /\ UNCHANGED <<kind, entries, lock, client, holds>>

SharedNext ==
    \/ \E t \in Tables, k \in Keys, v \in Values, ttl \in Ttls : SetEntry(t, k, v, ttl)
    \/ \E k \in Keys : Deregister(k)
    \/ \E k \in Keys, ttl \in Ttls : HeartbeatLocal(k, ttl)
    \/ \E c \in Clients :
        \/ \E t \in Tables, k \in Keys : GetEntry(c, t, k)
        \/ EvictSeen(c)
        \/ \E k \in Keys, ttl \in Ttls : HeartbeatExpire(c, k, ttl)
        \/ HeartbeatGet(c)
        \/ HeartbeatPut(c)
        \/ CommandFails(c)
        \/ \E k \in Locks, ttl \in Ttls : TryLock(c, k, ttl)
        \/ Acquire(c)
        \/ LockRefused(c)
        \/ \E k \in Locks : Unlock(c, k)
    \/ ClockTicks

SharedSpec == SharedInit /\ [][SharedNext]_sharedVars

-----------------------------------------------------------------------------

\* What the truncation may cost: the fraction of the second in which the lock
\* was asked for and the fraction of the time to live, just under a second each.
Truncated == 2 * (Sec - 1)

\* A lock granted by try_lock() excludes the others for the time to live asked
\* for, but for the fractions of a second that the store drops: no two clients
\* both have more than that left, although calls stall between reading the
\* clock and taking the lock, holders unlock after their time is up, and
\* answers are lost.  Of a time to live below a second nothing is promised.
LockExclusive ==
    \A k \in Locks : \A c, d \in Clients :
        holds[c][k] > clock + Truncated /\ holds[d][k] > clock + Truncated => c = d

=============================================================================
