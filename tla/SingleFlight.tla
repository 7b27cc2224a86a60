---------------------------- MODULE SingleFlight ----------------------------
(***************************************************************************)
(* What request coalescing promises (hier-kv-gateway-core/src/coalescing.rs *)
(* and the module comment of hier-kv-gateway-api/src/coalescer.rs), with    *)
(* nothing of how it is done: per key one current flight at most, a flight  *)
(* that lands once, and callers answered with the result of the flight they *)
(* hold a ticket for.  A flight is named after the caller that started it.  *)
(***************************************************************************)
CONSTANTS
    Callers,   \* requests
    Keys,      \* semantic request keys
    KeyOf,     \* caller -> its key
    None       \* no flight

VARIABLES
    current,   \* key -> the flight callers of this key join
    ticket,    \* caller -> the flight it waits for
    outcome,   \* flight -> "none" until it lands, then its result
    answer     \* caller -> the result it was given

sfVars == <<current, ticket, outcome, answer>>

Results == {"ok", "err"}

SFInit ==
    /\ current = [k \in Keys |-> None]
    /\ ticket = [c \in Callers |-> None]
    /\ outcome = [c \in Callers |-> "none"]
    /\ answer = [c \in Callers |-> "none"]

\* The first caller of a key starts its flight.
Lead(c) ==
    /\ ticket[c] = None
    /\ current[KeyOf[c]] = None
    /\ current' = [current EXCEPT ![KeyOf[c]] = c]
    /\ ticket' = [ticket EXCEPT ![c] = c]
    /\ UNCHANGED <<outcome, answer>>

\* A later one shares the current flight, landed or not.
Join(c) ==
    /\ ticket[c] = None
    /\ current[KeyOf[c]] # None
    /\ ticket' = [ticket EXCEPT ![c] = current[KeyOf[c]]]
    /\ UNCHANGED <<current, outcome, answer>>

\* A caller may also fly alone, unseen by the others.
Solo(c) ==
    /\ ticket[c] = None
    /\ ticket' = [ticket EXCEPT ![c] = c]
    /\ UNCHANGED <<current, outcome, answer>>

Land(f) ==
    /\ ticket[f] = f
    /\ outcome[f] = "none"
    /\ \E res \in Results : outcome' = [outcome EXCEPT ![f] = res]
    /\ UNCHANGED <<current, ticket, answer>>

\* Only a landed flight stops being current.
Retire(k) ==
    /\ current[k] # None
    /\ outcome[current[k]] # "none"
    /\ current' = [current EXCEPT ![k] = None]

\* A caller is answered; a flight may be retired in the same step.
Answer(c) ==
    /\ ticket[c] # None
    /\ answer[c] = "none"
    /\ outcome[ticket[c]] # "none"
    /\ answer' = [answer EXCEPT ![c] = outcome[ticket[c]]]
    /\ (UNCHANGED current \/ Retire(KeyOf[c]))
    /\ UNCHANGED <<ticket, outcome>>

SFNext ==
    \/ \E c \in Callers : Lead(c) \/ Join(c) \/ Solo(c) \/ Land(c) \/ Answer(c)
    \/ \E k \in Keys : Retire(k) /\ UNCHANGED <<ticket, outcome, answer>>

SFSpec == SFInit /\ [][SFNext]_sfVars

=============================================================================
