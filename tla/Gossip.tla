------------------------------- MODULE Gossip -------------------------------
(***************************************************************************)
(* Cluster membership: the gossip engine (hier-kv-gateway-cluster/src/     *)
(* gossip.rs) over its member list (member.rs) and the TCP transport       *)
(* (tcp_transport.rs).                                                     *)
(*                                                                         *)
(* Every instance runs three tasks that share the member list: the gossip  *)
(* loop pings members, the probe loop suspects and buries silent ones, and *)
(* the message loop handles one inbound message at a time.  The probe loop *)
(* first clones the list and then marks members one by one, so messages    *)
(* are handled between its scan and its marks.  Only the message loop      *)
(* writes addresses and Regions, so ensure_member's get and upsert are one *)
(* step; so are the sends of a handler, since any of them may be lost.     *)
(*                                                                         *)
(* The transport opens a connection per message: messages overtake each    *)
(* other, are lost, and cannot be sent to an instance that is down.  An    *)
(* instance is its own dial address.  Metadata digests travel along but    *)
(* nothing reads them, so they are left out.                               *)
(***************************************************************************)
EXTENDS Integers, FiniteSets

CONSTANTS
    Nodes,            \* gateway instances
    Regions,
    RegionOf,         \* instance -> the Region it runs in
    Seeds,            \* instance -> its configured seed_peers
    Peers,            \* instance -> addresses its operator registers at run time
    GossipFanout,     \* cluster.gossip_fanout
    ProbeTimeout,     \* cluster.probe_timeout_ms, in clock ticks
    SuspectTimeout,   \* cluster.suspect_timeout_secs, in clock ticks
    MaxCopies,        \* bound: equal messages under way at a time
    None              \* no address, no Region

ASSUME GossipConfig ==
    /\ RegionOf \in [Nodes -> Regions]
    /\ Seeds \in [Nodes -> SUBSET Nodes] /\ Peers \in [Nodes -> SUBSET Nodes]
    /\ GossipFanout \in Nat /\ ProbeTimeout \in Nat /\ SuspectTimeout \in Nat
    /\ MaxCopies \in Nat \ {0}
    /\ None \notin Nodes /\ None \notin Regions

VARIABLES
    up,         \* instance -> is it running
    members,    \* instance -> its MemberList, as a function on all instances
    verdicts,   \* instance -> marks its probe pass has still to make
    network,    \* message -> how many copies are under way
    fresh       \* history: instance -> members heard since its last probe scan,
                \* and those marked although they had been

vars == <<up, members, verdicts, network, fresh>>

Status == {"Absent", "Alive", "Suspect", "Dead"}

\* Silence is told apart only up to here.
MaxAge == (IF ProbeTimeout < SuspectTimeout THEN SuspectTimeout ELSE ProbeTimeout) + 1

\* `age` is the time since last_pong_unix.
Member == [region : Regions \cup {None}, addr : Nodes \cup {None},
           age : 0 .. MaxAge, status : Status]

Absent == [region |-> None, addr |-> None, age |-> 0, status |-> "Absent"]

Messages ==
    [type : {"Ping", "Pong", "Meet"}, from : Nodes, to : Nodes, region : Regions]

Message(type, from, to, region) ==
    [type |-> type, from |-> from, to |-> to, region |-> region]

Alive(n) == { m \in Nodes : members[n][m].status = "Alive" }

\* gossip_fanout.max(DEFAULT_GOSSIP_FANOUT)
Fanout == IF GossipFanout < 3 THEN 3 ELSE GossipFanout

-----------------------------------------------------------------------------

\* ClusterMember::new
NewMember(region, addr) ==
    [region |-> region, addr |-> addr, age |-> 0, status |-> "Alive"]

\* Mutant: an address that came with Meet is forgotten at the next heartbeat.
EnsuredForgets(list, sender, region, addr) ==
    [list EXCEPT ![sender] = NewMember(region, addr)]

\* Mutant: a heartbeat does not lift a suspicion.
EnsuredKeepsStatus(list, sender, region, addr) ==
    [list EXCEPT ![sender] =
        [ NewMember(region, IF addr = None THEN @.addr ELSE addr) EXCEPT !.status =
            IF list[sender].status = "Absent" THEN "Alive" ELSE list[sender].status ]]

\* ensure_member: insert the sender, or refresh it and keep its address if the
\* message brings none.
Ensured(list, sender, region, addr) ==
    [list EXCEPT ![sender] =
        NewMember(region, IF addr = None THEN list[sender].addr ELSE addr)]

\* Messages to an instance that is not live are not sent: the connection fails.
Posted(live, net, ms) ==
    [x \in Messages |-> IF x \in ms /\ live[x.to] /\ net[x] < MaxCopies
                        THEN net[x] + 1 ELSE net[x]]

Taken(net, msg) == [net EXCEPT ![msg] = @ - 1]

\* Pings to the dialable members among ms; the Region sent is regionFor's.
Pings(n, list, ms, regionFor) ==
    { Message("Ping", n, list[m].addr, regionFor[m]) :
        m \in { k \in ms : list[k].addr # None } }

Init ==
    /\ up = [n \in Nodes |-> FALSE]
    /\ members = [n \in Nodes |-> [m \in Nodes |-> Absent]]
    /\ verdicts = [n \in Nodes |-> [m \in Nodes |-> "none"]]
    /\ network = [x \in Messages |-> 0]
    /\ fresh = [n \in Nodes |-> {}]

\* start and join_cluster: the instance listens, its list holds itself, and a
\* Meet goes out to every seed, itself if it is listed, once.
Start(n) ==
    /\ ~up[n]
    /\ up' = [up EXCEPT ![n] = TRUE]
    /\ members' = [members EXCEPT ![n] =
                      [m \in Nodes |-> IF m = n THEN NewMember(RegionOf[n], n) ELSE Absent]]
    /\ network' = Posted(up', network, { Message("Meet", n, s, RegionOf[n]) : s \in Seeds[n] })
    /\ UNCHANGED <<verdicts, fresh>>

\* Mutant: a stopped instance comes back with its old member list.
StopKeepsMembers(n) ==
    /\ up[n]
    /\ up' = [up EXCEPT ![n] = FALSE]
    /\ network' = [x \in Messages |-> IF x.to = n THEN 0 ELSE network[x]]
    /\ UNCHANGED <<members, verdicts, fresh>>

\* stop, or a crash: connections to the instance and its memory are gone.
Stop(n) ==
    /\ up[n]
    /\ up' = [up EXCEPT ![n] = FALSE]
    /\ members' = [members EXCEPT ![n] = [m \in Nodes |-> Absent]]
    /\ verdicts' = [verdicts EXCEPT ![n] = [m \in Nodes |-> "none"]]
    /\ network' = [x \in Messages |-> IF x.to = n THEN 0 ELSE network[x]]
    /\ fresh' = [fresh EXCEPT ![n] = {}]

\* meet_peer, from POST /cluster/peers.
MeetPeer(n, peer) ==
    /\ up[n] /\ peer \in Peers[n]
    /\ network' = Posted(up, network, {Message("Meet", n, peer, RegionOf[n])})
    /\ UNCHANGED <<up, members, verdicts, fresh>>

\* One round of the gossip loop.  The Region it sends is the target's.
GossipRound(n) ==
    /\ up[n]
    /\ LET candidates == Alive(n) \ {n} IN
       \E targets \in SUBSET candidates :
          /\ Cardinality(targets) <= Fanout
          /\ Cardinality(targets) = Fanout \/ targets = candidates
          /\ network' = Posted(up, network, Pings(n, members[n], targets,
                                 [m \in Nodes |-> members[n][m].region]))
    /\ UNCHANGED <<up, members, verdicts, fresh>>

\* message_loop takes a message from the channel; its own are ignored.
Receives(n, msg) ==
    /\ up[n] /\ msg.to = n /\ network[msg] > 0

IgnoreOwn(n, msg) ==
    /\ Receives(n, msg) /\ msg.from = n
    /\ network' = Taken(network, msg)
    /\ UNCHANGED <<up, members, verdicts, fresh>>

Hear(n, msg, addr) ==
    /\ Receives(n, msg) /\ msg.from # n
    /\ members' = [members EXCEPT ![n] = Ensured(@, msg.from, msg.region, addr)]
    /\ fresh' = [fresh EXCEPT ![n] = @ \cup {msg.from}]
    /\ UNCHANGED <<up, verdicts>>

\* A Pong goes back if the sender's address is known.
HandlePing(n, msg) ==
    /\ msg.type = "Ping"
    /\ Hear(n, msg, None)
    /\ LET addr == members[n][msg.from].addr IN
       network' = Posted(up, Taken(network, msg),
                     IF addr = None THEN {} ELSE {Message("Pong", n, addr, RegionOf[n])})

HandlePong(n, msg) ==
    /\ msg.type = "Pong"
    /\ Hear(n, msg, None)
    /\ network' = Taken(network, msg)

\* The newcomer gets a Pong, and every member believed alive a Ping.
HandleMeet(n, msg) ==
    /\ msg.type = "Meet"
    /\ Hear(n, msg, msg.from)
    /\ network' = Posted(up, Taken(network, msg),
                     {Message("Pong", n, msg.from, RegionOf[n])}
                     \cup Pings(n, members'[n], (Alive(n) \cup {msg.from}) \ {n},
                                [m \in Nodes |-> RegionOf[n]]))

Deliver(n, msg) ==
    IgnoreOwn(n, msg) \/ HandlePing(n, msg) \/ HandlePong(n, msg) \/ HandleMeet(n, msg)

\* The connection breaks after it was accepted.
Lose(msg) ==
    /\ network[msg] > 0
    /\ network' = Taken(network, msg)
    /\ UNCHANGED <<up, members, verdicts, fresh>>

\* Mutant: a member just at its timeout is accused.
VerdictEager(n, m) ==
    LET e == members[n][m] IN
    IF m = n THEN "none"
    ELSE IF e.status = "Alive" /\ e.age >= ProbeTimeout THEN "suspect"
    ELSE IF e.status = "Suspect" /\ e.age >= SuspectTimeout THEN "dead"
    ELSE "none"

\* Mutant: an instance probes itself.
VerdictOnSelf(n, m) ==
    LET e == members[n][m] IN
    IF e.status = "Alive" /\ e.age > ProbeTimeout THEN "suspect"
    ELSE IF e.status = "Suspect" /\ e.age > SuspectTimeout THEN "dead"
    ELSE "none"

\* Mutant: a Suspect is never confirmed.
VerdictLenient(n, m) ==
    LET e == members[n][m] IN
    IF m # n /\ e.status = "Alive" /\ e.age > ProbeTimeout THEN "suspect" ELSE "none"

\* What the probe loop decides about m from the clone of its entry.
Verdict(n, m) ==
    LET e == members[n][m] IN
    IF m = n THEN "none"
    ELSE IF e.status = "Alive" /\ e.age > ProbeTimeout THEN "suspect"
    ELSE IF e.status = "Suspect" /\ e.age > SuspectTimeout THEN "dead"
    ELSE "none"

PassOver(n) == \A m \in Nodes : verdicts[n][m] = "none"

\* The probe loop clones the member list.
ProbeScan(n) ==
    /\ up[n] /\ PassOver(n)
    /\ verdicts' = [verdicts EXCEPT ![n] = [m \in Nodes |-> Verdict(n, m)]]
    /\ fresh' = [fresh EXCEPT ![n] = @ \ Alive(n)]
    /\ UNCHANGED <<up, members, network>>

\* mark_suspect or mark_dead, without a second look at the entry.
ProbeMark(n, m) ==
    /\ verdicts[n][m] # "none"
    /\ members' = [members EXCEPT ![n][m].status =
                      IF verdicts[n][m] = "suspect" THEN "Suspect" ELSE "Dead"]
    /\ verdicts' = [verdicts EXCEPT ![n][m] = "none"]
    /\ UNCHANGED <<up, network, fresh>>

Probe(n) == ProbeScan(n) \/ \E m \in Nodes : ProbeMark(n, m)

\* The wall clock of n goes on.
Aged(e) == IF e.status = "Absent" \/ e.age = MaxAge THEN e
           ELSE [e EXCEPT !.age = @ + 1]

Tick(n) ==
    /\ up[n]
    /\ members' = [members EXCEPT ![n] = [m \in Nodes |-> Aged(members[n][m])]]
    /\ UNCHANGED <<up, verdicts, network, fresh>>

Next ==
    \/ \E n \in Nodes :
         \/ Start(n) \/ Stop(n) \/ GossipRound(n) \/ Probe(n) \/ Tick(n)
         \/ \E m \in Nodes : MeetPeer(n, m)
    \/ \E msg \in Messages : Deliver(msg.to, msg) \/ Lose(msg)

Spec == Init /\ [][Next]_vars

\* The loops of a running instance are scheduled and its clock goes on; of the
\* Pings an instance keeps receiving, the message loop handles some.
FairSpec ==
    /\ Spec
    /\ \A n \in Nodes :
         /\ WF_vars(Tick(n)) /\ WF_vars(Probe(n)) /\ WF_vars(GossipRound(n))
         /\ \A m \in Nodes \ {n} :
              SF_vars(\E r \in Regions : HandlePing(n, Message("Ping", m, n, r)))

-----------------------------------------------------------------------------
(* Properties.                                                              *)

\* Type invariant; an instance that is down has no memory, and none of the
\* connections to it survive.
TypeOK ==
    /\ up \in [Nodes -> BOOLEAN]
    /\ members \in [Nodes -> [Nodes -> Member]]
    /\ verdicts \in [Nodes -> [Nodes -> {"none", "suspect", "dead"}]]
    /\ network \in [Messages -> 0 .. MaxCopies]
    /\ fresh \in [Nodes -> SUBSET Nodes]
    /\ \A n \in Nodes : ~up[n] => members[n] = [m \in Nodes |-> Absent]
    /\ \A x \in Messages : ~up[x.to] => network[x] = 0

\* A running instance never buries itself: whatever messages it gets, its own
\* address among its seeds included, its entry stays alive, in its Region and
\* at its address, although nothing ever refreshes its heartbeat.
OwnEntryIntact ==
    \A n \in Nodes : up[n] =>
        LET e == members[n][n] IN
        e.status = "Alive" /\ e.region = RegionOf[n] /\ e.addr = n

\* Suspicion is earned by silence.  A Suspect was silent for longer than the
\* probe timeout and a Dead member for longer than the suspect timeout, except
\* if a message from it was handled while the probe pass that marked it was
\* under way.
AccusedWereSilent ==
    \A n, m \in Nodes :
        LET e == members[n][m] IN
        m \notin fresh[n] =>
            /\ e.status = "Suspect" => e.age > ProbeTimeout
            /\ e.status = "Dead" => e.age > SuspectTimeout

\* A member whose address is known keeps it for as long as the instance runs:
\* heartbeats, which carry no address, never make a member undialable.
AddressesAreKept ==
    [][\A n, m \in Nodes :
          up[n] /\ up'[n] /\ members[n][m].addr # None
              => members'[n][m].addr = members[n][m].addr]_vars

\* An instance that is down for good is, for every instance that runs on,
\* sooner or later no longer a member, and stays so.
FailuresDetected ==
    \A n, m \in Nodes :
        n # m /\ <>[](up[n] /\ ~up[m])
            => <>[](members[n][m].status \in {"Absent", "Dead"})

\* m believes n is alive and can dial it.
Dials(m, n) == members[m][n].status = "Alive" /\ members[m][n].addr = n

\* A false suspicion heals: while m goes on pinging n, n comes to hold m alive
\* again and again, whatever its probe loop marked.
PingersRevive ==
    \A n, m \in Nodes :
        n # m /\ <>[](up[n] /\ up[m] /\ Dials(m, n))
            => []<>(members[n][m].status = "Alive")

\* ensure_member's comment: a member that does not exist is inserted with the
\* address provided.  So whoever is believed alive can be dialled.
AddressIsProvided ==
    \A n, m \in Nodes : members[n][m].status = "Alive" => members[n][m].addr # None

=============================================================================
