---------------------------- MODULE Gossip_proofs ----------------------------
(***************************************************************************)
(* Proofs about module Gossip, for any number of instances, Regions, seeds *)
(* and any timeouts.                                                       *)
(***************************************************************************)
EXTENDS Gossip, TLAPS

\* A mark the probe pass has still to make was earned when the list was
\* cloned; only a message from the member since then can have made it stale.
VerdictsJustified ==
    \A n, m \in Nodes :
        verdicts[n][m] # "none" =>
            /\ up[n] /\ m # n
            /\ m \notin fresh[n] =>
                 /\ verdicts[n][m] = "suspect" => members[n][m].age > ProbeTimeout
                 /\ verdicts[n][m] = "dead" => members[n][m].age > SuspectTimeout

\* Meet carries the sender's own address, and nothing else carries any.
AddressesRight ==
    \A n, m \in Nodes : members[n][m].addr \in {None, m}

\* The inductive invariant.
Inv ==
    /\ TypeOK
    /\ OwnEntryIntact
    /\ AccusedWereSilent
    /\ VerdictsJustified
    /\ AddressesRight

\* Thresholds lie below the age at which silence saturates.
LEMMA AgesBounded ==
    /\ MaxAge \in Nat
    /\ MaxAge > ProbeTimeout
    /\ MaxAge > SuspectTimeout
BY GossipConfig DEF MaxAge

\* Sending keeps the network well formed and sends nothing to an instance that
\* is down.
LEMMA PostedType ==
    ASSUME NEW net \in [Messages -> 0 .. MaxCopies], NEW ms, NEW live
    PROVE  /\ Posted(live, net, ms) \in [Messages -> 0 .. MaxCopies]
           /\ \A x \in Messages : ~live[x.to] => Posted(live, net, ms)[x] = net[x]
BY GossipConfig DEF Posted

\* Taking a message that is there keeps the network well formed.
LEMMA TakenType ==
    ASSUME NEW net \in [Messages -> 0 .. MaxCopies],
           NEW msg \in Messages, net[msg] > 0
    PROVE  /\ Taken(net, msg) \in [Messages -> 0 .. MaxCopies]
           /\ \A x \in Messages : net[x] = 0 => Taken(net, msg)[x] = 0
BY GossipConfig DEF Taken

\* ensure_member makes the sender alive and leaves everybody else alone.
LEMMA EnsuredEntry ==
    ASSUME NEW list \in [Nodes -> Member], NEW sender \in Nodes,
           NEW region \in Regions, NEW addr \in {None, sender},
           list[sender].addr \in {None, sender}
    PROVE  LET l == Ensured(list, sender, region, addr) IN
           /\ l \in [Nodes -> Member]
           /\ l[sender].status = "Alive"
           /\ l[sender].addr \in {None, sender}
           /\ list[sender].addr # None => l[sender].addr = list[sender].addr
           /\ \A m \in Nodes \ {sender} : l[m] = list[m]
<1> DEFINE a == IF addr = None THEN list[sender].addr ELSE addr
<1>1. a \in {None, sender} /\ (list[sender].addr # None => a = list[sender].addr)
  BY GossipConfig
<1>2. NewMember(region, a) \in Member
  BY <1>1, AgesBounded DEF NewMember, Member, Status
<1>3. Ensured(list, sender, region, addr) = [list EXCEPT ![sender] = NewMember(region, a)]
  BY DEF Ensured
<1>4. NewMember(region, a).status = "Alive" /\ NewMember(region, a).addr = a
  BY DEF NewMember
<1> QED
  BY <1>1, <1>2, <1>3, <1>4

\* The steps that leave the member lists and the probe passes alone.
LEMMA QuietStep ==
    ASSUME Inv, UNCHANGED <<up, members, verdicts, fresh>>,
           network' \in [Messages -> 0 .. MaxCopies],
           \A x \in Messages : ~up[x.to] => network'[x] = 0
    PROVE  Inv' /\ (\A n, m \in Nodes : members'[n][m].addr = members[n][m].addr)
BY DEF Inv, TypeOK, OwnEntryIntact, AccusedWereSilent, VerdictsJustified, AddressesRight

\* A message from somebody else is heard.
LEMMA HearStep ==
    ASSUME Inv, NEW n \in Nodes, NEW msg \in Messages, NEW addr \in {None, msg.from},
           Hear(n, msg, addr),
           network' \in [Messages -> 0 .. MaxCopies],
           \A x \in Messages : ~up[x.to] => network'[x] = 0
    PROVE  /\ Inv'
           /\ \A k, m \in Nodes : members[k][m].addr # None
                                    => members'[k][m].addr = members[k][m].addr
<1> DEFINE s == msg.from
<1>1. s \in Nodes /\ msg.region \in Regions /\ s # n /\ up[n]
  BY DEF Messages, Hear, Receives
<1>2. /\ members \in [Nodes -> [Nodes -> Member]]
      /\ members[n] \in [Nodes -> Member]
      /\ members[n][s].addr \in {None, s}
  BY <1>1 DEF Inv, TypeOK, AddressesRight
<1> DEFINE l == Ensured(members[n], s, msg.region, addr)
<1>3. /\ l \in [Nodes -> Member]
      /\ l[s].status = "Alive"
      /\ l[s].addr \in {None, s}
      /\ members[n][s].addr # None => l[s].addr = members[n][s].addr
      /\ \A m \in Nodes \ {s} : l[m] = members[n][m]
  BY <1>1, <1>2, EnsuredEntry
<1>4. members' = [members EXCEPT ![n] = l]
  BY DEF Hear
<1> HIDE DEF l
<1>5. /\ members'[n] = l
      /\ \A k \in Nodes \ {n} : members'[k] = members[k]
      /\ members' \in [Nodes -> [Nodes -> Member]]
  BY <1>2, <1>3, <1>4
<1>6. /\ fresh' \in [Nodes -> SUBSET Nodes]
      /\ fresh'[n] = fresh[n] \cup {s}
      /\ \A k \in Nodes \ {n} : fresh'[k] = fresh[k]
      /\ up' = up /\ verdicts' = verdicts
  BY <1>1 DEF Hear, Inv, TypeOK
<1>7. TypeOK'
  BY <1>1, <1>5, <1>6 DEF Inv, TypeOK
<1>8. OwnEntryIntact'
  BY <1>1, <1>3, <1>5, <1>6 DEF Inv, OwnEntryIntact
<1>9. AccusedWereSilent'
  BY <1>1, <1>3, <1>5, <1>6 DEF Inv, AccusedWereSilent
<1>10. VerdictsJustified'
  BY <1>1, <1>3, <1>5, <1>6 DEF Inv, VerdictsJustified
<1>11. AddressesRight'
  BY <1>1, <1>3, <1>5 DEF Inv, AddressesRight
<1> QED
  BY <1>1, <1>3, <1>5, <1>7, <1>8, <1>9, <1>10, <1>11 DEF Inv

-----------------------------------------------------------------------------

\* What every step keeps: the invariant, and the addresses of an instance that
\* runs before and after it.
Kept ==
    /\ Inv'
    /\ \A n, m \in Nodes :
          up[n] /\ up'[n] /\ members[n][m].addr # None
              => members'[n][m].addr = members[n][m].addr

LEMMA InitInv == Init => Inv
<1> SUFFICES ASSUME Init PROVE Inv
  OBVIOUS
<1>1. Absent \in Member
  BY AgesBounded DEF Absent, Member, Status
<1>2. TypeOK
  BY <1>1, GossipConfig DEF Init, TypeOK
<1>3. AccusedWereSilent /\ AddressesRight
  BY DEF Init, AccusedWereSilent, AddressesRight, Absent
<1>4. OwnEntryIntact /\ VerdictsJustified
  BY DEF Init, OwnEntryIntact, VerdictsJustified
<1> QED
  BY <1>2, <1>3, <1>4 DEF Inv

LEMMA StartKeeps == ASSUME Inv, NEW n \in Nodes, Start(n) PROVE Kept
<1> DEFINE list == [m \in Nodes |-> IF m = n THEN NewMember(RegionOf[n], n) ELSE Absent]
<1>1. Absent \in Member /\ NewMember(RegionOf[n], n) \in Member
  BY AgesBounded, GossipConfig DEF Absent, NewMember, Member, Status
<1>2. /\ list \in [Nodes -> Member]
      /\ list[n].status = "Alive" /\ list[n].region = RegionOf[n] /\ list[n].addr = n
      /\ \A m \in Nodes \ {n} : list[m].status = "Absent" /\ list[m].addr = None
  BY <1>1 DEF NewMember, Absent
<1>3. members' = [members EXCEPT ![n] = list]
  BY DEF Start
<1> HIDE DEF list
<1>4. /\ members'[n] = list
      /\ \A k \in Nodes \ {n} : members'[k] = members[k]
      /\ members' \in [Nodes -> [Nodes -> Member]]
  BY <1>2, <1>3 DEF Inv, TypeOK
<1>5. /\ up' \in [Nodes -> BOOLEAN] /\ up'[n] /\ ~up[n]
      /\ \A k \in Nodes \ {n} : up'[k] = up[k]
      /\ verdicts' = verdicts /\ fresh' = fresh
  BY DEF Start, Inv, TypeOK
<1>6. /\ network' \in [Messages -> 0 .. MaxCopies]
      /\ \A x \in Messages : ~up'[x.to] => network'[x] = network[x]
  <2>1. \E ms : network' = Posted(up', network, ms)
    BY DEF Start
  <2> QED
    BY <2>1, PostedType DEF Inv, TypeOK
<1>7. \A x \in Messages : ~up'[x.to] => network'[x] = 0
  BY <1>5, <1>6 DEF Messages, Inv, TypeOK
<1>8. TypeOK'
  BY <1>4, <1>5, <1>6, <1>7 DEF Inv, TypeOK
<1>9. OwnEntryIntact'
  BY <1>2, <1>4, <1>5 DEF Inv, OwnEntryIntact
<1>10. AccusedWereSilent'
  BY <1>2, <1>4, <1>5 DEF Inv, AccusedWereSilent
<1>11. VerdictsJustified'
  BY <1>2, <1>4, <1>5 DEF Inv, VerdictsJustified
<1>12. AddressesRight'
  BY <1>2, <1>4 DEF Inv, AddressesRight
<1> QED
  BY <1>4, <1>5, <1>8, <1>9, <1>10, <1>11, <1>12 DEF Kept, Inv

LEMMA StopKeeps == ASSUME Inv, NEW n \in Nodes, Stop(n) PROVE Kept
<1>1. Absent \in Member /\ Absent.status = "Absent" /\ Absent.addr = None
  BY AgesBounded DEF Absent, Member, Status
<1>2. /\ members'[n] = [m \in Nodes |-> Absent]
      /\ \A k \in Nodes \ {n} : members'[k] = members[k]
      /\ members' \in [Nodes -> [Nodes -> Member]]
  BY <1>1 DEF Stop, Inv, TypeOK
<1>3. /\ up' \in [Nodes -> BOOLEAN] /\ ~up'[n]
      /\ \A k \in Nodes \ {n} : up'[k] = up[k]
  BY DEF Stop, Inv, TypeOK
<1>4. /\ verdicts' \in [Nodes -> [Nodes -> {"none", "suspect", "dead"}]]
      /\ \A m \in Nodes : verdicts'[n][m] = "none"
      /\ \A k \in Nodes \ {n} : verdicts'[k] = verdicts[k]
      /\ fresh' \in [Nodes -> SUBSET Nodes]
      /\ \A k \in Nodes \ {n} : fresh'[k] = fresh[k]
  BY DEF Stop, Inv, TypeOK
<1>5. /\ network' \in [Messages -> 0 .. MaxCopies]
      /\ \A x \in Messages : ~up'[x.to] => network'[x] = 0
  <2>1. \A x \in Messages : x.to \in Nodes
    BY DEF Messages
  <2>2. network' = [x \in Messages |-> IF x.to = n THEN 0 ELSE network[x]]
    BY DEF Stop
  <2>3. network' \in [Messages -> 0 .. MaxCopies]
    BY <2>2, GossipConfig DEF Inv, TypeOK
  <2>4. \A x \in Messages : ~up'[x.to] => network'[x] = 0
    BY <2>1, <2>2, <1>3 DEF Inv, TypeOK
  <2> QED
    BY <2>3, <2>4
<1>6. TypeOK'
  BY <1>2, <1>3, <1>4, <1>5 DEF Inv, TypeOK
<1>7. OwnEntryIntact'
  BY <1>2, <1>3 DEF Inv, OwnEntryIntact
<1>8. AccusedWereSilent'
  BY <1>1, <1>2, <1>4 DEF Inv, AccusedWereSilent
<1>9. VerdictsJustified'
  BY <1>2, <1>3, <1>4 DEF Inv, VerdictsJustified
<1>10. AddressesRight'
  BY <1>1, <1>2 DEF Inv, AddressesRight
<1> QED
  BY <1>2, <1>3, <1>6, <1>7, <1>8, <1>9, <1>10 DEF Kept, Inv

LEMMA SendKeeps ==
    ASSUME Inv, NEW n \in Nodes,
           GossipRound(n) \/ \E peer \in Nodes : MeetPeer(n, peer)
    PROVE  Kept
<1>1. \E ms : network' = Posted(up, network, ms)
  BY DEF GossipRound, MeetPeer
<1>2. /\ network' \in [Messages -> 0 .. MaxCopies]
      /\ \A x \in Messages : ~up[x.to] => network'[x] = 0
  BY <1>1, PostedType DEF Inv, TypeOK
<1>3. UNCHANGED <<up, members, verdicts, fresh>>
  BY DEF GossipRound, MeetPeer
<1> QED
  BY <1>2, <1>3, QuietStep DEF Kept

LEMMA DeliverKeeps ==
    ASSUME Inv, NEW msg \in Messages, Deliver(msg.to, msg) \/ Lose(msg)
    PROVE  Kept
<1> DEFINE n == msg.to
           left == Taken(network, msg)
<1>1. n \in Nodes /\ msg.from \in Nodes
  BY DEF Messages
<1>2. network[msg] > 0
  BY DEF Deliver, IgnoreOwn, HandlePing, HandlePong, HandleMeet, Hear, Receives, Lose
<1>3. /\ left \in [Messages -> 0 .. MaxCopies]
      /\ \A x \in Messages : ~up[x.to] => left[x] = 0
  BY <1>2, TakenType DEF Inv, TypeOK
<1> HIDE DEF left
<1>4. CASE IgnoreOwn(n, msg) \/ Lose(msg)
  <2>1. network' = left /\ UNCHANGED <<up, members, verdicts, fresh>>
    BY <1>4 DEF IgnoreOwn, Lose, left
  <2> QED
    BY <2>1, <1>3, QuietStep DEF Kept
<1>5. CASE HandlePing(n, msg) \/ HandlePong(n, msg) \/ HandleMeet(n, msg)
  <2>1. \E addr \in {None, msg.from} : Hear(n, msg, addr)
    BY <1>5 DEF HandlePing, HandlePong, HandleMeet
  <2>2. network' = left \/ \E ms : network' = Posted(up, left, ms)
    BY <1>5 DEF HandlePing, HandlePong, HandleMeet, left
  <2>3. /\ network' \in [Messages -> 0 .. MaxCopies]
        /\ \A x \in Messages : ~up[x.to] => network'[x] = 0
    BY <2>2, <1>3, PostedType
  <2> QED
    BY <1>1, <2>1, <2>3, HearStep DEF Kept
<1> QED
  BY <1>4, <1>5 DEF Deliver

LEMMA ScanKeeps == ASSUME Inv, NEW n \in Nodes, ProbeScan(n) PROVE Kept
<1>1. /\ UNCHANGED <<up, members, network>> /\ up[n]
      /\ verdicts' = [verdicts EXCEPT ![n] = [m \in Nodes |-> Verdict(n, m)]]
      /\ fresh' = [fresh EXCEPT ![n] = @ \ Alive(n)]
  BY DEF ProbeScan
<1>2. \A m \in Nodes :
         /\ Verdict(n, m) \in {"none", "suspect", "dead"}
         /\ Verdict(n, m) # "none" => m # n
         /\ Verdict(n, m) = "suspect" => members[n][m].age > ProbeTimeout
         /\ Verdict(n, m) = "dead" => members[n][m].age > SuspectTimeout
  BY DEF Verdict
<1>3. /\ verdicts' \in [Nodes -> [Nodes -> {"none", "suspect", "dead"}]]
      /\ \A m \in Nodes : verdicts'[n][m] = Verdict(n, m)
      /\ \A k \in Nodes \ {n} : verdicts'[k] = verdicts[k]
  BY <1>1, <1>2 DEF Inv, TypeOK
<1>4. /\ fresh' \in [Nodes -> SUBSET Nodes]
      /\ \A m \in Nodes : m \notin fresh'[n]
            => m \notin fresh[n] \/ members[n][m].status = "Alive"
      /\ \A k \in Nodes \ {n} : fresh'[k] = fresh[k]
  BY <1>1 DEF Inv, TypeOK, Alive
<1>5. TypeOK' /\ OwnEntryIntact' /\ AddressesRight'
  BY <1>1, <1>3, <1>4 DEF Inv, TypeOK, OwnEntryIntact, AddressesRight
<1>6. AccusedWereSilent'
  BY <1>1, <1>4 DEF Inv, AccusedWereSilent
<1>7. VerdictsJustified'
  BY <1>1, <1>2, <1>3, <1>4 DEF Inv, VerdictsJustified
<1> QED
  BY <1>1, <1>5, <1>6, <1>7 DEF Kept, Inv

LEMMA MarkKeeps == ASSUME Inv, NEW n \in Nodes, NEW m \in Nodes, ProbeMark(n, m) PROVE Kept
<1> DEFINE e == members[n][m]
           marked == [e EXCEPT !.status = IF verdicts[n][m] = "suspect" THEN "Suspect" ELSE "Dead"]
<1>1. /\ verdicts[n][m] \in {"suspect", "dead"} /\ up[n] /\ m # n
      /\ e \in Member
  BY DEF ProbeMark, Inv, VerdictsJustified, TypeOK
<1>2. /\ marked \in Member
      /\ marked.addr = e.addr /\ marked.age = e.age
      /\ marked.status = "Suspect" => verdicts[n][m] = "suspect"
      /\ marked.status = "Dead" => verdicts[n][m] = "dead"
      /\ marked.status \in {"Suspect", "Dead"}
  BY <1>1 DEF Member, Status
<1>3. members' = [members EXCEPT ![n] = [members[n] EXCEPT ![m] = marked]]
  BY DEF ProbeMark, Inv, TypeOK
<1> HIDE DEF marked
<1>4. /\ members' \in [Nodes -> [Nodes -> Member]]
      /\ members'[n][m] = marked
      /\ \A k, j \in Nodes : <<k, j>> # <<n, m>> => members'[k][j] = members[k][j]
      /\ \A k \in Nodes \ {n} : members'[k] = members[k]
  BY <1>2, <1>3 DEF Inv, TypeOK
<1>5. /\ verdicts' \in [Nodes -> [Nodes -> {"none", "suspect", "dead"}]]
      /\ verdicts'[n][m] = "none"
      /\ \A k, j \in Nodes : <<k, j>> # <<n, m>> => verdicts'[k][j] = verdicts[k][j]
      /\ UNCHANGED <<up, network, fresh>>
  BY DEF ProbeMark, Inv, TypeOK
<1>6. TypeOK'
  BY <1>1, <1>4, <1>5 DEF Inv, TypeOK
<1>7. OwnEntryIntact'
  <2> SUFFICES ASSUME NEW k \in Nodes, up[k] PROVE members'[k][k] = members[k][k]
    BY <1>5 DEF Inv, OwnEntryIntact
  <2> QED
    BY <1>1, <1>4
<1>8. AccusedWereSilent'
  <2> SUFFICES ASSUME NEW k \in Nodes, NEW j \in Nodes, j \notin fresh[k]
               PROVE  /\ members'[k][j].status = "Suspect" => members'[k][j].age > ProbeTimeout
                      /\ members'[k][j].status = "Dead" => members'[k][j].age > SuspectTimeout
    BY <1>5 DEF AccusedWereSilent
  <2>1. CASE <<k, j>> = <<n, m>>
    BY <2>1, <1>1, <1>2, <1>4 DEF Inv, VerdictsJustified
  <2>2. CASE <<k, j>> # <<n, m>>
    BY <2>2, <1>4 DEF Inv, AccusedWereSilent
  <2> QED
    BY <2>1, <2>2
<1>9. VerdictsJustified'
  <2> SUFFICES ASSUME NEW k \in Nodes, NEW j \in Nodes, verdicts'[k][j] # "none"
               PROVE  members'[k][j] = members[k][j] /\ verdicts'[k][j] = verdicts[k][j]
    BY <1>5 DEF Inv, VerdictsJustified
  <2> QED
    BY <1>4, <1>5
<1>10. \A k, j \in Nodes : members'[k][j].addr = members[k][j].addr
  BY <1>2, <1>4
<1>11. AddressesRight'
  BY <1>10 DEF Inv, AddressesRight
<1> QED
  BY <1>6, <1>7, <1>8, <1>9, <1>10, <1>11 DEF Kept, Inv

LEMMA TickKeeps == ASSUME Inv, NEW n \in Nodes, Tick(n) PROVE Kept
<1>1. \A e \in Member :
         /\ Aged(e) \in Member
         /\ Aged(e).addr = e.addr /\ Aged(e).status = e.status /\ Aged(e).region = e.region
         /\ e.age \in Int /\ Aged(e).age \in Int /\ Aged(e).age >= e.age
  BY AgesBounded DEF Aged, Member
<1>2. /\ members' \in [Nodes -> [Nodes -> Member]]
      /\ \A m \in Nodes : members'[n][m] = Aged(members[n][m])
      /\ \A k \in Nodes \ {n} : members'[k] = members[k]
  BY <1>1 DEF Tick, Inv, TypeOK
<1>3. UNCHANGED <<up, verdicts, network, fresh>> /\ up[n]
  BY DEF Tick
<1>4. \A k, m \in Nodes :
         /\ members'[k][m].addr = members[k][m].addr
         /\ members'[k][m].status = members[k][m].status
         /\ members'[k][m].region = members[k][m].region
         /\ members[k][m].age \in Int /\ members'[k][m].age \in Int
         /\ members'[k][m].age >= members[k][m].age
  <2> TAKE k, m \in Nodes
  <2>1. members[k][m] \in Member
    BY DEF Inv, TypeOK
  <2>2. members'[k][m] = Aged(members[k][m]) \/ members'[k][m] = members[k][m]
    BY <1>2
  <2>3. members[k][m].age \in Int
    BY <1>1, <2>1
  <2>4. CASE members'[k][m] = Aged(members[k][m])
    BY <1>1, <2>1, <2>4
  <2>5. CASE members'[k][m] = members[k][m]
    BY <2>3, <2>5
  <2> QED
    BY <2>2, <2>4, <2>5
<1>5. TypeOK'
  BY <1>2, <1>3 DEF Inv, TypeOK
<1>6. OwnEntryIntact' /\ AddressesRight'
  BY <1>3, <1>4 DEF Inv, OwnEntryIntact, AddressesRight
<1>7. AccusedWereSilent'
  BY <1>3, <1>4, GossipConfig DEF Inv, AccusedWereSilent
<1>8. VerdictsJustified'
  BY <1>3, <1>4, GossipConfig DEF Inv, VerdictsJustified
<1> QED
  BY <1>4, <1>5, <1>6, <1>7, <1>8 DEF Kept, Inv

\* Every step of the cluster keeps the invariant and the addresses.
LEMMA StepKeeps == Inv /\ [Next]_vars => Kept
<1> SUFFICES ASSUME Inv, [Next]_vars PROVE Kept
  OBVIOUS
<1>1. CASE UNCHANGED vars
  <2>1. UNCHANGED <<up, members, verdicts, fresh>> /\ network' = network
    BY <1>1 DEF vars
  <2> QED
    BY <2>1, QuietStep DEF Kept, Inv, TypeOK
<1>2. ASSUME NEW n \in Nodes, Start(n) PROVE Kept
  BY <1>2, StartKeeps
<1>3. ASSUME NEW n \in Nodes, Stop(n) PROVE Kept
  BY <1>3, StopKeeps
<1>4. ASSUME NEW n \in Nodes, GossipRound(n) \/ \E m \in Nodes : MeetPeer(n, m) PROVE Kept
  BY <1>4, SendKeeps
<1>5. ASSUME NEW n \in Nodes, Probe(n) PROVE Kept
  BY <1>5, ScanKeeps, MarkKeeps DEF Probe
<1>6. ASSUME NEW n \in Nodes, Tick(n) PROVE Kept
  BY <1>6, TickKeeps
<1>7. ASSUME NEW msg \in Messages, Deliver(msg.to, msg) \/ Lose(msg) PROVE Kept
  BY <1>7, DeliverKeeps
<1> QED
  BY <1>1, <1>2, <1>3, <1>4, <1>5, <1>6, <1>7 DEF Next

\* An instance never suspects itself, and suspects others only after the
\* silence that the timeouts ask for, unless a message overtakes its probe
\* pass: in clusters of any size, with any seeds and timeouts, whatever is
\* lost, reordered or restarted.
THEOREM MembershipIsEarned == Spec => [](TypeOK /\ OwnEntryIntact /\ AccusedWereSilent)
<1>1. Inv => TypeOK /\ OwnEntryIntact /\ AccusedWereSilent
  BY DEF Inv
<1>2. Inv /\ [Next]_vars => Inv'
  BY StepKeeps DEF Kept
<1> QED
  BY <1>1, <1>2, InitInv, PTL DEF Spec

\* Tables, mail, clocks and probe passes keep their types.
THEOREM GossipTyped == Spec => []TypeOK
BY MembershipIsEarned, PTL

\* A running instance keeps its own entry alive, in its Region and at its address,
\* whatever the others say of it.
THEOREM OwnEntryStays == Spec => []OwnEntryIntact
BY MembershipIsEarned, PTL

\* No message makes a running instance forget an address it has learnt.
THEOREM AddressesStay == Spec => AddressesAreKept
<1>1. Inv /\ [Next]_vars =>
        [\A n, m \in Nodes :
            up[n] /\ up'[n] /\ members[n][m].addr # None
                => members'[n][m].addr = members[n][m].addr]_vars
  BY StepKeeps DEF Kept
<1>2. Inv /\ [Next]_vars => Inv'
  BY StepKeeps DEF Kept
<1> QED
  BY <1>1, <1>2, InitInv, PTL DEF Spec, AddressesAreKept

=============================================================================
