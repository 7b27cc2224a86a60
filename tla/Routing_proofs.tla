---------------------------- MODULE Routing_proofs ----------------------------
(***************************************************************************)
(* The metadata store and the routing engine, for any backends, requests   *)
(* and configurations: the store's indices agree between registration      *)
(* calls, and route_candidates keeps its contract while the store changes  *)
(* under it.                                                               *)
(***************************************************************************)
EXTENDS Routing, FiniteSetTheorems, WellFoundedInduction, TLAPS

-----------------------------------------------------------------------------
(* Numbers and sets of numbers.                                              *)

\* Every set of natural numbers has a least element.
LEMMA LeastNatural ==
    ASSUME NEW T, T \subseteq Nat, T # {}
    PROVE  \E x \in T : \A y \in T : x <= y
<1> DEFINE R == { ss \in Nat \X Nat : ss[1] < ss[2] }
<1>1. \E x \in T : \A y \in T : ~ (<<y, x>> \in R)
  <2>1. IsWellFoundedOn(R, Nat)
    BY NatLessThanWellFounded, Zenon DEF OpToRel
  <2> HIDE DEF R
  <2> QED BY <2>1, WFMin
<1>2. \A x, y \in Nat : y < x => <<y, x>> \in R
  OBVIOUS
<1>3. PICK x \in T : \A y \in T : ~ (<<y, x>> \in R)
  BY <1>1
<1>4. \A y \in T : ~ (y < x)
  BY <1>2, <1>3
<1> QED BY <1>4

\* Induction up to a bound, over the set of the values a property holds for.
LEMMA BoundedInduction ==
    ASSUME NEW N \in Nat, NEW P, 0 \in P, \A n \in 1 .. N : n - 1 \in P => n \in P
    PROVE  0 .. N \subseteq P
<1> SUFFICES ASSUME NEW k \in 0 .. N, k \notin P PROVE FALSE
  OBVIOUS
<1> DEFINE T == { n \in 0 .. N : n \notin P }
<1>1. PICK x \in T : \A y \in T : x <= y
  <2>1. T \subseteq Nat /\ T # {}
    OBVIOUS
  <2> QED BY <2>1, LeastNatural
<1>2. x \in 1 .. N
  BY <1>1
<1>3. x - 1 \in 0 .. N /\ x - 1 \notin T
  BY <1>1, <1>2
<1> QED BY <1>1, <1>2, <1>3

\* A set of numbers up to a bound has a greatest one.
LEMMA GreatestUpTo ==
    ASSUME NEW N \in Nat, NEW S, S \subseteq 0 .. N, S # {}
    PROVE  Max(S) \in S /\ \A y \in S : y <= Max(S)
<1> DEFINE T == { N - k : k \in S }
<1>1. PICK t \in T : \A u \in T : t <= u
  <2>1. T \subseteq Nat
    <3>1. \A k \in S : k \in 0 .. N
      OBVIOUS
    <3>2. \A k \in 0 .. N : N - k \in Nat
      OBVIOUS
    <3> QED BY <3>1, <3>2
  <2>2. T # {}
    OBVIOUS
  <2> HIDE DEF T
  <2> QED BY <2>1, <2>2, LeastNatural
<1>2. PICK x \in S : t = N - x
  BY <1>1
<1>3. \A y \in S : x >= y
  <2> SUFFICES ASSUME NEW y \in S PROVE x >= y
    OBVIOUS
  <2>1. N - y \in T /\ x \in 0 .. N /\ y \in 0 .. N
    OBVIOUS
  <2>2. N - x <= N - y
    BY <1>1, <1>2, <2>1
  <2> HIDE DEF T
  <2> QED BY <2>1, <2>2
<1>4. Max(S) \in S /\ \A y \in S : Max(S) >= y
  BY <1>3 DEF Max
<1>5. Max(S) \in 0 .. N /\ \A y \in S : y \in 0 .. N
  BY <1>4
<1> HIDE DEF T
<1> QED BY <1>4, <1>5

\* The smaller of two numbers.
LEMMA LesserOfTwo ==
    ASSUME NEW a \in Int, NEW b \in Int
    PROVE  Min({a, b}) = IF a <= b THEN a ELSE b
<1> DEFINE m == IF a <= b THEN a ELSE b
<1>1. m \in {a, b} /\ \A y \in {a, b} : m <= y
  OBVIOUS
<1>2. \A x \in {a, b} : (\A y \in {a, b} : x <= y) => x = m
  OBVIOUS
<1> HIDE DEF m
<1>3. (CHOOSE x \in {a, b} : \A y \in {a, b} : x <= y) = m
  BY <1>1, <1>2
<1> QED BY <1>3 DEF Min, m

-----------------------------------------------------------------------------
(* Sequences as reverse indices.                                             *)

LEMMA RangeOfAppend ==
    ASSUME NEW S, NEW seq \in Seq(S), NEW b \in S
    PROVE  /\ Append(seq, b) \in Seq(S)
           /\ Range(Append(seq, b)) = Range(seq) \cup {b}
<1>1. Append(seq, b) \in Seq(S) /\ Len(Append(seq, b)) = Len(seq) + 1
  OBVIOUS
<1>2. DOMAIN Append(seq, b) = 1 .. (Len(seq) + 1) /\ DOMAIN seq = 1 .. Len(seq) /\ Len(seq) \in Nat
  OBVIOUS
<1>3. /\ \A i \in 1 .. Len(seq) : Append(seq, b)[i] = seq[i]
      /\ Append(seq, b)[Len(seq) + 1] = b
  OBVIOUS
<1>4. \A x : x \in Range(Append(seq, b)) <=> x \in Range(seq) \cup {b}
  <2> TAKE x
  <2>1. x \in Range(Append(seq, b)) <=> \E i \in 1 .. (Len(seq) + 1) : x = Append(seq, b)[i]
    BY <1>2 DEF Range
  <2>2. x \in Range(seq) <=> \E i \in 1 .. Len(seq) : x = seq[i]
    BY <1>2 DEF Range
  <2>3. \A i \in 1 .. (Len(seq) + 1) : i \in 1 .. Len(seq) \/ i = Len(seq) + 1
    BY <1>2
  <2>4. Len(seq) + 1 \in 1 .. (Len(seq) + 1) /\ \A i \in 1 .. Len(seq) : i \in 1 .. (Len(seq) + 1)
    BY <1>2
  <2> QED BY <1>3, <2>1, <2>2, <2>3, <2>4, Zenon
<1> QED BY <1>1, <1>4

\* f keeps, of every prefix of seq, what differs from b.
KeepsOthers(f, seq, b, S) ==
    /\ f \in [0 .. Len(seq) -> Seq(S)]
    /\ \A i \in 0 .. Len(seq) :
        f[i] = IF i = 0 THEN <<>>
               ELSE IF seq[i] = b THEN f[i - 1] ELSE Append(f[i - 1], seq[i])

LEMMA KeepsExist ==
    ASSUME NEW S, NEW seq \in Seq(S), NEW b
    PROVE  \E f : KeepsOthers(f, seq, b, S)
<1> DEFINE N == Len(seq)
           Step(g, i) == IF seq[i] = b THEN g ELSE Append(g, seq[i])
           Sol(m) == \E f \in [0 .. m -> Seq(S)] :
                        f[0] = <<>> /\ \A i \in 1 .. m : f[i] = Step(f[i - 1], i)
           P == { m \in 0 .. N : Sol(m) }
<1>n. N \in Nat /\ \A i \in 1 .. N : seq[i] \in S
  OBVIOUS
<1>s. \A g \in Seq(S) : \A i \in 1 .. N : Step(g, i) \in Seq(S)
  BY <1>n
<1> HIDE DEF Step, N
<1>1. 0 \in P
  <2> DEFINE f == [i \in 0 .. 0 |-> <<>>]
  <2>1. f \in [0 .. 0 -> Seq(S)] /\ f[0] = <<>> /\ \A i \in 1 .. 0 : f[i] = Step(f[i - 1], i)
    OBVIOUS
  <2>2. 0 \in 0 .. N
    BY <1>n
  <2> HIDE DEF f
  <2> QED BY <2>1, <2>2, Zenon
<1>2. ASSUME NEW m \in 1 .. N, m - 1 \in P PROVE m \in P
  <2>1. PICK f \in [0 .. (m - 1) -> Seq(S)] :
          f[0] = <<>> /\ \A i \in 1 .. (m - 1) : f[i] = Step(f[i - 1], i)
    BY <1>2
  <2> DEFINE new == [i \in 0 .. m |-> IF i = m THEN Step(f[m - 1], m) ELSE f[i]]
  <2>m. m \in Nat /\ m >= 1
    BY <1>n
  <2>2. new \in [0 .. m -> Seq(S)]
    <3>1. m - 1 \in 0 .. (m - 1) /\ \A i \in 0 .. m : i # m => i \in 0 .. (m - 1)
      BY <2>m
    <3>2. Step(f[m - 1], m) \in Seq(S)
      BY <1>s, <3>1
    <3> QED BY <3>1, <3>2
  <2>3. new[0] = <<>>
    BY <2>1, <2>m
  <2>4. ASSUME NEW i \in 1 .. m PROVE new[i] = Step(new[i - 1], i)
    <3>1. i \in 0 .. m /\ i - 1 \in 0 .. m /\ i - 1 # m
      BY <2>m
    <3>a. new[i - 1] = f[i - 1]
      BY <3>1
    <3>2. CASE i = m
      BY <3>1, <3>2, <3>a
    <3>3. CASE i # m
      <4>1. i \in 1 .. (m - 1)
        BY <3>3, <2>m
      <4> QED BY <2>1, <3>1, <3>3, <3>a, <4>1
    <3> QED BY <3>2, <3>3
  <2>5. m \in 0 .. N
    BY <1>n
  <2> HIDE DEF new
  <2>6. Sol(m)
    BY <2>2, <2>3, <2>4
  <2> QED BY <2>5, <2>6
<1> HIDE DEF P
<1>3. N \in P
  <2>1. 0 .. N \subseteq P
    BY <1>1, <1>2, <1>n, BoundedInduction
  <2> QED BY <2>1, <1>n
<1>4. PICK f \in [0 .. N -> Seq(S)] :
        f[0] = <<>> /\ \A i \in 1 .. N : f[i] = Step(f[i - 1], i)
  BY <1>3 DEF P
<1>5. ASSUME NEW i \in 0 .. N
      PROVE  f[i] = IF i = 0 THEN <<>>
                    ELSE IF seq[i] = b THEN f[i - 1] ELSE Append(f[i - 1], seq[i])
  <2>1. CASE i = 0
    BY <1>4, <2>1
  <2>2. CASE i # 0
    <3>1. i \in 1 .. N
      BY <2>2, <1>n
    <3> QED BY <1>4, <2>2, <3>1 DEF Step
  <2> QED BY <2>1, <2>2
<1> QED BY <1>4, <1>5 DEF KeepsOthers, N

\* Vec::retain removes every copy of b and nothing else.
LEMMA WithoutFacts ==
    ASSUME NEW S, NEW seq \in Seq(S), NEW b
    PROVE  /\ Without(seq, b) \in Seq(S)
           /\ Range(Without(seq, b)) = Range(seq) \ {b}
<1> DEFINE N == Len(seq)
           Body(g) == [i \in 0 .. N |-> IF i = 0 THEN <<>>
                         ELSE IF seq[i] = b THEN g[i - 1] ELSE Append(g[i - 1], seq[i])]
           kept == CHOOSE g : g = Body(g)
<1>n. N \in Nat /\ DOMAIN seq = 1 .. N /\ \A i \in 1 .. N : seq[i] \in S
  OBVIOUS
<1>0. Without(seq, b) = kept[N]
  BY DEF Without
<1>1. PICK f : KeepsOthers(f, seq, b, S)
  BY KeepsExist
<1>2. f = Body(f)
  <2>1. /\ f \in [0 .. N -> Seq(S)]
        /\ \A i \in 0 .. N : f[i] = IF i = 0 THEN <<>>
              ELSE IF seq[i] = b THEN f[i - 1] ELSE Append(f[i - 1], seq[i])
    BY <1>1, Zenon DEF KeepsOthers
  <2>2. f = [i \in 0 .. N |-> f[i]]
    BY <2>1
  <2>3. \A i \in 0 .. N : f[i] = Body(f)[i]
    BY <2>1, Zenon
  <2>4. DOMAIN f = 0 .. N /\ DOMAIN Body(f) = 0 .. N
    BY <2>1
  <2>5. Body(f) = [i \in 0 .. N |-> Body(f)[i]]
    OBVIOUS
  <2> HIDE DEF Body
  <2> QED BY <2>2, <2>3, <2>5
<1>3. kept = Body(kept)
  <2> HIDE DEF Body
  <2> QED BY <1>2
<1> HIDE DEF kept
<1> DEFINE Prefix(i) == { seq[j] : j \in 1 .. i }
           P == { i \in 0 .. N : kept[i] \in Seq(S) /\ Range(kept[i]) = Prefix(i) \ {b} }
<1>4. 0 \in P
  <2>1. kept[0] = <<>>
    BY <1>3, <1>n
  <2>2. Range(<<>>) = {} /\ Prefix(0) = {} /\ <<>> \in Seq(S)
    BY DEF Range
  <2>3. 0 \in 0 .. N /\ Range(kept[0]) = Prefix(0) \ {b} /\ kept[0] \in Seq(S)
    <3> HIDE DEF Prefix
    <3> QED BY <1>n, <2>1, <2>2
  <2> HIDE DEF Prefix
  <2> QED BY <2>3
<1>5. ASSUME NEW i \in 1 .. N, i - 1 \in P PROVE i \in P
  <2>1. i \in 0 .. N /\ i # 0 /\ seq[i] \in S
    BY <1>n
  <2>2. kept[i] = IF seq[i] = b THEN kept[i - 1] ELSE Append(kept[i - 1], seq[i])
    <3>1. kept[i] = Body(kept)[i]
      BY <1>3, Zenon
    <3> QED BY <2>1, <3>1, Zenon
  <2>3. kept[i - 1] \in Seq(S) /\ Range(kept[i - 1]) = Prefix(i - 1) \ {b}
    BY <1>5
  <2>4. Prefix(i) = Prefix(i - 1) \cup {seq[i]}
    <3>1. \A j \in 1 .. i : j \in 1 .. (i - 1) \/ j = i
      BY <1>n
    <3>2. i \in 1 .. i /\ \A j \in 1 .. (i - 1) : j \in 1 .. i
      BY <1>n
    <3> QED BY <3>1, <3>2
  <2>5. CASE seq[i] = b
    BY <2>1, <2>2, <2>3, <2>4, <2>5
  <2>6. CASE seq[i] # b
    <3>1. /\ Append(kept[i - 1], seq[i]) \in Seq(S)
          /\ Range(Append(kept[i - 1], seq[i])) = Range(kept[i - 1]) \cup {seq[i]}
      BY <2>1, <2>3, RangeOfAppend
    <3> QED BY <2>1, <2>2, <2>3, <2>4, <2>6, <3>1
  <2> QED BY <2>5, <2>6
<1> HIDE DEF P
<1>6. N \in P
  <2>1. 0 .. N \subseteq P
    BY <1>4, <1>5, <1>n, BoundedInduction
  <2> QED BY <2>1, <1>n
<1>7. Prefix(N) = Range(seq)
  BY <1>n DEF Range
<1> QED BY <1>0, <1>6, <1>7 DEF P

-----------------------------------------------------------------------------
(* The registration calls.                                                   *)

CallSteps == {"none", "models", "indices", "unindex", "unmodel", "unload"}
ListValues == {<<>>} \cup (UNION {ModelLists[b] : b \in BackendIds})

MapsTyped ==
    /\ backends \subseteq BackendIds
    /\ DOMAIN models \subseteq BackendIds
    /\ byRegion \in [Regions -> Seq(BackendIds)]
    /\ byDomain \in [Domains -> Seq(BackendIds)]
    /\ ops \in [BackendIds -> [call : CallSteps, list : ListValues]]

InRegion(b, r) == b \in Range(byRegion[r])
InDomain(b, d) == b \in Range(byDomain[d])
Indexed(b) == InRegion(b, RegionOf[b]) /\ InDomain(b, DomainOf[b])
Unindexed(b) == ~InRegion(b, RegionOf[b]) /\ ~InDomain(b, DomainOf[b])

\* What the four maps have to do with each other at each point of a call.
CallInv(b) ==
    /\ OpAt(b, "none") => \/ b \in backends /\ b \in DOMAIN models /\ Indexed(b)
                          \/ b \notin backends /\ b \notin DOMAIN models /\ Unindexed(b)
    /\ OpAt(b, "models") => b \in backends /\ ops[b].list \in ModelLists[b]
    /\ OpAt(b, "indices") => b \in backends /\ b \in DOMAIN models
    /\ OpAt(b, "unindex") => b \notin backends
    /\ OpAt(b, "unmodel") => b \notin backends /\ Unindexed(b)
    /\ OpAt(b, "unload") => b \notin backends /\ b \notin DOMAIN models /\ Unindexed(b)

\* A reverse index names only backends of its own Region or domain.
IndicesOwn ==
    \A b \in BackendIds :
        /\ \A r \in Regions : InRegion(b, r) => r = RegionOf[b]
        /\ \A d \in Domains : InDomain(b, d) => d = DomainOf[b]

ListsRight == \A b \in DOMAIN models : models[b] \in ModelLists[b]

MapsInv ==
    /\ MapsTyped
    /\ \A b \in BackendIds : CallInv(b)
    /\ IndicesOwn
    /\ ListsRight

mapVars == <<backends, models, byRegion, byDomain, ops>>

RegistrationChange(b) ==
    \/ \E list \in ModelLists[b] : RegisterBackend(b, list)
    \/ UnregisterBackend(b)
    \/ RegistrationStep(b)

LEMMA KeysTyped ==
    ASSUME NEW b \in BackendIds
    PROVE  RegionOf[b] \in Regions /\ DomainOf[b] \in Domains
BY StoreAssumption DEF Domains

\* A call changes its own backend's entries only.
LEMMA RegistrationKeepsMaps ==
    ASSUME MapsInv, NEW b \in BackendIds, RegistrationChange(b)
    PROVE  MapsInv'
<1>t. MapsTyped /\ CallInv(b) /\ IndicesOwn /\ ListsRight
  BY DEF MapsInv
<1>k. RegionOf[b] \in Regions /\ DomainOf[b] \in Domains
  BY KeysTyped
<1>o. /\ ops[b] \in [call : CallSteps, list : ListValues]
      /\ Idle \in [call : CallSteps, list : ListValues]
  <2>1. ops[b] \in [call : CallSteps, list : ListValues]
    BY <1>t DEF MapsTyped
  <2>2. "none" \in CallSteps /\ <<>> \in ListValues
    BY DEF CallSteps, ListValues
  <2> QED BY <2>1, <2>2 DEF Idle
\* What is left to show of each step.
<1> DEFINE Others == \A c \in BackendIds : c # b =>
                        /\ ops'[c] = ops[c]
                        /\ c \in backends' <=> c \in backends
                        /\ c \in DOMAIN models' <=> c \in DOMAIN models
                        /\ \A r \in Regions : InRegion(c, r)' <=> InRegion(c, r)
                        /\ \A d \in Domains : InDomain(c, d)' <=> InDomain(c, d)
<1>s. SUFFICES MapsTyped' /\ CallInv(b)' /\ IndicesOwn' /\ ListsRight' /\ Others
  <2>1. ASSUME MapsTyped', CallInv(b)', IndicesOwn', ListsRight', Others
        PROVE  MapsInv'
    <3>1. ASSUME NEW c \in BackendIds, c # b PROVE CallInv(c)'
      <4>1. CallInv(c)
        BY DEF MapsInv
      <4>2. /\ ops'[c] = ops[c]
            /\ c \in backends' <=> c \in backends
            /\ c \in DOMAIN models' <=> c \in DOMAIN models
            /\ Indexed(c)' <=> Indexed(c)
            /\ Unindexed(c)' <=> Unindexed(c)
        BY <2>1, <3>1, KeysTyped DEF Indexed, Unindexed
      <4> QED BY <4>1, <4>2 DEF CallInv, OpAt
    <3> QED BY <2>1, <3>1 DEF MapsInv
  <2> QED BY <2>1
<1>1. CASE \E list \in ModelLists[b] : RegisterBackend(b, list)
  <2>1. PICK list \in ModelLists[b] : RegisterBackend(b, list)
    BY <1>1
  <2>2. /\ ops' = [ops EXCEPT ![b] = [call |-> "models", list |-> list]]
        /\ backends' = backends \cup {b}
        /\ models' = models /\ byRegion' = byRegion /\ byDomain' = byDomain
    BY <2>1 DEF RegisterBackend
  <2>3. [call |-> "models", list |-> list] \in [call : CallSteps, list : ListValues]
    BY DEF CallSteps, ListValues
  <2>4. MapsTyped'
    BY <1>t, <2>2, <2>3 DEF MapsTyped
  <2>5. ops'[b] = [call |-> "models", list |-> list]
    BY <1>t, <2>2 DEF MapsTyped
  <2>6. CallInv(b)'
    BY <2>2, <2>5 DEF CallInv, OpAt
  <2>7. Others
    BY <1>t, <2>2 DEF MapsTyped, InRegion, InDomain
  <2> QED BY <1>t, <2>2, <2>4, <2>6, <2>7 DEF IndicesOwn, ListsRight, InRegion, InDomain
<1>2. CASE UnregisterBackend(b)
  <2> DEFINE step == IF b \in backends THEN "unindex" ELSE "unmodel"
  <2>2. /\ ops' = [ops EXCEPT ![b].call = step]
        /\ backends' = backends \ {b} /\ OpAt(b, "none")
        /\ models' = models /\ byRegion' = byRegion /\ byDomain' = byDomain
    BY <1>2 DEF UnregisterBackend, MoveTo
  <2>3. step \in CallSteps
    BY DEF CallSteps
  <2> HIDE DEF step
  <2>4. MapsTyped'
    BY <1>t, <2>2, <2>3 DEF MapsTyped
  <2>5. ops'[b].call = step
    BY <1>t, <2>2 DEF MapsTyped
  <2>6. CallInv(b)'
    BY <1>t, <2>2, <2>5 DEF CallInv, OpAt, step, Unindexed, InRegion, InDomain
  <2>7. Others
    BY <1>t, <2>2 DEF MapsTyped, InRegion, InDomain
  <2> QED BY <1>t, <2>2, <2>4, <2>6, <2>7 DEF IndicesOwn, ListsRight, InRegion, InDomain
<1>3. CASE RegisterModels(b)
  <2>2. /\ ops' = [ops EXCEPT ![b].call = "indices"] /\ OpAt(b, "models")
        /\ models' = Put(models, b, ops[b].list)
        /\ backends' = backends /\ byRegion' = byRegion /\ byDomain' = byDomain
    BY <1>3 DEF RegisterModels, MoveTo
  <2>3. /\ DOMAIN models' = DOMAIN models \cup {b}
        /\ models'[b] = ops[b].list
        /\ \A c \in DOMAIN models : c # b => models'[c] = models[c]
    BY <2>2 DEF Put
  <2>4. MapsTyped'
    BY <1>t, <2>2, <2>3 DEF MapsTyped, CallSteps
  <2>5. ops'[b].call = "indices"
    BY <1>t, <2>2 DEF MapsTyped
  <2>6. CallInv(b)'
    BY <1>t, <2>2, <2>3, <2>5 DEF CallInv, OpAt
  <2>7. Others
    BY <1>t, <2>2, <2>3 DEF MapsTyped, InRegion, InDomain
  <2>8. ListsRight'
    BY <1>t, <2>2, <2>3 DEF ListsRight, CallInv
  <2> QED BY <1>t, <2>2, <2>4, <2>6, <2>7, <2>8 DEF IndicesOwn, InRegion, InDomain
<1>4. CASE RegisterIndices(b)
  <2>2. /\ ops' = [ops EXCEPT ![b] = Idle] /\ OpAt(b, "indices")
        /\ byRegion' = [byRegion EXCEPT ![RegionOf[b]] = Append(@, b)]
        /\ byDomain' = [byDomain EXCEPT ![DomainOf[b]] = Append(@, b)]
        /\ backends' = backends /\ models' = models
    BY <1>4 DEF RegisterIndices
  <2>a. /\ byRegion[RegionOf[b]] \in Seq(BackendIds)
        /\ byDomain[DomainOf[b]] \in Seq(BackendIds)
    BY <1>t, <1>k DEF MapsTyped
  <2>b. /\ Append(byRegion[RegionOf[b]], b) \in Seq(BackendIds)
        /\ Range(Append(byRegion[RegionOf[b]], b)) = Range(byRegion[RegionOf[b]]) \cup {b}
        /\ Append(byDomain[DomainOf[b]], b) \in Seq(BackendIds)
        /\ Range(Append(byDomain[DomainOf[b]], b)) = Range(byDomain[DomainOf[b]]) \cup {b}
    BY <2>a, RangeOfAppend
  <2>3. /\ \A c \in BackendIds, r \in Regions :
                InRegion(c, r)' <=> InRegion(c, r) \/ (c = b /\ r = RegionOf[b])
        /\ \A c \in BackendIds, d \in Domains :
                InDomain(c, d)' <=> InDomain(c, d) \/ (c = b /\ d = DomainOf[b])
    BY <1>t, <1>k, <2>2, <2>b DEF MapsTyped, InRegion, InDomain
  <2>4. MapsTyped'
    BY <1>t, <1>k, <1>o, <2>2, <2>b DEF MapsTyped
  <2>5. ops'[b].call = "none"
    BY <1>t, <2>2 DEF MapsTyped, Idle
  <2>6. CallInv(b)'
    BY <1>t, <1>k, <2>2, <2>3, <2>5 DEF CallInv, OpAt, Indexed
  <2>7. Others
    BY <1>t, <2>2, <2>3 DEF MapsTyped
  <2>8. IndicesOwn'
    BY <1>t, <2>3 DEF IndicesOwn
  <2> QED BY <1>t, <2>2, <2>4, <2>6, <2>7, <2>8 DEF ListsRight
<1>5. CASE UnregisterIndices(b)
  <2>2. /\ ops' = [ops EXCEPT ![b].call = "unmodel"] /\ OpAt(b, "unindex")
        /\ byRegion' = [byRegion EXCEPT ![RegionOf[b]] = Without(@, b)]
        /\ byDomain' = [byDomain EXCEPT ![DomainOf[b]] = Without(@, b)]
        /\ backends' = backends /\ models' = models
    BY <1>5 DEF UnregisterIndices, MoveTo
  <2>a. /\ byRegion[RegionOf[b]] \in Seq(BackendIds)
        /\ byDomain[DomainOf[b]] \in Seq(BackendIds)
    BY <1>t, <1>k DEF MapsTyped
  <2>b. /\ Without(byRegion[RegionOf[b]], b) \in Seq(BackendIds)
        /\ Range(Without(byRegion[RegionOf[b]], b)) = Range(byRegion[RegionOf[b]]) \ {b}
        /\ Without(byDomain[DomainOf[b]], b) \in Seq(BackendIds)
        /\ Range(Without(byDomain[DomainOf[b]], b)) = Range(byDomain[DomainOf[b]]) \ {b}
    BY <2>a, WithoutFacts
  <2>3. /\ \A c \in BackendIds, r \in Regions :
                InRegion(c, r)' <=> InRegion(c, r) /\ ~(c = b /\ r = RegionOf[b])
        /\ \A c \in BackendIds, d \in Domains :
                InDomain(c, d)' <=> InDomain(c, d) /\ ~(c = b /\ d = DomainOf[b])
    BY <1>t, <1>k, <2>2, <2>b DEF MapsTyped, InRegion, InDomain
  <2>4. MapsTyped'
    BY <1>t, <1>k, <1>o, <2>2, <2>b DEF MapsTyped, CallSteps
  <2>5. ops'[b].call = "unmodel"
    BY <1>t, <2>2 DEF MapsTyped
  <2>6. CallInv(b)'
    BY <1>t, <1>k, <2>2, <2>3, <2>5 DEF CallInv, OpAt, Unindexed
  <2>7. Others
    BY <1>t, <2>2, <2>3 DEF MapsTyped
  <2>8. IndicesOwn'
    BY <1>t, <2>3 DEF IndicesOwn
  <2> QED BY <1>t, <2>2, <2>4, <2>6, <2>7, <2>8 DEF ListsRight
<1>6. CASE UnregisterModels(b)
  <2>2. /\ ops' = [ops EXCEPT ![b].call = "unload"] /\ OpAt(b, "unmodel")
        /\ models' = Drop(models, b)
        /\ backends' = backends /\ byRegion' = byRegion /\ byDomain' = byDomain
    BY <1>6 DEF UnregisterModels, MoveTo
  <2>3. /\ DOMAIN models' = DOMAIN models \ {b}
        /\ \A c \in DOMAIN models' : models'[c] = models[c]
    BY <2>2 DEF Drop
  <2>4. MapsTyped'
    BY <1>t, <2>2, <2>3 DEF MapsTyped, CallSteps
  <2>5. ops'[b].call = "unload"
    BY <1>t, <2>2 DEF MapsTyped
  <2>6. CallInv(b)'
    BY <1>t, <2>2, <2>3, <2>5 DEF CallInv, OpAt, Unindexed, InRegion, InDomain
  <2>7. Others
    BY <1>t, <2>2, <2>3 DEF MapsTyped, InRegion, InDomain
  <2>8. ListsRight'
    BY <1>t, <2>3 DEF ListsRight
  <2> QED BY <1>t, <2>2, <2>4, <2>6, <2>7, <2>8 DEF IndicesOwn, InRegion, InDomain
<1>7. CASE UnregisterLoad(b)
  <2>2. /\ ops' = [ops EXCEPT ![b] = Idle] /\ OpAt(b, "unload")
        /\ backends' = backends /\ models' = models
        /\ byRegion' = byRegion /\ byDomain' = byDomain
    BY <1>7 DEF UnregisterLoad
  <2>4. MapsTyped'
    BY <1>t, <1>o, <2>2 DEF MapsTyped
  <2>5. ops'[b].call = "none"
    BY <1>t, <2>2 DEF MapsTyped, Idle
  <2>6. CallInv(b)'
    BY <1>t, <2>2, <2>5 DEF CallInv, OpAt, Unindexed, InRegion, InDomain
  <2>7. Others
    BY <1>t, <2>2 DEF MapsTyped, InRegion, InDomain
  <2> QED BY <1>t, <2>2, <2>4, <2>6, <2>7 DEF IndicesOwn, ListsRight, InRegion, InDomain
<1> QED BY <1>1, <1>2, <1>3, <1>4, <1>5, <1>6, <1>7 DEF RegistrationChange, RegistrationStep

\* Only the registration calls write the four maps.
LEMMA MapsChangeByCalls ==
    ASSUME Next
    PROVE  UNCHANGED mapVars \/ \E b \in BackendIds : RegistrationChange(b)
<1>1. CASE StoreChange
  <2>1. CASE \E b \in Moving : Call(b)
    BY <2>1, RoutingAssumption DEF Call, RegistrationChange
  <2>2. CASE \E b \in Moving : Report(b)
    BY <2>2 DEF Report, LoadUpdate, TopoUpdateLatency, SessionBroadcast, KvEvent, mapVars
  <2>3. CASE Tick(TickSecs) \/ SessionEvict
    BY <2>3 DEF Tick, SessionEvict, mapVars
  <2> QED BY <1>1, <2>1, <2>2, <2>3 DEF StoreChange
<1>2. CASE StoreStep
  BY <1>2 DEF StoreStep, RegistrationChange
<1>3. CASE \E r \in Requests : RouteStep(r)
  <2> PICK r \in Requests : RouteStep(r)
    BY <1>3
  <2>1. Lookup(r) => UNCHANGED mapVars
    BY DEF Lookup, storeVars, mapVars
  <2>2. Pin(r) => UNCHANGED mapVars
    BY DEF Pin, mapVars
  <2>3. Collect(r) => UNCHANGED mapVars
    BY DEF Collect, storeVars, mapVars
  <2>4. Decide(r) => UNCHANGED mapVars
    BY Zenon DEF Decide, storeVars, mapVars
  <2>5. Remember(r) => UNCHANGED mapVars
    BY DEF Remember, mapVars
  <2> QED BY <2>1, <2>2, <2>3, <2>4, <2>5 DEF RouteStep
<1> QED BY <1>1, <1>2, <1>3 DEF Next

LEMMA MapsInit == StoreInit => MapsInv
<1> SUFFICES ASSUME StoreInit PROVE MapsInv
  OBVIOUS
<1>1. MapsTyped
  BY DEF StoreInit, MapsTyped, Idle, CallSteps, ListValues
<1>2. \A b \in BackendIds : /\ \A r \in Regions : ~InRegion(b, r)
                            /\ \A d \in Domains : ~InDomain(b, d)
  BY DEF StoreInit, InRegion, InDomain, Range
<1>3. \A b \in BackendIds : CallInv(b)
  BY <1>2, KeysTyped DEF StoreInit, CallInv, OpAt, Idle, Unindexed
<1> QED BY <1>1, <1>2, <1>3 DEF StoreInit, MapsInv, IndicesOwn, ListsRight

LEMMA MapsStep == ASSUME MapsInv, [Next]_vars PROVE MapsInv'
<1>1. CASE UNCHANGED mapVars
  BY <1>1 DEF mapVars, MapsInv, MapsTyped, CallInv, OpAt, Indexed, Unindexed, InRegion,
              InDomain, IndicesOwn, ListsRight
<1>2. CASE \E b \in BackendIds : RegistrationChange(b)
  BY <1>2, RegistrationKeepsMaps
<1>3. CASE UNCHANGED vars
  BY <1>1, <1>3 DEF vars, storeVars, mapVars
<1> QED BY <1>1, <1>2, <1>3, MapsChangeByCalls

\* Between calls a backend is in all of the store's maps or in none, and the
\* reverse indices name only backends of their own Region or domain, however
\* the calls of different backends interleave (register_backend and
\* unregister_backend of store.rs).
THEOREM IndicesStayAgreed == Spec => []IndicesAgree
<1>1. MapsInv => IndicesAgree
  <2> SUFFICES ASSUME MapsInv, NEW b \in BackendIds, OpAt(b, "none")
      PROVE  /\ (b \in backends) <=> (b \in DOMAIN models)
             /\ \A r \in Regions :
                    (b \in Range(BackendsByRegion(r))) <=> (b \in backends /\ r = RegionOf[b])
             /\ \A d \in Domains :
                    (b \in Range(byDomain[d])) <=> (b \in backends /\ d = DomainOf[b])
    BY DEF IndicesAgree
  <2>1. CallInv(b) /\ IndicesOwn
    BY DEF MapsInv
  <2> QED BY <2>1, KeysTyped DEF CallInv, IndicesOwn, Indexed, Unindexed, InRegion, InDomain,
             BackendsByRegion
<1> QED BY <1>1, MapsInit, MapsStep, PTL DEF Spec

-----------------------------------------------------------------------------
(* Scores and rankings.                                                      *)

StrategyNames ==
    {"hybrid", "round_robin", "kv", "model", "load", "topology", "tier_fallback"}

LEMMA PrimaryKnown == ASSUME cfg \in Configs PROVE PrimaryOf(cfg) \in StrategyNames
BY RoutingAssumption DEF PrimaryOf, StrategyNames

LEMMA HybridScoresKept ==
    ASSUME NEW q, NEW cs, NEW c
    PROVE  DOMAIN Hybrid(q, cs, c) = Filtered(q, cs)
BY Zenon DEF Hybrid

\* Every strategy scores each candidate; the hybrid those its filter keeps.
LEMMA ScoresCover ==
    ASSUME NEW q, NEW cs, NEW c, NEW n, PrimaryOf(c) \in StrategyNames
    PROVE  DOMAIN Evaluate(q, cs, c, n)
              = IF PrimaryOf(c) = "hybrid" THEN Filtered(q, cs) ELSE cs
<1>1. CASE PrimaryOf(c) = "hybrid"
  <2>1. Evaluate(q, cs, c, n) = Hybrid(q, cs, c)
    BY <1>1 DEF Evaluate
  <2> QED BY <1>1, <2>1, HybridScoresKept
<1>2. CASE PrimaryOf(c) = "round_robin"
  <2>1. Evaluate(q, cs, c, n) = RoundRobin(cs, n)
    BY <1>2 DEF Evaluate
  <2>2. DOMAIN RoundRobin(cs, n) = cs
    BY DEF RoundRobin
  <2> QED BY <1>2, <2>1, <2>2
<1>3. CASE PrimaryOf(c) = "kv"
  <2>1. Evaluate(q, cs, c, n) = KvAware(q, cs, c)
    BY <1>3 DEF Evaluate
  <2>2. DOMAIN KvAware(q, cs, c) = cs
    BY DEF KvAware
  <2> QED BY <1>3, <2>1, <2>2
<1>4. CASE PrimaryOf(c) = "model"
  <2>1. Evaluate(q, cs, c, n) = ModelAware(q, cs)
    BY <1>4 DEF Evaluate
  <2>2. DOMAIN ModelAware(q, cs) = cs
    BY DEF ModelAware
  <2> QED BY <1>4, <2>1, <2>2
<1>5. CASE PrimaryOf(c) = "load"
  <2>1. Evaluate(q, cs, c, n) = LoadAware(q, cs)
    BY <1>5 DEF Evaluate
  <2>2. DOMAIN LoadAware(q, cs) = cs
    BY DEF LoadAware
  <2> QED BY <1>5, <2>1, <2>2
<1>6. CASE PrimaryOf(c) = "topology"
  <2>1. Evaluate(q, cs, c, n) = TopologyAware(cs)
    BY <1>6 DEF Evaluate
  <2>2. DOMAIN TopologyAware(cs) = cs
    BY DEF TopologyAware
  <2> QED BY <1>6, <2>1, <2>2
<1>7. CASE PrimaryOf(c) = "tier_fallback"
  <2>1. Evaluate(q, cs, c, n) = TierFallback(q, cs)
    BY <1>7 DEF Evaluate
  <2>2. DOMAIN TierFallback(q, cs) = cs
    BY DEF TierFallback
  <2> QED BY <1>7, <2>1, <2>2
<1> QED BY <1>1, <1>2, <1>3, <1>4, <1>5, <1>6, <1>7 DEF StrategyNames

\* A list without repeats.
Distinct(s) == \A i, j \in DOMAIN s : i # j => s[i] # s[j]

\* select_ranked picks at least one and at most `slots` of what is scored.
LEMMA RankingFacts ==
    ASSUME NEW f, IsFiniteSet(DOMAIN f), DOMAIN f # {}, NEW slots \in Nat, slots > 0,
           NEW greedy, NEW s \in Rankings(f, slots, greedy)
    PROVE  /\ s \in Seq(DOMAIN f) /\ s # <<>> /\ Len(s) <= slots
           /\ Distinct(s)
<1> DEFINE n == Min({slots, Cardinality(DOMAIN f)})
<1>1. Cardinality(DOMAIN f) \in Nat /\ Cardinality(DOMAIN f) # 0
  BY FS_CardinalityType, FS_EmptySet
<1>2. n = IF slots <= Cardinality(DOMAIN f) THEN slots ELSE Cardinality(DOMAIN f)
  BY <1>1, LesserOfTwo
<1>3. n \in Nat /\ n > 0 /\ n <= slots
  BY <1>1, <1>2
<1>4. s \in [1 .. n -> DOMAIN f] /\ \A i, j \in DOMAIN s : i # j => s[i] # s[j]
  BY Zenon DEF Rankings
<1> HIDE DEF n
<1>5. s \in Seq(DOMAIN f) /\ Len(s) = n
  BY <1>3, <1>4
<1> QED BY <1>3, <1>4, <1>5 DEF Distinct

\* The head, then the ranking.
LEMMA HeadAndRest ==
    ASSUME NEW S, NEW s \in Seq(S), NEW h \in S
    PROVE  /\ <<h>> \o s \in Seq(S) /\ Len(<<h>> \o s) = Len(s) + 1
           /\ (<<h>> \o s)[1] = h
           /\ \A i \in DOMAIN (<<h>> \o s) : i = 1 \/ (i - 1 \in DOMAIN s /\ (<<h>> \o s)[i] = s[i - 1])
<1>1. <<h>> \in Seq(S) /\ Len(<<h>>) = 1 /\ <<h>>[1] = h
  OBVIOUS
<1>2. <<h>> \o s \in Seq(S) /\ Len(<<h>> \o s) = Len(s) + 1 /\ (<<h>> \o s)[1] = h
  BY <1>1
<1>3. DOMAIN (<<h>> \o s) = 1 .. (Len(s) + 1) /\ DOMAIN s = 1 .. Len(s) /\ Len(s) \in Nat
  BY <1>2
<1>4. ASSUME NEW i \in 1 .. (Len(s) + 1), i # 1
      PROVE  i - 1 \in DOMAIN s /\ (<<h>> \o s)[i] = s[i - 1]
  <2>1. i - 1 \in 1 .. Len(s)
    BY <1>3, <1>4
  <2> QED BY <1>1, <1>3, <1>4, <2>1
<1> QED BY <1>2, <1>3, <1>4

-----------------------------------------------------------------------------
(* route_candidates, one request at a time.                                  *)

RouteSteps == {"start", "pin", "collect", "decide", "remember", "done"}
Replies == [ok : BOOLEAN, error : {"none", "unavailable", "routing_failed"},
            list : Seq(BackendIds)]
Sightings == [up : SUBSET BackendIds, busy : SUBSET BackendIds, fit : SUBSET BackendIds]

EngineTyped ==
    /\ cfg \in Configs
    /\ pc \in [Requests -> RouteSteps]
    /\ pinned \in [Requests -> BackendIds \cup {None}]
    /\ cands \in [Requests -> SUBSET BackendIds]
    /\ ranked \in [Requests -> Seq(BackendIds)]
    /\ reply \in [Requests -> Replies]
    /\ seen \in [Requests -> Sightings]

\* A list is asked for, and more than the head if affinity gave one.
MoreWanted(r) == cfg.limit > 0 /\ (HasHead(r) => cfg.limit > 1)

CandidatesRight(r) ==
    /\ cands[r] # {} /\ pinned[r] \notin cands[r]
    /\ cands[r] \subseteq seen[r].up \cup seen[r].busy
    /\ seen[r].fit \subseteq cands[r] \cup {pinned[r]}

RankedRight(r) ==
    /\ ranked[r] # <<>> /\ Len(ranked[r]) <= Slots(r) /\ Distinct(ranked[r])
    /\ \A i \in DOMAIN ranked[r] : ranked[r][i] \in cands[r]

\* The two properties, of one request.
ListRight(r, list) ==
    /\ Len(list) =< cfg.limit
    /\ list = <<>> <=> cfg.limit = 0
    /\ Distinct(list)
    /\ HasHead(r) => list[1] = pinned[r]
    /\ \A i \in DOMAIN list : list[i] = pinned[r] \/ list[i] \in seen[r].up \cup seen[r].busy

ErrorRight(r, error) ==
    /\ \/ error = "unavailable" /\ seen[r].up = {} /\ ~HasHead(r)
       \/ error = "routing_failed" /\ cands[r] # {} /\ PrimaryOf(cfg) = "hybrid"
    /\ seen[r].fit \subseteq {pinned[r]}

RequestInv(r) ==
    /\ At(r, "start") => ~HasHead(r)
    /\ At(r, "pin") => HasHead(r) /\ cfg.limit > 0 /\ Request[r].session \in Sessions
    /\ At(r, "collect") => MoreWanted(r)
    /\ At(r, "decide") => MoreWanted(r) /\ CandidatesRight(r)
    /\ At(r, "remember") => MoreWanted(r) /\ CandidatesRight(r) /\ RankedRight(r)
    /\ At(r, "done") => IF reply[r].ok THEN ListRight(r, reply[r].list)
                        ELSE ErrorRight(r, reply[r].error)

EngineInv == EngineTyped /\ \A r \in Requests : RequestInv(r)

\* The state of route_candidates for r is the same in the next state.
LocalsKept(r) ==
    /\ cfg' = cfg /\ pc'[r] = pc[r] /\ pinned'[r] = pinned[r] /\ cands'[r] = cands[r]
    /\ ranked'[r] = ranked[r] /\ reply'[r] = reply[r] /\ seen'[r] = seen[r]

LEMMA LocalsDecide ==
    ASSUME NEW r \in Requests, RequestInv(r), LocalsKept(r)
    PROVE  RequestInv(r)'
<1>1. (HasHead(r)' <=> HasHead(r)) /\ Slots(r)' = Slots(r)
  BY DEF LocalsKept, HasHead, Slots
<1>2. \A step \in RouteSteps : At(r, step)' <=> At(r, step)
  BY DEF LocalsKept, At
<1>3. /\ MoreWanted(r)' <=> MoreWanted(r)
      /\ CandidatesRight(r)' <=> CandidatesRight(r)
      /\ RankedRight(r)' <=> RankedRight(r)
  BY <1>1 DEF LocalsKept, MoreWanted, CandidatesRight, RankedRight, Distinct
<1>4. /\ ListRight(r, reply[r].list)' <=> ListRight(r, reply[r].list)
      /\ ErrorRight(r, reply[r].error)' <=> ErrorRight(r, reply[r].error)
      /\ reply'[r].ok <=> reply[r].ok
  BY <1>1 DEF LocalsKept, ListRight, ErrorRight, Distinct
<1> QED BY <1>1, <1>2, <1>3, <1>4 DEF RequestInv, RouteSteps, LocalsKept

LEMMA RequestTypes ==
    ASSUME EngineTyped, NEW r \in Requests
    PROVE  /\ cfg.limit \in Nat /\ pc[r] \in RouteSteps
           /\ pinned[r] \in BackendIds \cup {None} /\ None \notin BackendIds
           /\ cands[r] \subseteq BackendIds /\ ranked[r] \in Seq(BackendIds)
           /\ reply[r] \in Replies /\ seen[r] \in Sightings
           /\ Request[r].hashes \in Seq(Hashes)
<1>1. None \notin BackendIds
  BY StoreAssumption DEF None
<1>2. cfg.limit \in Nat /\ Request[r].hashes \in Seq(Hashes)
  BY RoutingAssumption DEF EngineTyped
<1> QED BY <1>1, <1>2 DEF EngineTyped

LEMMA LookupKeeps ==
    ASSUME EngineInv, NEW r \in Requests, Lookup(r),
           \A s \in DOMAIN sessions : s \in Sessions /\ sessions[s].backend \in BackendIds
    PROVE  EngineTyped' /\ RequestInv(r)' /\ \A q \in Requests : q # r => LocalsKept(q)
<1>1. EngineTyped /\ RequestInv(r)
  BY DEF EngineInv
<1>2. /\ cfg' = cfg /\ cands' = cands /\ ranked' = ranked /\ seen' = seen
      /\ At(r, "start") /\ ~HasHead(r)
  BY <1>1 DEF Lookup, RequestInv
<1>t. cfg.limit \in Nat /\ <<>> \in Seq(BackendIds)
  BY <1>1, RequestTypes
<1> DEFINE s == Request[r].session
<1>3. CASE cfg.limit = 0 /\ Answer(r, Ok(<<>>)) /\ UNCHANGED pinned
  <2>1. Ok(<<>>) \in Replies
    BY DEF Ok, Replies
  <2>2. /\ pc' = [pc EXCEPT ![r] = "done"] /\ reply' = [reply EXCEPT ![r] = Ok(<<>>)]
        /\ pinned' = pinned
    BY <1>3 DEF Answer, Goto
  <2>3. EngineTyped'
    BY <1>1, <1>2, <2>1, <2>2 DEF EngineTyped, RouteSteps
  <2>4. pc'[r] = "done" /\ reply'[r].ok /\ reply'[r].list = <<>> /\ ~HasHead(r)'
    BY <1>1, <1>2, <2>2 DEF EngineTyped, Ok, HasHead
  <2>5. ListRight(r, <<>>)'
    BY <1>2, <1>3, <2>4 DEF ListRight, Distinct
  <2>6. RequestInv(r)'
    BY <2>4, <2>5 DEF RequestInv, At
  <2> QED BY <1>1, <1>2, <2>2, <2>3, <2>6 DEF EngineTyped, LocalsKept
<1>4. CASE /\ cfg.limit > 0 /\ s \in DOMAIN sessions /\ Goto(r, "pin")
           /\ pinned' = [pinned EXCEPT ![r] = sessions[s].backend] /\ UNCHANGED reply
  <2>1. s \in Sessions /\ sessions[s].backend \in BackendIds
    BY <1>4
  <2>2. pc' = [pc EXCEPT ![r] = "pin"] /\ reply' = reply
    BY <1>4 DEF Goto
  <2>3. EngineTyped'
    BY <1>1, <1>2, <1>4, <2>1, <2>2 DEF EngineTyped, RouteSteps
  <2>4. pc'[r] = "pin" /\ HasHead(r)'
    BY <1>1, <1>4, <2>1, <2>2, RequestTypes DEF EngineTyped, HasHead
  <2>6. RequestInv(r)'
    BY <1>2, <1>4, <2>1, <2>4 DEF RequestInv, At
  <2> QED BY <1>1, <1>2, <1>4, <2>2, <2>3, <2>6 DEF EngineTyped, LocalsKept
<1>5. CASE cfg.limit > 0 /\ Goto(r, "collect") /\ UNCHANGED <<pinned, reply>>
  <2>2. pc' = [pc EXCEPT ![r] = "collect"] /\ reply' = reply /\ pinned' = pinned
    BY <1>5 DEF Goto
  <2>3. EngineTyped'
    BY <1>1, <1>2, <2>2 DEF EngineTyped, RouteSteps
  <2>4. pc'[r] = "collect" /\ ~HasHead(r)'
    BY <1>1, <1>2, <2>2 DEF EngineTyped, HasHead
  <2>6. RequestInv(r)'
    BY <1>2, <1>5, <2>4 DEF RequestInv, At, MoreWanted
  <2> QED BY <1>1, <1>2, <2>2, <2>3, <2>6 DEF EngineTyped, LocalsKept
<1> QED BY <1>3, <1>4, <1>5 DEF Lookup

LEMMA PinKeeps ==
    ASSUME EngineInv, NEW r \in Requests, Pin(r)
    PROVE  EngineTyped' /\ RequestInv(r)' /\ \A q \in Requests : q # r => LocalsKept(q)
<1>1. EngineTyped /\ RequestInv(r)
  BY DEF EngineInv
<1>2. /\ cfg' = cfg /\ cands' = cands /\ ranked' = ranked /\ seen' = seen /\ pinned' = pinned
      /\ At(r, "pin") /\ HasHead(r) /\ cfg.limit > 0
  BY <1>1 DEF Pin, RequestInv
<1>t. cfg.limit \in Nat /\ pinned[r] \in BackendIds
  BY <1>1, <1>2, RequestTypes DEF HasHead
<1>3. CASE cfg.limit = 1
  <2>1. Ok(<<pinned[r]>>) \in Replies
    BY <1>t DEF Ok, Replies
  <2>2. pc' = [pc EXCEPT ![r] = "done"] /\ reply' = [reply EXCEPT ![r] = Ok(<<pinned[r]>>)]
    BY <1>3 DEF Pin, Answer, Goto
  <2>3. EngineTyped'
    BY <1>1, <1>2, <2>1, <2>2 DEF EngineTyped, RouteSteps
  <2>4. pc'[r] = "done" /\ reply'[r].ok /\ reply'[r].list = <<pinned[r]>>
    BY <1>1, <1>2, <2>2 DEF EngineTyped, Ok
  <2>5. ListRight(r, <<pinned[r]>>)'
    BY <1>2, <1>3, <2>4 DEF ListRight, Distinct
  <2>6. RequestInv(r)'
    BY <1>2, <2>4, <2>5 DEF RequestInv, At
  <2> QED BY <1>1, <1>2, <2>2, <2>3, <2>6 DEF EngineTyped, LocalsKept
<1>4. CASE cfg.limit # 1
  <2>2. pc' = [pc EXCEPT ![r] = "collect"] /\ reply' = reply
    BY <1>4 DEF Pin, Goto
  <2>3. EngineTyped'
    BY <1>1, <1>2, <2>2 DEF EngineTyped, RouteSteps
  <2>4. pc'[r] = "collect"
    BY <1>1, <2>2 DEF EngineTyped
  <2>6. RequestInv(r)'
    BY <1>2, <1>4, <1>t, <2>4 DEF RequestInv, At, MoreWanted, HasHead
  <2> QED BY <1>1, <1>2, <2>2, <2>3, <2>6 DEF EngineTyped, LocalsKept
<1> QED BY <1>3, <1>4

\* A backend that offers what the request asks for matches its model, ...
LEMMA ScoresArePositive == \A score \in {7, 10} : score > 0 /\ (10 * One) \div (20 - score) > 0
BY DEF One

LEMMA BestOfScores ==
    ASSUME NEW scores, scores \subseteq {0, 7, 10}, NEW score \in scores, score \in {7, 10}
    PROVE  Max(scores \cup {0}) \in {7, 10}
<1> DEFINE best == Max(scores \cup {0})
<1>1. scores \cup {0} \subseteq 0 .. 10 /\ scores \cup {0} # {}
  OBVIOUS
<1>2. best \in scores \cup {0} /\ \A y \in scores \cup {0} : y <= best
  BY <1>1, GreatestUpTo
<1>3. best \in {0, 7, 10} /\ score <= best
  <2> HIDE DEF best
  <2> QED BY <1>2
<1>4. best \in {7, 10}
  <2> HIDE DEF best
  <2> QED BY <1>3
<1> QED BY <1>4, Zenon

LEMMA NameOrArchitecture ==
    ASSUME NEW inst, NEW name, name # "", name \in {inst.name, inst.arch}
    PROVE  MatchScore(inst, name) \in {7, 10}
<1>1. \A n, a : name \in {n, a} =>
          (IF n = name THEN 10 ELSE IF a # "" /\ a = name THEN 7 ELSE 0) \in {7, 10}
  OBVIOUS
<1> QED BY <1>1, Zenon DEF MatchScore

LEMMA FittingInstance ==
    ASSUME NEW q, NEW b, Fits(q, b)
    PROVE  \E i \in DOMAIN Instances(b) :
               /\ MatchScore(Instances(b)[i], q.model) \in {7, 10}
               /\ Serves(Instances(b)[i], q.model)
               /\ Instances(b)[i].ctx >= q.tokens
               /\ q.tools => Instances(b)[i].tools
<1>1. PICK i \in DOMAIN Instances(b) :
          /\ q.model # "" /\ q.model \in {Instances(b)[i].name, Instances(b)[i].arch}
          /\ Instances(b)[i].ctx >= q.tokens
          /\ q.tools => Instances(b)[i].tools
  BY Zenon DEF Fits
<1>2. MatchScore(Instances(b)[i], q.model) \in {7, 10}
  BY <1>1, NameOrArchitecture, Zenon
<1>3. Serves(Instances(b)[i], q.model)
  BY <1>2, ScoresArePositive, Zenon DEF Serves
<1> QED BY <1>1, <1>2, <1>3, Zenon

LEMMA InstancePasses ==
    ASSUME NEW q, NEW b, NEW i \in DOMAIN Instances(b), Serves(Instances(b)[i], q.model),
           Instances(b)[i].ctx >= q.tokens, q.tools => Instances(b)[i].tools
    PROVE  PassesCtx(q, b) /\ PassesTool(q, b)
<1>1. PassesCtx(q, b)
  BY Zenon DEF PassesCtx
<1>2. PassesTool(q, b)
  BY Zenon DEF PassesTool
<1> QED BY <1>1, <1>2

LEMMA FittingMatches ==
    ASSUME NEW q, NEW b, Fits(q, b)
    PROVE  b \in DOMAIN models /\ ModelMatchScore(b, q.model) \in {7, 10}
<1> DEFINE scores == {MatchScore(Instances(b)[i], q.model) : i \in DOMAIN Instances(b)}
<1>1. PICK i \in DOMAIN Instances(b) : MatchScore(Instances(b)[i], q.model) \in {7, 10}
  BY FittingInstance, Zenon
<1>2. b \in DOMAIN models
  BY <1>1 DEF Instances
<1>3. scores \subseteq {0, 7, 10}
  BY DEF MatchScore
<1> QED BY <1>1, <1>2, <1>3, BestOfScores, Zenon DEF ModelMatchScore

\* ... so the engine finds it, ...
LEMMA FittingIsFound ==
    ASSUME NEW r \in Requests
    PROVE  Fitting(Request[r]) \subseteq Candidates(r) \cup {pinned[r]}
<1> SUFFICES ASSUME NEW b \in Fitting(Request[r]) PROVE b \in Candidates(r) \cup {pinned[r]}
  OBVIOUS
<1>1. Fits(Request[r], b)
  BY Zenon DEF Fitting
<1>2. Request[r].model # ""
  BY <1>1, Zenon DEF Fits
<1>3. b \in ModelFindBackends(Request[r].model)
  BY <1>1, FittingMatches, ScoresArePositive, Zenon DEF ModelFindBackends
<1>4. Candidates(r) = ModelFindBackends(Request[r].model) \ {pinned[r]}
  BY <1>2, <1>3, Zenon DEF Candidates
<1> QED BY <1>3, <1>4, Zenon

\* ... and the hybrid's filter lets it pass.
LEMMA FittingPasses ==
    ASSUME NEW q, NEW cs, NEW b \in cs, Fits(q, b)
    PROVE  b \in Filtered(q, cs)
<1> DEFINE match == ModelMatchScore(b, q.model)
<1>1. match \in {7, 10}
  BY FittingMatches, Zenon
<1>2. PassesCtx(q, b) /\ PassesTool(q, b)
  <2>1. PICK i \in DOMAIN Instances(b) :
            /\ Serves(Instances(b)[i], q.model)
            /\ Instances(b)[i].ctx >= q.tokens
            /\ q.tools => Instances(b)[i].tools
    BY FittingInstance, Zenon
  <2> QED BY <2>1, InstancePasses, Zenon
<1>3. match > 0 /\ (10 * One) \div (20 - match) > 0
  BY <1>1, ScoresArePositive, Zenon
<1>4. ModelAware(q, cs)[b] = Scored((10 * One) \div (20 - match), 10 - match)
  BY <1>2, <1>3, Zenon DEF ModelAware
<1> HIDE DEF match
<1>5. Scored((10 * One) \div (20 - match), 10 - match).score = (10 * One) \div (20 - match)
  BY DEF Scored
<1> QED BY <1>3, <1>4, <1>5, Zenon DEF Filtered

\* The backends a model name finds, or all: each is registered, or in a call.
LEMMA CandidatesAreUp ==
    ASSUME MapsInv, EngineTyped, NEW r \in Requests
    PROVE  /\ Candidates(r) \subseteq BackendIds
           /\ Candidates(r) \subseteq Sighting(r).up \cup Sighting(r).busy
           /\ pinned[r] \notin Candidates(r)
           /\ Candidates(r) = {} /\ ~HasHead(r) => backends = {}
<1> DEFINE model == Request[r].model
           byModel == IF model = "" THEN {} ELSE ModelFindBackends(model)
           found == IF byModel = {} THEN backends ELSE byModel
<1>1. Candidates(r) = found \ {pinned[r]}
  BY Zenon DEF Candidates
<1>2. backends \subseteq BackendIds /\ DOMAIN models \subseteq BackendIds
  BY DEF MapsInv, MapsTyped
<1>3. byModel \subseteq DOMAIN models
  BY DEF ModelFindBackends
<1>4. found \subseteq backends \cup DOMAIN models /\ (found = {} => backends = {})
  BY <1>3
<1>5. ASSUME NEW b \in found PROVE b \in BackendIds /\ b \in Sighting(r).up \cup Sighting(r).busy
  <2>1. b \in BackendIds
    BY <1>2, <1>4
  <2>2. Sighting(r).up = backends /\ Sighting(r).busy = {c \in BackendIds : ~OpAt(c, "none")}
    BY DEF Sighting
  <2>3. CallInv(b)
    BY <2>1 DEF MapsInv
  <2>4. OpAt(b, "none") => b \in backends
    BY <1>4, <2>3 DEF CallInv
  <2> QED BY <2>1, <2>2, <2>4
<1>6. ~HasHead(r) => pinned[r] \notin BackendIds
  BY RequestTypes DEF HasHead
<1> HIDE DEF found
<1> QED BY <1>1, <1>4, <1>5, <1>6

LEMMA CollectKeeps ==
    ASSUME MapsInv, EngineInv, NEW r \in Requests, Collect(r)
    PROVE  EngineTyped' /\ RequestInv(r)' /\ \A q \in Requests : q # r => LocalsKept(q)
<1>1. EngineTyped /\ RequestInv(r)
  BY DEF EngineInv
<1> DEFINE cs == Candidates(r)
           sight == Sighting(r)
<1>2. /\ cfg' = cfg /\ ranked' = ranked /\ pinned' = pinned
      /\ cands' = [cands EXCEPT ![r] = cs] /\ seen' = [seen EXCEPT ![r] = sight]
      /\ MoreWanted(r)
  BY <1>1 DEF Collect, RequestInv
<1>3. sight \in Sightings /\ sight.up = backends /\ sight.fit = Fitting(Request[r])
  BY DEF Sighting, Sightings, MapsInv, MapsTyped, Fitting
<1>4. /\ cs \subseteq BackendIds /\ cs \subseteq sight.up \cup sight.busy /\ pinned[r] \notin cs
      /\ cs = {} /\ ~HasHead(r) => backends = {}
      /\ sight.fit \subseteq cs \cup {pinned[r]}
  BY <1>1, <1>3, CandidatesAreUp, FittingIsFound
<1>t. cfg.limit \in Nat /\ (HasHead(r) => pinned[r] \in BackendIds)
  BY <1>1, RequestTypes DEF HasHead
<1>5. CASE cs # {}
  <2>1. pc' = [pc EXCEPT ![r] = "decide"] /\ reply' = reply
    BY <1>5 DEF Collect, Goto
  <2> HIDE DEF cs, sight
  <2>2. EngineTyped'
    BY <1>1, <1>2, <1>3, <1>4, <2>1 DEF EngineTyped, RouteSteps
  <2>3. pc'[r] = "decide" /\ cands'[r] = cs /\ seen'[r] = sight
    BY <1>1, <1>2, <2>1 DEF EngineTyped
  <2>4. MoreWanted(r)' /\ CandidatesRight(r)'
    BY <1>2, <1>4, <1>5, <2>3 DEF MoreWanted, HasHead, CandidatesRight
  <2>5. RequestInv(r)'
    BY <2>3, <2>4 DEF RequestInv, At
  <2> QED BY <1>1, <1>2, <2>1, <2>2, <2>5 DEF EngineTyped, LocalsKept
<1>6. CASE cs = {}
  <2> DEFINE answer == IF HasHead(r) THEN Ok(<<pinned[r]>>) ELSE Err("unavailable")
  <2>1. pc' = [pc EXCEPT ![r] = "done"] /\ reply' = [reply EXCEPT ![r] = answer]
    BY <1>6 DEF Collect, Answer, Goto
  <2> HIDE DEF cs, sight
  <2>2. answer \in Replies
    <3>1. <<>> \in Seq(BackendIds) /\ (HasHead(r) => <<pinned[r]>> \in Seq(BackendIds))
      BY <1>t
    <3> QED BY <3>1 DEF Ok, Err, Replies
  <2>3. EngineTyped'
    <3> HIDE DEF answer
    <3> QED BY <1>1, <1>2, <1>3, <1>4, <2>1, <2>2 DEF EngineTyped, RouteSteps
  <2>4. /\ pc'[r] = "done" /\ reply'[r] = answer /\ seen'[r] = sight
        /\ HasHead(r)' <=> HasHead(r)
    <3> HIDE DEF answer
    <3> QED BY <1>1, <1>2, <2>1 DEF EngineTyped, HasHead
  <2>5. CASE HasHead(r)
    <3>1. answer.ok /\ answer.list = <<pinned[r]>>
      BY <2>5 DEF Ok
    <3>2. ListRight(r, <<pinned[r]>>)'
      BY <1>2, <1>t, <2>4, <2>5 DEF ListRight, Distinct, MoreWanted
    <3>3. RequestInv(r)'
      BY <1>2, <2>4, <3>1, <3>2 DEF RequestInv, At
    <3> QED BY <1>1, <1>2, <2>1, <2>3, <3>3 DEF EngineTyped, LocalsKept
  <2>6. CASE ~HasHead(r)
    <3>1. ~answer.ok /\ answer.error = "unavailable"
      BY <2>6 DEF Err
    <3>2. ErrorRight(r, "unavailable")'
      BY <1>2, <1>3, <1>4, <1>6, <2>4, <2>6 DEF ErrorRight
    <3>3. RequestInv(r)'
      BY <2>4, <3>1, <3>2 DEF RequestInv, At
    <3> QED BY <1>1, <1>2, <2>1, <2>3, <3>3 DEF EngineTyped, LocalsKept
  <2> QED BY <2>5, <2>6
<1> QED BY <1>5, <1>6

\* What Decide ranks is some of the candidates.
LEMMA DecideRanks ==
    ASSUME EngineInv, NEW r \in Requests, At(r, "decide"),
           NEW scores,
           scores = IF Fails(Request[r], cands[r], cfg) THEN Degradation(Request[r], cands[r])
                    ELSE Evaluate(Request[r], cands[r], cfg, cursor),
           NEW s \in Rankings(scores, Slots(r), cfg.greedy)
    PROVE  /\ s \in Seq(cands[r]) /\ s # <<>> /\ Len(s) <= Slots(r) /\ Distinct(s)
<1>1. EngineTyped /\ RequestInv(r)
  BY DEF EngineInv
<1>2. MoreWanted(r) /\ CandidatesRight(r)
  BY <1>1 DEF RequestInv
<1>3. cfg.limit \in Nat /\ cands[r] \subseteq BackendIds
  BY <1>1, RequestTypes
<1>4. Slots(r) \in Nat /\ Slots(r) > 0
  BY <1>2, <1>3 DEF Slots, MoreWanted
<1>5. DOMAIN scores \subseteq cands[r] /\ DOMAIN scores # {}
  <2>1. CASE Fails(Request[r], cands[r], cfg)
    <3>1. DOMAIN Degradation(Request[r], cands[r]) = cands[r]
      BY Zenon DEF Degradation
    <3> QED BY <1>2, <2>1, <3>1 DEF CandidatesRight
  <2>2. CASE ~Fails(Request[r], cands[r], cfg)
    <3>1. DOMAIN scores = IF PrimaryOf(cfg) = "hybrid" THEN Filtered(Request[r], cands[r])
                          ELSE cands[r]
      BY <1>1, <2>2, PrimaryKnown, ScoresCover DEF EngineTyped
    <3>2. Filtered(Request[r], cands[r]) \subseteq cands[r]
      BY DEF Filtered
    <3> QED BY <1>2, <2>2, <3>1, <3>2 DEF CandidatesRight, Fails
  <2> QED BY <2>1, <2>2
<1>6. IsFiniteSet(DOMAIN scores)
  BY <1>3, <1>5, FS_Subset, StoreAssumption
<1>7. s \in Seq(DOMAIN scores) /\ s # <<>> /\ Len(s) <= Slots(r) /\ Distinct(s)
  BY <1>4, <1>5, <1>6, RankingFacts
<1> QED BY <1>5, <1>7

LEMMA DecideKeeps ==
    ASSUME EngineInv, NEW r \in Requests, Decide(r)
    PROVE  EngineTyped' /\ RequestInv(r)' /\ \A q \in Requests : q # r => LocalsKept(q)
<1>1. EngineTyped /\ RequestInv(r)
  BY DEF EngineInv
<1> DEFINE fails == Fails(Request[r], cands[r], cfg)
           scores == IF fails THEN Degradation(Request[r], cands[r])
                     ELSE Evaluate(Request[r], cands[r], cfg, cursor)
<1>2. /\ cfg' = cfg /\ pinned' = pinned /\ cands' = cands /\ At(r, "decide")
      /\ seen' = [seen EXCEPT ![r].fit = @ \cap Fitting(Request[r])]
  BY Zenon DEF Decide
<1>s. /\ seen' \in [Requests -> Sightings]
      /\ \A q \in Requests : q # r => seen'[q] = seen[q]
      /\ seen'[r].up = seen[r].up /\ seen'[r].busy = seen[r].busy
      /\ seen'[r].fit = seen[r].fit \cap Fitting(Request[r])
  BY <1>1, <1>2 DEF EngineTyped, Sightings
<1>3. MoreWanted(r) /\ CandidatesRight(r)
  BY <1>1, <1>2 DEF RequestInv
<1>4. \/ fails /\ Answer(r, Err("routing_failed")) /\ UNCHANGED ranked
      \/ /\ \E s \in Rankings(scores, Slots(r), cfg.greedy) : ranked' = [ranked EXCEPT ![r] = s]
         /\ Goto(r, "remember") /\ UNCHANGED reply
  BY Zenon DEF Decide
<1>5. CASE fails /\ Answer(r, Err("routing_failed")) /\ UNCHANGED ranked
  <2>1. /\ pc' = [pc EXCEPT ![r] = "done"]
        /\ reply' = [reply EXCEPT ![r] = Err("routing_failed")] /\ ranked' = ranked
    BY <1>5 DEF Answer, Goto
  <2>2. Err("routing_failed") \in Replies
    <3>1. <<>> \in Seq(BackendIds)
      OBVIOUS
    <3> QED BY <3>1 DEF Err, Replies
  <2>3. EngineTyped'
    BY <1>1, <1>2, <1>s, <2>1, <2>2 DEF EngineTyped, RouteSteps
  <2>4. pc'[r] = "done" /\ ~reply'[r].ok /\ reply'[r].error = "routing_failed"
    BY <1>1, <2>1 DEF EngineTyped, Err
  <2>5. ErrorRight(r, "routing_failed")'
    <3>1. seen'[r].fit \subseteq {pinned[r]}
      BY <1>s, <1>3, <1>5, FittingPasses DEF CandidatesRight, Fails, Fitting
    <3> QED BY <1>2, <1>3, <1>5, <3>1 DEF ErrorRight, CandidatesRight, Fails
  <2>6. RequestInv(r)'
    BY <2>4, <2>5 DEF RequestInv, At
  <2> QED BY <1>1, <1>2, <1>s, <2>1, <2>3, <2>6 DEF EngineTyped, LocalsKept
<1>6. CASE /\ \E s \in Rankings(scores, Slots(r), cfg.greedy) : ranked' = [ranked EXCEPT ![r] = s]
           /\ Goto(r, "remember") /\ UNCHANGED reply
  <2>1. PICK s \in Rankings(scores, Slots(r), cfg.greedy) : ranked' = [ranked EXCEPT ![r] = s]
    BY <1>6
  <2>2. s \in Seq(cands[r]) /\ s # <<>> /\ Len(s) <= Slots(r) /\ Distinct(s)
    BY <1>2, DecideRanks
  <2>3. s \in Seq(BackendIds) /\ \A i \in DOMAIN s : s[i] \in cands[r]
    BY <1>1, <2>2, RequestTypes
  <2>4. pc' = [pc EXCEPT ![r] = "remember"] /\ reply' = reply
    BY <1>6 DEF Goto
  <2>5. EngineTyped'
    BY <1>1, <1>2, <1>s, <2>1, <2>3, <2>4 DEF EngineTyped, RouteSteps
  <2>6. pc'[r] = "remember" /\ ranked'[r] = s
    BY <1>1, <2>1, <2>4 DEF EngineTyped
  <2>7. MoreWanted(r)' /\ CandidatesRight(r)' /\ Slots(r)' = Slots(r)
    BY <1>2, <1>s, <1>3 DEF MoreWanted, CandidatesRight, Slots, HasHead
  <2>8. RankedRight(r)'
    BY <1>2, <2>2, <2>3, <2>6, <2>7 DEF RankedRight
  <2>9. RequestInv(r)'
    BY <2>6, <2>7, <2>8 DEF RequestInv, At
  <2> QED BY <1>1, <1>2, <1>s, <2>1, <2>4, <2>5, <2>9 DEF EngineTyped, LocalsKept
<1> QED BY <1>4, <1>5, <1>6

\* The list of Remember: the head, if any, and then the ranking.
ListOf(r) == (IF HasHead(r) THEN <<pinned[r]>> ELSE <<>>) \o ranked[r]

LEMMA ListOfIsRight ==
    ASSUME EngineInv, NEW r \in Requests, At(r, "remember")
    PROVE  /\ ListOf(r) \in Seq(BackendIds) /\ ListOf(r) # <<>>
           /\ ListRight(r, ListOf(r))
<1>1. EngineTyped /\ RequestInv(r)
  BY DEF EngineInv
<1>2. MoreWanted(r) /\ CandidatesRight(r) /\ RankedRight(r)
  BY <1>1 DEF RequestInv
<1>3. /\ cfg.limit \in Nat /\ ranked[r] \in Seq(BackendIds)
      /\ HasHead(r) => pinned[r] \in BackendIds
  BY <1>1, RequestTypes DEF HasHead
<1>s. /\ Len(ranked[r]) <= Slots(r) /\ Distinct(ranked[r]) /\ ranked[r] # <<>>
      /\ \A i \in DOMAIN ranked[r] : /\ ranked[r][i] # pinned[r]
                                     /\ ranked[r][i] \in seen[r].up \cup seen[r].busy
  BY <1>2 DEF RankedRight, CandidatesRight
<1>4. CASE ~HasHead(r)
  <2>1. ListOf(r) = ranked[r]
    BY <1>3, <1>4 DEF ListOf
  <2>2. Slots(r) = cfg.limit
    BY <1>3, <1>4 DEF Slots
  <2> QED BY <1>2, <1>3, <1>4, <1>s, <2>1, <2>2 DEF ListRight, MoreWanted
<1>5. CASE HasHead(r)
  <2> DEFINE list == <<pinned[r]>> \o ranked[r]
  <2>1. ListOf(r) = list
    BY <1>5 DEF ListOf
  <2>2. /\ list \in Seq(BackendIds) /\ Len(list) = Len(ranked[r]) + 1 /\ list[1] = pinned[r]
        /\ \A i \in DOMAIN list : i = 1 \/ (i - 1 \in DOMAIN ranked[r] /\ list[i] = ranked[r][i - 1])
    BY <1>3, <1>5, HeadAndRest
  <2>3. Slots(r) = cfg.limit - 1
    BY <1>5 DEF Slots
  <2> HIDE DEF list
  <2>4. Len(list) <= cfg.limit /\ list # <<>> /\ Len(ranked[r]) \in Nat
    BY <1>3, <1>s, <2>2, <2>3
  <2>5. ASSUME NEW i \in DOMAIN list, NEW j \in DOMAIN list, i # j PROVE list[i] # list[j]
    <3>1. i \in Int /\ j \in Int
      BY <2>2
    <3>2. CASE i = 1
      BY <1>s, <2>2, <2>5, <3>2
    <3>3. CASE j = 1
      BY <1>s, <2>2, <2>5, <3>3
    <3>4. CASE i # 1 /\ j # 1
      <4>1. i - 1 # j - 1
        BY <2>5, <3>1
      <4> QED BY <1>s, <2>2, <3>4, <4>1 DEF Distinct
    <3> QED BY <3>2, <3>3, <3>4
  <2>6. ASSUME NEW i \in DOMAIN list
        PROVE  list[i] = pinned[r] \/ list[i] \in seen[r].up \cup seen[r].busy
    BY <1>s, <2>2
  <2>7. cfg.limit # 0
    BY <1>2 DEF MoreWanted
  <2>8. Distinct(list)
    BY <2>5 DEF Distinct
  <2> QED BY <2>1, <2>2, <2>4, <2>6, <2>7, <2>8 DEF ListRight
<1> QED BY <1>4, <1>5

LEMMA RememberKeeps ==
    ASSUME EngineInv, NEW r \in Requests, Remember(r)
    PROVE  EngineTyped' /\ RequestInv(r)' /\ \A q \in Requests : q # r => LocalsKept(q)
<1>1. EngineTyped /\ RequestInv(r)
  BY DEF EngineInv
<1>2. /\ cfg' = cfg /\ pinned' = pinned /\ cands' = cands /\ ranked' = ranked /\ seen' = seen
      /\ At(r, "remember") /\ Answer(r, Ok(ListOf(r)))
  BY DEF Remember, ListOf
<1> DEFINE list == ListOf(r)
<1>3. list \in Seq(BackendIds) /\ ListRight(r, list)
  BY <1>2, ListOfIsRight
<1>4. pc' = [pc EXCEPT ![r] = "done"] /\ reply' = [reply EXCEPT ![r] = Ok(list)]
  BY <1>2 DEF Answer, Goto
<1> HIDE DEF list
<1>5. Ok(list) \in Replies
  BY <1>3 DEF Ok, Replies
<1>6. EngineTyped'
  BY <1>1, <1>2, <1>4, <1>5 DEF EngineTyped, RouteSteps
<1>7. pc'[r] = "done" /\ reply'[r].ok /\ reply'[r].list = list
  BY <1>1, <1>4 DEF EngineTyped, Ok
<1>8. ListRight(r, reply[r].list)'
  BY <1>2, <1>3, <1>7 DEF ListRight, HasHead
<1>9. RequestInv(r)'
  BY <1>7, <1>8 DEF RequestInv, At
<1> QED BY <1>1, <1>2, <1>4, <1>6, <1>9 DEF EngineTyped, LocalsKept

-----------------------------------------------------------------------------
(* The sessions and the dispatch history.                                    *)

SessionsInv ==
    /\ clock \in Nat
    /\ DOMAIN sessions \subseteq Sessions
    /\ \A s \in DOMAIN sessions :
           sessions[s] \in [backend : BackendIds, used : 0 .. clock, overlap : Nat]

LEMMA OverlapIsNat ==
    ASSUME NEW S, NEW hs \in Seq(S), NEW T PROVE PrefixOverlap(hs, T) \in Nat
<1> DEFINE K == {k \in 0 .. Len(hs) : \A i \in 1 .. k : hs[i] \in T}
<1>1. Len(hs) \in Nat /\ K \subseteq 0 .. Len(hs)
  OBVIOUS
<1>2. 0 \in K
  BY <1>1
<1> HIDE DEF K
<1>3. Max(K) \in K
  BY <1>1, <1>2, GreatestUpTo
<1>4. Max(K) \in Nat
  <2>1. \A k \in 0 .. Len(hs) : k \in Nat
    BY <1>1
  <2> QED BY <1>1, <1>3, <2>1
<1> QED BY <1>4 DEF PrefixOverlap, K

\* session_set.
LEMMA SessionSetKeeps ==
    ASSUME SessionsInv, NEW s \in Sessions, NEW b \in BackendIds, NEW n \in Nat,
           SessionSet(s, b, n), clock' = clock
    PROVE  SessionsInv'
<1>1. /\ DOMAIN sessions' = DOMAIN sessions \cup {s}
      /\ sessions'[s] = Affinity(b, n)
      /\ \A x \in DOMAIN sessions : x # s => sessions'[x] = sessions[x]
  BY DEF SessionSet, Put
<1>2. clock \in 0 .. clock
  BY DEF SessionsInv
<1>3. Affinity(b, n) \in [backend : BackendIds, used : 0 .. clock, overlap : Nat]
  BY <1>2 DEF Affinity
<1> QED BY <1>1, <1>3 DEF SessionsInv

HistoryInv ==
    /\ IsFiniteSet(DOMAIN history) /\ Cardinality(DOMAIN history) =< MaxHistory
    /\ \A p \in DOMAIN history : history[p].backend \in BackendIds

\* record_dispatch keeps the bound.
LEMMA DispatchKeepsHistory ==
    ASSUME HistoryInv, NEW S, NEW hashes \in Seq(S), NEW b \in BackendIds,
           RecordDispatch(hashes, b)
    PROVE  HistoryInv'
<1> DEFINE new == PrefixesOf(hashes)
           noted == [p \in DOMAIN history \cup new |->
                        IF p \in new THEN [backend |-> b, ts |-> clock] ELSE history[p]]
<1>1. PICK keep \in Survivors(noted) : history' = [p \in keep |-> noted[p]]
  BY Zenon DEF RecordDispatch
<1>2. IsFiniteSet(new)
  <2>1. IsFiniteSet(1 .. Len(hashes))
    BY FS_Interval
  <2>2. IsFiniteSet({SubSeq(hashes, 1, i) : i \in 1 .. Len(hashes)})
    <3> DEFINE f == [i \in 1 .. Len(hashes) |-> SubSeq(hashes, 1, i)]
    <3>1. IsFiniteSet({f[i] : i \in 1 .. Len(hashes)})
      <4> DEFINE T == {f[i] : i \in 1 .. Len(hashes)}
      <4>1. f \in Surjection(1 .. Len(hashes), T)
        BY DEF Surjection
      <4> HIDE DEF f, T
      <4>2. IsFiniteSet(T)
        BY <2>1, <4>1, FS_Surjection
      <4> QED BY <4>2 DEF T
    <3> QED BY <3>1
  <2> QED BY <2>2 DEF PrefixesOf
<1>3. DOMAIN noted = DOMAIN history \cup new
  OBVIOUS
<1>4. \A p \in DOMAIN noted : noted[p].backend \in BackendIds
  BY DEF HistoryInv
<1> HIDE DEF noted, new
<1>5. IsFiniteSet(DOMAIN noted)
  BY <1>2, <1>3, FS_Union DEF HistoryInv
<1>6. /\ keep \subseteq DOMAIN noted
      /\ Cardinality(keep) = Min({Cardinality(DOMAIN noted), MaxHistory})
  BY <1>1 DEF Survivors
<1>7. Cardinality(DOMAIN noted) \in Nat /\ MaxHistory \in Nat
  BY <1>5, FS_CardinalityType, RoutingAssumption
<1>8. Cardinality(keep) <= MaxHistory
  <2>1. Min({Cardinality(DOMAIN noted), MaxHistory})
            = IF Cardinality(DOMAIN noted) <= MaxHistory THEN Cardinality(DOMAIN noted) ELSE MaxHistory
    BY <1>7, LesserOfTwo
  <2> QED BY <1>6, <1>7, <2>1
<1>9. DOMAIN history' = keep /\ \A p \in keep : history'[p] = noted[p]
  BY <1>1
<1>10. IsFiniteSet(keep)
  BY <1>5, <1>6, FS_Subset
<1> QED BY <1>4, <1>6, <1>8, <1>9, <1>10 DEF HistoryInv

-----------------------------------------------------------------------------
(* The invariant and the theorems.                                           *)

RestTyped ==
    /\ DOMAIN load \subseteq BackendIds
    /\ DOMAIN latency \subseteq Regions \X Regions
    /\ held \in [BackendIds -> SUBSET Hashes]
    /\ edits \in [calls : 0 .. MaxCalls, reports : 0 .. MaxReports]

RoutingInv == MapsInv /\ EngineInv /\ SessionsInv /\ HistoryInv /\ RestTyped

LEMMA Bounds == MaxHistory \in Nat /\ TickSecs \in Nat /\ MaxCalls \in Nat /\ MaxReports \in Nat
BY RoutingAssumption, Zenon

LEMMA RoutingInit == StoreInit /\ EngineInit => RoutingInv
<1> SUFFICES ASSUME StoreInit, EngineInit PROVE RoutingInv
  OBVIOUS
<1>1. MapsInv
  BY MapsInit
<1>2. EngineTyped
  <2>1. <<>> \in Seq(BackendIds) /\ NoReply \in Replies /\ [up |-> {}, busy |-> {}, fit |-> {}] \in Sightings
    BY DEF NoReply, Replies, Sightings
  <2> QED BY <2>1 DEF EngineInit, EngineTyped, RouteSteps
<1>3. \A r \in Requests : RequestInv(r)
  BY DEF EngineInit, RequestInv, At, HasHead
<1>4. SessionsInv
  BY DEF StoreInit, SessionsInv
<1>5. HistoryInv
  <2>1. DOMAIN history = {}
    BY DEF EngineInit
  <2>2. IsFiniteSet(DOMAIN history) /\ Cardinality(DOMAIN history) = 0
    BY <2>1, FS_EmptySet
  <2> QED BY <2>1, <2>2, Bounds DEF HistoryInv
<1>6. RestTyped
  BY Bounds DEF StoreInit, EngineInit, RestTyped
<1> QED BY <1>1, <1>2, <1>3, <1>4, <1>5, <1>6 DEF RoutingInv, EngineInv

LEMMA EngineIdle == ASSUME EngineInv, UNCHANGED <<cfg, engineVars>> PROVE EngineInv'
<1>1. EngineTyped'
  BY DEF EngineInv, EngineTyped, engineVars
<1>2. \A r \in Requests : RequestInv(r) /\ LocalsKept(r)
  BY DEF EngineInv, LocalsKept, engineVars
<1>3. \A r \in Requests : RequestInv(r)'
  BY <1>2, LocalsDecide
<1> QED BY <1>1, <1>3 DEF EngineInv

LEMMA EngineStep ==
    ASSUME RoutingInv, NEW r \in Requests, RouteStep(r) PROVE EngineInv'
<1>i. MapsInv /\ EngineInv
  BY DEF RoutingInv
<1>s. \A s \in DOMAIN sessions : s \in Sessions /\ sessions[s].backend \in BackendIds
  BY DEF RoutingInv, SessionsInv
<1>1. EngineTyped' /\ RequestInv(r)' /\ \A q \in Requests : q # r => LocalsKept(q)
  <2>1. CASE Lookup(r)
    BY <1>i, <1>s, <2>1, LookupKeeps
  <2>2. CASE Pin(r)
    BY <1>i, <2>2, PinKeeps
  <2>3. CASE Collect(r)
    BY <1>i, <2>3, CollectKeeps
  <2>4. CASE Decide(r)
    BY <1>i, <2>4, DecideKeeps
  <2>5. CASE Remember(r)
    BY <1>i, <2>5, RememberKeeps
  <2> QED BY <2>1, <2>2, <2>3, <2>4, <2>5 DEF RouteStep
<1>2. \A q \in Requests : RequestInv(q)
  BY <1>i DEF EngineInv
<1>3. \A q \in Requests : q # r => RequestInv(q)'
  BY <1>1, <1>2, LocalsDecide
<1> QED BY <1>1, <1>3 DEF EngineInv

\* What a step of the router does to sessions, history and the rest.
LEMMA RouterWrites ==
    ASSUME RoutingInv, NEW r \in Requests, RouteStep(r)
    PROVE  SessionsInv' /\ HistoryInv' /\ RestTyped'
<1>i. EngineInv /\ SessionsInv /\ HistoryInv /\ RestTyped
  BY DEF RoutingInv
<1>r. EngineTyped /\ RequestInv(r)
  BY <1>i DEF EngineInv
<1>h. /\ Request[r].hashes \in Seq(Hashes)
      /\ \A b : LocalOverlap(Request[r].hashes, b) \in Nat
  BY <1>r, RequestTypes, OverlapIsNat DEF LocalOverlap
<1>1. CASE Lookup(r)
  BY <1>1, <1>i DEF Lookup, storeVars, SessionsInv, HistoryInv, RestTyped
<1>2. CASE Pin(r)
  <2>1. /\ SessionSet(Request[r].session, pinned[r], LocalOverlap(Request[r].hashes, pinned[r]))
        /\ RecordDispatch(Request[r].hashes, pinned[r]) /\ At(r, "pin")
        /\ clock' = clock /\ load' = load /\ latency' = latency /\ held' = held /\ edits' = edits
    BY <1>2 DEF Pin
  <2>2. Request[r].session \in Sessions /\ pinned[r] \in BackendIds
    BY <1>r, <2>1, RequestTypes DEF RequestInv, HasHead
  <2>3. SessionsInv'
    BY <1>i, <1>h, <2>1, <2>2, SessionSetKeeps
  <2>4. HistoryInv'
    BY <1>i, <1>h, <2>1, <2>2, DispatchKeepsHistory
  <2> QED BY <1>i, <2>1, <2>3, <2>4 DEF RestTyped
<1>3. CASE Collect(r)
  BY <1>3, <1>i DEF Collect, storeVars, SessionsInv, HistoryInv, RestTyped
<1>4. CASE Decide(r)
  <2>1. UNCHANGED <<storeVars, edits>>
    BY <1>4, Zenon DEF Decide
  <2>2. history' = history \/ \E b \in BackendIds : RecordDispatch(Request[r].hashes, b)
    <3> DEFINE scores == IF Fails(Request[r], cands[r], cfg) THEN Degradation(Request[r], cands[r])
                         ELSE Evaluate(Request[r], cands[r], cfg, cursor)
    <3>1. /\ At(r, "decide")
          /\ \/ history' = history
             \/ \E s \in Rankings(scores, Slots(r), cfg.greedy) : RecordDispatch(Request[r].hashes, s[1])
      BY <1>4, Zenon DEF Decide
    <3>2. CASE history' = history
      BY <3>2
    <3>3. CASE \E s \in Rankings(scores, Slots(r), cfg.greedy) : RecordDispatch(Request[r].hashes, s[1])
      <4>1. PICK s \in Rankings(scores, Slots(r), cfg.greedy) :
                RecordDispatch(Request[r].hashes, s[1])
        BY <3>3
      <4>2. s \in Seq(cands[r]) /\ s # <<>>
        BY <1>i, <3>1, DecideRanks
      <4>3. s[1] \in BackendIds
        BY <1>r, <4>2, RequestTypes
      <4> QED BY <4>1, <4>3
    <3> QED BY <3>1, <3>2, <3>3
  <2>3. HistoryInv'
    BY <1>i, <1>h, <2>2, DispatchKeepsHistory DEF HistoryInv
  <2> QED BY <1>i, <2>1, <2>3 DEF storeVars, SessionsInv, RestTyped
<1>5. CASE Remember(r)
  <2>1. /\ history' = history /\ clock' = clock /\ load' = load /\ latency' = latency
        /\ held' = held /\ edits' = edits /\ At(r, "remember")
        /\ \/ sessions' = sessions
           \/ /\ Request[r].session # ""
              /\ SessionSet(Request[r].session, ListOf(r)[1],
                            LocalOverlap(Request[r].hashes, ListOf(r)[1]))
    BY <1>5 DEF Remember, ListOf
  <2>2. ListOf(r)[1] \in BackendIds
    <3>1. ListOf(r) \in Seq(BackendIds) /\ ListOf(r) # <<>>
      BY <1>i, <2>1, ListOfIsRight
    <3> QED BY <3>1
  <2>3. SessionsInv'
    <3>1. CASE sessions' = sessions
      BY <1>i, <2>1, <3>1 DEF SessionsInv
    <3>2. CASE /\ Request[r].session # ""
               /\ SessionSet(Request[r].session, ListOf(r)[1],
                             LocalOverlap(Request[r].hashes, ListOf(r)[1]))
      <4>1. Request[r].session \in Sessions
        BY <3>2, RoutingAssumption
      <4> QED BY <1>i, <1>h, <2>1, <2>2, <3>2, <4>1, SessionSetKeeps
    <3> QED BY <2>1, <3>1, <3>2
  <2> QED BY <1>i, <2>1, <2>3 DEF HistoryInv, RestTyped
<1> QED BY <1>1, <1>2, <1>3, <1>4, <1>5 DEF RouteStep

\* What the other writers do to them.
LEMMA StoreWrites ==
    ASSUME RoutingInv, StoreChange \/ StoreStep
    PROVE  SessionsInv' /\ HistoryInv' /\ RestTyped'
<1>i. SessionsInv /\ HistoryInv /\ RestTyped
  BY DEF RoutingInv
<1>h. HistoryInv'
  BY <1>i DEF StoreChange, StoreStep, engineVars, HistoryInv
<1>1. CASE StoreStep
  <2>1. PICK b \in BackendIds : RegistrationStep(b)
    BY <1>1 DEF StoreStep
  <2>2. /\ sessions' = sessions /\ clock' = clock /\ latency' = latency /\ held' = held
        /\ edits' = edits /\ (load' = load \/ load' = Drop(load, b))
    BY <1>1, <2>1 DEF StoreStep, RegistrationStep, RegisterModels, RegisterIndices,
                      UnregisterIndices, UnregisterModels, UnregisterLoad
  <2>3. DOMAIN load' \subseteq DOMAIN load
    BY <2>2 DEF Drop
  <2> QED BY <1>i, <1>h, <2>2, <2>3 DEF SessionsInv, RestTyped
<1>2. CASE StoreChange
  <2>1. CASE /\ edits.calls < MaxCalls /\ \E b \in Moving : Call(b)
             /\ edits' = [edits EXCEPT !.calls = @ + 1]
    <3>1. /\ sessions' = sessions /\ clock' = clock /\ latency' = latency /\ held' = held
          /\ load' = load
      BY <2>1 DEF Call, RegisterBackend, UnregisterBackend
    <3>2. edits' \in [calls : 0 .. MaxCalls, reports : 0 .. MaxReports]
      BY <1>i, <2>1, Bounds DEF RestTyped
    <3> QED BY <1>i, <1>h, <3>1, <3>2 DEF SessionsInv, RestTyped
  <2>2. CASE /\ edits.reports < MaxReports /\ \E b \in Moving : Report(b)
             /\ edits' = [edits EXCEPT !.reports = @ + 1]
    <3>1. PICK b \in Moving : Report(b)
      BY <2>2
    <3>2. b \in BackendIds
      BY RoutingAssumption
    <3>3. edits' \in [calls : 0 .. MaxCalls, reports : 0 .. MaxReports]
      BY <1>i, <2>2, Bounds DEF RestTyped
    <3>4. CASE \E m \in MetricsValues, ts \in {0, clock} : LoadUpdate(b, m, ts)
      <4>1. /\ sessions' = sessions /\ clock' = clock /\ latency' = latency /\ held' = held
            /\ DOMAIN load' = DOMAIN load \cup {b}
        BY <3>4 DEF LoadUpdate, Put
      <4> QED BY <1>i, <1>h, <3>2, <3>3, <4>1 DEF SessionsInv, RestTyped
    <3>5. CASE \E s \in Regions, rtt \in RttValues : TopoUpdateLatency(SelfRegion, s, rtt)
      <4>1. PICK s \in Regions, rtt \in RttValues : TopoUpdateLatency(SelfRegion, s, rtt)
        BY <3>5
      <4>2. /\ sessions' = sessions /\ clock' = clock /\ load' = load /\ held' = held
            /\ DOMAIN latency' = DOMAIN latency \cup {<<SelfRegion, s>>, <<s, SelfRegion>>}
        BY <4>1 DEF TopoUpdateLatency, Put
      <4> QED BY <1>i, <1>h, <3>3, <4>2, StoreAssumption DEF SessionsInv, RestTyped
    <3>6. CASE \E s \in Sessions : SessionBroadcast(s, b)
      <4>1. PICK s \in Sessions : SessionBroadcast(s, b)
        BY <3>6
      <4>2. /\ SessionSet(s, b, 0) /\ clock' = clock /\ load' = load /\ held' = held
            /\ latency' = latency
        BY <4>1 DEF SessionBroadcast
      <4>3. SessionsInv'
        BY <1>i, <3>2, <4>2, SessionSetKeeps
      <4> QED BY <1>i, <1>h, <3>3, <4>2, <4>3 DEF RestTyped
    <3>7. CASE \E hs \in HeldValues : KvEvent(b, hs)
      <4>1. PICK hs \in HeldValues : KvEvent(b, hs)
        BY <3>7
      <4>2. /\ sessions' = sessions /\ clock' = clock /\ load' = load /\ latency' = latency
            /\ held' = [held EXCEPT ![b] = hs]
        BY <4>1 DEF KvEvent
      <4> QED BY <1>i, <1>h, <3>2, <3>3, <4>2, StoreAssumption DEF SessionsInv, RestTyped
    <3> QED BY <3>1, <3>4, <3>5, <3>6, <3>7 DEF Report
  <2>3. CASE Tick(TickSecs) /\ UNCHANGED edits
    <3>1. /\ sessions' = sessions /\ load' = load /\ latency' = latency /\ held' = held
          /\ clock' = clock + TickSecs /\ edits' = edits
      BY <2>3 DEF Tick
    <3>2. clock \in Nat /\ clock' \in Nat /\ \A n \in 0 .. clock : n \in 0 .. clock'
      BY <1>i, <3>1, Bounds DEF SessionsInv
    <3>3. SessionsInv'
      BY <1>i, <3>1, <3>2 DEF SessionsInv
    <3> QED BY <1>i, <1>h, <3>1, <3>3 DEF RestTyped
  <2>4. CASE SessionEvict /\ UNCHANGED edits
    <3>1. /\ load' = load /\ latency' = latency /\ held' = held /\ clock' = clock /\ edits' = edits
          /\ DOMAIN sessions' \subseteq DOMAIN sessions
          /\ \A s \in DOMAIN sessions' : sessions'[s] = sessions[s]
      BY <2>4 DEF SessionEvict
    <3> QED BY <1>i, <1>h, <3>1 DEF SessionsInv, RestTyped
  <2> QED BY <1>2, <2>1, <2>2, <2>3, <2>4 DEF StoreChange
<1> QED BY <1>1, <1>2

LEMMA RoutingStep == ASSUME RoutingInv, [Next]_vars PROVE RoutingInv'
<1>1. MapsInv'
  BY MapsStep DEF RoutingInv
<1>2. CASE StoreChange \/ StoreStep
  <2>1. UNCHANGED <<cfg, engineVars>>
    BY <1>2 DEF StoreChange, StoreStep
  <2>2. EngineInv'
    BY <2>1, EngineIdle DEF RoutingInv
  <2> QED BY <1>1, <1>2, <2>2, StoreWrites DEF RoutingInv
<1>3. CASE \E r \in Requests : RouteStep(r)
  BY <1>1, <1>3, EngineStep, RouterWrites DEF RoutingInv
<1>4. CASE UNCHANGED vars
  <2>1. UNCHANGED <<cfg, engineVars>> /\ UNCHANGED <<storeVars, edits>>
    BY <1>4 DEF vars
  <2>2. EngineInv'
    BY <2>1, EngineIdle DEF RoutingInv
  <2> QED BY <1>1, <2>1, <2>2 DEF RoutingInv, SessionsInv, HistoryInv, RestTyped, storeVars,
                                  engineVars
<1> QED BY <1>2, <1>3, <1>4 DEF Next

LEMMA RoutingCorrect == Spec => []RoutingInv
BY RoutingInit, RoutingStep, PTL DEF Spec

\* The store and the engine keep their types, and the dispatch history its
\* bound max_entries, for any backends, requests and configurations.
THEOREM RoutingTyped == Spec => []RoutingTypeOK
<1>1. RoutingInv => RoutingTypeOK
  <2> SUFFICES ASSUME RoutingInv PROVE RoutingTypeOK
    OBVIOUS
  <2>1. StoreTypeOK
    BY DEF RoutingInv, MapsInv, MapsTyped, ListsRight, SessionsInv, RestTyped, StoreTypeOK
  <2> QED BY <2>1 DEF RoutingInv, EngineInv, EngineTyped, HistoryInv, RestTyped, RoutingTypeOK,
                      RouteSteps
<1> QED BY <1>1, RoutingCorrect, PTL

\* route_candidates returns what the forwarding loop relies on, a ranking
\* without repeats, not too long, the affinity backend first and the others
\* registered when they were collected, whatever the store does meanwhile.
THEOREM RankingsAreRight == Spec => []RankingContract
<1>1. RoutingInv => RankingContract
  <2> SUFFICES ASSUME RoutingInv, NEW r \in Requests, At(r, "done"), reply[r].ok
      PROVE  ListRight(r, reply[r].list)
    BY DEF RankingContract, ListRight, Distinct
  <2>1. RequestInv(r)
    BY DEF RoutingInv, EngineInv
  <2> QED BY <2>1 DEF RequestInv
<1> QED BY <1>1, RoutingCorrect, PTL

\* route_candidates answers with an error only if nothing was registered or the
\* hybrid turned all candidates down, and then no backend but the session's own
\* offered what the request asks for, from the collection to the scoring.
THEOREM ErrorsHaveReasons == Spec => []ErrorsAreExplained
<1>1. RoutingInv => ErrorsAreExplained
  <2> SUFFICES ASSUME RoutingInv, NEW r \in Requests, At(r, "done"), ~reply[r].ok
      PROVE  ErrorRight(r, reply[r].error)
    BY DEF ErrorsAreExplained, ErrorRight
  <2>1. RequestInv(r)
    BY DEF RoutingInv, EngineInv
  <2> QED BY <2>1 DEF RequestInv
<1> QED BY <1>1, RoutingCorrect, PTL
=============================================================================
