------------------------- MODULE CuckooFilter_proofs -------------------------
(***************************************************************************)
(* What the operations of the cuckoo filter do, for every geometry and any *)
(* number of evictions: an insertion adds one copy of a fingerprint to the *)
(* pair of buckets of its hash or changes nothing, a deletion takes one    *)
(* out, no bucket overflows, the item counter is the number of stored      *)
(* fingerprints, and every bucket that changed is dirty.                   *)
(*                                                                         *)
(* The eviction loop, the deletion loop and the sums are recursive         *)
(* definitions; the first part has the induction they need.                *)
(***************************************************************************)
EXTENDS CuckooFilter, Integers, FiniteSetTheorems, WellFoundedInduction, TLAPS

-----------------------------------------------------------------------------
(* Induction.  The provers cannot instantiate an operator parameter, so these *)
(* principles speak of the set of the values a property holds for.            *)

\* Every set of natural numbers has a least element.
LEMMA LeastNatural ==
    ASSUME NEW T, T \subseteq Nat, T # {}
    PROVE  \E x \in T : \A y \in T : x <= y
<1> DEFINE R == { ss \in Nat \X Nat : ss[1] < ss[2] }
<1>1. \E x \in T : \A y \in T : ~ (<<y, x>> \in R)
  <2>1. IsWellFoundedOn(R, Nat)
    BY NatLessThanWellFounded, Zenon DEF OpToRel
  <2> HIDE DEF R
  <2> QED BY <2>1, WFMin
<1>2. \A x, y \in Nat : y < x => <<y, x>> \in R
  OBVIOUS
<1>3. PICK x \in T : \A y \in T : ~ (<<y, x>> \in R)
  BY <1>1
<1>4. \A y \in T : ~ (y < x)
  BY <1>2, <1>3
<1> QED BY <1>4

\* Induction up to a bound.
LEMMA BoundedInduction ==
    ASSUME NEW N \in Nat, NEW P, 0 \in P, \A n \in 1 .. N : n - 1 \in P => n \in P
    PROVE  0 .. N \subseteq P
<1> SUFFICES ASSUME NEW k \in 0 .. N, k \notin P PROVE FALSE
  OBVIOUS
<1> DEFINE T == { n \in 0 .. N : n \notin P }
<1>1. PICK x \in T : \A y \in T : x <= y
  <2>1. T \subseteq Nat /\ T # {}
    OBVIOUS
  <2> QED BY <2>1, LeastNatural
<1>2. x \in 1 .. N
  BY <1>1
<1>3. x - 1 \in 0 .. N /\ x - 1 \notin T
  BY <1>1, <1>2
<1> QED BY <1>1, <1>2, <1>3

\* Induction over the subsets of a finite set.
LEMMA SubsetInduction ==
    ASSUME NEW S, IsFiniteSet(S), NEW P,
           \A T \in SUBSET S : (\A U \in SUBSET T : U # T => U \in P) => T \in P
    PROVE  SUBSET S \subseteq P
<1> SUFFICES ASSUME NEW K \in SUBSET S, K \notin P PROVE FALSE
  OBVIOUS
<1> DEFINE Q == { T \in SUBSET S : T \notin P }
           R == StrictSubsetOrdering(S)
<1>1. IsWellFoundedOn(R, SUBSET S)
  <2>1. IsWellFoundedOn(StrictSubsetOrdering(S), FiniteSubsetsOf(S))
    BY FS_StrictSubsetOrderingWellFounded, Zenon
  <2>2. FiniteSubsetsOf(S) = SUBSET S
    BY FS_FiniteSubsetsOfFinite, Zenon
  <2> QED BY <2>1, <2>2, Zenon
<1>2. PICK T \in Q : \A U \in Q : ~ (<<U, T>> \in R)
  <2>1. Q \subseteq SUBSET S /\ Q # {}
    OBVIOUS
  <2> HIDE DEF Q, R
  <2> QED BY <1>1, <2>1, WFMin
<1>3. \A U \in SUBSET T : U # T => U \in P
  <2> SUFFICES ASSUME NEW U \in SUBSET T, U # T, U \notin P PROVE FALSE
    OBVIOUS
  <2>1. U \in SUBSET S /\ T \in SUBSET S /\ U \in Q
    OBVIOUS
  <2>2. <<U, T>> \in R
    BY <2>1 DEF StrictSubsetOrdering
  <2> QED BY <1>2, <2>1, <2>2
<1> QED BY <1>3

-----------------------------------------------------------------------------
(* Folds.  FoldSet and MapThenSumSet take the elements of a finite set one by *)
(* one, each time the one that CHOOSE picks.                                  *)

Pick(s) == CHOOSE x \in s : TRUE

\* it gives the fold of every subset of S, with values in A.
IsFold(it, S, A, base, step) ==
    /\ it \in [SUBSET S -> A]
    /\ \A s \in SUBSET S :
        it[s] = IF s = {} THEN base ELSE step[<<Pick(s), it[s \ {Pick(s)}]>>]

LEMMA Picked == ASSUME NEW s, s # {} PROVE Pick(s) \in s /\ s \ {Pick(s)} # s
BY DEF Pick

LEMMA FoldsAgree ==
    ASSUME NEW S, IsFiniteSet(S), NEW T \in SUBSET S, NEW A, NEW base, NEW step, NEW f, NEW g,
           IsFold(f, S, A, base, step), IsFold(g, T, A, base, step)
    PROVE  \A s \in SUBSET T : f[s] = g[s]
<1> DEFINE P == { s \in SUBSET T : f[s] = g[s] }
<1>1. ASSUME NEW s \in SUBSET T, \A u \in SUBSET s : u # s => u \in P
      PROVE  s \in P
  <2>1. CASE s = {}
    BY <2>1 DEF IsFold
  <2>2. CASE s # {}
    <3>1. s \ {Pick(s)} \in P
      BY <1>1, <2>2, Picked
    <3>2. f[s] = step[<<Pick(s), f[s \ {Pick(s)}]>>] /\ g[s] = step[<<Pick(s), g[s \ {Pick(s)}]>>]
      BY <2>2 DEF IsFold
    <3> QED BY <3>1, <3>2
  <2> QED BY <2>1, <2>2
<1>2. IsFiniteSet(T)
  BY FS_Subset
<1> HIDE DEF P
<1>3. SUBSET T \subseteq P
  BY <1>1, <1>2, SubsetInduction
<1> QED BY <1>3 DEF P

LEMMA FoldExists ==
    ASSUME NEW S, IsFiniteSet(S), NEW A, NEW base \in A, NEW step \in [S \X A -> A]
    PROVE  \E it : IsFold(it, S, A, base, step)
<1> DEFINE Sol(s) == CHOOSE g : IsFold(g, s, A, base, step)
           Val(s) == Sol(s)[s]
           P == { s \in SUBSET S : \E g : IsFold(g, s, A, base, step) }
<1>1. ASSUME NEW T \in SUBSET S, \A u \in SUBSET T : u # T => u \in P
      PROVE  T \in P
  <2> DEFINE g == [s \in SUBSET T |->
                     IF s = T
                     THEN IF T = {} THEN base ELSE step[<<Pick(T), Val(T \ {Pick(T)})>>]
                     ELSE Val(s)]
  <2>1. \A s \in SUBSET T : s # T => IsFold(Sol(s), s, A, base, step)
    BY <1>1, Zenon
  <2>2. ASSUME NEW s \in SUBSET T, s # T
        PROVE  Val(s) \in A /\ Val(s) = IF s = {} THEN base
                                        ELSE step[<<Pick(s), Val(s \ {Pick(s)})>>]
    <3>1. IsFold(Sol(s), s, A, base, step)
      BY <2>1, <2>2
    <3>2. CASE s = {}
      <4> HIDE DEF Sol
      <4> QED BY <3>1, <3>2 DEF IsFold
    <3>3. CASE s # {}
      <4> DEFINE u == s \ {Pick(s)}
      <4>1. u \in SUBSET s /\ u \in SUBSET T /\ u # T
        BY <2>2, <3>3, Picked
      <4>2. IsFold(Sol(u), u, A, base, step)
        BY <2>1, <4>1
      <4>3. IsFiniteSet(s)
        BY FS_Subset
      <4> HIDE DEF Sol, u
      <4>4. Sol(s)[u] = Sol(u)[u]
        BY <3>1, <4>1, <4>2, <4>3, FoldsAgree
      <4>5. Sol(s)[s] \in A /\ Sol(s)[s] = step[<<Pick(s), Sol(s)[u]>>]
        BY <3>1, <3>3 DEF IsFold, u
      <4> QED BY <3>3, <4>4, <4>5 DEF u
    <3> QED BY <3>2, <3>3
  <2> HIDE DEF Sol, Val
  <2>3. ASSUME NEW s \in SUBSET T
        PROVE  g[s] \in A /\ g[s] = IF s = {} THEN base ELSE step[<<Pick(s), g[s \ {Pick(s)}]>>]
    <3>1. CASE s # T
      <4>1. s # {} => s \ {Pick(s)} \in SUBSET T /\ s \ {Pick(s)} # T
        BY <3>1, Picked
      <4> QED BY <2>2, <3>1, <4>1
    <3>2. CASE s = T /\ T # {}
      <4>1. /\ Pick(T) \in T /\ Pick(T) \in S
            /\ T \ {Pick(T)} \in SUBSET T /\ T \ {Pick(T)} # T
        BY <3>2, Picked
      <4>2. Val(T \ {Pick(T)}) \in A
        BY <2>2, <4>1
      <4>3. step[<<Pick(T), Val(T \ {Pick(T)})>>] \in A
        BY <4>1, <4>2
      <4> QED BY <3>2, <4>1, <4>3
    <3>3. CASE s = T /\ T = {}
      BY <3>3
    <3> QED BY <3>1, <3>2, <3>3
  <2>4. g \in [SUBSET T -> A]
    BY <2>3
  <2> HIDE DEF g
  <2>5. IsFold(g, T, A, base, step)
    BY <2>3, <2>4 DEF IsFold
  <2> QED BY <2>5
<1> HIDE DEF P
<1>2. SUBSET S \subseteq P
  BY <1>1, SubsetInduction
<1> QED BY <1>2 DEF P

-----------------------------------------------------------------------------
(* Sums.                                                                      *)

NatSum(f, S) == MapThenSumSet(LAMBDA x : f[x], S)

SumSteps(f, S) == [z \in S \X Nat |-> f[z[1]] + z[2]]

LEMMA SumStep ==
    ASSUME NEW S, NEW f, NEW s \in SUBSET S, s # {}
    PROVE  \A n \in Nat : SumSteps(f, S)[<<Pick(s), n>>] = f[Pick(s)] + n
<1>1. Pick(s) \in S
  BY Picked
<1> QED BY <1>1 DEF SumSteps

\* A sum is the fold of its set.
LEMMA SumIsFold ==
    ASSUME NEW S, IsFiniteSet(S), NEW f, \A x \in S : f[x] \in Nat
    PROVE  \E it : IsFold(it, S, Nat, 0, SumSteps(f, S)) /\ NatSum(f, S) = it[S]
<1> DEFINE Body(it) == [s \in SUBSET S |->
               IF s = {} THEN 0 ELSE f[CHOOSE x \in s : TRUE] + it[s \ {CHOOSE x \in s : TRUE}]]
           iter == CHOOSE it : it = Body(it)
<1>1. NatSum(f, S) = iter[S]
  BY DEF NatSum, MapThenSumSet, MapThenFoldSet
<1>2. SumSteps(f, S) \in [S \X Nat -> Nat]
  BY DEF SumSteps
<1>3. PICK g : IsFold(g, S, Nat, 0, SumSteps(f, S))
  BY <1>2, FoldExists
<1>s. ASSUME NEW s \in SUBSET S, s # {}, NEW n \in Nat
      PROVE  SumSteps(f, S)[<<Pick(s), n>>] = f[CHOOSE x \in s : TRUE] + n
  <2>1. SumSteps(f, S)[<<Pick(s), n>>] = f[Pick(s)] + n
    BY <1>s, SumStep, Zenon
  <2> QED BY <2>1, Zenon DEF Pick
<1>4. g = Body(g)
  <2>1. g \in [SUBSET S -> Nat]
    BY <1>3 DEF IsFold
  <2>2. ASSUME NEW s \in SUBSET S PROVE g[s] = Body(g)[s]
    <3>1. CASE s = {}
      BY <1>3, <3>1 DEF IsFold
    <3>2. CASE s # {}
      <4>1. g[s] = SumSteps(f, S)[<<Pick(s), g[s \ {Pick(s)}]>>]
        BY <1>3, <3>2 DEF IsFold
      <4>2. g[s \ {Pick(s)}] \in Nat
        BY <2>1
      <4>3. g[s] = f[CHOOSE x \in s : TRUE] + g[s \ {Pick(s)}]
        BY <1>s, <3>2, <4>1, <4>2
      <4> QED BY <3>2, <4>3 DEF Pick
    <3> QED BY <3>1, <3>2
  <2> QED BY <2>1, <2>2
<1>5. iter = Body(iter)
  <2> HIDE DEF Body
  <2> QED BY <1>4
<1> HIDE DEF iter
<1> DEFINE P == { s \in SUBSET S : iter[s] = g[s] }
<1>6. ASSUME NEW T \in SUBSET S, \A u \in SUBSET T : u # T => u \in P
      PROVE  T \in P
  <2>1. iter[T] = Body(iter)[T] /\ g[T] = Body(g)[T]
    BY <1>4, <1>5, Zenon
  <2>2. CASE T = {}
    BY <2>1, <2>2
  <2>3. CASE T # {}
    <3>1. T \ {Pick(T)} \in P
      BY <1>6, <2>3, Picked
    <3>2. /\ iter[T] = f[CHOOSE x \in T : TRUE] + iter[T \ {CHOOSE x \in T : TRUE}]
          /\ g[T] = f[CHOOSE x \in T : TRUE] + g[T \ {CHOOSE x \in T : TRUE}]
      BY <2>1, <2>3
    <3> QED BY <3>1, <3>2 DEF Pick
  <2> QED BY <2>2, <2>3
<1> HIDE DEF P
<1>7. SUBSET S \subseteq P
  BY <1>6, SubsetInduction
<1>8. iter[S] = g[S]
  BY <1>7 DEF P
<1> QED BY <1>1, <1>3, <1>8

\* Any element may be taken out first.
LEMMA FoldSplits ==
    ASSUME NEW S, IsFiniteSet(S), NEW f, \A x \in S : f[x] \in Nat, NEW it,
           IsFold(it, S, Nat, 0, SumSteps(f, S))
    PROVE  \A s \in SUBSET S : \A x \in s : it[s] = f[x] + it[s \ {x}]
<1> DEFINE P == { s \in SUBSET S : \A x \in s : it[s] = f[x] + it[s \ {x}] }
<1>n. \A s \in SUBSET S : it[s] \in Nat
  BY DEF IsFold
<1>s. ASSUME NEW s \in SUBSET S, s # {}
      PROVE  it[s] = f[Pick(s)] + it[s \ {Pick(s)}]
  <2>1. it[s] = SumSteps(f, S)[<<Pick(s), it[s \ {Pick(s)}]>>]
    BY <1>s DEF IsFold
  <2>2. it[s \ {Pick(s)}] \in Nat
    BY <1>n
  <2>3. \A n \in Nat : SumSteps(f, S)[<<Pick(s), n>>] = f[Pick(s)] + n
    BY <1>s, SumStep
  <2> QED BY <2>1, <2>2, <2>3
<1>1. ASSUME NEW T \in SUBSET S, \A u \in SUBSET T : u # T => u \in P
      PROVE  T \in P
  <2> SUFFICES ASSUME NEW x \in T PROVE it[T] = f[x] + it[T \ {x}]
    OBVIOUS
  <2> DEFINE c == Pick(T)
  <2>1. c \in T /\ it[T] = f[c] + it[T \ {c}]
    BY <1>s, Picked
  <2> HIDE DEF c
  <2>2. CASE x = c
    BY <2>1, <2>2
  <2>3. CASE x # c
    <3> DEFINE r == T \ {c, x}
    <3>1. /\ T \ {c} \in P /\ T \ {x} \in P
          /\ x \in T \ {c} /\ c \in T \ {x}
          /\ (T \ {c}) \ {x} = r /\ (T \ {x}) \ {c} = r
      BY <1>1, <2>1, <2>3
    <3>2. it[T \ {c}] = f[x] + it[r] /\ it[T \ {x}] = f[c] + it[r]
      BY <3>1
    <3>3. f[x] \in Nat /\ f[c] \in Nat /\ it[r] \in Nat
      BY <1>n, <2>1
    <3> HIDE DEF r
    <3> QED BY <2>1, <3>2, <3>3
  <2> QED BY <2>2, <2>3
<1> HIDE DEF P
<1>2. SUBSET S \subseteq P
  BY <1>1, SubsetInduction
<1> QED BY <1>2 DEF P

LEMMA SumIsNat ==
    ASSUME NEW S, IsFiniteSet(S), NEW f, \A x \in S : f[x] \in Nat
    PROVE  NatSum(f, S) \in Nat
<1>1. PICK it : IsFold(it, S, Nat, 0, SumSteps(f, S)) /\ NatSum(f, S) = it[S]
  BY SumIsFold
<1> QED BY <1>1 DEF IsFold

LEMMA SumOfNone ==
    ASSUME NEW f PROVE NatSum(f, {}) = 0
<1>1. IsFiniteSet({})
  BY FS_EmptySet
<1>2. PICK it : IsFold(it, {}, Nat, 0, SumSteps(f, {})) /\ NatSum(f, {}) = it[{}]
  BY <1>1, SumIsFold
<1> QED BY <1>2 DEF IsFold

\* Sums of functions that agree on the set are equal.
LEMMA SumsEqual ==
    ASSUME NEW S, IsFiniteSet(S), NEW f, NEW g, \A x \in S : f[x] \in Nat /\ g[x] = f[x]
    PROVE  NatSum(f, S) = NatSum(g, S)
<1>1. PICK p : IsFold(p, S, Nat, 0, SumSteps(f, S)) /\ NatSum(f, S) = p[S]
  BY SumIsFold
<1>2. PICK q : IsFold(q, S, Nat, 0, SumSteps(g, S)) /\ NatSum(g, S) = q[S]
  BY SumIsFold
<1>3. SumSteps(f, S) = SumSteps(g, S)
  BY DEF SumSteps
<1>4. S \in SUBSET S
  OBVIOUS
<1> QED BY <1>1, <1>2, <1>3, <1>4, FoldsAgree

LEMMA SumSplits ==
    ASSUME NEW S, IsFiniteSet(S), NEW f, \A x \in S : f[x] \in Nat, NEW c \in S
    PROVE  NatSum(f, S) = f[c] + NatSum(f, S \ {c})
<1> DEFINE T == S \ {c}
<1>1. IsFiniteSet(T) /\ T \in SUBSET S
  BY FS_Subset
<1>2. PICK p : IsFold(p, S, Nat, 0, SumSteps(f, S)) /\ NatSum(f, S) = p[S]
  BY SumIsFold
<1>3. PICK q : IsFold(q, T, Nat, 0, SumSteps(f, T)) /\ NatSum(f, T) = q[T]
  BY <1>1, SumIsFold
<1>4. p[S] = f[c] + p[T]
  <2>1. S \in SUBSET S
    OBVIOUS
  <2> QED BY <1>2, <2>1, FoldSplits
<1> DEFINE r == [s \in SUBSET T |-> p[s]]
<1> HIDE DEF T
<1>5. IsFold(r, T, Nat, 0, SumSteps(f, T))
  <2>1. r \in [SUBSET T -> Nat]
    BY <1>1, <1>2 DEF IsFold
  <2>2. ASSUME NEW s \in SUBSET T, s # {}
        PROVE  r[s] = SumSteps(f, T)[<<Pick(s), r[s \ {Pick(s)}]>>]
    <3>1. s \in SUBSET S /\ r[s] = p[s] /\ r[s \ {Pick(s)}] = p[s \ {Pick(s)}]
      BY <1>1
    <3>2. p[s] = SumSteps(f, S)[<<Pick(s), p[s \ {Pick(s)}]>>]
      BY <1>2, <2>2, <3>1 DEF IsFold
    <3>3. p[s \ {Pick(s)}] \in Nat
      BY <1>2, <3>1 DEF IsFold
    <3>4. \A n \in Nat : SumSteps(f, S)[<<Pick(s), n>>] = f[Pick(s)] + n
      <4>1. Pick(s) \in S
        BY <1>1, <2>2, Picked
      <4> QED BY <4>1 DEF SumSteps
    <3>5. \A n \in Nat : SumSteps(f, T)[<<Pick(s), n>>] = f[Pick(s)] + n
      <4>1. Pick(s) \in T
        BY <2>2, Picked
      <4> QED BY <4>1 DEF SumSteps
    <3> QED BY <3>1, <3>2, <3>3, <3>4, <3>5
  <2>3. r[{}] = 0
    BY <1>1, <1>2 DEF IsFold
  <2> HIDE DEF r
  <2> QED BY <2>1, <2>2, <2>3 DEF IsFold
<1>6. r[T] = p[T]
  OBVIOUS
<1> HIDE DEF r
<1>7. r[T] = q[T]
  <2>1. T \in SUBSET T
    OBVIOUS
  <2> QED BY <1>1, <1>3, <1>5, <2>1, FoldsAgree
<1> QED BY <1>2, <1>3, <1>4, <1>6, <1>7 DEF T

\* Changing one summand changes the sum by the difference.
LEMMA SumChanges ==
    ASSUME NEW S, IsFiniteSet(S), NEW f, NEW g, NEW c \in S,
           \A x \in S : f[x] \in Nat /\ g[x] \in Nat, \A x \in S \ {c} : g[x] = f[x]
    PROVE  /\ NatSum(f, S) \in Nat /\ NatSum(g, S) \in Nat
           /\ NatSum(g, S) + f[c] = NatSum(f, S) + g[c]
<1> DEFINE T == S \ {c}
<1>1. IsFiniteSet(T)
  BY FS_Subset
<1>2. NatSum(f, T) = NatSum(g, T) /\ NatSum(f, T) \in Nat
  BY <1>1, SumsEqual, SumIsNat
<1>3. NatSum(f, S) = f[c] + NatSum(f, T) /\ NatSum(g, S) = g[c] + NatSum(g, T)
  BY SumSplits
<1>4. NatSum(f, S) \in Nat /\ NatSum(g, S) \in Nat
  BY SumIsNat
<1>5. f[c] \in Nat /\ g[c] \in Nat
  OBVIOUS
<1> HIDE DEF T
<1> QED BY <1>2, <1>3, <1>4, <1>5

LEMMA SumOfZeros ==
    ASSUME NEW S, IsFiniteSet(S), NEW f, \A x \in S : f[x] = 0
    PROVE  NatSum(f, S) = 0
<1>1. PICK it : IsFold(it, S, Nat, 0, SumSteps(f, S)) /\ NatSum(f, S) = it[S]
  BY SumIsFold
<1> DEFINE P == { s \in SUBSET S : it[s] = 0 }
<1>2. ASSUME NEW s \in SUBSET S, \A u \in SUBSET s : u # s => u \in P
      PROVE  s \in P
  <2>1. CASE s = {}
    BY <1>1, <2>1 DEF IsFold
  <2>2. CASE s # {}
    <3>1. s \ {Pick(s)} \in P /\ Pick(s) \in S
      BY <1>2, <2>2, Picked
    <3>2. it[s] = f[Pick(s)] + it[s \ {Pick(s)}]
      <4>1. it[s] = SumSteps(f, S)[<<Pick(s), it[s \ {Pick(s)}]>>]
        BY <1>1, <2>2 DEF IsFold
      <4>2. \A n \in Nat : SumSteps(f, S)[<<Pick(s), n>>] = f[Pick(s)] + n
        BY <3>1 DEF SumSteps
      <4> QED BY <3>1, <4>1, <4>2
    <3> QED BY <3>1, <3>2
  <2> QED BY <2>1, <2>2
<1> HIDE DEF P
<1>3. SUBSET S \subseteq P
  BY <1>2, SubsetInduction
<1>4. S \in P
  BY <1>3
<1> QED BY <1>1, <1>4 DEF P

-----------------------------------------------------------------------------
(* Buckets.                                                                   *)

Filters == [buckets : Lanes, items : Nat, dirty : SUBSET Buckets]

Fits(lane) == \A i \in Buckets : Used(lane[i]) <= Slots

LoadOf(lane) == [i \in Buckets |-> Used(lane[i])]
Total(lane) == NatSum(LoadOf(lane), Buckets)

\* j is one of the two buckets of a fingerprint f that may be in bucket i.
InPair(i, f, j) == j = i \/ j = Alt[i][f]

\* The copies of f in bucket i and its alternate.
Found(lane, i, f) == lane[i][f] + lane[Alt[i][f]][f]

Bit(b) == IF b THEN 1 ELSE 0

LEMMA PairFacts ==
    ASSUME NEW i \in Buckets, NEW f \in Fps
    PROVE  Alt[i][f] \in Buckets /\ Alt[i][f] # i /\ Alt[Alt[i][f]][f] = i
BY CkfConfig

LEMMA FiniteConfig ==
    IsFiniteSet(Hashes) /\ IsFiniteSet(Backends) /\ IsFiniteSet(Buckets) /\ IsFiniteSet(Fps)
BY CkfConfig

LEMMA UsedIsSum == ASSUME NEW bucket PROVE Used(bucket) = NatSum(bucket, Fps)
BY DEF Used, NatSum

LEMMA UsedIsNat == ASSUME NEW bucket \in [Fps -> Nat] PROVE Used(bucket) \in Nat
BY UsedIsSum, SumIsNat, FiniteConfig

\* One bucket changes, in one fingerprint.
LEMMA BucketChanges ==
    ASSUME NEW old \in [Fps -> Nat], NEW f \in Fps, NEW n \in Nat
    PROVE  LET new == [old EXCEPT ![f] = n] IN
           /\ new \in [Fps -> Nat]
           /\ Used(new) \in Nat /\ Used(old) \in Nat /\ Used(new) + old[f] = Used(old) + n
<1> DEFINE new == [old EXCEPT ![f] = n]
<1>1. new \in [Fps -> Nat] /\ new[f] = n /\ \A x \in Fps \ {f} : new[x] = old[x]
  OBVIOUS
<1> HIDE DEF new
<1>2. \A x \in Fps : old[x] \in Nat /\ new[x] \in Nat
  BY <1>1
<1>3. NatSum(new, Fps) + old[f] = NatSum(old, Fps) + new[f]
      /\ NatSum(new, Fps) \in Nat /\ NatSum(old, Fps) \in Nat
  BY <1>1, <1>2, SumChanges, FiniteConfig
<1> QED BY <1>1, <1>3, UsedIsSum DEF new

LEMMA Balance ==
    \A s, t, u, v, x, n \in Nat : t + u = s + v /\ v + x = u + n => t + x = s + n
OBVIOUS

\* A lane changes, in one bucket.
LEMMA LaneChanges ==
    ASSUME NEW lane \in Lanes, NEW i \in Buckets, NEW f \in Fps, NEW n \in Nat
    PROVE  LET new == [lane EXCEPT ![i] = [lane[i] EXCEPT ![f] = n]] IN
           /\ new \in Lanes
           /\ \A j \in Buckets \ {i} : new[j] = lane[j]
           /\ new[i][f] = n /\ \A g \in Fps \ {f} : new[i][g] = lane[i][g]
           /\ Used(new[i]) \in Nat /\ Used(lane[i]) \in Nat
           /\ Used(new[i]) + lane[i][f] = Used(lane[i]) + n
           /\ Total(new) \in Nat /\ Total(lane) \in Nat
           /\ Total(new) + lane[i][f] = Total(lane) + n
<1> DEFINE b == [lane[i] EXCEPT ![f] = n]
           new == [lane EXCEPT ![i] = b]
<1>1. lane[i] \in [Fps -> Nat]
  BY DEF Lanes
<1>2. /\ b \in [Fps -> Nat] /\ b[f] = n /\ \A g \in Fps \ {f} : b[g] = lane[i][g]
      /\ Used(b) \in Nat /\ Used(lane[i]) \in Nat /\ Used(b) + lane[i][f] = Used(lane[i]) + n
  BY <1>1, BucketChanges
<1> HIDE DEF b
<1>3. new \in Lanes /\ new[i] = b /\ \A j \in Buckets \ {i} : new[j] = lane[j]
  BY <1>2 DEF Lanes
<1> HIDE DEF new
<1>4. \A j \in Buckets : Used(lane[j]) \in Nat /\ Used(new[j]) \in Nat
  BY <1>3, UsedIsNat DEF Lanes
<1>5. /\ \A j \in Buckets : LoadOf(lane)[j] \in Nat /\ LoadOf(new)[j] \in Nat
      /\ \A j \in Buckets \ {i} : LoadOf(new)[j] = LoadOf(lane)[j]
      /\ LoadOf(lane)[i] = Used(lane[i]) /\ LoadOf(new)[i] = Used(b)
  BY <1>3, <1>4 DEF LoadOf
<1>6. /\ Total(new) \in Nat /\ Total(lane) \in Nat
      /\ Total(new) + LoadOf(lane)[i] = Total(lane) + LoadOf(new)[i]
  <2> DEFINE old == LoadOf(lane)
             next == LoadOf(new)
  <2>1. /\ \A x \in Buckets : old[x] \in Nat /\ next[x] \in Nat
        /\ \A x \in Buckets \ {i} : next[x] = old[x]
    BY <1>5
  <2> HIDE DEF old, next
  <2>2. /\ NatSum(old, Buckets) \in Nat /\ NatSum(next, Buckets) \in Nat
        /\ NatSum(next, Buckets) + old[i] = NatSum(old, Buckets) + next[i]
    BY <2>1, SumChanges, FiniteConfig
  <2> QED BY <2>2 DEF Total, old, next
<1>7. lane[i][f] \in Nat
  BY <1>1
<1>8. Total(new) + lane[i][f] = Total(lane) + n
  <2>1. Total(new) + Used(lane[i]) = Total(lane) + Used(b)
    BY <1>5, <1>6, Zenon
  <2> QED BY <1>2, <1>6, <1>7, <2>1, Balance
<1> QED BY <1>2, <1>3, <1>6, <1>8 DEF new, b

\* What try_insert() does where it succeeds.
LEMMA PutFacts ==
    ASSUME NEW lane \in Lanes, NEW i \in Buckets, NEW f \in Fps
    PROVE  LET new == Put(lane, i, f) IN
           /\ new \in Lanes
           /\ \A j \in Buckets \ {i} : new[j] = lane[j]
           /\ new[i][f] = lane[i][f] + 1 /\ \A g \in Fps \ {f} : new[i][g] = lane[i][g]
           /\ Used(lane[i]) \in Nat /\ Used(new[i]) = Used(lane[i]) + 1
           /\ Total(lane) \in Nat /\ Total(new) = Total(lane) + 1
<1> DEFINE n == lane[i][f] + 1
           new == [lane EXCEPT ![i] = [lane[i] EXCEPT ![f] = n]]
<1>1. lane[i][f] \in Nat /\ n \in Nat
  BY DEF Lanes
<1>2. Put(lane, i, f) = new
  BY DEF Put
<1> HIDE DEF n
<1>3. /\ new \in Lanes
      /\ \A j \in Buckets \ {i} : new[j] = lane[j]
      /\ new[i][f] = n /\ \A g \in Fps \ {f} : new[i][g] = lane[i][g]
      /\ Used(new[i]) \in Nat /\ Used(lane[i]) \in Nat
      /\ Used(new[i]) + lane[i][f] = Used(lane[i]) + n
      /\ Total(new) \in Nat /\ Total(lane) \in Nat
      /\ Total(new) + lane[i][f] = Total(lane) + n
  BY <1>1, LaneChanges
<1> HIDE DEF new
<1>4. Used(new[i]) = Used(lane[i]) + 1 /\ Total(new) = Total(lane) + 1
  BY <1>1, <1>3 DEF n
<1> QED BY <1>2, <1>3, <1>4 DEF n

\* What try_delete() does where it succeeds.
LEMMA TakeFacts ==
    ASSUME NEW lane \in Lanes, NEW i \in Buckets, NEW f \in Fps, Holds(lane, i, f)
    PROVE  LET new == Take(lane, i, f) IN
           /\ new \in Lanes
           /\ \A j \in Buckets \ {i} : new[j] = lane[j]
           /\ lane[i][f] > 0 /\ new[i][f] = lane[i][f] - 1
           /\ \A g \in Fps \ {f} : new[i][g] = lane[i][g]
           /\ Used(lane[i]) \in Nat /\ Used(new[i]) \in Nat /\ Used(new[i]) = Used(lane[i]) - 1
           /\ Total(lane) \in Nat /\ Total(new) \in Nat /\ Total(new) = Total(lane) - 1
<1> DEFINE n == lane[i][f] - 1
           new == [lane EXCEPT ![i] = [lane[i] EXCEPT ![f] = n]]
<1>1. lane[i][f] \in Nat /\ lane[i][f] > 0 /\ n \in Nat
  <2>1. lane[i][f] \in Nat /\ lane[i][f] > 0
    BY DEF Lanes, Holds
  <2> QED BY <2>1
<1>2. Take(lane, i, f) = new
  BY DEF Take
<1> HIDE DEF n
<1>3. /\ new \in Lanes
      /\ \A j \in Buckets \ {i} : new[j] = lane[j]
      /\ new[i][f] = n /\ \A g \in Fps \ {f} : new[i][g] = lane[i][g]
      /\ Used(new[i]) \in Nat /\ Used(lane[i]) \in Nat
      /\ Used(new[i]) + lane[i][f] = Used(lane[i]) + n
      /\ Total(new) \in Nat /\ Total(lane) \in Nat
      /\ Total(new) + lane[i][f] = Total(lane) + n
  BY <1>1, LaneChanges
<1> HIDE DEF new
<1>4. Used(new[i]) = Used(lane[i]) - 1 /\ Total(new) = Total(lane) - 1
  BY <1>1, <1>3 DEF n
<1> QED BY <1>1, <1>2, <1>3, <1>4 DEF n

\* The copies of a fingerprint a lookup finds follow the one bucket that changed.
LEMMA PutFound ==
    ASSUME NEW lane \in Lanes, NEW j \in Buckets, NEW g \in Fps
    PROVE  \A i \in Buckets, f \in Fps :
             /\ Found(lane, i, f) \in Nat
             /\ Found(Put(lane, j, g), i, f) = Found(lane, i, f) + Bit(f = g /\ InPair(i, f, j))
<1> SUFFICES ASSUME NEW i \in Buckets, NEW f \in Fps
             PROVE  /\ Found(lane, i, f) \in Nat
                    /\ Found(Put(lane, j, g), i, f)
                         = Found(lane, i, f) + Bit(f = g /\ InPair(i, f, j))
  OBVIOUS
<1> DEFINE new == Put(lane, j, g)
           k == Alt[i][f]
<1>1. k \in Buckets /\ k # i
  BY PairFacts
<1>2. /\ new \in Lanes /\ \A x \in Buckets \ {j} : new[x] = lane[x]
      /\ new[j][g] = lane[j][g] + 1 /\ \A y \in Fps \ {g} : new[j][y] = lane[j][y]
  BY PutFacts
<1>3. lane[i][f] \in Nat /\ lane[k][f] \in Nat
  BY <1>1 DEF Lanes
<1>4. InPair(i, f, j) <=> j = i \/ j = k
  BY DEF InPair
<1>5. Found(new, i, f) = new[i][f] + new[k][f] /\ Found(lane, i, f) = lane[i][f] + lane[k][f]
  BY DEF Found
<1> HIDE DEF new, k
<1> QED BY <1>1, <1>2, <1>3, <1>4, <1>5 DEF Bit, new

LEMMA TakeFound ==
    ASSUME NEW lane \in Lanes, NEW j \in Buckets, NEW g \in Fps, Holds(lane, j, g)
    PROVE  \A i \in Buckets, f \in Fps :
             /\ Found(lane, i, f) \in Nat /\ Found(Take(lane, j, g), i, f) \in Nat
             /\ Found(Take(lane, j, g), i, f) + Bit(f = g /\ InPair(i, f, j)) = Found(lane, i, f)
<1> SUFFICES ASSUME NEW i \in Buckets, NEW f \in Fps
             PROVE  /\ Found(lane, i, f) \in Nat /\ Found(Take(lane, j, g), i, f) \in Nat
                    /\ Found(Take(lane, j, g), i, f) + Bit(f = g /\ InPair(i, f, j))
                         = Found(lane, i, f)
  OBVIOUS
<1> DEFINE new == Take(lane, j, g)
           k == Alt[i][f]
<1>1. k \in Buckets /\ k # i
  BY PairFacts
<1>2. /\ new \in Lanes /\ \A x \in Buckets \ {j} : new[x] = lane[x]
      /\ new[j][g] = lane[j][g] - 1 /\ \A y \in Fps \ {g} : new[j][y] = lane[j][y]
  BY TakeFacts
<1>3. lane[i][f] \in Nat /\ lane[k][f] \in Nat
  BY <1>1 DEF Lanes
<1>n. new[i][f] \in Nat /\ new[k][f] \in Nat
  BY <1>1, <1>2 DEF Lanes
<1>4. InPair(i, f, j) <=> j = i \/ j = k
  BY DEF InPair
<1>5. Found(new, i, f) = new[i][f] + new[k][f] /\ Found(lane, i, f) = lane[i][f] + lane[k][f]
  BY DEF Found
<1> HIDE DEF new, k
<1> QED BY <1>1, <1>2, <1>3, <1>n, <1>4, <1>5 DEF Bit, new

\* A fingerprint has the same pair of buckets seen from either of them.
LEMMA PairShifts ==
    ASSUME NEW f \in Fps, NEW i \in Buckets, NEW j \in Buckets
    PROVE  InPair(i, f, Alt[j][f]) <=> InPair(i, f, j)
BY PairFacts DEF InPair

-----------------------------------------------------------------------------
(* Cuckoo insertion.                                                          *)

WalkRecs == [lane : Lanes, at : Buckets, fp : Fps, touched : SUBSET Buckets, placed : BOOLEAN]

\* What an eviction that set out from the lane with fingerprint fp, to one of
\* its buckets a, has kept: nothing overflows, only touched buckets changed,
\* and every fingerprint is in its pair of buckets as often as before, with fp
\* added, where the one still carried counts as being where it is going.
GoodWalk(w, lane, a, fp) ==
    /\ w \in WalkRecs
    /\ Fits(w.lane)
    /\ \A j \in Buckets \ w.touched : w.lane[j] = lane[j]
    /\ Total(w.lane) = Total(lane) + Bit(w.placed)
    /\ \A i \in Buckets, f \in Fps :
         Found(w.lane, i, f) + Bit(~w.placed /\ f = w.fp /\ InPair(i, f, w.at))
           = Found(lane, i, f) + Bit(f = fp /\ InPair(i, f, a))

LEMMA FoundIsNat ==
    ASSUME NEW lane \in Lanes
    PROVE  \A i \in Buckets, f \in Fps : Found(lane, i, f) \in Nat
<1> SUFFICES ASSUME NEW i \in Buckets, NEW f \in Fps PROVE Found(lane, i, f) \in Nat
  OBVIOUS
<1>1. Alt[i][f] \in Buckets
  BY PairFacts
<1>2. lane[i][f] \in Nat /\ lane[Alt[i][f]][f] \in Nat
  BY <1>1 DEF Lanes
<1> QED BY <1>2 DEF Found

LEMMA BitIsNat == ASSUME NEW b PROVE Bit(b) \in Nat
BY DEF Bit

LEMMA TotalIsNat == ASSUME NEW lane \in Lanes PROVE Total(lane) \in Nat
<1>1. \A i \in Buckets : LoadOf(lane)[i] \in Nat
  BY UsedIsNat DEF LoadOf, Lanes
<1> QED BY <1>1, SumIsNat, FiniteConfig DEF Total

\* An eviction replaces one fingerprint of a bucket by another.
LEMMA SwapFacts ==
    ASSUME NEW lane \in Lanes, NEW at \in Buckets, NEW fp \in Fps, NEW out \in Fps,
           Holds(lane, at, out)
    PROVE  LET kicked == Put(Take(lane, at, out), at, fp) IN
           /\ kicked \in Lanes
           /\ \A j \in Buckets \ {at} : kicked[j] = lane[j]
           /\ Used(kicked[at]) = Used(lane[at])
           /\ Total(kicked) = Total(lane)
           /\ \A i \in Buckets, f \in Fps :
                Found(kicked, i, f) + Bit(f = out /\ InPair(i, f, at))
                  = Found(lane, i, f) + Bit(f = fp /\ InPair(i, f, at))
<1> DEFINE less == Take(lane, at, out)
           kicked == Put(less, at, fp)
<1>1. /\ less \in Lanes /\ \A j \in Buckets \ {at} : less[j] = lane[j]
      /\ Used(lane[at]) \in Nat /\ Used(less[at]) = Used(lane[at]) - 1
      /\ Total(lane) \in Nat /\ Total(less) = Total(lane) - 1
  BY TakeFacts
<1>2. \A i \in Buckets, f \in Fps :
        /\ Found(lane, i, f) \in Nat /\ Found(less, i, f) \in Nat
        /\ Found(less, i, f) + Bit(f = out /\ InPair(i, f, at)) = Found(lane, i, f)
  BY TakeFound
<1> HIDE DEF less
<1>3. /\ kicked \in Lanes /\ \A j \in Buckets \ {at} : kicked[j] = less[j]
      /\ Used(kicked[at]) = Used(less[at]) + 1
      /\ Total(kicked) = Total(less) + 1
  BY <1>1, PutFacts
<1>4. \A i \in Buckets, f \in Fps :
        Found(kicked, i, f) = Found(less, i, f) + Bit(f = fp /\ InPair(i, f, at))
  BY <1>1, PutFound
<1> HIDE DEF kicked
<1>5. \A i \in Buckets, f \in Fps :
        Found(kicked, i, f) + Bit(f = out /\ InPair(i, f, at))
          = Found(lane, i, f) + Bit(f = fp /\ InPair(i, f, at))
  <2> SUFFICES ASSUME NEW i \in Buckets, NEW f \in Fps
               PROVE  Found(kicked, i, f) + Bit(f = out /\ InPair(i, f, at))
                        = Found(lane, i, f) + Bit(f = fp /\ InPair(i, f, at))
    OBVIOUS
  <2> DEFINE x == Bit(f = out /\ InPair(i, f, at))
             y == Bit(f = fp /\ InPair(i, f, at))
  <2>1. x \in Nat /\ y \in Nat
    BY BitIsNat
  <2>2. /\ Found(lane, i, f) \in Nat /\ Found(less, i, f) \in Nat
        /\ Found(less, i, f) + x = Found(lane, i, f)
        /\ Found(kicked, i, f) = Found(less, i, f) + y
    BY <1>2, <1>4
  <2> HIDE DEF x, y
  <2>3. Found(kicked, i, f) + x = Found(lane, i, f) + y
    BY <2>1, <2>2
  <2> QED BY <2>3 DEF x, y
<1>6. Used(kicked[at]) = Used(lane[at]) /\ Total(kicked) = Total(lane)
  BY <1>1, <1>3
<1> QED BY <1>1, <1>3, <1>5, <1>6 DEF kicked, less

\* The record of one eviction.
LEMMA KickStep ==
    ASSUME NEW w \in WalkRecs, NEW v \in Kick(w), ~w.placed
    PROVE  \E out \in Fps, fits \in BOOLEAN, next \in Buckets, kicked \in Lanes :
             /\ Holds(w.lane, w.at, out)
             /\ next = Alt[w.at][out]
             /\ kicked = Put(Take(w.lane, w.at, out), w.at, w.fp)
             /\ fits = HasRoom(kicked, next)
             /\ v = [ lane    |-> IF fits THEN Put(kicked, next, out) ELSE kicked,
                      at      |-> next,
                      fp      |-> out,
                      touched |-> w.touched \cup {w.at} \cup (IF fits THEN {next} ELSE {}),
                      placed  |-> fits ]
<1>1. PICK out \in Fps : 
        /\ Holds(w.lane, w.at, out)
        /\ v = [ lane    |-> IF HasRoom(Put(Take(w.lane, w.at, out), w.at, w.fp), Alt[w.at][out])
                             THEN Put(Put(Take(w.lane, w.at, out), w.at, w.fp), Alt[w.at][out], out)
                             ELSE Put(Take(w.lane, w.at, out), w.at, w.fp),
                 at      |-> Alt[w.at][out],
                 fp      |-> out,
                 touched |-> w.touched \cup {w.at} \cup
                     (IF HasRoom(Put(Take(w.lane, w.at, out), w.at, w.fp), Alt[w.at][out])
                      THEN {Alt[w.at][out]} ELSE {}),
                 placed  |-> HasRoom(Put(Take(w.lane, w.at, out), w.at, w.fp), Alt[w.at][out]) ]
  BY Zenon DEF Kick
<1>2. HasRoom(Put(Take(w.lane, w.at, out), w.at, w.fp), Alt[w.at][out]) \in BOOLEAN
  BY DEF HasRoom
<1> DEFINE kicked == Put(Take(w.lane, w.at, out), w.at, w.fp)
           next == Alt[w.at][out]
           fits == HasRoom(kicked, next)
<1>3. /\ fits \in BOOLEAN /\ Holds(w.lane, w.at, out)
      /\ v = [ lane    |-> IF fits THEN Put(kicked, next, out) ELSE kicked,
               at      |-> next,
               fp      |-> out,
               touched |-> w.touched \cup {w.at} \cup (IF fits THEN {next} ELSE {}),
               placed  |-> fits ]
  BY <1>1, <1>2, Zenon
<1>5. next \in Buckets /\ kicked \in Lanes
  <2>1. w.lane \in Lanes /\ w.at \in Buckets /\ w.fp \in Fps
    BY DEF WalkRecs
  <2> QED BY <1>3, <2>1, PairFacts, SwapFacts
<1> HIDE DEF kicked, next, fits
<1>4. next = Alt[w.at][out] /\ kicked = Put(Take(w.lane, w.at, out), w.at, w.fp)
      /\ fits = HasRoom(kicked, next)
  BY Zenon DEF kicked, next, fits
<1> QED BY <1>3, <1>4, <1>5, Zenon

LEMMA KickKeeps ==
    ASSUME NEW lane \in Lanes, NEW a \in Buckets, NEW fp \in Fps, NEW w,
           GoodWalk(w, lane, a, fp), NEW v \in Kick(w)
    PROVE  GoodWalk(v, lane, a, fp)
<1>t. w \in WalkRecs /\ w.lane \in Lanes /\ w.at \in Buckets /\ w.fp \in Fps
      /\ w.touched \in SUBSET Buckets /\ w.placed \in BOOLEAN
  BY DEF GoodWalk, WalkRecs
<1>1. CASE w.placed
  BY <1>1 DEF Kick
<1>2. CASE ~w.placed
  <2>1. PICK out \in Fps, fits \in BOOLEAN, next \in Buckets, kicked \in Lanes :
             /\ Holds(w.lane, w.at, out)
             /\ next = Alt[w.at][out]
             /\ kicked = Put(Take(w.lane, w.at, out), w.at, w.fp)
             /\ fits = HasRoom(kicked, next)
             /\ v = [ lane    |-> IF fits THEN Put(kicked, next, out) ELSE kicked,
                      at      |-> next,
                      fp      |-> out,
                      touched |-> w.touched \cup {w.at} \cup (IF fits THEN {next} ELSE {}),
                      placed  |-> fits ]
    BY <1>t, <1>2, KickStep
  <2>2. /\ kicked \in Lanes
        /\ \A j \in Buckets \ {w.at} : kicked[j] = w.lane[j]
        /\ Used(kicked[w.at]) = Used(w.lane[w.at])
        /\ Total(kicked) = Total(w.lane)
        /\ \A i \in Buckets, f \in Fps :
             Found(kicked, i, f) + Bit(f = out /\ InPair(i, f, w.at))
               = Found(w.lane, i, f) + Bit(f = w.fp /\ InPair(i, f, w.at))
    BY <1>t, <2>1, SwapFacts
  <2>3. next \in Buckets
    BY <1>t, <2>1, PairFacts
  <2>4. Fits(kicked)
    BY <2>2 DEF GoodWalk, Fits
  <2>5. Total(kicked) = Total(lane) /\ Total(lane) \in Nat
    <3>1. Total(lane) \in Nat /\ Total(w.lane) = Total(lane) + Bit(w.placed) /\ Bit(w.placed) = 0
      BY <1>2, TotalIsNat DEF GoodWalk, Bit
    <3> QED BY <2>2, <3>1
  <2>6. ASSUME NEW i \in Buckets, NEW f \in Fps
        PROVE  Found(kicked, i, f) + Bit(f = out /\ InPair(i, f, next))
                 = Found(lane, i, f) + Bit(f = fp /\ InPair(i, f, a))
    <3>1. (f = out /\ InPair(i, f, next)) <=> (f = out /\ InPair(i, f, w.at))
      BY <1>t, <2>1, PairShifts
    <3>2. Bit(f = out /\ InPair(i, f, next)) = Bit(f = out /\ InPair(i, f, w.at))
      BY <3>1 DEF Bit
    <3>3. Found(w.lane, i, f) + Bit(~w.placed /\ f = w.fp /\ InPair(i, f, w.at))
           = Found(lane, i, f) + Bit(f = fp /\ InPair(i, f, a))
      BY DEF GoodWalk
    <3>4. Bit(~w.placed /\ f = w.fp /\ InPair(i, f, w.at)) = Bit(f = w.fp /\ InPair(i, f, w.at))
      BY <1>2 DEF Bit
    <3> QED BY <2>2, <3>2, <3>3, <3>4
  <2>7. CASE ~fits
    <3>1. /\ v.lane = kicked /\ v.at = next /\ v.fp = out
          /\ v.touched = w.touched \cup {w.at} /\ v.placed = FALSE /\ v \in WalkRecs
      BY <1>t, <2>1, <2>2, <2>3, <2>7 DEF WalkRecs
    <3>2. \A j \in Buckets \ v.touched : v.lane[j] = lane[j]
      BY <2>2, <3>1 DEF GoodWalk
    <3>3. Total(v.lane) = Total(lane) + Bit(v.placed)
      BY <2>5, <3>1 DEF Bit
    <3>4. ASSUME NEW i \in Buckets, NEW f \in Fps
          PROVE  Found(v.lane, i, f) + Bit(~v.placed /\ f = v.fp /\ InPair(i, f, v.at))
                   = Found(lane, i, f) + Bit(f = fp /\ InPair(i, f, a))
      <4>1. Bit(~v.placed /\ f = v.fp /\ InPair(i, f, v.at)) = Bit(f = out /\ InPair(i, f, next))
        BY <3>1 DEF Bit
      <4> QED BY <2>6, <3>1, <4>1
    <3> QED BY <2>4, <3>1, <3>2, <3>3, <3>4 DEF GoodWalk
  <2>8. CASE fits
    <3> DEFINE put == Put(kicked, next, out)
    <3>1. /\ put \in Lanes /\ \A j \in Buckets \ {next} : put[j] = kicked[j]
          /\ Used(kicked[next]) \in Nat /\ Used(put[next]) = Used(kicked[next]) + 1
          /\ Total(put) = Total(kicked) + 1
      BY <2>2, <2>3, PutFacts
    <3>2. \A i \in Buckets, f \in Fps :
             /\ Found(kicked, i, f) \in Nat
             /\ Found(put, i, f) = Found(kicked, i, f) + Bit(f = out /\ InPair(i, f, next))
      BY <2>2, <2>3, PutFound
    <3>f. Fits(put)
      <4>h. HasRoom(kicked, next)
        BY <2>1, <2>8, Zenon
      <4> HIDE DEF put
      <4>s. Slots \in Nat
        BY CkfConfig
      <4>1. Used(put[next]) <= Slots
        BY <4>h, <4>s, <3>1 DEF HasRoom
      <4> QED BY <2>4, <3>1, <4>1 DEF Fits
    <3>r. v.lane = put
      BY <2>1, <2>8
    <3> HIDE DEF put
    <3>3. /\ v.lane = put /\ v.at = next /\ v.fp = out
          /\ v.touched = w.touched \cup {w.at, next} /\ v.placed = TRUE /\ v \in WalkRecs
      BY <1>t, <2>1, <2>3, <2>8, <3>1, <3>r DEF WalkRecs
    <3>4. \A j \in Buckets \ v.touched : v.lane[j] = lane[j]
      BY <2>2, <3>1, <3>3 DEF GoodWalk
    <3>5. Total(v.lane) = Total(lane) + Bit(v.placed)
      BY <2>5, <3>1, <3>3 DEF Bit
    <3>6. ASSUME NEW i \in Buckets, NEW f \in Fps
          PROVE  Found(v.lane, i, f) + Bit(~v.placed /\ f = v.fp /\ InPair(i, f, v.at))
                   = Found(lane, i, f) + Bit(f = fp /\ InPair(i, f, a))
      <4>1. Bit(~v.placed /\ f = v.fp /\ InPair(i, f, v.at)) = 0
        BY <3>3 DEF Bit
      <4>2. Found(lane, i, f) \in Nat /\ Bit(f = fp /\ InPair(i, f, a)) \in Nat
        BY FoundIsNat, BitIsNat
      <4>3. Found(put, i, f) = Found(lane, i, f) + Bit(f = fp /\ InPair(i, f, a))
        BY <2>6, <3>2
      <4> QED BY <3>3, <4>1, <4>2, <4>3
    <3> QED BY <3>3, <3>4, <3>5, <3>6, <3>f DEF GoodWalk
  <2> QED BY <2>7, <2>8
<1> QED BY <1>1, <1>2, <1>t

-----------------------------------------------------------------------------
(* Iteration.                                                                 *)

\* it gives the first N iterates of step, with values in A.
IsIteration(it, N, A, base, step) ==
    it \in [0 .. N -> A] /\ it[0] = base /\ \A n \in 1 .. N : it[n] = step[it[n - 1]]

\* A step that keeps a set can be repeated up to any bound.
LEMMA IterationExists ==
    ASSUME NEW A, NEW base \in A, NEW step \in [A -> A], NEW N \in Nat
    PROVE  \E it : IsIteration(it, N, A, base, step)
<1> DEFINE Sol(m) == \E it \in [0 .. m -> A] :
                       it[0] = base /\ \A n \in 1 .. m : it[n] = step[it[n - 1]]
           P == { m \in 0 .. N : Sol(m) }
<1>1. 0 \in P
  <2> DEFINE it == [n \in 0 .. 0 |-> base]
  <2>1. it \in [0 .. 0 -> A] /\ it[0] = base /\ \A n \in 1 .. 0 : it[n] = step[it[n - 1]]
    OBVIOUS
  <2>2. 0 \in 0 .. N
    OBVIOUS
  <2> HIDE DEF it
  <2> QED BY <2>1, <2>2, Zenon
<1>2. ASSUME NEW m \in 1 .. N, m - 1 \in P PROVE m \in P
  <2>1. PICK it \in [0 .. (m - 1) -> A] :
          it[0] = base /\ \A n \in 1 .. (m - 1) : it[n] = step[it[n - 1]]
    BY <1>2
  <2> DEFINE new == [n \in 0 .. m |-> IF n = m THEN step[it[m - 1]] ELSE it[n]]
  <2>2. new \in [0 .. m -> A]
    <3>1. m - 1 \in 0 .. (m - 1)
      OBVIOUS
    <3>2. \A n \in 0 .. m : n # m => n \in 0 .. (m - 1)
      OBVIOUS
    <3> QED BY <3>1, <3>2
  <2>3. new[0] = base
    BY <2>1
  <2>4. \A n \in 1 .. m : new[n] = step[new[n - 1]]
    <3> SUFFICES ASSUME NEW n \in 1 .. m PROVE new[n] = step[new[n - 1]]
      OBVIOUS
    <3>1. n \in 0 .. m /\ n - 1 \in 0 .. m /\ n - 1 # m
      OBVIOUS
    <3>2. CASE n = m
      BY <3>1, <3>2
    <3>3. CASE n # m
      <4>1. n \in 1 .. (m - 1)
        BY <3>3
      <4> QED BY <2>1, <3>1, <3>3, <4>1
    <3> QED BY <3>2, <3>3
  <2> HIDE DEF new
  <2> QED BY <2>2, <2>3, <2>4
<1> HIDE DEF P
<1>3. 0 .. N \subseteq P
  BY <1>1, <1>2, BoundedInduction
<1> QED BY <1>3 DEF P, IsIteration

\* Every outcome of the eviction loop is a good walk.
LEMMA WalksAreGood ==
    ASSUME NEW lane \in Lanes, Fits(lane), NEW a \in Buckets, NEW fp \in Fps,
           NEW v \in Walks(lane, {a, Alt[a][fp]}, fp)
    PROVE  GoodWalk(v, lane, a, fp)
<1> DEFINE starts == {a, Alt[a][fp]}
           Base == { [lane |-> lane, at |-> i, fp |-> fp, touched |-> {}, placed |-> FALSE]
                     : i \in starts }
           Step(W) == UNION { Kick(w) : w \in W }
           Body(it) == [n \in 0 .. MaxKicks |-> IF n = 0 THEN Base ELSE Step(it[n - 1])]
           after == CHOOSE it : it = Body(it)
           Good == { w \in WalkRecs : GoodWalk(w, lane, a, fp) }
<1>k. MaxKicks \in Nat
  BY CkfConfig
<1>0. Walks(lane, starts, fp) = after[MaxKicks]
  BY Zenon DEF Walks
<1>1. Base \in SUBSET Good
  <2>1. Alt[a][fp] \in Buckets
    BY PairFacts
  <2> SUFFICES ASSUME NEW i \in {a, Alt[a][fp]},
                      NEW w, w = [lane |-> lane, at |-> i, fp |-> fp, touched |-> {}, placed |-> FALSE]
               PROVE  w \in Good
    OBVIOUS
  <2>2. /\ w.lane = lane /\ w.at = i /\ w.fp = fp /\ w.touched = {} /\ w.placed = FALSE
        /\ w \in WalkRecs
    BY <2>1 DEF WalkRecs
  <2>3. Total(w.lane) = Total(lane) + Bit(w.placed)
    <3>1. Total(lane) \in Nat
      BY TotalIsNat
    <3> QED BY <2>2, <3>1 DEF Bit
  <2>4. ASSUME NEW j \in Buckets, NEW f \in Fps
        PROVE  Found(w.lane, j, f) + Bit(~w.placed /\ f = w.fp /\ InPair(j, f, w.at))
                 = Found(lane, j, f) + Bit(f = fp /\ InPair(j, f, a))
    <3>1. (~w.placed /\ f = w.fp /\ InPair(j, f, w.at)) <=> (f = fp /\ InPair(j, f, a))
      BY <2>2, PairShifts
    <3> QED BY <2>2, <3>1 DEF Bit
  <2> QED BY <2>2, <2>3, <2>4 DEF GoodWalk
<1>2. \A W \in SUBSET Good : Step(W) \in SUBSET Good
  <2> SUFFICES ASSUME NEW W \in SUBSET Good, NEW w \in W, NEW x \in Kick(w) PROVE x \in Good
    OBVIOUS
  <2>1. GoodWalk(w, lane, a, fp)
    OBVIOUS
  <2>2. GoodWalk(x, lane, a, fp)
    BY <2>1, KickKeeps
  <2> QED BY <2>2 DEF GoodWalk
<1> HIDE DEF Base, Step, Good
<1> DEFINE step == [W \in SUBSET Good |-> Step(W)]
<1>3. PICK it \in [0 .. MaxKicks -> SUBSET Good] :
        it[0] = Base /\ \A n \in 1 .. MaxKicks : it[n] = step[it[n - 1]]
  <2>1. step \in [SUBSET Good -> SUBSET Good]
    BY <1>2
  <2> DEFINE A == SUBSET Good
  <2>2. Base \in A /\ step \in [A -> A]
    BY <1>1, <2>1
  <2> HIDE DEF step, A
  <2>3. \E it : IsIteration(it, MaxKicks, A, Base, step)
    BY <1>k, <2>2, IterationExists
  <2> QED BY <2>3 DEF A, IsIteration
<1>4. it = Body(it)
  <2>1. ASSUME NEW n \in 0 .. MaxKicks PROVE it[n] = Body(it)[n]
    <3>1. CASE n = 0
      BY <1>3, <3>1
    <3>2. CASE n # 0
      <4>1. n \in 1 .. MaxKicks /\ n - 1 \in 0 .. MaxKicks
        BY <1>k, <3>2
      <4>2. it[n] = step[it[n - 1]] /\ it[n - 1] \in SUBSET Good
        BY <1>3, <4>1
      <4> QED BY <3>2, <4>2
    <3> QED BY <3>1, <3>2
  <2> QED BY <2>1
<1>5. after = Body(after)
  <2> HIDE DEF Body
  <2> QED BY <1>4
<1> HIDE DEF after
<1> DEFINE P == { n \in 0 .. MaxKicks : after[n] \in SUBSET Good }
<1>6. 0 \in P
  <2>1. after[0] = Base
    BY <1>5, <1>k
  <2> QED BY <1>1, <1>k, <2>1
<1>7. ASSUME NEW n \in 1 .. MaxKicks, n - 1 \in P PROVE n \in P
  <2>1. n \in 0 .. MaxKicks /\ n # 0
    BY <1>k
  <2>2. after[n] = Body(after)[n]
    BY <1>5, Zenon
  <2>3. after[n] = Step(after[n - 1])
    BY <2>1, <2>2, Zenon
  <2> QED BY <1>2, <1>7, <2>1, <2>3
<1> HIDE DEF P
<1>8. MaxKicks \in P
  <2>1. 0 .. MaxKicks \subseteq P
    BY <1>6, <1>7, <1>k, BoundedInduction
  <2> QED BY <1>k, <2>1
<1>9. v \in Good
  BY <1>0, <1>8 DEF P
<1> QED BY <1>9 DEF Good

-----------------------------------------------------------------------------
(* The filter.                                                                *)

\* new was made from old: what differs is dirty.
Follows(old, new) ==
    /\ old.dirty \subseteq new.dirty
    /\ \A i \in Buckets \ new.dirty : new.buckets[i] = old.buckets[i]

\* Is bucket i one of the two that the fingerprint f of hash g may be in?
Maps(g, i, f) == Probe[g].fp = f /\ InPair(i, f, Probe[g].bucket)

Mapped(O, i, f) == { g \in O : Maps(g, i, f) }

Sound(fl) == fl \in Filters /\ Fits(fl.buckets) /\ fl.items = Total(fl.buckets)

\* Every hash of O has its fingerprint in the filter, and nothing else has.
Holding(fl, O) ==
    \A i \in Buckets, f \in Fps : Found(fl.buckets, i, f) = Cardinality(Mapped(O, i, f))

LEMMA ProbeFacts ==
    ASSUME NEW h \in Hashes
    PROVE  /\ Probe[h].fp \in Fps /\ Probe[h].bucket \in Buckets
           /\ Alt[Probe[h].bucket][Probe[h].fp] \in Buckets
<1>1. Probe[h].fp \in Fps /\ Probe[h].bucket \in Buckets
  BY CkfConfig
<1> QED BY <1>1, PairFacts

LEMMA FollowsItself == ASSUME NEW fl PROVE Follows(fl, fl)
BY DEF Follows

LEMMA FollowsOn ==
    ASSUME NEW x, NEW y, NEW z, Follows(x, y), Follows(y, z) PROVE Follows(x, z)
BY DEF Follows

\* A filter that follows the old one keeps the publication's part.
LEMMA FollowerKeepsDirty ==
    ASSUME NEW fl, NEW new, NEW image, Follows(fl, new),
           \A i \in Buckets \ fl.dirty : fl.buckets[i] = image[i]
    PROVE  \A i \in Buckets \ new.dirty : new.buckets[i] = image[i]
BY DEF Follows

\* The record Placed builds.
LEMMA PlacedFacts ==
    ASSUME NEW fl \in Filters, NEW lane \in Lanes, NEW touched \in SUBSET Buckets
    PROVE  LET new == Placed(fl, lane, touched) IN
           /\ new \in Filters /\ new.buckets = lane /\ new.items = fl.items + 1
           /\ new.dirty = fl.dirty \cup touched
<1>1. fl.buckets \in Lanes /\ fl.items \in Nat /\ fl.dirty \in SUBSET Buckets
      /\ fl = [buckets |-> fl.buckets, items |-> fl.items, dirty |-> fl.dirty]
  BY DEF Filters
<1> DEFINE n == fl.items + 1
           d == fl.dirty \cup touched
<1>2. n \in Nat /\ d \in SUBSET Buckets
  BY <1>1
<1>3. Placed(fl, lane, touched) = [fl EXCEPT !.buckets = lane, !.dirty = d, !.items = n]
  BY DEF Placed
<1> HIDE DEF n, d
<1>4. Placed(fl, lane, touched) = [buckets |-> lane, items |-> n, dirty |-> d]
  BY <1>1, <1>3
<1> QED BY <1>2, <1>4 DEF Filters, n, d

LEMMA TakenFacts ==
    ASSUME NEW fl \in Filters, NEW i \in Buckets, NEW fp \in Fps, Holds(fl.buckets, i, fp)
    PROVE  LET new == TakenFrom(fl, i, fp) IN
           /\ new \in Filters /\ new.buckets = Take(fl.buckets, i, fp)
           /\ new.items = SaturatingDec(fl.items)
           /\ new.dirty = fl.dirty \cup {i}
<1>1. fl.buckets \in Lanes /\ fl.items \in Nat /\ fl.dirty \in SUBSET Buckets
      /\ fl = [buckets |-> fl.buckets, items |-> fl.items, dirty |-> fl.dirty]
  BY DEF Filters
<1> DEFINE less == Take(fl.buckets, i, fp)
           n == SaturatingDec(fl.items)
<1>2. less \in Lanes
  BY <1>1, TakeFacts
<1>3. n \in Nat /\ n = IF fl.items = 0 THEN 0 ELSE fl.items - 1
  BY <1>1 DEF SaturatingDec
<1>4. TakenFrom(fl, i, fp) = [buckets |-> less, items |-> n, dirty |-> fl.dirty \cup {i}]
  <2> HIDE DEF less, n
  <2>1. TakenFrom(fl, i, fp) = [fl EXCEPT !.buckets = less, !.dirty = fl.dirty \cup {i}, !.items = n]
    BY <1>3 DEF TakenFrom, less
  <2> QED BY <1>1, <2>1
<1> HIDE DEF less, n
<1>5. TakenFrom(fl, i, fp) \in Filters
  BY <1>1, <1>2, <1>3, <1>4 DEF Filters
<1> QED BY <1>4, <1>5 DEF less, n

\* A fingerprint that was placed somewhere in its pair.
LEMMA PlacedIsSound ==
    ASSUME NEW fl, Sound(fl), NEW lane \in Lanes, NEW touched \in SUBSET Buckets,
           Fits(lane), Total(lane) = Total(fl.buckets) + 1,
           \A j \in Buckets \ touched : lane[j] = fl.buckets[j]
    PROVE  LET new == Placed(fl, lane, touched) IN
           /\ Sound(new) /\ Follows(fl, new) /\ new.items = fl.items + 1 /\ new.buckets = lane
<1> DEFINE new == Placed(fl, lane, touched)
<1>1. /\ new \in Filters /\ new.buckets = lane /\ new.items = fl.items + 1
      /\ new.dirty = fl.dirty \cup touched
  BY PlacedFacts DEF Sound
<1> HIDE DEF new
<1>2. Sound(new)
  BY <1>1 DEF Sound
<1>3. Follows(fl, new)
  BY <1>1 DEF Follows
<1> QED BY <1>1, <1>2, <1>3 DEF new

\* insert_fingerprint() either changes nothing or adds one copy of the
\* fingerprint to the pair of buckets of the hash.
LEMMA InsertFacts ==
    ASSUME NEW fl, Sound(fl), NEW h \in Hashes, NEW new \in InsertFingerprint(fl, h)
    PROVE  /\ Sound(new) /\ Follows(fl, new)
           /\ \/ new = fl
              \/ /\ new.items = fl.items + 1
                 /\ \A i \in Buckets, f \in Fps :
                      Found(new.buckets, i, f) = Found(fl.buckets, i, f) + Bit(Maps(h, i, f))
<1> DEFINE fp == Probe[h].fp
           a == Probe[h].bucket
           b == Alt[a][fp]
           lane == fl.buckets
<1>1. fp \in Fps /\ a \in Buckets /\ b \in Buckets
  BY ProbeFacts
<1>2. lane \in Lanes /\ Fits(lane) /\ Total(lane) \in Nat
  BY TotalIsNat DEF Sound, Filters
<1>m. \A i \in Buckets, f \in Fps : Bit(Maps(h, i, f)) = Bit(f = fp /\ InPair(i, f, a))
  <2> SUFFICES ASSUME NEW i \in Buckets, NEW f \in Fps
               PROVE  Bit(Maps(h, i, f)) = Bit(f = fp /\ InPair(i, f, a))
    OBVIOUS
  <2>1. Maps(h, i, f) <=> (f = fp /\ InPair(i, f, a))
    BY DEF Maps
  <2> QED BY <2>1 DEF Bit
<1>s. \A i \in Buckets, f \in Fps : Bit(f = fp /\ InPair(i, f, b)) = Bit(f = fp /\ InPair(i, f, a))
  <2> SUFFICES ASSUME NEW i \in Buckets, NEW f \in Fps
               PROVE  Bit(f = fp /\ InPair(i, f, b)) = Bit(f = fp /\ InPair(i, f, a))
    OBVIOUS
  <2>1. (f = fp /\ InPair(i, f, b)) <=> (f = fp /\ InPair(i, f, a))
    BY <1>1, PairShifts
  <2> QED BY <2>1 DEF Bit
<1>c. \/ HasRoom(lane, a) /\ new = Placed(fl, Put(lane, a, fp), {a})
      \/ HasRoom(lane, b) /\ new = Placed(fl, Put(lane, b, fp), {b})
      \/ \E w \in Walks(lane, {a, b}, fp) :
            new = IF w.placed THEN Placed(fl, w.lane, w.touched) ELSE fl
  BY Zenon DEF InsertFingerprint
<1> HIDE DEF fp, a, lane
<1>3. ASSUME NEW i \in {a, b}, HasRoom(lane, i), new = Placed(fl, Put(lane, i, fp), {i})
      PROVE  /\ Sound(new) /\ Follows(fl, new)
             /\ new.items = fl.items + 1
             /\ \A j \in Buckets, f \in Fps :
                      Found(new.buckets, j, f) = Found(fl.buckets, j, f) + Bit(Maps(h, j, f))
  <2> DEFINE put == Put(lane, i, fp)
  <2>i. i \in Buckets
    BY <1>1
  <2>1. /\ put \in Lanes /\ \A j \in Buckets \ {i} : put[j] = lane[j]
        /\ Used(lane[i]) \in Nat /\ Used(put[i]) = Used(lane[i]) + 1 /\ Total(put) = Total(lane) + 1
    BY <1>1, <1>2, <2>i, PutFacts
  <2>2. \A j \in Buckets, f \in Fps :
          Found(put, j, f) = Found(lane, j, f) + Bit(f = fp /\ InPair(j, f, i))
    BY <1>1, <1>2, <2>i, PutFound
  <2> HIDE DEF put
  <2>3. Fits(put)
    <3>1. Slots \in Nat
      BY CkfConfig
    <3>2. Used(put[i]) <= Slots
      BY <1>3, <2>1, <3>1 DEF HasRoom
    <3> QED BY <1>2, <2>1, <3>2 DEF Fits
  <2>4. Sound(new) /\ Follows(fl, new) /\ new.items = fl.items + 1 /\ new.buckets = put
    <3>1. /\ {i} \in SUBSET Buckets /\ Total(put) = Total(fl.buckets) + 1
          /\ \A j \in Buckets \ {i} : put[j] = fl.buckets[j]
      BY <2>i, <2>1 DEF lane
    <3>2. new = Placed(fl, put, {i})
      BY <1>3 DEF put
    <3> QED BY <2>1, <2>3, <3>1, <3>2, PlacedIsSound
  <2>5. ASSUME NEW j \in Buckets, NEW f \in Fps
        PROVE  Found(new.buckets, j, f) = Found(fl.buckets, j, f) + Bit(Maps(h, j, f))
    <3>1. Bit(f = fp /\ InPair(j, f, i)) = Bit(f = fp /\ InPair(j, f, a))
      BY <1>s, <1>3
    <3> QED BY <1>m, <2>2, <2>4, <3>1 DEF lane
  <2> QED BY <2>4, <2>5
<1>4. ASSUME NEW w \in Walks(lane, {a, b}, fp), w.placed, new = Placed(fl, w.lane, w.touched)
      PROVE  /\ Sound(new) /\ Follows(fl, new)
             /\ new.items = fl.items + 1
             /\ \A j \in Buckets, f \in Fps :
                      Found(new.buckets, j, f) = Found(fl.buckets, j, f) + Bit(Maps(h, j, f))
  <2>1. GoodWalk(w, lane, a, fp)
    BY <1>1, <1>2, <1>4, WalksAreGood
  <2>2. w.lane \in Lanes /\ w.touched \in SUBSET Buckets /\ Fits(w.lane)
        /\ \A j \in Buckets \ w.touched : w.lane[j] = lane[j]
    BY <2>1 DEF GoodWalk, WalkRecs
  <2>3. Total(w.lane) = Total(lane) + 1
    BY <2>1, <1>4 DEF GoodWalk, Bit
  <2>4. Sound(new) /\ Follows(fl, new) /\ new.items = fl.items + 1 /\ new.buckets = w.lane
    <3>1. /\ Total(w.lane) = Total(fl.buckets) + 1
          /\ \A j \in Buckets \ w.touched : w.lane[j] = fl.buckets[j]
      BY <2>2, <2>3 DEF lane
    <3> QED BY <1>4, <2>2, <3>1, PlacedIsSound
  <2>5. ASSUME NEW j \in Buckets, NEW f \in Fps
        PROVE  Found(new.buckets, j, f) = Found(fl.buckets, j, f) + Bit(Maps(h, j, f))
    <3>1. Found(w.lane, j, f) + Bit(~w.placed /\ f = w.fp /\ InPair(j, f, w.at))
           = Found(lane, j, f) + Bit(f = fp /\ InPair(j, f, a))
      BY <2>1 DEF GoodWalk
    <3>2. Bit(~w.placed /\ f = w.fp /\ InPair(j, f, w.at)) = 0
      BY <1>4 DEF Bit
    <3>3. Found(w.lane, j, f) \in Nat
      BY <2>2, FoundIsNat
    <3>4. Found(w.lane, j, f) = Found(lane, j, f) + Bit(f = fp /\ InPair(j, f, a))
      BY <3>1, <3>2, <3>3
    <3> QED BY <1>m, <2>4, <3>4 DEF lane
  <2> QED BY <2>4, <2>5
<1>5. ASSUME new = fl PROVE Sound(new) /\ Follows(fl, new)
  BY <1>5, FollowsItself
<1> QED BY <1>c, <1>3, <1>4, <1>5

\* delete_fingerprint() takes out one copy, if there is one.
LEMMA DeleteFacts ==
    ASSUME NEW fl \in Filters, NEW h \in Hashes
    PROVE  LET new == DeleteFingerprint(fl, h) IN
           /\ new \in Filters
           /\ Sound(fl) => Sound(new) /\ Follows(fl, new)
           /\ Found(fl.buckets, Probe[h].bucket, Probe[h].fp) > 0 =>
                \A i \in Buckets, f \in Fps :
                    Found(new.buckets, i, f) + Bit(Maps(h, i, f)) = Found(fl.buckets, i, f)
<1> DEFINE fp == Probe[h].fp
           a == Probe[h].bucket
           b == Alt[a][fp]
           lane == fl.buckets
           new == DeleteFingerprint(fl, h)
<1>1. fp \in Fps /\ a \in Buckets /\ b \in Buckets
  BY ProbeFacts
<1>2. lane \in Lanes
  BY DEF Filters
<1>m. \A i \in Buckets, f \in Fps : Maps(h, i, f) <=> (f = fp /\ InPair(i, f, a))
  BY DEF Maps
<1>s. \A i \in Buckets, f \in Fps : (f = fp /\ InPair(i, f, b)) <=> (f = fp /\ InPair(i, f, a))
  BY <1>1, PairShifts
<1>c. \/ Holds(lane, a, fp) /\ new = TakenFrom(fl, a, fp)
      \/ Holds(lane, b, fp) /\ new = TakenFrom(fl, b, fp)
      \/ ~Holds(lane, a, fp) /\ ~Holds(lane, b, fp) /\ new = fl
  BY Zenon DEF DeleteFingerprint
<1>f. Found(fl.buckets, Probe[h].bucket, Probe[h].fp) = lane[a][fp] + lane[b][fp]
  BY DEF Found
<1> HIDE DEF fp, a, lane, new
<1>3. ASSUME NEW i \in {a, b}, Holds(lane, i, fp), new = TakenFrom(fl, i, fp)
      PROVE  /\ new \in Filters
             /\ Sound(fl) => Sound(new) /\ Follows(fl, new)
             /\ \A j \in Buckets, f \in Fps :
                    Found(new.buckets, j, f) + Bit(Maps(h, j, f)) = Found(fl.buckets, j, f)
  <2> DEFINE less == Take(lane, i, fp)
  <2>i. i \in Buckets
    BY <1>1
  <2>1. /\ less \in Lanes /\ \A j \in Buckets \ {i} : less[j] = lane[j]
        /\ Used(lane[i]) \in Nat /\ Used(less[i]) = Used(lane[i]) - 1
        /\ Total(lane) \in Nat /\ Total(less) \in Nat /\ Total(less) = Total(lane) - 1
    BY <1>1, <1>2, <1>3, <2>i, TakeFacts
  <2>2. \A j \in Buckets, f \in Fps :
          Found(less, j, f) + Bit(f = fp /\ InPair(j, f, i)) = Found(lane, j, f)
    BY <1>1, <1>2, <1>3, <2>i, TakeFound
  <2>3. /\ new \in Filters /\ new.buckets = less
        /\ new.items = SaturatingDec(fl.items) /\ new.dirty = fl.dirty \cup {i}
    BY <1>1, <1>3, <2>i, TakenFacts DEF lane
  <2> HIDE DEF less
  <2>4. ASSUME Sound(fl) PROVE Sound(new) /\ Follows(fl, new)
    <3>1. Fits(less)
      <4>1. Slots \in Nat /\ Used(lane[i]) <= Slots
        BY <2>4, <2>i, CkfConfig DEF Sound, Fits, lane
      <4>2. Used(less[i]) <= Slots
        BY <2>1, <4>1
      <4> QED BY <2>4, <2>1, <4>2 DEF Sound, Fits, lane
    <3>2. new.items = Total(less)
      <4>1. fl.items = Total(lane)
        BY <2>4 DEF Sound, lane
      <4> QED BY <2>1, <2>3, <4>1 DEF SaturatingDec
    <3>3. Sound(new)
      BY <2>3, <3>1, <3>2 DEF Sound
    <3>4. Follows(fl, new)
      BY <2>1, <2>3 DEF Follows, lane
    <3> QED BY <3>3, <3>4
  <2>5. ASSUME NEW j \in Buckets, NEW f \in Fps
        PROVE  Found(new.buckets, j, f) + Bit(Maps(h, j, f)) = Found(fl.buckets, j, f)
    <3>1. Maps(h, j, f) <=> (f = fp /\ InPair(j, f, i))
      BY <1>m, <1>s
    <3>2. Bit(Maps(h, j, f)) = Bit(f = fp /\ InPair(j, f, i))
      BY <3>1 DEF Bit
    <3> QED BY <2>2, <2>3, <3>2 DEF lane
  <2> QED BY <2>3, <2>4, <2>5
<1>4. ASSUME ~Holds(lane, a, fp), ~Holds(lane, b, fp)
      PROVE  ~(lane[a][fp] + lane[b][fp] > 0)
  <2>1. lane[a][fp] \in Nat /\ lane[b][fp] \in Nat
    BY <1>1, <1>2 DEF Lanes
  <2> HIDE DEF b
  <2> QED BY <1>4, <2>1 DEF Holds
<1>5. ASSUME new = fl PROVE new \in Filters /\ (Sound(fl) => Sound(new) /\ Follows(fl, new))
  BY <1>5, FollowsItself
<1> QED BY <1>c, <1>f, <1>3, <1>4, <1>5 DEF new

-----------------------------------------------------------------------------
(* Which hashes the fingerprints stand for.                                   *)

\* One hash more or less.
LEMMA MappedCounted ==
    ASSUME NEW O \in SUBSET Hashes, NEW h \in Hashes
    PROVE  \A i \in Buckets, f \in Fps :
             /\ Cardinality(Mapped(O, i, f)) \in Nat
             /\ h \notin O => Cardinality(Mapped(O \cup {h}, i, f))
                               = Cardinality(Mapped(O, i, f)) + Bit(Maps(h, i, f))
             /\ h \in O => Cardinality(Mapped(O \ {h}, i, f)) + Bit(Maps(h, i, f))
                              = Cardinality(Mapped(O, i, f))
<1> SUFFICES ASSUME NEW i \in Buckets, NEW f \in Fps
             PROVE  /\ Cardinality(Mapped(O, i, f)) \in Nat
                    /\ h \notin O => Cardinality(Mapped(O \cup {h}, i, f))
                                      = Cardinality(Mapped(O, i, f)) + Bit(Maps(h, i, f))
                    /\ h \in O => Cardinality(Mapped(O \ {h}, i, f)) + Bit(Maps(h, i, f))
                                     = Cardinality(Mapped(O, i, f))
  OBVIOUS
<1> DEFINE M == Mapped(O, i, f)
<1>1. IsFiniteSet(M) /\ Cardinality(M) \in Nat
  <2>1. M \subseteq Hashes
    BY DEF Mapped
  <2> QED BY <2>1, FiniteConfig, FS_Subset, FS_CardinalityType
<1>2. CASE ~Maps(h, i, f)
  <2>1. Mapped(O \cup {h}, i, f) = M /\ Mapped(O \ {h}, i, f) = M
    BY <1>2 DEF Mapped
  <2>2. Bit(Maps(h, i, f)) = 0
    BY <1>2 DEF Bit
  <2> HIDE DEF M
  <2> QED BY <1>1, <2>1, <2>2 DEF M
<1>3. CASE Maps(h, i, f)
  <2>1. Bit(Maps(h, i, f)) = 1
    BY <1>3 DEF Bit
  <2>2. ASSUME h \notin O
        PROVE  Cardinality(Mapped(O \cup {h}, i, f)) = Cardinality(M) + 1
    <3>1. Mapped(O \cup {h}, i, f) = M \cup {h} /\ h \notin M
      BY <1>3, <2>2 DEF Mapped
    <3> QED BY <1>1, <3>1, FS_AddElement
  <2>3. ASSUME h \in O
        PROVE  Cardinality(Mapped(O \ {h}, i, f)) + 1 = Cardinality(M)
    <3>1. Mapped(O \ {h}, i, f) = M \ {h} /\ h \in M
      BY <1>3, <2>3 DEF Mapped
    <3>2. Cardinality(M \ {h}) = Cardinality(M) - 1
      BY <1>1, <3>1, FS_RemoveElement
    <3>3. Cardinality(Mapped(O \ {h}, i, f)) = Cardinality(M) - 1
      BY <3>1, <3>2, Zenon
    <3> HIDE DEF M
    <3> QED BY <1>1, <3>3
  <2> HIDE DEF M
  <2> QED BY <1>1, <2>1, <2>2, <2>3 DEF M
<1> QED BY <1>2, <1>3

LEMMA MapsItself ==
    ASSUME NEW h \in Hashes PROVE Maps(h, Probe[h].bucket, Probe[h].fp)
BY DEF Maps, InPair

LEMMA InsertHolds ==
    ASSUME NEW fl, Sound(fl), NEW O \in SUBSET Hashes, Holding(fl, O), NEW h \in Hashes, h \notin O,
           NEW new \in InsertFingerprint(fl, h), new.items # fl.items
    PROVE  Holding(new, O \cup {h})
<1>1. \A i \in Buckets, f \in Fps :
        Found(new.buckets, i, f) = Found(fl.buckets, i, f) + Bit(Maps(h, i, f))
  BY InsertFacts
<1>2. \A i \in Buckets, f \in Fps :
        Cardinality(Mapped(O \cup {h}, i, f)) = Cardinality(Mapped(O, i, f)) + Bit(Maps(h, i, f))
  BY MappedCounted
<1> QED BY <1>1, <1>2 DEF Holding

LEMMA DeleteHolds ==
    ASSUME NEW fl \in Filters, NEW O \in SUBSET Hashes, Holding(fl, O), NEW h \in O
    PROVE  Holding(DeleteFingerprint(fl, h), O \ {h})
<1> DEFINE new == DeleteFingerprint(fl, h)
           a == Probe[h].bucket
           fp == Probe[h].fp
<1>h. h \in Hashes /\ a \in Buckets /\ fp \in Fps
  BY ProbeFacts
<1>1. Found(fl.buckets, a, fp) > 0
  <2>1. Found(fl.buckets, a, fp) = Cardinality(Mapped(O, a, fp))
    BY <1>h DEF Holding
  <2>2. Bit(Maps(h, a, fp)) = 1
    BY <1>h, MapsItself DEF Bit
  <2>3. /\ Cardinality(Mapped(O \ {h}, a, fp)) + Bit(Maps(h, a, fp)) = Cardinality(Mapped(O, a, fp))
        /\ Cardinality(Mapped(O \ {h}, a, fp)) \in Nat
    BY <1>h, MappedCounted
  <2> QED BY <2>1, <2>2, <2>3
<1>2. /\ new \in Filters
      /\ \A i \in Buckets, f \in Fps :
           Found(new.buckets, i, f) + Bit(Maps(h, i, f)) = Found(fl.buckets, i, f)
  BY <1>h, <1>1, DeleteFacts
<1> HIDE DEF new
<1>3. ASSUME NEW i \in Buckets, NEW f \in Fps
      PROVE  Found(new.buckets, i, f) = Cardinality(Mapped(O \ {h}, i, f))
  <2> DEFINE x == Bit(Maps(h, i, f))
  <2>1. /\ Cardinality(Mapped(O \ {h}, i, f)) \in Nat
        /\ Cardinality(Mapped(O \ {h}, i, f)) + x = Cardinality(Mapped(O, i, f))
    BY <1>h, MappedCounted
  <2>2. Found(new.buckets, i, f) + x = Cardinality(Mapped(O, i, f))
    BY <1>2 DEF Holding
  <2>3. Found(new.buckets, i, f) \in Nat /\ x \in Nat
    BY <1>2, FoundIsNat, BitIsNat DEF Filters
  <2> HIDE DEF x
  <2> QED BY <2>1, <2>2, <2>3
<1> QED BY <1>3 DEF Holding, new

\* Deletions of several hashes, one after the other.
Without(fl, hs) == FoldSet(LAMBDA h, g : DeleteFingerprint(g, h), fl, hs)

LEMMA DeletionsFold ==
    ASSUME NEW fl \in Filters, NEW hs \in SUBSET Hashes
    PROVE  \E it : /\ it[{}] = fl
                   /\ \A s \in SUBSET hs : s # {} =>
                        it[s] = DeleteFingerprint(it[s \ {Pick(s)}], Pick(s))
                   /\ Without(fl, hs) = it[hs]
<1> DEFINE Body(it) == [s \in SUBSET hs |->
               IF s = {} THEN fl
               ELSE DeleteFingerprint(it[s \ {CHOOSE x \in s : TRUE}], CHOOSE x \in s : TRUE)]
           iter == CHOOSE it : it = Body(it)
           step == [z \in hs \X Filters |-> DeleteFingerprint(z[2], z[1])]
<1>1. Without(fl, hs) = iter[hs]
  BY DEF Without, FoldSet, MapThenFoldSet
<1>2. step \in [hs \X Filters -> Filters]
  <2>1. \A h \in hs, g \in Filters : DeleteFingerprint(g, h) \in Filters
    BY DeleteFacts
  <2> QED BY <2>1
<1>s. \A h \in hs, g \in Filters : step[<<h, g>>] = DeleteFingerprint(g, h)
  OBVIOUS
<1> HIDE DEF step
<1>f. IsFiniteSet(hs)
  BY FiniteConfig, FS_Subset
<1>3. PICK g : IsFold(g, hs, Filters, fl, step)
  BY <1>2, <1>f, FoldExists
<1>4. g = Body(g)
  <2>1. g \in [SUBSET hs -> Filters]
    BY <1>3 DEF IsFold
  <2>2. ASSUME NEW s \in SUBSET hs PROVE g[s] = Body(g)[s]
    <3>1. CASE s = {}
      BY <1>3, <3>1 DEF IsFold
    <3>2. CASE s # {}
      <4>1. g[s] = step[<<Pick(s), g[s \ {Pick(s)}]>>]
        BY <1>3, <3>2 DEF IsFold
      <4>2. Pick(s) \in hs /\ g[s \ {Pick(s)}] \in Filters
        BY <2>1, <3>2, Picked
      <4>3. g[s] = DeleteFingerprint(g[s \ {Pick(s)}], Pick(s))
        BY <1>s, <4>1, <4>2
      <4> QED BY <3>2, <4>3 DEF Pick
    <3> QED BY <3>1, <3>2
  <2> QED BY <2>1, <2>2
<1>5. iter = Body(iter)
  <2> HIDE DEF Body
  <2> QED BY <1>4
<1> HIDE DEF iter
<1>6. iter[{}] = fl
  <2>1. iter[{}] = Body(iter)[{}]
    BY <1>5, Zenon
  <2> QED BY <2>1
<1>7. ASSUME NEW s \in SUBSET hs, s # {}
      PROVE  iter[s] = DeleteFingerprint(iter[s \ {Pick(s)}], Pick(s))
  <2>1. iter[s] = Body(iter)[s]
    BY <1>5, Zenon
  <2> QED BY <1>7, <2>1 DEF Pick
<1> QED BY <1>1, <1>6, <1>7

\* What the deletions leave is sound, follows from what was there, and stands
\* for the hashes that remain.
LEMMA WithoutFacts ==
    ASSUME NEW fl, Sound(fl), NEW hs \in SUBSET Hashes, NEW O \in SUBSET Hashes, hs \subseteq O
    PROVE  /\ Sound(Without(fl, hs)) /\ Follows(fl, Without(fl, hs))
           /\ Holding(fl, O) => Holding(Without(fl, hs), O \ hs)
<1>0. fl \in Filters
  BY DEF Sound
<1>1. PICK it : /\ it[{}] = fl
                /\ \A s \in SUBSET hs : s # {} =>
                     it[s] = DeleteFingerprint(it[s \ {Pick(s)}], Pick(s))
                /\ Without(fl, hs) = it[hs]
  BY <1>0, DeletionsFold
<1> DEFINE P == { s \in SUBSET hs : /\ Sound(it[s]) /\ Follows(fl, it[s])
                                    /\ Holding(fl, O) => Holding(it[s], O \ s) }
<1>2. ASSUME NEW s \in SUBSET hs, \A u \in SUBSET s : u # s => u \in P
      PROVE  s \in P
  <2>1. CASE s = {}
    <3>1. it[s] = fl /\ O \ s = O
      BY <1>1, <2>1
    <3> QED BY <3>1, FollowsItself
  <2>2. CASE s # {}
    <3> DEFINE c == Pick(s)
               r == s \ {c}
               old == it[r]
    <3>1. c \in s /\ c \in Hashes /\ r \in P /\ r \in SUBSET hs
      BY <1>2, <2>2, Picked
    <3>2. Sound(old) /\ Follows(fl, old) /\ (Holding(fl, O) => Holding(old, O \ r))
      BY <3>1
    <3>3. it[s] = DeleteFingerprint(old, c)
      BY <1>1, <2>2
    <3>4. c \in O \ r /\ (O \ r) \ {c} = O \ s /\ O \ r \in SUBSET Hashes
      BY <3>1
    <3> HIDE DEF c, r, old, P
    <3>5. old \in Filters
      BY <3>2 DEF Sound
    <3>6. Sound(it[s]) /\ Follows(old, it[s])
      BY <3>1, <3>2, <3>3, <3>5, DeleteFacts
    <3>7. Follows(fl, it[s])
      BY <3>2, <3>6, FollowsOn
    <3>8. ASSUME Holding(fl, O) PROVE Holding(it[s], O \ s)
      <4>1. Holding(DeleteFingerprint(old, c), (O \ r) \ {c})
        BY <3>2, <3>4, <3>5, <3>8, DeleteHolds
      <4> QED BY <3>3, <3>4, <4>1
    <3> QED BY <3>6, <3>7, <3>8 DEF P
  <2> QED BY <2>1, <2>2
<1>f. IsFiniteSet(hs)
  BY FiniteConfig, FS_Subset
<1> HIDE DEF P
<1>3. SUBSET hs \subseteq P
  BY <1>2, <1>f, SubsetInduction
<1>4. hs \in P
  BY <1>3
<1> QED BY <1>1, <1>4 DEF P

LEMMA EmptyFilterFacts == Sound(EmptyFilter) /\ Holding(EmptyFilter, {})
<1>1. EmptyBucket \in [Fps -> Nat] /\ \A f \in Fps : EmptyBucket[f] = 0
  BY DEF EmptyBucket
<1>2. Used(EmptyBucket) = 0
  <2>1. Used(EmptyBucket) = NatSum(EmptyBucket, Fps)
    BY UsedIsSum
  <2> QED BY <1>1, <2>1, SumOfZeros, FiniteConfig
<1>3. EmptyLane \in Lanes /\ \A i \in Buckets : EmptyLane[i] = EmptyBucket
  BY <1>1 DEF EmptyLane, Lanes
<1>4. Total(EmptyLane) = 0
  <2>1. \A i \in Buckets : LoadOf(EmptyLane)[i] = 0
    BY <1>2, <1>3 DEF LoadOf
  <2> QED BY <2>1, SumOfZeros, FiniteConfig DEF Total
<1>5. Fits(EmptyLane)
  BY <1>2, <1>3, CkfConfig DEF Fits
<1>6. /\ EmptyFilter \in Filters /\ EmptyFilter.buckets = EmptyLane /\ EmptyFilter.items = 0
  BY <1>3 DEF EmptyFilter, Filters
<1>7. ASSUME NEW i \in Buckets, NEW f \in Fps
      PROVE  Found(EmptyLane, i, f) = Cardinality(Mapped({}, i, f))
  <2>1. Mapped({}, i, f) = {}
    BY DEF Mapped
  <2>2. Alt[i][f] \in Buckets
    BY PairFacts
  <2>3. Found(EmptyLane, i, f) = 0
    BY <1>1, <1>3, <2>2 DEF Found
  <2> QED BY <2>1, <2>3, FS_EmptySet
<1> QED BY <1>4, <1>5, <1>6, <1>7 DEF Sound, Holding

LEMMA EmptyIsLane == EmptyLane \in Lanes
BY DEF EmptyLane, EmptyBucket, Lanes

-----------------------------------------------------------------------------
(* The ownership tables of a producer.                                        *)

\* The ownership part of a producer; what the filter holds is left open.
OwnershipInv(p) ==
    /\ p = [filter |-> p.filter, refcount |-> p.refcount, owners |-> p.owners, held |-> p.held]
    /\ p.refcount \in [Hashes -> Nat]
    /\ p.owners \in [Hashes -> SUBSET Backends]
    /\ p.held \in [Backends -> SUBSET Hashes]
    /\ \A h \in Hashes : p.refcount[h] = Cardinality(p.owners[h])
    /\ \A h \in Hashes, b \in Backends : b \in p.owners[h] <=> h \in p.held[b]

\* A set of workers is finite, and its size follows one worker in or out.
LEMMA OwnersCounted ==
    ASSUME NEW W \in SUBSET Backends, NEW b \in Backends
    PROVE  /\ IsFiniteSet(W) /\ Cardinality(W) \in Nat
           /\ b \notin W => Cardinality(W \cup {b}) = Cardinality(W) + 1
           /\ b \in W => Cardinality(W \ {b}) = Cardinality(W) - 1 /\ Cardinality(W) > 0
<1>1. IsFiniteSet(W)
  BY CkfConfig, FS_Subset
<1>2. Cardinality(W) \in Nat
  BY <1>1, FS_CardinalityType
<1>3. b \notin W => Cardinality(W \cup {b}) = Cardinality(W) + 1
  BY <1>1, FS_AddElement
<1>4. ASSUME b \in W PROVE Cardinality(W \ {b}) = Cardinality(W) - 1 /\ Cardinality(W) > 0
  <2>1. Cardinality(W \ {b}) = Cardinality(W) - 1
    BY <1>1, <1>4, FS_RemoveElement
  <2>2. Cardinality(W) # 0
    BY <1>1, <1>4, FS_EmptySet
  <2> QED BY <2>1, <2>2, <1>2
<1> QED BY <1>1, <1>2, <1>3, <1>4

\* Changing the filter alone does not touch the tables.
LEMMA FilterAside ==
    ASSUME NEW p, OwnershipInv(p), NEW fl
    PROVE  OwnershipInv([p EXCEPT !.filter = fl])
BY DEF OwnershipInv

\* A worker that was no owner of h becomes one.
LEMMA OwnKeepsTables ==
    ASSUME NEW p, OwnershipInv(p), NEW h \in Hashes, NEW b \in Backends, b \notin p.owners[h]
    PROVE  OwnershipInv(Own(p, h, b))
<1> DEFINE q == Own(p, h, b)
<1>1. /\ q = [filter |-> q.filter, refcount |-> q.refcount, owners |-> q.owners, held |-> q.held]
      /\ q.refcount = [p.refcount EXCEPT ![h] = @ + 1]
      /\ q.owners = [p.owners EXCEPT ![h] = @ \cup {b}]
      /\ q.held = [p.held EXCEPT ![b] = @ \cup {h}]
  BY DEF Own, OwnershipInv
<1>2. /\ q.refcount \in [Hashes -> Nat]
      /\ q.owners \in [Hashes -> SUBSET Backends]
      /\ q.held \in [Backends -> SUBSET Hashes]
  BY <1>1 DEF OwnershipInv
<1>3. \A g \in Hashes : q.refcount[g] = Cardinality(q.owners[g])
  <2>1. p.owners[h] \in SUBSET Backends
    BY DEF OwnershipInv
  <2>2. Cardinality(p.owners[h] \cup {b}) = Cardinality(p.owners[h]) + 1
    BY <2>1, OwnersCounted
  <2> QED BY <1>1, <2>2 DEF OwnershipInv
<1>4. \A g \in Hashes, c \in Backends : c \in q.owners[g] <=> g \in q.held[c]
  BY <1>1 DEF OwnershipInv
<1> QED BY <1>1, <1>2, <1>3, <1>4 DEF OwnershipInv

\* A worker gives up hashes it owns, all at once.
LEMMA DisownKeepsTables ==
    ASSUME NEW p, OwnershipInv(p), NEW b \in Backends, NEW hs \in SUBSET p.held[b]
    PROVE  OwnershipInv(Disown(p, hs, b))
<1> DEFINE q == Disown(p, hs, b)
<1>1. /\ q = [filter |-> q.filter, refcount |-> q.refcount, owners |-> q.owners, held |-> q.held]
      /\ q.refcount = [h \in Hashes |-> IF h \in hs THEN SaturatingDec(p.refcount[h])
                                                    ELSE p.refcount[h]]
      /\ q.owners = [h \in Hashes |-> IF h \in hs THEN p.owners[h] \ {b} ELSE p.owners[h]]
      /\ q.held = [p.held EXCEPT ![b] = @ \ hs]
  BY DEF Disown, OwnershipInv
<1>2. \A h \in Hashes : p.refcount[h] \in Nat /\ SaturatingDec(p.refcount[h]) \in Nat
  BY DEF OwnershipInv, SaturatingDec
<1>3. /\ q.refcount \in [Hashes -> Nat]
      /\ q.owners \in [Hashes -> SUBSET Backends]
      /\ q.held \in [Backends -> SUBSET Hashes]
  BY <1>1, <1>2 DEF OwnershipInv
<1>4. ASSUME NEW h \in Hashes PROVE q.refcount[h] = Cardinality(q.owners[h])
  <2>1. CASE h \in hs
    <3>1. b \in p.owners[h] /\ p.owners[h] \in SUBSET Backends
      BY <2>1 DEF OwnershipInv
    <3>2. Cardinality(p.owners[h] \ {b}) = Cardinality(p.owners[h]) - 1
          /\ Cardinality(p.owners[h]) > 0
      BY <3>1, OwnersCounted
    <3>3. q.refcount[h] = SaturatingDec(p.refcount[h]) /\ q.owners[h] = p.owners[h] \ {b}
      BY <1>1, <2>1
    <3> QED BY <3>2, <3>3, <1>2 DEF OwnershipInv, SaturatingDec
  <2>2. CASE h \notin hs
    BY <1>1, <2>2 DEF OwnershipInv
  <2> QED BY <2>1, <2>2
<1>5. \A h \in Hashes, c \in Backends : c \in q.owners[h] <=> h \in q.held[c]
  BY <1>1 DEF OwnershipInv
<1> QED BY <1>1, <1>3, <1>4, <1>5 DEF OwnershipInv

LEMMA EmptyOwnership == OwnershipInv(EmptyProducer)
BY FS_EmptySet DEF OwnershipInv, EmptyProducer

LEMMA StoredKeepsTables ==
    ASSUME NEW p, OwnershipInv(p), NEW h \in Hashes, NEW b \in Backends,
           NEW q \in AfterStored(p, h, b)
    PROVE  OwnershipInv(q)
<1>1. CASE b \in p.owners[h]
  BY <1>1 DEF AfterStored
<1>2. CASE b \notin p.owners[h]
  <2>1. OwnershipInv(Own(p, h, b))
    BY <1>2, OwnKeepsTables
  <2>2. q = Own(p, h, b) \/ \E fl : q = [Own(p, h, b) EXCEPT !.filter = fl]
    BY <1>2 DEF AfterStored
  <2> QED BY <2>1, <2>2, FilterAside
<1> QED BY <1>1, <1>2

LEMMA ReleasedKeepsTables ==
    ASSUME NEW p, OwnershipInv(p), NEW b \in Backends, NEW hs \in SUBSET p.held[b]
    PROVE  OwnershipInv(Released(p, hs, b))
<1>1. OwnershipInv(Disown(p, hs, b))
  BY DisownKeepsTables
<1>2. \E fl : Released(p, hs, b) = [Disown(p, hs, b) EXCEPT !.filter = fl]
  BY DEF Released
<1> QED BY <1>1, <1>2, FilterAside

OwnedBy(p) == { h \in Hashes : p.owners[h] # {} }

LEMMA OwnFacts ==
    ASSUME NEW p, OwnershipInv(p), NEW h \in Hashes, NEW b \in Backends, NEW fl
    PROVE  /\ Own(p, h, b).filter = p.filter
           /\ OwnedBy(Own(p, h, b)) = OwnedBy(p) \cup {h}
           /\ [Own(p, h, b) EXCEPT !.filter = fl].filter = fl
           /\ OwnedBy([Own(p, h, b) EXCEPT !.filter = fl]) = OwnedBy(p) \cup {h}
<1> DEFINE q == Own(p, h, b)
           r == [q EXCEPT !.filter = fl]
<1>1. q.filter = p.filter /\ q.owners = [p.owners EXCEPT ![h] = @ \cup {b}]
  BY DEF Own
<1>2. r.filter = fl /\ r.owners = q.owners
  BY DEF Own
<1> HIDE DEF q, r
<1>3. OwnedBy(q) = OwnedBy(p) \cup {h}
  <2>1. p.owners \in [Hashes -> SUBSET Backends]
    BY DEF OwnershipInv
  <2>2. \A g \in Hashes : q.owners[g] = IF g = h THEN p.owners[h] \cup {b} ELSE p.owners[g]
    BY <1>1, <2>1
  <2> QED BY <2>2 DEF OwnedBy
<1>4. OwnedBy(r) = OwnedBy(q)
  BY <1>2 DEF OwnedBy
<1> QED BY <1>1, <1>2, <1>3, <1>4 DEF q, r

\* What the filter of a producer is after Stored.
LEMMA StoredFilter ==
    ASSUME NEW p, OwnershipInv(p), NEW h \in Hashes, NEW b \in Backends,
           NEW q \in AfterStored(p, h, b)
    PROVE  \/ h \in OwnedBy(p) /\ q.filter = p.filter /\ OwnedBy(q) = OwnedBy(p)
           \/ /\ h \notin OwnedBy(p) /\ q.filter \in InsertFingerprint(p.filter, h)
              /\ OwnedBy(q) = OwnedBy(p) \cup {h}
<1>1. CASE b \in p.owners[h]
  <2>1. q = p
    BY <1>1 DEF AfterStored
  <2> QED BY <1>1, <2>1 DEF OwnedBy
<1>2. CASE b \notin p.owners[h] /\ p.owners[h] # {}
  <2>1. q = Own(p, h, b)
    BY <1>2 DEF AfterStored
  <2>2. h \in OwnedBy(p)
    BY <1>2 DEF OwnedBy
  <2>3. q.filter = p.filter /\ OwnedBy(q) = OwnedBy(p) \cup {h}
    BY <2>1, OwnFacts
  <2> QED BY <2>2, <2>3
<1>3. CASE p.owners[h] = {}
  <2>1. PICK fl \in InsertFingerprint(p.filter, h) : q = [Own(p, h, b) EXCEPT !.filter = fl]
    BY <1>3, Zenon DEF AfterStored
  <2>2. h \notin OwnedBy(p)
    BY <1>3 DEF OwnedBy
  <2> QED BY <2>1, <2>2, OwnFacts
<1> QED BY <1>1, <1>2, <1>3

\* What the filter of a producer is after Removed and Clear.
LEMMA ReleasedFilter ==
    ASSUME NEW p, OwnershipInv(p), NEW b \in Backends, NEW hs \in SUBSET p.held[b]
    PROVE  \E gone \in SUBSET OwnedBy(p) :
             /\ Released(p, hs, b).filter = Without(p.filter, gone)
             /\ OwnedBy(Released(p, hs, b)) = OwnedBy(p) \ gone
<1> DEFINE q == Disown(p, hs, b)
           gone == { h \in hs : q.refcount[h] = 0 }
           fl == Without(p.filter, gone)
           r == [q EXCEPT !.filter = fl]
<1>1. OwnershipInv(q)
  BY DisownKeepsTables
<1>2. q.filter = p.filter
      /\ q.owners = [h \in Hashes |-> IF h \in hs THEN p.owners[h] \ {b} ELSE p.owners[h]]
  BY DEF Disown
<1>3. Released(p, hs, b) = r
  BY <1>2 DEF Released, Without
<1> HIDE DEF fl
<1>4. r.filter = fl /\ r.owners = q.owners
  BY DEF Disown
<1>h. hs \subseteq Hashes
  BY DEF OwnershipInv
<1> HIDE DEF q, r
<1>5. \A h \in Hashes : q.refcount[h] = 0 <=> q.owners[h] = {}
  <2> SUFFICES ASSUME NEW h \in Hashes PROVE q.refcount[h] = 0 <=> q.owners[h] = {}
    OBVIOUS
  <2>1. q.refcount[h] = Cardinality(q.owners[h]) /\ q.owners[h] \in SUBSET Backends
    BY <1>1 DEF OwnershipInv
  <2>2. IsFiniteSet(q.owners[h])
    BY <2>1, FiniteConfig, FS_Subset
  <2> QED BY <2>1, <2>2, FS_EmptySet
<1>6. \A h \in hs : h \in OwnedBy(p)
  BY <1>h DEF OwnershipInv, OwnedBy
<1>7. OwnedBy(r) = OwnedBy(p) \ gone
  <2>1. \A h \in Hashes : h \notin hs => q.owners[h] = p.owners[h]
    BY <1>2
  <2> QED BY <1>4, <1>5, <1>6, <1>h, <2>1 DEF OwnedBy
<1>8. gone \in SUBSET OwnedBy(p)
  BY <1>6
<1> HIDE DEF gone
<1> QED BY <1>3, <1>4, <1>7, <1>8 DEF fl

\* apply_event() keeps a producer sound, and what it changes in the filter is dirty.
GoodProducer(p) == OwnershipInv(p) /\ Sound(p.filter)

LEMMA StoredIsGood ==
    ASSUME NEW p, GoodProducer(p), NEW h \in Hashes, NEW b \in Backends,
           NEW q \in AfterStored(p, h, b)
    PROVE  GoodProducer(q) /\ Follows(p.filter, q.filter)
<1>1. OwnershipInv(q)
  BY StoredKeepsTables DEF GoodProducer
<1>2. q.filter = p.filter \/ q.filter \in InsertFingerprint(p.filter, h)
  BY StoredFilter DEF GoodProducer
<1>3. Sound(q.filter) /\ Follows(p.filter, q.filter)
  BY <1>2, InsertFacts, FollowsItself DEF GoodProducer
<1> QED BY <1>1, <1>3 DEF GoodProducer

LEMMA ReleasedIsGood ==
    ASSUME NEW p, GoodProducer(p), NEW b \in Backends, NEW hs \in SUBSET p.held[b]
    PROVE  GoodProducer(Released(p, hs, b)) /\ Follows(p.filter, Released(p, hs, b).filter)
<1> DEFINE q == Released(p, hs, b)
<1>1. OwnershipInv(q)
  BY ReleasedKeepsTables DEF GoodProducer
<1>2. PICK gone \in SUBSET OwnedBy(p) : q.filter = Without(p.filter, gone)
  BY ReleasedFilter DEF GoodProducer
<1>3. OwnedBy(p) \in SUBSET Hashes /\ gone \in SUBSET Hashes /\ gone \subseteq OwnedBy(p)
  BY DEF OwnedBy
<1> HIDE DEF q
<1>4. Sound(q.filter) /\ Follows(p.filter, q.filter)
  BY <1>2, <1>3, WithoutFacts DEF GoodProducer
<1> QED BY <1>1, <1>4 DEF GoodProducer, q

LEMMA RemovedIsGood ==
    ASSUME NEW p, GoodProducer(p), NEW h \in Hashes, NEW b \in Backends
    PROVE  /\ GoodProducer(AfterRemoved(p, h, b))
           /\ Follows(p.filter, AfterRemoved(p, h, b).filter)
<1>1. CASE b \in p.owners[h]
  <2>1. {h} \in SUBSET p.held[b]
    BY <1>1 DEF GoodProducer, OwnershipInv
  <2>2. AfterRemoved(p, h, b) = Released(p, {h}, b)
    BY <1>1 DEF AfterRemoved
  <2> QED BY <2>1, <2>2, ReleasedIsGood
<1>2. CASE b \notin p.owners[h]
  BY <1>2, FollowsItself DEF AfterRemoved
<1> QED BY <1>1, <1>2

LEMMA ClearIsGood ==
    ASSUME NEW p, GoodProducer(p), NEW b \in Backends
    PROVE  GoodProducer(AfterClear(p, b)) /\ Follows(p.filter, AfterClear(p, b).filter)
<1>1. p.held[b] \in SUBSET p.held[b]
  OBVIOUS
<1> QED BY <1>1, ReleasedIsGood DEF AfterClear

LEMMA EmptyIsGood == GoodProducer(EmptyProducer)
<1>1. EmptyProducer.filter = EmptyFilter
  BY DEF EmptyProducer
<1> QED BY <1>1, EmptyOwnership, EmptyFilterFacts DEF GoodProducer

LEMMA PublishedIsGood ==
    ASSUME NEW p, GoodProducer(p)
    PROVE  /\ GoodProducer(AfterPublish(p))
           /\ AfterPublish(p).filter.buckets = p.filter.buckets
           /\ AfterPublish(p).filter.dirty = {}
<1> DEFINE q == AfterPublish(p)
<1>1. /\ q.filter = [buckets |-> p.filter.buckets, items |-> p.filter.items, dirty |-> {}]
      /\ q.filter.buckets = p.filter.buckets /\ q.filter.items = p.filter.items
      /\ q.filter.dirty = {}
  BY DEF AfterPublish
<1>2. OwnershipInv(q)
  BY DEF AfterPublish, OwnershipInv, GoodProducer
<1>3. p.filter \in Filters
  BY DEF GoodProducer, Sound
<1> HIDE DEF q
<1>4. q.filter \in Filters
  BY <1>1, <1>3 DEF Filters
<1>5. Sound(q.filter)
  BY <1>1, <1>4 DEF GoodProducer, Sound
<1> QED BY <1>1, <1>2, <1>5 DEF GoodProducer, q

=============================================================================
