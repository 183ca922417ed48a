----------------------- MODULE ValidatorUpdatesProofs -----------------------
(***************************************************************************)
(* Proofs about ValidatorUpdates, for any nodes, keys, powers and number   *)
(* of blocks and updates.                                                  *)
(***************************************************************************)
EXTENDS ValidatorUpdates, Induction, FiniteSetTheorems

-----------------------------------------------------------------------------
(* A finite set of numbers has one increasing sequence.                    *)

LEMMA IncreasingAgree ==
    ASSUME NEW S \in SUBSET Nat, IsFiniteSet(S),
           NEW p \in Increasing(S), NEW q \in Increasing(S),
           NEW i \in 1 .. Cardinality(S),
           \A j \in 1 .. Cardinality(S) : j < i => p[j] = q[j]
    PROVE  ~(p[i] < q[i])
<1> DEFINE N == Cardinality(S)
<1>1. N \in Nat
  BY FS_CardinalityType
<1>2. /\ p \in [1 .. N -> S] /\ q \in [1 .. N -> S]
      /\ \A a, b \in 1 .. N : a < b => p[a] < p[b] /\ q[a] < q[b]
      /\ \A x \in S : \E j \in 1 .. N : q[j] = x
  BY DEF Increasing
<1> SUFFICES ASSUME p[i] < q[i] PROVE FALSE
  OBVIOUS
<1> HIDE DEF N
<1>3. PICK j \in 1 .. N : q[j] = p[i]
  BY <1>2 DEF N
<1>4. p[i] \in Nat /\ q[i] \in Nat /\ i \in 1 .. N /\ i \in Nat /\ j \in Nat
  <2>1. i \in 1 .. N
    BY DEF N
  <2>2. p[i] \in S /\ q[i] \in S
    BY <1>2, <2>1
  <2>3. i \in Nat /\ j \in Nat
    BY <1>1, <1>3, <2>1
  <2> QED
    BY <2>1, <2>2, <2>3
<1>5. CASE j < i
  <2>1. p[j] = q[j] /\ p[j] < p[i]
    BY <1>2, <1>4, <1>5 DEF N
  <2> QED
    BY <1>3, <1>4, <2>1
<1>6. CASE j = i
  BY <1>3, <1>4, <1>6
<1>7. CASE i < j
  <2>1. q[i] < q[j]
    BY <1>2, <1>4, <1>7
  <2> QED
    BY <1>3, <1>4, <2>1
<1> QED
  BY <1>4, <1>5, <1>6, <1>7

LEMMA IncreasingUnique ==
    ASSUME NEW S \in SUBSET Nat, IsFiniteSet(S),
           NEW p \in Increasing(S), NEW q \in Increasing(S)
    PROVE  p = q
<1> DEFINE N == Cardinality(S)
           T == {i \in 1 .. N : p[i] # q[i]}
<1>1. N \in Nat
  BY FS_CardinalityType
<1>2. p \in [1 .. N -> S] /\ q \in [1 .. N -> S]
  BY DEF Increasing
<1> HIDE DEF N
<1> SUFFICES ASSUME T # {} PROVE FALSE
  <2>1. T = {} => \A i \in 1 .. N : p[i] = q[i]
    OBVIOUS
  <2>2. p = [i \in 1 .. N |-> p[i]] /\ q = [i \in 1 .. N |-> q[i]]
    BY <1>2
  <2>3. (\A i \in 1 .. N : p[i] = q[i]) => p = q
    BY <2>2, Zenon
  <2> HIDE DEF T
  <2> QED
    BY <2>1, <2>3
<1>3. PICK i \in T : \A j \in T : i <= j
  <2>1. T \in SUBSET Nat
    OBVIOUS
  <2> HIDE DEF T
  <2> QED
    BY <2>1, LeastNumber
<1>4. i \in 1 .. N /\ p[i] # q[i] /\ \A j \in 1 .. N : j < i => p[j] = q[j]
  BY <1>1, <1>3
<1>5. ~(p[i] < q[i]) /\ ~(q[i] < p[i])
  BY <1>4, IncreasingAgree DEF N
<1>6. p[i] \in Nat /\ q[i] \in Nat
  BY <1>2, <1>4
<1> QED
  BY <1>4, <1>5, <1>6

LEMMA IncreasingExists ==
    ASSUME NEW S \in SUBSET Nat, IsFiniteSet(S)
    PROVE  Increasing(S) # {}
<1> DEFINE N == Cardinality(S)
           T == {n \in 0 .. N : \A R \in SUBSET Nat :
                    IsFiniteSet(R) /\ Cardinality(R) = n => Increasing(R) # {}}
<1>1. N \in Nat
  BY FS_CardinalityType
<1>2. 0 \in T
  <2> SUFFICES ASSUME NEW R \in SUBSET Nat, IsFiniteSet(R), Cardinality(R) = 0
               PROVE  Increasing(R) # {}
    BY <1>1
  <2>1. R = {}
    BY FS_EmptySet
  <2>2. <<>> \in [1 .. 0 -> R] /\ DOMAIN <<>> = {}
    OBVIOUS
  <2>3. <<>> \in Increasing(R)
    BY <2>1, <2>2 DEF Increasing
  <2> QED
    BY <2>3
<1>3. ASSUME NEW n \in 1 .. N, n - 1 \in T
      PROVE  n \in T
  <2> SUFFICES ASSUME NEW R \in SUBSET Nat, IsFiniteSet(R), Cardinality(R) = n
               PROVE  Increasing(R) # {}
    OBVIOUS
  <2>1. R # {}
    BY FS_EmptySet
  <2>2. PICK x \in R : \A y \in R : x <= y
    BY <2>1, LeastNumber
  <2> DEFINE Q == R \ {x}
  <2>3. Q \in SUBSET Nat /\ IsFiniteSet(Q) /\ Cardinality(Q) = n - 1
    BY FS_RemoveElement
  <2>4. PICK q : q \in Increasing(Q)
    BY <1>3, <2>3
  <2>5. /\ q \in [1 .. n - 1 -> Q] /\ DOMAIN q = 1 .. n - 1
        /\ \A y \in Q : \E i \in 1 .. n - 1 : q[i] = y
        /\ \A i, j \in 1 .. n - 1 : i < j => q[i] < q[j]
    BY <2>3, <2>4 DEF Increasing
  <2> DEFINE r == [i \in 1 .. n |-> IF i = 1 THEN x ELSE q[i - 1]]
  <2>6. \A i \in 1 .. n : i = 1 \/ i - 1 \in 1 .. n - 1
    OBVIOUS
  <2>7. /\ r[1] = x
        /\ \A i \in 1 .. n - 1 : r[i + 1] = q[i] /\ i + 1 \in 1 .. n
    OBVIOUS
  <2>8. r \in [1 .. n -> R] /\ DOMAIN r = 1 .. n
    BY <2>5, <2>6
  <2> HIDE DEF r
  <2>9. ASSUME NEW y \in R
        PROVE  \E i \in 1 .. n : r[i] = y
    <3>1. CASE y = x
      BY <2>7, <3>1
    <3>2. CASE y # x
      <4>1. PICK i \in 1 .. n - 1 : q[i] = y
        BY <2>5, <3>2
      <4> QED
        BY <2>7, <4>1
    <3> QED
      BY <3>1, <3>2
  <2>10. ASSUME NEW i \in 1 .. n, NEW j \in 1 .. n, i < j
         PROVE  r[i] < r[j]
    <3>1. j - 1 \in 1 .. n - 1 /\ r[j] = q[j - 1]
      <4>1. j - 1 \in 1 .. n - 1 /\ (j - 1) + 1 = j
        BY <2>10
      <4> QED
        BY <2>7, <4>1
    <3>2. CASE i = 1
      <4>1. r[j] \in R /\ r[j] # x /\ r[j] \in Nat
        BY <2>5, <3>1
      <4> QED
        BY <2>2, <2>7, <3>2, <4>1
    <3>3. CASE i # 1
      <4>1. i - 1 \in 1 .. n - 1 /\ (i - 1) + 1 = i /\ i - 1 < j - 1
        BY <2>10, <3>3
      <4>2. r[i] = q[i - 1]
        BY <2>7, <4>1
      <4>3. q[i - 1] < q[j - 1]
        BY <2>5, <3>1, <4>1
      <4> QED
        BY <3>1, <4>2, <4>3
    <3> QED
      BY <3>2, <3>3
  <2>11. r \in Increasing(R)
    BY <2>8, <2>9, <2>10 DEF Increasing
  <2> QED
    BY <2>11
<1> HIDE DEF T
<1>4. \A n \in 0 .. N : n \in T
  BY <1>1, <1>2, <1>3, InductionTo
<1>5. N \in 0 .. N
  BY <1>1
<1> QED
  BY <1>4, <1>5 DEF T

\* The set Increasing(S) has one member.
LEMMA IncreasingIsOne ==
    ASSUME NEW S \in SUBSET Nat, IsFiniteSet(S)
    PROVE  \E q : Increasing(S) = {q}
BY IncreasingExists, IncreasingUnique

-----------------------------------------------------------------------------
(* One block: from the declared set to the answer.                         *)

Validators == [key : PubKeys, power : Int]

\* What a block's execution may return: one update per key, no negative power.
BlockUpdates ==
    {us \in Seq(Updates) :
        Distinct(us) /\ \A i \in DOMAIN us : us[i].power >= 0}

LEMMA FunctionIsSeq ==
    ASSUME NEW S, NEW n \in Nat, NEW f, f = [i \in 1 .. n |-> f[i]],
           \A i \in 1 .. n : f[i] \in S
    PROVE  f \in Seq(S) /\ Len(f) = n
<1>1. f \in [1 .. n -> S]
  OBVIOUS
<1> QED
  BY <1>1

LEMMA UpdateListsAreSeqs == UpdateLists \subseteq Seq(Updates)
<1> SUFFICES ASSUME NEW us \in UpdateLists PROVE us \in Seq(Updates)
  OBVIOUS
<1>1. PICK n \in 0 .. MaxUpdates : us \in [1 .. n -> Updates]
  BY DEF UpdateLists, SeqOf
<1>2. n \in Nat
  BY ConstantsAssumption
<1> QED
  BY <1>1, <1>2

LEMMA UnsignedIs ==
    ASSUME 2^Width \in Nat, NEW p \in Powers, p >= 0
    PROVE  ToUnsigned(p) = p /\ p \in Nat
<1> DEFINE M == 2^Width
<1>1. M \in Nat /\ p \in Int /\ p >= 0 /\ p < M
  BY ConstantsAssumption
<1> HIDE DEF M
<1>2. p % M = p
  BY <1>1
<1> QED
  BY <1>1, <1>2 DEF ToUnsigned, M

LEMMA UpdatesAre ==
    ASSUME NEW us \in Seq(Updates)
    PROVE  /\ DOMAIN us = 1 .. Len(us) /\ Len(us) \in Nat
           /\ \A i \in DOMAIN us : us[i].key \in PubKeys /\ us[i].power \in Powers
           /\ Keys(us) \subseteq PubKeys
<1>1. DOMAIN us = 1 .. Len(us) /\ Len(us) \in Nat
  OBVIOUS
<1>2. \A i \in DOMAIN us : us[i] \in Updates
  OBVIOUS
<1>3. \A i \in DOMAIN us : us[i].key \in PubKeys /\ us[i].power \in Powers
  BY <1>2 DEF Updates
<1> QED
  BY <1>1, <1>3 DEF Keys

\* The map holds the power of each update under its key.
LEMMA ValsToUpdateIs ==
    ASSUME 2^Width \in Nat, NEW us \in BlockUpdates
    PROVE  /\ DOMAIN ValsToUpdate(us) = Keys(us)
           /\ \A i \in DOMAIN us : ValsToUpdate(us)[us[i].key] = us[i].power
<1>1. us \in Seq(Updates) /\ Distinct(us) /\ \A i \in DOMAIN us : us[i].power >= 0
  BY DEF BlockUpdates
<1>2. ASSUME NEW i \in DOMAIN us
      PROVE  SelectLastInSeq(us, LAMBDA u : u.key = us[i].key) = i
  <2> DEFINE I == {j \in 1 .. Len(us) : us[j].key = us[i].key}
  <2>1. I = {i} /\ i \in Nat
    BY <1>1, UpdatesAre DEF Distinct
  <2>2. SelectLastInSeq(us, LAMBDA u : u.key = us[i].key) =
            IF I # {} THEN Max(I) ELSE 0
    BY DEF SelectLastInSeq
  <2>3. Max({i}) = i
    BY <2>1 DEF Max
  <2> QED
    BY <2>1, <2>2, <2>3
<1>3. ASSUME NEW i \in DOMAIN us
      PROVE  ValsToUpdate(us)[us[i].key] = us[i].power
  <2>1. us[i].key \in Keys(us)
    BY DEF Keys
  <2>2. ValsToUpdate(us)[us[i].key] = ToUnsigned(us[i].power)
    BY <1>2, <2>1 DEF ValsToUpdate
  <2> QED
    BY <1>1, <2>2, UnsignedIs, UpdatesAre
<1> QED
  BY <1>3 DEF ValsToUpdate

\* The staking module's view gives it to the same key.
LEMMA StakedIs ==
    ASSUME NEW us \in Seq(Updates), Distinct(us), NEW before \in [PubKeys -> Int]
    PROVE  /\ Staked(us, before) \in [PubKeys -> Int]
           /\ \A i \in DOMAIN us : Staked(us, before)[us[i].key] = us[i].power
           /\ \A k \in PubKeys \ Keys(us) : Staked(us, before)[k] = before[k]
<1>1. ASSUME NEW i \in DOMAIN us
      PROVE  (CHOOSE u \in ToSet(us) : u.key = us[i].key) = us[i]
  <2>1. us[i] \in ToSet(us)
    BY DEF ToSet
  <2>2. \A u \in ToSet(us) : u.key = us[i].key => u = us[i]
    BY DEF ToSet, Distinct
  <2> QED
    BY <2>1, <2>2
<1>2. ASSUME NEW i \in DOMAIN us
      PROVE  Staked(us, before)[us[i].key] = us[i].power
  <2>1. us[i].key \in Keys(us) /\ us[i].key \in PubKeys
    BY UpdatesAre DEF Keys
  <2> QED
    BY <1>1, <2>1 DEF Staked
<1>3. \A k \in PubKeys \ Keys(us) : Staked(us, before)[k] = before[k]
  BY DEF Staked
<1>4. ASSUME NEW k \in PubKeys
      PROVE  Staked(us, before)[k] \in Int
  <2>1. CASE k \in Keys(us)
    <3>1. PICK i \in DOMAIN us : us[i].key = k
      BY <2>1 DEF Keys
    <3> QED
      BY <1>2, <3>1, UpdatesAre, ConstantsAssumption
  <2>2. CASE k \notin Keys(us)
    BY <1>3, <2>2
  <2> QED
    BY <2>1, <2>2
<1>5. Staked(us, before) \in [PubKeys -> Int]
  BY <1>4 DEF Staked
<1> QED
  BY <1>2, <1>3, <1>5

LEMMA KeysFinite ==
    ASSUME NEW us \in Seq(Updates), NEW ks \in SUBSET Keys(us)
    PROVE  ks \in SUBSET Nat /\ IsFiniteSet(ks)
<1> DEFINE f == [i \in DOMAIN us |-> us[i].key]
<1>1. IsFiniteSet(DOMAIN us)
  BY UpdatesAre, FS_Interval
<1>2. f \in Surjection(DOMAIN us, Keys(us))
  BY DEF Keys, Surjection
<1>3. IsFiniteSet(Keys(us))
  <2> HIDE DEF f
  <2> QED
    BY <1>1, <1>2, FS_Surjection
<1> QED
  BY <1>3, FS_Subset, UpdatesAre, ConstantsAssumption

LEMMA AppendOrdersAre ==
    ASSUME 2^Width \in Nat, NEW us \in BlockUpdates, NEW vals
    PROVE  LET ks == LeftOver(vals, ValsToUpdate(us)) \ BadKeys
           IN  /\ ks = Keys(us) \ (Keys(vals) \cup BadKeys)
               /\ ks \in SUBSET Nat /\ IsFiniteSet(ks)
               /\ \E q : AppendOrders(ks) = {q}
<1> DEFINE ks == LeftOver(vals, ValsToUpdate(us)) \ BadKeys
<1>1. us \in Seq(Updates)
  BY DEF BlockUpdates
<1>2. ks = Keys(us) \ (Keys(vals) \cup BadKeys)
  BY ValsToUpdateIs DEF LeftOver
<1> HIDE DEF ks
<1>3. ks \in SUBSET Keys(us)
  BY <1>2
<1>4. ks \in SUBSET Nat /\ IsFiniteSet(ks)
  BY <1>1, <1>3, KeysFinite
<1>5. \E q : AppendOrders(ks) = {q}
  BY <1>4, IncreasingIsOne DEF AppendOrders
<1> QED
  BY <1>2, <1>4, <1>5 DEF ks

\* The answer is a function of the declared set and the updates.
LEMMA UpdatedValsIsOne ==
    ASSUME 2^Width \in Nat, NEW us \in BlockUpdates, NEW vals
    PROVE  \E new : UpdatedVals(vals, us) = {new}
<1>1. CASE us = <<>>
  BY <1>1 DEF UpdatedVals
<1>2. CASE us # <<>>
  <2> DEFINE m == ValsToUpdate(us)
             kept == IF HasDelete(us) THEN WithPower(Repowered(vals, m))
                     ELSE Repowered(vals, m)
             added(ks) == [i \in DOMAIN ks |-> [key |-> ks[i], power |-> m[ks[i]]]]
  <2>1. PICK q : AppendOrders(LeftOver(vals, m) \ BadKeys) = {q}
    BY AppendOrdersAre
  <2>2. UpdatedVals(vals, us) =
            {kept \o added(ks) : ks \in AppendOrders(LeftOver(vals, m) \ BadKeys)}
    BY <1>2 DEF UpdatedVals
  <2> HIDE DEF m, kept
  <2>3. UpdatedVals(vals, us) = {kept \o added(q)}
    BY <2>1, <2>2
  <2> QED
    BY <2>3
<1> QED
  BY <1>1, <1>2

\* Every validator whose key is in the map takes its power.
LEMMA RepoweredIs ==
    ASSUME NEW vals \in Seq(Validators), Distinct(vals), NEW m
    PROVE  LET r == Repowered(vals, m)
           IN  /\ DOMAIN r = 1 .. Len(vals)
               /\ \A i \in 1 .. Len(vals) :
                   r[i] = [key |-> vals[i].key,
                           power |-> IF vals[i].key \in DOMAIN m
                                     THEN m[vals[i].key] ELSE vals[i].power]
<1>1. DOMAIN vals = 1 .. Len(vals) /\ Len(vals) \in Nat
  OBVIOUS
<1>2. ASSUME NEW i \in 1 .. Len(vals)
      PROVE  TakesEntry(vals, m, i) <=> vals[i].key \in DOMAIN m
  <2>1. \A j \in 1 .. (i - 1) : j \in DOMAIN vals /\ i \in DOMAIN vals /\ j # i
    BY <1>1
  <2>2. \A j \in 1 .. (i - 1) : vals[j].key # vals[i].key
    BY <2>1 DEF Distinct
  <2> QED
    BY <2>2 DEF TakesEntry
<1>3. ASSUME NEW i \in 1 .. Len(vals)
      PROVE  vals[i] = [key |-> vals[i].key, power |-> vals[i].power]
  <2>1. vals[i] \in Validators
    OBVIOUS
  <2> QED
    BY <2>1 DEF Validators
<1> QED
  BY <1>1, <1>2, <1>3 DEF Repowered

\* Deleting keeps the validators that have a power, and no other.
LEMMA WithPowerIs ==
    ASSUME NEW r, NEW n \in Nat, DOMAIN r = 1 .. n, Distinct(r)
    PROVE  LET w == WithPower(r)
           IN  /\ w = [i \in 1 .. Len(w) |-> w[i]] /\ Len(w) \in Nat
               /\ Distinct(w)
               /\ \A i \in DOMAIN w :
                      w[i].power # 0 /\ \E j \in DOMAIN r : w[i] = r[j]
               /\ \A j \in DOMAIN r :
                      r[j].power # 0 => \E i \in DOMAIN w : w[i] = r[j]
<1> DEFINE I == {i \in DOMAIN r : r[i].power # 0}
           at == CHOOSE q \in Increasing(I) : TRUE
           w == WithPower(r)
           N == Cardinality(I)
<1>1. I \in SUBSET Nat /\ IsFiniteSet(I)
  <2>1. IsFiniteSet(1 .. n)
    BY FS_Interval
  <2> QED
    BY <2>1, FS_Subset
<1> HIDE DEF I
<1>2. N \in Nat /\ at \in Increasing(I)
  BY <1>1, FS_CardinalityType, IncreasingExists
<1>3. w = [i \in DOMAIN at |-> r[at[i]]]
  BY DEF WithPower, I
<1> HIDE DEF at, w, N
<1>4. /\ at \in [1 .. N -> I]
      /\ \A x \in I : \E i \in 1 .. N : at[i] = x
      /\ \A i, j \in 1 .. N : i < j => at[i] < at[j]
  BY <1>2 DEF Increasing, N
<1>5. w = [i \in 1 .. N |-> r[at[i]]]
  BY <1>3, <1>4
<1>6. Len(w) = N /\ DOMAIN w = 1 .. N
  BY <1>2, <1>5
<1>7. ASSUME NEW i \in DOMAIN w
      PROVE  w[i].power # 0 /\ \E j \in DOMAIN r : w[i] = r[j]
  <2>1. at[i] \in I /\ w[i] = r[at[i]]
    BY <1>4, <1>5, <1>6
  <2> QED
    BY <2>1 DEF I
<1>8. ASSUME NEW j \in DOMAIN r, r[j].power # 0
      PROVE  \E i \in DOMAIN w : w[i] = r[j]
  <2>1. j \in I
    BY <1>8 DEF I
  <2>2. PICK i \in 1 .. N : at[i] = j
    BY <1>4, <2>1
  <2> QED
    BY <1>5, <1>6, <2>2
<1>9. ASSUME NEW i \in DOMAIN w, NEW j \in DOMAIN w, w[i].key = w[j].key
      PROVE  i = j
  <2>1. /\ i \in 1 .. N /\ j \in 1 .. N
        /\ w[i] = r[at[i]] /\ w[j] = r[at[j]] /\ at[i] \in I /\ at[j] \in I
    BY <1>4, <1>5, <1>6
  <2>2. at[i] = at[j] /\ at[i] \in Nat
    BY <1>1, <1>9, <2>1 DEF Distinct, I
  <2>3. ~(i < j) /\ ~(j < i)
    BY <1>4, <2>1, <2>2
  <2> QED
    BY <1>2, <2>1, <2>3
<1> QED
  BY <1>2, <1>5, <1>6, <1>7, <1>8, <1>9 DEF w, Distinct

\* Two parts without a common key make a set, of the keys of both.
LEMMA Joined ==
    ASSUME NEW a \in Seq(Validators), NEW b \in Seq(Validators),
           Distinct(a), Distinct(b),
           \A k \in Keys(a) : k \notin Keys(b),
           NEW c, c = a \o b
    PROVE  /\ c \in Seq(Validators)
           /\ Distinct(c)
           /\ Keys(c) = Keys(a) \cup Keys(b)
           /\ \A i \in DOMAIN c : c[i] \in ToSet(a) \cup ToSet(b)
<1>1. /\ c \in Seq(Validators) /\ DOMAIN c = 1 .. Len(a) + Len(b)
      /\ DOMAIN a = 1 .. Len(a) /\ DOMAIN b = 1 .. Len(b)
      /\ Len(a) \in Nat /\ Len(b) \in Nat
  OBVIOUS
<1>2. /\ \A i \in DOMAIN a : i \in DOMAIN c /\ c[i] = a[i]
      /\ \A i \in DOMAIN b : Len(a) + i \in DOMAIN c /\ c[Len(a) + i] = b[i]
  BY <1>1
<1>3. \A i \in DOMAIN c : i \in DOMAIN a \/ i - Len(a) \in DOMAIN b
  BY <1>1
<1>4. \A i \in DOMAIN c : i \notin DOMAIN a => c[i] = b[i - Len(a)]
  <2> SUFFICES ASSUME NEW i \in DOMAIN c, i \notin DOMAIN a
               PROVE  c[i] = b[i - Len(a)]
    OBVIOUS
  <2>1. i - Len(a) \in DOMAIN b /\ Len(a) + (i - Len(a)) = i
    BY <1>1, <1>3
  <2> QED
    BY <1>2, <2>1
<1>5. \A i \in DOMAIN c : \/ i \in DOMAIN a /\ c[i].key \in Keys(a)
                          \/ i \notin DOMAIN a /\ c[i].key \in Keys(b)
  BY <1>2, <1>3, <1>4 DEF Keys
<1>6. Keys(c) = Keys(a) \cup Keys(b)
  <2>1. Keys(c) \subseteq Keys(a) \cup Keys(b)
    BY <1>5 DEF Keys
  <2>2. Keys(a) \subseteq Keys(c)
    BY <1>2 DEF Keys
  <2>3. ASSUME NEW i \in DOMAIN b
        PROVE  b[i].key \in Keys(c)
    <3>1. Len(a) + i \in DOMAIN c /\ c[Len(a) + i] = b[i]
      BY <1>2
    <3> QED
      BY <3>1, Zenon DEF Keys
  <2>4. Keys(b) \subseteq Keys(c)
    BY <2>3 DEF Keys
  <2> QED
    BY <2>1, <2>2, <2>4
<1>7. ASSUME NEW i \in DOMAIN c, NEW j \in DOMAIN c, c[i].key = c[j].key
      PROVE  i = j
  <2>1. CASE i \in DOMAIN a
    <3>1. j \in DOMAIN a
      BY <1>5, <1>7, <2>1
    <3> QED
      BY <1>2, <1>7, <2>1, <3>1 DEF Distinct
  <2>2. CASE i \notin DOMAIN a
    <3>1. j \notin DOMAIN a
      BY <1>5, <1>7, <2>2
    <3>2. i - Len(a) = j - Len(a)
      BY <1>3, <1>4, <1>7, <2>2, <3>1 DEF Distinct
    <3> QED
      BY <1>1, <3>2
  <2> QED
    BY <2>1, <2>2
<1> QED
  <2>1. \A i \in DOMAIN c : c[i] \in ToSet(a) \cup ToSet(b)
    BY <1>2, <1>3, <1>4 DEF ToSet
  <2> QED
    BY <1>1, <1>6, <1>7, <2>1 DEF Distinct

\* Removing what the staking module removes and appending what it adds makes
\* a set that follows it from one that did before.
LEMMA BlockFollows ==
    ASSUME 2^Width \in Nat, NEW us \in BlockUpdates,
           NEW staking \in [PubKeys -> Int], Emitted(us, staking),
           NEW vals \in Seq(Validators), Follows(vals, staking),
           NEW new \in UpdatedVals(vals, us)
    PROVE  new \in Seq(Validators) /\ Follows(new, Staked(us, staking))
<1> DEFINE m == ValsToUpdate(us)
           after == Staked(us, staking)
           r == Repowered(vals, m)
           kept == IF HasDelete(us) THEN WithPower(r) ELSE r
           ks == LeftOver(vals, m) \ BadKeys
           added(q) == [i \in DOMAIN q |-> [key |-> q[i], power |-> m[q[i]]]]
<1>1. /\ us \in Seq(Updates) /\ Distinct(us)
      /\ \A i \in DOMAIN us : us[i].power >= 0 /\ us[i].power \in Int
  BY UpdatesAre, ConstantsAssumption DEF BlockUpdates
<1>2. /\ after \in [PubKeys -> Int]
      /\ \A i \in DOMAIN us : after[us[i].key] = us[i].power
      /\ \A k \in PubKeys \ Keys(us) : after[k] = staking[k]
  BY <1>1, StakedIs
<1>3. DOMAIN m = Keys(us) /\ \A k \in Keys(us) : k \in PubKeys /\ m[k] = after[k]
  <2>1. /\ DOMAIN m = Keys(us)
        /\ \A i \in DOMAIN us : m[us[i].key] = us[i].power
    BY ValsToUpdateIs
  <2> HIDE DEF m, after
  <2>2. ASSUME NEW k \in Keys(us)
        PROVE  k \in PubKeys /\ m[k] = after[k]
    <3>1. PICK i \in DOMAIN us : us[i].key = k
      BY DEF Keys
    <3> QED
      BY <1>1, <1>2, <2>1, <3>1, UpdatesAre
  <2> QED
    BY <2>1, <2>2
<1>4. /\ Distinct(vals) /\ DOMAIN vals = 1 .. Len(vals) /\ Len(vals) \in Nat
      /\ Keys(vals) = {k \in PubKeys \ BadKeys : staking[k] # 0}
      /\ \A i \in 1 .. Len(vals) : /\ vals[i].key \in PubKeys
                                   /\ vals[i].key \in Keys(vals)
                                   /\ vals[i].power = staking[vals[i].key]
  BY DEF Follows, Validators, Keys
<1> HIDE DEF m, after
<1>5. /\ DOMAIN r = 1 .. Len(vals)
      /\ \A i \in 1 .. Len(vals) :
             r[i] = [key |-> vals[i].key, power |-> after[vals[i].key]]
  BY <1>2, <1>3, <1>4, RepoweredIs
<1> HIDE DEF r
<1>6. r \in Seq(Validators) /\ Distinct(r) /\ Keys(r) = Keys(vals)
  <2>1. r \in Seq(Validators)
    <3>1. ASSUME NEW i \in 1 .. Len(vals)
          PROVE  r[i] \in Validators
      <4>1. vals[i].key \in PubKeys
        BY <1>4
      <4>2. after[vals[i].key] \in Int
        BY <1>2, <4>1
      <4>3. r[i] = [key |-> vals[i].key, power |-> after[vals[i].key]]
        BY <1>5
      <4> QED
        BY <4>1, <4>2, <4>3 DEF Validators
    <3>2. r = [i \in 1 .. Len(vals) |-> r[i]]
      BY <1>5 DEF r, Repowered
    <3> QED
      BY <1>4, <3>1, <3>2, FunctionIsSeq
  <2>2. \A i \in 1 .. Len(vals) : r[i].key = vals[i].key
    BY <1>5
  <2>3. Distinct(r)
    BY <1>4, <1>5, <2>2 DEF Distinct
  <2>4. Keys(r) = Keys(vals)
    BY <1>4, <1>5, <2>2 DEF Keys
  <2> QED
    BY <2>1, <2>3, <2>4
\* What is kept: the old validators that still have a power.
<1>7. /\ kept \in Seq(Validators) /\ Distinct(kept)
      /\ \A i \in DOMAIN kept : kept[i].power # 0 /\ \E j \in DOMAIN r : kept[i] = r[j]
      /\ \A j \in DOMAIN r : r[j].power # 0 => \E i \in DOMAIN kept : kept[i] = r[j]
  <2>1. CASE HasDelete(us)
    <3> DEFINE w == WithPower(r)
    <3>1. /\ w = [i \in 1 .. Len(w) |-> w[i]] /\ Len(w) \in Nat
          /\ Distinct(w)
          /\ \A i \in DOMAIN w : w[i].power # 0 /\ \E j \in DOMAIN r : w[i] = r[j]
          /\ \A j \in DOMAIN r : r[j].power # 0 => \E i \in DOMAIN w : w[i] = r[j]
      BY <1>4, <1>5, <1>6, WithPowerIs
    <3> HIDE DEF w
    <3>2. \A i \in 1 .. Len(w) : w[i] \in Validators
      <4>1. DOMAIN w = 1 .. Len(w)
        BY <3>1
      <4>2. \A j \in DOMAIN r : r[j] \in Validators
        BY <1>6
      <4> QED
        BY <3>1, <4>1, <4>2, Zenon
    <3>3. w \in Seq(Validators)
      BY <3>1, <3>2, FunctionIsSeq
    <3>4. kept = w
      BY <2>1 DEF w
    <3> QED
      BY <3>1, <3>3, <3>4
  <2>2. CASE ~HasDelete(us)
    <3>1. ASSUME NEW i \in DOMAIN r
          PROVE  r[i].power # 0
      <4>1. r[i].power = after[vals[i].key] /\ vals[i].key \in Keys(vals)
        BY <1>4, <1>5
      <4>2. CASE vals[i].key \in Keys(us)
        <5>1. PICK j \in DOMAIN us : us[j].key = vals[i].key
          BY <4>2 DEF Keys
        <5> QED
          <6>1. after[vals[i].key] = us[j].power
            BY <1>2, <5>1
          <6> QED
            BY <2>2, <4>1, <6>1 DEF HasDelete
      <4>3. CASE vals[i].key \notin Keys(us)
        <5>1. vals[i].key \in PubKeys /\ staking[vals[i].key] # 0
          BY <1>4, <4>1
        <5>2. after[vals[i].key] = staking[vals[i].key]
          BY <1>2, <4>3, <5>1
        <5> QED
          BY <4>1, <5>1, <5>2
      <4> QED
        BY <4>2, <4>3
    <3>2. kept = r
      BY <2>2
    <3> QED
      BY <1>6, <3>1, <3>2
  <2> QED
    BY <2>1, <2>2
<1> HIDE DEF kept
<1>8. \A i \in DOMAIN kept : /\ kept[i].key \in Keys(vals)
                             /\ kept[i].power = after[kept[i].key]
  BY <1>4, <1>5, <1>7
<1>9. Keys(kept) = {k \in Keys(vals) : after[k] # 0}
  <2>1. ASSUME NEW k \in Keys(vals), after[k] # 0
        PROVE  k \in Keys(kept)
    <3>1. PICK j \in DOMAIN vals : vals[j].key = k
      BY DEF Keys
    <3>2. r[j].power # 0 /\ r[j].key = k /\ j \in DOMAIN r
      BY <1>4, <1>5, <2>1, <3>1
    <3> QED
      BY <1>7, <3>2 DEF Keys
  <2>2. ASSUME NEW k \in Keys(kept)
        PROVE  k \in Keys(vals) /\ after[k] # 0
    <3>1. PICK i \in DOMAIN kept : kept[i].key = k
      BY DEF Keys
    <3> QED
      BY <1>7, <1>8, <3>1
  <2> QED
    BY <2>1, <2>2
\* What is added: the keys with an update that were not there.
<1>10. ks = Keys(us) \ (Keys(vals) \cup BadKeys) /\ ks \in SUBSET Nat /\ IsFiniteSet(ks)
  BY AppendOrdersAre DEF m
<1> HIDE DEF ks
<1>11. \A k \in ks : k \in PubKeys /\ after[k] # 0 /\ m[k] = after[k]
  <2> SUFFICES ASSUME NEW k \in ks PROVE after[k] # 0
    BY <1>3, <1>10
  <2>1. PICK i \in DOMAIN us : us[i].key = k
    BY <1>10 DEF Keys
  <2>2. k \in PubKeys /\ staking[k] = 0
    BY <1>3, <1>4, <1>10
  <2>3. us[i].power # 0
    BY <2>1, <2>2 DEF Emitted
  <2> QED
    BY <1>2, <2>1, <2>3
<1>12. ASSUME NEW q \in AppendOrders(ks)
       PROVE  /\ added(q) \in Seq(Validators) /\ Distinct(added(q))
              /\ Keys(added(q)) = ks
              /\ \A i \in DOMAIN added(q) :
                     added(q)[i].power = after[added(q)[i].key]
  <2> DEFINE N == Cardinality(ks)
             a == added(q)
  <2>1. N \in Nat
    BY <1>10, FS_CardinalityType
  <2>2. /\ q \in [1 .. N -> ks] /\ DOMAIN q = 1 .. N
        /\ \A k \in ks : \E i \in 1 .. N : q[i] = k
        /\ \A i, j \in 1 .. N : i < j => q[i] < q[j]
    BY DEF AppendOrders, Increasing
  <2> HIDE DEF N
  <2>3. /\ DOMAIN a = 1 .. N
        /\ a = [i \in 1 .. N |-> [key |-> q[i], power |-> m[q[i]]]]
    BY <2>2
  <2> HIDE DEF a
  <2>4. \A i \in 1 .. N : /\ a[i] = [key |-> q[i], power |-> after[q[i]]]
                          /\ q[i] \in ks
    BY <1>11, <2>2, <2>3
  <2>5. a \in Seq(Validators)
    <3>1. ASSUME NEW i \in 1 .. N
          PROVE  a[i] \in Validators
      <4>1. q[i] \in PubKeys /\ after[q[i]] \in Int
        BY <1>2, <1>11, <2>4
      <4>2. a[i] = [key |-> q[i], power |-> after[q[i]]]
        BY <2>4
      <4> QED
        BY <4>1, <4>2 DEF Validators
    <3>2. a = [i \in 1 .. N |-> a[i]]
      BY <2>3
    <3> HIDE DEF N
    <3> QED
      BY <2>1, <3>1, <3>2, FunctionIsSeq
  <2>6. Keys(a) = ks
    BY <2>2, <2>3, <2>4 DEF Keys
  <2>7. ASSUME NEW i \in 1 .. N, NEW j \in 1 .. N, a[i].key = a[j].key
        PROVE  i = j
    <3>1. q[i] = q[j] /\ q[i] \in Nat
      <4>1. ASSUME NEW l \in 1 .. N
            PROVE  a[l].key = q[l] /\ q[l] \in ks
        <5>1. a[l] = [key |-> q[l], power |-> after[q[l]]] /\ q[l] \in ks
          BY <2>4
        <5>2. [key |-> q[l], power |-> after[q[l]]].key = q[l]
          OBVIOUS
        <5> QED
          BY <5>1, <5>2, Zenon
      <4> QED
        BY <1>10, <2>7, <4>1
    <3>2. ~(i < j) /\ ~(j < i)
      BY <2>2, <3>1
    <3> QED
      BY <2>1, <3>2
  <2> QED
    BY <2>3, <2>4, <2>5, <2>6, <2>7 DEF a, Distinct
<1> HIDE DEF added
<1>13. CASE us = <<>>
  <2>1. new = vals /\ Keys(us) = {}
    BY <1>13 DEF UpdatedVals, Keys
  <2> QED
    BY <1>2, <1>4, <2>1 DEF Follows, after
<1>14. CASE us # <<>>
  <2>1. PICK q \in AppendOrders(ks) : new = kept \o added(q)
    BY <1>14 DEF UpdatedVals, m, r, kept, ks, added
  <2> DEFINE a == added(q)
  <2>2. /\ a \in Seq(Validators) /\ Distinct(a) /\ Keys(a) = ks
        /\ \A i \in DOMAIN a : a[i].power = after[a[i].key]
    BY <1>12
  <2> HIDE DEF a
  <2>3. \A k \in Keys(kept) : k \notin Keys(a)
    BY <1>9, <1>10, <2>2
  <2>4. new = kept \o a
    BY <2>1 DEF a
  <2>5. /\ new \in Seq(Validators) /\ Distinct(new)
        /\ Keys(new) = Keys(kept) \cup Keys(a)
        /\ \A i \in DOMAIN new : new[i] \in ToSet(kept) \cup ToSet(a)
    <3>1. /\ kept \in Seq(Validators) /\ Distinct(kept)
          /\ a \in Seq(Validators) /\ Distinct(a)
      BY <1>7, <2>2
    <3> QED
      BY <2>3, <2>4, <3>1, Joined
  <2>6. \A i \in DOMAIN new : new[i].power = after[new[i].key]
    BY <1>8, <2>2, <2>5 DEF ToSet
  <2>7. Keys(new) = {k \in PubKeys \ BadKeys : after[k] # 0}
    <3>1. Keys(new) = {k \in Keys(vals) : after[k] # 0} \cup ks
      BY <1>9, <2>2, <2>5
    <3>2. ASSUME NEW k \in PubKeys \ BadKeys, after[k] # 0, k \notin Keys(vals)
          PROVE  k \in ks
      <4>1. staking[k] = 0
        BY <1>4, <3>2
      <4>2. k \in Keys(us)
        BY <1>2, <3>2, <4>1
      <4> QED
        BY <1>10, <3>2, <4>2
    <3> QED
      BY <1>4, <1>10, <1>11, <3>1, <3>2
  <2> QED
    BY <2>5, <2>6, <2>7 DEF Follows, after
<1> QED
  BY <1>13, <1>14

-----------------------------------------------------------------------------
(* The staking module's view, a function defined by recursion over blocks. *)

NoPowers == [k \in PubKeys |-> 0]

StakingSteps ==
    /\ StakingPowers \in [0 .. Len(blocks) -> [PubKeys -> Int]]
    /\ StakingPowers[0] = Staked(GenesisUpdates, NoPowers)
    /\ \A b \in 1 .. Len(blocks) :
           StakingPowers[b] = Staked(blocks[b], StakingPowers[b - 1])

LEMMA StakingIs == blocks \in Seq(BlockUpdates) => StakingSteps
<1> SUFFICES ASSUME blocks \in Seq(BlockUpdates)
             PROVE  StakingSteps
  OBVIOUS
<1> DEFINE V == [PubKeys -> Int]
           N == Len(blocks)
           base == Staked(GenesisUpdates, NoPowers)
           step == [b \in 1 .. N |-> [x \in V |-> Staked(blocks[b], x)]]
           Powers0(f) == [b \in 0 .. N |->
                             IF b = 0 THEN base ELSE Staked(blocks[b], f[b - 1])]
           powers == CHOOSE f : f = Powers0(f)
<1>1. N \in Nat /\ \A b \in 1 .. N : blocks[b] \in BlockUpdates
  OBVIOUS
<1>2. base \in V
  <2>1. NoPowers \in V
    BY DEF NoPowers
  <2> QED
    BY <2>1, StakedIs, GenesisAssumption
<1>3. ASSUME NEW b \in 1 .. N, NEW x \in V
      PROVE  Staked(blocks[b], x) \in V
  BY <1>1, StakedIs DEF BlockUpdates
<1>4. StakingPowers = powers
  BY DEF StakingPowers, NoPowers
<1> HIDE DEF N, V, base
<1>5. step \in [1 .. N -> [V -> V]]
  BY <1>3
<1>6. PICK g \in [0 .. N -> V] : Recursion(g, N, base, step)
  <2> HIDE DEF step
  <2> QED
    BY <1>1, <1>2, <1>5, RecursionExists, Zenon
<1>7. /\ g[0] = base
      /\ \A b \in 1 .. N : g[b] = Staked(blocks[b], g[b - 1])
  <2>1. g[0] = base /\ \A b \in 1 .. N : g[b] = step[b][g[b - 1]]
    <3> HIDE DEF step
    <3> QED
      BY <1>6 DEF Recursion
  <2>2. \A b \in 1 .. N : g[b - 1] \in V
    BY <1>1, <1>6
  <2>3. \A b \in 1 .. N : step[b][g[b - 1]] = Staked(blocks[b], g[b - 1])
    BY <2>2, Zenon
  <2> QED
    BY <2>1, <2>3, Zenon
<1> HIDE DEF step
<1>8. powers = Powers0(powers)
  <2>1. g = Powers0(g)
    BY <1>6, <1>7
  <2> HIDE DEF Powers0
  <2> QED
    BY <2>1
<1>9. /\ powers = [b \in 0 .. N |-> powers[b]]
      /\ powers[0] = base
      /\ \A b \in 1 .. N : powers[b] = Staked(blocks[b], powers[b - 1])
  <2> HIDE DEF powers
  <2>1. powers = [b \in 0 .. N |-> IF b = 0 THEN base
                                   ELSE Staked(blocks[b], powers[b - 1])]
    BY <1>8, Zenon
  <2>2. powers = [b \in 0 .. N |-> powers[b]]
    BY <2>1, Zenon
  <2> HIDE DEF base
  <2>3. 0 \in 0 .. N /\ \A b \in 1 .. N : b \in 0 .. N /\ b # 0
    BY <1>1
  <2>4. powers[0] = base /\ \A b \in 1 .. N : powers[b] = Staked(blocks[b], powers[b - 1])
    BY <2>1, <2>3, Zenon
  <2> QED
    BY <2>2, <2>4, Zenon
<1> HIDE DEF powers
<1>10. \A b \in 0 .. N : powers[b] \in V
  <2> DEFINE T == {b \in 0 .. N : powers[b] \in V}
  <2>1. 0 \in T
    BY <1>1, <1>2, <1>9
  <2>2. ASSUME NEW b \in 1 .. N, b - 1 \in T
        PROVE  b \in T
    <3>1. powers[b - 1] \in V /\ b \in 0 .. N
      BY <1>1, <2>2
    <3>2. powers[b] \in V
      BY <1>3, <1>9, <3>1
    <3> QED
      BY <3>1, <3>2
  <2> HIDE DEF T
  <2>3. \A b \in 0 .. N : b \in T
    BY <1>1, <2>1, <2>2, InductionTo
  <2> QED
    BY <2>3 DEF T
<1> QED
  BY <1>4, <1>9, <1>10 DEF StakingSteps, N, V, base

\* What it was after a block it stays when more are decided.
LEMMA StakingKept ==
    ASSUME blocks \in Seq(BlockUpdates), blocks' \in Seq(BlockUpdates),
           Len(blocks) <= Len(blocks'),
           \A b \in 1 .. Len(blocks) : blocks'[b] = blocks[b]
    PROVE  \A b \in 0 .. Len(blocks) : StakingPowers'[b] = StakingPowers[b]
<1>1. StakingSteps /\ StakingSteps'
  <2>1. (blocks \in Seq(BlockUpdates) => StakingSteps)'
    BY StakingIs, PTL
  <2> QED
    BY <2>1, StakingIs
<1> DEFINE N == Len(blocks)
           T == {b \in 0 .. N : StakingPowers'[b] = StakingPowers[b]}
<1>2. N \in Nat /\ \A b \in 1 .. N : b \in 1 .. Len(blocks')
  OBVIOUS
<1>3. 0 \in T
  BY <1>1, <1>2 DEF StakingSteps
<1>4. ASSUME NEW b \in 1 .. N, b - 1 \in T
      PROVE  b \in T
  <2>1. b \in 0 .. N /\ StakingPowers'[b - 1] = StakingPowers[b - 1]
    BY <1>2, <1>4
  <2>2. /\ StakingPowers'[b] = Staked(blocks'[b], StakingPowers'[b - 1])
        /\ StakingPowers[b] = Staked(blocks[b], StakingPowers[b - 1])
    BY <1>1, <1>2 DEF StakingSteps
  <2>3. blocks'[b] = blocks[b]
    OBVIOUS
  <2>4. StakingPowers'[b] = StakingPowers[b]
    BY <2>1, <2>2, <2>3
  <2> QED
    BY <2>1, <2>4
<1> HIDE DEF T
<1>5. \A b \in 0 .. N : b \in T
  BY <1>2, <1>3, <1>4, InductionTo
<1> QED
  BY <1>5 DEF T

-----------------------------------------------------------------------------
(* The inductive invariant.                                                *)

\* What is decided can be applied to the staking module's view before it.
BlocksInv ==
    /\ blocks \in Seq(BlockUpdates)
    /\ \A b \in 1 .. Len(blocks) : Emitted(blocks[b], StakingPowers[b - 1])

\* Every node has answered genesis, and no block that is not decided.
RecordedInv ==
    /\ recorded \in [Nodes -> Seq(Seq(Validators))]
    /\ \A n \in Nodes : Len(recorded[n]) \in 1 .. Len(blocks) + 1

FollowInv ==
    \A n \in Nodes : \A b \in 1 .. Len(recorded[n]) :
        Follows(recorded[n][b], StakingPowers[b - 1])

\* Each answer is what its block makes of the one before, still.
ChainInv ==
    \A n \in Nodes :
        /\ recorded[n][1] = GenesisVals
        /\ \A b \in 2 .. Len(recorded[n]) :
               recorded[n][b] \in UpdatedVals(recorded[n][b - 1], blocks[b - 1])

IInv == BlocksInv /\ RecordedInv /\ FollowInv /\ ChainInv

LEMMA GenesisFollows ==
    ASSUME 2^Width \in Nat
    PROVE  /\ GenesisVals \in Seq(Validators)
           /\ Follows(GenesisVals, Staked(GenesisUpdates, NoPowers))
<1> DEFINE us == GenesisUpdates
           g == GenesisVals
           powers == Staked(us, NoPowers)
<1>1. /\ us \in Seq(Updates) /\ Distinct(us) /\ DOMAIN us = 1 .. Len(us)
      /\ Len(us) \in Nat
      /\ \A i \in DOMAIN us : /\ us[i].key \in PubKeys \ BadKeys
                              /\ us[i].power \in Powers /\ us[i].power \in Int
                              /\ us[i].power > 0
  BY GenesisAssumption, ConstantsAssumption, UpdatesAre
<1>2. /\ \A i \in DOMAIN us : powers[us[i].key] = us[i].power
      /\ \A k \in PubKeys \ Keys(us) : powers[k] = 0
  <2>1. NoPowers \in [PubKeys -> Int] /\ \A k \in PubKeys : NoPowers[k] = 0
    BY DEF NoPowers
  <2>2. \A k \in PubKeys \ Keys(us) : powers[k] = NoPowers[k]
    BY <1>1, <2>1, StakedIs
  <2>3. \A i \in DOMAIN us : powers[us[i].key] = us[i].power
    BY <1>1, <2>1, StakedIs
  <2> HIDE DEF powers, us
  <2> QED
    BY <2>1, <2>2, <2>3
<1> HIDE DEF powers
<1>3. /\ g = [i \in 1 .. Len(us) |-> g[i]]
      /\ \A i \in DOMAIN us : g[i] = [key |-> us[i].key, power |-> us[i].power]
  <2>1. \A i \in DOMAIN us : ToUnsigned(us[i].power) = us[i].power
    BY <1>1, UnsignedIs
  <2> QED
    BY <1>1, <2>1 DEF GenesisVals
<1> HIDE DEF g, us
<1>4. g \in Seq(Validators) /\ DOMAIN g = DOMAIN us
  <2>1. \A i \in 1 .. Len(us) : g[i] \in Validators
    BY <1>1, <1>3 DEF Validators
  <2>2. DOMAIN g = 1 .. Len(us)
    BY <1>3
  <2> QED
    BY <1>1, <1>3, <2>1, <2>2, FunctionIsSeq
<1>5. ASSUME NEW i \in DOMAIN g
      PROVE  g[i].key = us[i].key /\ g[i].power = us[i].power
  <2>1. g[i] = [key |-> us[i].key, power |-> us[i].power]
    BY <1>3, <1>4
  <2>2. \A x, y : /\ [key |-> x, power |-> y].key = x
                  /\ [key |-> x, power |-> y].power = y
    OBVIOUS
  <2>3. /\ g[i].key = [key |-> us[i].key, power |-> us[i].power].key
        /\ g[i].power = [key |-> us[i].key, power |-> us[i].power].power
    BY <2>1, Zenon
  <2> QED
    BY <2>2, <2>3, Zenon
<1>6. Distinct(g) /\ Keys(g) = Keys(us)
  BY <1>1, <1>4, <1>5 DEF Distinct, Keys
<1>7. Keys(g) = {k \in PubKeys \ BadKeys : powers[k] # 0}
  <2>1. ASSUME NEW k \in Keys(us)
        PROVE  k \in PubKeys \ BadKeys /\ powers[k] # 0
    BY <1>1, <1>2 DEF Keys
  <2> QED
    BY <1>2, <1>6, <2>1
<1>8. \A i \in DOMAIN g : g[i].power = powers[g[i].key]
  BY <1>2, <1>4, <1>5
<1> QED
  BY <1>4, <1>6, <1>7, <1>8 DEF Follows, g, us, powers

LEMMA InvInit == 2^Width \in Nat /\ Init => IInv
<1> SUFFICES ASSUME 2^Width \in Nat, Init
             PROVE  IInv
  OBVIOUS
<1>1. blocks = <<>> /\ Len(blocks) = 0 /\ blocks \in Seq(BlockUpdates)
  BY DEF Init
<1>2. BlocksInv
  BY <1>1 DEF BlocksInv
<1>3. GenesisVals \in Seq(Validators)
  BY GenesisFollows
<1>4. /\ recorded \in [Nodes -> Seq(Seq(Validators))]
      /\ \A n \in Nodes : Len(recorded[n]) = 1 /\ recorded[n][1] = GenesisVals
  BY <1>3 DEF Init
<1>5. RecordedInv /\ ChainInv
  <2>1. 1 \in 1 .. 0 + 1 /\ 2 .. 1 = {}
    OBVIOUS
  <2>2. RecordedInv
    BY <1>1, <1>4, <2>1, Zenon DEF RecordedInv
  <2>3. \A n \in Nodes : 2 .. Len(recorded[n]) = {}
    BY <1>4, <2>1, Zenon
  <2> QED
    BY <1>4, <2>2, <2>3 DEF ChainInv
<1>6. StakingPowers[0] = Staked(GenesisUpdates, NoPowers)
  BY <1>1, StakingIs DEF StakingSteps
<1>7. FollowInv
  BY <1>4, <1>6, GenesisFollows DEF FollowInv
<1> QED
  BY <1>2, <1>5, <1>7 DEF IInv

LEMMA DecideKeepsInv ==
    2^Width \in Nat /\ IInv /\ (\E us \in UpdateLists : Decide(us)) => IInv'
<1> SUFFICES ASSUME 2^Width \in Nat, IInv, NEW us \in UpdateLists, Decide(us)
             PROVE  IInv'
  OBVIOUS
<1> DEFINE N == Len(blocks)
<1>1. us \in BlockUpdates
  BY UpdateListsAreSeqs DEF BlockUpdates, UpdateLists, Decide, Emitted
<1>2. blocks \in Seq(BlockUpdates) /\ N \in Nat
  BY DEF IInv, BlocksInv
<1>3. /\ blocks' \in Seq(BlockUpdates) /\ Len(blocks') = N + 1
      /\ \A b \in 1 .. N : blocks'[b] = blocks[b]
      /\ blocks'[N + 1] = us
      /\ recorded' = recorded
  BY <1>1, <1>2 DEF Decide
<1> HIDE DEF N
<1>4. \A b \in 0 .. N : StakingPowers'[b] = StakingPowers[b]
  BY <1>2, <1>3, StakingKept DEF N
<1>5. BlocksInv'
  <2>1. ASSUME NEW b \in 1 .. N + 1
        PROVE  Emitted(blocks'[b], StakingPowers'[b - 1])
    <3>1. b - 1 \in 0 .. N /\ StakingPowers'[b - 1] = StakingPowers[b - 1]
      BY <1>2, <1>4
    <3>2. CASE b = N + 1
      <4>1. b - 1 = N
        BY <1>2, <3>2
      <4>2. Emitted(us, StakingPowers[N])
        BY DEF Decide, N
      <4> QED
        BY <1>3, <3>1, <3>2, <4>1, <4>2
    <3>3. CASE b # N + 1
      <4>1. b \in 1 .. N
        BY <1>2, <3>3
      <4>2. Emitted(blocks[b], StakingPowers[b - 1])
        BY <4>1 DEF IInv, BlocksInv, N
      <4> QED
        BY <1>3, <3>1, <4>1, <4>2
    <3> QED
      BY <3>2, <3>3
  <2> QED
    BY <1>3, <2>1 DEF BlocksInv
<1>6. RecordedInv /\ \A n \in Nodes : Len(recorded[n]) \in 1 .. N + 1
  BY DEF IInv, RecordedInv, N
<1>7. RecordedInv'
  BY <1>2, <1>3, <1>6 DEF RecordedInv
<1>8. ASSUME NEW n \in Nodes, NEW b \in 1 .. Len(recorded[n])
      PROVE  Follows(recorded'[n][b], StakingPowers'[b - 1])
  <2>1. b - 1 \in 0 .. N
    BY <1>2, <1>6
  <2> QED
    BY <1>3, <1>4, <2>1 DEF IInv, FollowInv
<1>9. FollowInv'
  BY <1>3, <1>8 DEF FollowInv
<1>10. ASSUME NEW n \in Nodes, NEW b \in 2 .. Len(recorded[n])
       PROVE  recorded'[n][b] \in UpdatedVals(recorded'[n][b - 1], blocks'[b - 1])
  <2>1. b - 1 \in 1 .. N
    BY <1>2, <1>6
  <2> QED
    BY <1>3, <2>1 DEF IInv, ChainInv
<1>11. ChainInv'
  BY <1>3, <1>10 DEF IInv, ChainInv
<1> QED
  BY <1>5, <1>7, <1>9, <1>11 DEF IInv

LEMMA FinalizeKeepsInv ==
    2^Width \in Nat /\ IInv /\ (\E n \in Nodes : Finalize(n)) => IInv'
<1> SUFFICES ASSUME 2^Width \in Nat, IInv, NEW n \in Nodes, Finalize(n)
             PROVE  IInv'
  OBVIOUS
<1> DEFINE l == Len(recorded[n])
           vals == recorded[n][l]
<1>1. /\ blocks \in Seq(BlockUpdates) /\ Len(blocks) \in Nat
      /\ l \in 1 .. Len(blocks) /\ l \in Nat
      /\ recorded \in [Nodes -> Seq(Seq(Validators))]
      /\ recorded[n] \in Seq(Seq(Validators)) /\ l \in 1 .. Len(recorded[n])
  BY DEF IInv, BlocksInv, RecordedInv, Finalize
<1>2. PICK new \in UpdatedVals(vals, blocks[l]) :
          recorded' = [recorded EXCEPT ![n] = Append(@, new)]
  BY DEF Finalize, Last
<1>3. blocks' = blocks /\ StakingPowers' = StakingPowers
  BY DEF Finalize, StakingPowers
<1>4. /\ Follows(vals, StakingPowers[l - 1])
      /\ Emitted(blocks[l], StakingPowers[l - 1])
      /\ vals \in Seq(Validators) /\ blocks[l] \in BlockUpdates
  BY <1>1 DEF IInv, FollowInv, BlocksInv
<1>5. /\ StakingPowers[l - 1] \in [PubKeys -> Int]
      /\ StakingPowers[l] = Staked(blocks[l], StakingPowers[l - 1])
  <2>1. l - 1 \in 0 .. Len(blocks)
    BY <1>1
  <2> QED
    BY <1>1, <2>1, StakingIs DEF StakingSteps
<1>6. new \in Seq(Validators) /\ Follows(new, StakingPowers[l])
  <2> HIDE DEF vals, l
  <2> QED
    BY <1>4, <1>5, BlockFollows
<1> HIDE DEF l, vals
<1>7. /\ recorded'[n] \in Seq(Seq(Validators))
      /\ Len(recorded'[n]) = l + 1
      /\ recorded'[n][l + 1] = new
      /\ \A b \in 1 .. l : recorded'[n][b] = recorded[n][b]
  <2>1. recorded'[n] = Append(recorded[n], new)
    BY <1>1, <1>2
  <2> QED
    BY <1>1, <1>6, <2>1 DEF l
<1>8. \A k \in Nodes : k # n => recorded'[k] = recorded[k]
  BY <1>1, <1>2
<1>9. RecordedInv'
  <2>1. recorded' \in [Nodes -> Seq(Seq(Validators))]
    BY <1>1, <1>2, <1>7
  <2>2. ASSUME NEW k \in Nodes
        PROVE  Len(recorded'[k]) \in 1 .. Len(blocks) + 1
    <3>1. Len(recorded[k]) \in 1 .. Len(blocks) + 1
      BY DEF IInv, RecordedInv
    <3>2. l + 1 \in 1 .. Len(blocks) + 1
      BY <1>1
    <3> QED
      BY <1>7, <1>8, <3>1, <3>2, Zenon
  <2> QED
    BY <1>3, <2>1, <2>2 DEF RecordedInv
<1>10. BlocksInv'
  BY <1>3 DEF IInv, BlocksInv
<1>11. ASSUME NEW k \in Nodes, NEW b \in 1 .. Len(recorded'[k])
       PROVE  Follows(recorded'[k][b], StakingPowers[b - 1])
  <2>1. CASE k # n
    BY <1>8, <2>1 DEF IInv, FollowInv
  <2>2. CASE k = n /\ b = l + 1
    <3>1. b - 1 = l
      BY <1>1, <2>2
    <3> QED
      BY <1>6, <1>7, <2>2, <3>1
  <2>3. CASE k = n /\ b # l + 1
    <3>1. b \in 1 .. l
      BY <1>1, <1>7, <2>3
    <3> QED
      BY <1>7, <2>3, <3>1 DEF IInv, FollowInv, l
  <2> QED
    BY <2>1, <2>2, <2>3
<1>12. FollowInv'
  BY <1>3, <1>11 DEF FollowInv
<1>13. ASSUME NEW k \in Nodes, NEW b \in 2 .. Len(recorded'[k])
       PROVE  recorded'[k][b] \in UpdatedVals(recorded'[k][b - 1], blocks[b - 1])
  <2>1. CASE k # n
    BY <1>8, <2>1 DEF IInv, ChainInv
  <2>2. CASE k = n /\ b = l + 1
    <3>1. b - 1 = l /\ l \in 1 .. l
      BY <1>1, <2>2
    <3>2. recorded'[k][l] = vals
      BY <1>7, <2>2, <3>1 DEF vals
    <3> QED
      BY <1>2, <1>7, <2>2, <3>1, <3>2
  <2>3. CASE k = n /\ b # l + 1
    <3>1. b \in 2 .. l /\ b \in 1 .. l /\ b - 1 \in 1 .. l
      BY <1>1, <1>7, <2>3
    <3>2. recorded[n][b] \in UpdatedVals(recorded[n][b - 1], blocks[b - 1])
      BY <3>1 DEF IInv, ChainInv, l
    <3> QED
      BY <1>7, <2>3, <3>1, <3>2
  <2> QED
    BY <2>1, <2>2, <2>3
<1>14. \A k \in Nodes : recorded'[k][1] = GenesisVals
  <2>1. 1 \in 1 .. l
    BY <1>1
  <2> QED
    BY <1>7, <1>8, <2>1 DEF IInv, ChainInv
<1>15. ChainInv'
  BY <1>3, <1>13, <1>14 DEF ChainInv
<1> QED
  BY <1>9, <1>10, <1>12, <1>15 DEF IInv

LEMMA InvStep == 2^Width \in Nat /\ IInv /\ [Next]_vars => IInv'
<1> SUFFICES ASSUME 2^Width \in Nat, IInv, [Next]_vars
             PROVE  IInv'
  OBVIOUS
<1>1. CASE \E us \in UpdateLists : Decide(us)
  BY <1>1, DecideKeepsInv
<1>2. CASE \E n \in Nodes : Finalize(n)
  BY <1>2, FinalizeKeepsInv
<1>3. CASE UNCHANGED vars
  <2>1. blocks' = blocks /\ recorded' = recorded /\ StakingPowers' = StakingPowers
    BY <1>3 DEF vars, StakingPowers
  <2> QED
    BY <2>1 DEF IInv, BlocksInv, RecordedInv, FollowInv, ChainInv
<1> QED
  BY <1>1, <1>2, <1>3 DEF Next

\* Nodes that have answered the same blocks have given the same answers: each
\* answer is determined by the one before and the block.
LEMMA SameAnswers ==
    ASSUME 2^Width \in Nat, IInv, NEW n \in Nodes, NEW m \in Nodes,
           Len(recorded[n]) <= Len(recorded[m])
    PROVE  \A b \in 1 .. Len(recorded[n]) : recorded[n][b] = recorded[m][b]
<1> DEFINE N == Len(recorded[n])
           T == {i \in 0 .. N : i = 0 \/ recorded[n][i] = recorded[m][i]}
<1>1. N \in Nat /\ Len(recorded[m]) \in Nat /\ N <= Len(recorded[m])
      /\ N <= Len(blocks) + 1 /\ Len(blocks) \in Nat
  BY DEF IInv, RecordedInv, BlocksInv
<1> HIDE DEF N
<1>2. 0 \in T
  BY <1>1
<1>3. ASSUME NEW i \in 1 .. N, i - 1 \in T
      PROVE  i \in T
  <2>1. i \in 0 .. N
    BY <1>1
  <2>2. CASE i = 1
    BY <2>1, <2>2 DEF IInv, ChainInv
  <2>3. CASE i # 1
    <3>1. /\ i \in 2 .. Len(recorded[n]) /\ i \in 2 .. Len(recorded[m])
          /\ i - 1 # 0 /\ i - 1 \in 1 .. Len(blocks)
      BY <1>1, <2>3 DEF N
    <3>2. recorded[n][i - 1] = recorded[m][i - 1]
      BY <1>3, <3>1
    <3>3. blocks[i - 1] \in BlockUpdates
      BY <3>1 DEF IInv, BlocksInv
    <3>4. /\ recorded[n][i] \in UpdatedVals(recorded[n][i - 1], blocks[i - 1])
          /\ recorded[m][i] \in UpdatedVals(recorded[n][i - 1], blocks[i - 1])
      BY <3>1, <3>2 DEF IInv, ChainInv
    <3>5. recorded[n][i] = recorded[m][i]
      BY <3>3, <3>4, UpdatedValsIsOne
    <3> QED
      BY <2>1, <3>5
  <2> QED
    BY <2>2, <2>3
<1> HIDE DEF T
<1>4. \A i \in 0 .. N : i \in T
  BY <1>1, <1>2, <1>3, InductionTo
<1>5. \A i \in 1 .. N : i \in 0 .. N /\ i # 0
  BY <1>1
<1> QED
  BY <1>4, <1>5 DEF T, N

LEMMA InvAgree == 2^Width \in Nat /\ IInv => NodesAgree
<1> SUFFICES ASSUME 2^Width \in Nat, IInv, NEW n \in Nodes, NEW m \in Nodes
             PROVE  \/ IsPrefix(recorded[n], recorded[m])
                    \/ IsPrefix(recorded[m], recorded[n])
  BY DEF NodesAgree
<1>1. \A k \in Nodes : recorded[k] \in Seq(Seq(Validators))
  BY DEF IInv, RecordedInv
<1>2. ASSUME NEW k \in Nodes, NEW j \in Nodes, Len(recorded[k]) <= Len(recorded[j])
      PROVE  IsPrefix(recorded[k], recorded[j])
  <2>1. \A b \in 1 .. Len(recorded[k]) : recorded[k][b] = recorded[j][b]
    BY <1>2, SameAnswers
  <2> QED
    BY <1>1, <1>2, <2>1 DEF IsPrefix
<1>3. Len(recorded[n]) <= Len(recorded[m]) \/ Len(recorded[m]) <= Len(recorded[n])
  BY <1>1
<1> QED
  BY <1>2, <1>3

-----------------------------------------------------------------------------
(* Theorems.                                                               *)

\* Every validator set a node has answered gives each key the power it has in
\* the staking module's view after the same blocks, and holds no other: the
\* map, the in-place update, the deletion and the append of handleFinalization
\* lose and double nothing, however many blocks there are.
THEOREM PowersFollowStakingHolds ==
    ASSUME 2^Width \in Nat
    PROVE  Spec => []PowersFollowStaking
<1>1. IInv => PowersFollowStaking
  <2> SUFFICES ASSUME IInv, NEW n \in Nodes, NEW b \in DOMAIN recorded[n]
               PROVE  Follows(recorded[n][b], StakingPowers[b - 1])
    BY DEF PowersFollowStaking
  <2>1. b \in 1 .. Len(recorded[n])
    BY DEF IInv, RecordedInv
  <2> QED
    BY <2>1 DEF IInv, FollowInv
<1>2. Init => IInv
  BY InvInit
<1>3. IInv /\ [Next]_vars => IInv'
  BY InvStep
<1> QED
  BY <1>1, <1>2, <1>3, PTL DEF Spec

\* For every block that a node has yet to finalize there is one answer: the
\* validator set it ends with is a function of the declared one and of the
\* updates, which sorting the keys of Go's map is for.
THEOREM OneAnswerHolds ==
    ASSUME 2^Width \in Nat
    PROVE  Spec => []OneAnswer
<1>1. IInv => OneAnswer
  <2> SUFFICES ASSUME IInv, NEW n \in Nodes, Len(recorded[n]) <= Len(blocks)
               PROVE  \E new : UpdatedVals(Last(recorded[n]),
                                           blocks[Len(recorded[n])]) = {new}
    BY DEF OneAnswer
  <2>1. blocks[Len(recorded[n])] \in BlockUpdates
    BY DEF IInv, BlocksInv, RecordedInv
  <2> QED
    BY <2>1, UpdatedValsIsOne
<1>2. Init => IInv
  BY InvInit
<1>3. IInv /\ [Next]_vars => IInv'
  BY InvStep
<1> QED
  BY <1>1, <1>2, <1>3, PTL DEF Spec

\* All nodes answer the same validator sets, in the same order, whatever order
\* Go's maps have on each of them, and no answer changes afterwards.
THEOREM NodesAgreeHolds ==
    ASSUME 2^Width \in Nat
    PROVE  Spec => []NodesAgree
<1>1. IInv => NodesAgree
  BY InvAgree
<1>2. Init => IInv
  BY InvInit
<1>3. IInv /\ [Next]_vars => IInv'
  BY InvStep
<1> QED
  BY <1>1, <1>2, <1>3, PTL DEF Spec

=============================================================================
