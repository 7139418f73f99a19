------------------------ MODULE MarginRegistry_proofs ------------------------
(***************************************************************************)
(* For every number of slots and every set of asset indexes, the slot      *)
(* arrays and the packed registry of a margin account stay sets: counts    *)
(* are right, no index takes two slots, and the operations on the bytes    *)
(* are the operations of MarginSets.                                       *)
(***************************************************************************)
EXTENDS MarginRegistry, FiniteSetTheorems, WellFoundedInduction, TLAPS

\* The inductive invariant: what the operations need of each other's results.
IInv == TypeOK /\ CountsMatchSlots /\ LiteAlwaysReadable

-----------------------------------------------------------------------------
(* The slot arrays *)

\* A search that finds anything finds a slot it was looking for.
LEMMA FirstIsMember ==
  ASSUME NEW ks \in SUBSET Nat, ks # {}
  PROVE  FirstOf(ks) \in ks
<1> DEFINE less == OpToRel(<, Nat)
<1>1. \A u, v \in Nat : <<u, v>> \in less <=> u < v
  BY DEF OpToRel
<1>2. IsWellFoundedOn(less, Nat)
  BY NatLessThanWellFounded
<1> HIDE DEF less
<1>3. PICK x \in ks : \A y \in ks : ~ (<<y, x>> \in less)
  BY <1>2, WFMin
<1>4. ASSUME NEW y \in ks
      PROVE  x <= y
  <2>1. x \in Nat /\ y \in Nat
    OBVIOUS
  <2>2. <<y, x>> \in less <=> y < x
    BY <1>1, <2>1, Zenon
  <2>3. ~ (<<y, x>> \in less)
    BY <1>3
  <2>4. ~ (y < x)
    BY <2>2, <2>3, Zenon
  <2> QED
    BY <2>1, <2>4
<1> QED
  BY <1>4 DEF FirstOf

\* A set of slots is finite and has at most MaxAssets members.
LEMMA SlotSets ==
  ASSUME NEW K \in SUBSET Slots
  PROVE  /\ IsFiniteSet(K)
         /\ Cardinality(K) \in Nat
         /\ Cardinality(K) <= MaxAssets
         /\ Cardinality(K) = MaxAssets => K = Slots
<1>1. MaxAssets \in Nat /\ MaxAssets > 0
  BY MarginRegistryAssumption
<1>2. IsFiniteSet(Slots) /\ Cardinality(Slots) = MaxAssets
  BY <1>1, FS_Interval DEF Slots
<1>3. IsFiniteSet(K) /\ Cardinality(K) <= Cardinality(Slots)
      /\ (Cardinality(Slots) = Cardinality(K) => Slots = K)
  BY <1>2, FS_Subset
<1> QED
  BY <1>2, <1>3, FS_CardinalityType

\* Adding an inactive asset to an array with an empty slot takes one slot and
\* makes exactly that asset active; there was room for it.
LEMMA AddedEffect ==
  ASSUME NEW a \in Arrays, Faithful(a), NEW i \in Indexes, CanAdd(a, i)
  PROVE  /\ Added(a, i) \in Arrays
         /\ Faithful(Added(a, i))
         /\ ActiveIn(Added(a, i)) = ActiveIn(a) \cup {i}
         /\ i \notin ActiveIn(a)
         /\ Cardinality(ActiveIn(a)) < MaxAssets
<1> DEFINE k == FirstOf(Holding(a, Empty))
           b == Added(a, i)
<1>0. MaxAssets \in Nat /\ Empty \notin Indexes
  BY MarginRegistryAssumption
<1>1. k \in Slots /\ a.slots[k] = Empty
  BY <1>0, FirstIsMember DEF CanAdd, Holding, Slots
<1> HIDE DEF k
<1>2. /\ b = [slots |-> [a.slots EXCEPT ![k] = i], count |-> a.count + 1]
      /\ a.slots \in [Slots -> Indexes \cup {Empty}]
      /\ a.count \in Nat
  BY DEF Added, k, Arrays
<1> HIDE DEF b
<1>3. b \in Arrays
  BY <1>1, <1>2 DEF Arrays
<1>4. /\ b.slots[k] = i
      /\ \A j \in Slots \ {k} : b.slots[j] = a.slots[j]
      /\ b.count = a.count + 1
  BY <1>1, <1>2
<1>5. Filled(b) = Filled(a) \cup {k} /\ k \notin Filled(a)
  BY <1>0, <1>1, <1>4 DEF Filled
<1>6. Filled(a) \in SUBSET Slots /\ Filled(b) \in SUBSET Slots
  BY DEF Filled
<1>7. Cardinality(Filled(b)) = Cardinality(Filled(a)) + 1
  BY <1>5, <1>6, SlotSets, FS_AddElement
<1>8. \A j \in Slots : a.slots[j] # i
  BY DEF CanAdd, Holding
<1>9. Faithful(b)
  <2>1. b.count = Cardinality(Filled(b))
    BY <1>4, <1>7 DEF Faithful
  <2>2. ASSUME NEW j \in Filled(b), NEW l \in Filled(b), b.slots[j] = b.slots[l]
        PROVE  j = l
    BY <2>2, <1>4, <1>5, <1>8 DEF Faithful, Filled
  <2> QED
    BY <2>1, <2>2 DEF Faithful
<1>10. ActiveIn(b) = ActiveIn(a) \cup {i}
  <2>1. ASSUME NEW e \in Indexes
        PROVE  (\E j \in Slots : b.slots[j] = e) <=> (e = i \/ \E j \in Slots : a.slots[j] = e)
    BY <1>0, <1>1, <1>4
  <2> QED
    BY <2>1 DEF ActiveIn, Holding
<1>11. i \notin ActiveIn(a)
  BY DEF ActiveIn, CanAdd
<1>12. Cardinality(ActiveIn(a)) < MaxAssets
  <2> DEFINE f == [j \in Filled(a) |-> a.slots[j]]
  <2>1. f \in Surjection(Filled(a), ActiveIn(a))
    <3>1. f \in [Filled(a) -> ActiveIn(a)]
      BY <1>2 DEF Filled, ActiveIn, Holding
    <3>2. \A e \in ActiveIn(a) : \E j \in Filled(a) : f[j] = e
      BY <1>0 DEF Filled, ActiveIn, Holding
    <3> QED
      BY <3>1, <3>2 DEF Surjection
  <2> HIDE DEF f
  <2>2. Cardinality(ActiveIn(a)) <= Cardinality(Filled(a)) /\ IsFiniteSet(ActiveIn(a))
    BY <2>1, <1>6, SlotSets, FS_Surjection
  <2>3. Cardinality(Filled(a)) \in Nat /\ Cardinality(Filled(b)) \in Nat
        /\ Cardinality(Filled(b)) <= MaxAssets
    BY <1>6, SlotSets
  <2>4. Cardinality(ActiveIn(a)) \in Nat
    BY <2>2, FS_CardinalityType
  <2> QED
    BY <2>2, <2>3, <2>4, <1>7, <1>0
<1> QED
  BY <1>3, <1>9, <1>10, <1>11, <1>12 DEF b

\* Removing an active asset empties one slot and deactivates exactly that asset.
LEMMA RemovedEffect ==
  ASSUME NEW a \in Arrays, Faithful(a), NEW i \in Indexes, CanRemove(a, i)
  PROVE  /\ Removed(a, i) \in Arrays
         /\ Faithful(Removed(a, i))
         /\ ActiveIn(Removed(a, i)) = ActiveIn(a) \ {i}
         /\ i \in ActiveIn(a)
<1> DEFINE k == FirstOf(Holding(a, i))
           b == Removed(a, i)
<1>0. MaxAssets \in Nat /\ Empty \notin Indexes
  BY MarginRegistryAssumption
<1>1. k \in Slots /\ a.slots[k] = i
  BY <1>0, FirstIsMember DEF CanRemove, Holding, Slots
<1> HIDE DEF k
<1>2. /\ b = [slots |-> [a.slots EXCEPT ![k] = Empty], count |-> a.count - 1]
      /\ a.slots \in [Slots -> Indexes \cup {Empty}]
      /\ a.count \in Nat
  BY DEF Removed, k, Arrays
<1> HIDE DEF b
<1>3. /\ b.slots[k] = Empty
      /\ \A j \in Slots \ {k} : b.slots[j] = a.slots[j]
      /\ b.count = a.count - 1
  BY <1>1, <1>2
<1>4. Filled(b) = Filled(a) \ {k} /\ k \in Filled(a)
  BY <1>0, <1>1, <1>3 DEF Filled
<1>5. Filled(a) \in SUBSET Slots /\ Filled(b) \in SUBSET Slots
  BY DEF Filled
<1>6. Cardinality(Filled(b)) = Cardinality(Filled(a)) - 1
  BY <1>4, <1>5, SlotSets, FS_RemoveElement
<1>7. Cardinality(Filled(b)) \in Nat
  BY <1>5, SlotSets
<1>8. a.count - 1 \in Nat
  BY <1>6, <1>7 DEF Faithful
<1>9. b \in Arrays
  BY <1>1, <1>2, <1>8 DEF Arrays
<1>10. Faithful(b)
  BY <1>3, <1>4, <1>6 DEF Faithful, Filled
<1>11. \A j \in Slots : a.slots[j] = i => j = k
  BY <1>0, <1>1 DEF Faithful, Filled
<1>12. ActiveIn(b) = ActiveIn(a) \ {i}
  <2>1. ASSUME NEW e \in Indexes
        PROVE  (\E j \in Slots : b.slots[j] = e) <=> (e # i /\ \E j \in Slots : a.slots[j] = e)
    BY <1>0, <1>1, <1>3, <1>11
  <2> QED
    BY <2>1 DEF ActiveIn, Holding
<1>13. i \in ActiveIn(a)
  BY DEF ActiveIn, CanRemove
<1> QED
  BY <1>9, <1>10, <1>12, <1>13 DEF b

-----------------------------------------------------------------------------
(* The packed Lite registry *)

\* No entry is listed twice.
Distinct(seq) == \A j, k \in 1..Len(seq) : seq[j] = seq[k] => j = k

\* Appending an index that is not listed adds it to the set and keeps the
\* entries distinct; there was room in the set.
LEMMA AppendEffect ==
  ASSUME NEW seq \in Seq(Indexes), Distinct(seq), NEW i \in Indexes,
         i \notin Listed(seq), Len(seq) < MaxAssets
  PROVE  /\ Append(seq, i) \in Seq(Indexes)
         /\ Len(Append(seq, i)) <= MaxAssets
         /\ Distinct(Append(seq, i))
         /\ Listed(Append(seq, i)) = Listed(seq) \cup {i}
         /\ Cardinality(Listed(seq)) < MaxAssets
<1> DEFINE n == Len(seq)
           b == Append(seq, i)
<1>0. MaxAssets \in Nat /\ n \in Nat
  BY MarginRegistryAssumption
<1>1. /\ b \in Seq(Indexes)
      /\ Len(b) = n + 1
      /\ b[n + 1] = i
      /\ \A j \in 1..n : b[j] = seq[j]
  OBVIOUS
<1> HIDE DEF b
<1>2. \A j \in 1..n : seq[j] # i
  BY DEF Listed
<1>3. Distinct(b)
  <2>1. 1..Len(b) = (1..n) \cup {n + 1}
    BY <1>0, <1>1
  <2>2. \A j, k \in 1..n : seq[j] = seq[k] => j = k
    BY DEF Distinct
  <2> QED
    BY <2>1, <2>2, <1>1, <1>2 DEF Distinct
<1>4. Listed(b) = Listed(seq) \cup {i}
  <2>1. 1..Len(b) = (1..n) \cup {n + 1}
    BY <1>0, <1>1
  <2> QED
    BY <2>1, <1>1 DEF Listed
<1>5. Cardinality(Listed(seq)) < MaxAssets
  <2>1. IsFiniteSet(1..n) /\ Cardinality(1..n) = n
    <3>1. 1 \in Int /\ n \in Int
      BY <1>0
    <3> HIDE DEF n
    <3>2. IsFiniteSet(1..n) /\ Cardinality(1..n) = IF 1 > n THEN 0 ELSE n - 1 + 1
      BY <3>1, FS_Interval
    <3> QED
      BY <1>0, <3>2
  <2> DEFINE f == [j \in 1..n |-> seq[j]]
  <2>2. f \in Surjection(1..n, Listed(seq))
    BY DEF Surjection, Listed
  <2> HIDE DEF f
  <2>3. IsFiniteSet(Listed(seq)) /\ Cardinality(Listed(seq)) <= Cardinality(1..n)
    BY <2>1, <2>2, FS_Surjection
  <2>4. Cardinality(Listed(seq)) \in Nat
    BY <2>3, FS_CardinalityType
  <2> QED
    BY <2>1, <2>3, <2>4, <1>0
<1> QED
  BY <1>0, <1>1, <1>3, <1>4, <1>5 DEF b

\* Taking out the entry at p removes that index from the set and keeps the
\* entries distinct.
LEMMA WithoutEffect ==
  ASSUME NEW seq \in Seq(Indexes), Distinct(seq), Len(seq) <= MaxAssets,
         NEW p \in 1..Len(seq)
  PROVE  /\ Without(seq, p) \in Seq(Indexes)
         /\ Len(Without(seq, p)) <= MaxAssets
         /\ Distinct(Without(seq, p))
         /\ Listed(Without(seq, p)) = Listed(seq) \ {seq[p]}
<1> DEFINE n == Len(seq)
           b == Without(seq, p)
<1>0. MaxAssets \in Nat /\ n \in Nat /\ p \in Nat /\ 1 <= p /\ p <= n
  BY MarginRegistryAssumption
<1>1. \A j \in 1..n : seq[j] \in Indexes
  OBVIOUS
<1>2. b = [j \in 1..(n - 1) |-> IF j < p THEN seq[j] ELSE seq[j + 1]]
  BY DEF Without
<1> HIDE DEF b
<1>3. \A j \in 1..(n - 1) : j \in 1..n /\ j + 1 \in 1..n
  BY <1>0
<1>4. b \in [1..(n - 1) -> Indexes]
  BY <1>1, <1>2, <1>3
<1>5. b \in Seq(Indexes) /\ Len(b) = n - 1
  <2>1. n - 1 \in Nat
    BY <1>0
  <2> QED
    BY <1>4, <2>1
<1>6. \A j \in 1..(n - 1) : b[j] = IF j < p THEN seq[j] ELSE seq[j + 1]
  BY <1>2
<1>7. \A j, k \in 1..n : seq[j] = seq[k] => j = k
  BY DEF Distinct
<1>8. Distinct(b)
  <2>1. SUFFICES ASSUME NEW j \in 1..(n - 1), NEW k \in 1..(n - 1), b[j] = b[k]
                 PROVE  j = k
    BY <1>5 DEF Distinct
  <2> DEFINE s(x) == IF x < p THEN x ELSE x + 1
  <2>2. s(j) \in 1..n /\ s(k) \in 1..n
    BY <1>3
  <2>3. b[j] = seq[s(j)] /\ b[k] = seq[s(k)]
    BY <1>6
  <2>4. s(j) = s(k)
    BY <2>1, <2>2, <2>3, <1>7
  <2> QED
    BY <2>4, <1>0
<1>9. Listed(b) \subseteq Listed(seq) \ {seq[p]}
  <2>1. SUFFICES ASSUME NEW j \in 1..(n - 1)
                 PROVE  b[j] \in Listed(seq) /\ b[j] # seq[p]
    BY <1>5 DEF Listed
  <2> DEFINE x == IF j < p THEN j ELSE j + 1
  <2>2. x \in 1..n /\ x # p
    BY <1>0, <1>3
  <2>3. b[j] = seq[x]
    BY <1>6
  <2> QED
    BY <2>2, <2>3, <1>7, <1>0 DEF Listed
<1>10. Listed(seq) \ {seq[p]} \subseteq Listed(b)
  <2>1. SUFFICES ASSUME NEW j \in 1..n, j # p
                 PROVE  seq[j] \in Listed(b)
    BY DEF Listed
  <2> DEFINE x == IF j < p THEN j ELSE j - 1
  <2>2. x \in 1..(n - 1)
    BY <1>0, <2>1
  <2>3. b[x] = seq[j]
    BY <1>0, <1>6, <2>1, <2>2
  <2> QED
    BY <2>2, <2>3, <1>5 DEF Listed
<1>11. Len(b) <= MaxAssets
  BY <1>0, <1>5
<1> QED
  BY <1>5, <1>8, <1>9, <1>10, <1>11 DEF b

-----------------------------------------------------------------------------
(* The steps *)

\* MarginSets counts with the same Cardinality.
LEMMA SameCardinality ==
  ASSUME NEW S
  PROVE  Sets!Room(S) <=> Cardinality(S) < MaxAssets
BY DEF Sets!Room, Sets!Cardinality, Cardinality

\* A new margin account satisfies the invariant and is three empty sets.
LEMMA InitInvariant == Init => IInv /\ Sets!Init
<1> SUFFICES ASSUME Init PROVE IInv /\ Sets!Init
  OBVIOUS
<1>0. MaxAssets \in Nat /\ MaxAssets > 0 /\ Empty \notin Indexes
  BY MarginRegistryAssumption
<1>1. EmptyArray \in Arrays
  BY DEF EmptyArray, Arrays
<1>2. Filled(EmptyArray) = {} /\ ActiveIn(EmptyArray) = {}
  BY <1>0 DEF Filled, EmptyArray, ActiveIn, Holding
<1>3. Faithful(EmptyArray)
  BY <1>2, FS_EmptySet DEF Faithful, EmptyArray
<1>4. <<>> \in Seq(Indexes) /\ Len(<<>>) = 0 /\ Listed(<<>>) = {}
  BY DEF Listed
<1>5. LiteReadable
  BY <1>0, <1>4 DEF Init, LiteReadable
<1> QED
  BY <1>1, <1>2, <1>3, <1>4, <1>5
     DEF Init, IInv, TypeOK, CountsMatchSlots, LiteAlwaysReadable, Sets!Init

\* Adding or removing active collateral is the same on the set.
LEMMA CollateralStep ==
  ASSUME IInv, NEW i \in Indexes, add_active_collateral(i) \/ remove_active_collateral(i)
  PROVE  IInv' /\ (Sets!AddCollateral(i) \/ Sets!RemoveCollateral(i))
<1>1. collateral \in Arrays /\ Faithful(collateral)
  BY DEF IInv, TypeOK, CountsMatchSlots
<1>2. UNCHANGED <<debt, lite_indexes>>
  BY DEF add_active_collateral, remove_active_collateral
<1>3. collateral' \in Arrays /\ Faithful(collateral') => IInv'
  BY <1>2 DEF IInv, TypeOK, CountsMatchSlots, LiteAlwaysReadable, LiteReadable
<1>4. CASE add_active_collateral(i)
  <2>1. CanAdd(collateral, i) /\ collateral' = Added(collateral, i)
    BY <1>4 DEF add_active_collateral
  <2>2. /\ collateral' \in Arrays
        /\ Faithful(collateral')
        /\ ActiveIn(collateral') = ActiveIn(collateral) \cup {i}
        /\ i \notin ActiveIn(collateral)
        /\ Cardinality(ActiveIn(collateral)) < MaxAssets
    BY <1>1, <2>1, AddedEffect
  <2> QED
    BY <1>2, <1>3, <2>2, SameCardinality DEF Sets!AddCollateral
<1>5. CASE remove_active_collateral(i)
  <2>1. CanRemove(collateral, i) /\ collateral' = Removed(collateral, i)
    BY <1>5 DEF remove_active_collateral
  <2>2. /\ collateral' \in Arrays
        /\ Faithful(collateral')
        /\ ActiveIn(collateral') = ActiveIn(collateral) \ {i}
        /\ i \in ActiveIn(collateral)
    BY <1>1, <2>1, RemovedEffect
  <2> QED
    BY <1>2, <1>3, <2>2 DEF Sets!RemoveCollateral
<1> QED
  BY <1>4, <1>5

\* Adding or removing an active debt is the same on the set.
LEMMA DebtStep ==
  ASSUME IInv, NEW i \in Indexes, add_active_debt(i) \/ remove_active_debt(i)
  PROVE  IInv' /\ (Sets!AddDebt(i) \/ Sets!RemoveDebt(i))
<1>1. debt \in Arrays /\ Faithful(debt)
  BY DEF IInv, TypeOK, CountsMatchSlots
<1>2. UNCHANGED <<collateral, lite_indexes>>
  BY DEF add_active_debt, remove_active_debt
<1>3. debt' \in Arrays /\ Faithful(debt') => IInv'
  BY <1>2 DEF IInv, TypeOK, CountsMatchSlots, LiteAlwaysReadable, LiteReadable
<1>4. CASE add_active_debt(i)
  <2>1. CanAdd(debt, i) /\ debt' = Added(debt, i)
    BY <1>4 DEF add_active_debt
  <2>2. /\ debt' \in Arrays
        /\ Faithful(debt')
        /\ ActiveIn(debt') = ActiveIn(debt) \cup {i}
        /\ i \notin ActiveIn(debt)
        /\ Cardinality(ActiveIn(debt)) < MaxAssets
    BY <1>1, <2>1, AddedEffect
  <2> QED
    BY <1>2, <1>3, <2>2, SameCardinality DEF Sets!AddDebt
<1>5. CASE remove_active_debt(i)
  <2>1. CanRemove(debt, i) /\ debt' = Removed(debt, i)
    BY <1>5 DEF remove_active_debt
  <2>2. /\ debt' \in Arrays
        /\ Faithful(debt')
        /\ ActiveIn(debt') = ActiveIn(debt) \ {i}
        /\ i \in ActiveIn(debt)
    BY <1>1, <2>1, RemovedEffect
  <2> QED
    BY <1>2, <1>3, <2>2 DEF Sets!RemoveDebt
<1> QED
  BY <1>4, <1>5

\* Registering or unregistering a Lite position is the same on the set.
LEMMA LiteStep ==
  ASSUME IInv, NEW i \in Indexes, register_lite(i) \/ unregister_lite(i)
  PROVE  IInv' /\ (Sets!AddLite(i) \/ Sets!RemoveLite(i))
<1>1. /\ lite_indexes \in Seq(Indexes)
      /\ Len(lite_indexes) <= MaxAssets
      /\ Distinct(lite_indexes)
  BY DEF IInv, TypeOK, LiteAlwaysReadable, LiteReadable, Distinct
<1>2. UNCHANGED <<collateral, debt>>
  BY DEF register_lite, unregister_lite
<1>3. /\ lite_indexes' \in Seq(Indexes)
      /\ Len(lite_indexes') <= MaxAssets
      /\ Distinct(lite_indexes')
      => IInv'
  BY <1>2 DEF IInv, TypeOK, CountsMatchSlots, LiteAlwaysReadable, LiteReadable, Distinct
<1>4. CASE register_lite(i)
  <2>1. /\ i \notin Listed(lite_indexes)
        /\ Len(lite_indexes) < MaxAssets
        /\ lite_indexes' = Append(lite_indexes, i)
    BY <1>4 DEF register_lite
  <2>2. /\ lite_indexes' \in Seq(Indexes)
        /\ Len(lite_indexes') <= MaxAssets
        /\ Distinct(lite_indexes')
        /\ Listed(lite_indexes') = Listed(lite_indexes) \cup {i}
        /\ Cardinality(Listed(lite_indexes)) < MaxAssets
    BY <1>1, <2>1, AppendEffect
  <2> QED
    BY <1>2, <1>3, <2>1, <2>2, SameCardinality DEF Sets!AddLite
<1>5. CASE unregister_lite(i)
  <2>1. PICK k \in 1..Len(lite_indexes) :
          lite_indexes[k] = i /\ lite_indexes' = Without(lite_indexes, k)
    BY <1>5 DEF unregister_lite
  <2>2. /\ lite_indexes' \in Seq(Indexes)
        /\ Len(lite_indexes') <= MaxAssets
        /\ Distinct(lite_indexes')
        /\ Listed(lite_indexes') = Listed(lite_indexes) \ {i}
    BY <1>1, <2>1, WithoutEffect
  <2>3. i \in Listed(lite_indexes)
    BY <2>1 DEF Listed
  <2> QED
    BY <1>2, <1>3, <2>2, <2>3 DEF Sets!RemoveLite
<1> QED
  BY <1>4, <1>5

\* An account that may be closed is three empty sets already.
LEMMA CloseStep ==
  ASSUME IInv, CloseAndCreate
  PROVE  IInv' /\ UNCHANGED Sets!vars
<1>1. collateral.count = 0 /\ debt.count = 0 /\ Len(lite_indexes) = 0
  BY DEF CloseAndCreate, is_empty
<1>2. ASSUME NEW a, Faithful(a), a.count = 0
      PROVE  ActiveIn(a) = {}
  <2>1. Filled(a) \in SUBSET Slots
    BY DEF Filled
  <2>2. IsFiniteSet(Filled(a)) /\ Cardinality(Filled(a)) = 0
    BY <1>2, <2>1, SlotSets DEF Faithful
  <2>3. Filled(a) = {}
    BY <2>2, FS_EmptySet
  <2> QED
    BY <2>3, MarginRegistryAssumption DEF Filled, ActiveIn, Holding
<1>3. ActiveIn(collateral) = {} /\ ActiveIn(debt) = {}
  BY <1>1, <1>2 DEF IInv, CountsMatchSlots
<1>4. Listed(lite_indexes) = {}
  BY <1>1 DEF Listed, IInv, TypeOK
<1>5. Init'
  BY DEF CloseAndCreate, Init
<1>6. IInv' /\ Sets!Init'
  BY <1>5, InitInvariant, PTL
<1> QED
  BY <1>3, <1>4, <1>6 DEF Sets!vars, Sets!Init

\* Every step keeps the invariant and is a step of MarginSets, or none.
LEMMA StepInvariant == IInv /\ [Next]_vars => IInv' /\ [Sets!Next]_(Sets!vars)
<1> SUFFICES ASSUME IInv, [Next]_vars
             PROVE  IInv' /\ [Sets!Next]_(Sets!vars)
  OBVIOUS
<1>1. ASSUME NEW i \in Indexes, add_active_collateral(i) \/ remove_active_collateral(i)
      PROVE  IInv' /\ Sets!Next
  BY <1>1, CollateralStep DEF Sets!Next
<1>2. ASSUME NEW i \in Indexes, add_active_debt(i) \/ remove_active_debt(i)
      PROVE  IInv' /\ Sets!Next
  BY <1>2, DebtStep DEF Sets!Next
<1>3. ASSUME NEW i \in Indexes, register_lite(i) \/ unregister_lite(i)
      PROVE  IInv' /\ Sets!Next
  BY <1>3, LiteStep DEF Sets!Next
<1>4. CASE CloseAndCreate
  BY <1>4, CloseStep
<1>5. CASE UNCHANGED vars
  <2>1. IInv'
    BY <1>5 DEF vars, IInv, TypeOK, CountsMatchSlots, LiteAlwaysReadable, LiteReadable
  <2>2. UNCHANGED Sets!vars
    BY <1>5 DEF vars, Sets!vars
  <2> QED
    BY <2>1, <2>2
<1> QED
  BY <1>1, <1>2, <1>3, <1>4, <1>5 DEF Next

\* The invariant holds in every state.
LEMMA Invariance == Spec => []IInv
<1>1. Init => IInv
  BY InitInvariant
<1>2. IInv /\ [Next]_vars => IInv'
  BY StepInvariant
<1> QED
  BY <1>1, <1>2, PTL DEF Spec

\* The arrays and the registry hold what they are declared to hold.
THEOREM RegistryTypeCorrect == Spec => []TypeOK
<1>1. IInv => TypeOK
  BY DEF IInv
<1> QED
  BY <1>1, Invariance, PTL

\* The counts are the numbers of slots in use and no asset takes two slots.
THEOREM CountsAlwaysMatch == Spec => []CountsMatchSlots
<1>1. IInv => CountsMatchSlots
  BY DEF IInv
<1> QED
  BY <1>1, Invariance, PTL

\* The packed registry can be read back in every state.
THEOREM LiteNeverUnreadable == Spec => []LiteAlwaysReadable
<1>1. IInv => LiteAlwaysReadable
  BY DEF IInv
<1> QED
  BY <1>1, Invariance, PTL

\* The bytes of a margin account implement three bounded sets.
THEOREM RegistryImplementsSets == Spec => ImplementsSets
<1>1. Init => Sets!Init
  BY InitInvariant
<1>2. IInv /\ [Next]_vars => [Sets!Next]_(Sets!vars)
  BY StepInvariant
<1> QED
  BY <1>1, <1>2, Invariance, PTL DEF Spec, ImplementsSets, Sets!Spec
=============================================================================
