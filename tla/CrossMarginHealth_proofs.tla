----------------------- MODULE CrossMarginHealth_proofs -----------------------
(***************************************************************************)
(* What the health checks of CrossMargin are worth: an owner who takes     *)
(* tokens out leaves a healthy account, and a liquidation helps the        *)
(* account it falls on.                                                    *)
(*                                                                         *)
(* An instruction does not value the account it leaves behind.  It judges  *)
(* a projection: the scan of the old registry without the slots it is      *)
(* about to change, plus what it computes for those slots.  The proofs     *)
(* show that the projection is the value of the whole account afterwards.  *)
(* They need sums over registries, so the first part proves what           *)
(* MapThenSumSet computes on a finite set.                                 *)
(***************************************************************************)
EXTENDS CrossMarginPools_proofs

-----------------------------------------------------------------------------
(* Sums over a set *)

\* The sum of f over a part of its domain.
SumOver(f, s) == TotalOf([x \in s |-> f[x]])

\* The element that a fold over a set takes next.
AnyOf(s) == CHOOSE x \in s : TRUE

\* One turn of such a fold: g gives the sums of smaller sets.
FoldStep(S, f, g) ==
  [s \in SUBSET S |-> IF s = {} THEN 0 ELSE f[AnyOf(s)] + g[s \ {AnyOf(s)}]]

\* A sum takes in one element after the other.
LEMMA SumSplit ==
  ASSUME NEW S, IsFiniteSet(S), NEW f \in [S -> Nat], NEW s \in SUBSET S, NEW x \in s
  PROVE  /\ SumOver(f, s) = f[x] + SumOver(f, s \ {x})
         /\ SumOver(f, s \ {x}) \in Nat
<1> DEFINE g == [y \in s |-> f[y]]
           h == [y \in s \ {x} |-> f[y]]
<1>1. g \in [s -> Nat] /\ h \in [s \ {x} -> Nat] /\ f[x] \in Nat
  OBVIOUS
<1>2. IsFiniteSet(s)
  BY FS_Subset
<1> DEFINE rest == UNION {UnitsOf(g, y) : y \in s \ {x}}
<1>3. Cardinality(rest) \in Nat /\ TotalOf(g) = Cardinality(rest) + g[x]
  BY <1>1, <1>2, TotalSplit
<1>4. rest = UNION {UnitsOf(h, y) : y \in s \ {x}}
  BY DEF UnitsOf
<1>5. TotalOf(h) = Cardinality(rest)
  BY <1>4 DEF TotalOf
<1>6. SumOver(f, s) = TotalOf(g) /\ SumOver(f, s \ {x}) = TotalOf(h) /\ g[x] = f[x]
  BY DEF SumOver
<1> HIDE DEF g, h, rest
<1> QED
  BY <1>1, <1>3, <1>5, <1>6

\* The sum over nothing is nothing.
LEMMA SumOfNothing ==
  ASSUME NEW f
  PROVE  SumOver(f, {}) = 0
<1>1. [x \in {} |-> f[x]] = [x \in {} |-> 0]
  OBVIOUS
<1> QED
  BY <1>1, TotalOfZero DEF SumOver

\* The recursion of a fold has one solution, and it is the sum.
LEMMA FoldIsSum ==
  ASSUME NEW S, IsFiniteSet(S), NEW f \in [S -> Nat], NEW g,
         g = FoldStep(S, f, g)
  PROVE  g[S] = SumOver(f, S)
<1> DEFINE wrong == {s \in SUBSET S : g[s] # SumOver(f, s)}
<1> SUFFICES ASSUME wrong # {} PROVE FALSE
  OBVIOUS
<1>1. IsWellFoundedOn(StrictSubsetOrdering(S), FiniteSubsetsOf(S))
  BY FS_StrictSubsetOrderingWellFounded
<1>2. wrong \subseteq FiniteSubsetsOf(S)
  BY FS_Subset DEF FiniteSubsetsOf
<1>3. PICK s \in wrong : \A t \in wrong : ~ (<<t, s>> \in StrictSubsetOrdering(S))
  <2> HIDE DEF wrong
  <2> QED
    BY <1>1, <1>2, WFMin
<1>4. s # {}
  BY <1>3, SumOfNothing DEF FoldStep
<1> DEFINE x == AnyOf(s)
<1>5. x \in s
  BY <1>4 DEF AnyOf
<1>6. g[s] = f[x] + g[s \ {x}]
  BY <1>3, <1>4 DEF FoldStep
<1>7. g[s \ {x}] = SumOver(f, s \ {x})
  <2>1. s \ {x} \in SUBSET S /\ <<s \ {x}, s>> \in StrictSubsetOrdering(S)
    BY <1>3, <1>5 DEF StrictSubsetOrdering
  <2> QED
    BY <1>3, <2>1
<1>8. SumOver(f, s) = f[x] + SumOver(f, s \ {x})
  BY <1>3, <1>5, SumSplit
<1> QED
  BY <1>3, <1>6, <1>7, <1>8

\* The sums over all parts of S.
Sums(S, f) == [s \in SUBSET S |-> SumOver(f, s)]

\* They solve the recursion of a fold.
LEMMA SumIsFold ==
  ASSUME NEW S, IsFiniteSet(S), NEW f \in [S -> Nat]
  PROVE  Sums(S, f) = FoldStep(S, f, Sums(S, f))
<1>1. ASSUME NEW s \in SUBSET S
      PROVE  SumOver(f, s) = IF s = {} THEN 0 ELSE f[AnyOf(s)] + Sums(S, f)[s \ {AnyOf(s)}]
  <2>1. CASE s = {}
    BY <2>1, SumOfNothing
  <2>2. CASE s # {}
    <3>1. AnyOf(s) \in s
      BY <2>2 DEF AnyOf
    <3>2. Sums(S, f)[s \ {AnyOf(s)}] = SumOver(f, s \ {AnyOf(s)})
      BY DEF Sums
    <3> QED
      BY <2>2, <3>1, <3>2, SumSplit
  <2> QED
    BY <2>1, <2>2
<1> QED
  BY <1>1 DEF Sums, FoldStep

\* A sum is a natural number, and depends on the summands only.
LEMMA SumType ==
  ASSUME NEW S, IsFiniteSet(S), NEW f \in [S -> Nat], NEW s \in SUBSET S
  PROVE  SumOver(f, s) \in Nat
<1>1. CASE s = {}
  BY <1>1, SumOfNothing
<1>2. CASE s # {}
  <2>1. PICK x \in s : TRUE
    BY <1>2
  <2>2. SumOver(f, s) = f[x] + SumOver(f, s \ {x}) /\ SumOver(f, s \ {x}) \in Nat
    BY SumSplit
  <2>3. f[x] \in Nat
    OBVIOUS
  <2> QED
    BY <2>2, <2>3
<1> QED
  BY <1>1, <1>2

\* Functions that agree on a set have the same sum over it.
LEMMA SameSum ==
  ASSUME NEW f, NEW g, NEW s, \A x \in s : f[x] = g[x]
  PROVE  SumOver(f, s) = SumOver(g, s)
<1>1. [x \in s |-> f[x]] = [x \in s |-> g[x]]
  OBVIOUS
<1> QED
  BY <1>1 DEF SumOver

\* The slots in K stay and keep their values, and only those in R change.  D are
\* the slots afterwards; one that is no longer there is worth nothing.
Revalued(S, f, g, K, D, R) ==
  /\ IsFiniteSet(S)
  /\ f \in [S -> Nat] /\ g \in [S -> Nat]
  /\ D \in SUBSET S /\ R \subseteq S
  /\ K = D \ R
  /\ \A x \in R : x \notin D => g[x] = 0
  /\ \A x \in K : g[x] = f[x]

\* The sum over the new slots is the sum over those that stay, plus the new value
\* of the slot that changed.
LEMMA OneRevalued ==
  ASSUME NEW S, NEW f, NEW g, NEW K, NEW D, NEW a, Revalued(S, f, g, K, D, {a})
  PROVE  SumOver(g, D) = SumOver(f, K) + g[a]
<1>1. /\ IsFiniteSet(S) /\ a \in S
      /\ f \in [S -> Nat] /\ g \in [S -> Nat]
      /\ D \in SUBSET S /\ K = D \ {a}
      /\ a \notin D => g[a] = 0
      /\ \A x \in K : g[x] = f[x]
  BY DEF Revalued
<1>2. SumOver(g, K) = SumOver(f, K)
  BY <1>1, SameSum
<1>3. SumOver(g, K) \in Nat /\ g[a] \in Nat
  BY <1>1, SumType
<1>4. CASE a \in D
  <2>1. SumOver(g, D) = g[a] + SumOver(g, K)
    BY <1>1, <1>4, SumSplit
  <2> QED
    BY <1>2, <1>3, <2>1
<1>5. CASE a \notin D
  <2>1. SumOver(g, D) = SumOver(f, K) /\ g[a] = 0
    <3>1. K = D
      BY <1>1, <1>5
    <3> QED
      BY <1>1, <1>2, <1>5, <3>1
  <2>2. SumOver(f, K) \in Nat
    BY <1>2, <1>3
  <2> QED
    BY <2>1, <2>2
<1> QED
  BY <1>4, <1>5

\* The same for two slots.
LEMMA TwoRevalued ==
  ASSUME NEW S, NEW f, NEW g, NEW K, NEW D, NEW a, NEW b, a # b, Revalued(S, f, g, K, D, {a, b})
  PROVE  SumOver(g, D) = SumOver(f, K) + g[a] + g[b]
<1>1. /\ IsFiniteSet(S) /\ a \in S /\ b \in S
      /\ f \in [S -> Nat] /\ g \in [S -> Nat]
      /\ D \in SUBSET S /\ K = D \ {a, b}
      /\ (a \notin D => g[a] = 0) /\ (b \notin D => g[b] = 0)
      /\ \A x \in K : g[x] = f[x]
  BY DEF Revalued
<1>2. PICK E \in SUBSET S : E = D \ {b}
  BY <1>1
<1>3. SumOver(g, D) = SumOver(g, E) + g[b]
  <2>1. Revalued(S, g, g, E, D, {b})
    BY <1>1, <1>2 DEF Revalued
  <2> QED
    BY <2>1, OneRevalued
<1>4. SumOver(g, E) = SumOver(f, K) + g[a]
  <2>1. Revalued(S, f, g, K, E, {a})
    BY <1>1, <1>2 DEF Revalued
  <2>2. \A x : Revalued(S, f, g, K, E, {x}) => SumOver(g, E) = SumOver(f, K) + g[x]
    BY OneRevalued
  <2> QED
    BY <2>1, <2>2
<1>5. SumOver(f, K) \in Nat /\ g[a] \in Nat /\ g[b] \in Nat
  BY <1>1, SumType
<1> QED
  BY <1>3, <1>4, <1>5

\* What MapThenSumSet chooses is the sum.
LEMMA ChosenFold ==
  ASSUME NEW S, IsFiniteSet(S), NEW f \in [S -> Nat]
  PROVE  (CHOOSE g : g = FoldStep(S, f, g))[S] = SumOver(f, S)
<1> DEFINE iter == CHOOSE g : g = FoldStep(S, f, g)
<1>1. iter = FoldStep(S, f, iter)
  BY SumIsFold
<1> HIDE DEF iter
<1>2. iter[S] = SumOver(f, S)
  BY <1>1, FoldIsSum
<1> QED
  BY <1>2 DEF iter

-----------------------------------------------------------------------------
(* The sums of a health check.  No lemma may have the operator that is summed *)
(* as a parameter, so each of the three sums is found by the same argument.  *)

\* The values in the vaults of an account.
VaultValues(m) == [a \in Assets |-> ValueDown(vault[m][a], a)]

\* The fold over vaults that a health check computes is the sum of their values.
LEMMA VaultsSum ==
  ASSUME NEW m, NEW s, IsFiniteSet(s), s \subseteq Assets,
         VaultValues(m) \in [Assets -> Nat]
  PROVE  VaultsIn(m, s) = SumOver(VaultValues(m), s)
<1> DEFINE f == [x \in s |-> VaultValues(m)[x]]
           V(x) == ValueDown(vault[m][x], x)
           F(g) == [r \in SUBSET s |-> IF r = {} THEN 0 ELSE V(AnyOf(r)) + g[r \ {AnyOf(r)}]]
           iter == CHOOSE g : g = F(g)
<1>1. VaultsIn(m, s) = iter[s]
  BY DEF VaultsIn, MapThenSumSet, MapThenFoldSet, AnyOf
<1>2. \A g : F(g) = FoldStep(s, f, g)
  BY DEF AnyOf, VaultValues, FoldStep
<1>3. f \in [s -> Nat] /\ SumOver(f, s) = SumOver(VaultValues(m), s)
  BY SameSum
<1> HIDE DEF f, F
<1>4. iter = CHOOSE g : g = FoldStep(s, f, g)
  BY <1>2
<1>5. iter[s] = SumOver(f, s)
  BY <1>3, <1>4, ChosenFold
<1> QED
  BY <1>1, <1>3, <1>5
\* The same after a step.
LEMMA VaultsSumAfter ==
  ASSUME NEW m, NEW s, IsFiniteSet(s), s \subseteq Assets,
         VaultValues(m)' \in [Assets -> Nat]
  PROVE  VaultsIn(m, s)' = SumOver(VaultValues(m)', s)
<1>1. PICK w \in [Assets -> Nat] : w = VaultValues(m)'
  OBVIOUS
<1> DEFINE f == [x \in s |-> w[x]]
           V(x) == ValueDown(vault[m][x], x)'
           F(g) == [r \in SUBSET s |-> IF r = {} THEN 0 ELSE V(AnyOf(r)) + g[r \ {AnyOf(r)}]]
           iter == CHOOSE g : g = F(g)
<1>2. VaultsIn(m, s)' = iter[s]
  BY DEF VaultsIn, MapThenSumSet, MapThenFoldSet, AnyOf
<1>3. \A g : F(g) = FoldStep(s, f, g)
  BY <1>1 DEF AnyOf, VaultValues, FoldStep
<1>4. f \in [s -> Nat] /\ SumOver(f, s) = SumOver(w, s)
  BY SameSum
<1> HIDE DEF f, F
<1>5. iter = CHOOSE g : g = FoldStep(s, f, g)
  BY <1>3
<1>6. iter[s] = SumOver(f, s)
  BY <1>4, <1>5, ChosenFold
<1> QED
  BY <1>1, <1>2, <1>4, <1>6

\* What an account owes, valued.
DebtValues(m) == [a \in Assets |-> ValueUp(Pool(a)!Owed(m), a)]

\* So is the fold over debts.
LEMMA DebtsSum ==
  ASSUME NEW m, NEW s, IsFiniteSet(s), s \subseteq Assets,
         DebtValues(m) \in [Assets -> Nat]
  PROVE  DebtIn(m, s) = SumOver(DebtValues(m), s)
<1>1. PICK w \in [Assets -> Nat] : w = DebtValues(m)
  OBVIOUS
<1> DEFINE f == [x \in s |-> w[x]]
           V(x) == ValueUp(Pool(x)!Owed(m), x)
           F(g) == [r \in SUBSET s |-> IF r = {} THEN 0 ELSE V(AnyOf(r)) + g[r \ {AnyOf(r)}]]
           iter == CHOOSE g : g = F(g)
<1>2. DebtIn(m, s) = iter[s]
  BY DEF DebtIn, MapThenSumSet, MapThenFoldSet, AnyOf
<1>3. \A x \in s : V(x) = f[x]
  BY <1>1 DEF DebtValues
<1>4. f \in [s -> Nat] /\ SumOver(f, s) = SumOver(w, s)
  BY SameSum
<1> HIDE DEF f, V
<1>5. \A g : F(g) = FoldStep(s, f, g)
  BY <1>3 DEF AnyOf, FoldStep
<1> HIDE DEF F
<1>6. iter = CHOOSE g : g = FoldStep(s, f, g)
  BY <1>5
<1>7. iter[s] = SumOver(f, s)
  BY <1>4, <1>6, ChosenFold
<1> QED
  BY <1>1, <1>2, <1>4, <1>7

\* The same after a step.
LEMMA DebtsSumAfter ==
  ASSUME NEW m, NEW s, IsFiniteSet(s), s \subseteq Assets,
         DebtValues(m)' \in [Assets -> Nat]
  PROVE  DebtIn(m, s)' = SumOver(DebtValues(m)', s)
<1>1. PICK w \in [Assets -> Nat] : w = DebtValues(m)'
  OBVIOUS
<1> DEFINE f == [x \in s |-> w[x]]
           V(x) == ValueUp(Pool(x)!Owed(m), x)'
           F(g) == [r \in SUBSET s |-> IF r = {} THEN 0 ELSE V(AnyOf(r)) + g[r \ {AnyOf(r)}]]
           iter == CHOOSE g : g = F(g)
<1>2. DebtIn(m, s)' = iter[s]
  BY DEF DebtIn, MapThenSumSet, MapThenFoldSet, AnyOf
<1>3. \A x \in s : V(x) = f[x]
  BY <1>1 DEF DebtValues
<1>4. f \in [s -> Nat] /\ SumOver(f, s) = SumOver(w, s)
  BY SameSum
<1> HIDE DEF f, V
<1>5. \A g : F(g) = FoldStep(s, f, g)
  BY <1>3 DEF AnyOf, FoldStep
<1> HIDE DEF F
<1>6. iter = CHOOSE g : g = FoldStep(s, f, g)
  BY <1>5
<1>7. iter[s] = SumOver(f, s)
  BY <1>4, <1>6, ChosenFold
<1> QED
  BY <1>1, <1>2, <1>4, <1>7

\* What a Lite position is worth, and all that a check visits.
LiteValue(m, p) ==
  ValueDown(receipt_value(lite[m][p].receipts, lite[m][p].asset), lite[m][p].asset)

\* So is the fold over the Lite positions that a check visits.
LEMMA LiteSum ==
  ASSUME NEW m, NEW N, IsFiniteSet(LiteVisited(m, N)),
         \A p \in LiteVisited(m, N) : LiteValue(m, p) \in Nat
  PROVE  LiteIn(m, N) = SumOver([p \in LiteVisited(m, N) |-> LiteValue(m, p)], LiteVisited(m, N))
<1>1. PICK s : s = LiteVisited(m, N)
  OBVIOUS
<1>2. PICK f \in [s -> Nat] : f = [p \in s |-> LiteValue(m, p)]
  BY <1>1
<1> DEFINE F(g) == [r \in SUBSET s |-> IF r = {} THEN 0 ELSE LiteValue(m, AnyOf(r)) + g[r \ {AnyOf(r)}]]
           iter == CHOOSE g : g = F(g)
<1>3. LiteIn(m, N) = iter[s]
  BY <1>1 DEF LiteIn, MapThenSumSet, MapThenFoldSet, AnyOf, LiteValue
<1>4. \A g : F(g) = FoldStep(s, f, g)
  BY <1>2 DEF AnyOf, FoldStep
<1> HIDE DEF F
<1>5. iter = CHOOSE g : g = FoldStep(s, f, g)
  BY <1>4
<1>6. iter[s] = SumOver(f, s)
  BY <1>1, <1>5, ChosenFold
<1> QED
  BY <1>1, <1>2, <1>3, <1>6

\* The Lite positions are worth what they were when nothing of theirs changes.
LEMMA SameLite ==
  ASSUME NEW m, UNCHANGED <<liteState, price>>
  PROVE  /\ LiteIn(m, {})' = LiteIn(m, {})
         /\ LiteVisited(m, {})' = LiteVisited(m, {})
         /\ LiteScannable(m, {}, {}) => LiteScannable(m, {}, {})'
<1>1. LiteVisited(m, {})' = LiteVisited(m, {})
  BY DEF LiteVisited, liteState
<1>2. LiteIn(m, {})' = LiteIn(m, {})
  BY DEF LiteIn, LiteVisited, MapThenSumSet, MapThenFoldSet, liteState, receipt_value, ValueDown
<1>3. LiteScannable(m, {}, {}) => LiteScannable(m, {}, {})'
  BY <1>1 DEF LiteScannable, liteState
<1> QED
  BY <1>1, <1>2, <1>3
-----------------------------------------------------------------------------
(* The values are natural numbers *)

\* A vault is worth a natural number.
LEMMA VaultValuesType ==
  ASSUME IInv, NEW m \in Margins
  PROVE  VaultValues(m) \in [Assets -> Nat]
<1>1. ASSUME NEW a \in Assets PROVE ValueDown(vault[m][a], a) \in Nat
  <2>1. vault[m][a] \in Nat /\ price[a] \in Nat /\ Scale \in Nat \ {0}
    BY CrossMarginAssumption, ReserveMathAssumption DEF IInv, Types, U64
  <2> QED
    BY <2>1, FloorBounds DEF ValueDown
<1> QED
  BY <1>1 DEF VaultValues

\* The same after a step.
LEMMA VaultValuesAfter ==
  ASSUME IInv', NEW m \in Margins
  PROVE  VaultValues(m)' \in [Assets -> Nat]
<1>1. ASSUME NEW a \in Assets PROVE ValueDown(vault[m][a], a)' \in Nat
  <2>1. vault'[m][a] \in Nat /\ price'[a] \in Nat /\ Scale \in Nat \ {0}
    BY CrossMarginAssumption, ReserveMathAssumption DEF IInv, Types, U64
  <2> QED
    BY <2>1, FloorBounds DEF ValueDown
<1> QED
  BY <1>1 DEF VaultValues

\* What a position owes at time t is a number, and a position without shares
\* owes nothing.
LEMMA OwedValue ==
  ASSUME NEW r, NEW p, Books(r, p), NEW t \in Nat, r.last_update_timestamp <= t, NEW m \in Margins
  PROVE  LET g    == accrue(r, ReserveConfig, t)
             owed == debt_shares_to_assets_up(p[m], g.total_borrow_shares, g.total_borrow_assets)
         IN  owed \in Nat /\ (p[m] = 0 => owed = 0)
<1> DEFINE S == r.total_borrow_shares
           g == accrue(r, ReserveConfig, t)
           T == g.total_borrow_assets
<1>1. r \in ReserveRecords /\ ReserveConfig \in ConfigRecords
  BY CrossMarginAssumption DEF Books
<1>2. T \in Nat /\ T >= r.total_borrow_assets /\ g.total_borrow_shares = S
  BY <1>1, AccruedDebt
<1>3. p[m] \in Nat /\ p[m] <= S /\ S \in Nat /\ r.total_borrow_assets \in Nat
  BY BooksBound
<1>4. S <= r.total_borrow_assets
  BY DEF Books
<1> HIDE DEF T, S, g
<1>5. S <= T
  BY <1>2, <1>3, <1>4
<1>6. debt_shares_to_assets_up(p[m], S, T) \in Nat
  BY <1>2, <1>3, <1>5, OwedBounds
<1>7. ASSUME p[m] = 0 PROVE debt_shares_to_assets_up(0, S, T) = 0
  <2>1. CASE S = 0
    BY <2>1 DEF debt_shares_to_assets_up
  <2>2. CASE S # 0
    <3>1. 0 * T = 0
      BY <1>2
    <3>2. 0 \div S = 0 /\ 0 % S = 0
      BY <1>3, <2>2
    <3>3. mul_div_ceil(0, T, S) = 0
      BY <3>1, <3>2 DEF mul_div_ceil
    <3> QED
      BY <2>2, <3>3 DEF debt_shares_to_assets_up
  <2> QED
    BY <2>1, <2>2
<1> QED
  BY <1>2, <1>6, <1>7 DEF T, g

\* A debt of nothing is worth nothing, any other debt a natural number.
LEMMA ValueUpType ==
  ASSUME NEW owed \in Nat, NEW p \in Nat
  PROVE  /\ mul_div_ceil(owed, p, Scale) \in Nat
         /\ owed = 0 => mul_div_ceil(owed, p, Scale) = 0
<1>1. Scale \in Nat \ {0}
  BY CrossMarginAssumption
<1>2. mul_div_ceil(owed, p, Scale) \in Nat
  BY <1>1, CeilBounds
<1>3. 0 * p = 0 /\ 0 \div Scale = 0 /\ 0 % Scale = 0
  BY <1>1
<1>4. mul_div_ceil(0, p, Scale) = 0
  BY <1>3 DEF mul_div_ceil
<1> QED
  BY <1>2, <1>4

\* So is a debt, and a position without shares owes nothing.
LEMMA DebtValuesType ==
  ASSUME IInv, Ledger, NEW m \in Margins
  PROVE  /\ DebtValues(m) \in [Assets -> Nat]
         /\ \A a \in Assets : debtShares[m][a] = 0 => DebtValues(m)[a] = 0
<1>1. ASSUME NEW a \in Assets
      PROVE  /\ ValueUp(Pool(a)!Owed(m), a) \in Nat
             /\ debtShares[m][a] = 0 => ValueUp(Pool(a)!Owed(m), a) = 0
  <2>1. Books(reserve[a], SharesOf(a)) /\ reserve[a].last_update_timestamp <= now /\ now \in Nat
    BY DEF Ledger, LedgerTypes, InOrder
  <2>2. SharesOf(a)[m] = debtShares[m][a]
    BY DEF SharesOf
  <2>3. Pool(a)!Owed(m) \in Nat /\ (debtShares[m][a] = 0 => Pool(a)!Owed(m) = 0)
    BY <2>1, <2>2, OwedValue, PoolCurrent, PoolOwed
  <2>4. price[a] \in Nat
    BY DEF IInv, Types
  <2> QED
    BY <2>3, <2>4, ValueUpType DEF ValueUp
<1> QED
  BY <1>1 DEF DebtValues

\* The same after a step.
LEMMA DebtValuesAfter ==
  ASSUME IInv', Ledger', NEW m \in Margins
  PROVE  /\ DebtValues(m)' \in [Assets -> Nat]
         /\ \A a \in Assets : debtShares'[m][a] = 0 => DebtValues(m)'[a] = 0
<1>1. ASSUME NEW a \in Assets
      PROVE  /\ ValueUp(Pool(a)!Owed(m), a)' \in Nat
             /\ debtShares'[m][a] = 0 => ValueUp(Pool(a)!Owed(m), a)' = 0
  <2>1. Books(reserve'[a], SharesOf(a)') /\ reserve'[a].last_update_timestamp <= now' /\ now' \in Nat
    BY DEF Ledger, LedgerTypes, InOrder
  <2>2. SharesOf(a)'[m] = debtShares'[m][a]
    BY DEF SharesOf
  <2>3. Pool(a)!Owed(m)' \in Nat /\ (debtShares'[m][a] = 0 => Pool(a)!Owed(m)' = 0)
    BY <2>1, <2>2, OwedValue, PoolAfter
  <2>4. price'[a] \in Nat
    BY DEF IInv, Types
  <2> QED
    BY <2>3, <2>4, ValueUpType DEF ValueUp
<1> QED
  BY <1>1 DEF DebtValues

\* What a check finds in the Lite positions is a number.
LEMMA LiteInType ==
  ASSUME PoolsInv, NEW m \in Margins, LiteScannable(m, {}, {})
  PROVE  LiteIn(m, {}) \in Nat
<1> DEFINE s == LiteVisited(m, {})
<1>1. s \subseteq DOMAIN lite[m] /\ IsFiniteSet(s)
  <2>1. s \subseteq DOMAIN lite[m]
    BY DEF LiteScannable
  <2>2. DOMAIN lite[m] \subseteq Assets \cup {Legacy}
    BY DEF PoolsInv, LiteTypes, Places
  <2>3. IsFiniteSet(Assets \cup {Legacy})
    BY Finite, FS_AddElement
  <2> QED
    BY <2>1, <2>2, <2>3, FS_Subset
<1>2. ASSUME NEW p \in s PROVE LiteValue(m, p) \in Nat
  <2>1. lite[m][p] \in LiteRecords
    BY <1>1 DEF PoolsInv, LiteTypes
  <2>2. lite[m][p].receipts \in Nat /\ lite[m][p].asset \in Assets
    BY <2>1, ReserveMathAssumption DEF LiteRecords, U64
  <2>3. PICK a \in Assets : a = lite[m][p].asset
    BY <2>2
  <2>4. PICK x \in Nat : x = lite[m][p].receipts
    BY <2>2
  <2>5. rate[a] \in Nat /\ price[a] \in Nat /\ Scale \in Nat \ {0}
    BY CrossMarginAssumption DEF PoolsInv, LiteTypes, IInv, Types
  <2>6. receipt_value(x, a) \in Nat
    <3>1. 100 \in Nat \ {0} /\ rate[a] \in Nat
      BY <2>5
    <3>2. mul_div_floor(x, rate[a], 100) \in Nat
      BY <3>1, FloorBounds
    <3> QED
      BY <3>2 DEF receipt_value
  <2>7. ValueDown(receipt_value(x, a), a) \in Nat
    BY <2>5, <2>6, FloorBounds DEF ValueDown
  <2> QED
    BY <2>3, <2>4, <2>7 DEF LiteValue
<1> DEFINE f == [p \in s |-> LiteValue(m, p)]
<1>3. f \in [s -> Nat]
  BY <1>2
<1>4. LiteIn(m, {}) = SumOver(f, s)
  BY <1>1, <1>2, LiteSum
<1> HIDE DEF f, s
<1>5. SumOver(f, s) \in Nat
  BY <1>1, <1>3, SumType
<1> QED
  BY <1>4, <1>5
-----------------------------------------------------------------------------
(* The account after a step, in terms of the scan before it *)

\* What the invariants say before and after an instruction.
Stepped == PoolsInv /\ PoolsInv' /\ UNCHANGED <<price, now>>

\* A margin instruction meets account m with nothing in its vaults that the
\* registry does not show: such tokens would make what an instruction adds up
\* larger than the account.
Meets(m) == Stepped /\ UNCHANGED liteState /\ Seen(vault[m], collActive[m])

\* And leaves it like that.
Judged(m) == Meets(m) /\ Seen(vault[m], collActive[m])'

\* The collateral of an account when only asset a changes.
LEMMA CollateralAfter ==
  ASSUME NEW m \in Margins, Judged(m), NEW a \in Assets,
         collActive'[m] \ {a} = collActive[m] \ {a},
         \A x \in Assets \ {a} : vault'[m][x] = vault[m][x],
         LiteIn(m, {}) \in Nat
  PROVE  /\ AccountCollateral(m)' = CollateralIn(m, collActive[m] \ {a}) + ValueDown(vault[m][a], a)'
         /\ AccountCollateral(m)' \in Nat
<1>0. PICK C \in SUBSET Assets : C = collActive[m]
  BY DEF Judged, Meets, Stepped, PoolsInv, IInv, Types
<1>1. PICK D \in SUBSET Assets : D = collActive'[m]
  BY DEF Judged, Meets, Stepped, PoolsInv, IInv, Types
<1>2. PICK f \in [Assets -> Nat] : f = VaultValues(m)
  BY VaultValuesType DEF Judged, Meets, Stepped, PoolsInv
<1>3. PICK g \in [Assets -> Nat] : g = VaultValues(m)'
  BY VaultValuesAfter DEF Judged, Meets, Stepped, PoolsInv
<1>4. IsFiniteSet(Assets)
  BY Finite
<1>5. \A x \in Assets \ {a} : g[x] = f[x]
  BY <1>2, <1>3 DEF VaultValues, ValueDown, Judged, Meets, Stepped
<1>6. g[a] = ValueDown(vault[m][a], a)'
  BY <1>3 DEF VaultValues
<1>7. a \notin D => g[a] = 0
  <2>1. SUFFICES ASSUME a \notin D PROVE g[a] = 0
    OBVIOUS
  <2>2. vault'[m][a] = 0
    BY <1>1, <2>1, ReserveMathAssumption DEF Judged, Meets, Stepped, Seen, PoolsInv, IInv, Types, U64
  <2>3. price'[a] \in Nat /\ Scale \in Nat \ {0}
    BY CrossMarginAssumption DEF Judged, Meets, Stepped, PoolsInv, IInv, Types
  <2>4. 0 * price'[a] = 0 /\ 0 \div Scale = 0
    BY <2>3
  <2> QED
    BY <1>6, <2>2, <2>4 DEF ValueDown, mul_div_floor
<1>8. VaultsIn(m, D)' = SumOver(g, D)
  BY <1>1, <1>3, <1>4, FS_Subset, VaultsSumAfter
<1>9. VaultsIn(m, C \ {a}) = SumOver(f, C \ {a})
  BY <1>2, <1>4, FS_Subset, VaultsSum
<1>10. AccountCollateral(m)' = VaultsIn(m, D)' + LiteIn(m, {})
  <2>1. LiteIn(m, {})' = LiteIn(m, {})
    BY SameLite DEF Judged, Meets, Stepped
  <2>2. VaultsIn(m, collActive[m])' = VaultsIn(m, D)'
    BY <1>1 DEF VaultsIn, MapThenSumSet, MapThenFoldSet
  <2> QED
    BY <2>1, <2>2 DEF AccountCollateral, CollateralIn
<1>11. SumOver(g, D) = SumOver(f, C \ {a}) + g[a]
  <2>1. PICK K \in SUBSET Assets : K = C \ {a}
    BY <1>0
  <2>2. Revalued(Assets, f, g, K, D, {a})
    BY <1>0, <1>1, <1>2, <1>3, <1>4, <1>5, <1>7, <2>1 DEF Revalued
  <2>3. SumOver(g, D) = SumOver(f, K) + g[a]
    BY <2>2, OneRevalued
  <2> QED
    BY <2>1, <2>3
<1>12. SumOver(f, C \ {a}) \in Nat /\ g[a] \in Nat
  BY <1>4, SumType
<1>13. CollateralIn(m, C \ {a}) = SumOver(f, C \ {a}) + LiteIn(m, {})
  BY <1>9 DEF CollateralIn
<1>14. PICK i \in Nat, j \in Nat, k \in Nat :
         i = SumOver(f, C \ {a}) /\ j = g[a] /\ k = LiteIn(m, {})
  BY <1>12
<1>15. AccountCollateral(m)' = (i + j) + k
  BY <1>8, <1>10, <1>11, <1>14
<1>16. CollateralIn(m, C \ {a}) + ValueDown(vault[m][a], a)' = (i + k) + j
  BY <1>6, <1>13, <1>14
<1>17. (i + j) + k = (i + k) + j /\ (i + j) + k \in Nat
  OBVIOUS
<1> QED
  BY <1>0, <1>15, <1>16, <1>17
\* The same when two assets change.
LEMMA CollateralAfterTwo ==
  ASSUME NEW m \in Margins, Judged(m), NEW a \in Assets, NEW b \in Assets, a # b,
         collActive'[m] \ {a, b} = collActive[m] \ {a, b},
         \A x \in Assets \ {a, b} : vault'[m][x] = vault[m][x],
         LiteIn(m, {}) \in Nat
  PROVE  /\ AccountCollateral(m)' = CollateralIn(m, collActive[m] \ {a, b})
              + ValueDown(vault[m][a], a)' + ValueDown(vault[m][b], b)'
         /\ AccountCollateral(m)' \in Nat
<1>0. PICK C \in SUBSET Assets : C = collActive[m]
  BY DEF Judged, Meets, Stepped, PoolsInv, IInv, Types
<1>1. PICK D \in SUBSET Assets : D = collActive'[m]
  BY DEF Judged, Meets, Stepped, PoolsInv, IInv, Types
<1>2. PICK f \in [Assets -> Nat] : f = VaultValues(m)
  BY VaultValuesType DEF Judged, Meets, Stepped, PoolsInv
<1>3. PICK g \in [Assets -> Nat] : g = VaultValues(m)'
  BY VaultValuesAfter DEF Judged, Meets, Stepped, PoolsInv
<1>4. IsFiniteSet(Assets)
  BY Finite
<1>5. \A x \in Assets \ {a, b} : g[x] = f[x]
  BY <1>2, <1>3 DEF VaultValues, ValueDown, Judged, Meets, Stepped
<1>6. g[a] = ValueDown(vault[m][a], a)' /\ g[b] = ValueDown(vault[m][b], b)'
  BY <1>3 DEF VaultValues
<1>7. \A x \in Assets : x \notin D => g[x] = 0
  <2>1. SUFFICES ASSUME NEW x \in Assets, x \notin D PROVE g[x] = 0
    OBVIOUS
  <2>2. vault'[m][x] = 0
    BY <1>1, <2>1, ReserveMathAssumption DEF Judged, Meets, Stepped, Seen, PoolsInv, IInv, Types, U64
  <2>3. price'[x] \in Nat /\ Scale \in Nat \ {0}
    BY CrossMarginAssumption DEF Judged, Meets, Stepped, PoolsInv, IInv, Types
  <2>4. 0 * price'[x] = 0 /\ 0 \div Scale = 0
    BY <2>3
  <2> QED
    BY <1>3, <2>2, <2>4 DEF VaultValues, ValueDown, mul_div_floor
<1>8. VaultsIn(m, D)' = SumOver(g, D)
  BY <1>1, <1>3, <1>4, FS_Subset, VaultsSumAfter
<1>9. VaultsIn(m, C \ {a, b}) = SumOver(f, C \ {a, b})
  BY <1>2, <1>4, FS_Subset, VaultsSum
<1>10. AccountCollateral(m)' = VaultsIn(m, D)' + LiteIn(m, {})
  <2>1. LiteIn(m, {})' = LiteIn(m, {})
    BY SameLite DEF Judged, Meets, Stepped
  <2>2. VaultsIn(m, collActive[m])' = VaultsIn(m, D)'
    BY <1>1 DEF VaultsIn, MapThenSumSet, MapThenFoldSet
  <2> QED
    BY <2>1, <2>2 DEF AccountCollateral, CollateralIn
<1>11. SumOver(g, D) = SumOver(f, C \ {a, b}) + g[a] + g[b]
  <2>1. PICK K \in SUBSET Assets : K = C \ {a, b}
    BY <1>0
  <2>2. Revalued(Assets, f, g, K, D, {a, b})
    BY <1>0, <1>1, <1>2, <1>3, <1>4, <1>5, <1>7, <2>1 DEF Revalued
  <2>3. SumOver(g, D) = SumOver(f, K) + g[a] + g[b]
    BY <2>2, TwoRevalued
  <2> QED
    BY <2>1, <2>3
<1>12. SumOver(f, C \ {a, b}) \in Nat /\ g[a] \in Nat /\ g[b] \in Nat
  BY <1>4, SumType
<1>13. CollateralIn(m, C \ {a, b}) = SumOver(f, C \ {a, b}) + LiteIn(m, {})
  BY <1>9 DEF CollateralIn
<1>14. PICK i \in Nat, j \in Nat, h \in Nat, k \in Nat :
         i = SumOver(f, C \ {a, b}) /\ j = g[a] /\ h = g[b] /\ k = LiteIn(m, {})
  BY <1>12
<1>15. AccountCollateral(m)' = (i + j + h) + k
  BY <1>8, <1>10, <1>11, <1>14
<1>16. CollateralIn(m, C \ {a, b}) + ValueDown(vault[m][a], a)' + ValueDown(vault[m][b], b)'
         = (i + k) + j + h
  BY <1>6, <1>13, <1>14
<1>17. (i + j + h) + k = (i + k) + j + h /\ (i + j + h) + k \in Nat
  OBVIOUS
<1> QED
  BY <1>0, <1>15, <1>16, <1>17

\* What a position owes is judged by the reserve and the shares alone.
LEMMA SameOwed ==
  ASSUME NEW m \in Margins, NEW a \in Assets, now' = now,
         reserve'[a] = reserve[a], debtShares'[m][a] = debtShares[m][a]
  PROVE  /\ Pool(a)!Owed(m)' = Pool(a)!Owed(m)
         /\ Pool(a)!AccrualOK => Pool(a)!AccrualOK'
<1>1. Pool(a)!Current' = Pool(a)!Current
  BY PoolCurrent, PoolAfter
<1>2. Pool(a)!Owed(m)' = Pool(a)!Owed(m)
  BY <1>1, PoolOwed, PoolAfter
<1>3. Pool(a)!AccrualOK => Pool(a)!AccrualOK'
  BY DEF Pool!AccrualOK
<1> QED
  BY <1>2, <1>3

\* The debt of an account when only its position in asset d changes.
LEMMA DebtAfter ==
  ASSUME Stepped, NEW m \in Margins, NEW d \in Assets,
         debtActive'[m] \ {d} = debtActive[m] \ {d},
         \A x \in Assets \ {d} : /\ reserve'[x] = reserve[x]
                                 /\ debtShares'[m][x] = debtShares[m][x]
  PROVE  /\ AccountDebt(m)' = DebtIn(m, debtActive[m] \ {d}) + ValueUp(Pool(d)!Owed(m), d)'
         /\ AccountDebt(m)' \in Nat
<1>0. PICK C \in SUBSET Assets : C = debtActive[m]
  BY DEF Stepped, PoolsInv, IInv, Types
<1>1. PICK D \in SUBSET Assets : D = debtActive'[m]
  BY DEF Stepped, PoolsInv, IInv, Types
<1>2. PICK f \in [Assets -> Nat] : f = DebtValues(m)
  BY DebtValuesType DEF Stepped, PoolsInv
<1>3. PICK g \in [Assets -> Nat] :
        g = DebtValues(m)' /\ \A x \in Assets : debtShares'[m][x] = 0 => g[x] = 0
  BY DebtValuesAfter DEF Stepped, PoolsInv
<1>4. IsFiniteSet(Assets)
  BY Finite
<1>5. \A x \in Assets \ {d} : g[x] = f[x]
  <2>1. SUFFICES ASSUME NEW x \in Assets \ {d} PROVE g[x] = f[x]
    OBVIOUS
  <2>2. Pool(x)!Owed(m)' = Pool(x)!Owed(m)
    BY SameOwed DEF Stepped
  <2> QED
    BY <1>2, <1>3, <2>2 DEF DebtValues, ValueUp, Stepped
<1>6. g[d] = ValueUp(Pool(d)!Owed(m), d)'
  BY <1>3 DEF DebtValues
<1>7. d \notin D => g[d] = 0
  BY <1>1, <1>3 DEF Stepped, PoolsInv, IInv, DebtsListed
<1>8. DebtIn(m, D)' = SumOver(g, D)
  BY <1>1, <1>3, <1>4, FS_Subset, DebtsSumAfter
<1>9. DebtIn(m, C \ {d}) = SumOver(f, C \ {d})
  BY <1>2, <1>4, FS_Subset, DebtsSum
<1>10. AccountDebt(m)' = DebtIn(m, D)'
  BY <1>1 DEF AccountDebt, DebtIn, MapThenSumSet, MapThenFoldSet
<1>11. SumOver(g, D) = SumOver(f, C \ {d}) + g[d]
  <2>1. PICK K \in SUBSET Assets : K = C \ {d}
    BY <1>0
  <2>2. Revalued(Assets, f, g, K, D, {d})
    BY <1>0, <1>1, <1>2, <1>3, <1>4, <1>5, <1>7, <2>1 DEF Revalued
  <2>3. SumOver(g, D) = SumOver(f, K) + g[d]
    BY <2>2, OneRevalued
  <2> QED
    BY <2>1, <2>3
<1>12. SumOver(f, C \ {d}) \in Nat /\ g[d] \in Nat
  BY <1>4, SumType
<1>13. AccountDebt(m)' = SumOver(f, C \ {d}) + g[d]
  BY <1>8, <1>10, <1>11
<1>14. AccountDebt(m)' = DebtIn(m, C \ {d}) + ValueUp(Pool(d)!Owed(m), d)'
  BY <1>6, <1>9, <1>13
<1>15. AccountDebt(m)' \in Nat
  BY <1>12, <1>13
<1> QED
  BY <1>0, <1>14, <1>15

\* No debt changes.
LEMMA SameDebt ==
  ASSUME Stepped, NEW m \in Margins, UNCHANGED <<reserve, debtShares, debtActive>>
  PROVE  AccountDebt(m)' = AccountDebt(m) /\ AccountDebt(m) \in Nat
<1>1. PICK f \in [Assets -> Nat] : f = DebtValues(m)
  BY DebtValuesType DEF Stepped, PoolsInv
<1>2. PICK g \in [Assets -> Nat] : g = DebtValues(m)'
  BY DebtValuesAfter DEF Stepped, PoolsInv
<1>3. PICK D \in SUBSET Assets : D = debtActive[m] /\ D = debtActive'[m] /\ IsFiniteSet(D)
  BY Finite, FS_Subset DEF Stepped, PoolsInv, IInv, Types
<1>4. \A x \in D : g[x] = f[x]
  <2>1. SUFFICES ASSUME NEW x \in Assets PROVE g[x] = f[x]
    OBVIOUS
  <2>2. Pool(x)!Owed(m)' = Pool(x)!Owed(m)
    BY SameOwed DEF Stepped
  <2> QED
    BY <1>1, <1>2, <2>2 DEF DebtValues, ValueUp, Stepped
<1>5. DebtIn(m, D) = SumOver(f, D) /\ DebtIn(m, D)' = SumOver(g, D)
  BY <1>1, <1>2, <1>3, DebtsSum, DebtsSumAfter
<1>6. AccountDebt(m)' = DebtIn(m, D)' /\ AccountDebt(m) = DebtIn(m, D)
  BY <1>3 DEF AccountDebt, DebtIn, MapThenSumSet, MapThenFoldSet
<1>7. SumOver(g, D) = SumOver(f, D) /\ SumOver(f, D) \in Nat
  BY <1>3, <1>4, Finite, SameSum, SumType
<1> QED
  BY <1>5, <1>6, <1>7
-----------------------------------------------------------------------------
(* Every instruction that lets an owner take something out *)

\* A check of the whole account finds what it needs when prices and accruals
\* are in order for every slot.
LEMMA ScannableAfter ==
  ASSUME NEW m \in Margins, Meets(m), LiteScannable(m, {}, {}),
         \A a \in collActive'[m] : price[a] > 0,
         \A a \in debtActive'[m] : price[a] > 0 /\ Pool(a)!AccrualOK'
  PROVE  Scannable(m, {}, {})'
<1>1. LiteScannable(m, {}, {})'
  BY SameLite DEF Meets, Stepped
<1>2. price' = price
  BY DEF Meets, Stepped
<1>3. SlotsScannable(m, {}, {})'
  BY <1>2 DEF SlotsScannable
<1> QED
  BY <1>1, <1>3 DEF Scannable

\* The account is healthy after the step when it is scannable and the values are
\* those that were judged.
LEMMA HealthyAfter ==
  ASSUME NEW m \in Margins, NEW c, NEW d, Scannable(m, {}, {})',
         AccountCollateral(m)' = c, AccountDebt(m)' = d, Healthy(c, d)
  PROVE  AccountHealthy(m)'
BY DEF AccountHealthy, Healthy, HealthFactor, mul_div_floor

\* A withdrawal judges the vault without the tokens.
LEMMA WithdrawHealthy ==
  ASSUME NEW m \in Margins, Meets(m), NEW a \in Assets, NEW x \in Amounts,
         user_withdraw_collateral(m, a, x)
  PROVE  AccountHealthy(m)'
<1> DEFINE left == vault[m][a] - x
<1>0. Stepped
  BY DEF Meets
<1>1. /\ Scannable(m, {a}, {}) /\ price[a] > 0
      /\ Healthy(CollateralIn(m, collActive[m] \ {a}) + ValueDown(left, a),
                 DebtIn(m, debtActive[m]))
      /\ vault' = [vault EXCEPT ![m][a] = left]
      /\ collActive' = IF left = 0 THEN [collActive EXCEPT ![m] = @ \ {a}] ELSE collActive
      /\ UNCHANGED <<world, pools, exists, debtAccounts, debtShares, debtActive>>
  BY DEF user_withdraw_collateral
<1>2. /\ vault \in [Margins -> [Assets -> U64]] /\ collActive \in [Margins -> SUBSET Assets]
      /\ price' = price /\ now' = now
  BY DEF Meets, Stepped, PoolsInv, IInv, Types
<1>3. /\ vault'[m][a] = left /\ \A y \in Assets \ {a} : vault'[m][y] = vault[m][y]
      /\ collActive'[m] \ {a} = collActive[m] \ {a} /\ collActive'[m] \subseteq collActive[m]
  <2> HIDE DEF left
  <2> QED
    BY <1>1, <1>2
<1> HIDE DEF left
<1>s. Judged(m)
  <2>1. \A b \in Assets : vault[m][b] > 0 => b \in collActive[m]
    BY DEF Meets, Seen
  <2>2. left > 0 => a \in collActive[m] /\ left # 0
    BY <1>2, <2>1, CrossMarginAssumption, ReserveMathAssumption DEF U64, left
  <2>3. left # 0 => collActive' = collActive
    BY <1>1
  <2>4. \A b \in Assets \ {a} : b \in collActive[m] => b \in collActive'[m]
    BY <1>3
  <2>5. \A b \in Assets : vault'[m][b] > 0 => b \in collActive'[m]
    BY <1>3, <2>1, <2>2, <2>3, <2>4
  <2> QED
    BY <2>5 DEF Judged, Seen
<1>4. LiteScannable(m, {}, {}) /\ LiteIn(m, {}) \in Nat
  BY <1>1, LiteInType DEF Scannable, Meets, Stepped
<1>5. AccountCollateral(m)' = CollateralIn(m, collActive[m] \ {a}) + ValueDown(left, a)
  <2>1. ValueDown(vault[m][a], a)' = ValueDown(left, a)
    BY <1>2, <1>3 DEF ValueDown
  <2> QED
    BY <1>3, <1>4, <2>1, <1>s, CollateralAfter
<1>6. AccountDebt(m)' = DebtIn(m, debtActive[m])
  <2>1. UNCHANGED <<reserve, debtShares, debtActive>>
    BY <1>1 DEF pools
  <2> QED
    BY <1>0, <2>1, SameDebt DEF AccountDebt
<1>7. Scannable(m, {}, {})'
  <2>1. \A b \in collActive'[m] : price[b] > 0
    BY <1>1, <1>3 DEF Scannable, SlotsScannable
  <2>2. ASSUME NEW b \in debtActive'[m] PROVE price[b] > 0 /\ Pool(b)!AccrualOK'
    <3>1. b \in debtActive[m] /\ b \in Assets
      BY <1>1, <2>2 DEF Meets, Stepped, PoolsInv, IInv, Types
    <3>2. price[b] > 0 /\ Pool(b)!AccrualOK
      BY <1>1, <3>1 DEF Scannable, SlotsScannable
    <3>3. now' = now /\ reserve'[b] = reserve[b] /\ debtShares'[m][b] = debtShares[m][b]
      BY <1>1, <1>2 DEF pools
    <3> QED
      BY <3>1, <3>2, <3>3, SameOwed
  <2> QED
    BY <1>4, <2>1, <2>2, ScannableAfter
<1> QED
  BY <1>1, <1>5, <1>6, <1>7, HealthyAfter
\* A swap judges both vaults as it leaves them.
LEMMA SwapHealthyAfter ==
  ASSUME NEW m \in Margins, Meets(m), NEW i \in Assets, NEW o \in Assets,
         NEW x \in Amounts, NEW out \in Amounts, user_margin_swap(m, i, o, x, out)
  PROVE  AccountHealthy(m)'
<1> DEFINE left   == vault[m][i] - x
           gained == vault[m][o] + Pool(o)!Delivered(out)
           C == collActive[m]
<1>0. Stepped
  BY DEF Meets
<1>1. /\ i # o /\ i \in collActive[m]
      /\ SwapHealthy(m, i, o, left, gained)
      /\ SwapSlots(m, i, o, left)
      /\ vault' = [vault EXCEPT ![m][i] = left, ![m][o] = gained]
      /\ UNCHANGED <<world, pools, exists, debtAccounts, debtShares, debtActive>>
  BY DEF user_margin_swap
<1> HIDE DEF left, gained
<1>2. /\ Scannable(m, {i}, {}) /\ price[i] > 0 /\ (o \notin C => price[o] > 0)
      /\ Healthy(CollateralIn(m, C \ {i, o}) + ValueDown(left, i) + ValueDown(gained, o),
                 DebtIn(m, debtActive[m]))
  BY <1>1 DEF SwapHealthy
<1>3. /\ vault \in [Margins -> [Assets -> U64]] /\ collActive \in [Margins -> SUBSET Assets]
      /\ price' = price /\ now' = now
  BY DEF Meets, Stepped, PoolsInv, IInv, Types
<1>4. /\ vault'[m][i] = left /\ vault'[m][o] = gained
      /\ \A y \in Assets \ {i, o} : vault'[m][y] = vault[m][y]
  BY <1>1, <1>3
<1>5. C \ {i, o} = collActive'[m] \ {i, o} /\ collActive'[m] \subseteq C \cup {o}
  BY <1>1, <1>3 DEF SwapSlots
<1>s. Judged(m)
  <2>1. \A b \in Assets : vault[m][b] > 0 => b \in collActive[m]
    BY DEF Meets, Seen
  <2>2. collActive'[m] = (IF left = 0 THEN C \ {i} ELSE C) \cup {o}
    BY <1>1, <1>3 DEF SwapSlots
  <2>3. left > 0 => left # 0
    OBVIOUS
  <2>4. vault'[m][i] > 0 => i \in collActive'[m]
    BY <1>1, <1>4, <2>2, <2>3
  <2>5. \A b \in Assets \ {i} : vault'[m][b] > 0 => b \in collActive'[m]
    BY <1>4, <2>1, <2>2
  <2> QED
    BY <2>4, <2>5 DEF Judged, Seen
<1>6. LiteScannable(m, {}, {}) /\ LiteIn(m, {}) \in Nat
  BY <1>2, LiteInType DEF Scannable, Meets, Stepped
<1>7. AccountCollateral(m)' = CollateralIn(m, C \ {i, o}) + ValueDown(left, i) + ValueDown(gained, o)
  <2>1. ValueDown(vault[m][i], i)' = ValueDown(left, i) /\ ValueDown(vault[m][o], o)' = ValueDown(gained, o)
    BY <1>3, <1>4 DEF ValueDown
  <2>2. collActive'[m] \ {i, o} = collActive[m] \ {i, o}
    BY <1>5
  <2>3. AccountCollateral(m)' = CollateralIn(m, collActive[m] \ {i, o})
          + ValueDown(vault[m][i], i)' + ValueDown(vault[m][o], o)'
    BY Zenon, <1>1, <1>4, <1>6, <2>2, <1>s, CollateralAfterTwo
  <2> QED
    BY <2>1, <2>3
<1>8. AccountDebt(m)' = DebtIn(m, debtActive[m])
  <2>1. UNCHANGED <<reserve, debtShares, debtActive>>
    BY <1>1 DEF pools
  <2> QED
    BY <1>0, <2>1, SameDebt DEF AccountDebt
<1>9. Scannable(m, {}, {})'
  <2>1. \A b \in collActive'[m] : price[b] > 0
    BY <1>2, <1>5 DEF Scannable, SlotsScannable
  <2>2. ASSUME NEW b \in debtActive'[m] PROVE price[b] > 0 /\ Pool(b)!AccrualOK'
    <3>1. b \in debtActive[m] /\ b \in Assets
      BY <1>1, <2>2 DEF Meets, Stepped, PoolsInv, IInv, Types
    <3>2. price[b] > 0 /\ Pool(b)!AccrualOK
      BY <1>2, <3>1 DEF Scannable, SlotsScannable
    <3>3. now' = now /\ reserve'[b] = reserve[b] /\ debtShares'[m][b] = debtShares[m][b]
      BY <1>1, <1>3 DEF pools
    <3> QED
      BY <3>1, <3>2, <3>3, SameOwed
  <2> QED
    BY <1>6, <2>1, <2>2, ScannableAfter
<1> QED
  BY <1>2, <1>7, <1>8, <1>9, HealthyAfter

\* What a pool says right after its interest was counted.
LEMMA FreshPool ==
  ASSUME Ledger', NEW a \in Assets, NEW m \in Margins, reserve'[a].last_update_timestamp = now'
  PROVE  /\ Pool(a)!AccrualOK'
         /\ Pool(a)!Owed(m)' =
              debt_shares_to_assets_up(debtShares'[m][a], reserve'[a].total_borrow_shares,
                                       reserve'[a].total_borrow_assets)
<1>1. reserve'[a] \in ReserveRecords /\ now' \in Nat
  BY DEF Ledger, LedgerTypes
<1>2. PICK r \in ReserveRecords : r = reserve'[a]
  BY <1>1
<1>3. PICK t \in Nat : t = now'
  BY <1>1
<1>4. accrue(r, ReserveConfig, t) = r
  BY <1>2, <1>3, AccruedOnce
<1>5. AccrualSucceeds(r, ReserveConfig, t)
  <2>1. r.total_borrow_assets \in U64 /\ r.accrued_protocol_fees \in U64 /\ r.last_update_timestamp = t
    BY <1>2, <1>3 DEF ReserveRecords
  <2> QED
    BY <1>3, <1>4, <2>1 DEF AccrualSucceeds
<1>6. \A q, c, s : Pool(a)!AccrualSucceeds(q, c, s) <=> AccrualSucceeds(q, c, s)
  BY PoolAccrue DEF Pool!AccrualSucceeds, AccrualSucceeds, Pool!U64, U64
<1>7. Pool(a)!AccrualOK'
  BY <1>2, <1>3, <1>5, <1>6 DEF Pool!AccrualOK
<1>8. Pool(a)!Current' = reserve'[a]
  BY <1>2, <1>3, <1>4, PoolAfter
<1> QED
  BY <1>7, <1>8, PoolAfter

\* A move of one reserve and one position that counts the interest: the debt of
\* the account is that of the other slots and what is left of this one.
LEMMA DebtAfterMove ==
  ASSUME Stepped, NEW m \in Margins, NEW d \in Assets, NEW r, NEW k \in Nat,
         NEW D \in SUBSET Assets, NEW O, Moved(m, d, r, k, D, O),
         D \ {d} = debtActive[m] \ {d}, r.last_update_timestamp = now
  PROVE  /\ AccountDebt(m)' = DebtIn(m, debtActive[m] \ {d})
              + ValueUp(debt_shares_to_assets_up(k, r.total_borrow_shares, r.total_borrow_assets), d)
         /\ AccountDebt(m)' \in Nat
         /\ debtActive'[m] = D /\ Pool(d)!AccrualOK'
         /\ \A b \in Assets \ {d} : Pool(b)!AccrualOK => Pool(b)!AccrualOK'
<1>1. /\ reserve \in [Assets -> ReserveRecords]
      /\ debtShares \in [Margins -> [Assets -> Nat]]
      /\ debtActive \in [Margins -> SUBSET Assets]
      /\ price' = price /\ now' = now /\ Ledger'
  BY DEF Stepped, PoolsInv, Ledger, LedgerTypes
<1>2. /\ reserve'[d] = r /\ debtShares'[m][d] = k /\ debtActive'[m] = D
      /\ \A x \in Assets \ {d} : /\ reserve'[x] = reserve[x]
                                 /\ debtShares'[m][x] = debtShares[m][x]
  BY <1>1 DEF Moved
<1>3. /\ Pool(d)!AccrualOK'
      /\ Pool(d)!Owed(m)' = debt_shares_to_assets_up(k, r.total_borrow_shares, r.total_borrow_assets)
  BY <1>1, <1>2, FreshPool
<1>4. /\ AccountDebt(m)' = DebtIn(m, debtActive[m] \ {d}) + ValueUp(Pool(d)!Owed(m), d)'
      /\ AccountDebt(m)' \in Nat
  BY <1>2, DebtAfter
<1>5. ValueUp(Pool(d)!Owed(m), d)' =
        ValueUp(debt_shares_to_assets_up(k, r.total_borrow_shares, r.total_borrow_assets), d)
  BY <1>1, <1>3 DEF ValueUp
<1>6. \A b \in Assets \ {d} : Pool(b)!AccrualOK => Pool(b)!AccrualOK'
  BY <1>1, <1>2, SameOwed
<1> QED
  BY <1>2, <1>3, <1>4, <1>5, <1>6
\* The debt after a loan is the one that the check of the loan adds up.
LEMMA LoanDebt ==
  ASSUME Stepped, NEW m \in Margins, NEW a \in Assets, NEW x \in Amounts, NEW B,
         LoanAllowed(a, x), TakeLoan(m, a, x, B),
         opened' = [opened EXCEPT ![m] = @ \cup {a}]
  PROVE  /\ AccountDebt(m)' = DebtIn(m, debtActive[m] \ {a}) + ValueUp(Loan(m, a, x).owed, a)
         /\ debtActive'[m] = debtActive[m] \cup {a} /\ Pool(a)!AccrualOK'
         /\ \A b \in Assets \ {a} : Pool(b)!AccrualOK => Pool(b)!AccrualOK'
<1> DEFINE loan == Loan(m, a, x)
           D == debtActive[m] \cup {a}
<1>1. Ledger /\ now' = now
  BY DEF Stepped, PoolsInv
<1>2. Moved(m, a, loan.reserve, loan.position, D, opened[m] \cup {a})
  BY <1>1, LoanLedger
<1>3. /\ x \in Nat \ {0} /\ Pool(a)!AccrualOK
      /\ x <= Pool(a)!Current.accounted_liquidity_assets
      /\ Pool(a)!Current.total_borrow_assets + x \in U64
  BY CrossMarginAssumption DEF LoanAllowed, LendingOpen, U64
<1>4. loan.position \in Nat /\ loan.reserve.last_update_timestamp = now
  BY <1>1, <1>3, LoanBooks
<1>5. loan.owed = debt_shares_to_assets_up(loan.position, loan.reserve.total_borrow_shares,
                                           loan.reserve.total_borrow_assets)
  BY DEF Loan
<1>6. D \in SUBSET Assets /\ D \ {a} = debtActive[m] \ {a}
  BY DEF Stepped, PoolsInv, Ledger, LedgerTypes
<1>7. PICK r, k, E, O :
        r = loan.reserve /\ k = loan.position /\ E = D /\ O = opened[m] \cup {a}
  OBVIOUS
<1> HIDE DEF loan, D
<1>8. /\ k \in Nat /\ E \in SUBSET Assets
      /\ Moved(m, a, r, k, E, O) /\ r.last_update_timestamp = now /\ E \ {a} = debtActive[m] \ {a}
  BY <1>2, <1>4, <1>6, <1>7
<1>9. /\ AccountDebt(m)' = DebtIn(m, debtActive[m] \ {a})
           + ValueUp(debt_shares_to_assets_up(k, r.total_borrow_shares, r.total_borrow_assets), a)
      /\ debtActive'[m] = E /\ Pool(a)!AccrualOK'
      /\ \A b \in Assets \ {a} : Pool(b)!AccrualOK => Pool(b)!AccrualOK'
  BY <1>8, DebtAfterMove
<1> QED
  BY <1>5, <1>7, <1>9 DEF loan, D

\* With every asset accepted as collateral the borrowed tokens count.
LEMMA LoanCounts ==
  ASSUME Stepped, ProgramOnly, NEW m \in Margins, NEW a \in Assets, NEW x
  PROVE  LoanAsCollateral(m, a, x) = ValueDown(vault[m][a] + x, a)
<1>1. assetConf[a].collateral_enabled
  BY DEF Stepped, PoolsInv, IInv, Types, ProgramOnly
<1> QED
  BY <1>1 DEF LoanAsCollateral

\* With every asset accepted as collateral a loan leaves the asset in a slot.
LEMMA LoanSlot ==
  ASSUME ProgramOnly, IInv, NEW m \in Margins, NEW a \in Assets, NEW x, NEW B \in SUBSET Assets,
         TakeLoan(m, a, x, B), Seen(vault[m], B)
  PROVE  collActive'[m] = B \cup {a}
<1>1. assetConf[a].collateral_enabled /\ collActive \in [Margins -> SUBSET Assets]
  BY DEF IInv, Types, ProgramOnly
<1>2. vault[m][a] = 0 \/ a \in B
  BY ReserveMathAssumption DEF IInv, Types, U64, Seen
<1>3. collActive'[m] = IF vault[m][a] = 0 /\ assetConf[a].collateral_enabled THEN B \cup {a} ELSE B
  BY <1>1 DEF TakeLoan
<1> QED
  BY <1>1, <1>2, <1>3

\* A loan judges the vault with the tokens and the position with the new shares.
LEMMA BorrowHealthy ==
  ASSUME NoFees, ProgramOnly, NEW m \in Margins, Meets(m), NEW a \in Assets, NEW x \in Amounts,
         user_borrow(m, a, x)
  PROVE  AccountHealthy(m)'
<1> DEFINE filled == vault[m][a] + x
           owed == Loan(m, a, x).owed
<1>0. Stepped
  BY DEF Meets
<1>1. /\ a \in opened[m] /\ LoanAllowed(a, x)
      /\ Scannable(m, {a}, {a}) /\ price[a] > 0
      /\ Healthy(CollateralIn(m, collActive[m] \ {a}) + LoanAsCollateral(m, a, x),
                 DebtIn(m, debtActive[m] \ {a}) + ValueUp(owed, a))
      /\ TakeLoan(m, a, x, collActive[m])
      /\ vault' = [vault EXCEPT ![m][a] = @ + Pool(a)!Delivered(x)]
      /\ UNCHANGED <<world, exists, debtAccounts>>
  BY DEF user_borrow
<1>2. /\ vault \in [Margins -> [Assets -> U64]] /\ collActive \in [Margins -> SUBSET Assets]
      /\ price' = price /\ opened \in [Margins -> SUBSET Assets]
  BY DEF Meets, Stepped, PoolsInv, IInv, Types, Ledger, LedgerTypes
<1>3. Pool(a)!Delivered(x) = x
  BY CrossMarginAssumption, DeliveredType
<1>4. /\ vault'[m][a] = filled /\ \A y \in Assets \ {a} : vault'[m][y] = vault[m][y]
  BY <1>1, <1>2, <1>3
<1>5. /\ collActive'[m] \ {a} = collActive[m] \ {a} /\ collActive'[m] \subseteq collActive[m] \cup {a}
  BY <1>1, <1>2 DEF TakeLoan
<1>s. Judged(m)
  <2>1. \A b \in Assets : vault[m][b] > 0 => b \in collActive[m]
    BY DEF Meets, Seen
  <2>2. collActive'[m] = collActive[m] \cup {a}
    BY <1>1, <1>2, LoanSlot DEF Meets, Stepped, PoolsInv
  <2>3. \A b \in Assets : vault'[m][b] > 0 => b \in collActive'[m]
    BY <1>4, <2>1, <2>2
  <2> QED
    BY <2>3 DEF Judged, Seen
<1>6. LiteScannable(m, {}, {}) /\ LiteIn(m, {}) \in Nat
  BY <1>1, LiteInType DEF Scannable, Meets, Stepped
<1>7. AccountCollateral(m)' = CollateralIn(m, collActive[m] \ {a}) + LoanAsCollateral(m, a, x)
  <2>1. ValueDown(vault[m][a], a)' = ValueDown(filled, a)
    BY <1>2, <1>4 DEF ValueDown
  <2>2. AccountCollateral(m)' = CollateralIn(m, collActive[m] \ {a}) + ValueDown(vault[m][a], a)'
    BY <1>4, <1>5, <1>6, <1>s, CollateralAfter
  <2> QED
    BY <2>1, <2>2, <1>0, LoanCounts
<1> HIDE DEF filled, owed
<1>8. /\ AccountDebt(m)' = DebtIn(m, debtActive[m] \ {a}) + ValueUp(owed, a)
      /\ debtActive'[m] = debtActive[m] \cup {a} /\ Pool(a)!AccrualOK'
      /\ \A b \in Assets \ {a} : Pool(b)!AccrualOK => Pool(b)!AccrualOK'
  <2>1. opened' = [opened EXCEPT ![m] = @ \cup {a}]
    BY <1>1, <1>2 DEF debtAccounts
  <2> QED
    BY <1>1, <2>1, <1>0, LoanDebt DEF owed
<1>9. Scannable(m, {}, {})'
  <2>1. \A b \in collActive'[m] : price[b] > 0
    BY <1>1, <1>5 DEF Scannable, SlotsScannable
  <2>2. \A b \in debtActive'[m] : price[b] > 0 /\ Pool(b)!AccrualOK'
    <3>1. \A b \in debtActive[m] \ {a} : b \in Assets /\ price[b] > 0 /\ Pool(b)!AccrualOK
      BY <1>1 DEF Scannable, SlotsScannable, Meets, Stepped, PoolsInv, IInv, Types
    <3> QED
      BY <1>1, <1>8, <3>1
  <2> QED
    BY <1>6, <2>1, <2>2, ScannableAfter
<1> QED
  BY <1>1, <1>7, <1>8, <1>9, HealthyAfter

\* The composite judges the deposited vault, that of the loan and the position.
\* The vault of the loan is counted once when it had no slot before.
LEMMA CompositeHealthyAfter ==
  ASSUME NoFees, ProgramOnly, NEW m \in Margins, Meets(m), NEW c \in Assets, NEW a \in Assets,
         NEW x \in Amounts, NEW y \in Amounts, user_deposit_and_borrow(m, c, a, x, y),
         a \notin collActive[m]
  PROVE  AccountHealthy(m)'
<1> DEFINE deposited == vault[m][c] + Pool(c)!Delivered(x)
           filled == vault[m][a] + y
           owed == Loan(m, a, y).owed
<1>0. Stepped
  BY DEF Meets
<1>1. /\ c # a /\ LoanAllowed(a, y)
      /\ CompositeHealthy(m, c, a, deposited, y)
      /\ TakeLoan(m, a, y, AfterDeposit(m, c))
      /\ vault' = [vault EXCEPT ![m][c] = deposited, ![m][a] = @ + Pool(a)!Delivered(y)]
      /\ opened' = [opened EXCEPT ![m] = @ \cup {a}]
  BY DEF user_deposit_and_borrow
<1> HIDE DEF deposited
<1>2. /\ Scannable(m, {c}, {a}) /\ price[c] > 0 /\ price[a] > 0
      /\ Healthy(CollateralIn(m, AfterDeposit(m, c) \ {c}) + ValueDown(deposited, c)
                   + LoanAsCollateral(m, a, y),
                 DebtIn(m, debtActive[m] \ {a}) + ValueUp(owed, a))
  BY <1>1 DEF CompositeHealthy
<1>3. /\ vault \in [Margins -> [Assets -> U64]] /\ collActive \in [Margins -> SUBSET Assets]
      /\ price' = price
  BY DEF Meets, Stepped, PoolsInv, IInv, Types
<1>4. Pool(a)!Delivered(y) = y
  BY CrossMarginAssumption, DeliveredType
<1>5. /\ vault'[m][c] = deposited /\ vault'[m][a] = filled
      /\ \A z \in Assets \ {c, a} : vault'[m][z] = vault[m][z]
  BY <1>1, <1>3, <1>4
<1>6. /\ collActive'[m] \ {c, a} = collActive[m] \ {c, a}
      /\ collActive'[m] \subseteq collActive[m] \cup {c, a}
      /\ AfterDeposit(m, c) \ {c} = collActive[m] \ {c, a}
  BY <1>1, <1>3 DEF TakeLoan, AfterDeposit
<1>s. Judged(m)
  <2>1. \A b \in Assets : vault[m][b] > 0 => b \in collActive[m]
    BY DEF Meets, Seen
  <2>2. collActive'[m] = AfterDeposit(m, c) \cup {a}
    <3>1. Seen(vault[m], AfterDeposit(m, c)) /\ AfterDeposit(m, c) \in SUBSET Assets
      BY <1>3, <2>1 DEF Seen, AfterDeposit
    <3> QED
      BY <1>1, <3>1, LoanSlot DEF Meets, Stepped, PoolsInv
  <2>3. ASSUME NEW b \in Assets, vault'[m][b] > 0 PROVE b \in collActive'[m]
    <3>1. CASE b = c
      BY <1>3, <1>5, <2>1, <2>2, <2>3, <3>1, ReserveMathAssumption DEF AfterDeposit, U64
    <3>2. CASE b = a
      BY <2>2, <3>2
    <3>3. CASE b \notin {c, a}
      <4>1. b \in collActive[m]
        BY <1>5, <2>1, <2>3, <3>3
      <4>2. collActive[m] \subseteq AfterDeposit(m, c)
        BY DEF AfterDeposit
      <4> QED
        BY <2>2, <4>1, <4>2
    <3> QED
      BY <3>1, <3>2, <3>3
  <2> QED
    BY <2>3 DEF Judged, Seen
<1>7. LiteScannable(m, {}, {}) /\ LiteIn(m, {}) \in Nat
  BY <1>2, LiteInType DEF Scannable, Meets, Stepped
<1>8. AccountCollateral(m)' = CollateralIn(m, AfterDeposit(m, c) \ {c}) + ValueDown(deposited, c)
        + LoanAsCollateral(m, a, y)
  <2>1. ValueDown(vault[m][c], c)' = ValueDown(deposited, c)
        /\ ValueDown(vault[m][a], a)' = ValueDown(filled, a)
    BY <1>3, <1>5 DEF ValueDown
  <2>2. AccountCollateral(m)' = CollateralIn(m, collActive[m] \ {c, a})
          + ValueDown(vault[m][c], c)' + ValueDown(vault[m][a], a)'
    BY Zenon, <1>1, <1>5, <1>6, <1>7, <1>s, CollateralAfterTwo
  <2> QED
    BY <1>6, <2>1, <2>2, <1>0, LoanCounts
<1> HIDE DEF filled, owed
<1>9. /\ AccountDebt(m)' = DebtIn(m, debtActive[m] \ {a}) + ValueUp(owed, a)
      /\ debtActive'[m] = debtActive[m] \cup {a} /\ Pool(a)!AccrualOK'
      /\ \A b \in Assets \ {a} : Pool(b)!AccrualOK => Pool(b)!AccrualOK'
  BY <1>1, <1>0, LoanDebt DEF owed
<1>10. Scannable(m, {}, {})'
  <2>1. \A b \in collActive'[m] : price[b] > 0
    BY <1>2, <1>6 DEF Scannable, SlotsScannable
  <2>2. \A b \in debtActive'[m] : price[b] > 0 /\ Pool(b)!AccrualOK'
    <3>1. \A b \in debtActive[m] \ {a} : b \in Assets /\ price[b] > 0 /\ Pool(b)!AccrualOK
      BY <1>2 DEF Scannable, SlotsScannable, Meets, Stepped, PoolsInv, IInv, Types
    <3> QED
      BY <1>2, <1>9, <3>1
  <2> QED
    BY <1>7, <2>1, <2>2, ScannableAfter
<1> QED
  BY <1>2, <1>8, <1>9, <1>10, HealthyAfter
-----------------------------------------------------------------------------
(* Who takes something out, and from whom *)

\* The instruction on account n leaves it healthy, or is the one exception.
LeavesHealthy(n) == OwnerTakes(n) => AccountHealthy(n)' \/ BorrowsHeldAsset(n)

\* Nothing is taken from an account whose vaults and debts stay as they are.
LEMMA NothingTaken ==
  ASSUME IInv, NEW n \in Margins, vault'[n] = vault[n], debtShares'[n] = debtShares[n]
  PROVE  ~ OwnerTakes(n)
<1>1. \A a \in Assets : vault[n][a] \in Nat /\ debtShares[n][a] \in Nat
  BY ReserveMathAssumption DEF IInv, Types, U64
<1>2. \A a \in Assets : ~ (vault'[n][a] < vault[n][a]) /\ ~ (debtShares'[n][a] > debtShares[n][a])
  BY <1>1
<1> QED
  BY <1>2 DEF OwnerTakes

\* A step changes one account only.
OnlyAccount(m) ==
  \A n \in Margins \ {m} : vault'[n] = vault[n] /\ debtShares'[n] = debtShares[n]

\* What comes into a vault is not taken out, and no debt grows.
Harmless(m) ==
  \A a \in Assets : /\ ~ (vault'[m][a] < vault[m][a])
                    /\ ~ (debtShares'[m][a] > debtShares[m][a])

\* An instruction on one account is judged by what it leaves of it.
LEMMA OneAccount ==
  ASSUME IInv, NEW m \in Margins, OnlyAccount(m), Harmless(m) \/ LeavesHealthy(m)
  PROVE  \A n \in Margins : LeavesHealthy(n)
<1>1. ASSUME NEW n \in Margins \ {m} PROVE LeavesHealthy(n)
  BY NothingTaken DEF OnlyAccount, LeavesHealthy
<1>2. LeavesHealthy(m)
  BY DEF Harmless, LeavesHealthy, OwnerTakes
<1> QED
  BY <1>1, <1>2

\* A reserve that gains tokens is paid: its owner takes nothing.
LEMMA PaidIn ==
  ASSUME NEW a \in Assets, liquidity'[a] > liquidity[a], liquidity[a] \in Nat, liquidity'[a] \in Nat
  PROVE  \A n \in Margins : LeavesHealthy(n)
<1>1. ~ (liquidity'[a] <= liquidity[a])
  OBVIOUS
<1> QED
  BY <1>1 DEF OwnerTakes, LeavesHealthy

\* Without fees what is sent to settle a debt arrives in the reserve.
LEMMA SettlementArrives ==
  ASSUME PoolsInv, PoolsInv', NoFees, NEW m \in Margins, NEW a \in Assets, NEW sent \in U64,
         sent > 0, Settle(m, a, Pool(a)!Settlement(m, sent, Pool(a)!Owed(m)))
  PROVE  liquidity'[a] > liquidity[a] /\ liquidity[a] \in Nat /\ liquidity'[a] \in Nat
<1> DEFINE s == Pool(a)!Settlement(m, sent, Pool(a)!Owed(m))
<1>1. s.received = sent
  <2>1. TransferFee(sent) = 0 /\ sent \in Nat
    BY ReserveMathAssumption DEF NoFees, U64
  <2>2. s.received = sent - TransferFee(sent)
    BY PoolSettlement
  <2> HIDE DEF s
  <2> QED
    BY <2>1, <2>2
<1>2. liquidity' = [liquidity EXCEPT ![a] = @ + s.received]
  BY DEF Settle
<1>3. liquidity \in [Assets -> U64] /\ liquidity' \in [Assets -> U64]
  BY DEF PoolsInv, Ledger, LedgerTypes
<1> HIDE DEF s
<1>4. liquidity'[a] = liquidity[a] + sent /\ liquidity[a] \in Nat /\ sent \in Nat
  BY <1>1, <1>2, <1>3, ReserveMathAssumption DEF U64
<1> QED
  BY <1>4

\* Repayments out of the margin pay the reserve.
LEMMA RepaymentLeaves ==
  ASSUME PoolsInv, PoolsInv', NoFees, NEW m \in Margins, NEW a \in Assets, NEW x \in Payments,
         user_repay_from_margin(m, a, x)
  PROVE  \A n \in Margins : LeavesHealthy(n)
<1> DEFINE sent == MinOf(GrossUp(MinOf(x, Pool(a)!Owed(m))), vault[m][a])
<1>1. /\ Pool(a)!AccrualOK /\ sent > 0
      /\ Settle(m, a, Pool(a)!Settlement(m, sent, Pool(a)!Owed(m)))
  BY DEF user_repay_from_margin
<1>2. PICK t \in U64 : t = sent
  BY <1>1, RepaidType DEF PoolsInv
<1> HIDE DEF sent
<1>3. t > 0 /\ Settle(m, a, Pool(a)!Settlement(m, t, Pool(a)!Owed(m)))
  BY <1>1, <1>2 DEF Settle
<1>4. liquidity'[a] > liquidity[a] /\ liquidity[a] \in Nat /\ liquidity'[a] \in Nat
  BY <1>3, SettlementArrives
<1> QED
  BY <1>4, PaidIn

\* So does what a liquidator pays.
LEMMA LiquidationLeaves ==
  ASSUME PoolsInv, PoolsInv', NoFees, NEW m \in Margins, NEW c \in Assets, NEW d \in Assets,
         NEW x \in Amounts, public_liquidate(m, c, d, x)
  PROVE  \A n \in Margins : LeavesHealthy(n)
<1> DEFINE owed == Pool(d)!Owed(m)
           repay == MinOf(MinOf(x, owed), MaxOf(owed \div 2, 1))
<1>1. /\ Pool(d)!AccrualOK /\ owed > 0 /\ x > 0
      /\ Settle(m, d, Pool(d)!Settlement(m, repay, owed))
  BY DEF public_liquidate
<1>2. owed \in Nat /\ x \in Nat
  BY <1>1, OwedType, CrossMarginAssumption DEF PoolsInv, IInv, Types, U64
<1>3. PICK t \in U64 : t = repay
  BY <1>1, LiquidatedType DEF PoolsInv
<1>4. repay > 0
  <2> HIDE DEF owed
  <2>1. MinOf(x, owed) > 0 /\ MinOf(x, owed) \in Nat
    BY <1>1, <1>2 DEF MinOf
  <2>2. MaxOf(owed \div 2, 1) > 0 /\ MaxOf(owed \div 2, 1) \in Nat
    BY <1>2 DEF MaxOf
  <2> QED
    BY <2>1, <2>2 DEF MinOf
<1> HIDE DEF repay
<1>5. t > 0 /\ Settle(m, d, Pool(d)!Settlement(m, t, Pool(d)!Owed(m)))
  BY <1>1, <1>3, <1>4 DEF Settle
<1>6. liquidity'[d] > liquidity[d] /\ liquidity[d] \in Nat /\ liquidity'[d] \in Nat
  BY <1>5, SettlementArrives
<1> QED
  BY <1>6, PaidIn

\* A repayment out of another wallet takes nothing from the account.
LEMMA WalletPaymentLeaves ==
  ASSUME PoolsInv, NEW m \in Margins, NEW a \in Assets, NEW x \in Payments,
         public_repay_from_wallet(m, a, x)
  PROVE  \A n \in Margins : LeavesHealthy(n)
<1> DEFINE owed == Pool(a)!Owed(m)
           sent == GrossUp(MinOf(x, owed))
           s == Pool(a)!Settlement(m, sent, owed)
<1>1. /\ Pool(a)!AccrualOK /\ owed > 0 /\ sent \in U64 /\ Settle(m, a, s)
      /\ vault' = vault
  BY DEF public_repay_from_wallet
<1>2. /\ debtShares' = [debtShares EXCEPT ![m][a] = s.shares] /\ Pool(a)!SettlementSucceeds(m, s)
  BY <1>1 DEF Settle
<1>3. s.shares \in Nat /\ s.shares <= debtShares[m][a]
  <2>1. PICK t \in U64 : t = sent
    BY <1>1
  <2> DEFINE z == Pool(a)!Settlement(m, t, Pool(a)!Owed(m))
  <2>2. z = s
    BY <2>1
  <2>3. Pool(a)!SettlementSucceeds(m, z)
    BY <1>2, <2>2 DEF Pool!SettlementSucceeds
  <2>4. z.shares \in Nat /\ z.shares <= debtShares[m][a]
    BY <1>1, <2>3, SettlementBooks DEF PoolsInv
  <2> QED
    BY <2>2, <2>4
<1> HIDE DEF s
<1>4. /\ vault \in [Margins -> [Assets -> U64]] /\ debtShares \in [Margins -> [Assets -> Nat]]
  BY DEF PoolsInv, IInv, Types
<1>5. OnlyAccount(m)
  BY <1>1, <1>2, <1>4 DEF OnlyAccount
<1>6. Harmless(m)
  <2>1. SUFFICES ASSUME NEW b \in Assets
                 PROVE  /\ ~ (vault[m][b] < vault[m][b])
                        /\ ~ (debtShares'[m][b] > debtShares[m][b])
    BY <1>1 DEF Harmless
  <2>2. vault[m][b] \in Nat /\ debtShares[m][b] \in Nat
    BY <1>4, ReserveMathAssumption DEF U64
  <2>3. debtShares'[m][b] = IF b = a THEN s.shares ELSE debtShares[m][b]
    BY <1>2, <1>4
  <2> QED
    BY <1>3, <2>2, <2>3
<1> QED
  BY <1>5, <1>6, OneAccount DEF PoolsInv
\* Tokens that come into a vault are not taken from it.
LEMMA VaultFilled ==
  ASSUME IInv, NEW m \in Margins, NEW a \in Assets, NEW x \in Nat,
         vault' = [vault EXCEPT ![m][a] = @ + x], debtShares' = debtShares
  PROVE  \A n \in Margins : LeavesHealthy(n)
<1>1. /\ vault \in [Margins -> [Assets -> U64]] /\ debtShares \in [Margins -> [Assets -> Nat]]
  BY DEF IInv, Types
<1>2. OnlyAccount(m)
  BY <1>1 DEF OnlyAccount
<1>3. Harmless(m)
  <2>1. SUFFICES ASSUME NEW b \in Assets
                 PROVE  /\ ~ (vault'[m][b] < vault[m][b])
                        /\ ~ (debtShares[m][b] > debtShares[m][b])
    BY DEF Harmless
  <2>2. vault[m][b] \in Nat /\ debtShares[m][b] \in Nat
    BY <1>1, ReserveMathAssumption DEF U64
  <2>3. vault'[m][b] = IF b = a THEN vault[m][b] + x ELSE vault[m][b]
    BY <1>1
  <2> QED
    BY <2>2, <2>3
<1> QED
  BY <1>2, <1>3, OneAccount

\* No vault and no debt changes.
LEMMA NobodyTakes ==
  ASSUME IInv, UNCHANGED <<vault, debtShares>>
  PROVE  \A n \in Margins : LeavesHealthy(n)
BY NothingTaken DEF LeavesHealthy

\* An account whose registry shows all its tokens is left healthy.
StaysHealthy(n) == Seen(vault[n], collActive[n]) => LeavesHealthy(n)

\* An instruction on one account need not look at the others.
LEMMA OneShownAccount ==
  ASSUME IInv, NEW m \in Margins, OnlyAccount(m), StaysHealthy(m)
  PROVE  \A n \in Margins : StaysHealthy(n)
<1>1. ASSUME NEW n \in Margins \ {m} PROVE StaysHealthy(n)
  BY NothingTaken DEF OnlyAccount, LeavesHealthy, StaysHealthy
<1> QED
  BY <1>1

\* Every step leaves every account healthy that it takes something from, if
\* the account has nothing that the registry does not show.
LEMMA StepLeaves ==
  ASSUME NoFees, ProgramOnly
  PROVE  PoolsInv /\ PoolsInv' /\ [Next]_vars =>
           \A n \in Margins : StaysHealthy(n)
<1> SUFFICES ASSUME PoolsInv, PoolsInv', [Next]_vars
             PROVE  \A n \in Margins : StaysHealthy(n)
  OBVIOUS
<1>1. PoolsInv /\ PoolsInv' /\ IInv
  BY DEF PoolsInv
<1>2. CASE UNCHANGED vars
  BY <1>1, <1>2, NobodyTakes DEF vars, StaysHealthy
<1>3. CASE MarginStep /\ UNCHANGED liteState
  <2>0. ASSUME NEW n \in Margins, UNCHANGED world, Meets(n) => LeavesHealthy(n)
        PROVE  StaysHealthy(n)
    BY <1>1, <1>3, <2>0 DEF Meets, Stepped, StaysHealthy, world
  <2>a. vault \in [Margins -> [Assets -> U64]] /\ debtShares \in [Margins -> [Assets -> Nat]]
    BY <1>1 DEF IInv, Types
  <2>1. ASSUME NEW m \in Margins, user_create_margin(m) \/ user_close_margin(m)
        PROVE  \A n \in Margins : LeavesHealthy(n)
    BY <1>1, <2>1, NobodyTakes DEF user_create_margin, user_close_margin
  <2>2. ASSUME NEW m \in Margins, NEW a \in Assets,
               user_open_debt_position(m, a) \/ user_close_debt_position(m, a)
        PROVE  \A n \in Margins : LeavesHealthy(n)
    BY <1>1, <2>2, NobodyTakes DEF user_open_debt_position, user_close_debt_position
  <2>3. ASSUME NEW m \in Margins, NEW a \in Assets, NEW x \in Amounts, user_deposit_collateral(m, a, x)
        PROVE  \A n \in Margins : LeavesHealthy(n)
    <3>1. x \in U64
      BY CrossMarginAssumption
    <3>2. Pool(a)!Delivered(x) \in Nat
      BY <3>1, DeliveredType
    <3>3. vault' = [vault EXCEPT ![m][a] = @ + Pool(a)!Delivered(x)] /\ debtShares' = debtShares
      BY <2>3 DEF user_deposit_collateral
    <3> QED
      BY <1>1, <3>2, <3>3, VaultFilled
  <2>4. ASSUME NEW m \in Margins, NEW a \in Assets, NEW x \in Amounts, user_withdraw_collateral(m, a, x)
        PROVE  \A n \in Margins : StaysHealthy(n)
    <3>1. UNCHANGED world /\ OnlyAccount(m)
      BY <2>4, <2>a DEF user_withdraw_collateral, OnlyAccount
    <3>2. StaysHealthy(m)
      BY <2>0, <2>4, <3>1, WithdrawHealthy DEF LeavesHealthy
    <3> QED
      BY <1>1, <3>1, <3>2, OneShownAccount
  <2>5. ASSUME NEW m \in Margins, NEW a \in Assets, NEW x \in Amounts, user_borrow(m, a, x)
        PROVE  \A n \in Margins : StaysHealthy(n)
    <3>1. UNCHANGED world /\ OnlyAccount(m)
      BY <2>5, <2>a DEF user_borrow, TakeLoan, OnlyAccount
    <3>2. StaysHealthy(m)
      BY <2>0, <2>5, <3>1, BorrowHealthy DEF LeavesHealthy
    <3> QED
      BY <1>1, <3>1, <3>2, OneShownAccount
  <2>6. ASSUME NEW m \in Margins, NEW a \in Assets, NEW x \in Payments,
               user_repay_from_margin(m, a, x) \/ public_repay_from_wallet(m, a, x)
        PROVE  \A n \in Margins : LeavesHealthy(n)
    BY <1>1, <2>6, RepaymentLeaves, WalletPaymentLeaves
  <2>7. ASSUME NEW m \in Margins, NEW c \in Assets, NEW a \in Assets, NEW x \in Amounts, NEW y \in Amounts,
               user_deposit_and_borrow(m, c, a, x, y)
        PROVE  \A n \in Margins : StaysHealthy(n)
    <3>1. UNCHANGED world /\ OnlyAccount(m)
      BY <2>7, <2>a DEF user_deposit_and_borrow, TakeLoan, OnlyAccount
    <3>2. CASE a \in collActive[m]
      <4>1. BorrowsHeldAsset(m)
        BY <2>7, <3>2 DEF BorrowsHeldAsset
      <4> QED
        BY <1>1, <3>1, <4>1, OneShownAccount DEF LeavesHealthy, StaysHealthy
    <3>3. CASE a \notin collActive[m]
      <4>1. StaysHealthy(m)
        BY <2>0, <2>7, <3>1, <3>3, CompositeHealthyAfter DEF LeavesHealthy
      <4> QED
        BY <1>1, <3>1, <4>1, OneShownAccount
    <3> QED
      BY <3>2, <3>3
  <2>8. ASSUME NEW m \in Margins, NEW c \in Assets, NEW a \in Assets, NEW x \in Amounts, NEW y \in Amounts,
               user_margin_swap(m, c, a, x, y)
        PROVE  \A n \in Margins : StaysHealthy(n)
    <3>1. UNCHANGED world /\ OnlyAccount(m)
      BY <2>8, <2>a DEF user_margin_swap, OnlyAccount
    <3>2. StaysHealthy(m)
      BY <2>0, <2>8, <3>1, SwapHealthyAfter DEF LeavesHealthy
    <3> QED
      BY <1>1, <3>1, <3>2, OneShownAccount
  <2>9. ASSUME NEW m \in Margins, NEW c \in Assets, NEW d \in Assets, NEW x \in Amounts,
               public_liquidate(m, c, d, x)
        PROVE  \A n \in Margins : LeavesHealthy(n)
    BY <1>1, <2>9, LiquidationLeaves
  <2>10. ASSUME NEW m \in Margins, NEW a \in Assets, NEW x \in Donations, Donate(m, a, x)
         PROVE  \A n \in Margins : LeavesHealthy(n)
    BY <2>10 DEF ProgramOnly
  <2>11. ASSUME \/ \E md \in Modes : admin_set_operating_mode(md)
                \/ \E a \in Assets : \E p \in Prices[a] : SetPrice(a, p)
                \/ \E a \in Assets : \E c \in AssetConfigs[a] : admin_update_asset_config(a, c)
                \/ Tick
         PROVE  \A n \in Margins : LeavesHealthy(n)
    BY <1>1, <2>11, NobodyTakes DEF admin_set_operating_mode, SetPrice, admin_update_asset_config, Tick
  <2> QED
    BY <1>3, <2>1, <2>2, <2>3, <2>4, <2>5, <2>6, <2>7, <2>8, <2>9, <2>10, <2>11 DEF MarginStep, StaysHealthy
<1> QED
  BY <1>2, <1>3 DEF Next

\* Whatever projection the instruction judged, the account that an owner leaves
\* behind after taking tokens or a loan is healthy when every active position is
\* valued: withdrawals, swaps, loans, and the composite unless it borrows an
\* asset the account already holds.  Where transfers cost nothing and no tokens
\* come from outside the program, for any number of assets and accounts.
THEOREM OwnersAlwaysLeaveHealthy ==
  ASSUME NoFees, ProgramOnly
  PROVE  Spec => OwnerLeavesHealthy
<1>1. Spec => []NoHiddenCollateral
  BY NothingEverHidden
<1>2. PoolsInv /\ PoolsInv' /\ NoHiddenCollateral /\ [Next]_vars
        => [\A m \in Margins : OwnerTakes(m) => AccountHealthy(m)' \/ BorrowsHeldAsset(m)]_vars
  BY StepLeaves DEF StaysHealthy, LeavesHealthy, NoHiddenCollateral, Seen
<1> QED
  BY <1>1, <1>2, PoolsInvariance, PTL DEF Spec, OwnerLeavesHealthy
-----------------------------------------------------------------------------
(* Liquidation *)

\* The collateral of an account is that of one vault and all the others.
LEMMA CollateralNow ==
  ASSUME PoolsInv, NEW m \in Margins, NEW a \in Assets, LiteIn(m, {}) \in Nat,
         vault[m][a] > 0 => a \in collActive[m]
  PROVE  AccountCollateral(m) = CollateralIn(m, collActive[m] \ {a}) + ValueDown(vault[m][a], a)
<1>1. PICK C \in SUBSET Assets : C = collActive[m]
  BY DEF PoolsInv, IInv, Types
<1>2. PICK f \in [Assets -> Nat] : f = VaultValues(m)
  BY VaultValuesType DEF PoolsInv
<1>3. PICK K \in SUBSET Assets : K = C \ {a}
  OBVIOUS
<1>4. f[a] = ValueDown(vault[m][a], a)
  BY <1>2 DEF VaultValues
<1>5. a \notin C => f[a] = 0
  <2>1. SUFFICES ASSUME a \notin C PROVE f[a] = 0
    OBVIOUS
  <2>2. vault[m][a] = 0
    BY <1>1, <2>1, ReserveMathAssumption DEF PoolsInv, IInv, Types, U64
  <2>3. price[a] \in Nat /\ Scale \in Nat \ {0}
    BY CrossMarginAssumption DEF PoolsInv, IInv, Types
  <2>4. 0 * price[a] = 0 /\ 0 \div Scale = 0
    BY <2>3
  <2> QED
    BY <1>4, <2>2, <2>4 DEF ValueDown, mul_div_floor
<1>6. Revalued(Assets, f, f, K, C, {a})
  BY <1>1, <1>2, <1>3, <1>5, Finite DEF Revalued
<1>7. SumOver(f, C) = SumOver(f, K) + f[a]
  BY <1>6, OneRevalued
<1>8. VaultsIn(m, C) = SumOver(f, C) /\ VaultsIn(m, K) = SumOver(f, K)
  BY <1>2, Finite, FS_Subset, VaultsSum
<1>9. AccountCollateral(m) = SumOver(f, C) + LiteIn(m, {})
      /\ CollateralIn(m, collActive[m] \ {a}) = SumOver(f, K) + LiteIn(m, {})
  BY <1>1, <1>3, <1>8 DEF AccountCollateral, CollateralIn
<1>10. PICK i \in Nat, j \in Nat, k \in Nat : i = SumOver(f, K) /\ j = f[a] /\ k = LiteIn(m, {})
  BY Finite, SumType
<1>11. AccountCollateral(m) = (i + j) + k
       /\ CollateralIn(m, collActive[m] \ {a}) + ValueDown(vault[m][a], a) = (i + k) + j
  BY <1>4, <1>7, <1>9, <1>10
<1>12. (i + j) + k = (i + k) + j
  OBVIOUS
<1> QED
  BY <1>11, <1>12

\* Its debt is that of one asset and all the others.
LEMMA DebtNow ==
  ASSUME PoolsInv, NEW m \in Margins, NEW d \in Assets
  PROVE  AccountDebt(m) = DebtIn(m, debtActive[m] \ {d}) + ValueUp(Pool(d)!Owed(m), d)
<1>1. PICK C \in SUBSET Assets : C = debtActive[m]
  BY DEF PoolsInv, IInv, Types
<1>2. PICK f \in [Assets -> Nat] :
        f = DebtValues(m) /\ \A x \in Assets : debtShares[m][x] = 0 => f[x] = 0
  BY DebtValuesType DEF PoolsInv
<1>3. PICK K \in SUBSET Assets : K = C \ {d}
  OBVIOUS
<1>4. f[d] = ValueUp(Pool(d)!Owed(m), d)
  BY <1>2 DEF DebtValues
<1>5. d \notin C => f[d] = 0
  BY <1>1, <1>2 DEF PoolsInv, IInv, DebtsListed
<1>6. Revalued(Assets, f, f, K, C, {d})
  BY <1>1, <1>2, <1>3, <1>5, Finite DEF Revalued
<1>7. SumOver(f, C) = SumOver(f, K) + f[d]
  BY <1>6, OneRevalued
<1>8. DebtIn(m, C) = SumOver(f, C) /\ DebtIn(m, K) = SumOver(f, K)
  BY <1>2, Finite, FS_Subset, DebtsSum
<1> QED
  BY <1>1, <1>3, <1>4, <1>7, <1>8 DEF AccountDebt

\* Both sides of a liquidation, before and after, are those of the whole account.
LEMMA LiquidationJudged ==
  ASSUME NoFees, NEW m \in Margins, Judged(m), NEW c \in Assets, NEW d \in Assets, NEW x \in Amounts,
         public_liquidate(m, c, d, x)
  PROVE  /\ Liquidatable(AccountCollateral(m), AccountDebt(m))
         /\ Improves(AccountCollateral(m), AccountDebt(m), AccountCollateral(m)', AccountDebt(m)')
<1> DEFINE owed == Pool(d)!Owed(m)
           repay == MinOf(MinOf(x, owed), MaxOf(owed \div 2, 1))
           s == Pool(d)!Settlement(m, repay, owed)
           seize == Seizable(m, c, d, repay)
           left == vault[m][c] - Pool(c)!Delivered(seize)
           owedAfter == debt_shares_to_assets_up(s.shares, s.reserve.total_borrow_shares,
                                                 s.reserve.total_borrow_assets)
           otherColl == CollateralIn(m, collActive[m] \ {c})
           otherDebt == DebtIn(m, debtActive[m] \ {d})
<1>1. /\ Pool(d)!AccrualOK /\ owed > 0
      /\ Scannable(m, {c}, {d}) /\ price[c] > 0 /\ price[d] > 0
      /\ Settle(m, d, s)
      /\ UNCHANGED <<world, exists, debtAccounts>>
  BY DEF public_liquidate
<1>2. Liquidatable(otherColl + ValueDown(vault[m][c], c), otherDebt + ValueUp(owed, d))
  BY Zenon DEF public_liquidate
<1>3. Improves(otherColl + ValueDown(vault[m][c], c), otherDebt + ValueUp(owed, d),
               otherColl + ValueDown(left, c), otherDebt + ValueUp(owedAfter, d))
  BY Zenon DEF public_liquidate
<1>4. /\ vault' = [vault EXCEPT ![m][c] = @ - seize]
      /\ collActive' = [collActive EXCEPT ![m] = IF left = 0 THEN @ \ {c} ELSE @]
  BY Zenon DEF public_liquidate
<1>5. PoolsInv /\ IInv /\ Ledger /\ Stepped /\ price' = price /\ now' = now
  BY DEF Judged, Meets, Stepped, PoolsInv
<1>6. /\ vault \in [Margins -> [Assets -> U64]] /\ collActive \in [Margins -> SUBSET Assets]
      /\ debtActive[m] \in SUBSET Assets
  BY <1>5 DEF IInv, Types
<1>7. LiteScannable(m, {}, {}) /\ LiteIn(m, {}) \in Nat
  BY <1>1, <1>5, LiteInType DEF Scannable
<1>8. PICK sent \in U64 : sent = repay
  BY <1>1, <1>5, LiquidatedType
<1>9. left = vault[m][c] - seize
  <2>1. sent \in Nat
    BY ReserveMathAssumption DEF U64
  <2>2. seize \in 0..vault[m][c]
    BY <1>1, <1>5, <1>8, <2>1, SeizableType
  <2>3. seize \in U64
    BY <1>6, <2>2, RestOf
  <2> HIDE DEF seize
  <2> QED
    BY <2>3, DeliveredType
<1> HIDE DEF repay, left, seize
<1>10. AccountCollateral(m)' = otherColl + ValueDown(left, c)
  <2>1. /\ vault'[m][c] = left /\ \A y \in Assets \ {c} : vault'[m][y] = vault[m][y]
        /\ collActive'[m] \ {c} = collActive[m] \ {c}
    BY <1>4, <1>6, <1>9
  <2>2. ValueDown(vault[m][c], c)' = ValueDown(left, c)
    BY <1>5, <2>1 DEF ValueDown
  <2>3. AccountCollateral(m)' = CollateralIn(m, collActive[m] \ {c}) + ValueDown(vault[m][c], c)'
    BY Zenon, <1>7, <2>1, CollateralAfter
  <2> QED
    BY <2>2, <2>3
<1>11. AccountDebt(m)' = otherDebt + ValueUp(owedAfter, d)
  <2> DEFINE z == Pool(d)!Settlement(m, sent, Pool(d)!Owed(m))
             D == IF z.shares = 0 THEN debtActive[m] \ {d} ELSE debtActive[m]
  <2>1. z = s
    BY <1>8
  <2>2. Settle(m, d, z)
    BY <1>1, <2>1 DEF Settle
  <2>3. Moved(m, d, z.reserve, z.shares, D, opened[m])
    BY <1>1, <1>5, <2>2, SettleLedger DEF debtAccounts
  <2>4. z.shares \in Nat /\ z.reserve.last_update_timestamp = now
    BY <1>1, <1>5, <2>2, SettlementBooks DEF Settle
  <2>5. D \in SUBSET Assets /\ D \ {d} = debtActive[m] \ {d}
    BY <1>6
  <2> HIDE DEF z, D
  <2>6. PICK r, k, E, O : r = z.reserve /\ k = z.shares /\ E = D /\ O = opened[m]
    OBVIOUS
  <2>7. /\ k \in Nat /\ E \in SUBSET Assets /\ E \ {d} = debtActive[m] \ {d}
        /\ Moved(m, d, r, k, E, O) /\ r.last_update_timestamp = now
    BY <2>3, <2>4, <2>5, <2>6
  <2>8. AccountDebt(m)' = DebtIn(m, debtActive[m] \ {d})
          + ValueUp(debt_shares_to_assets_up(k, r.total_borrow_shares, r.total_borrow_assets), d)
    BY <1>5, <2>7, DebtAfterMove
  <2>9. owedAfter = debt_shares_to_assets_up(k, r.total_borrow_shares, r.total_borrow_assets)
    BY <2>1, <2>6
  <2> HIDE DEF owedAfter
  <2> QED
    BY <2>8, <2>9
<1>12. /\ AccountCollateral(m) = otherColl + ValueDown(vault[m][c], c)
       /\ AccountDebt(m) = otherDebt + ValueUp(owed, d)
  <2>1. vault[m][c] > 0 => c \in collActive[m]
    BY DEF Judged, Meets, Seen
  <2> QED
    BY <1>5, <1>7, <2>1, CollateralNow, DebtNow
<1> QED
  BY Zenon, <1>2, <1>3, <1>10, <1>11, <1>12

\* The invariants that judge a liquidation.
HealthInv == PoolsInv /\ NoHiddenCollateral

\* A liquidation does nothing but what public_liquidate does, so that both its
\* sides are judged.
LEMMA StepHelps ==
  ASSUME NoFees
  PROVE  HealthInv /\ HealthInv' /\ [Next]_vars =>
           \A m \in Margins : Liquidated(m) =>
             /\ Liquidatable(AccountCollateral(m), AccountDebt(m))
             /\ Improves(AccountCollateral(m), AccountDebt(m),
                         AccountCollateral(m)', AccountDebt(m)')
<1> SUFFICES ASSUME HealthInv, HealthInv', [Next]_vars, NEW m \in Margins, Liquidated(m)
             PROVE  /\ Liquidatable(AccountCollateral(m), AccountDebt(m))
                    /\ Improves(AccountCollateral(m), AccountDebt(m),
                                AccountCollateral(m)', AccountDebt(m)')
  OBVIOUS
<1>1. PICK c \in Assets, d \in Assets, x \in Amounts : public_liquidate(m, c, d, x)
  BY DEF Liquidated
<1>2. UNCHANGED liteState
  <2>1. PICK a \in Assets : vault'[m][a] < vault[m][a]
    BY DEF Liquidated
  <2>2. vault \in [Margins -> [Assets -> Nat]]
    BY ReserveMathAssumption DEF HealthInv, PoolsInv, IInv, Types, U64
  <2>3. ~UNCHANGED vars
    BY <2>1, <2>2 DEF vars
  <2> QED
    BY <2>3 DEF Next
<1>3. UNCHANGED world
  BY <1>1 DEF public_liquidate
<1>4. Judged(m)
  BY <1>2, <1>3 DEF Judged, Meets, Stepped, Seen, NoHiddenCollateral, HealthInv, PoolsInv, world
<1> QED
  BY <1>1, <1>4, LiquidationJudged

\* A liquidation is for an account that is liquidatable as a whole, and leaves
\* it without debt or with a higher health factor, all its positions valued at
\* the state before and at the state after (liquidation.rs judges only what it
\* has changed in memory).  Where transfers cost nothing and no tokens come from
\* outside the program, for any number of assets and accounts.
THEOREM LiquidationsAlwaysHelp ==
  ASSUME NoFees, ProgramOnly
  PROVE  Spec => LiquidationHelps
<1>1. Spec => []NoHiddenCollateral
  BY NothingEverHidden
<1>2. HealthInv /\ HealthInv' /\ [Next]_vars
        => [\A m \in Margins : Liquidated(m) =>
              /\ Liquidatable(AccountCollateral(m), AccountDebt(m))
              /\ AccountDebt(m)' > 0 =>
                   HealthFactor(AccountCollateral(m), AccountDebt(m))'
                     > HealthFactor(AccountCollateral(m), AccountDebt(m))]_vars
  BY StepHelps DEF Improves
<1>3. HealthInv <=> PoolsInv /\ NoHiddenCollateral
  BY DEF HealthInv
<1> QED
  BY <1>1, <1>2, <1>3, PoolsInvariance, PTL DEF Spec, LiquidationHelps
=============================================================================
