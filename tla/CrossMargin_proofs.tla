-------------------------- MODULE CrossMargin_proofs --------------------------
(***************************************************************************)
(* How the slots of margin accounts relate to their vaults and debts, for  *)
(* all assets, amounts, prices and mints.                                  *)
(***************************************************************************)
EXTENDS CrossMargin, ReserveMath_proofs

\* As much of a reserve's type as the proofs need.
ReserveOK(r) ==
  /\ {"total_borrow_assets", "total_borrow_shares"} \subseteq DOMAIN r
  /\ r.total_borrow_shares \in Nat

Types ==
  /\ reserve = [a \in Assets |-> reserve[a]] /\ \A a \in Assets : ReserveOK(reserve[a])
  /\ debtShares \in [Margins -> [Assets -> Nat]]
  /\ vault \in [Margins -> [Assets -> U64]]
  /\ debtActive \in [Margins -> SUBSET Assets]
  /\ collActive \in [Margins -> SUBSET Assets]
  /\ price \in [Assets -> Nat]
  /\ assetConf = [a \in Assets |-> assetConf[a]]
  /\ \A a \in Assets : assetConf[a] \in AssetConfigs[a]

\* A debt is in the registry.  Without this a second loan of an asset could take
\* a collateral slot in an account that has no room for one.
DebtsListed ==
  \A m \in Margins, a \in Assets : a \notin debtActive[m] => debtShares[m][a] = 0

IInv == Types /\ DebtsListed /\ AssetsBounded

-----------------------------------------------------------------------------
(* The pool of an asset *)

\* Accrual leaves the shares alone, and where it succeeds the total fits.
LEMMA CurrentReserve ==
  ASSUME NEW a \in Assets, ReserveOK(reserve[a]), Pool(a)!AccrualOK
  PROVE  /\ ReserveOK(Pool(a)!Current)
         /\ Pool(a)!Current.total_borrow_assets \in U64
<1>1. ReserveOK(Pool(a)!Current)
  BY DEF Pool!Current, Pool!accrue, ReserveOK
<1>2. Pool(a)!Current.total_borrow_assets \in U64
  BY DEF Pool!Current, Pool!AccrualOK, Pool!AccrualSucceeds, Pool!U64, U64
<1> QED BY <1>1, <1>2

\* A position without shares owes nothing, and nothing is owed to an empty reserve.
LEMMA OwedType ==
  ASSUME NEW a \in Assets, ReserveOK(reserve[a]), Pool(a)!AccrualOK,
         NEW m \in Margins, debtShares[m][a] \in Nat
  PROVE  /\ Pool(a)!Owed(m) \in Nat
         /\ Pool(a)!Owed(m) > 0 => /\ debtShares[m][a] > 0
                                   /\ Pool(a)!Current.total_borrow_assets > 0
<1> DEFINE S == Pool(a)!Current.total_borrow_shares
           T == Pool(a)!Current.total_borrow_assets
           p == debtShares[m][a]
<1>1. S \in Nat /\ T \in Nat
  BY CurrentReserve DEF ReserveOK, U64
<1>2. Pool(a)!Owed(m) = IF S = 0 THEN 0 ELSE (p * T) \div S + (IF (p * T) % S = 0 THEN 0 ELSE 1)
  BY DEF Pool!Owed, Pool!debt_shares_to_assets_up, Pool!mul_div_ceil
<1> HIDE DEF S, T, p
<1>3. p \in Nat
  BY DEF p
<1>4. CASE S = 0
  BY <1>2, <1>4
<1>5. CASE S # 0 /\ p * T = 0
  <2>1. S \in Nat \ {0}
    BY <1>1, <1>5
  <2>2. 0 \div S = 0 /\ 0 % S = 0
    BY <2>1
  <2> QED BY <1>2, <1>5, <2>2
<1>6. CASE S # 0 /\ p * T # 0
  <2>1. S \in Nat \ {0} /\ p * T \in Nat /\ p > 0 /\ T > 0
    BY <1>1, <1>3, <1>6
  <2>2. (p * T) \div S \in Nat
    BY <2>1
  <2> QED BY <1>2, <2>1, <2>2 DEF T, p
<1> QED BY <1>4, <1>5, <1>6

\* A loan mints some shares.
LEMMA LoanEffect ==
  ASSUME NEW a \in Assets, ReserveOK(reserve[a]), Pool(a)!AccrualOK,
         NEW m \in Margins, debtShares[m][a] \in Nat, NEW x \in Nat
  PROVE  Loan(m, a, x).position \in Nat /\ ReserveOK(Loan(m, a, x).reserve)
<1> DEFINE r == Pool(a)!Current
           shares == assets_to_debt_shares_up(x, r.total_borrow_shares, r.total_borrow_assets)
<1>1. ReserveOK(r) /\ r.total_borrow_assets \in Nat
  BY CurrentReserve DEF U64
<1> HIDE DEF r
<1>2. shares \in Nat
  <2>1. CASE r.total_borrow_shares = 0 \/ r.total_borrow_assets = 0
    BY <2>1 DEF assets_to_debt_shares_up
  <2>2. CASE ~(r.total_borrow_shares = 0 \/ r.total_borrow_assets = 0)
    <3>1. r.total_borrow_assets \in Nat \ {0} /\ r.total_borrow_shares \in Nat
      BY <1>1, <2>2 DEF ReserveOK
    <3>2. mul_div_ceil(x, r.total_borrow_shares, r.total_borrow_assets) \in Nat
      BY <3>1, CeilBounds
    <3> QED BY <2>2, <3>2 DEF assets_to_debt_shares_up
  <2> QED BY <2>1, <2>2
<1>3. Loan(m, a, x).position = debtShares[m][a] + shares
  BY DEF Loan, r
<1>4. Loan(m, a, x).reserve = AfterBorrow(r, x, shares)
  BY DEF Loan, r
<1> HIDE DEF shares
<1>5. ReserveOK(AfterBorrow(r, x, shares))
  BY <1>1, <1>2 DEF AfterBorrow, ReserveOK
<1> QED BY <1>2, <1>3, <1>4, <1>5

\* A payment burns no more shares than the position has.
LEMMA SettlementEffect ==
  ASSUME NEW a \in Assets, ReserveOK(reserve[a]), Pool(a)!AccrualOK,
         NEW m \in Margins, debtShares[m][a] \in Nat, Pool(a)!Owed(m) > 0, NEW sent \in U64
  PROVE  LET s == Pool(a)!Settlement(m, sent, Pool(a)!Owed(m))
         IN  s.shares \in Nat /\ ReserveOK(s.reserve)
<1> DEFINE r == Pool(a)!Current
           p == debtShares[m][a]
           owed == Pool(a)!Owed(m)
           received == sent - TransferFee(sent)
           burned == IF received >= owed THEN p
                     ELSE MinOf(mul_div_floor(received, r.total_borrow_shares, r.total_borrow_assets), p)
           s == Pool(a)!Settlement(m, sent, owed)
<1>1. ReserveOK(r) /\ r.total_borrow_assets \in Nat \ {0} /\ owed \in Nat
  BY CurrentReserve, OwedType DEF U64
<1>2. received \in Nat
  BY CrossMarginAssumption DEF U64
<1>3. s.shares = p - burned
  BY DEF Pool!Settlement, Pool!DebtSharesBurned, Pool!Delivered, Pool!MinOf, MinOf,
         Pool!mul_div_floor, mul_div_floor
<1>4. s.reserve.total_borrow_shares = SaturatingSub(r.total_borrow_shares, burned)
  BY <1>1 DEF Pool!Settlement, Pool!AfterRepay, Pool!DebtSharesBurned, Pool!Delivered, Pool!MinOf,
         MinOf, Pool!mul_div_floor, mul_div_floor, Pool!SaturatingSub, SaturatingSub, ReserveOK
<1>5. DOMAIN s.reserve = DOMAIN r
  BY DEF Pool!Settlement, Pool!AfterRepay
<1> HIDE DEF r, owed, received, s
<1>6. burned \in 0..p
  <2>1. mul_div_floor(received, r.total_borrow_shares, r.total_borrow_assets) \in Nat
    BY <1>1, <1>2, FloorBounds DEF ReserveOK
  <2> QED BY <2>1 DEF MinOf
<1> HIDE DEF burned, p
<1>7. p \in Nat
  BY DEF p
<1>8. s.shares \in Nat
  BY <1>3, <1>6, <1>7
<1>9. ReserveOK(s.reserve)
  BY <1>1, <1>4, <1>5, <1>6, <1>7 DEF ReserveOK, SaturatingSub
<1> QED BY <1>8, <1>9 DEF s, owed

-----------------------------------------------------------------------------
(* Slots *)

\* One more asset still fits where the slots used are below the limit.
LEMMA OneMore ==
  ASSUME NEW C \in SUBSET Assets, NEW D \in SUBSET Assets, NEW a,
         SlotsUsed(C, D) < MaxAssetsPerMargin
  PROVE  /\ Cardinality(C \cup D \cup {a}) <= MaxAssetsPerMargin
         /\ Cardinality(C \cup D) <= MaxAssetsPerMargin
<1>1. IsFiniteSet(C) /\ IsFiniteSet(D) /\ IsFiniteSet(C \cap D) /\ IsFiniteSet(C \cup D)
  <2>1. IsFiniteSet(Assets) /\ C \cap D \in SUBSET Assets /\ C \cup D \in SUBSET Assets
    BY CrossMarginAssumption
  <2> QED BY <2>1, FS_Subset
<1>2. Cardinality(C \cup D) = Cardinality(C) + Cardinality(D) - Cardinality(C \cap D)
  BY <1>1, FS_Union
<1>3. /\ Cardinality(C) \in Nat /\ Cardinality(D) \in Nat /\ Cardinality(C \cap D) \in Nat
      /\ Cardinality(C \cup D) \in Nat
  BY <1>1, FS_CardinalityType
<1>4. Cardinality(C \cup D \cup {a}) <= Cardinality(C \cup D) + 1
  <2>1. Cardinality((C \cup D) \cup {a}) =
          IF a \in C \cup D THEN Cardinality(C \cup D) ELSE Cardinality(C \cup D) + 1
    BY <1>1, FS_AddElement
  <2> QED BY <1>3, <2>1
<1>5. /\ Cardinality(C) + Cardinality(D) < MaxAssetsPerMargin
      /\ MaxAssetsPerMargin \in Nat
  BY CrossMarginAssumption DEF SlotsUsed
<1>6. Cardinality(C \cup D \cup {a}) \in Nat
  <2>1. IsFiniteSet((C \cup D) \cup {a})
    BY <1>1, FS_AddElement
  <2> QED BY <2>1, FS_CardinalityType
<1> QED BY <1>2, <1>3, <1>4, <1>5, <1>6

\* Giving slots back keeps an account within the limit.
LEMMA Fewer ==
  ASSUME NEW C \in SUBSET Assets, Cardinality(C) <= MaxAssetsPerMargin, NEW D \in SUBSET C
  PROVE  Cardinality(D) <= MaxAssetsPerMargin
<1>1. IsFiniteSet(C) /\ IsFiniteSet(D) /\ Cardinality(D) <= Cardinality(C)
  BY CrossMarginAssumption, FS_Subset
<1>2. Cardinality(C) \in Nat /\ Cardinality(D) \in Nat /\ MaxAssetsPerMargin \in Nat
  BY <1>1, FS_CardinalityType, CrossMarginAssumption
<1> QED BY <1>1, <1>2

\* Accounts begin with nothing.
LEMMA InitEstablishes == Init => IInv /\ NoEmptySlots /\ NoHiddenCollateral
<1> SUFFICES ASSUME Init PROVE IInv /\ NoEmptySlots /\ NoHiddenCollateral
  OBVIOUS
<1>1. /\ reserve = [a \in Assets |-> reserve[a]] /\ \A a \in Assets : ReserveOK(reserve[a])
  BY DEF Init, ReserveOK
<1>2. price \in [Assets -> Nat]
  BY CrossMarginAssumption DEF Init, Selections
<1>3. /\ assetConf = [a \in Assets |-> assetConf[a]]
      /\ \A a \in Assets : assetConf[a] \in AssetConfigs[a]
  BY DEF Init, Selections
<1>4. 0 \in U64
  BY ReserveMathAssumption DEF U64
<1>5. Types
  BY <1>1, <1>2, <1>3, <1>4 DEF Init, Types
<1>6. AssetsBounded
  BY FS_EmptySet, CrossMarginAssumption DEF Init, AssetsBounded
<1> QED BY <1>5, <1>6 DEF Init, IInv, DebtsListed, NoEmptySlots, NoHiddenCollateral

-----------------------------------------------------------------------------
(* One account changes *)

\* Balances V, collateral slots C, debt shares S and debt slots D of an account.
MarginOK(V, C, S, D) ==
  /\ V \in [Assets -> U64] /\ C \in SUBSET Assets
  /\ S \in [Assets -> Nat] /\ D \in SUBSET Assets
  /\ Cardinality(C \cup D) <= MaxAssetsPerMargin
  /\ \A a \in Assets \ D : S[a] = 0

Filled(V, C) == \A a \in C : V[a] > 0
Seen(V, C)   == \A a \in Assets : V[a] > 0 => a \in C

Becomes(m, V, C, S, D) ==
  /\ vault' = [vault EXCEPT ![m] = V]
  /\ collActive' = [collActive EXCEPT ![m] = C]
  /\ debtShares' = [debtShares EXCEPT ![m] = S]
  /\ debtActive' = [debtActive EXCEPT ![m] = D]
  /\ UNCHANGED <<price, assetConf>>

ReservesKept ==
  \/ UNCHANGED reserve
  \/ \E a \in Assets : \E r : reserve' = [reserve EXCEPT ![a] = r] /\ ReserveOK(r)

\* An account as it is satisfies what the invariant says of one account.
LEMMA AccountNow ==
  ASSUME IInv, NEW m \in Margins
  PROVE  MarginOK(vault[m], collActive[m], debtShares[m], debtActive[m])
BY DEF IInv, Types, DebtsListed, AssetsBounded, MarginOK

\* A step that changes one account keeps what the new account satisfies.
LEMMA AccountChange ==
  ASSUME IInv, NEW m \in Margins, NEW V, NEW C, NEW S, NEW D,
         MarginOK(V, C, S, D), Becomes(m, V, C, S, D), ReservesKept
  PROVE  /\ IInv'
         /\ NoEmptySlots /\ Filled(V, C) => NoEmptySlots'
         /\ NoHiddenCollateral /\ Seen(V, C) => NoHiddenCollateral'
<1>1. /\ reserve' = [a \in Assets |-> reserve'[a]] /\ \A a \in Assets : ReserveOK(reserve'[a])
  BY DEF IInv, Types, ReservesKept
<1>2. /\ vault' \in [Margins -> [Assets -> U64]] /\ collActive' \in [Margins -> SUBSET Assets]
      /\ debtShares' \in [Margins -> [Assets -> Nat]] /\ debtActive' \in [Margins -> SUBSET Assets]
  BY DEF IInv, Types, Becomes, MarginOK
<1>3. /\ vault'[m] = V /\ collActive'[m] = C /\ debtShares'[m] = S /\ debtActive'[m] = D
      /\ \A n \in Margins \ {m} : /\ vault'[n] = vault[n] /\ collActive'[n] = collActive[n]
                                 /\ debtShares'[n] = debtShares[n] /\ debtActive'[n] = debtActive[n]
  BY DEF IInv, Types, Becomes
<1>4. Types'
  BY <1>1, <1>2 DEF IInv, Types, Becomes, ReserveOK
<1>5. DebtsListed'
  BY <1>3 DEF IInv, DebtsListed, MarginOK
<1>6. AssetsBounded'
  BY <1>3 DEF IInv, AssetsBounded, MarginOK
<1>7. NoEmptySlots /\ Filled(V, C) => NoEmptySlots'
  BY <1>3 DEF NoEmptySlots, Filled
<1>8. NoHiddenCollateral /\ Seen(V, C) => NoHiddenCollateral'
  BY <1>3 DEF NoHiddenCollateral, Seen
<1> QED BY <1>4, <1>5, <1>6, <1>7, <1>8 DEF IInv

-----------------------------------------------------------------------------
(* The instructions *)

\* The mints withhold nothing.
NoFees == \A x \in U64 : TransferFee(x) = 0

\* Every asset is collateral for good, and nobody sends tokens from outside.
ProgramOnly ==
  /\ \A a \in Assets : \A c \in AssetConfigs[a] : c.collateral_enabled
  /\ Donations = {}

\* What a step keeps.
Keeps ==
  /\ IInv'
  /\ NoFees /\ NoEmptySlots => NoEmptySlots'
  /\ ProgramOnly /\ NoHiddenCollateral => NoHiddenCollateral'

\* What arrives is at most what is sent, and all of it where there are no fees.
LEMMA DeliveredType ==
  ASSUME NEW a \in Assets, NEW x \in U64
  PROVE  Pool(a)!Delivered(x) \in 0..x /\ (NoFees => Pool(a)!Delivered(x) = x)
BY CrossMarginAssumption DEF Pool!Delivered, NoFees, U64

\* An accepted deposit of x, as balances and slots of the account.
LEMMA DepositAccepted ==
  ASSUME IInv, NEW m \in Margins, NEW a \in Assets, NEW x \in Amounts, DepositAllowed(m, a, x)
  PROVE  LET V == [vault[m] EXCEPT ![a] = @ + Pool(a)!Delivered(x)]
             C == AfterDeposit(m, a)
         IN  /\ MarginOK(V, C, debtShares[m], debtActive[m])
             /\ NoFees /\ NoEmptySlots => Filled(V, C)
             /\ NoHiddenCollateral => Seen(V, C)
<1> DEFINE y == Pool(a)!Delivered(x)
           V == [vault[m] EXCEPT ![a] = @ + y]
           C == AfterDeposit(m, a)
<1>1. MarginOK(vault[m], collActive[m], debtShares[m], debtActive[m])
  BY AccountNow
<1>2. x \in U64 /\ x > 0
  BY CrossMarginAssumption DEF DepositAllowed
<1>3. y \in Nat /\ (NoFees => y > 0)
  BY <1>2, DeliveredType DEF U64
<1>4. vault[m][a] + y \in U64
  BY DEF DepositAllowed
<1> HIDE DEF y
<1>5. MarginOK(V, C, debtShares[m], debtActive[m])
  <2>1. Cardinality(C \cup debtActive[m]) <= MaxAssetsPerMargin
    <3>1. CASE vault[m][a] = 0
      <4>1. SlotsUsed(collActive[m], debtActive[m]) < MaxAssetsPerMargin
        BY <3>1 DEF DepositAllowed
      <4>2. Cardinality(collActive[m] \cup debtActive[m] \cup {a}) <= MaxAssetsPerMargin
        BY <1>1, <4>1, OneMore DEF MarginOK
      <4>3. C \cup debtActive[m] = collActive[m] \cup debtActive[m] \cup {a}
        BY <3>1 DEF AfterDeposit
      <4> QED BY <4>2, <4>3
    <3>2. CASE vault[m][a] # 0
      BY <1>1, <3>2 DEF MarginOK, AfterDeposit
    <3> QED BY <3>1, <3>2
  <2>2. V \in [Assets -> U64] /\ C \in SUBSET Assets
    BY <1>1, <1>4 DEF MarginOK, AfterDeposit
  <2> QED BY <1>1, <2>1, <2>2 DEF MarginOK
<1>6. NoFees /\ NoEmptySlots => Filled(V, C)
  BY <1>1, <1>3 DEF NoEmptySlots, Filled, MarginOK, AfterDeposit, U64
<1>7. NoHiddenCollateral => Seen(V, C)
  BY <1>1 DEF NoHiddenCollateral, Seen, MarginOK, AfterDeposit, U64
<1> QED BY <1>5, <1>6, <1>7 DEF y

\* user_deposit_collateral.
LEMMA DepositKeeps ==
  ASSUME IInv, NEW m \in Margins, NEW a \in Assets, NEW x \in Amounts, user_deposit_collateral(m, a, x)
  PROVE  Keeps
<1> DEFINE V == [vault[m] EXCEPT ![a] = @ + Pool(a)!Delivered(x)]
           C == AfterDeposit(m, a)
<1>1. DepositAllowed(m, a, x) /\ Becomes(m, V, C, debtShares[m], debtActive[m]) /\ ReservesKept
  BY DEF user_deposit_collateral, Becomes, ReservesKept, IInv, Types, world, pools
<1>2. /\ MarginOK(V, C, debtShares[m], debtActive[m])
      /\ NoFees /\ NoEmptySlots => Filled(V, C)
      /\ NoHiddenCollateral => Seen(V, C)
  BY <1>1, DepositAccepted
<1> HIDE DEF V, C
<1> QED BY <1>1, <1>2, AccountChange DEF Keeps

\* user_withdraw_collateral: an emptied vault gives its slot back.
LEMMA WithdrawKeeps ==
  ASSUME IInv, NEW m \in Margins, NEW a \in Assets, NEW x \in Amounts, user_withdraw_collateral(m, a, x)
  PROVE  Keeps
<1> DEFINE left == vault[m][a] - x
           V == [vault[m] EXCEPT ![a] = left]
           C == IF left = 0 THEN collActive[m] \ {a} ELSE collActive[m]
<1>1. MarginOK(vault[m], collActive[m], debtShares[m], debtActive[m])
  BY AccountNow
<1>2. left \in U64 /\ left <= vault[m][a]
  <2>1. x \in U64 /\ vault[m][a] \in U64 /\ left >= 0
    BY <1>1, CrossMarginAssumption DEF user_withdraw_collateral, MarginOK
  <2> QED BY <2>1, ReserveMathAssumption DEF U64
<1>3. Becomes(m, V, C, debtShares[m], debtActive[m])
  BY DEF user_withdraw_collateral, Becomes, IInv, Types, world
<1> HIDE DEF left
<1>4. MarginOK(V, C, debtShares[m], debtActive[m])
  <2>1. Cardinality(C \cup debtActive[m]) <= MaxAssetsPerMargin
    <3>1. /\ collActive[m] \cup debtActive[m] \in SUBSET Assets
          /\ C \cup debtActive[m] \in SUBSET (collActive[m] \cup debtActive[m])
          /\ Cardinality(collActive[m] \cup debtActive[m]) <= MaxAssetsPerMargin
      BY <1>1 DEF MarginOK
    <3> QED BY <3>1, Fewer
  <2> QED BY <1>1, <1>2, <2>1 DEF MarginOK
<1>5. ReservesKept
  BY DEF ReservesKept, user_withdraw_collateral, pools
<1>6. NoEmptySlots => Filled(V, C)
  BY <1>1, <1>2 DEF NoEmptySlots, Filled, MarginOK, U64
<1>7. NoHiddenCollateral => Seen(V, C)
  BY <1>1, <1>2 DEF NoHiddenCollateral, Seen, MarginOK, U64
<1> HIDE DEF V, C
<1> QED BY <1>3, <1>4, <1>5, <1>6, <1>7, AccountChange DEF Keeps

\* user_margin_swap: the slot of an emptied vault goes before the other one comes.
LEMMA SwapKeeps ==
  ASSUME IInv, NEW m \in Margins, NEW i \in Assets, NEW o \in Assets,
         NEW x \in Amounts, NEW out \in Amounts, user_margin_swap(m, i, o, x, out)
  PROVE  Keeps
<1> DEFINE left == vault[m][i] - x
           y == Pool(o)!Delivered(out)
           gained == vault[m][o] + y
           stay == IF left = 0 THEN collActive[m] \ {i} ELSE collActive[m]
           V == [vault[m] EXCEPT ![i] = left, ![o] = gained]
           C == stay \cup {o}
<1>1. MarginOK(vault[m], collActive[m], debtShares[m], debtActive[m])
  BY AccountNow
<1>2. x \in U64 /\ out \in U64 /\ out > 0 /\ i # o /\ gained \in U64 /\ left >= 0
  BY CrossMarginAssumption DEF user_margin_swap
<1>3. left \in U64
  <2>1. vault[m][i] \in U64
    BY <1>1 DEF MarginOK
  <2> QED BY <1>2, <2>1, ReserveMathAssumption DEF U64
<1>4. y \in Nat /\ (NoFees => y > 0)
  BY <1>2, DeliveredType DEF U64
<1>5. /\ Becomes(m, V, C, debtShares[m], debtActive[m])
      /\ o \notin collActive[m] => SlotsUsed(stay, debtActive[m]) < MaxAssetsPerMargin
  BY DEF user_margin_swap, SwapSlots, Becomes, IInv, Types, world
<1>6. NoFees => gained > 0
  BY <1>1, <1>4 DEF MarginOK, U64
<1> HIDE DEF left, y, gained
<1>7. MarginOK(V, C, debtShares[m], debtActive[m])
  <2>1. Cardinality(C \cup debtActive[m]) <= MaxAssetsPerMargin
    <3>1. CASE o \in collActive[m]
      <4>1. /\ collActive[m] \cup debtActive[m] \in SUBSET Assets
            /\ C \cup debtActive[m] \in SUBSET (collActive[m] \cup debtActive[m])
            /\ Cardinality(collActive[m] \cup debtActive[m]) <= MaxAssetsPerMargin
        BY <1>1, <3>1 DEF MarginOK
      <4> QED BY <4>1, Fewer
    <3>2. CASE o \notin collActive[m]
      <4>1. stay \in SUBSET Assets /\ debtActive[m] \in SUBSET Assets
        BY <1>1 DEF MarginOK
      <4>2. Cardinality(stay \cup debtActive[m] \cup {o}) <= MaxAssetsPerMargin
        BY <1>5, <3>2, <4>1, OneMore
      <4>3. C \cup debtActive[m] = stay \cup debtActive[m] \cup {o}
        OBVIOUS
      <4> QED BY <4>2, <4>3
    <3> QED BY <3>1, <3>2
  <2> QED BY <1>1, <1>2, <1>3, <2>1 DEF MarginOK
<1>8. ReservesKept
  BY DEF ReservesKept, user_margin_swap, pools
<1>9. /\ V[o] = gained /\ V[i] = left
      /\ \A b \in Assets \ {i, o} : V[b] = vault[m][b]
  BY <1>1, <1>2 DEF MarginOK
<1>10. NoFees /\ NoEmptySlots => Filled(V, C)
  <2> SUFFICES ASSUME NoFees, NoEmptySlots, NEW b \in C PROVE V[b] > 0
    BY DEF Filled
  <2>1. CASE b = o
    BY <1>6, <1>9, <2>1
  <2>2. CASE b = i /\ b # o
    BY <1>3, <1>9, <2>2 DEF U64
  <2>3. CASE b # i /\ b # o
    BY <1>1, <1>9, <2>3 DEF NoEmptySlots, MarginOK
  <2> QED BY <2>1, <2>2, <2>3
<1>11. NoHiddenCollateral => Seen(V, C)
  <2> SUFFICES ASSUME NoHiddenCollateral, NEW b \in Assets, V[b] > 0, b # o PROVE b \in stay
    BY DEF Seen
  <2>1. CASE b = i
    <3>1. left > 0
      BY <1>9, <2>1
    <3>2. vault[m][i] > 0
      BY <1>1, <1>2, <3>1 DEF MarginOK, U64, left
    <3>3. left # 0
      BY <1>3, <3>1 DEF U64
    <3> QED BY <2>1, <3>2, <3>3 DEF NoHiddenCollateral
  <2>2. CASE b # i
    BY <1>9, <2>2 DEF NoHiddenCollateral
  <2> QED BY <2>1, <2>2
<1> HIDE DEF V, C, stay
<1> QED BY <1>5, <1>7, <1>8, <1>10, <1>11, AccountChange DEF Keeps

\* A loan of x of asset a, on top of the balances W and the collateral slots B.
LEMMA LoanKeeps ==
  ASSUME IInv, NEW m \in Margins, NEW a \in Assets, NEW x \in Amounts, NEW B, NEW W,
         MarginOK(W, B, debtShares[m], debtActive[m]), W[a] = vault[m][a],
         LoanAllowed(a, x), TakeLoan(m, a, x, B), UNCHANGED world,
         vault' = [vault EXCEPT ![m] = [W EXCEPT ![a] = @ + Pool(a)!Delivered(x)]]
  PROVE  /\ IInv'
         /\ NoFees /\ NoEmptySlots /\ Filled(W, B) => NoEmptySlots'
         /\ ProgramOnly /\ NoHiddenCollateral /\ Seen(W, B) => NoHiddenCollateral'
<1> DEFINE y == Pool(a)!Delivered(x)
           loan == Loan(m, a, x)
           V == [W EXCEPT ![a] = @ + y]
           C == IF vault[m][a] = 0 /\ assetConf[a].collateral_enabled THEN B \cup {a} ELSE B
           S == [debtShares[m] EXCEPT ![a] = loan.position]
           D == debtActive[m] \cup {a}
<1>1. x \in U64 /\ x > 0 /\ Pool(a)!AccrualOK /\ vault[m][a] + x \in U64
  BY CrossMarginAssumption DEF LoanAllowed, LendingOpen, TakeLoan
<1>2. y \in 0..x /\ (NoFees => y = x)
  BY <1>1, DeliveredType
<1>3. ReserveOK(reserve[a]) /\ debtShares[m][a] \in Nat /\ W[a] \in U64
  BY DEF IInv, Types, MarginOK
<1>4. loan.position \in Nat /\ ReserveOK(loan.reserve)
  BY <1>1, <1>3, LoanEffect DEF U64
<1>5. /\ Becomes(m, V, C, S, D)
      /\ ReservesKept
  BY <1>4 DEF TakeLoan, Becomes, ReservesKept, IInv, Types, world
<1> HIDE DEF y, loan
<1>6. V \in [Assets -> U64]
  <2>1. W[a] + y \in U64
    <3>1. W[a] + x \in 0..MaxU64 /\ W[a] \in Nat /\ x \in Nat /\ y \in 0..x /\ MaxU64 \in Nat
      BY <1>1, <1>2, <1>3, ReserveMathAssumption DEF U64
    <3> QED BY <3>1 DEF U64
  <2> QED BY <2>1 DEF MarginOK
<1>7. Cardinality(C \cup D) <= MaxAssetsPerMargin
  <2>1. CASE debtShares[m][a] = 0
    <3>1. SlotsUsed(B, debtActive[m]) < MaxAssetsPerMargin
      BY <2>1 DEF TakeLoan
    <3>2. Cardinality(B \cup debtActive[m] \cup {a}) <= MaxAssetsPerMargin
      BY <3>1, OneMore DEF MarginOK
    <3>3. C \cup D = B \cup debtActive[m] \cup {a}
      OBVIOUS
    <3> QED BY <3>2, <3>3
  <2>2. CASE debtShares[m][a] # 0
    <3>1. a \in debtActive[m]
      BY <2>2 DEF MarginOK
    <3>2. C \cup D = B \cup debtActive[m]
      BY <3>1
    <3> QED BY <3>2 DEF MarginOK
  <2> QED BY <2>1, <2>2
<1>8. MarginOK(V, C, S, D)
  BY <1>4, <1>6, <1>7 DEF MarginOK
<1>9. NoFees /\ Filled(W, B) => Filled(V, C)
  BY <1>1, <1>2, <1>3 DEF Filled, MarginOK, U64
<1>10. ProgramOnly /\ Seen(W, B) => Seen(V, C)
  <2>1. ProgramOnly => assetConf[a].collateral_enabled
    BY DEF ProgramOnly, IInv, Types
  <2>2. W[a] = 0 \/ W[a] > 0
    BY <1>3 DEF U64
  <2> QED BY <2>1, <2>2 DEF Seen, MarginOK
<1> HIDE DEF V, C, S, D
<1> QED BY <1>5, <1>8, <1>9, <1>10, AccountChange

\* user_borrow.
LEMMA BorrowKeeps ==
  ASSUME IInv, NEW m \in Margins, NEW a \in Assets, NEW x \in Amounts, user_borrow(m, a, x)
  PROVE  Keeps
<1>1. MarginOK(vault[m], collActive[m], debtShares[m], debtActive[m])
  BY AccountNow
<1>2. /\ LoanAllowed(a, x) /\ TakeLoan(m, a, x, collActive[m]) /\ UNCHANGED world
      /\ vault' = [vault EXCEPT ![m] = [vault[m] EXCEPT ![a] = @ + Pool(a)!Delivered(x)]]
  BY DEF user_borrow
<1>3. /\ NoEmptySlots => Filled(vault[m], collActive[m])
      /\ NoHiddenCollateral => Seen(vault[m], collActive[m])
  BY DEF NoEmptySlots, Filled, NoHiddenCollateral, Seen
<1> QED BY <1>1, <1>2, <1>3, LoanKeeps DEF Keeps

\* user_deposit_and_borrow: the deposit may take a slot before the loan takes two.
LEMMA CompositeKeeps ==
  ASSUME IInv, NEW m \in Margins, NEW c \in Assets, NEW a \in Assets,
         NEW x \in Amounts, NEW y \in Amounts, user_deposit_and_borrow(m, c, a, x, y)
  PROVE  Keeps
<1> DEFINE W == [vault[m] EXCEPT ![c] = @ + Pool(c)!Delivered(x)]
           B == AfterDeposit(m, c)
<1>1. /\ DepositAllowed(m, c, x) /\ c # a
      /\ LoanAllowed(a, y) /\ TakeLoan(m, a, y, B) /\ UNCHANGED world
  BY DEF user_deposit_and_borrow
<1>2. /\ MarginOK(W, B, debtShares[m], debtActive[m])
      /\ NoFees /\ NoEmptySlots => Filled(W, B)
      /\ NoHiddenCollateral => Seen(W, B)
  BY <1>1, DepositAccepted
<1>3. vault[m] \in [Assets -> U64] /\ vault \in [Margins -> [Assets -> U64]]
  BY DEF IInv, Types
<1>4. W[a] = vault[m][a]
  BY <1>1, <1>3
<1>5. vault' = [vault EXCEPT ![m] = [W EXCEPT ![a] = @ + Pool(a)!Delivered(y)]]
  BY <1>1, <1>3 DEF user_deposit_and_borrow
<1> HIDE DEF W, B
<1> QED BY <1>1, <1>2, <1>4, <1>5, LoanKeeps DEF Keeps

-----------------------------------------------------------------------------
(* Repayment and liquidation *)

\* A payment of `sent` to reserve d, on top of balances V and slots C.
LEMMA SettleKeeps ==
  ASSUME IInv, NEW m \in Margins, NEW d \in Assets, NEW sent \in U64,
         Pool(d)!AccrualOK, Pool(d)!Owed(m) > 0,
         Settle(m, d, Pool(d)!Settlement(m, sent, Pool(d)!Owed(m))), UNCHANGED world,
         NEW V \in [Assets -> U64], NEW C \in SUBSET collActive[m],
         vault' = [vault EXCEPT ![m] = V], collActive' = [collActive EXCEPT ![m] = C]
  PROVE  /\ IInv'
         /\ NoEmptySlots /\ Filled(V, C) => NoEmptySlots'
         /\ NoHiddenCollateral /\ Seen(V, C) => NoHiddenCollateral'
<1> DEFINE s == Pool(d)!Settlement(m, sent, Pool(d)!Owed(m))
           S == [debtShares[m] EXCEPT ![d] = s.shares]
           D == IF s.shares = 0 THEN debtActive[m] \ {d} ELSE debtActive[m]
<1>1. MarginOK(vault[m], collActive[m], debtShares[m], debtActive[m])
  BY AccountNow
<1>2. ReserveOK(reserve[d]) /\ debtShares[m][d] \in Nat
  BY DEF IInv, Types
<1>3. s.shares \in Nat /\ ReserveOK(s.reserve)
  BY <1>2, SettlementEffect
<1>4. d \in debtActive[m]
  <2>1. debtShares[m][d] > 0
    BY <1>2, OwedType
  <2> QED BY <1>1, <2>1 DEF MarginOK
<1>5. Becomes(m, V, C, S, D) /\ ReservesKept
  BY <1>3 DEF Settle, Becomes, ReservesKept, IInv, Types, world
<1> HIDE DEF s
<1>6. Cardinality(C \cup D) <= MaxAssetsPerMargin
  <2>1. /\ collActive[m] \cup debtActive[m] \in SUBSET Assets
        /\ C \cup D \in SUBSET (collActive[m] \cup debtActive[m])
        /\ Cardinality(collActive[m] \cup debtActive[m]) <= MaxAssetsPerMargin
    BY <1>1 DEF MarginOK
  <2> QED BY <2>1, Fewer
<1>7. MarginOK(V, C, S, D)
  BY <1>1, <1>3, <1>4, <1>6 DEF MarginOK
<1> HIDE DEF S, D
<1> QED BY <1>5, <1>7, AccountChange

\* The smaller of two amounts is part of the other.
LEMMA PartOf ==
  ASSUME NEW v \in U64, NEW g \in Nat
  PROVE  /\ MinOf(g, v) \in 0..v /\ MinOf(g, v) \in U64
         /\ MinOf(v, g) \in 0..v /\ MinOf(v, g) \in U64
<1>1. MaxU64 \in Nat /\ v \in Nat /\ v <= MaxU64
  BY ReserveMathAssumption DEF U64
<1> QED BY <1>1 DEF MinOf, U64

\* What is left of an amount is an amount.
LEMMA RestOf ==
  ASSUME NEW v \in U64, NEW x \in 0..v
  PROVE  v - x \in U64 /\ x \in U64
<1>1. MaxU64 \in Nat /\ v \in Nat /\ v <= MaxU64
  BY ReserveMathAssumption DEF U64
<1> QED BY <1>1 DEF U64

\* No payment is larger than 64 bits, whatever is owed.
LEMMA PaymentType ==
  ASSUME NEW x \in Payments, NEW owed \in Nat
  PROVE  MinOf(x, owed) \in U64
<1>1. x \in U64 /\ MaxU64 \in Nat
  BY CrossMarginAssumption, ReserveMathAssumption DEF Payments, U64
<1> QED BY <1>1 DEF MinOf, U64

\* user_repay_from_margin: an emptied vault gives its slot back.
LEMMA RepayFromMarginKeeps ==
  ASSUME IInv, NEW m \in Margins, NEW a \in Assets, NEW x \in Payments, user_repay_from_margin(m, a, x)
  PROVE  Keeps
<1> DEFINE owed == Pool(a)!Owed(m)
           sent == MinOf(GrossUp(MinOf(x, owed)), vault[m][a])
           V == [vault[m] EXCEPT ![a] = @ - sent]
           C == IF sent = vault[m][a] THEN collActive[m] \ {a} ELSE collActive[m]
<1>1. /\ Pool(a)!AccrualOK /\ owed > 0 /\ sent > 0
      /\ Settle(m, a, Pool(a)!Settlement(m, sent, owed)) /\ UNCHANGED world
      /\ vault' = [vault EXCEPT ![m] = V] /\ collActive' = [collActive EXCEPT ![m] = C]
  BY DEF user_repay_from_margin
<1>2. /\ ReserveOK(reserve[a]) /\ debtShares[m][a] \in Nat
      /\ vault[m] \in [Assets -> U64] /\ collActive[m] \in SUBSET Assets
  BY DEF IInv, Types
<1>3. sent \in U64 /\ sent \in 0..vault[m][a]
  <2>1. owed \in Nat
    BY <1>1, <1>2, OwedType
  <2>2. GrossUp(MinOf(x, owed)) \in Nat
    BY <2>1, PaymentType, CrossMarginAssumption
  <2>3. vault[m][a] \in U64
    BY <1>2
  <2> QED BY <2>2, <2>3, PartOf
<1>4. /\ IInv'
      /\ NoEmptySlots /\ Filled(V, C) => NoEmptySlots'
      /\ NoHiddenCollateral /\ Seen(V, C) => NoHiddenCollateral'
  <2>1. V \in [Assets -> U64]
    <3>1. vault[m][a] \in U64
      BY <1>2
    <3> HIDE DEF sent
    <3>2. vault[m][a] - sent \in U64
      BY <1>3, <3>1, RestOf
    <3> QED BY <1>2, <3>2
  <2>2. C \in SUBSET collActive[m]
    OBVIOUS
  <2> HIDE DEF V, C, sent
  <2> QED BY <1>1, <1>3, <2>1, <2>2, SettleKeeps
<1> HIDE DEF sent
<1>5. NoEmptySlots => Filled(V, C)
  BY <1>2, <1>3 DEF NoEmptySlots, Filled, U64
<1>6. NoHiddenCollateral => Seen(V, C)
  BY <1>2, <1>3 DEF NoHiddenCollateral, Seen, U64
<1> QED BY <1>4, <1>5, <1>6 DEF Keeps

\* public_repay_from_wallet leaves vaults and slots alone.
LEMMA RepayFromWalletKeeps ==
  ASSUME IInv, NEW m \in Margins, NEW a \in Assets, NEW x \in Payments, public_repay_from_wallet(m, a, x)
  PROVE  Keeps
<1> DEFINE owed == Pool(a)!Owed(m)
           sent == GrossUp(MinOf(x, owed))
<1>1. /\ Pool(a)!AccrualOK /\ owed > 0 /\ sent \in U64
      /\ Settle(m, a, Pool(a)!Settlement(m, sent, owed)) /\ UNCHANGED world
      /\ vault' = vault /\ collActive' = collActive
  BY DEF public_repay_from_wallet
<1>2. /\ vault[m] \in [Assets -> U64] /\ collActive[m] \in SUBSET collActive[m]
      /\ vault' = [vault EXCEPT ![m] = vault[m]]
      /\ collActive' = [collActive EXCEPT ![m] = collActive[m]]
  BY <1>1 DEF IInv, Types
<1>3. IInv'
  <2> HIDE DEF sent
  <2> QED BY <1>1, <1>2, SettleKeeps
<1> QED BY <1>1, <1>3 DEF Keeps, NoEmptySlots, NoHiddenCollateral

\* A liquidator is given no more than the vault holds.
LEMMA SeizableType ==
  ASSUME IInv, NEW m \in Margins, NEW c \in Assets, NEW d \in Assets, price[c] > 0, NEW x \in Nat
  PROVE  Seizable(m, c, d, x) \in 0..vault[m][c]
<1> DEFINE bonus == assetConf[c].liquidation_bonus_bps
           value == mul_div_floor(ValueUp(x, d), BasisPoints + bonus, BasisPoints)
<1>1. /\ Scale \in Nat \ {0} /\ BasisPoints \in Nat \ {0} /\ bonus \in Nat
      /\ price[d] \in Nat /\ price[c] \in Nat \ {0} /\ vault[m][c] \in Nat
  BY CrossMarginAssumption, ReserveMathAssumption DEF IInv, Types, AssetConfigRecords, U64
<1> HIDE DEF bonus
<1>2. ValueUp(x, d) \in Nat
  BY <1>1, CeilBounds DEF ValueUp
<1>3. value \in Nat
  <2>1. BasisPoints + bonus \in Nat
    BY <1>1
  <2> QED BY <1>1, <1>2, <2>1, FloorBounds
<1> HIDE DEF value
<1>4. TokensWorth(value, c) \in Nat
  BY <1>1, <1>3, FloorBounds DEF TokensWorth
<1>5. Seizable(m, c, d, x) = MinOf(vault[m][c], TokensWorth(value, c))
  BY DEF Seizable, value, bonus
<1> QED BY <1>1, <1>4, <1>5 DEF MinOf

\* public_liquidate judges the vault as emptied by what arrived.
LEMMA LiquidateKeeps ==
  ASSUME IInv, NEW m \in Margins, NEW c \in Assets, NEW d \in Assets, NEW x \in Amounts,
         public_liquidate(m, c, d, x)
  PROVE  Keeps
<1> DEFINE owed  == Pool(d)!Owed(m)
           repay == MinOf(MinOf(x, owed), MaxOf(owed \div 2, 1))
           seize == Seizable(m, c, d, repay)
           left  == vault[m][c] - Pool(c)!Delivered(seize)
           V == [vault[m] EXCEPT ![c] = @ - seize]
           C == IF left = 0 THEN collActive[m] \ {c} ELSE collActive[m]
<1>1. /\ Pool(d)!AccrualOK /\ owed > 0 /\ seize > 0 /\ price[c] > 0
      /\ Settle(m, d, Pool(d)!Settlement(m, repay, owed)) /\ UNCHANGED world
      /\ vault' = [vault EXCEPT ![m] = V] /\ collActive' = [collActive EXCEPT ![m] = C]
  BY DEF public_liquidate
<1>2. /\ ReserveOK(reserve[d]) /\ debtShares[m][d] \in Nat
      /\ vault[m] \in [Assets -> U64] /\ collActive[m] \in SUBSET Assets
  BY DEF IInv, Types
<1>3. repay \in U64
  <2>1. owed \in Nat
    BY <1>1, <1>2, OwedType
  <2>2. MinOf(x, owed) \in U64
    BY <2>1, PaymentType DEF Payments
  <2>3. MaxOf(owed \div 2, 1) \in Nat
    <3> HIDE DEF owed
    <3>1. owed \div 2 \in Nat
      BY <2>1
    <3> QED BY <3>1 DEF MaxOf
  <2> HIDE DEF owed
  <2> QED BY <2>2, <2>3, PartOf
<1>4. seize \in 0..vault[m][c] /\ seize \in U64
  <2>1. seize \in 0..vault[m][c]
    <3>1. repay \in Nat
      BY <1>3 DEF U64
    <3> HIDE DEF repay
    <3> QED BY <1>1, <3>1, SeizableType
  <2>2. vault[m][c] \in U64
    BY <1>2
  <2> HIDE DEF seize
  <2> QED BY <2>1, <2>2, RestOf
<1> HIDE DEF repay, seize
<1>5. Pool(c)!Delivered(seize) \in 0..seize /\ (NoFees => left = vault[m][c] - seize)
  BY <1>4, DeliveredType
<1>6. left >= vault[m][c] - seize /\ left <= vault[m][c] /\ left \in Nat
  BY <1>2, <1>4, <1>5 DEF U64
<1> HIDE DEF left
<1>7. V \in [Assets -> U64]
  <2>1. vault[m][c] \in U64
    BY <1>2
  <2>2. vault[m][c] - seize \in U64
    BY <1>4, <2>1, RestOf
  <2> QED BY <1>2, <2>2
<1>8. /\ IInv'
      /\ NoEmptySlots /\ Filled(V, C) => NoEmptySlots'
      /\ NoHiddenCollateral /\ Seen(V, C) => NoHiddenCollateral'
  <2>1. C \in SUBSET collActive[m]
    OBVIOUS
  <2> HIDE DEF V, C
  <2> QED BY <1>1, <1>3, <1>7, <2>1, SettleKeeps
<1>9. NoFees /\ NoEmptySlots => Filled(V, C)
  BY <1>2, <1>5, <1>6 DEF NoEmptySlots, Filled, U64
<1>10. NoHiddenCollateral => Seen(V, C)
  BY <1>2, <1>4, <1>6 DEF NoHiddenCollateral, Seen, U64
<1> QED BY <1>8, <1>9, <1>10 DEF Keeps

\* Tokens from outside fill a vault, and may be unseen there.
LEMMA DonateKeeps ==
  ASSUME IInv, NEW m \in Margins, NEW a \in Assets, NEW x \in Donations, Donate(m, a, x)
  PROVE  Keeps
<1> DEFINE V == [vault[m] EXCEPT ![a] = @ + x]
<1>1. MarginOK(vault[m], collActive[m], debtShares[m], debtActive[m])
  BY AccountNow
<1>2. vault[m][a] + x \in U64 /\ x \in U64
  BY CrossMarginAssumption DEF Donate
<1>3. MarginOK(V, collActive[m], debtShares[m], debtActive[m])
  BY <1>1, <1>2 DEF MarginOK
<1>4. Becomes(m, V, collActive[m], debtShares[m], debtActive[m]) /\ ReservesKept
  BY DEF Donate, Becomes, ReservesKept, IInv, Types, world, pools, registry
<1>5. NoEmptySlots => Filled(V, collActive[m])
  BY <1>1, <1>2 DEF NoEmptySlots, Filled, MarginOK, U64
<1>6. ~ProgramOnly
  BY DEF ProgramOnly
<1> HIDE DEF V
<1> QED BY <1>3, <1>4, <1>5, <1>6, AccountChange DEF Keeps

\* Steps that leave reserves, vaults, debts and registry as they are.
LEMMA OtherKeeps ==
  ASSUME IInv, UNCHANGED <<reserve, debtShares, vault, registry>>,
         price' \in [Assets -> Nat],
         assetConf' = [a \in Assets |-> assetConf'[a]],
         \A a \in Assets : assetConf'[a] \in AssetConfigs[a]
  PROVE  Keeps
<1>1. IInv'
  BY DEF IInv, Types, DebtsListed, AssetsBounded, ReserveOK, registry
<1> QED BY <1>1 DEF Keeps, NoEmptySlots, NoHiddenCollateral, registry

\* Every step of the program keeps the three.
LEMMA EveryStep == IInv /\ [Next]_vars => Keeps
<1> SUFFICES ASSUME IInv, [Next]_vars PROVE Keeps
  OBVIOUS
<1>1. /\ price \in [Assets -> Nat] /\ assetConf = [a \in Assets |-> assetConf[a]]
      /\ \A a \in Assets : assetConf[a] \in AssetConfigs[a]
  BY DEF IInv, Types
<1>2. CASE UNCHANGED vars
  BY <1>1, <1>2, OtherKeeps DEF vars, world, pools, registry
<1>3. ASSUME NEW m \in Margins, user_create_margin(m) \/ user_close_margin(m) PROVE Keeps
  BY <1>1, <1>3, OtherKeeps DEF user_create_margin, user_close_margin, world, pools
<1>4. ASSUME NEW m \in Margins, NEW a \in Assets,
             user_open_debt_position(m, a) \/ user_close_debt_position(m, a)
      PROVE  Keeps
  BY <1>1, <1>4, OtherKeeps DEF user_open_debt_position, user_close_debt_position, world, pools
<1>5. ASSUME NEW md \in Modes, admin_set_operating_mode(md) PROVE Keeps
  BY <1>1, <1>5, OtherKeeps DEF admin_set_operating_mode, pools
<1>6. ASSUME NEW a \in Assets, NEW p \in Prices[a], SetPrice(a, p) PROVE Keeps
  <2>1. p \in Nat
    BY CrossMarginAssumption
  <2>2. price' \in [Assets -> Nat]
    BY <1>1, <1>6, <2>1 DEF SetPrice
  <2> QED BY <1>1, <1>6, <2>2, OtherKeeps DEF SetPrice, pools
<1>7. ASSUME NEW a \in Assets, NEW c \in AssetConfigs[a], admin_update_asset_config(a, c) PROVE Keeps
  <2>1. /\ assetConf' = [b \in Assets |-> assetConf'[b]]
        /\ \A b \in Assets : assetConf'[b] \in AssetConfigs[b]
    BY <1>1, <1>7 DEF admin_update_asset_config
  <2> QED BY <1>1, <1>7, <2>1, OtherKeeps DEF admin_update_asset_config, pools
<1>8. CASE Tick
  BY <1>1, <1>8, OtherKeeps DEF Tick, pools
<1>9. CASE MarginStep
  BY <1>3, <1>4, <1>5, <1>6, <1>7, <1>8, <1>9, DepositKeeps, WithdrawKeeps, BorrowKeeps,
     RepayFromMarginKeeps, RepayFromWalletKeeps, CompositeKeeps, SwapKeeps, LiquidateKeeps,
     DonateKeeps DEF MarginStep
<1> QED BY <1>2, <1>9 DEF Next

-----------------------------------------------------------------------------
(* The theorems *)

\* An account never spans more assets than max_assets_per_margin allows, at any
\* prices, fees and donations, although a loan takes a collateral slot for what
\* it delivers without looking at the count.
THEOREM AssetsAlwaysBounded == Spec => []AssetsBounded
<1>1. IInv => AssetsBounded
  BY DEF IInv
<1>2. IInv /\ [Next]_vars => IInv'
  BY EveryStep DEF Keeps
<1> QED BY <1>1, <1>2, InitEstablishes, PTL DEF Spec

\* No slot is left behind by an emptied vault or taken for an empty one, as long
\* as the mints withhold no fee.
THEOREM NoSlotEverEmpty ==
  ASSUME NoFees
  PROVE  Spec => []NoEmptySlots
<1>1. (IInv /\ NoEmptySlots) /\ [Next]_vars => (IInv /\ NoEmptySlots)'
  BY EveryStep DEF Keeps
<1> QED BY <1>1, InitEstablishes, PTL DEF Spec

\* As long as every asset is accepted as collateral and tokens come by way of
\* the program only, a margin vault that holds tokens is always registered:
\* every health check and every liquidation sees them.
THEOREM NothingEverHidden ==
  ASSUME ProgramOnly
  PROVE  Spec => []NoHiddenCollateral
<1>1. (IInv /\ NoHiddenCollateral) /\ [Next]_vars => (IInv /\ NoHiddenCollateral)'
  BY EveryStep DEF Keeps
<1> QED BY <1>1, InitEstablishes, PTL DEF Spec
=============================================================================
