--------------------------- MODULE LendingPool_proofs ---------------------------
(***************************************************************************)
(* What holds of a lending pool for every set of lenders and margin        *)
(* accounts, every rate curve and cap, every transfer fee and every        *)
(* token amount: its accounting invariants, proved together because each   *)
(* needs the others, and the share price that never falls.                 *)
(***************************************************************************)
EXTENDS LendingPool, ReserveMath_proofs

\* The inductive invariant.  SharesConserved bounds a single position by the
\* total; with DebtSharesBacked no subtraction of a repayment saturates; with
\* LendersBacked the lenders' total is positive whenever it is divided by.
IInv ==
  /\ TypeOK
  /\ SharesConserved
  /\ DebtSharesBacked
  /\ VaultCoversLiquidity
  /\ LendersBacked
  /\ DebtRegistered

-----------------------------------------------------------------------------
(* The reserve an instruction starts from *)

\* What an accrual that succeeds makes of a reserve that satisfies IInv.
LEMMA CurrentReserve ==
  ASSUME IInv, AccrualOK
  PROVE  /\ Current \in ReserveRecords
         /\ Current.accounted_liquidity_assets = reserve.accounted_liquidity_assets
         /\ Current.total_borrow_shares = reserve.total_borrow_shares
         /\ Current.total_borrow_shares <= Current.total_borrow_assets
         /\ Current.total_borrow_shares = 0 => Current.total_borrow_assets = 0
         /\ lender_total_assets(Current) \in Nat
         /\ lender_total_assets(Current) >= lender_total_assets(reserve)
         /\ lender_total_assets(reserve) \in Nat
         /\ lender_total_assets(Current) >= shareSupply
<1>1. reserve \in ReserveRecords /\ config \in ConfigRecords /\ now \in Nat
  BY LendingPoolAssumption DEF IInv, TypeOK
<1>2. AccrualSucceeds(reserve, config, now)
  BY DEF AccrualOK
<1>3. /\ Current \in ReserveRecords
      /\ Current.accounted_liquidity_assets = reserve.accounted_liquidity_assets
      /\ Current.total_borrow_shares = reserve.total_borrow_shares
      /\ Current.total_borrow_assets >= reserve.total_borrow_assets
      /\ Current.accrued_protocol_fees - reserve.accrued_protocol_fees
           <= Current.total_borrow_assets - reserve.total_borrow_assets
      /\ reserve.total_borrow_assets = 0 => Current.total_borrow_assets = 0
  BY <1>1, <1>2, AccrualEffect DEF Current
<1>4. lender_total_assets(reserve) >= shareSupply /\ shareSupply \in Nat
  BY DEF IInv, LendersBacked, TypeOK, U64
<1>5. /\ reserve.total_borrow_shares <= reserve.total_borrow_assets
      /\ reserve.total_borrow_shares = 0 => reserve.total_borrow_assets = 0
  BY DEF IInv, DebtSharesBacked
<1> HIDE DEF Current
<1>6. /\ lender_total_assets(Current) \in Int
      /\ lender_total_assets(reserve) \in Int
      /\ lender_total_assets(Current) >= lender_total_assets(reserve)
  BY <1>1, <1>3 DEF lender_total_assets, ReserveRecords, U64
<1>7. /\ Current.total_borrow_shares <= Current.total_borrow_assets
      /\ Current.total_borrow_shares = 0 => Current.total_borrow_assets = 0
  BY <1>1, <1>3, <1>5 DEF ReserveRecords, U64
<1> QED
  BY <1>3, <1>4, <1>6, <1>7

\* A margin account holds no more debt shares than there are, a lender no more
\* share tokens.
LEMMA HoldingsBounded ==
  ASSUME IInv
  PROVE  /\ \A m \in Margins : debtShares[m] \in Nat /\ debtShares[m] <= reserve.total_borrow_shares
         /\ \A l \in Lenders : lenderShares[l] \in Nat /\ lenderShares[l] <= shareSupply
<1>1. /\ debtShares \in [Margins -> Nat] /\ lenderShares \in [Lenders -> Nat]
      /\ TotalOf(debtShares) = reserve.total_borrow_shares
      /\ TotalOf(lenderShares) = shareSupply
  BY DEF IInv, TypeOK, SharesConserved
<1>2. IsFiniteSet(Margins) /\ IsFiniteSet(Lenders)
  BY LendingPoolAssumption
<1>3. ASSUME NEW m \in Margins PROVE debtShares[m] \in Nat /\ debtShares[m] <= TotalOf(debtShares)
  <2>1. debtShares[m] \in Nat
    BY <1>1
  <2> QED
    BY <2>1, <1>1, <1>2, TotalOfExcept
<1>4. ASSUME NEW l \in Lenders PROVE lenderShares[l] \in Nat /\ lenderShares[l] <= TotalOf(lenderShares)
  <2>1. lenderShares[l] \in Nat
    BY <1>1
  <2> QED
    BY <2>1, <1>1, <1>2, TotalOfExcept
<1> QED
  BY <1>1, <1>3, <1>4

\* What a transfer delivers is a natural number no larger than what was sent.
LEMMA DeliveredType ==
  ASSUME NEW x \in U64
  PROVE  Delivered(x) \in Nat /\ Delivered(x) <= x
<1>1. TransferFee(x) \in 0..x /\ x \in Nat /\ MaxU64 \in Nat
  BY LendingPoolAssumption, ReserveMathAssumption DEF U64
<1> QED
  BY <1>1 DEF Delivered

\* What a position owes is a natural number, at most the whole debt.
LEMMA OwedType ==
  ASSUME IInv, AccrualOK, NEW m \in Margins
  PROVE  Owed(m) \in Nat /\ Owed(m) <= Current.total_borrow_assets
<1>1. debtShares[m] \in Nat /\ debtShares[m] <= reserve.total_borrow_shares
  BY HoldingsBounded
<1>2. /\ Current \in ReserveRecords
      /\ Current.total_borrow_shares = reserve.total_borrow_shares
      /\ Current.total_borrow_shares <= Current.total_borrow_assets
  BY CurrentReserve
<1> HIDE DEF Current
<1>3. Current.total_borrow_shares \in Nat /\ Current.total_borrow_assets \in Nat
  BY <1>2 DEF ReserveRecords, U64
<1> QED
  BY <1>1, <1>2, <1>3, OwedBounds DEF Owed

-----------------------------------------------------------------------------
(* The initial state *)

\* A pool without lenders, debt or cash satisfies the invariant.
LEMMA InitInvariant == Init => IInv
<1> SUFFICES ASSUME Init PROVE IInv
  OBVIOUS
<1>1. TypeOK
  BY ReserveMathAssumption, LendingPoolAssumption
     DEF Init, TypeOK, ReserveRecords, U64
<1>2. SharesConserved
  <2>1. TotalOf(debtShares) = 0 /\ TotalOf(lenderShares) = 0
    BY TotalOfZero DEF Init
  <2> QED
    BY <2>1 DEF Init, SharesConserved
<1>3. DebtSharesBacked /\ VaultCoversLiquidity /\ LendersBacked /\ DebtRegistered
  BY DEF Init, DebtSharesBacked, VaultCoversLiquidity, LendersBacked, DebtRegistered,
         lender_total_assets
<1> QED
  BY <1>1, <1>2, <1>3 DEF IInv

-----------------------------------------------------------------------------
(* The lenders' instructions.  Each lemma shows the invariant and, with the *)
(* same bounds, that the assets behind a share do not fall.                 *)

PriceKept ==
  shareSupply > 0 /\ shareSupply' > 0 =>
    lender_total_assets(reserve)' * shareSupply >= lender_total_assets(reserve) * shareSupply'

\* Shares bought at a price rounded up leave the price of the others alone.
LEMMA SupplyStep ==
  ASSUME IInv, NEW l \in Lenders, NEW assets \in Amounts, lender_supply(l, assets)
  PROVE  IInv' /\ PriceKept
<1> DEFINE received == Delivered(assets)
           total    == lender_total_assets(Current)
           shares   == assets_to_supply_shares_down(received, shareSupply, total)
           after    == [Current EXCEPT !.accounted_liquidity_assets = @ + received]
<1>1. /\ AccrualOK
      /\ {total, total + received, vault + received, shares, shareSupply + shares} \subseteq U64
      /\ shares > 0
      /\ Current.accounted_liquidity_assets + received \in U64
      /\ reserve' = after
      /\ vault' = vault + received
      /\ shareSupply' = shareSupply + shares
      /\ lenderShares' = [lenderShares EXCEPT ![l] = @ + shares]
      /\ UNCHANGED <<now, margins, admin>>
  BY DEF lender_supply
<1>2. /\ Current \in ReserveRecords
      /\ Current.accounted_liquidity_assets = reserve.accounted_liquidity_assets
      /\ Current.total_borrow_shares = reserve.total_borrow_shares
      /\ Current.total_borrow_shares <= Current.total_borrow_assets
      /\ Current.total_borrow_shares = 0 => Current.total_borrow_assets = 0
      /\ total \in Nat /\ total >= shareSupply
      /\ total >= lender_total_assets(reserve)
      /\ lender_total_assets(reserve) \in Nat
  BY <1>1, CurrentReserve
<1>3. received \in Nat
  <2>1. assets \in U64
    BY LendingPoolAssumption
  <2> QED
    BY <2>1, DeliveredType
<1>4. shareSupply \in Nat /\ shares \in Nat /\ vault \in Nat /\ MaxU64 \in Nat
  <2>1. shareSupply \in U64 /\ shares \in U64 /\ vault \in U64
    BY <1>1 DEF IInv, TypeOK
  <2> QED
    BY <2>1, ReserveMathAssumption DEF U64
<1>5. shares <= received /\ (shareSupply > 0 => shares * total <= received * shareSupply)
  <2>1. CASE shareSupply = 0 \/ total = 0
    <3>1. shareSupply = 0
      BY <1>2, <1>4, <2>1
    <3> QED
      BY <1>3, <3>1 DEF assets_to_supply_shares_down
  <2>2. CASE ~(shareSupply = 0 \/ total = 0)
    <3>1. shares = mul_div_floor(received, shareSupply, total)
      BY <2>2 DEF assets_to_supply_shares_down
    <3> HIDE DEF received, total
    <3>2. mul_div_floor(received, shareSupply, total) <= received
      BY <1>2, <1>3, <1>4, <2>2, FloorShrinks
    <3>3. mul_div_floor(received, shareSupply, total) * total <= received * shareSupply
      BY <1>2, <1>3, <1>4, <2>2, FloorBounds
    <3> QED
      BY <3>1, <3>2, <3>3
  <2> QED
    BY <2>1, <2>2
<1> HIDE DEF Current, received, shares
<1>6. /\ reserve' \in ReserveRecords
      /\ reserve'.accounted_liquidity_assets = reserve.accounted_liquidity_assets + received
      /\ reserve'.total_borrow_shares = reserve.total_borrow_shares
      /\ reserve'.total_borrow_shares <= reserve'.total_borrow_assets
      /\ reserve'.total_borrow_shares = 0 => reserve'.total_borrow_assets = 0
  BY <1>1, <1>2 DEF ReserveRecords, U64
<1>7. lender_total_assets(reserve)' = total + received
  BY <1>1, <1>2, <1>3 DEF lender_total_assets, ReserveRecords, U64
<1> HIDE DEF total, after
<1>8. TypeOK'
  BY <1>1, <1>4, <1>6 DEF IInv, TypeOK, margins, admin
<1>9. SharesConserved'
  <2>1. TotalOf(lenderShares') = TotalOf(lenderShares) - lenderShares[l] + (lenderShares[l] + shares)
    <3>1. lenderShares \in [Lenders -> Nat] /\ IsFiniteSet(Lenders)
      BY LendingPoolAssumption DEF IInv, TypeOK
    <3>2. lenderShares[l] + shares \in Nat
      BY <1>4, <3>1
    <3> QED
      BY <1>1, <3>1, <3>2, TotalOfExcept
  <2>2. TotalOf(lenderShares) = shareSupply /\ lenderShares[l] \in Nat
    BY DEF IInv, TypeOK, SharesConserved
  <2>3. TotalOf(lenderShares') = shareSupply'
    BY <1>1, <1>4, <2>1, <2>2
  <2> QED
    BY <1>1, <1>6, <2>3 DEF IInv, SharesConserved, margins
<1>10. DebtSharesBacked'
  BY <1>6 DEF DebtSharesBacked
<1>11. VaultCoversLiquidity'
  BY <1>1, <1>3, <1>4, <1>6 DEF IInv, VaultCoversLiquidity, TypeOK, ReserveRecords, U64
<1>12. LendersBacked'
  BY <1>1, <1>2, <1>3, <1>4, <1>5, <1>7 DEF LendersBacked
<1>13. DebtRegistered'
  BY <1>1 DEF IInv, DebtRegistered, margins
<1>14. PriceKept
  <2> SUFFICES ASSUME shareSupply > 0
               PROVE  (total + received) * shareSupply
                        >= lender_total_assets(reserve) * (shareSupply + shares)
    BY <1>1, <1>7 DEF PriceKept
  <2>1. (total + received) * shareSupply = total * shareSupply + received * shareSupply
    BY <1>2, <1>3, <1>4
  <2>2. total * (shareSupply + shares) = total * shareSupply + shares * total
    BY <1>2, <1>4
  <2>3. (total + received) * shareSupply >= total * (shareSupply + shares)
    BY <1>2, <1>3, <1>4, <1>5, <2>1, <2>2
  <2>4. total * (shareSupply + shares) >= lender_total_assets(reserve) * (shareSupply + shares)
    BY <1>2, <1>4, MulMonotone
  <2> DEFINE x == (total + received) * shareSupply
             y == total * (shareSupply + shares)
             z == lender_total_assets(reserve) * (shareSupply + shares)
  <2>5. x \in Int /\ y \in Int /\ z \in Int
    BY <1>2, <1>3, <1>4
  <2>6. x >= y /\ y >= z
    BY <2>3, <2>4
  <2> HIDE DEF x, y, z
  <2>7. x >= z
    BY <2>5, <2>6
  <2> QED
    BY <2>7 DEF x, z
<1> QED
  BY <1>8, <1>9, <1>10, <1>11, <1>12, <1>13, <1>14 DEF IInv

\* Shares redeemed at a price rounded down leave at least as much behind the rest.
LEMMA RedeemStep ==
  ASSUME IInv, NEW l \in Lenders, NEW shares \in Amounts, lender_redeem(l, shares)
  PROVE  IInv' /\ PriceKept
<1> DEFINE total  == lender_total_assets(Current)
           assets == supply_shares_to_assets_down(shares, shareSupply, total)
           after  == [Current EXCEPT !.accounted_liquidity_assets = @ - assets]
           left   == shareSupply - shares
<1>1. /\ shares > 0 /\ lenderShares[l] >= shares
      /\ AccrualOK
      /\ assets <= available_lender_cash(Current)
      /\ assets <= vault
      /\ reserve' = after
      /\ vault' = vault - assets
      /\ shareSupply' = shareSupply - shares
      /\ lenderShares' = [lenderShares EXCEPT ![l] = @ - shares]
      /\ UNCHANGED <<now, margins, admin>>
  BY DEF lender_redeem
<1>2. /\ Current \in ReserveRecords
      /\ Current.accounted_liquidity_assets = reserve.accounted_liquidity_assets
      /\ Current.total_borrow_shares = reserve.total_borrow_shares
      /\ Current.total_borrow_shares <= Current.total_borrow_assets
      /\ Current.total_borrow_shares = 0 => Current.total_borrow_assets = 0
      /\ total \in Nat /\ total >= shareSupply
      /\ total >= lender_total_assets(reserve)
      /\ lender_total_assets(reserve) \in Nat
  BY <1>1, CurrentReserve
<1>3. /\ shares \in Nat /\ lenderShares[l] \in Nat /\ lenderShares[l] <= shareSupply
      /\ shareSupply \in U64 /\ vault \in U64 /\ MaxU64 \in Nat
  <2>1. shares \in U64
    BY LendingPoolAssumption
  <2> QED
    BY <2>1, HoldingsBounded, ReserveMathAssumption DEF IInv, TypeOK, U64
<1>4. shareSupply \in Nat \ {0} /\ vault \in Nat /\ left \in Nat /\ left <= shareSupply
  BY <1>1, <1>3 DEF U64
<1>5. assets \in Nat /\ assets * shareSupply <= shares * total
  <2>1. assets = mul_div_floor(shares, total, shareSupply)
    BY <1>4 DEF supply_shares_to_assets_down
  <2> HIDE DEF total
  <2> QED
    BY <1>2, <1>3, <1>4, <2>1, FloorBounds
<1> HIDE DEF Current, assets
<1>6. /\ reserve' \in ReserveRecords
      /\ reserve'.accounted_liquidity_assets = reserve.accounted_liquidity_assets - assets
      /\ reserve'.total_borrow_shares = reserve.total_borrow_shares
      /\ reserve'.total_borrow_shares <= reserve'.total_borrow_assets
      /\ reserve'.total_borrow_shares = 0 => reserve'.total_borrow_assets = 0
      /\ lender_total_assets(reserve)' = total - assets
  <2>1. assets <= Current.accounted_liquidity_assets
    BY <1>1, <1>2, <1>5 DEF available_lender_cash, SaturatingSub, ReserveRecords, U64
  <2>2. Current.accounted_liquidity_assets - assets \in U64
    BY <1>2, <1>3, <1>5, <2>1 DEF ReserveRecords, U64
  <2>3. reserve' \in ReserveRecords
    BY <1>1, <1>2, <2>2 DEF ReserveRecords
  <2>4. lender_total_assets(reserve)' = total - assets
    BY <1>1, <1>2, <1>5 DEF ReserveRecords, U64, lender_total_assets
  <2> QED
    BY <1>1, <1>2, <2>3, <2>4 DEF ReserveRecords
<1> HIDE DEF total, after
<1>7. TypeOK'
  <2>1. lenderShares' \in [Lenders -> Nat]
    <3>1. lenderShares \in [Lenders -> Nat] /\ lenderShares[l] - shares \in Nat
      BY <1>1, <1>3 DEF IInv, TypeOK
    <3> QED
      BY <1>1, <3>1
  <2>2. vault' \in U64 /\ shareSupply' \in U64
    BY <1>1, <1>3, <1>4, <1>5 DEF U64
  <2> QED
    BY <1>1, <1>6, <2>1, <2>2 DEF IInv, TypeOK, margins, admin
<1>8. SharesConserved'
  <2>1. TotalOf(lenderShares') = TotalOf(lenderShares) - lenderShares[l] + (lenderShares[l] - shares)
    <3>1. lenderShares \in [Lenders -> Nat] /\ IsFiniteSet(Lenders)
      BY LendingPoolAssumption DEF IInv, TypeOK
    <3>2. lenderShares[l] - shares \in Nat
      BY <1>1, <1>3
    <3> QED
      BY <1>1, <3>1, <3>2, TotalOfExcept
  <2>2. TotalOf(lenderShares) = shareSupply
    BY DEF IInv, SharesConserved
  <2>3. TotalOf(lenderShares') = shareSupply'
    BY <1>1, <1>3, <1>4, <2>1, <2>2
  <2> QED
    BY <1>1, <1>6, <2>3 DEF IInv, SharesConserved, margins
<1>9. DebtSharesBacked'
  BY <1>6 DEF DebtSharesBacked
<1>10. VaultCoversLiquidity'
  BY <1>1, <1>4, <1>5, <1>6 DEF IInv, VaultCoversLiquidity, TypeOK, ReserveRecords, U64
<1>11. (total - assets) * shareSupply >= total * left
  <2>1. (total - assets) * shareSupply = total * shareSupply - assets * shareSupply
    BY <1>2, <1>4, <1>5
  <2>2. total * left = total * shareSupply - shares * total
    BY <1>2, <1>3, <1>4
  <2> QED
    BY <1>2, <1>3, <1>4, <1>5, <2>1, <2>2
<1>12. LendersBacked'
  <2>1. total * left >= shareSupply * left
    BY <1>2, <1>4, MulMonotone
  <2>2. (total - assets) * shareSupply >= left * shareSupply
    <3> DEFINE x == (total - assets) * shareSupply
               y == total * left
               z == left * shareSupply
    <3>1. x \in Int /\ y \in Int /\ z \in Int
      BY <1>2, <1>4, <1>5
    <3>2. x >= y /\ y >= z
      BY <1>4, <1>11, <2>1
    <3> HIDE DEF x, y, z
    <3>3. x >= z
      BY <3>1, <3>2
    <3> QED
      BY <3>3 DEF x, z
  <2>3. total - assets \in Int
    BY <1>2, <1>5
  <2>4. total - assets >= left
    BY <1>4, <2>2, <2>3
  <2> QED
    BY <1>1, <1>6, <2>4 DEF LendersBacked
<1>13. DebtRegistered'
  BY <1>1 DEF IInv, DebtRegistered, margins
<1>14. PriceKept
  <2> DEFINE x == (total - assets) * shareSupply
             y == total * left
             z == lender_total_assets(reserve) * left
  <2>1. x \in Int /\ y \in Int /\ z \in Int
    BY <1>2, <1>4, <1>5
  <2>2. y >= z
    BY <1>2, <1>4, MulMonotone
  <2>3. x >= y
    BY <1>11
  <2> HIDE DEF x, y, z
  <2>4. x >= z
    BY <2>1, <2>2, <2>3
  <2> QED
    BY <1>1, <1>6, <2>4 DEF PriceKept, x, z
<1> QED
  BY <1>7, <1>8, <1>9, <1>10, <1>12, <1>13, <1>14 DEF IInv

\* Burnt share tokens leave their assets to the other lenders.
LEMMA BurnStep ==
  ASSUME IInv, NEW l \in Lenders, NEW shares \in Amounts, BurnShares(l, shares)
  PROVE  IInv' /\ PriceKept
<1>1. /\ shares > 0 /\ shares <= lenderShares[l]
      /\ shareSupply' = shareSupply - shares
      /\ lenderShares' = [lenderShares EXCEPT ![l] = @ - shares]
      /\ UNCHANGED <<reserve, vault, now, margins, admin>>
  BY DEF BurnShares
<1>2. /\ shares \in Nat /\ lenderShares[l] \in Nat /\ lenderShares[l] <= shareSupply
      /\ shareSupply \in U64 /\ shareSupply \in Nat /\ MaxU64 \in Nat
  <2>1. shares \in U64
    BY LendingPoolAssumption
  <2> QED
    BY <2>1, HoldingsBounded, ReserveMathAssumption DEF IInv, TypeOK, U64
<1>3. lenderShares \in [Lenders -> Nat] /\ lenderShares[l] - shares \in Nat
  BY <1>1, <1>2 DEF IInv, TypeOK
<1>4. lender_total_assets(reserve) \in Int /\ lender_total_assets(reserve) >= shareSupply
  BY DEF IInv, TypeOK, LendersBacked, ReserveRecords, U64, lender_total_assets
<1>5. shareSupply' \in U64 /\ shareSupply' <= shareSupply /\ shareSupply' \in Nat
  BY <1>1, <1>2 DEF U64
<1>6. TypeOK'
  <2>1. lenderShares' \in [Lenders -> Nat]
    BY <1>1, <1>3
  <2> QED
    BY <1>1, <1>5, <2>1 DEF IInv, TypeOK, margins, admin
<1>7. SharesConserved'
  <2>1. TotalOf(lenderShares') = TotalOf(lenderShares) - lenderShares[l] + (lenderShares[l] - shares)
    BY <1>1, <1>3, LendingPoolAssumption, TotalOfExcept
  <2>2. TotalOf(lenderShares) = shareSupply
    BY DEF IInv, SharesConserved
  <2>3. TotalOf(lenderShares') = shareSupply'
    BY <1>1, <1>2, <2>1, <2>2
  <2> QED
    BY <1>1, <2>3 DEF IInv, SharesConserved, margins
<1>8. DebtSharesBacked' /\ VaultCoversLiquidity' /\ DebtRegistered'
  BY <1>1 DEF IInv, DebtSharesBacked, VaultCoversLiquidity, DebtRegistered, margins
<1>9. lender_total_assets(reserve)' = lender_total_assets(reserve)
  BY <1>1
<1> HIDE DEF lender_total_assets
<1>10. LendersBacked'
  BY <1>2, <1>4, <1>5, <1>9 DEF LendersBacked
<1>11. PriceKept
  <2>1. lender_total_assets(reserve) \in Nat
    BY <1>2, <1>4
  <2>2. shareSupply' * lender_total_assets(reserve) <= shareSupply * lender_total_assets(reserve)
    BY <1>2, <1>5, <2>1, MulMonotone
  <2> QED
    BY <1>2, <1>5, <1>9, <2>1, <2>2 DEF PriceKept
<1> QED
  BY <1>6, <1>7, <1>8, <1>10, <1>11 DEF IInv

-----------------------------------------------------------------------------
(* The borrowers' instructions.  None of them touches the share tokens, so  *)
(* they keep the price as long as the lenders' total does not fall.         *)

\* A total that does not fall over an unchanged supply keeps the price.
LEMMA PriceKeptByTotal ==
  ASSUME IInv, UNCHANGED lenders,
         lender_total_assets(reserve)' \in Int,
         lender_total_assets(reserve)' >= lender_total_assets(reserve)
  PROVE  PriceKept /\ LendersBacked'
<1>1. shareSupply' = shareSupply /\ shareSupply \in Nat
  BY DEF lenders, IInv, TypeOK, U64
<1>2. /\ lender_total_assets(reserve) \in Int
      /\ lender_total_assets(reserve) >= shareSupply
  BY DEF IInv, TypeOK, LendersBacked, lender_total_assets, ReserveRecords, U64
<1> DEFINE old == lender_total_assets(reserve)
           new == lender_total_assets(reserve)'
<1>3. old \in Nat /\ new \in Nat /\ old <= new
  BY <1>1, <1>2
<1> HIDE DEF old, new
<1>4. old * shareSupply <= new * shareSupply
  BY <1>1, <1>3, MulMonotone
<1>5. new * shareSupply >= old * shareSupply
  BY <1>1, <1>3, <1>4
<1>6. PriceKept
  BY <1>1, <1>5 DEF PriceKept, old, new
<1>7. LendersBacked'
  BY <1>1, <1>2 DEF LendersBacked
<1> QED
  BY <1>6, <1>7

\* Opening or closing a position moves no shares; a position that is closed
\* is not among the active debts.
LEMMA OpenCloseStep ==
  ASSUME IInv, NEW m \in Margins, user_open_debt_position(m) \/ user_close_debt_position(m)
  PROVE  IInv' /\ PriceKept
<1>1. /\ UNCHANGED <<reserve, vault, now, lenders, debtShares, debtActive, admin>>
      /\ opened' \subseteq Margins
      /\ \A k \in debtActive : k \in opened => k \in opened'
  BY DEF user_open_debt_position, user_close_debt_position, IInv, TypeOK
<1>2. TypeOK'
  BY <1>1 DEF IInv, TypeOK, lenders, admin
<1>3. SharesConserved' /\ DebtSharesBacked' /\ VaultCoversLiquidity'
  BY <1>1 DEF IInv, SharesConserved, DebtSharesBacked, VaultCoversLiquidity, lenders
<1>4. DebtRegistered'
  BY <1>1 DEF IInv, DebtRegistered
<1>5. LendersBacked' /\ PriceKept
  BY <1>1, PriceKeptByTotal DEF IInv, TypeOK, ReserveRecords, U64, lender_total_assets
<1> QED
  BY <1>2, <1>3, <1>4, <1>5 DEF IInv

\* A loan adds its shares to the position and to the total, and turns cash
\* into debt of the same amount.
LEMMA BorrowStep ==
  ASSUME IInv, NEW m \in Margins, NEW assets \in Amounts,
         user_borrow(m, assets) \/ user_deposit_and_borrow(m, assets)
  PROVE  IInv' /\ PriceKept
<1> DEFINE S      == Current.total_borrow_shares
           T      == Current.total_borrow_assets
           shares == assets_to_debt_shares_up(assets, S, T)
           after  == AfterBorrow(Current, assets, shares)
<1>1. /\ assets > 0 /\ AccrualOK
      /\ assets <= Current.accounted_liquidity_assets
      /\ T + assets \in U64
      /\ assets <= vault
      /\ reserve' = after
      /\ vault' = vault - assets
      /\ debtShares' = [debtShares EXCEPT ![m] = @ + shares]
      /\ debtActive' = debtActive \cup {m}
      /\ opened' = opened \cup {m}
      /\ UNCHANGED <<now, lenders, admin>>
  BY DEF user_borrow, user_deposit_and_borrow, Lend
<1>2. /\ Current \in ReserveRecords
      /\ Current.accounted_liquidity_assets = reserve.accounted_liquidity_assets
      /\ S = reserve.total_borrow_shares
      /\ S <= T
      /\ lender_total_assets(Current) >= lender_total_assets(reserve)
      /\ lender_total_assets(Current) \in Nat
  BY <1>1, CurrentReserve
<1>3. /\ assets \in Nat \ {0} /\ assets \in U64
      /\ vault \in U64 /\ vault \in Nat /\ MaxU64 \in Nat
  <2>1. assets \in U64 /\ vault \in U64
    BY LendingPoolAssumption DEF IInv, TypeOK
  <2> QED
    BY <1>1, <2>1, ReserveMathAssumption DEF U64
<1>4. debtShares \in [Margins -> Nat] /\ debtShares[m] \in Nat
  BY DEF IInv, TypeOK
<1> HIDE DEF Current
<1>5. S \in Nat /\ T \in Nat
  BY <1>2 DEF ReserveRecords, U64
<1>6. shares \in Nat \ {0} /\ shares <= assets
  <2> HIDE DEF S, T
  <2> QED
    BY <1>2, <1>3, <1>5, SharesForLoan
<1> HIDE DEF shares
<1>7. /\ reserve' \in ReserveRecords
      /\ reserve'.accounted_liquidity_assets = reserve.accounted_liquidity_assets - assets
      /\ reserve'.total_borrow_shares = S + shares
      /\ reserve'.total_borrow_assets = T + assets
      /\ lender_total_assets(reserve)' = lender_total_assets(Current)
  <2>1. Current.accounted_liquidity_assets - assets \in U64
    BY <1>1, <1>2, <1>3 DEF ReserveRecords, U64
  <2>2. S + shares \in Nat
    BY <1>5, <1>6
  <2>3. /\ reserve' \in ReserveRecords
        /\ reserve'.accounted_liquidity_assets = Current.accounted_liquidity_assets - assets
        /\ reserve'.total_borrow_shares = S + shares
        /\ reserve'.total_borrow_assets = T + assets
        /\ reserve'.accrued_protocol_fees = Current.accrued_protocol_fees
    BY <1>1, <1>2, <2>1, <2>2 DEF AfterBorrow, ReserveRecords
  <2>4. lender_total_assets(reserve)' = lender_total_assets(Current)
    BY <1>2, <1>3, <2>3 DEF lender_total_assets, ReserveRecords, U64
  <2> QED
    BY <1>2, <2>3, <2>4
<1> HIDE DEF S, T, after
<1>8. TypeOK'
  <2>1. debtShares' \in [Margins -> Nat]
    <3>1. debtShares[m] + shares \in Nat
      BY <1>4, <1>6
    <3> QED
      BY <1>1, <1>4, <3>1
  <2>2. vault' \in U64
    BY <1>1, <1>3 DEF U64
  <2> QED
    BY <1>1, <1>7, <2>1, <2>2 DEF IInv, TypeOK, lenders, admin
<1>9. SharesConserved'
  <2>1. TotalOf(debtShares') = TotalOf(debtShares) - debtShares[m] + (debtShares[m] + shares)
    <3>1. debtShares[m] + shares \in Nat
      BY <1>4, <1>6
    <3> QED
      BY <1>1, <1>4, <3>1, LendingPoolAssumption, TotalOfExcept
  <2>2. TotalOf(debtShares) = S
    BY <1>2 DEF IInv, SharesConserved
  <2>3. TotalOf(debtShares') = reserve'.total_borrow_shares
    BY <1>4, <1>5, <1>6, <1>7, <2>1, <2>2
  <2> QED
    BY <1>1, <2>3 DEF IInv, SharesConserved, lenders
<1>10. DebtSharesBacked'
  BY <1>2, <1>3, <1>5, <1>6, <1>7 DEF DebtSharesBacked
<1>11. VaultCoversLiquidity'
  BY <1>1, <1>3, <1>7 DEF IInv, VaultCoversLiquidity, TypeOK, ReserveRecords, U64
<1>12. DebtRegistered'
  <2> SUFFICES ASSUME NEW k \in Margins
               PROVE  /\ debtShares'[k] > 0 <=> k \in debtActive'
                      /\ k \in debtActive' => k \in opened'
    BY DEF DebtRegistered
  <2>1. CASE k = m
    <3>1. debtShares'[k] = debtShares[m] + shares
      BY <1>1, <1>4, <2>1
    <3> QED
      BY <1>1, <1>4, <1>6, <2>1, <3>1
  <2>2. CASE k # m
    <3>1. debtShares'[k] = debtShares[k]
      BY <1>1, <1>4, <2>2
    <3> QED
      BY <1>1, <2>2, <3>1 DEF IInv, DebtRegistered
  <2> QED
    BY <2>1, <2>2
<1>13. LendersBacked' /\ PriceKept
  BY <1>1, <1>2, <1>7, PriceKeptByTotal
<1> QED
  BY <1>8, <1>9, <1>10, <1>11, <1>12, <1>13 DEF IInv

\* Every settlement of a debt, whoever pays: the same shares leave the position
\* and the total, and the reserve gains in cash what the debt loses.
LEMMA SettleStep ==
  ASSUME IInv, NEW m \in Margins, m \in opened, AccrualOK, NEW sent \in U64,
         Owed(m) > 0, Settle(m, Settlement(m, sent, Owed(m)))
  PROVE  IInv' /\ PriceKept
<1> DEFINE owed     == Owed(m)
           received == Delivered(sent)
           burned   == DebtSharesBurned(Current, debtShares[m], owed, received)
           after    == AfterRepay(Current, owed, received, burned)
           left     == debtShares[m] - burned
           s        == Settlement(m, sent, owed)
<1>1. s.received = received /\ s.shares = left /\ s.reserve = after
  BY DEF Settlement
<1>2. /\ after.accounted_liquidity_assets \in U64
      /\ vault + received \in U64
      /\ left = 0 => m \in debtActive
      /\ reserve' = after
      /\ vault' = vault + received
      /\ debtShares' = [debtShares EXCEPT ![m] = left]
      /\ debtActive' = IF left = 0 THEN debtActive \ {m} ELSE debtActive
      /\ UNCHANGED <<now, lenders, opened, admin>>
  BY <1>1 DEF Settle, SettlementSucceeds
<1>3. received \in Nat
  BY DeliveredType
<1>4. /\ Current \in ReserveRecords
      /\ Current.accounted_liquidity_assets = reserve.accounted_liquidity_assets
      /\ Current.total_borrow_shares = reserve.total_borrow_shares
      /\ Current.total_borrow_shares <= Current.total_borrow_assets
      /\ Current.total_borrow_shares = 0 => Current.total_borrow_assets = 0
      /\ lender_total_assets(Current) >= lender_total_assets(reserve)
      /\ lender_total_assets(Current) \in Nat
      /\ lender_total_assets(reserve) \in Nat
  BY CurrentReserve
<1>5. debtShares[m] \in Nat /\ debtShares[m] <= Current.total_borrow_shares
  BY <1>4, HoldingsBounded
<1>6. debtShares \in [Margins -> Nat]
  BY DEF IInv, TypeOK
<1>7. owed \in Nat
  BY OwedType
<1>8. owed = debt_shares_to_assets_up(debtShares[m], Current.total_borrow_shares,
                                      Current.total_borrow_assets)
  BY DEF Owed
<1> HIDE DEF Current, received, owed
<1>9. /\ burned \in 0..debtShares[m]
      /\ after.total_borrow_assets = Current.total_borrow_assets - MinOf(received, owed)
      /\ after.total_borrow_assets \in U64
      /\ after.total_borrow_shares = Current.total_borrow_shares - burned
      /\ after.total_borrow_shares \in Nat
      /\ after.total_borrow_shares <= after.total_borrow_assets
      /\ after.total_borrow_shares = 0 => after.total_borrow_assets = 0
      /\ after.accounted_liquidity_assets = Current.accounted_liquidity_assets + received
      /\ after.accrued_protocol_fees = Current.accrued_protocol_fees
  <2>1. owed > 0
    BY DEF owed
  <2> QED
    BY <1>3, <1>4, <1>5, <1>8, <2>1, RepaymentEffect
<1> HIDE DEF burned
<1>10. left \in Nat /\ left <= debtShares[m] /\ debtShares[m] = left + burned /\ burned \in Nat
  BY <1>5, <1>9
<1>11. after \in ReserveRecords
  BY <1>2, <1>4, <1>9 DEF AfterRepay, ReserveRecords
<1>12. lender_total_assets(reserve)' \in Int
       /\ lender_total_assets(reserve)' >= lender_total_assets(Current)
  <2>1. MinOf(received, owed) \in Nat /\ MinOf(received, owed) <= received
    BY <1>3, <1>7 DEF MinOf
  <2>2. /\ Current.accounted_liquidity_assets \in Nat
        /\ Current.total_borrow_assets \in Nat
        /\ Current.accrued_protocol_fees \in Nat
    BY <1>4 DEF ReserveRecords, U64
  <2> HIDE DEF after
  <2> QED
    BY <1>2, <1>3, <1>9, <2>1, <2>2 DEF lender_total_assets
<1> HIDE DEF after, left
<1>13. TypeOK'
  <2>1. debtShares' \in [Margins -> Nat]
    BY <1>2, <1>6, <1>10
  <2>2. debtActive' \subseteq Margins
    BY <1>2 DEF IInv, TypeOK
  <2> QED
    BY <1>2, <1>11, <2>1, <2>2 DEF IInv, TypeOK, lenders, admin
<1>14. SharesConserved'
  <2>1. TotalOf(debtShares') = TotalOf(debtShares) - debtShares[m] + left
    BY <1>2, <1>6, <1>10, LendingPoolAssumption, TotalOfExcept
  <2>2. TotalOf(debtShares) = Current.total_borrow_shares
    BY <1>4 DEF IInv, SharesConserved
  <2>3. Current.total_borrow_shares \in Nat
    BY <1>4 DEF ReserveRecords
  <2>4. TotalOf(debtShares') = Current.total_borrow_shares - burned
    BY <1>5, <1>10, <2>1, <2>2, <2>3
  <2> QED
    BY <1>2, <1>9, <2>4 DEF IInv, SharesConserved, lenders
<1>15. DebtSharesBacked'
  BY <1>2, <1>9 DEF DebtSharesBacked
<1>16. VaultCoversLiquidity'
  <2>1. reserve.accounted_liquidity_assets \in Nat /\ vault \in Nat
    BY DEF IInv, TypeOK, ReserveRecords, U64
  <2> QED
    BY <1>2, <1>3, <1>4, <1>9, <2>1 DEF IInv, VaultCoversLiquidity
<1>17. DebtRegistered'
  <2> SUFFICES ASSUME NEW k \in Margins
               PROVE  /\ debtShares'[k] > 0 <=> k \in debtActive'
                      /\ k \in debtActive' => k \in opened'
    BY DEF DebtRegistered
  <2>1. CASE k = m
    <3>1. debtShares'[k] = left
      BY <1>2, <1>6, <2>1
    <3>2. left > 0 => debtShares[m] > 0
      BY <1>5, <1>10
    <3> QED
      BY <1>2, <1>10, <2>1, <3>1, <3>2 DEF IInv, DebtRegistered
  <2>2. CASE k # m
    <3>1. debtShares'[k] = debtShares[k]
      BY <1>2, <1>6, <2>2
    <3> QED
      BY <1>2, <2>2, <3>1 DEF IInv, DebtRegistered
  <2> QED
    BY <2>1, <2>2
<1>18. LendersBacked' /\ PriceKept
  BY <1>2, <1>4, <1>12, PriceKeptByTotal
<1> QED
  BY <1>13, <1>14, <1>15, <1>16, <1>17, <1>18 DEF IInv

\* A minimum of natural numbers one of which is a token amount is a token amount.
LEMMA MinOfU64 ==
  ASSUME NEW a \in U64, NEW b \in Nat
  PROVE  MinOf(a, b) \in U64 /\ MinOf(b, a) \in U64
  BY ReserveMathAssumption DEF MinOf, U64

\* The three repayments and the debt leg of a liquidation are settlements.
LEMMA RepaymentSteps ==
  ASSUME IInv, NEW m \in Margins, NEW x \in Payments, NEW y \in U64,
         \/ user_repay_from_margin(m, x, y)
         \/ public_repay_from_wallet(m, x)
         \/ public_liquidate(m, x)
  PROVE  IInv' /\ PriceKept
<1>1. x \in U64 /\ y \in U64
  BY LendingPoolAssumption, ReserveMathAssumption DEF Payments, U64
<1>2. AccrualOK /\ m \in opened /\ Owed(m) > 0
  BY DEF user_repay_from_margin, public_repay_from_wallet, public_liquidate
<1>3. Owed(m) \in Nat
  BY <1>2, OwedType
<1>4. MinOf(x, Owed(m)) \in U64
  BY <1>1, <1>3, MinOfU64
<1>5. GrossUp(MinOf(x, Owed(m))) \in Nat
  BY <1>4, LendingPoolAssumption
<1>6. CASE user_repay_from_margin(m, x, y)
  <2> DEFINE sent == MinOf(GrossUp(MinOf(x, Owed(m))), y)
  <2>1. sent \in U64
    BY <1>1, <1>5, MinOfU64
  <2>2. Settle(m, Settlement(m, sent, Owed(m)))
    BY <1>6 DEF user_repay_from_margin
  <2> QED
    BY <1>2, <2>1, <2>2, SettleStep
<1>7. CASE public_repay_from_wallet(m, x)
  <2> DEFINE sent == GrossUp(MinOf(x, Owed(m)))
  <2>1. sent \in U64 /\ Settle(m, Settlement(m, sent, Owed(m)))
    BY <1>7 DEF public_repay_from_wallet
  <2> QED
    BY <1>2, <2>1, SettleStep
<1>8. CASE public_liquidate(m, x)
  <2> DEFINE sent == MinOf(MinOf(x, Owed(m)), MaxOf(Owed(m) \div 2, 1))
  <2>1. MaxOf(Owed(m) \div 2, 1) \in Nat
    BY <1>3 DEF MaxOf
  <2>2. sent \in U64
    BY <1>4, <2>1, MinOfU64
  <2>3. Settle(m, Settlement(m, sent, Owed(m)))
    BY <1>8 DEF public_liquidate
  <2> QED
    BY <1>2, <2>2, <2>3, SettleStep
<1> QED
  BY <1>6, <1>7, <1>8

-----------------------------------------------------------------------------
(* Instructions that only accrue, the administrator's, and the world *)

\* Interest moves the lenders' total up and leaves cash and shares alone.
LEMMA AccrualStep ==
  ASSUME IInv, public_refresh_reserve \/ \E c \in ReserveConfigs : admin_update_reserve_config(c)
  PROVE  IInv' /\ PriceKept
<1>1. /\ AccrualOK
      /\ reserve' = Current
      /\ config' \in ReserveConfigs
      /\ UNCHANGED <<vault, now, lenders, margins, mode>>
  BY DEF public_refresh_reserve, admin_update_reserve_config, admin, IInv, TypeOK
<1>2. /\ Current \in ReserveRecords
      /\ Current.accounted_liquidity_assets = reserve.accounted_liquidity_assets
      /\ Current.total_borrow_shares = reserve.total_borrow_shares
      /\ Current.total_borrow_shares <= Current.total_borrow_assets
      /\ Current.total_borrow_shares = 0 => Current.total_borrow_assets = 0
      /\ lender_total_assets(Current) >= lender_total_assets(reserve)
      /\ lender_total_assets(Current) \in Nat
  BY <1>1, CurrentReserve
<1> HIDE DEF Current
<1>3. TypeOK'
  BY <1>1, <1>2 DEF IInv, TypeOK, lenders, margins
<1>4. SharesConserved' /\ DebtSharesBacked' /\ VaultCoversLiquidity' /\ DebtRegistered'
  BY <1>1, <1>2 DEF IInv, SharesConserved, DebtSharesBacked, VaultCoversLiquidity,
                    DebtRegistered, lenders, margins
<1>5. LendersBacked' /\ PriceKept
  BY <1>1, <1>2, PriceKeptByTotal
<1> QED
  BY <1>3, <1>4, <1>5 DEF IInv

\* Fees leave the vault, the accounted cash and the fee counter together.
LEMMA CollectFeesStep ==
  ASSUME IInv, NEW amount \in Amounts, admin_collect_protocol_fees(amount)
  PROVE  IInv' /\ PriceKept
<1> DEFINE after == AfterFeeCollection(Current, amount)
<1>1. /\ AccrualOK
      /\ amount <= MinOf(Current.accrued_protocol_fees, Current.accounted_liquidity_assets)
      /\ amount <= vault
      /\ reserve' = after
      /\ vault' = vault - amount
      /\ UNCHANGED <<now, lenders, margins, admin>>
  BY DEF admin_collect_protocol_fees
<1>2. /\ Current \in ReserveRecords
      /\ Current.accounted_liquidity_assets = reserve.accounted_liquidity_assets
      /\ Current.total_borrow_shares = reserve.total_borrow_shares
      /\ Current.total_borrow_shares <= Current.total_borrow_assets
      /\ Current.total_borrow_shares = 0 => Current.total_borrow_assets = 0
      /\ lender_total_assets(Current) >= lender_total_assets(reserve)
      /\ lender_total_assets(Current) \in Nat
  BY <1>1, CurrentReserve
<1>3. amount \in Nat /\ vault \in U64 /\ MaxU64 \in Nat
  <2>1. amount \in U64
    BY LendingPoolAssumption
  <2> QED
    BY <2>1, ReserveMathAssumption DEF IInv, TypeOK, U64
<1> HIDE DEF Current
<1>4. amount <= Current.accrued_protocol_fees /\ amount <= Current.accounted_liquidity_assets
  BY <1>1, <1>2, <1>3 DEF MinOf, ReserveRecords, U64
<1>5. /\ Current.accrued_protocol_fees - amount \in U64
      /\ Current.accounted_liquidity_assets - amount \in U64
      /\ vault' \in U64
  BY <1>1, <1>2, <1>3, <1>4 DEF ReserveRecords, U64
<1>6. /\ reserve' \in ReserveRecords
      /\ reserve'.accounted_liquidity_assets = Current.accounted_liquidity_assets - amount
      /\ reserve'.accrued_protocol_fees = Current.accrued_protocol_fees - amount
      /\ reserve'.total_borrow_shares = Current.total_borrow_shares
      /\ reserve'.total_borrow_assets = Current.total_borrow_assets
  BY <1>1, <1>2, <1>5 DEF AfterFeeCollection, ReserveRecords
<1> HIDE DEF after
<1>7. TypeOK'
  BY <1>1, <1>5, <1>6 DEF IInv, TypeOK, lenders, margins, admin
<1>8. SharesConserved' /\ DebtSharesBacked' /\ DebtRegistered'
  BY <1>1, <1>2, <1>6 DEF IInv, SharesConserved, DebtSharesBacked, DebtRegistered,
                          lenders, margins
<1>9. VaultCoversLiquidity'
  BY <1>1, <1>2, <1>3, <1>6 DEF IInv, VaultCoversLiquidity, TypeOK, ReserveRecords, U64
<1>10. lender_total_assets(reserve)' = lender_total_assets(Current)
  BY <1>2, <1>3, <1>6 DEF lender_total_assets, ReserveRecords, U64
<1>11. LendersBacked' /\ PriceKept
  BY <1>1, <1>2, <1>10, PriceKeptByTotal
<1> QED
  BY <1>7, <1>8, <1>9, <1>11 DEF IInv

\* Time, the mode, a donation and a stuttering step leave the accounting alone.
LEMMA WorldStep ==
  ASSUME IInv,
         \/ Tick
         \/ \E x \in Amounts : Donate(x)
         \/ \E md \in Modes : admin_set_operating_mode(md)
         \/ UNCHANGED vars
  PROVE  IInv' /\ PriceKept
<1>1. UNCHANGED <<reserve, lenders, margins, config>>
  BY DEF Tick, Donate, admin_set_operating_mode, vars, admin
<1>2. now' \in Nat /\ mode' \in Modes
  BY DEF Tick, Donate, admin_set_operating_mode, vars, admin, IInv, TypeOK
<1>3. vault' \in U64 /\ vault' >= vault
  <2>1. vault \in U64 /\ vault \in Nat
    BY DEF IInv, TypeOK, U64
  <2>2. CASE \E x \in Amounts : Donate(x)
    <3>1. PICK x \in Amounts : Donate(x)
      BY <2>2
    <3>2. x \in Nat
      BY LendingPoolAssumption DEF U64
    <3> QED
      BY <2>1, <3>1, <3>2 DEF Donate
  <2>3. CASE Tick \/ (\E md \in Modes : admin_set_operating_mode(md)) \/ UNCHANGED vars
    BY <2>1, <2>3 DEF Tick, admin_set_operating_mode, vars
  <2> QED
    BY <2>2, <2>3
<1>4. TypeOK'
  BY <1>1, <1>2, <1>3 DEF IInv, TypeOK, lenders, margins
<1>5. SharesConserved' /\ DebtSharesBacked' /\ DebtRegistered'
  BY <1>1 DEF IInv, SharesConserved, DebtSharesBacked, DebtRegistered, lenders, margins
<1>6. VaultCoversLiquidity'
  <2>1. vault \in Nat /\ vault' \in Nat /\ reserve.accounted_liquidity_assets \in Nat
    BY <1>3 DEF IInv, TypeOK, ReserveRecords, U64
  <2> QED
    BY <1>1, <1>3, <2>1 DEF IInv, VaultCoversLiquidity
<1>7. LendersBacked' /\ PriceKept
  BY <1>1, PriceKeptByTotal DEF IInv, TypeOK, ReserveRecords, U64, lender_total_assets
<1> QED
  BY <1>4, <1>5, <1>6, <1>7 DEF IInv

-----------------------------------------------------------------------------
(* The theorems *)

\* Every step of the specification keeps the invariant and the share price.
LEMMA StepInvariant == IInv /\ [Next]_vars => IInv' /\ PriceKept
<1> SUFFICES ASSUME IInv, [Next]_vars PROVE IInv' /\ PriceKept
  OBVIOUS
<1>1. CASE \E l \in Lenders, x \in Amounts :
             lender_supply(l, x) \/ lender_redeem(l, x) \/ BurnShares(l, x)
  BY <1>1, SupplyStep, RedeemStep, BurnStep
<1>2. CASE \E m \in Margins : user_open_debt_position(m) \/ user_close_debt_position(m)
  BY <1>2, OpenCloseStep
<1>3. CASE \E m \in Margins, x \in Amounts :
             user_borrow(m, x) \/ user_deposit_and_borrow(m, x)
  BY <1>3, BorrowStep
<1>4. CASE \/ \E m \in Margins, x \in Payments :
                  public_repay_from_wallet(m, x) \/ public_liquidate(m, x)
           \/ \E m \in Margins, x \in Payments, y \in Amounts : user_repay_from_margin(m, x, y)
  <2>1. 0 \in U64 /\ Amounts \subseteq U64
    BY LendingPoolAssumption, ReserveMathAssumption DEF U64
  <2>2. CASE \E m \in Margins, x \in Payments :
                public_repay_from_wallet(m, x) \/ public_liquidate(m, x)
    BY <2>1, <2>2, RepaymentSteps
  <2>3. CASE \E m \in Margins, x \in Payments, y \in Amounts : user_repay_from_margin(m, x, y)
    BY <2>1, <2>3, RepaymentSteps
  <2> QED
    BY <1>4, <2>2, <2>3
<1>5. CASE public_refresh_reserve \/ \E c \in ReserveConfigs : admin_update_reserve_config(c)
  BY <1>5, AccrualStep
<1>6. CASE \E x \in Amounts : admin_collect_protocol_fees(x)
  BY <1>6, CollectFeesStep
<1>7. CASE \/ Tick
           \/ \E x \in Amounts : Donate(x)
           \/ \E md \in Modes : admin_set_operating_mode(md)
           \/ UNCHANGED vars
  BY <1>7, WorldStep
<1> QED
  BY <1>1, <1>2, <1>3, <1>4, <1>5, <1>6, <1>7 DEF Next

\* The invariant holds in every reachable state.
LEMMA Invariance == Spec => []IInv
<1>1. IInv /\ [Next]_vars => IInv'
  BY StepInvariant
<1> QED
  BY <1>1, InitInvariant, PTL DEF Spec

\* Every variable keeps its kind; in particular no token amount of a reserve
\* leaves the 64-bit range, whatever the sequence of instructions.
THEOREM TypeCorrect == Spec => []TypeOK
<1>1. IInv => TypeOK
  BY DEF IInv
<1> QED
  BY <1>1, Invariance, PTL

\* The positions' debt shares and the lenders' share tokens always add up to
\* the totals that the reserve and the share mint keep.
THEOREM SharesAlwaysConserved == Spec => []SharesConserved
<1>1. IInv => SharesConserved
  BY DEF IInv
<1> QED
  BY <1>1, Invariance, PTL

\* Every debt share stands for at least one token of debt, and debt without
\* shares does not exist.
THEOREM DebtSharesAlwaysBacked == Spec => []DebtSharesBacked
<1>1. IInv => DebtSharesBacked
  BY DEF IInv
<1> QED
  BY <1>1, Invariance, PTL

\* The vault holds at least the cash the reserve accounts for.
THEOREM VaultAlwaysCovers == Spec => []VaultCoversLiquidity
<1>1. IInv => VaultCoversLiquidity
  BY DEF IInv
<1> QED
  BY <1>1, Invariance, PTL

\* Every supply share stands for at least one token.
THEOREM LendersAlwaysBacked == Spec => []LendersBacked
<1>1. IInv => LendersBacked
  BY DEF IInv
<1> QED
  BY <1>1, Invariance, PTL

\* Positions, their registry and their accounts never disagree.
THEOREM DebtAlwaysRegistered == Spec => []DebtRegistered
<1>1. IInv => DebtRegistered
  BY DEF IInv
<1> QED
  BY <1>1, Invariance, PTL

\* No step of anybody lowers what a supply share is worth.
THEOREM SharePriceSafe == Spec => SharePriceNeverFalls
<1>1. IInv /\ [Next]_vars => [PriceKept]_vars
  BY StepInvariant
<1>2. [PriceKept]_vars =>
        [shareSupply > 0 /\ shareSupply' > 0 =>
           lender_total_assets(reserve)' * shareSupply
             >= lender_total_assets(reserve) * shareSupply']_vars
  BY DEF PriceKept
<1> QED
  BY <1>1, <1>2, Invariance, PTL DEF Spec, SharePriceNeverFalls

\* Sending GrossUp(owed) settles position m completely in every state of IInv.
LEMMA FullRepayment ==
  ASSUME IInv, GrossUpCovers, NEW m \in debtActive, AccrualOK,
         GrossUp(Owed(m)) \in U64, vault + GrossUp(Owed(m)) \in U64
  PROVE  LET s == Settlement(m, GrossUp(Owed(m)), Owed(m))
         IN  m \in opened /\ Owed(m) > 0 /\ SettlementSucceeds(m, s) /\ s.shares = 0
<1> DEFINE owed     == Owed(m)
           payment  == GrossUp(owed)
           received == Delivered(payment)
           burned   == DebtSharesBurned(Current, debtShares[m], owed, received)
           s        == Settlement(m, payment, owed)
<1>1. m \in Margins /\ m \in opened /\ debtShares[m] > 0 /\ debtShares[m] \in Nat
  BY DEF IInv, TypeOK, DebtRegistered
<1>2. /\ Current \in ReserveRecords
      /\ Current.accounted_liquidity_assets = reserve.accounted_liquidity_assets
      /\ Current.total_borrow_shares = reserve.total_borrow_shares
      /\ Current.total_borrow_shares <= Current.total_borrow_assets
  BY CurrentReserve
<1>3. debtShares[m] <= Current.total_borrow_shares
  BY <1>1, <1>2, HoldingsBounded
<1>4. owed \in Nat /\ owed <= Current.total_borrow_assets
  BY <1>1, OwedType
<1>5. owed >= debtShares[m]
  <2> DEFINE S == Current.total_borrow_shares
             T == Current.total_borrow_assets
  <2>1. owed = debt_shares_to_assets_up(debtShares[m], S, T)
    BY DEF Owed
  <2> HIDE DEF owed, Current
  <2>2. S \in Nat /\ T \in Nat
    BY <1>2 DEF ReserveRecords, U64
  <2> HIDE DEF S, T
  <2>3. S <= T /\ debtShares[m] <= S
    BY <1>2, <1>3 DEF S, T
  <2> QED
    BY <1>1, <2>1, <2>2, <2>3, OwedBounds
<1>6. received \in Nat /\ received <= payment
  BY DeliveredType
<1>7. owed \in U64
  BY <1>2, <1>4, ReserveMathAssumption DEF ReserveRecords, U64
<1>8. received >= owed
  BY <1>7 DEF GrossUpCovers
<1>9. burned = debtShares[m]
  BY <1>8 DEF DebtSharesBurned
<1>10. s.received = received /\ s.shares = 0
  BY <1>1, <1>9 DEF Settlement
<1>11. s.reserve.accounted_liquidity_assets = Current.accounted_liquidity_assets + received
  BY <1>2 DEF Settlement, AfterRepay, ReserveRecords
<1> HIDE DEF Current, received, payment, owed, s
<1>12. vault + received \in U64 /\ Current.accounted_liquidity_assets + received \in U64
  <2>1. vault \in Nat /\ Current.accounted_liquidity_assets \in Nat /\ MaxU64 \in Nat
    BY <1>2, ReserveMathAssumption DEF IInv, TypeOK, ReserveRecords, U64
  <2>2. Current.accounted_liquidity_assets <= vault
    BY <1>2 DEF IInv, VaultCoversLiquidity
  <2>3. payment \in Nat /\ vault + payment <= MaxU64
    BY <2>1 DEF U64, payment, owed
  <2> QED
    BY <1>6, <2>1, <2>2, <2>3 DEF U64
<1>13. SettlementSucceeds(m, s)
  BY <1>10, <1>11, <1>12 DEF SettlementSucceeds
<1>14. owed > 0
  BY <1>1, <1>4, <1>5
<1> QED
  BY <1>1, <1>10, <1>13, <1>14 DEF s, payment, owed

\* Whatever the mode, the status and the history, a position can be paid off in
\* full, if the inverse fee of the mint delivers what it is asked for.
THEOREM RepayIsAlwaysOpen ==
  ASSUME GrossUpCovers
  PROVE  Spec => []RepayAlwaysOpen
<1>1. IInv => RepayAlwaysOpen
  <2> SUFFICES ASSUME IInv, NEW m \in debtActive, AccrualOK,
                      GrossUp(Owed(m)) \in U64, vault + GrossUp(Owed(m)) \in U64
               PROVE  LET s == Settlement(m, GrossUp(Owed(m)), Owed(m))
                      IN  m \in opened /\ Owed(m) > 0 /\ SettlementSucceeds(m, s) /\ s.shares = 0
    BY DEF RepayAlwaysOpen
  <2> QED
    BY FullRepayment
<1> QED
  BY <1>1, Invariance, PTL
-----------------------------------------------------------------------------
(* What the positions owe.  A step that moves debt has accrued first, so    *)
(* what a position owes after it is read off the totals the step leaves.    *)

\* Time never runs ahead of an accrual: an addition to IInv that only the
\* debt of a reserve whose accrual would overflow needs.
ClockAhead == reserve.last_update_timestamp <= now

\* A reserve that was accrued in this very second is not accrued again.
LEMMA CurrentAfter ==
  ASSUME reserve' \in ReserveRecords, reserve'.last_update_timestamp = now'
  PROVE  Current' = reserve'
  BY AccruedOnce DEF Current

\* An instruction that touches the accounting brings the reserve to `now`.
LEMMA AccruingStep ==
  ASSUME IInv,
         \/ \E l \in Lenders, x \in Amounts : lender_supply(l, x) \/ lender_redeem(l, x)
         \/ \E m \in Margins, x \in Amounts : user_borrow(m, x) \/ user_deposit_and_borrow(m, x)
         \/ \E m \in Margins, x \in Payments :
              public_repay_from_wallet(m, x) \/ public_liquidate(m, x)
         \/ \E m \in Margins, x \in Payments, y \in U64 : user_repay_from_margin(m, x, y)
         \/ \E c \in ReserveConfigs : admin_update_reserve_config(c)
         \/ \E x \in Amounts : admin_collect_protocol_fees(x)
         \/ public_refresh_reserve
  PROVE  now' = now /\ reserve'.last_update_timestamp = now
<1> DEFINE r == Current
<1>1. AccrualOK /\ now' = now
  BY DEF lender_supply, lender_redeem, user_borrow, user_deposit_and_borrow, Lend,
         public_repay_from_wallet, public_liquidate, user_repay_from_margin, Settle,
         admin_update_reserve_config, admin_collect_protocol_fees, public_refresh_reserve
<1>2. r \in ReserveRecords /\ r.last_update_timestamp = now
  <2>1. reserve \in ReserveRecords /\ config \in ConfigRecords /\ now \in Nat
    BY LendingPoolAssumption DEF IInv, TypeOK
  <2> QED
    BY <1>1, <2>1, AccrualEffect DEF AccrualOK, Current
<1>3. \/ \E a : reserve' = [r EXCEPT !.accounted_liquidity_assets = a]
      \/ \E a, s : reserve' = AfterBorrow(r, a, s)
      \/ \E o, x, b : reserve' = AfterRepay(r, o, x, b)
      \/ \E a : reserve' = AfterFeeCollection(r, a)
      \/ reserve' = r
  <2>1. ASSUME NEW l \in Lenders, NEW x \in Amounts, lender_supply(l, x) \/ lender_redeem(l, x)
        PROVE  \E a : reserve' = [r EXCEPT !.accounted_liquidity_assets = a]
    BY <2>1 DEF lender_supply, lender_redeem
  <2>2. ASSUME NEW m \in Margins, NEW x \in Amounts,
               user_borrow(m, x) \/ user_deposit_and_borrow(m, x)
        PROVE  \E a, s : reserve' = AfterBorrow(r, a, s)
    BY <2>2 DEF user_borrow, user_deposit_and_borrow, Lend
  <2>3. ASSUME NEW m \in Margins, NEW sent, NEW owed, Settle(m, Settlement(m, sent, owed))
        PROVE  \E o, x, b : reserve' = AfterRepay(r, o, x, b)
    BY <2>3 DEF Settle, Settlement
  <2>4. ASSUME NEW m \in Margins, NEW x, NEW y,
               \/ public_repay_from_wallet(m, x)
               \/ public_liquidate(m, x)
               \/ user_repay_from_margin(m, x, y)
        PROVE  \E o, z, b : reserve' = AfterRepay(r, o, z, b)
    <3> HIDE DEF r
    <3> QED
      BY <2>3, <2>4 DEF public_repay_from_wallet, public_liquidate, user_repay_from_margin
  <2>5. ASSUME NEW x \in Amounts, admin_collect_protocol_fees(x)
        PROVE  \E a : reserve' = AfterFeeCollection(r, a)
    BY <2>5 DEF admin_collect_protocol_fees
  <2>6. ASSUME public_refresh_reserve \/ \E c \in ReserveConfigs : admin_update_reserve_config(c)
        PROVE  reserve' = r
    BY <2>6 DEF public_refresh_reserve, admin_update_reserve_config
  <2> HIDE DEF r
  <2> QED
    BY <2>1, <2>2, <2>4, <2>5, <2>6
<1> HIDE DEF r
<1> QED
  BY <1>1, <1>2, <1>3 DEF AfterBorrow, AfterRepay, AfterFeeCollection, ReserveRecords

\* Every step keeps the clock ahead of the reserve.
LEMMA ClockStep == IInv /\ ClockAhead /\ [Next]_vars => ClockAhead'
<1> SUFFICES ASSUME IInv, ClockAhead, [Next]_vars PROVE ClockAhead'
  OBVIOUS
<1>1. now \in Nat
  BY DEF IInv, TypeOK
<1>2. CASE UNCHANGED reserve /\ now' \in {now, now + 1}
  <2>1. reserve.last_update_timestamp \in Nat
    BY DEF IInv, TypeOK, ReserveRecords
  <2> QED
    BY <1>1, <1>2, <2>1 DEF ClockAhead
<1>3. CASE now' = now /\ reserve'.last_update_timestamp = now
  BY <1>1, <1>3 DEF ClockAhead
<1>4. ASSUME \/ \E l \in Lenders, x \in Amounts : BurnShares(l, x)
             \/ \E m \in Margins : user_open_debt_position(m) \/ user_close_debt_position(m)
             \/ Tick
             \/ \E x \in Amounts : Donate(x)
             \/ \E md \in Modes : admin_set_operating_mode(md)
             \/ UNCHANGED vars
      PROVE  UNCHANGED reserve /\ now' \in {now, now + 1}
  BY <1>4 DEF BurnShares, user_open_debt_position, user_close_debt_position, Tick, Donate,
              admin_set_operating_mode, vars
<1> QED
  BY <1>2, <1>3, <1>4, AccruingStep, LendingPoolAssumption DEF Next

\* A loan adds its amount, at least, to what its borrower owes and takes as
\* much cash; it adds nothing to what anybody else owes.
LEMMA LoanOwed ==
  ASSUME IInv, NEW m \in Margins, NEW assets \in Amounts,
         user_borrow(m, assets) \/ user_deposit_and_borrow(m, assets)
  PROVE  /\ \A k \in Margins \ {m} : debtShares'[k] = debtShares[k] /\ Owed(k)' <= Owed(k)
         /\ debtShares'[m] > debtShares[m]
         /\ Owed(m)' >= Owed(m) + (reserve.accounted_liquidity_assets
                                     - reserve'.accounted_liquidity_assets)
<1> DEFINE S == Current.total_borrow_shares
           T == Current.total_borrow_assets
           s == assets_to_debt_shares_up(assets, S, T)
<1>1. /\ assets > 0 /\ AccrualOK
      /\ reserve' = AfterBorrow(Current, assets, s)
      /\ debtShares' = [debtShares EXCEPT ![m] = @ + s]
  BY DEF user_borrow, user_deposit_and_borrow, Lend
<1>2. /\ Current \in ReserveRecords
      /\ Current.accounted_liquidity_assets = reserve.accounted_liquidity_assets
      /\ S = reserve.total_borrow_shares
      /\ S <= T
      /\ S = 0 => T = 0
  BY <1>1, CurrentReserve
<1>3. S \in Nat /\ T \in Nat /\ reserve.accounted_liquidity_assets \in Nat
  BY <1>2 DEF ReserveRecords, U64, IInv, TypeOK
<1>4. assets \in Nat \ {0}
  BY <1>1, LendingPoolAssumption DEF U64
<1>5. /\ debtShares \in [Margins -> Nat]
      /\ \A k \in Margins : debtShares[k] \in Nat /\ debtShares[k] <= S
  BY <1>2, HoldingsBounded DEF IInv, TypeOK
<1>6. Current' = reserve'
  <2>1. reserve' \in ReserveRecords
    BY BorrowStep DEF IInv, TypeOK
  <2>2. reserve'.last_update_timestamp = now'
    BY AccruingStep
  <2> QED
    BY <2>1, <2>2, CurrentAfter
<1>7. /\ reserve'.total_borrow_shares = S + s
      /\ reserve'.total_borrow_assets = T + assets
      /\ reserve'.accounted_liquidity_assets = reserve.accounted_liquidity_assets - assets
  BY <1>1, <1>2 DEF AfterBorrow, ReserveRecords
<1>8. \A k \in Margins :
        /\ Owed(k)  = debt_shares_to_assets_up(debtShares[k], S, T)
        /\ Owed(k)' = debt_shares_to_assets_up(debtShares'[k], S + s, T + assets)
  BY <1>6, <1>7 DEF Owed
<1>9. s \in Nat \ {0}
  <2> HIDE DEF S, T
  <2> QED
    BY <1>2, <1>3, <1>4, SharesForLoan
<1> HIDE DEF Current, Owed, S, T
<1>10. ASSUME NEW k \in Margins \ {m}
       PROVE  debtShares'[k] = debtShares[k] /\ Owed(k)' <= Owed(k)
  <2>1. debtShares'[k] = debtShares[k]
    BY <1>1, <1>5
  <2> DEFINE p == debtShares[k]
  <2>2. p \in Nat /\ p <= S
    BY <1>5
  <2>3. Owed(k) = debt_shares_to_assets_up(p, S, T) /\ Owed(k)' = debt_shares_to_assets_up(p, S + s, T + assets)
    BY <1>8, <2>1
  <2> HIDE DEF p
  <2> QED
    BY <1>2, <1>3, <1>4, <2>1, <2>2, <2>3, LoanCharges
<1> DEFINE p == debtShares[m]
<1>11. p \in Nat /\ p <= S /\ debtShares'[m] = p + s
  BY <1>1, <1>5
<1>12. Owed(m) = debt_shares_to_assets_up(p, S, T)
       /\ Owed(m)' = debt_shares_to_assets_up(p + s, S + s, T + assets)
  BY <1>8, <1>11
<1> HIDE DEF p
<1>13. Owed(m)' >= Owed(m) + assets
  BY <1>2, <1>3, <1>4, <1>11, <1>12, LoanCharges
<1>14. reserve.accounted_liquidity_assets - reserve'.accounted_liquidity_assets = assets
  BY <1>3, <1>4, <1>7
<1>15. debtShares'[m] > debtShares[m]
  BY <1>9, <1>11 DEF p
<1> QED
  BY <1>10, <1>13, <1>14, <1>15
\* A settlement lowers what its position owes by no more than the cash that
\* the reserve received; it adds nothing to what anybody else owes.
LEMMA SettledOwed ==
  ASSUME IInv, AccrualOK, NEW m \in Margins, NEW sent \in U64, Owed(m) > 0,
         Settle(m, Settlement(m, sent, Owed(m))),
         reserve' \in ReserveRecords, reserve'.last_update_timestamp = now'
  PROVE  /\ \A k \in Margins \ {m} : debtShares'[k] = debtShares[k] /\ Owed(k)' <= Owed(k)
         /\ debtShares'[m] <= debtShares[m]
         /\ Owed(m)' + (reserve'.accounted_liquidity_assets - reserve.accounted_liquidity_assets)
              >= Owed(m)
<1> DEFINE S        == Current.total_borrow_shares
           T        == Current.total_borrow_assets
           p        == debtShares[m]
           owed     == Owed(m)
           received == Delivered(sent)
           burned   == DebtSharesBurned(Current, p, owed, received)
           after    == AfterRepay(Current, owed, received, burned)
<1>1. /\ reserve' = after
      /\ debtShares' = [debtShares EXCEPT ![m] = p - burned]
  BY DEF Settle, Settlement
<1>2. /\ Current \in ReserveRecords
      /\ Current.accounted_liquidity_assets = reserve.accounted_liquidity_assets
      /\ S = reserve.total_borrow_shares
      /\ S <= T
      /\ S = 0 => T = 0
  BY CurrentReserve
<1>3. S \in Nat /\ T \in Nat /\ reserve.accounted_liquidity_assets \in Nat
  BY <1>2 DEF ReserveRecords, U64, IInv, TypeOK
<1>4. received \in Nat
  BY DeliveredType
<1>5. /\ debtShares \in [Margins -> Nat]
      /\ \A k \in Margins : debtShares[k] \in Nat /\ debtShares[k] <= S
  BY <1>2, HoldingsBounded DEF IInv, TypeOK
<1>6. Current' = reserve'
  BY CurrentAfter
<1>7. owed = debt_shares_to_assets_up(p, S, T) /\ owed \in Nat
  BY OwedType DEF Owed
<1>8. p \in Nat /\ p <= S
  BY <1>5
<1>9. /\ burned \in 0..p
      /\ received >= owed => burned = p
      /\ after.total_borrow_assets = T - MinOf(received, owed)
      /\ after.total_borrow_shares = S - burned
      /\ after.accounted_liquidity_assets = Current.accounted_liquidity_assets + received
  <2> HIDE DEF Current, received, p, owed
  <2>1. owed > 0
    BY DEF owed
  <2> QED
    BY <1>2, <1>4, <1>7, <1>8, <2>1, RepaymentEffect
<1>10. \A k \in Margins :
         /\ Owed(k)  = debt_shares_to_assets_up(debtShares[k], S, T)
         /\ Owed(k)' = debt_shares_to_assets_up(debtShares'[k], S - burned, T - MinOf(received, owed))
  BY <1>1, <1>6, <1>9 DEF Owed
<1>11. received < owed => burned = mul_div_floor(received, S, T)
  <2> HIDE DEF owed, received, p
  <2>1. CASE received < owed
    <3>1. burned = MinOf(mul_div_floor(received, S, T), p)
      BY <1>4, <1>7, <2>1 DEF DebtSharesBurned
    <3> HIDE DEF Current, S, T, burned
    <3>2. owed <= T /\ S # 0 /\ owed * S < p * T + S
      <4>1. S # 0
        BY <1>7, <2>1, <1>4 DEF debt_shares_to_assets_up
      <4> QED
        BY <1>2, <1>3, <1>7, <1>8, <4>1, OwedBounds
    <3>3. mul_div_floor(received, S, T) < p /\ mul_div_floor(received, S, T) \in Nat
      BY <1>2, <1>3, <1>4, <1>7, <1>8, <2>1, <3>2, PartialRepayment
    <3> QED
      BY <1>8, <3>1, <3>3 DEF MinOf
  <2> QED
    BY <2>1
<1> DEFINE S2 == S - burned
           T2 == T - MinOf(received, owed)
<1>12. /\ received < owed => debt_shares_to_assets_up(p - burned, S2, T2) + received >= owed
       /\ \A q \in Nat : q <= S =>
            debt_shares_to_assets_up(q, S2, T2) <= debt_shares_to_assets_up(q, S, T)
  <2>1. owed > 0
    OBVIOUS
  <2> HIDE DEF Current, S, T, p, owed, received
  <2>2. burned \in Nat /\ burned = IF received >= owed THEN p ELSE mul_div_floor(received, S, T)
    BY <1>4, <1>7, <1>8, <1>9, <1>11
  <2> HIDE DEF burned
  <2>3. PICK s, t, h, x, b, o \in Nat :
          s = S /\ t = T /\ h = p /\ x = received /\ b = burned /\ o = owed
    BY <1>3, <1>4, <1>7, <1>8, <2>2
  <2>4. /\ s <= t /\ (s = 0 => t = 0) /\ h <= s /\ o > 0
        /\ o = debt_shares_to_assets_up(h, s, t)
        /\ b = IF x >= o THEN h ELSE mul_div_floor(x, s, t)
    BY <1>2, <1>7, <1>8, <2>1, <2>2, <2>3
  <2>5. /\ x < o => debt_shares_to_assets_up(h - b, s - b, t - MinOf(x, o)) + x >= o
        /\ \A q \in Nat : q <= s =>
             debt_shares_to_assets_up(q, s - b, t - MinOf(x, o)) <= debt_shares_to_assets_up(q, s, t)
    BY <2>4, RepaymentCharges
  <2> QED
    BY <2>3, <2>5
<1>13. debtShares'[m] = p - burned /\ \A k \in Margins \ {m} : debtShares'[k] = debtShares[k]
  BY <1>1, <1>5
<1>14. Owed(m)' = debt_shares_to_assets_up(p - burned, S2, T2) /\ Owed(m)' \in Nat
  <2>1. Owed(m)' = debt_shares_to_assets_up(p - burned, S2, T2)
    BY <1>10, <1>13
  <2> HIDE DEF Current, S, T, p, owed, received, after, burned
  <2>2. p - burned \in Nat /\ S2 \in Nat /\ T2 \in Nat
    <3>1. burned \in Nat /\ burned <= p
      BY <1>8, <1>9
    <3>2. T2 \in Nat
      <4>1. owed <= T
        BY <1>2, <1>3, <1>7, <1>8, OwedBounds
      <4> QED
        BY <1>3, <1>4, <1>7, <4>1 DEF MinOf
    <3> QED
      BY <1>3, <1>8, <3>1, <3>2
  <2> HIDE DEF S2, T2
  <2>3. debt_shares_to_assets_up(p - burned, S2, T2) \in Nat
    BY <2>2, CeilBounds DEF debt_shares_to_assets_up
  <2> QED
    BY <2>1, <2>3
<1>15. ASSUME NEW k \in Margins \ {m}
       PROVE  debtShares'[k] = debtShares[k] /\ Owed(k)' <= Owed(k)
  <2> DEFINE q == debtShares[k]
  <2>1. q \in Nat /\ q <= S
    BY <1>5
  <2>2. Owed(k) = debt_shares_to_assets_up(q, S, T) /\ Owed(k)' = debt_shares_to_assets_up(q, S2, T2)
    BY <1>10, <1>13
  <2> HIDE DEF Current, S, T, S2, T2, q, Owed
  <2> QED
    BY <1>12, <1>13, <2>1, <2>2
<1>16. reserve'.accounted_liquidity_assets - reserve.accounted_liquidity_assets = received
  <2> HIDE DEF Current, received, after
  <2> QED
    BY <1>1, <1>2, <1>3, <1>4, <1>9
<1>17. Owed(m)' + received >= owed
  <2> HIDE DEF Current, S, T, S2, T2, p, owed, received, Owed, burned
  <2> QED
    BY <1>4, <1>7, <1>12, <1>14
<1>18. debtShares'[m] <= debtShares[m]
  BY <1>8, <1>9, <1>13
<1> QED
  BY <1>15, <1>16, <1>17, <1>18 DEF owed

\* The three repayments and the liquidation, as settlements.
LEMMA RepaymentOwed ==
  ASSUME IInv, NEW m \in Margins, NEW x \in Payments, NEW y \in U64,
         \/ user_repay_from_margin(m, x, y)
         \/ public_repay_from_wallet(m, x)
         \/ public_liquidate(m, x)
  PROVE  /\ \A k \in Margins \ {m} : debtShares'[k] = debtShares[k] /\ Owed(k)' <= Owed(k)
         /\ debtShares'[m] <= debtShares[m]
         /\ Owed(m)' + (reserve'.accounted_liquidity_assets - reserve.accounted_liquidity_assets)
              >= Owed(m)
<1>1. x \in U64 /\ y \in U64
  BY LendingPoolAssumption, ReserveMathAssumption DEF Payments, U64
<1>2. AccrualOK /\ Owed(m) > 0
  BY DEF user_repay_from_margin, public_repay_from_wallet, public_liquidate
<1>3. Owed(m) \in Nat
  BY <1>2, OwedType
<1>4. MinOf(x, Owed(m)) \in U64
  BY <1>1, <1>3, MinOfU64
<1>5. GrossUp(MinOf(x, Owed(m))) \in Nat
  BY <1>4, LendingPoolAssumption
<1>6. reserve' \in ReserveRecords
  BY <1>1, RepaymentSteps DEF IInv, TypeOK
<1>7. reserve'.last_update_timestamp = now'
  BY AccruingStep
<1>8. PICK sent \in U64 : Settle(m, Settlement(m, sent, Owed(m)))
  <2>1. CASE user_repay_from_margin(m, x, y)
    <3>1. MinOf(GrossUp(MinOf(x, Owed(m))), y) \in U64
      BY <1>1, <1>5, MinOfU64
    <3> QED
      BY <2>1, <3>1 DEF user_repay_from_margin
  <2>2. CASE public_repay_from_wallet(m, x)
    BY <2>2 DEF public_repay_from_wallet
  <2>3. CASE public_liquidate(m, x)
    <3>1. MaxOf(Owed(m) \div 2, 1) \in Nat
      BY <1>3 DEF MaxOf
    <3>2. MinOf(MinOf(x, Owed(m)), MaxOf(Owed(m) \div 2, 1)) \in U64
      BY <1>4, <3>1, MinOfU64
    <3> QED
      BY <2>3, <3>2 DEF public_liquidate
  <2> QED
    BY <2>1, <2>2, <2>3
<1> QED
  BY <1>2, <1>6, <1>7, <1>8, SettledOwed
\* A new configuration starts from an accrued reserve, so nobody's debt moves.
LEMMA ConfigOwed ==
  ASSUME IInv, [Next]_vars, config' # config, NEW m \in Margins
  PROVE  Owed(m)' = Owed(m)
<1>1. PICK c \in ReserveConfigs : admin_update_reserve_config(c)
  BY DEF Next, vars, lenders, margins, admin, lender_supply, lender_redeem, BurnShares,
         user_open_debt_position, user_close_debt_position, user_borrow,
         user_deposit_and_borrow, Lend, public_repay_from_wallet, public_liquidate,
         user_repay_from_margin, Settle, admin_collect_protocol_fees, Donate,
         admin_set_operating_mode, public_refresh_reserve, Tick
<1>2. reserve' = Current /\ debtShares' = debtShares
  BY <1>1 DEF admin_update_reserve_config, margins
<1>3. Current' = reserve'
  <2>1. reserve' \in ReserveRecords
    BY StepInvariant DEF IInv, TypeOK
  <2>2. reserve'.last_update_timestamp = now'
    BY <1>1, AccruingStep
  <2> QED
    BY <2>1, <2>2, CurrentAfter
<1> HIDE DEF Current
<1> QED
  BY <1>2, <1>3 DEF Owed

\* Only a loan and a settlement change debt shares, and each those of one
\* account; the three clauses are the three properties below.
DebtStep ==
  /\ \A m \in Margins : debtShares'[m] < debtShares[m] =>
       Owed(m)' + (reserve.accounted_liquidity_assets' - reserve.accounted_liquidity_assets)
         >= Owed(m)
  /\ \A m \in Margins : debtShares'[m] > debtShares[m] =>
       Owed(m)' >= Owed(m) + (reserve.accounted_liquidity_assets - reserve.accounted_liquidity_assets')
  /\ \A m \in Margins :
       (\E k \in Margins \ {m} : debtShares'[k] # debtShares[k]) => Owed(m)' <= Owed(m)

\* Every instruction keeps to the three clauses.
LEMMA StepDebt == IInv /\ [Next]_vars => DebtStep
<1> SUFFICES ASSUME IInv, [Next]_vars PROVE DebtStep
  OBVIOUS
<1>1. \A k \in Margins : debtShares[k] \in Nat
  BY DEF IInv, TypeOK
<1>2. CASE UNCHANGED debtShares
  <2> HIDE DEF Owed
  <2> QED
    BY <1>1, <1>2 DEF DebtStep
<1>3. CASE \E m \in Margins, x \in Amounts :
             user_borrow(m, x) \/ user_deposit_and_borrow(m, x)
  <2>1. PICK m \in Margins, x \in Amounts : user_borrow(m, x) \/ user_deposit_and_borrow(m, x)
    BY <1>3
  <2>2. /\ \A k \in Margins \ {m} : debtShares'[k] = debtShares[k] /\ Owed(k)' <= Owed(k)
        /\ debtShares'[m] > debtShares[m]
        /\ Owed(m)' >= Owed(m) + (reserve.accounted_liquidity_assets
                                    - reserve'.accounted_liquidity_assets)
    BY <2>1, LoanOwed
  <2>3. debtShares'[m] \in Nat
    BY StepInvariant DEF IInv, TypeOK
  <2> HIDE DEF Owed
  <2> QED
    BY <1>1, <2>2, <2>3 DEF DebtStep
<1>4. CASE \/ \E m \in Margins, x \in Payments :
                  public_repay_from_wallet(m, x) \/ public_liquidate(m, x)
           \/ \E m \in Margins, x \in Payments, y \in Amounts : user_repay_from_margin(m, x, y)
  <2>1. PICK m \in Margins :
          /\ \A k \in Margins \ {m} : debtShares'[k] = debtShares[k] /\ Owed(k)' <= Owed(k)
          /\ debtShares'[m] <= debtShares[m]
          /\ Owed(m)' + (reserve'.accounted_liquidity_assets - reserve.accounted_liquidity_assets)
               >= Owed(m)
    <3>1. 0 \in U64 /\ Amounts \subseteq U64
      BY LendingPoolAssumption, ReserveMathAssumption DEF U64
    <3>2. CASE \E m \in Margins, x \in Payments :
                 public_repay_from_wallet(m, x) \/ public_liquidate(m, x)
      BY <3>1, <3>2, RepaymentOwed
    <3>3. CASE \E m \in Margins, x \in Payments, y \in Amounts : user_repay_from_margin(m, x, y)
      BY <3>1, <3>3, RepaymentOwed
    <3> QED
      BY <1>4, <3>2, <3>3
  <2>2. debtShares'[m] \in Nat
    BY StepInvariant DEF IInv, TypeOK
  <2> HIDE DEF Owed
  <2> QED
    BY <1>1, <2>1, <2>2 DEF DebtStep
<1>5. ASSUME \/ \E l \in Lenders, x \in Amounts :
                  lender_supply(l, x) \/ lender_redeem(l, x) \/ BurnShares(l, x)
             \/ \E m \in Margins : user_open_debt_position(m) \/ user_close_debt_position(m)
             \/ \E c \in ReserveConfigs : admin_update_reserve_config(c)
             \/ \E x \in Amounts : admin_collect_protocol_fees(x) \/ Donate(x)
             \/ \E md \in Modes : admin_set_operating_mode(md)
             \/ public_refresh_reserve \/ Tick
             \/ UNCHANGED vars
      PROVE  UNCHANGED debtShares
  BY <1>5 DEF lender_supply, lender_redeem, BurnShares, user_open_debt_position,
              user_close_debt_position, admin_update_reserve_config, admin_collect_protocol_fees,
              Donate, admin_set_operating_mode, public_refresh_reserve, Tick, vars, margins
<1> QED
  BY <1>2, <1>3, <1>4, <1>5 DEF Next

\* The clock stays ahead of the reserve for ever.
LEMMA ClockInvariance == Spec => []ClockAhead
<1>1. Init => ClockAhead
  BY DEF Init, ClockAhead
<1> QED
  BY <1>1, ClockStep, Invariance, PTL DEF Spec

\* What the positions owe, each rounded up, covers at every moment what the
\* reserve counts as lent: for any number of positions, any rounding of each
\* and any interest, also one that no longer fits a token amount.
THEOREM DebtIsNeverUndercounted == Spec => []DebtNeverUndercounted
<1>1. IInv /\ ClockAhead => DebtNeverUndercounted
  <2> SUFFICES ASSUME IInv, ClockAhead PROVE DebtNeverUndercounted
    OBVIOUS
  <2> DEFINE S == Current.total_borrow_shares
             T == Current.total_borrow_assets
  <2>1. /\ reserve \in ReserveRecords /\ config \in ConfigRecords /\ now \in Nat
        /\ debtShares \in [Margins -> Nat] /\ IsFiniteSet(Margins)
    BY LendingPoolAssumption DEF IInv, TypeOK
  <2>2. /\ T \in Nat
        /\ T >= reserve.total_borrow_assets
        /\ S = reserve.total_borrow_shares
        /\ reserve.total_borrow_assets = 0 => T = 0
    BY <2>1, AccruedDebt DEF Current, ClockAhead
  <2>3. TotalOf(debtShares) = S
    BY <2>2 DEF IInv, SharesConserved
  <2>4. /\ reserve.total_borrow_assets \in Nat /\ S \in Nat
        /\ S <= reserve.total_borrow_assets
        /\ S = 0 => reserve.total_borrow_assets = 0
    BY <2>1, <2>2 DEF ReserveRecords, U64, IInv, DebtSharesBacked
  <2>5. [m \in Margins |-> Owed(m)] = [m \in Margins |-> debt_shares_to_assets_up(debtShares[m], S, T)]
    BY DEF Owed
  <2> HIDE DEF Current, Owed, S, T
  <2>6. S <= T /\ (S = 0 => T = 0)
    BY <2>2, <2>4
  <2>7. TotalOf([m \in Margins |-> debt_shares_to_assets_up(debtShares[m], S, T)]) >= T
    BY <2>1, <2>2, <2>3, <2>4, <2>6, DebtsCoverTotal
  <2> QED
    BY <2>5, <2>7 DEF DebtNeverUndercounted, T
<1> QED
  BY <1>1, Invariance, ClockInvariance, PTL

\* A position loses debt shares only against cash: what it still owes and what
\* the reserve received are together at least what it owed, for every mint fee.
THEOREM DebtIsOnlyPaidOff == Spec => DebtFallsOnlyByPayment
<1>1. IInv /\ [Next]_vars =>
        [\A m \in Margins : debtShares'[m] < debtShares[m] =>
           Owed(m)' + (reserve.accounted_liquidity_assets' - reserve.accounted_liquidity_assets)
             >= Owed(m)]_vars
  BY StepDebt DEF DebtStep
<1> QED
  BY <1>1, Invariance, PTL DEF Spec, DebtFallsOnlyByPayment

\* A borrower owes, in the same second, at least what it owed and what it took.
THEOREM LoansAreOwed == Spec => BorrowerOwesWhatItTook
<1>1. IInv /\ [Next]_vars =>
        [\A m \in Margins : debtShares'[m] > debtShares[m] =>
           Owed(m)' >= Owed(m) + (reserve.accounted_liquidity_assets
                                    - reserve.accounted_liquidity_assets')]_vars
  BY StepDebt DEF DebtStep
<1> QED
  BY <1>1, Invariance, PTL DEF Spec, BorrowerOwesWhatItTook

\* The rounding of a loan, a repayment or a liquidation is never paid by a
\* third position, whatever its size.
THEOREM OthersAreNotCharged == Spec => OthersNotCharged
<1>1. IInv /\ [Next]_vars =>
        [\A m \in Margins :
           (\E k \in Margins \ {m} : debtShares'[k] # debtShares[k]) => Owed(m)' <= Owed(m)]_vars
  BY StepDebt DEF DebtStep
<1> QED
  BY <1>1, Invariance, PTL DEF Spec, OthersNotCharged

\* A change of the rate curve, the fee factor or a cap does not reprice the
\* time before it: no position owes more or less in the second of the change.
THEOREM ConfigChangeNotRetroactive == Spec => ConfigChangeIsProspective
<1>1. IInv /\ [Next]_vars =>
        [config' # config => \A m \in Margins : Owed(m)' = Owed(m)]_vars
  BY ConfigOwed
<1> QED
  BY <1>1, Invariance, PTL DEF Spec, ConfigChangeIsProspective
=============================================================================
