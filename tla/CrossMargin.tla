----------------------------- MODULE CrossMargin -----------------------------
(***************************************************************************)
(* Margin accounts over several assets: a collateral vault and a debt      *)
(* position for every asset, one health factor for the whole account.      *)
(*                                                                         *)
(* There is no ledger of collateral: the balance of the margin vault is    *)
(* the collateral, and the registry (collActive, debtActive) says which    *)
(* vaults and positions a health check visits.  Each instruction keeps     *)
(* that registry itself, and values the positions its own transfer touches *)
(* apart from those it scans; this is where the hazards are.               *)
(*                                                                         *)
(* An account's Lite positions (receipts of a Kamino reserve it holds) count *)
(* as collateral in every health check.  The instructions on them are in   *)
(* LitePositions, which extends this module; without those no position is  *)
(* ever opened.                                                            *)
(*                                                                         *)
(* Every asset has a LendingPool, Pool(a).  Its lenders are idle here and  *)
(* no fees are collected (LendingPool covers both); what the margin        *)
(* instructions do to a pool is shown to be what LendingPool allows.  The  *)
(* slippage limits of the callers, which only refuse, are left out.        *)
(***************************************************************************)
EXTENDS ReserveMath, FiniteSetsExt

CONSTANTS
  Margins,            \* margin accounts, one for each wallet
  Assets,             \* registered assets, each with a reserve
  ReserveConfig,      \* the configuration of every reserve
  Modes,              \* the operating modes the administrator may choose
  AssetConfigs,       \* for each asset the configurations the administrator may choose
  Prices,             \* for each asset its possible prices, 0 for one that is refused
  Scale,              \* the power of ten between tokens times price and value
  Threshold,          \* BALANCE_TO_BORROW_THRESHOLD_WAD
  MaxAssetsPerMargin, \* ProtocolConfig::max_assets_per_margin
  Supplied,           \* for each asset what its lenders have supplied
  Amounts,            \* the amounts an instruction is called with
  Balances,           \* the vault balances a repayment may find (for Pool)
  TransferFee(_),     \* what the mints withhold from a transfer of x
  GrossUp(_),         \* the transfer that delivers x after the fee
  MaxTime,            \* bound: the clock stops here
  Donations,          \* the amounts somebody else may send to a margin vault
  Legacy,             \* the address of a Lite position that no index is part of
  Rates,              \* what a hundred Kamino receipts may be worth, in underlying
  WordSize            \* what eight bytes of a Lite position hold

VARIABLES
  mode,               \* ProtocolConfig::operating_mode
  assetConf,          \* asset -> collateral and borrow switches, cap, bonus
  price,              \* asset -> price the oracle gives, 0 when it is refused
  now,                \* the clock sysvar
  reserve,            \* asset -> accounting fields of its reserve
  liquidity,          \* asset -> balance of the reserve's vault
  exists,             \* margin accounts that have been created
  opened,             \* margin account -> assets with an open debt position
  debtShares,         \* margin account -> asset -> borrow_shares
  debtActive,         \* margin account -> debt_asset_indexes
  collActive,         \* margin account -> collateral_asset_indexes
  vault,              \* margin account -> asset -> balance of the margin vault
  blank,              \* margin account -> assets whose debt position is all zero
  lite,               \* margin account -> its Lite positions by address
  liteIndexes,        \* margin account -> the packed Lite registry
  receipts,           \* margin account -> asset -> balance of its receipt account
  rate                \* asset -> what a hundred of its receipts are worth

\* The amounts a repayment is called with: u64::MAX asks to pay everything.
Payments == Amounts \cup {MaxU64}

world    == <<mode, assetConf, price, now>>
pools    == <<reserve, liquidity>>
registry == <<debtActive, collActive>>
\* Debt positions that exist; a blank one belongs to no account yet and has no
\* bump, so that every instruction that derives its address refuses it.
debtAccounts == <<opened, blank>>
liteState    == <<lite, liteIndexes, receipts, rate>>
vars     == <<world, pools, exists, debtAccounts, debtShares, registry, vault, liteState>>

\* The addresses a Lite position may have: one for each asset and one more.
Places == Assets \cup {Legacy}

\* A Lite position.  `word` are the bytes 17 to 24 of `reserved` and `pending`
\* is byte 25: together the redemption that waits for its repayment.
LiteRecords ==
  [asset : Assets, receipts : U64, deposited : U64, equity : U64,
   shares : Nat, word : 0..(WordSize - 1), pending : BOOLEAN]

AssetConfigRecords ==
  [collateral_enabled        : BOOLEAN,
   borrow_enabled            : BOOLEAN,
   max_collateral_per_margin : U64,
   liquidation_bonus_bps     : 0..BasisPoints]

ASSUME CrossMarginAssumption ==
  /\ IsFiniteSet(Margins) /\ IsFiniteSet(Assets)
  /\ ReserveConfig \in ConfigRecords
  /\ AssetConfigs \in [Assets -> SUBSET AssetConfigRecords]
  /\ Prices \in [Assets -> SUBSET Nat]
  /\ {Scale, Threshold, MaxAssetsPerMargin} \subseteq Nat \ {0}
  /\ Supplied \in [Assets -> U64]
  /\ Amounts \cup Donations \cup Balances \subseteq U64
  /\ \A x \in U64 : TransferFee(x) \in 0..x /\ GrossUp(x) \in Nat
  /\ MaxTime \in Nat
  /\ Legacy \notin Assets
  /\ Rates \subseteq Nat \ {0}
  /\ WordSize \in Nat \ {0}

\* The lending pool of asset a, as its margin accounts and idle lenders see it.
Pool(a) == INSTANCE LendingPool WITH
  Lenders        <- {"lenders"},
  ReserveConfigs <- {ReserveConfig},
  Amounts        <- Amounts \cup Balances,
  MaxDonation    <- 0,
  reserve        <- reserve[a],
  config         <- ReserveConfig,
  vault          <- liquidity[a],
  shareSupply    <- Supplied[a],
  lenderShares   <- [l \in {"lenders"} |-> Supplied[a]],
  opened         <- {m \in Margins : a \in opened[m]},
  debtShares     <- [m \in Margins |-> debtShares[m][a]],
  debtActive     <- {m \in Margins : a \in debtActive[m]}

-----------------------------------------------------------------------------
(* Values and health *)

ValueDown(amount, a) == mul_div_floor(amount, price[a], Scale)
ValueUp(amount, a)   == mul_div_ceil(amount, price[a], Scale)
TokensWorth(value, a) == mul_div_floor(value, Scale, price[a])

\* The underlying that `amount` receipts stand for.
receipt_value(amount, a) == mul_div_floor(amount, rate[a], 100)

\* The slots a health check visits: all active ones but those in the sets the
\* instruction names and values itself.  Each needs a price, a debt an accrual
\* that does not fail.
SlotsScannable(m, namedColl, namedDebt) ==
  /\ \A a \in collActive[m] \ namedColl : price[a] > 0
  /\ \A a \in debtActive[m] \ namedDebt : price[a] > 0 /\ Pool(a)!AccrualOK

\* The Lite positions it visits: the legacy one if there is one, and all that
\* are registered, but those in `named`.
LiteVisited(m, named) == (liteIndexes[m] \cup (DOMAIN lite[m] \cap {Legacy})) \ named

\* Each must exist, with a price and its receipts, and be the only position of
\* its asset; `seen` are the assets of the named ones.
LiteScannable(m, named, seen) ==
  /\ LiteVisited(m, named) \subseteq DOMAIN lite[m]
  /\ \A p \in LiteVisited(m, named) :
        /\ price[lite[m][p].asset] > 0
        /\ lite[m][p].receipts <= receipts[m][lite[m][p].asset]
        /\ lite[m][p].asset \notin seen
        /\ \A q \in LiteVisited(m, named) \ {p} : lite[m][q].asset # lite[m][p].asset

Scannable(m, namedColl, namedDebt) ==
  SlotsScannable(m, namedColl, namedDebt) /\ LiteScannable(m, {}, {})

VaultsIn(m, assets) == MapThenSumSet(LAMBDA a : ValueDown(vault[m][a], a), assets)
LiteIn(m, named)    ==
  MapThenSumSet(LAMBDA p : ValueDown(receipt_value(lite[m][p].receipts, lite[m][p].asset),
                                     lite[m][p].asset),
                LiteVisited(m, named))

\* The collateral a check finds in the vaults of `assets` and the Lite positions.
CollateralIn(m, assets) == VaultsIn(m, assets) + LiteIn(m, {})
DebtIn(m, assets)       == MapThenSumSet(LAMBDA a : ValueUp(Pool(a)!Owed(m), a), assets)

HealthFactor(collateral, debt) ==
  IF debt = 0 THEN MaxU128 ELSE mul_div_floor(collateral, Wad, debt)
Healthy(collateral, debt) == debt > 0 => HealthFactor(collateral, debt) > Threshold
Liquidatable(collateral, debt) == debt > 0 /\ HealthFactor(collateral, debt) <= Threshold

\* (faulty) any fall of the debt will do
DebtFalls(collBefore, debtBefore, collAfter, debtAfter) ==
  debtAfter > 0 => debtAfter < debtBefore

\* A liquidation leaves no debt or a higher health factor.
Improves(collBefore, debtBefore, collAfter, debtAfter) ==
  debtAfter > 0 => HealthFactor(collAfter, debtAfter) > HealthFactor(collBefore, debtBefore)

SlotsUsed(coll, debt) == Cardinality(coll) + Cardinality(debt)

UnderCap(a, amount) ==
  \/ assetConf[a].max_collateral_per_margin = Uncapped
  \/ amount <= assetConf[a].max_collateral_per_margin

-----------------------------------------------------------------------------
\* The functions that choose one of the values `sets` gives for every asset.
Selections(sets) ==
  {f \in [Assets -> UNION {sets[a] : a \in Assets}] : \A a \in Assets : f[a] \in sets[a]}

Init ==
  /\ mode \in Modes
  /\ assetConf \in Selections(AssetConfigs)
  /\ price \in Selections(Prices)
  /\ now = 0
  /\ reserve = [a \in Assets |->
       [accounted_liquidity_assets |-> Supplied[a],
        total_borrow_assets        |-> 0,
        total_borrow_shares        |-> 0,
        borrow_index_wad           |-> Wad,
        accrued_protocol_fees      |-> 0,
        last_update_timestamp      |-> now]]
  /\ liquidity = Supplied
  /\ exists = {}
  /\ opened = [m \in Margins |-> {}]
  /\ debtShares = [m \in Margins |-> [a \in Assets |-> 0]]
  /\ debtActive = [m \in Margins |-> {}]
  /\ collActive = [m \in Margins |-> {}]
  /\ vault = [m \in Margins |-> [a \in Assets |-> 0]]
  /\ blank = [m \in Margins |-> {}]
  /\ lite = [m \in Margins |-> [p \in {} |-> 0]]
  /\ liteIndexes = [m \in Margins |-> {}]
  /\ receipts = [m \in Margins |-> [a \in Assets |-> 0]]
  /\ rate \in [Assets -> Rates]

-----------------------------------------------------------------------------
(* The account itself *)

\* The registry of an account that does not exist is empty (new_empty).
user_create_margin(m) ==
  /\ m \notin exists
  /\ exists' = exists \cup {m}
  /\ UNCHANGED <<world, pools, debtAccounts, debtShares, registry, vault>>

\* (faulty) looks at the debts only
CloseWithCollateral(m) ==
  /\ m \in exists
  /\ debtActive[m] = {}
  /\ exists' = exists \ {m}
  /\ UNCHANGED <<world, pools, debtAccounts, debtShares, registry, vault>>

user_close_margin(m) ==
  /\ m \in exists
  /\ collActive[m] = {} /\ debtActive[m] = {} /\ liteIndexes[m] = {}
  /\ exists' = exists \ {m}
  /\ UNCHANGED <<world, pools, debtAccounts, debtShares, registry, vault>>

user_open_debt_position(m, a) ==
  /\ m \in exists
  /\ a \notin opened[m] \cup blank[m]
  /\ assetConf[a].borrow_enabled
  /\ opened' = [opened EXCEPT ![m] = @ \cup {a}]
  /\ UNCHANGED <<world, pools, exists, blank, debtShares, registry, vault>>

user_close_debt_position(m, a) ==
  /\ m \in exists
  /\ a \in opened[m]
  /\ debtShares[m][a] = 0
  /\ a \notin debtActive[m]
  /\ opened' = [opened EXCEPT ![m] = @ \ {a}]
  /\ UNCHANGED <<world, pools, exists, blank, debtShares, registry, vault>>

-----------------------------------------------------------------------------
(* Collateral *)

\* (faulty) counts the collateral slots only
DepositWithinCollateral(m, a, amount) ==
  /\ Pool(a)!ProtocolAllows("CollateralDeposit")
  /\ assetConf[a].collateral_enabled
  /\ amount > 0
  /\ vault[m][a] + Pool(a)!Delivered(amount) \in U64
  /\ vault[m][a] = 0 => /\ Cardinality(collActive[m]) < MaxAssetsPerMargin
                        /\ a \notin collActive[m]
  /\ UnderCap(a, vault[m][a] + Pool(a)!Delivered(amount))

\* A deposit of `amount` is accepted.
DepositAllowed(m, a, amount) ==
  /\ Pool(a)!ProtocolAllows("CollateralDeposit")
  /\ assetConf[a].collateral_enabled
  /\ amount > 0
  /\ vault[m][a] + Pool(a)!Delivered(amount) \in U64
  /\ vault[m][a] = 0 => /\ SlotsUsed(collActive[m], debtActive[m]) < MaxAssetsPerMargin
                        /\ a \notin collActive[m]
  /\ UnderCap(a, vault[m][a] + Pool(a)!Delivered(amount))

\* (faulty) registers every deposit as if the vault had been empty before
RegisteredAfterAnyDeposit(m, a) == IF vault[m][a] > 0 THEN {} ELSE collActive[m] \cup {a}

\* The collateral slots after a deposit of a.
AfterDeposit(m, a) == IF vault[m][a] = 0 THEN collActive[m] \cup {a} ELSE collActive[m]

user_deposit_collateral(m, a, amount) ==
  /\ m \in exists
  /\ DepositAllowed(m, a, amount)
  /\ vault' = [vault EXCEPT ![m][a] = @ + Pool(a)!Delivered(amount)]
  /\ collActive' = [collActive EXCEPT ![m] = AfterDeposit(m, a)]
  /\ UNCHANGED <<world, pools, exists, debtAccounts, debtShares, debtActive>>

\* (faulty) looks at the health before the tokens leave
WithdrawByHealthBefore(m, a, amount) ==
  LET left == vault[m][a] - amount
  IN  /\ m \in exists
      /\ Pool(a)!ProtocolAllows("CollateralWithdraw")
      /\ amount > 0 /\ left >= 0
      /\ Scannable(m, {}, {})
      /\ Healthy(CollateralIn(m, collActive[m]), DebtIn(m, debtActive[m]))
      /\ left = 0 => a \in collActive[m]
      /\ vault' = [vault EXCEPT ![m][a] = left]
      /\ collActive' = IF left = 0 THEN [collActive EXCEPT ![m] = @ \ {a}] ELSE collActive
      /\ UNCHANGED <<world, pools, exists, debtAccounts, debtShares, debtActive>>

user_withdraw_collateral(m, a, amount) ==
  LET left == vault[m][a] - amount
  IN  /\ m \in exists
      /\ Pool(a)!ProtocolAllows("CollateralWithdraw")
      /\ amount > 0 /\ left >= 0
      /\ Scannable(m, {a}, {}) /\ price[a] > 0
      /\ Healthy(CollateralIn(m, collActive[m] \ {a}) + ValueDown(left, a),
                 DebtIn(m, debtActive[m]))
      /\ left = 0 => a \in collActive[m]
      /\ vault' = [vault EXCEPT ![m][a] = left]
      /\ collActive' = IF left = 0 THEN [collActive EXCEPT ![m] = @ \ {a}] ELSE collActive
      /\ UNCHANGED <<world, pools, exists, debtAccounts, debtShares, debtActive>>

\* The account is healthy with `left` of asset i and `gained` of asset o in its
\* vaults.  The slot of i is left out of the scan, and that of o only if it is
\* not there yet.
SwapHealthy(m, i, o, left, gained) ==
  /\ Scannable(m, {i}, {}) /\ price[i] > 0 /\ (o \notin collActive[m] => price[o] > 0)
  /\ Healthy(CollateralIn(m, collActive[m] \ {i, o}) + ValueDown(left, i) + ValueDown(gained, o),
             DebtIn(m, debtActive[m]))

\* The slots after a swap: an emptied vault gives its own back before the other
\* one takes one.
SwapSlots(m, i, o, left) ==
  LET stay == IF left = 0 THEN collActive[m] \ {i} ELSE collActive[m]
  IN  /\ o \notin collActive[m] => SlotsUsed(stay, debtActive[m]) < MaxAssetsPerMargin
      /\ collActive' = [collActive EXCEPT ![m] = stay \cup {o}]

\* A swap by way of the route of another program, which returns `out` of asset
\* o, at least what the caller accepts.  Health is that of the vaults afterwards.
user_margin_swap(m, i, o, amount, out) ==
  LET left   == vault[m][i] - amount
      gained == vault[m][o] + Pool(o)!Delivered(out)
  IN  /\ m \in exists
      /\ Pool(i)!ProtocolAllows("CollateralWithdraw")
      /\ amount > 0 /\ out > 0
      /\ i # o
      /\ assetConf[o].collateral_enabled
      /\ i \in collActive[m]
      /\ left >= 0
      /\ gained \in U64
      /\ UnderCap(o, gained)
      /\ SwapHealthy(m, i, o, left, gained)
      /\ SwapSlots(m, i, o, left)
      /\ vault' = [vault EXCEPT ![m][i] = left, ![m][o] = gained]
      /\ UNCHANGED <<world, pools, exists, debtAccounts, debtShares, debtActive>>

-----------------------------------------------------------------------------
(* Loans *)

\* (faulty) counts the shares on the totals before the interest
LoanWithoutAccrual(m, a, assets) ==
  LET r      == reserve[a]
      shares == assets_to_debt_shares_up(assets, r.total_borrow_shares, r.total_borrow_assets)
      after  == AfterBorrow(r, assets, shares)
  IN  [position |-> debtShares[m][a] + shares,
       reserve  |-> after,
       owed     |-> debt_shares_to_assets_up(debtShares[m][a] + shares,
                                             after.total_borrow_shares,
                                             after.total_borrow_assets)]

\* A loan of `assets` of a to account m: the shares it mints, the reserve after
\* it and what the position then owes.
Loan(m, a, assets) ==
  LET r      == Pool(a)!Current
      shares == assets_to_debt_shares_up(assets, r.total_borrow_shares, r.total_borrow_assets)
      after  == AfterBorrow(r, assets, shares)
  IN  [position |-> debtShares[m][a] + shares,
       reserve  |-> after,
       owed     |-> debt_shares_to_assets_up(debtShares[m][a] + shares,
                                             after.total_borrow_shares,
                                             after.total_borrow_assets)]

\* Modes, status and the asset allow loans.
LendingOpen(a) ==
  /\ Pool(a)!ProtocolAllows("Borrow")
  /\ Pool(a)!ReserveAllows("Borrow")
  /\ assetConf[a].borrow_enabled
  /\ Pool(a)!AccrualOK

\* The reserve can make the loan.
LoanAllowed(a, assets) ==
  LET r == Pool(a)!Current
  IN  /\ LendingOpen(a)
      /\ assets > 0
      /\ \/ ReserveConfig.borrow_cap = Uncapped
         \/ r.total_borrow_assets + assets <= ReserveConfig.borrow_cap
      /\ assets <= r.accounted_liquidity_assets
      /\ r.total_borrow_assets + assets \in U64
      /\ assets <= liquidity[a]

\* The borrowed tokens as collateral: the vault plus what is sent to it.
LoanAsCollateral(m, a, assets) ==
  IF assetConf[a].collateral_enabled THEN ValueDown(vault[m][a] + assets, a) ELSE 0

\* A first loan takes a debt slot, and the tokens may take a collateral slot
\* without a look at the count.  `coll` are the collateral slots in use before.
TakeLoan(m, a, assets, coll) ==
  LET loan == Loan(m, a, assets)
  IN  /\ debtShares[m][a] = 0 => /\ SlotsUsed(coll, debtActive[m]) < MaxAssetsPerMargin
                                 /\ a \notin debtActive[m]
      /\ vault[m][a] + assets \in U64
      /\ reserve' = [reserve EXCEPT ![a] = loan.reserve]
      /\ liquidity' = [liquidity EXCEPT ![a] = @ - assets]
      /\ debtShares' = [debtShares EXCEPT ![m][a] = loan.position]
      /\ debtActive' = [debtActive EXCEPT ![m] = @ \cup {a}]
      /\ collActive' = [collActive EXCEPT ![m] =
            IF vault[m][a] = 0 /\ assetConf[a].collateral_enabled THEN coll \cup {a} ELSE coll]

user_borrow(m, a, assets) ==
  /\ m \in exists
  /\ a \in opened[m]
  /\ LoanAllowed(a, assets)
  /\ Scannable(m, {a}, {a}) /\ price[a] > 0
  /\ Healthy(CollateralIn(m, collActive[m] \ {a}) + LoanAsCollateral(m, a, assets),
             DebtIn(m, debtActive[m] \ {a}) + ValueUp(Loan(m, a, assets).owed, a))
  /\ TakeLoan(m, a, assets, collActive[m])
  /\ vault' = [vault EXCEPT ![m][a] = @ + Pool(a)!Delivered(assets)]
  /\ UNCHANGED <<world, exists, debtAccounts>>

\* The account is healthy with `deposited` of c and the loan.  The scan leaves
\* out the collateral slot of c and the debt slot of a; the collateral slot of
\* a, where there is one, is scanned and valued again.
CompositeHealthy(m, c, a, deposited, assets) ==
  /\ Scannable(m, {c}, {a}) /\ price[c] > 0 /\ price[a] > 0
  /\ Healthy(CollateralIn(m, AfterDeposit(m, c) \ {c}) + ValueDown(deposited, c)
               + LoanAsCollateral(m, a, assets),
             DebtIn(m, debtActive[m] \ {a}) + ValueUp(Loan(m, a, assets).owed, a))

\* Deposit c and borrow a, creating the account and the position on the way.
user_deposit_and_borrow(m, c, a, amount, assets) ==
  LET deposited == vault[m][c] + Pool(c)!Delivered(amount)
  IN  /\ c # a
      /\ DepositAllowed(m, c, amount)
      /\ LoanAllowed(a, assets)
      /\ CompositeHealthy(m, c, a, deposited, assets)
      /\ TakeLoan(m, a, assets, AfterDeposit(m, c))
      /\ vault' = [vault EXCEPT ![m][c] = deposited, ![m][a] = @ + Pool(a)!Delivered(assets)]
      /\ exists' = exists \cup {m}
      /\ opened' = [opened EXCEPT ![m] = @ \cup {a}]
      /\ blank' = [blank EXCEPT ![m] = @ \ {a}]
      /\ UNCHANGED world

-----------------------------------------------------------------------------
(* Repayment and liquidation *)

\* The reserve leg of a repayment, with the debt slot it may free.
Settle(m, a, s) ==
  /\ Pool(a)!SettlementSucceeds(m, s)
  /\ reserve' = [reserve EXCEPT ![a] = s.reserve]
  /\ liquidity' = [liquidity EXCEPT ![a] = @ + s.received]
  /\ debtShares' = [debtShares EXCEPT ![m][a] = s.shares]
  /\ debtActive' = IF s.shares = 0 THEN [debtActive EXCEPT ![m] = @ \ {a}] ELSE debtActive

\* (faulty) leaves the collateral slot of the vault it empties
RepayKeepsSlot(m, a, max_assets) ==
  LET owed == Pool(a)!Owed(m)
      sent == MinOf(GrossUp(MinOf(max_assets, owed)), vault[m][a])
  IN  /\ m \in exists
      /\ a \in opened[m]
      /\ Pool(a)!AccrualOK
      /\ owed > 0
      /\ sent > 0
      /\ Settle(m, a, Pool(a)!Settlement(m, sent, owed))
      /\ vault' = [vault EXCEPT ![m][a] = @ - sent]
      /\ UNCHANGED <<world, exists, debtAccounts, collActive>>

user_repay_from_margin(m, a, max_assets) ==
  LET owed == Pool(a)!Owed(m)
      sent == MinOf(GrossUp(MinOf(max_assets, owed)), vault[m][a])
  IN  /\ m \in exists
      /\ a \in opened[m]
      /\ Pool(a)!AccrualOK
      /\ owed > 0
      /\ sent > 0
      /\ Settle(m, a, Pool(a)!Settlement(m, sent, owed))
      /\ vault' = [vault EXCEPT ![m][a] = @ - sent]
      /\ collActive' = [collActive EXCEPT ![m] = IF sent = vault[m][a] THEN @ \ {a} ELSE @]
      /\ UNCHANGED <<world, exists, debtAccounts>>

public_repay_from_wallet(m, a, max_assets) ==
  LET owed   == Pool(a)!Owed(m)
      target == MinOf(max_assets, owed)
  IN  /\ m \in exists
      /\ a \in opened[m]
      /\ Pool(a)!AccrualOK
      /\ owed > 0
      /\ target > 0
      /\ GrossUp(target) \in U64
      /\ Settle(m, a, Pool(a)!Settlement(m, GrossUp(target), owed))
      /\ UNCHANGED <<world, exists, debtAccounts, collActive, vault>>

\* What a liquidator who repays `repay` of d may take of c: its value plus the
\* bonus, rounded down, as far as the vault goes.
Seizable(m, c, d, repay) ==
  MinOf(vault[m][c],
        TokensWorth(mul_div_floor(ValueUp(repay, d),
                                  BasisPoints + assetConf[c].liquidation_bonus_bps, BasisPoints), c))

\* Anybody repays up to half of debt d and takes collateral c.  No operating
\* mode stops it.  The vault is taken to hold what it held less what arrived.
public_liquidate(m, c, d, max_repay_assets) ==
  LET owed       == Pool(d)!Owed(m)
      repay      == MinOf(MinOf(max_repay_assets, owed), MaxOf(owed \div 2, 1))
      s          == Pool(d)!Settlement(m, repay, owed)
      seize      == Seizable(m, c, d, repay)
      left       == vault[m][c] - Pool(c)!Delivered(seize)
      owedAfter  == debt_shares_to_assets_up(s.shares, s.reserve.total_borrow_shares,
                                             s.reserve.total_borrow_assets)
      otherColl  == CollateralIn(m, collActive[m] \ {c})
      otherDebt  == DebtIn(m, debtActive[m] \ {d})
      collBefore == otherColl + ValueDown(vault[m][c], c)
      debtBefore == otherDebt + ValueUp(owed, d)
      collAfter  == otherColl + ValueDown(left, c)
      debtAfter  == otherDebt + ValueUp(owedAfter, d)
  IN  /\ m \in exists
      /\ d \in opened[m]
      /\ assetConf[c].collateral_enabled
      /\ max_repay_assets > 0
      /\ Pool(d)!AccrualOK
      /\ Scannable(m, {c}, {d}) /\ price[c] > 0 /\ price[d] > 0
      /\ owed > 0
      /\ Liquidatable(collBefore, debtBefore)
      /\ seize > 0
      /\ left = 0 => c \in collActive[m]
      /\ Improves(collBefore, debtBefore, collAfter, debtAfter)
      /\ Settle(m, d, s)
      /\ vault' = [vault EXCEPT ![m][c] = @ - seize]
      /\ collActive' = [collActive EXCEPT ![m] = IF left = 0 THEN @ \ {c} ELSE @]
      /\ UNCHANGED <<world, exists, debtAccounts>>

-----------------------------------------------------------------------------
(* The administrator, the oracle, time, and other people's tokens *)

admin_set_operating_mode(new_mode) ==
  /\ mode' = new_mode
  /\ UNCHANGED <<assetConf, price, now, pools, exists, debtAccounts, debtShares, registry, vault>>

admin_update_asset_config(a, c) ==
  /\ assetConf' = [assetConf EXCEPT ![a] = c]
  /\ UNCHANGED <<mode, price, now, pools, exists, debtAccounts, debtShares, registry, vault>>

SetPrice(a, p) ==
  /\ price' = [price EXCEPT ![a] = p]
  /\ UNCHANGED <<mode, assetConf, now, pools, exists, debtAccounts, debtShares, registry, vault>>

Tick ==
  /\ now < MaxTime
  /\ now' = now + 1
  /\ UNCHANGED <<mode, assetConf, price, pools, exists, debtAccounts, debtShares, registry, vault>>

\* Tokens sent to a margin vault without the program.
Donate(m, a, amount) ==
  /\ vault[m][a] + amount \in U64
  /\ vault' = [vault EXCEPT ![m][a] = @ + amount]
  /\ UNCHANGED <<world, pools, exists, debtAccounts, debtShares, registry>>

-----------------------------------------------------------------------------
\* An instruction on the account, its vaults and debts, or a step of the world.
MarginStep ==
  \/ \E m \in Margins : user_create_margin(m) \/ user_close_margin(m)
  \/ \E m \in Margins, a \in Assets :
        user_open_debt_position(m, a) \/ user_close_debt_position(m, a)
  \/ \E m \in Margins, a \in Assets, x \in Amounts :
        \/ user_deposit_collateral(m, a, x)
        \/ user_withdraw_collateral(m, a, x)
        \/ user_borrow(m, a, x)
  \/ \E m \in Margins, a \in Assets, x \in Payments :
        user_repay_from_margin(m, a, x) \/ public_repay_from_wallet(m, a, x)
  \/ \E m \in Margins, c, a \in Assets, x, y \in Amounts :
        user_deposit_and_borrow(m, c, a, x, y) \/ user_margin_swap(m, c, a, x, y)
  \/ \E m \in Margins, c, d \in Assets, x \in Amounts : public_liquidate(m, c, d, x)
  \/ \E m \in Margins, a \in Assets, x \in Donations : Donate(m, a, x)
  \/ \E md \in Modes : admin_set_operating_mode(md)
  \/ \E a \in Assets : \E p \in Prices[a] : SetPrice(a, p)
  \/ \E a \in Assets : \E c \in AssetConfigs[a] : admin_update_asset_config(a, c)
  \/ Tick

Next == MarginStep /\ UNCHANGED liteState

Spec == Init /\ [][Next]_vars

-----------------------------------------------------------------------------
(* Type invariant *)

\* Every variable holds a value of its kind; an account that does not exist
\* has no entries in a registry.
TypeOK ==
  /\ mode \in Modes
  /\ \A a \in Assets : assetConf[a] \in AssetConfigs[a] /\ price[a] \in Prices[a]
  /\ now \in Nat
  /\ reserve \in [Assets -> ReserveRecords]
  /\ liquidity \in [Assets -> U64]
  /\ exists \subseteq Margins
  /\ opened \in [Margins -> SUBSET Assets]
  /\ debtShares \in [Margins -> [Assets -> Nat]]
  /\ debtActive \in [Margins -> SUBSET Assets]
  /\ collActive \in [Margins -> SUBSET Assets]
  /\ vault \in [Margins -> [Assets -> U64]]
  /\ blank \in [Margins -> SUBSET Assets]
  /\ \A m \in Margins : /\ DOMAIN lite[m] \subseteq Places
                        /\ \A p \in DOMAIN lite[m] : lite[m][p] \in LiteRecords
  /\ liteIndexes \in [Margins -> SUBSET Assets]
  /\ receipts \in [Margins -> [Assets -> U64]]
  /\ rate \in [Assets -> Rates]
  /\ \A m \in Margins \ exists : collActive[m] = {} /\ debtActive[m] = {} /\ liteIndexes[m] = {}

-----------------------------------------------------------------------------
(* Safety *)

\* An active collateral slot has tokens behind it.  An empty vault with a slot
\* refuses the next deposit and keeps the account from being closed.
NoEmptySlots ==
  \A m \in Margins : \A a \in collActive[m] : vault[m][a] > 0

\* Tokens in a margin vault are in the registry: they count as collateral, a
\* liquidation sees them and their owner can take out the last of them.
NoHiddenCollateral ==
  \A m \in Margins, a \in Assets : vault[m][a] > 0 => a \in collActive[m]

\* However assets come and go, an account spans no more than
\* max_assets_per_margin of them, although a loan takes a collateral slot
\* without looking at the count.
AssetsBounded ==
  \A m \in Margins : Cardinality(collActive[m] \cup debtActive[m]) <= MaxAssetsPerMargin

\* The whole account, every active position in it, valued at the current state.
AccountCollateral(m) == CollateralIn(m, collActive[m])
AccountDebt(m)       == DebtIn(m, debtActive[m])
AccountHealthy(m)    == /\ Scannable(m, {}, {})
                        /\ Healthy(AccountCollateral(m), AccountDebt(m))

\* Something left account m for its owner: tokens out of a vault or a loan, and
\* nothing came into a reserve in exchange.
OwnerTakes(m) ==
  /\ \E a \in Assets : vault'[m][a] < vault[m][a] \/ debtShares'[m][a] > debtShares[m][a]
  /\ \A a \in Assets : liquidity'[a] <= liquidity[a]

\* The composite borrows an asset that the account already has as collateral.
BorrowsHeldAsset(m) ==
  \E c, a \in Assets, x, y \in Amounts :
     a \in collActive[m] /\ user_deposit_and_borrow(m, c, a, x, y)

\* Whatever projection the instruction judged, the account it leaves behind is
\* healthy when all of its positions are valued: withdrawals, loans, swaps and
\* the composite on a new asset.
OwnerLeavesHealthy ==
  [][\A m \in Margins : OwnerTakes(m) => AccountHealthy(m)' \/ BorrowsHeldAsset(m)]_vars

\* The same for the composite on any asset.
CompositeLeavesHealthy ==
  [][\A m \in Margins : OwnerTakes(m) => AccountHealthy(m)']_vars

\* Account m is liquidated: tokens leave its vaults while a reserve gains some.
Liquidated(m) ==
  /\ \E a \in Assets : vault'[m][a] < vault[m][a]
  /\ \E a \in Assets : liquidity'[a] > liquidity[a]
  /\ \E c, d \in Assets, x \in Amounts : public_liquidate(m, c, d, x)

\* A liquidation is for an account that is liquidatable as a whole, and leaves
\* it without debt or with a higher health factor, all positions counted.
LiquidationHelps ==
  [][\A m \in Margins : Liquidated(m) =>
       /\ Liquidatable(AccountCollateral(m), AccountDebt(m))
       /\ AccountDebt(m)' > 0 =>
            HealthFactor(AccountCollateral(m), AccountDebt(m))'
              > HealthFactor(AccountCollateral(m), AccountDebt(m))]_vars

\* Every step is for every pool a step of LendingPool or none at all: what is
\* proved of LendingPool's steps holds for the margin instructions.
StepsOfPools ==
  [][\A a \in Assets : UNCHANGED Pool(a)!vars \/ Pool(a)!Next]_vars
=============================================================================
