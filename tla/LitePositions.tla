----------------------------- MODULE LitePositions -----------------------------
(***************************************************************************)
(* instructions/lite.rs: Lite positions, the receipts of a Kamino reserve  *)
(* that a margin account holds as collateral.                              *)
(*                                                                         *)
(* lite_open borrows an asset and deposits it, with equity from the wallet,*)
(* into Kamino; lite_supply deposits what is in a margin vault.  A position*)
(* of a borrowed asset is wound down in two instructions, redeem and repay,*)
(* which remember the redeemed amount in spare bytes of the position.  They*)
(* are meant for one transaction, and nothing makes sure of that: here any *)
(* instruction may come between.  lite_reduce_and_repay redeems one asset, *)
(* swaps it for another and repays the debt in that one.                   *)
(*                                                                         *)
(* Kamino is external: an exchange rate between receipts and tokens, and   *)
(* two calls that round down.  Positions older than the attribution of debt*)
(* (flag byte 16), the wallets, and the callers' slippage limits are left  *)
(* out; so is the room for 24 entries in the Lite registry, which          *)
(* MarginRegistry covers.                                                  *)
(***************************************************************************)
EXTENDS CrossMargin, Functions

CONSTANTS
  Strategies,  \* assets with a LiteStrategyConfig
  Chosen,      \* the addresses callers choose for a position
  Equities,    \* amounts lite_open is called with
  Leverages,   \* basis points of leverage it is called with
  Exits,       \* basis points an exit is called with
  Supplies,    \* amounts lite_supply is called with
  Deltas,      \* debt shares its caller attributes to the position
  Byte         \* 256

ASSUME LiteAssumption ==
  /\ Strategies \subseteq Assets
  /\ Chosen \subseteq Places
  /\ Leverages \subseteq BasisPoints..(5 * BasisPoints)
  /\ Exits \subseteq 1..BasisPoints
  /\ Equities \cup Supplies \subseteq U64
  /\ Deltas \subseteq Nat
  /\ Byte \in Nat \ {0}

\* What is left to the margin instructions and to the world.
unlent == <<reserve, liquidity, debtShares, debtActive>>

-----------------------------------------------------------------------------
(* Kamino and the position account *)

\* The receipts for a deposit of `amount`.
Minted(amount, a) == mul_div_floor(amount, 100, rate[a])

\* The shares of the account's debt that are the position's.
debt_shares(position, outstanding) == MinOf(position.shares, outstanding)

NewPosition(a) ==
  [asset |-> a, receipts |-> 0, deposited |-> 0, equity |-> 0,
   shares |-> 0, word |-> 0, pending |-> FALSE]

PositionAt(m, p, a) == IF p \in DOMAIN lite[m] THEN lite[m][p] ELSE NewPosition(a)

\* The caller chooses the legacy address or the one of the asset; a position
\* that is already there must be of this asset.
position_seed(m, p, a) == p \in {a, Legacy} /\ PositionAt(m, p, a).asset = a

\* (faulty) registers nothing
Unregistered(m, p) == liteIndexes

\* The registry once the position at p exists: the legacy address has no index.
Registered(m, p) == [liteIndexes EXCEPT ![m] = @ \cup ({p} \ {Legacy})]

Stored(m, p, position) ==
  [lite EXCEPT ![m] = [q \in DOMAIN @ \cup {p} |-> IF q = p THEN position ELSE @[q]]]

\* (faulty) a full exit leaves its index behind
ClosedOnly(m, p, position, exit_bps) ==
  IF exit_bps = BasisPoints
    THEN /\ lite' = [lite EXCEPT ![m] = Restrict(@, DOMAIN @ \ {p})]
         /\ UNCHANGED liteIndexes
    ELSE lite' = Stored(m, p, position) /\ UNCHANGED liteIndexes

\* The end of an exit: after a full one the position is unregistered, if it is
\* in the registry at all, and closed, whatever is left in it.
StoredOrClosed(m, p, position, exit_bps) ==
  IF exit_bps = BasisPoints
    THEN /\ p \in liteIndexes[m] \cup {Legacy}
         /\ lite' = [lite EXCEPT ![m] = Restrict(@, DOMAIN @ \ {p})]
         /\ liteIndexes' = [liteIndexes EXCEPT ![m] = @ \ {p}]
    ELSE lite' = Stored(m, p, position) /\ UNCHANGED liteIndexes

\* The scan of an instruction that values the position at p and the debt a
\* itself, and the collateral and debt it finds.
LiteScan(m, p, y, a) ==
  /\ SlotsScannable(m, {}, {a}) /\ LiteScannable(m, {p}, {y})
  /\ price[y] > 0 /\ price[a] > 0

ReceiptsValue(amount, a) == ValueDown(receipt_value(amount, a), a)

-----------------------------------------------------------------------------
(* Opening and supplying *)

\* What is borrowed on top of the equity.
BorrowedFor(equity, leverage) == mul_div_floor(equity, leverage, BasisPoints) - equity

\* The loan of a lite_open, if it takes one: all of it must arrive in the
\* wallet, and a first loan takes a debt slot.
OpenLoanAllowed(m, a, borrowed) ==
  borrowed > 0 =>
    /\ LoanAllowed(a, borrowed)
    /\ Pool(a)!Delivered(borrowed) = borrowed
    /\ debtShares[m][a] = 0 => /\ SlotsUsed(collActive[m], debtActive[m]) < MaxAssetsPerMargin
                               /\ a \notin debtActive[m]

\* The position after a lite_open.  The lowest of the eight pending bytes is
\* written, whether or not they hold an amount: 1 stays 1, all else becomes 0.
OpenedPosition(held, outstanding, equity, borrowed, minted, newShares) ==
  [held EXCEPT !.receipts  = @ + minted,
               !.deposited = @ + equity + borrowed,
               !.equity    = @ + equity,
               !.shares    = debt_shares(held, outstanding) + newShares,
               !.word      = (@ - (@ % Byte)) + (IF @ % Byte = 1 THEN 1 ELSE 0)]

\* (faulty) judges the account by the loan alone, not by all it owes in a
OpenHealthyByLoan(m, p, a, position, loan) ==
  Healthy(VaultsIn(m, collActive[m]) + LiteIn(m, {p}) + ReceiptsValue(position.receipts, a),
          DebtIn(m, debtActive[m] \ {a})
            + ValueUp(debt_shares_to_assets_up(loan.position - debtShares[m][a],
                                               loan.reserve.total_borrow_shares,
                                               loan.reserve.total_borrow_assets), a))

OpenHealthy(m, p, a, position, loan) ==
  Healthy(VaultsIn(m, collActive[m]) + LiteIn(m, {p}) + ReceiptsValue(position.receipts, a),
          DebtIn(m, debtActive[m] \ {a}) + ValueUp(loan.owed, a))

lite_open(m, p, a, equity, leverage) ==
  LET borrowed == BorrowedFor(equity, leverage)
      minted   == Minted(equity + borrowed, a)
      loan     == Loan(m, a, borrowed)
      position == OpenedPosition(PositionAt(m, p, a), debtShares[m][a], equity, borrowed, minted,
                                 loan.position - debtShares[m][a])
  IN  /\ m \in exists
      /\ a \in Strategies
      /\ position_seed(m, p, a)
      /\ equity > 0
      /\ LendingOpen(a)
      /\ OpenLoanAllowed(m, a, borrowed)
      /\ minted > 0
      /\ position \in LiteRecords
      /\ receipts[m][a] + minted \in U64
      /\ LiteScan(m, p, a, a)
      /\ OpenHealthy(m, p, a, position, loan)
      /\ lite' = Stored(m, p, position)
      /\ liteIndexes' = Registered(m, p)
      /\ receipts' = [receipts EXCEPT ![m][a] = @ + minted]
      /\ reserve' = [reserve EXCEPT ![a] = loan.reserve]
      /\ liquidity' = [liquidity EXCEPT ![a] = @ - borrowed]
      /\ debtShares' = [debtShares EXCEPT ![m][a] = loan.position]
      /\ debtActive' = IF borrowed > 0 THEN [debtActive EXCEPT ![m] = @ \cup {a}] ELSE debtActive
      /\ opened' = [opened EXCEPT ![m] = @ \cup {a}]
      /\ blank' = [blank EXCEPT ![m] = @ \ {a}]
      /\ UNCHANGED <<world, exists, collActive, vault, rate>>

\* (faulty) leaves the slot of a vault it empties
SuppliedSlot(m, a, left) == collActive

\* A vault that is emptied gives its slot back.
SlotAfterSupply(m, a, left) ==
  IF left = 0 THEN [collActive EXCEPT ![m] = @ \ {a}] ELSE collActive

\* (faulty) counts the tokens as cost basis and loses the receipts
SuppliedForNothing(held, outstanding, amount, minted, delta) ==
  [held EXCEPT !.deposited = @ + amount,
               !.equity    = @ + amount,
               !.shares    = IF delta > 0 THEN debt_shares(held, outstanding) + delta ELSE @]

\* The position after a lite_supply; the caller says how much debt is its own.
SuppliedPosition(held, outstanding, amount, minted, delta) ==
  [held EXCEPT !.receipts  = @ + minted,
               !.deposited = @ + amount,
               !.equity    = @ + amount,
               !.shares    = IF delta > 0 THEN debt_shares(held, outstanding) + delta ELSE @]

\* No price, no accrual and no health check.  The debt position is created when
\* there is none, and left blank.
lite_supply(m, p, a, amount, delta) ==
  LET minted   == Minted(amount, a)
      left     == vault[m][a] - amount
      position == SuppliedPosition(PositionAt(m, p, a), debtShares[m][a], amount, minted, delta)
  IN  /\ m \in exists
      /\ a \in Strategies
      /\ position_seed(m, p, a)
      /\ amount > 0 /\ left >= 0
      /\ Pool(a)!ProtocolAllows("CollateralDeposit")
      /\ minted > 0
      /\ position \in LiteRecords
      /\ receipts[m][a] + minted \in U64
      /\ vault' = [vault EXCEPT ![m][a] = left]
      /\ collActive' = SlotAfterSupply(m, a, left)
      /\ lite' = Stored(m, p, position)
      /\ liteIndexes' = Registered(m, p)
      /\ receipts' = [receipts EXCEPT ![m][a] = @ + minted]
      /\ blank' = [blank EXCEPT ![m] = @ \cup ({a} \ opened[m])]
      /\ UNCHANGED <<world, exists, opened, unlent, rate>>

-----------------------------------------------------------------------------
(* The exit in two instructions *)

\* (faulty) leaves the burned receipts on record
ReducedBasis(position, burned) ==
  [position EXCEPT
     !.deposited = @ - mul_div_floor(@, burned, position.receipts),
     !.equity    = @ - mul_div_floor(@, burned, position.receipts)]

\* The position without `burned` of its receipts, its cost basis in proportion.
Reduced(position, burned) ==
  [position EXCEPT
     !.receipts  = @ - burned,
     !.deposited = @ - mul_div_floor(@, burned, position.receipts),
     !.equity    = @ - mul_div_floor(@, burned, position.receipts)]

\* (faulty) redeems again while a redemption waits for its repayment
RedeemTwice(m, p, exit_bps) ==
  LET position == lite[m][p]
      a        == position.asset
      burned   == mul_div_floor(position.receipts, exit_bps, BasisPoints)
      redeemed == receipt_value(burned, a)
  IN  /\ m \in exists
      /\ p \in DOMAIN lite[m]
      /\ a \in opened[m]
      /\ Pool(a)!AccrualOK
      /\ burned > 0 /\ burned <= receipts[m][a]
      /\ vault[m][a] + redeemed \in U64
      /\ reserve' = [reserve EXCEPT ![a] = Pool(a)!Current]
      /\ vault' = [vault EXCEPT ![m][a] = @ + redeemed]
      /\ receipts' = [receipts EXCEPT ![m][a] = @ - burned]
      /\ lite' = Stored(m, p, [Reduced(position, burned) EXCEPT !.word = redeemed, !.pending = TRUE])
      /\ UNCHANGED <<world, liquidity, exists, debtAccounts, debtShares, registry, liteIndexes, rate>>

\* Redeems part of the receipts into the margin vault and remembers how much
\* came.  The vault takes no slot, no mode stops it, nothing is judged.
lite_reduce_redeem(m, p, exit_bps) ==
  LET position == lite[m][p]
      a        == position.asset
      burned   == mul_div_floor(position.receipts, exit_bps, BasisPoints)
      redeemed == receipt_value(burned, a)
  IN  /\ m \in exists
      /\ p \in DOMAIN lite[m]
      /\ a \in opened[m]
      /\ position.receipts > 0
      /\ ~position.pending
      /\ Pool(a)!AccrualOK
      /\ position.receipts <= receipts[m][a]
      /\ burned > 0
      /\ vault[m][a] + redeemed \in U64
      /\ reserve' = [reserve EXCEPT ![a] = Pool(a)!Current]
      /\ vault' = [vault EXCEPT ![m][a] = @ + redeemed]
      /\ receipts' = [receipts EXCEPT ![m][a] = @ - burned]
      /\ lite' = Stored(m, p, [Reduced(position, burned) EXCEPT !.word = redeemed, !.pending = TRUE])
      /\ UNCHANGED <<world, liquidity, exists, debtAccounts, debtShares, registry, liteIndexes, rate>>

\* (faulty) burns the whole share of the debt, however little is paid
BurnedInFull(m, position, exit_bps) ==
  LET r          == reserve[position.asset]
      attributed == debt_shares(position, debtShares[m][position.asset])
      target     == mul_div_ceil(attributed, exit_bps, BasisPoints)
      due        == debt_shares_to_assets_up(target, r.total_borrow_shares, r.total_borrow_assets)
      paid       == MinOf(due, position.word)
      burned     == IF paid = 0 THEN 0 ELSE target
  IN  [paid |-> paid, burned |-> burned, rest |-> attributed - target,
       reserve |-> AfterRepay(r, due, paid, burned)]

\* What an exit pays of the debt attributed to the position, from what was
\* redeemed: on the totals as they are stored, without interest since then.
ExitRepayment(m, position, exit_bps) ==
  LET r          == reserve[position.asset]
      attributed == debt_shares(position, debtShares[m][position.asset])
      target     == mul_div_ceil(attributed, exit_bps, BasisPoints)
      due        == debt_shares_to_assets_up(target, r.total_borrow_shares, r.total_borrow_assets)
      paid       == MinOf(due, position.word)
      burned     == IF paid = 0 THEN 0 ELSE DebtSharesBurned(r, target, due, paid)
  IN  [paid |-> paid, burned |-> burned, rest |-> attributed - target,
       reserve |-> AfterRepay(r, due, paid, burned)]

\* Repays from the redemption, sends the rest to the wallet, and judges the
\* account.  The amount in the position is what leaves the vault.
lite_reduce_repay(m, p, exit_bps) ==
  LET position == lite[m][p]
      a        == position.asset
      left     == vault[m][a] - position.word
      exit     == ExitRepayment(m, position, exit_bps)
      shares   == debtShares[m][a] - exit.burned
      owed     == debt_shares_to_assets_up(shares, exit.reserve.total_borrow_shares,
                                           exit.reserve.total_borrow_assets)
      inVaults == VaultsIn(m, collActive[m] \ {a})
                    + (IF a \in collActive[m] THEN ValueDown(left, a) ELSE 0)
  IN  /\ m \in exists
      /\ p \in DOMAIN lite[m]
      /\ a \in opened[m]
      /\ position.pending
      /\ left >= 0
      /\ Pool(a)!Delivered(exit.paid) = exit.paid
      /\ exit.reserve.accounted_liquidity_assets \in U64
      /\ exit.paid > 0 /\ shares = 0 => a \in debtActive[m]
      /\ LiteScan(m, p, a, a)
      /\ Healthy(inVaults + LiteIn(m, {p}) + ReceiptsValue(position.receipts, a),
                 DebtIn(m, debtActive[m] \ {a}) + ValueUp(owed, a))
      /\ vault' = [vault EXCEPT ![m][a] = left]
      /\ reserve' = [reserve EXCEPT ![a] = exit.reserve]
      /\ liquidity' = [liquidity EXCEPT ![a] = @ + exit.paid]
      /\ debtShares' = [debtShares EXCEPT ![m][a] = shares]
      /\ debtActive' = IF exit.paid > 0 /\ shares = 0
                         THEN [debtActive EXCEPT ![m] = @ \ {a}] ELSE debtActive
      /\ StoredOrClosed(m, p,
           [position EXCEPT !.shares = exit.rest, !.word = 0, !.pending = FALSE], exit_bps)
      /\ UNCHANGED <<world, exists, debtAccounts, collActive, receipts, rate>>

-----------------------------------------------------------------------------
(* The exit across two assets *)

\* The position at p may be exchanged for a repayment of debt s.
UnwindAllowed(m, p, s) ==
  /\ m \in exists
  /\ p \in DOMAIN lite[m]
  /\ s \in opened[m] \cup blank[m]
  /\ Pool(s)!ProtocolAllows("CollateralWithdraw")
  /\ lite[m][p].asset # s
  /\ lite[m][p].receipts > 0
  /\ lite[m][p].deposited = lite[m][p].equity
  /\ Pool(s)!AccrualOK

\* Leg 1: the receipts burned and the tokens they bring to the margin vault.
UnwindRedemption(m, p, exit_bps) ==
  LET burned == mul_div_floor(lite[m][p].receipts, exit_bps, BasisPoints)
  IN  [burned |-> burned, redeemed |-> receipt_value(burned, lite[m][p].asset)]

\* Leg 2: the two vaults after the route returned `out` and gave `leftover` of
\* the redemption back.  `yieldSeen` is the balance the program still has in
\* memory: the account is read again only when something was given back.
UnwindSwap(m, y, s, redeemed, out, leftover) ==
  LET yieldLeft == vault[m][y] + Pool(y)!Delivered(leftover)
  IN  [yieldLeft |-> yieldLeft,
       yieldSeen |-> IF leftover > 0 THEN yieldLeft ELSE vault[m][y] + redeemed,
       stock     |-> vault[m][s] + Pool(s)!Delivered(out)]

\* Leg 3: the debt is repaid from the whole of the other vault.
UnwindRepayment(m, s, stock) ==
  LET owed == Pool(s)!Owed(m)
      sent == MinOf(owed, stock)
  IN  [sent |-> sent,
       settlement |-> IF sent > 0 THEN Pool(s)!Settlement(m, sent, owed)
                      ELSE [received |-> 0, shares |-> debtShares[m][s],
                            reserve |-> Pool(s)!Current]]

\* The slots of m when those of `coll` are taken and a vault seen to hold
\* tokens gets one, too.
WithSlot(coll, a, seen) == IF seen > 0 THEN coll \cup {a} ELSE coll

\* The check and the registry at the end use the balance of the stock vault
\* before the repayment, and of the yield vault as leg 2 left it in memory;
\* active slots are scanned with the balances of now.
lite_reduce_and_repay(m, p, s, exit_bps, out, leftover) ==
  LET y        == lite[m][p].asset
      leg1     == UnwindRedemption(m, p, exit_bps)
      leg2     == UnwindSwap(m, y, s, leg1.redeemed, out, leftover)
      leg3     == UnwindRepayment(m, s, leg2.stock)
      settled  == leg3.settlement
      newVault == [vault EXCEPT ![m][y] = leg2.yieldLeft, ![m][s] = leg2.stock - leg3.sent]
      debts    == IF leg3.sent > 0 /\ settled.shares = 0 THEN debtActive[m] \ {s} ELSE debtActive[m]
      withS    == WithSlot(collActive[m], s, leg2.stock)
      withY    == WithSlot(withS, y, leg2.yieldSeen)
      position == Reduced(lite[m][p], leg1.burned)
      owed     == debt_shares_to_assets_up(settled.shares, settled.reserve.total_borrow_shares,
                                           settled.reserve.total_borrow_assets)
  IN  /\ UnwindAllowed(m, p, s)
      /\ leg1.burned > 0 /\ leg1.burned <= receipts[m][y]
      /\ leg1.redeemed > 0 /\ Pool(y)!Delivered(leg1.redeemed) = leg1.redeemed
      /\ out > 0 /\ leftover <= leg1.redeemed
      /\ {vault[m][y] + leg1.redeemed, leg2.stock} \subseteq U64
      /\ leg3.sent > 0 => Pool(s)!SettlementSucceeds(m, settled)
      /\ LiteScan(m, p, y, s)
      /\ withS # collActive[m] => SlotsUsed(collActive[m], debts) < MaxAssetsPerMargin
      /\ withY # withS => SlotsUsed(withS, debts) < MaxAssetsPerMargin
      /\ Healthy(MapThenSumSet(LAMBDA a : ValueDown(newVault[m][a], a), collActive[m])
                   + LiteIn(m, {p}) + ReceiptsValue(position.receipts, y)
                   + ValueDown(leg2.stock, s) + ValueDown(leg2.yieldSeen, y),
                 DebtIn(m, debts \ {s}) + ValueUp(owed, s))
      /\ vault' = newVault
      /\ reserve' = [reserve EXCEPT ![s] = settled.reserve]
      /\ liquidity' = [liquidity EXCEPT ![s] = @ + settled.received]
      /\ debtShares' = [debtShares EXCEPT ![m][s] = settled.shares]
      /\ debtActive' = [debtActive EXCEPT ![m] = debts]
      /\ collActive' = [collActive EXCEPT ![m] = withY]
      /\ receipts' = [receipts EXCEPT ![m][y] = @ - leg1.burned]
      /\ StoredOrClosed(m, p, position, exit_bps)
      /\ UNCHANGED <<world, exists, debtAccounts, rate>>

-----------------------------------------------------------------------------
\* The exchange rate of a Kamino reserve moves.
SetRate(a, x) ==
  /\ rate' = [rate EXCEPT ![a] = x]
  /\ UNCHANGED <<world, pools, exists, debtAccounts, debtShares, registry, vault,
                 lite, liteIndexes, receipts>>

LiteStep ==
  \/ \E m \in Margins, a \in Strategies, p \in Chosen :
        \/ \E e \in Equities, x \in Leverages : lite_open(m, p, a, e, x)
        \/ \E x \in Supplies, d \in Deltas : lite_supply(m, p, a, x, d)
  \/ \E m \in Margins, p \in Places, bps \in Exits :
        lite_reduce_redeem(m, p, bps) \/ lite_reduce_repay(m, p, bps)
  \/ \E m \in Margins, p \in Places, s \in Assets, bps \in Exits, out \in Amounts, left \in {0, 1} :
        lite_reduce_and_repay(m, p, s, bps, out, left)
  \/ \E a \in Strategies, x \in Rates : SetRate(a, x)

LiteNext == LiteStep \/ Next

LiteSpec == Init /\ [][LiteNext]_vars

-----------------------------------------------------------------------------
(* Safety *)

\* The registry of an account lists its indexed positions, no more and no
\* less.  An index without a position makes every scan of the account fail, a
\* position without an index is collateral no liquidator sees.
LiteRegistered == \A m \in Margins : liteIndexes[m] = DOMAIN lite[m] \ {Legacy}

\* What the positions of m record of receipts for a, by address.
Recorded(m, a) ==
  [p \in Places |-> IF p \in DOMAIN lite[m] /\ lite[m][p].asset = a THEN lite[m][p].receipts ELSE 0]

\* The receipt account of a margin account covers what its positions record,
\* together: one position is never paid with the receipts of another.
ReceiptsBacked == \A m \in Margins, a \in Assets : TotalOf(Recorded(m, a)) <= receipts[m][a]

\* The accounting of every pool survives the Lite instructions, which change
\* reserves, positions and registry on their own.
PoolsSound ==
  \A a \in Assets : /\ Pool(a)!SharesConserved /\ Pool(a)!DebtSharesBacked
                    /\ Pool(a)!VaultCoversLiquidity /\ Pool(a)!DebtRegistered

\* An account has one position for an asset, wherever it keeps it: "A stock has
\* exactly one strategy position" (validation/positions.rs).  With two of them
\* every scan fails, and with it loans, withdrawals and liquidation.
OnePositionPerAsset ==
  \A m \in Margins : \A p, q \in DOMAIN lite[m] : p # q => lite[m][p].asset # lite[m][q].asset

\* Short of two positions of one asset, nothing the owner does keeps an account
\* from being scanned: where prices and accruals are good, a scan succeeds.
ScanOpen ==
  \A m \in exists :
     \/ \E p, q \in DOMAIN lite[m] : p # q /\ lite[m][p].asset = lite[m][q].asset
     \/ \E a \in Assets : price[a] = 0 \/ ~Pool(a)!AccrualOK
     \/ Scannable(m, {}, {})

\* This step is the second half of an exit that matches the first half and
\* comes before any interest: at full size nothing is left in the position.
MatchingRepay(m) ==
  \E p \in DOMAIN lite[m], bps \in Exits :
     /\ reserve[lite[m][p].asset].last_update_timestamp = now
     /\ bps = BasisPoints => lite[m][p].receipts = 0
     /\ lite_reduce_repay(m, p, bps)

Opens(m) == \E p \in Places, a \in Strategies, e \in Equities, x \in Leverages : lite_open(m, p, a, e, x)

\* A leveraged position, and an exit in two instructions, leave an account that
\* is healthy with everything in it counted once.
LiteLeavesHealthy ==
  [][\A m \in Margins : Opens(m) \/ MatchingRepay(m) => AccountHealthy(m)']_vars

\* This step is an exit across two assets.
Unwinds(m) ==
  \E p \in Places, s \in Assets, bps \in Exits, out \in Amounts, left \in {0, 1} :
     lite_reduce_and_repay(m, p, s, bps, out, left)

\* An exit across two assets leaves a healthy account, too: "One instruction so
\* the health check sees the post-repay state" (lite.rs).
UnwindLeavesHealthy == [][\A m \in Margins : Unwinds(m) => AccountHealthy(m)']_vars

\* Every vault of m that holds tokens has its slot.
NothingHidden(m) == \A a \in Assets : vault[m][a] > 0 => a \in collActive[m]

\* With Lite positions among the collateral, what an owner takes from vaults
\* and reserves still leaves a healthy account (the composite apart), unless
\* the account has tokens that no slot shows.  Between the halves of an exit it
\* does: a withdrawal counts what it leaves of them, and later scans do not.
OwnerStillLeavesHealthy ==
  [][\A m \in Margins :
       NothingHidden(m) /\ lite'[m] = lite[m] /\ OwnerTakes(m)
         => AccountHealthy(m)' \/ BorrowsHeldAsset(m)]_vars

\* This step is the second half of an exit in two instructions.
Repays(m) == \E p \in Places, bps \in Exits : lite_reduce_repay(m, p, bps)

\* No instruction but the exits leaves a slot without tokens: a vault that
\* lite_supply empties gives its slot back.  The exit across two assets takes
\* slots for what it has just paid away, and a repayment takes the amount it
\* remembers from the vault, which may meanwhile be all of a deposit's, and
\* leaves the slot.
SlotsStayBacked ==
  [][NoEmptySlots => NoEmptySlots' \/ \E m \in Margins : Unwinds(m) \/ Repays(m)]_vars

\* The debt of m in a falls by no more than the reserve receives.
PaidFor(m, a) ==
  debtShares'[m][a] < debtShares[m][a] =>
    Pool(a)!Owed(m)' + (liquidity'[a] - liquidity[a]) >= Pool(a)!Owed(m)

\* No exit forgives debt.  Where the two halves of an exit are apart in time
\* the second one counts the shares without the interest in between.
ExitsPayTheirDebt ==
  [][\A m \in Margins, a \in Assets :
       PaidFor(m, a) \/ reserve[a].last_update_timestamp < now]_vars

\* "Every instruction that reads or mutates reserve debt must call this first"
\* (apply_accrual): whenever it comes, no instruction forgives interest.
InterestIsPaid == [][\A m \in Margins, a \in Assets : PaidFor(m, a)]_vars

\* Moving tokens from a vault to Kamino costs an account no more than what two
\* divisions round away, though nobody looks at its health.
SupplyKeepsValue ==
  [][\A m \in Margins, p \in Places, a \in Strategies, x \in Supplies, d \in Deltas :
       lite_supply(m, p, a, x, d) /\ price[a] > 0 /\ a \in collActive[m]
         => AccountCollateral(m)' + ValueUp(receipt_value(1, a) + 1, a) + 1 >= AccountCollateral(m)]_vars

\* A pending redemption keeps its amount, all but the lowest byte of it, until
\* a repayment takes it: no second redemption, supply or opening overwrites it.
PendingKept ==
  [][\A m \in Margins : \A p \in DOMAIN lite[m] :
       lite[m][p].pending =>
         \/ /\ p \in DOMAIN lite'[m] /\ lite'[m][p].pending
            /\ lite'[m][p].word \div Byte = lite[m][p].word \div Byte
         \/ \E bps \in Exits : lite_reduce_repay(m, p, bps)
         \/ Unwinds(m)]_vars
=============================================================================
