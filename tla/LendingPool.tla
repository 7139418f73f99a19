----------------------------- MODULE LendingPool -----------------------------
(***************************************************************************)
(* One lending reserve and everybody who touches it: the lenders that hold *)
(* its share tokens, the debt positions that margin accounts hold against  *)
(* it, the vault with its cash, and the administrator.                     *)
(*                                                                         *)
(* A Solana transaction runs alone on the accounts it writes, so a whole   *)
(* instruction is one atomic action; what interleaves is the order of the  *)
(* instructions and the time that passes between them.  An instruction     *)
(* that fails changes nothing, so it is an action that is not enabled.     *)
(*                                                                         *)
(* The margin side of an instruction (prices, health, collateral slots) is *)
(* not in this module: a borrow or a liquidation that passes the checks of *)
(* the reserve may or may not pass those of the margin account, and the    *)
(* balance of a margin vault is any amount.  CrossMargin makes them        *)
(* concrete.                                                               *)
(***************************************************************************)
EXTENDS ReserveMath

CONSTANTS
  Lenders,        \* wallets that may hold share tokens
  Margins,        \* margin accounts
  ReserveConfigs, \* the configurations the administrator may choose
  Modes,          \* the operating modes the administrator may choose
  Amounts,        \* the amounts an instruction is called with
  TransferFee(_), \* what the mint withholds from a transfer of x (0 for classic SPL)
  GrossUp(_),     \* the transfer that delivers x after the fee (inverse fee)
  MaxTime,        \* bound: the clock stops here
  MaxDonation     \* bound: tokens in the vault the reserve does not account for

VARIABLES
  reserve,        \* the accounting fields of `Reserve`
  config,         \* its rate curve, fee factor, caps and status
  mode,           \* ProtocolConfig::operating_mode
  vault,          \* token balance of the liquidity vault
  shareSupply,    \* supply of the reserve's share mint
  lenderShares,   \* share tokens of each lender
  opened,         \* margin accounts whose DebtPosition account exists
  debtShares,     \* DebtPosition::borrow_shares (0 when there is none)
  debtActive,     \* margin accounts with the reserve in debt_asset_indexes
  now             \* the clock sysvar

margins == <<opened, debtShares, debtActive>>
lenders == <<shareSupply, lenderShares>>
admin   == <<config, mode>>
vars    == <<reserve, vault, now, lenders, margins, admin>>

\* The amounts a repayment is called with: u64::MAX asks to pay everything.
Payments == Amounts \cup {MaxU64}

OperatingModes  == {"Normal", "BorrowPaused", "WithdrawOnly", "Halted"}

ASSUME LendingPoolAssumption ==
  /\ IsFiniteSet(Lenders)
  /\ IsFiniteSet(Margins)
  /\ ReserveConfigs \subseteq ConfigRecords
  /\ Modes \subseteq OperatingModes
  /\ Amounts \subseteq U64
  /\ \A x \in U64 : TransferFee(x) \in 0..x /\ GrossUp(x) \in Nat
  /\ MaxTime \in Nat
  /\ MaxDonation \in Nat

-----------------------------------------------------------------------------
(* The gates every instruction passes. *)

ProtocolAllows(action) ==
  CASE mode = "Normal"       -> TRUE
    [] mode = "BorrowPaused" -> action # "Borrow"
    [] mode = "WithdrawOnly" -> action \in {"Repay", "Redeem", "CollateralWithdraw",
                                            "Liquidate", "CollateralDeposit"}
    [] mode = "Halted"       -> action \in {"Repay", "CollateralDeposit"}

ReserveAllows(action) ==
  CASE action = "Supply" -> config.status \in {"Active", "SupplyOnly"}
    [] action = "Redeem" -> config.status # "Frozen"
    [] action = "Borrow" -> config.status = "Active"
    [] OTHER             -> TRUE

\* The reserve as `apply_accrual` leaves it at the start of an instruction.
Current == accrue(reserve, config, now)
AccrualOK == AccrualSucceeds(reserve, config, now)

\* What arrives when `amount` is sent (transfer_in_measured and its twin).
Delivered(amount) == amount - TransferFee(amount)

\* The inverse fee asks for enough: what arrives is at least what was wanted.
GrossUpCovers == \A x \in U64 : GrossUp(x) \in U64 => Delivered(GrossUp(x)) >= x

\* What position m owes at the current time.
Owed(m) ==
  LET r == Current
  IN  debt_shares_to_assets_up(debtShares[m], r.total_borrow_shares, r.total_borrow_assets)

-----------------------------------------------------------------------------
Init ==
  /\ config \in ReserveConfigs
  /\ mode \in Modes
  /\ now = 0
  /\ reserve = [accounted_liquidity_assets |-> 0,
                total_borrow_assets        |-> 0,
                total_borrow_shares        |-> 0,
                borrow_index_wad           |-> Wad,
                accrued_protocol_fees      |-> 0,
                last_update_timestamp      |-> now]
  /\ vault = 0
  /\ shareSupply = 0
  /\ lenderShares = [l \in Lenders |-> 0]
  /\ opened = {}
  /\ debtShares = [m \in Margins |-> 0]
  /\ debtActive = {}

-----------------------------------------------------------------------------
(* Lenders *)

lender_supply(l, assets) ==
  LET r        == Current
      total    == lender_total_assets(r)
      received == Delivered(assets)
      shares   == assets_to_supply_shares_down(received, shareSupply, total)
  IN  /\ assets > 0
      /\ ProtocolAllows("Supply")
      /\ ReserveAllows("Supply")
      /\ AccrualOK
      /\ {total, total + received, vault + received, shares, shareSupply + shares} \subseteq U64
      /\ shares > 0
      /\ shareSupply = 0 => shares >= MinInitialShares
      /\ config.supply_cap = Uncapped \/ total + received <= config.supply_cap
      /\ r.accounted_liquidity_assets + received \in U64
      /\ reserve' = [r EXCEPT !.accounted_liquidity_assets = @ + received]
      /\ vault' = vault + received
      /\ shareSupply' = shareSupply + shares
      /\ lenderShares' = [lenderShares EXCEPT ![l] = @ + shares]
      /\ UNCHANGED <<now, margins, admin>>

lender_redeem(l, shares) ==
  LET r      == Current
      total  == lender_total_assets(r)
      assets == supply_shares_to_assets_down(shares, shareSupply, total)
  IN  /\ shares > 0
      /\ ProtocolAllows("Redeem")
      /\ ReserveAllows("Redeem")
      /\ lenderShares[l] >= shares
      /\ AccrualOK
      /\ total \in U64
      /\ assets > 0
      /\ assets <= available_lender_cash(r)
      /\ assets <= vault
      /\ reserve' = [r EXCEPT !.accounted_liquidity_assets = @ - assets]
      /\ vault' = vault - assets
      /\ shareSupply' = shareSupply - shares
      /\ lenderShares' = [lenderShares EXCEPT ![l] = @ - shares]
      /\ UNCHANGED <<now, margins, admin>>

public_refresh_reserve ==
  /\ AccrualOK
  /\ reserve' = Current
  /\ UNCHANGED <<vault, now, lenders, margins, admin>>

-----------------------------------------------------------------------------
(* Borrowers *)

user_open_debt_position(m) ==
  /\ m \notin opened
  /\ opened' = opened \cup {m}
  /\ UNCHANGED <<reserve, vault, now, lenders, debtShares, debtActive, admin>>

\* (faulty) closes a position that still owes
CloseUnchecked(m) ==
  /\ m \in opened
  /\ opened' = opened \ {m}
  /\ UNCHANGED <<reserve, vault, now, lenders, debtShares, debtActive, admin>>

user_close_debt_position(m) ==
  /\ m \in opened
  /\ debtShares[m] = 0
  /\ m \notin debtActive
  /\ opened' = opened \ {m}
  /\ UNCHANGED <<reserve, vault, now, lenders, debtShares, debtActive, admin>>

\* A loan to position m, whose account exists afterwards.
Lend(m, assets) ==
  LET r      == Current
      shares == assets_to_debt_shares_up(assets, r.total_borrow_shares, r.total_borrow_assets)
  IN  /\ ProtocolAllows("Borrow")
      /\ ReserveAllows("Borrow")
      /\ assets > 0
      /\ AccrualOK
      /\ \/ config.borrow_cap = Uncapped
         \/ r.total_borrow_assets + assets <= config.borrow_cap
      /\ assets <= r.accounted_liquidity_assets
      /\ r.total_borrow_assets + assets \in U64
      /\ debtShares[m] = 0 => m \notin debtActive      \* add_active_debt
      /\ assets <= vault
      /\ reserve' = AfterBorrow(r, assets, shares)
      /\ vault' = vault - assets
      /\ debtShares' = [debtShares EXCEPT ![m] = @ + shares]
      /\ debtActive' = debtActive \cup {m}
      /\ opened' = opened \cup {m}
      /\ UNCHANGED <<now, lenders, admin>>

user_borrow(m, assets) == m \in opened /\ Lend(m, assets)

\* The reserve leg of the composite, which opens the position when it must.
user_deposit_and_borrow(m, assets) == ProtocolAllows("CollateralDeposit") /\ Lend(m, assets)

\* (faulty) burns the shares of what was sent, not of what arrived
SettlementBurnsSent(m, sent, owed) ==
  LET r      == Current
      burned == DebtSharesBurned(r, debtShares[m], owed, sent)
  IN  [received |-> Delivered(sent),
       shares   |-> debtShares[m] - burned,
       reserve  |-> AfterRepay(r, owed, Delivered(sent), burned)]

\* The reserve leg of every repayment: `sent` tokens leave the payer and
\* `owed`, what the position owes now, is paid or reduced.
Settlement(m, sent, owed) ==
  LET r        == Current
      received == Delivered(sent)
      burned   == DebtSharesBurned(r, debtShares[m], owed, received)
  IN  [received |-> received,
       shares   |-> debtShares[m] - burned,
       reserve  |-> AfterRepay(r, owed, received, burned)]

\* No token amount overflows and remove_active_debt finds what it removes.
SettlementSucceeds(m, s) ==
  /\ s.reserve.accounted_liquidity_assets \in U64
  /\ vault + s.received \in U64
  /\ s.shares = 0 => m \in debtActive

\* (faulty) drops the debt from the registry on every repayment
SettleAndForget(m, s) ==
  /\ SettlementSucceeds(m, s)
  /\ reserve' = s.reserve
  /\ vault' = vault + s.received
  /\ debtShares' = [debtShares EXCEPT ![m] = s.shares]
  /\ debtActive' = debtActive \ {m}
  /\ UNCHANGED <<now, lenders, opened, admin>>

Settle(m, s) ==
  /\ SettlementSucceeds(m, s)
  /\ reserve' = s.reserve
  /\ vault' = vault + s.received
  /\ debtShares' = [debtShares EXCEPT ![m] = s.shares]
  /\ debtActive' = IF s.shares = 0 THEN debtActive \ {m} ELSE debtActive
  /\ UNCHANGED <<now, lenders, opened, admin>>

\* `available` is the balance of the margin vault the repayment is capped at.
user_repay_from_margin(m, max_assets, available) ==
  LET owed == Owed(m)
      sent == MinOf(GrossUp(MinOf(max_assets, owed)), available)
  IN  /\ m \in opened
      /\ AccrualOK
      /\ owed > 0
      /\ sent > 0
      /\ Settle(m, Settlement(m, sent, owed))

public_repay_from_wallet(m, max_assets) ==
  LET owed   == Owed(m)
      target == MinOf(max_assets, owed)
  IN  /\ m \in opened
      /\ AccrualOK
      /\ owed > 0
      /\ target > 0
      /\ GrossUp(target) \in U64
      /\ Settle(m, Settlement(m, GrossUp(target), owed))

\* The debt leg of a liquidation: at most half of the debt, and not grossed up.
public_liquidate(m, max_repay_assets) ==
  LET owed  == Owed(m)
      repay == MinOf(MinOf(max_repay_assets, owed), MaxOf(owed \div 2, 1))
  IN  /\ m \in opened
      /\ max_repay_assets > 0
      /\ AccrualOK
      /\ owed > 0
      /\ Settle(m, Settlement(m, repay, owed))

-----------------------------------------------------------------------------
(* The administrator *)

\* (faulty) changes the curve before interest is accrued
UpdateConfigWithoutAccrual(c) ==
  /\ config' = c
  /\ UNCHANGED <<reserve, vault, now, lenders, margins, mode>>

admin_update_reserve_config(c) ==
  /\ AccrualOK
  /\ reserve' = Current
  /\ config' = c
  /\ UNCHANGED <<vault, now, lenders, margins, mode>>

admin_collect_protocol_fees(amount) ==
  LET r == Current
  IN  /\ amount > 0
      /\ AccrualOK
      /\ amount <= MinOf(r.accrued_protocol_fees, r.accounted_liquidity_assets)
      /\ amount <= vault
      /\ reserve' = AfterFeeCollection(r, amount)
      /\ vault' = vault - amount
      /\ UNCHANGED <<now, lenders, margins, admin>>

admin_set_operating_mode(new_mode) ==
  /\ mode' = new_mode
  /\ UNCHANGED <<reserve, vault, now, lenders, margins, config>>

-----------------------------------------------------------------------------
(* The world around the program: time, and two things the token program    *)
(* lets anybody do without calling this one.                               *)

Tick ==
  /\ now < MaxTime
  /\ now' = now + 1
  /\ UNCHANGED <<reserve, vault, lenders, margins, admin>>

\* Tokens sent to the vault directly: the reserve does not account for them.
Donate(amount) ==
  /\ amount > 0
  /\ vault + amount \in U64
  /\ vault + amount - reserve.accounted_liquidity_assets <= MaxDonation
  /\ vault' = vault + amount
  /\ UNCHANGED <<reserve, now, lenders, margins, admin>>

\* A holder burns share tokens directly: the reserve keeps its assets.
BurnShares(l, shares) ==
  /\ shares > 0
  /\ shares <= lenderShares[l]
  /\ shareSupply' = shareSupply - shares
  /\ lenderShares' = [lenderShares EXCEPT ![l] = @ - shares]
  /\ UNCHANGED <<reserve, vault, now, margins, admin>>

-----------------------------------------------------------------------------
Next ==
  \/ \E l \in Lenders, x \in Amounts :
        lender_supply(l, x) \/ lender_redeem(l, x) \/ BurnShares(l, x)
  \/ \E m \in Margins :
        user_open_debt_position(m) \/ user_close_debt_position(m)
  \/ \E m \in Margins, x \in Amounts :
        user_borrow(m, x) \/ user_deposit_and_borrow(m, x)
  \/ \E m \in Margins, x \in Payments :
        public_repay_from_wallet(m, x) \/ public_liquidate(m, x)
  \/ \E m \in Margins, x \in Payments, y \in Amounts : user_repay_from_margin(m, x, y)
  \/ \E c \in ReserveConfigs : admin_update_reserve_config(c)
  \/ \E x \in Amounts : admin_collect_protocol_fees(x) \/ Donate(x)
  \/ \E md \in Modes : admin_set_operating_mode(md)
  \/ public_refresh_reserve
  \/ Tick

Spec == Init /\ [][Next]_vars

-----------------------------------------------------------------------------
(* Type invariant *)

\* Every variable holds a value of its kind; token amounts are 64-bit.
TypeOK ==
  /\ reserve \in ReserveRecords
  /\ config \in ReserveConfigs
  /\ mode \in Modes
  /\ vault \in U64
  /\ now \in Nat
  /\ shareSupply \in U64
  /\ lenderShares \in [Lenders -> Nat]
  /\ opened \subseteq Margins
  /\ debtShares \in [Margins -> Nat]
  /\ debtActive \subseteq Margins

-----------------------------------------------------------------------------
(* Safety *)

\* The debt shares of all positions add up to the reserve's total, and the
\* share tokens of all lenders to the supply of the share mint.  Borrow, three
\* kinds of repayment and liquidation each change both sides separately.
SharesConserved ==
  /\ TotalOf(debtShares) = reserve.total_borrow_shares
  /\ TotalOf(lenderShares) = shareSupply

\* A debt share is worth at least one token and no debt exists without shares
\* (Reserve::assert_invariants, second clause).  This is what keeps the
\* saturating subtractions of the repayments from ever saturating.
DebtSharesBacked ==
  /\ reserve.total_borrow_shares <= reserve.total_borrow_assets
  /\ reserve.total_borrow_shares = 0 => reserve.total_borrow_assets = 0

\* The raw vault balance never falls below the accounted liquidity
\* (Reserve::assert_invariants, first clause).
VaultCoversLiquidity == vault >= reserve.accounted_liquidity_assets

\* What the pool owes its lenders is at least one token for every share, so
\* lender_total_assets never underflows and a share never becomes worthless.
LendersBacked == lender_total_assets(reserve) >= shareSupply

\* The registry of active debts agrees with the positions: an account has the
\* reserve among its debts exactly when it holds shares, and a position that
\* holds shares has not been closed.
DebtRegistered ==
  \A m \in Margins : /\ debtShares[m] > 0 <=> m \in debtActive
                     /\ m \in debtActive => m \in opened

\* "Debt is never under-counted": what the positions owe, each rounded up,
\* covers what the reserve counts as lent (debt_shares_to_assets_up).
DebtNeverUndercounted ==
  TotalOf([m \in Margins |-> Owed(m)]) >= Current.total_borrow_assets

\* Whatever the mode and the status, somebody who brings the tokens can pay a
\* position off in full (repay_allowed is always true, Repay is in every mode).
RepayAlwaysOpen ==
  \A m \in debtActive :
    LET owed    == Owed(m)
        payment == GrossUp(owed)
        s       == Settlement(m, payment, owed)
    IN  AccrualOK /\ {payment, vault + payment} \subseteq U64
          => /\ m \in opened
             /\ owed > 0
             /\ SettlementSucceeds(m, s)
             /\ s.shares = 0

\* "Rounding can never drain the pool": the assets behind one supply share
\* never go down, whoever does what in whatever order.
SharePriceNeverFalls ==
  [][shareSupply > 0 /\ shareSupply' > 0 =>
       lender_total_assets(reserve)' * shareSupply >= lender_total_assets(reserve) * shareSupply']_vars

\* A position loses shares only against cash: what it still owes plus what the
\* reserve received is at least what it owed.
DebtFallsOnlyByPayment ==
  [][\A m \in Margins : debtShares'[m] < debtShares[m] =>
       Owed(m)' + (reserve.accounted_liquidity_assets' - reserve.accounted_liquidity_assets)
         >= Owed(m)]_vars

\* A borrower owes at least what it owed before plus the cash it took.
BorrowerOwesWhatItTook ==
  [][\A m \in Margins : debtShares'[m] > debtShares[m] =>
       Owed(m)' >= Owed(m) + (reserve.accounted_liquidity_assets - reserve.accounted_liquidity_assets')]_vars

\* Nobody's debt rises because somebody else borrows, repays or is liquidated.
OthersNotCharged ==
  [][\A m \in Margins :
       (\E k \in Margins \ {m} : debtShares'[k] # debtShares[k]) => Owed(m)' <= Owed(m)]_vars

\* A new rate curve, fee factor or cap does not reprice the time before it:
\* what every position owes now is the same before and after the change.
ConfigChangeIsProspective ==
  [][config' # config => \A m \in Margins : Owed(m)' = Owed(m)]_vars
=============================================================================
