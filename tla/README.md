# Verification of the Vanna lending program

TLA+ models of `programs/vanna_lending` (the on-chain Solana program of this
repository), TLC configurations that check them on small instances, and proofs
that TLAPS checks for every value of the constants.  Paths below are relative
to `src/programs/vanna_lending/src/` unless they say otherwise.

## The system

A Solana program is a set of instruction handlers over accounts.  A transaction
holds the accounts it writes for itself and a handler that returns an error
changes nothing, so one instruction is one atomic step.  What is hard is not
preemption but history: instructions of lenders, borrowers, liquidators and the
administrator in any order, time passing (and interest with it) between any two
of them, prices that move or go stale, tokens that withhold a fee from every
transfer, and two things the token program lets anybody do without asking this
program: send tokens to a vault and burn share tokens.

| component | state | operations | interacts with | what makes it correct |
|---|---|---|---|---|
| reserve arithmetic (`math/fixed_point.rs`, `math/shares.rs`, `math/interest.rs`) | none | `mul_div_*`, share conversions, utilisation, rate curve, `accrue` | used by every instruction | each conversion rounds against the caller; accrual only adds, within 64 bits |
| lending pool (`instructions/lending.rs`, `borrowing.rs`, the debt leg of `liquidation.rs`, `state/reserve.rs`, `state/debt_position.rs`) | `Reserve`, its vault and share mint, one `DebtPosition` for each margin account | supply, redeem, refresh, open/close debt position, borrow, repay from margin or wallet, liquidate, collect fees, update configuration | the mint (transfer fees), the clock, the margin account (registry of debts) | shares add up; the vault covers the accounted cash; a share never loses value; debt falls only by payment; repayment is always possible |
| margin account registry (`state/margin_account.rs`) | two arrays of 24 slots with counts, the packed Lite registry, an event sequence | add/remove active collateral and debt, register/unregister a Lite index | every instruction on a margin account | slots and counts represent a set without duplicates; what is added can be removed |
| cross-margin account (`instructions/margin.rs`, `composite.rs`, `swap.rs`, `liquidation.rs`, `math/health.rs`, `validation/positions.rs`) | one collateral vault for each mint, whose balance is the collateral (no ledger) | create/close, deposit, withdraw, deposit-and-borrow, swap, liquidate | every reserve the account owes to, the oracle, Jupiter | no owner instruction leaves the account unhealthy; a liquidation is for unhealthy accounts and improves them; the registry matches the vaults, so that nothing is hidden and nothing is stuck |
| Lite strategies (`instructions/lite.rs`, `state/lite_strategy.rs`, `external/kamino.rs`) | `LiteStrategyConfig`, `LitePosition` (receipt amount, cost basis, debt shares it attributes to itself, pending redemption) | register, open, supply, reduce-redeem, reduce-repay, reduce-and-repay | Kamino's reserve (exchange rate), the lending pool, the margin account, Jupiter | positions and registry agree, so that scans find them all; receipts cover positions; a redemption that waits is not lost; an exit pays for the debt it retires and leaves a healthy account |
| governance (`instructions/admin.rs`, `state/protocol_config.rs`, `state/asset_config.rs`, `validation/accounts.rs`) | `ProtocolConfig` (admin, pending admin, mode, next asset index), `AssetConfig` | initialise, propose/accept authority, set mode, register/update asset, initialise/update reserve, register strategy | gates of every instruction | only the last proposal hands over; an asset index stands for one asset for ever; threshold and bonus fit together; repayment stays open in every mode |
| oracle (`oracle/pyth.rs`) | none (reads a Pyth update) | `load_validated_price` | health checks, liquidation | a price is used only if fresh, positive, certain and of the right feed; one refused stays refused; silence is noticed |
| scripts (`src/scripts/`), events, errors, account declarations | none of their own | | | not modelled |

The hazards that follow from this, each at its line and with the properties that
would catch it, are in `PROJECT.json` under `hazards`.

## Modules

| module | models | rests on |
|---|---|---|
| `ReserveMath` | the arithmetic, as pure operators named as in the source | |
| `LendingPool` | one reserve and everybody who touches it | `ReserveMath` |
| `MarginSets` | what a margin account promises to remember: three bounded sets of assets | |
| `MarginRegistry` | how it remembers them: slot arrays with counts, packed Lite indexes; implements `MarginSets` | `MarginSets` |
| `CrossMargin` | margin accounts over several assets, with prices and health; composes one `LendingPool` for each asset | `ReserveMath`, `LendingPool` (instance) |
| `LitePositions` | positions in a Kamino reserve on top of margin accounts: its next-state relation is that of `CrossMargin` and the Lite instructions | `CrossMargin` |
| `PriceOracle` | which published prices an instruction may use | |
| `Governance` | administrator, modes, assets, reserves and strategies, while prices age | `PriceOracle` |
| `MCLendingPool`, `MCMarginRegistry`, `MCCrossMargin`, `MCLitePositions`, `MCGovernance` | small numbers, curves, mints and symmetry for TLC | the module they are named for |
| `ReserveMath_proofs` | lemmas on the arithmetic and on sums | `ReserveMath` |
| `LendingPool_proofs` | the invariants and the share price, for every instance | `LendingPool`, `ReserveMath_proofs` |
| `MarginRegistry_proofs` | the registry's invariants and that it implements `MarginSets` | `MarginRegistry` |
| `CrossMargin_proofs` | slots, vaults and debts of an account | `CrossMargin`, `ReserveMath_proofs` |
| `CrossMarginPools_proofs` | the books of the pools under margin accounts, and that every step is one of the pools | `CrossMargin_proofs` |
| `CrossMarginHealth_proofs` | sums over slots, and what the health checks are worth | `CrossMarginPools_proofs` |
| `LitePositions_proofs` | registry, receipts and pending redemptions; accounts, pools and health checks through the Lite instructions | `LitePositions`, `CrossMarginHealth_proofs` |
| `Governance_proofs` | types, indexes, risk parameters, the hand-over, refused prices | `Governance` |

An operator whose comment begins with `(faulty)` is a plausible mistake in the
definition that follows it.  Nothing uses it; `PROJECT.json` lists under
`mutants` which property notices when it takes that definition's place.

### LendingPool

`reserve` is a record of the accounting fields of `Reserve`, `config` the fields
only the administrator changes, `vault` the balance of the liquidity vault,
`shareSupply` and `lenderShares` the share mint and its holders, `opened`,
`debtShares` and `debtActive` the debt positions and the registry entries that
name this reserve, `now` the clock.  Every instruction is an action with the
name of its handler.  An action accrues first where the handler calls
`apply_accrual` (`Current` is the accrued reserve, `AccrualOK` that the accrual
did not fail), checks what the handler checks, and changes what it changes; a
handler that returns an error is an action that is not enabled.  The three
repayments and the debt leg of a liquidation differ in the amount they send and
share `Settle`.

Prices, health and collateral are not in this module: a borrow or a
liquidation that passes the reserve's checks is always possible here, and the
vault that caps a repayment holds any amount.  That is more behaviour than the
program has, so what holds here holds for the program.

Arithmetic is exact.  A 64-bit result that does not fit makes the handler fail
and appears as a guard (`\in U64`).  The 128-bit intermediate products need no
guard except in the borrow index, where `unwrap_or` swallows the overflow
(`GrownIndex`): elsewhere a product beyond 128 bits has a quotient beyond 64
bits, which fails anyway.

`TransferFee` is what the mint withholds (0 for classic SPL tokens) and
`GrossUp` the amount that delivers what is asked for (Token-2022's inverse fee).

### MarginSets and MarginRegistry

A health check visits the assets a margin account has registered, so a registry
that loses or doubles one is wrong everywhere.  `MarginSets` says what its users
rely on: a set of active collateral, a set of active debts and a set of Lite
indexes, each of bounded size, where an add fails when the member is there or
the set is full, a removal fails when it is not there, and an account is closed
only when all three are empty.  `MarginRegistry` is `state/margin_account.rs`
as written: `collateral` and `debt` are records of `slots` (with `Empty` for the
sentinel) and `count`, where add takes the first empty slot and remove empties a
slot without moving the others; `lite_indexes` is the packed sequence that
unregister rebuilds.  The refinement mapping reads the set of values in the
slots.  `CloseAndCreate` is `user_close_margin`, which looks at the counts
only, followed by a new account at the same address.

### CrossMargin

`vault[m][a]` is the balance of the margin vault of account `m` for asset `a`.
The program keeps no other ledger of collateral.  `collActive` and `debtActive`
are the registry, as the sets `MarginRegistry` implements; `opened` and
`debtShares` the debt positions; `exists` the accounts that have been created.
`reserve` and `liquidity` are the state of every pool: `Pool(a)` is an instance
of `LendingPool` on asset `a`, from which this module takes accrual, what a
position owes, the matrices and the settlement of a repayment.  `price[a]` is
what `load_validated_price` returns, 0 standing for every reason to refuse.

Each instruction is one action, and follows its handler in what it *scans*
(`scan_and_validate_positions` skips the positions the instruction names), what
it values by hand, and whether it judges the state before or after its own
transfer: withdraw and borrow judge a projection, swap the vaults as reloaded,
liquidation both the state before and the one it computes.  `Scannable` is the
condition that a scan does not fail, and `Loan`, `LoanAllowed`,
`LoanAsCollateral` and `TakeLoan` the parts that `user_borrow` and the composite
have in common.  Jupiter is external: a swap returns any amount.

Lite positions count as collateral in every scan (`LiteVisited`, `LiteScannable`,
`LiteIn`): the registered ones and a legacy one.  `lite`, `liteIndexes`,
`receipts` and `rate` are their state, which the instructions of this module read
and never write.  `blank` are debt positions that exist without an owner, a
state only `lite_supply` makes; `user_open_debt_position` refuses them and the
composite takes them over.  `user_close_collateral_position`, which closes an
empty token account, changes nothing this module sees.  The slippage arguments
of the callers only refuse and are left out.

### LitePositions

A position is a record of the fields of `LitePosition` at an address, which is
either that of its asset's index or the legacy one without an index (`Places`).
`receipts[m][a]` is the balance of the receipt account, which all positions of
`m` in that mint share.  The bytes 17 to 24 of `reserved`, which hold the amount
of a redemption that waits for its repayment, are the number `word`; byte 25 is
`pending`.  Byte 17 is the lowest digit of `word` in base `Byte`, because
`lite_open` reads and writes it as a flag: `OpenedPosition` writes that digit.

`lite_reduce_redeem` and `lite_reduce_repay` are two actions with anything
between them, since nothing in the program ties them to one transaction, and
the second one uses the reserve as it is stored, without accrual, as the code
does.  `lite_reduce_and_repay` is one action of three legs (`UnwindRedemption`,
`UnwindSwap`, `UnwindRepayment`); a value the handler still has in memory and
the balance of the account are kept apart (`yieldSeen` and `yieldLeft`, `stock`
and what is left of it), because its health check and its registry updates use
the former.  `lite_supply` makes no check of health and attributes as much debt
as its caller says (`Deltas`).

Kamino is external: a deposit gives receipts at `rate`, rounded down, a
redemption gives tokens at `rate`, rounded down, and `SetRate` moves the rate up
or down at any time.

### PriceOracle and Governance

Pyth is external, too: `Publish` lets a feed sign any quote once a second, and
an update, once published, can be posted and chosen by the caller of any later
instruction.  So `Usable(m)`, the set of published updates that
`load_validated_price` accepts for asset `m`, is what the program may take the
price of `m` to be.  `Governance` is the administrator of those limits and of
everything else in `ProtocolConfig` and `AssetConfig`; any key may try any
instruction.  `proposal` is a history variable that no action reads: who
proposed whom last.  `IndexLimit` stands for 2^16; the last index marks an empty
slot.

## Runs

The number of slots, amounts and seconds is small, and so is fixed point: `Wad`
and `SecondsPerYear` are constants, and every conversion of the code leaves
remainders on small integers more often than on large ones.  `MaxU64` is small
enough to be reached.  A run stops at the bounds named in its `.cfg` (`MaxTime`,
`MaxDonation`, the indexes of `Governance`), where the system does not; for that
reason deadlock is not checked in the runs that have a clock.  The registry
never stops and is checked for deadlock.

| run | question | bounds |
|---|---|---|
| `lending_rounding` | do shares, debts and cash add up, and does rounding always go against the caller? | 1 lender, 2 margin accounts, amounts 1, 2, 5, two seconds at up to 100% interest. Two accounts are what it takes for one to pay for another |
| `lending_governance` | can administration close repayment, forgive debt or reprice the past, under fees and donations? | 2 curves (one with both caps), 2 modes, changed at any time; a mint that withholds a tenth (`TenthUp` takes all of a transfer of 1); a donation |
| `registry` | are arrays with counts and packed bytes sets to everybody? | 3 slots, 4 assets: arrays fill, and gaps open in every place |
| `margin_health` | does the owner ever leave an unhealthy account, does a liquidation ever hurt, is every step one of the pool? | 1 account, 2 assets; 6 X carry a loan of 12 Y at one price and not at another, the price also goes stale; one second of interest; a bonus of 20%, for which some repayments would lower the health factor |
| `margin_slots` | do slots match vaults, and is the number of assets bounded? | 3 assets, 2 slots, assets switched off as collateral, donations; `MaxU64` is 8, which bounds what donations pile up |
| `lite_exits` | is a leveraged position of one asset wound down whole, whatever comes between the two halves? | 1 asset, equity 1 at leverage 4 against a pool of 6, exits of a half and of all, one second of interest, `lite_supply` that attributes 2 shares; `Byte` is 4 and `WordSize` 7, so that an amount has a digit below and one above the flag |
| `lite_cross` | do positions stay registered, scannable and counted beside ordinary collateral and debts? | 2 assets, both addresses, a rate that halves and recovers, 2 slots; positions come from supplies and go in full exits, without interest, since leverage and time are what `lite_exits` is about |
| `governance` | does the protocol go where it was proposed to go, and do indexes, configurations and refused prices stay what they are? | 2 keys, 3 mints for 2 indexes; parameters at the limit of what is valid and past it; one feed, quotes that are certain, uncertain and no price at all; the feed is silent after second 1 and the clock runs to 3, past the longest age |
| `margin_composite`, `lite_stale`, `lite_duplicate`, `lite_interest` | statements of comments that the code does not keep | the smallest instance that shows each |

What the passing runs show holds with their hypotheses.  In `margin_health`
and the `lite_*` runs nobody sends tokens to a vault from outside, no asset is switched off and mints
take no fee, and the proofs of `CrossMargin` say which of these a property needs:

* `NoEmptySlots` needs mints without fees, and holds under donations.  With a
  fee, a deposit of which nothing arrives takes a slot, and a seizure that
  empties a vault keeps one: the handlers look at the balance before the one
  and at the measured receipt after the other.
* `NoHiddenCollateral` needs every asset to be collateral and nobody to donate.
  A donation to a vault without a slot, or a loan of an asset that is not
  collateral, leaves tokens no scan sees.  `AssetsBounded` needs nothing.

`OwnerLeavesHealthy` leaves out one case by name, the composite on an asset the
account already holds, and `margin_composite` shows why.  `LiteLeavesHealthy`
speaks of an opening and of the second half of an exit that matches the first
and comes before interest; `ExitsPayTheirDebt` of exits before interest, and
`lite_interest` shows why.  `ScanOpen` and `SlotsStayBacked` name the cases that
`lite_duplicate` and `lite_stale` show; `SlotsStayBacked` also leaves out the
second half of an exit, and `OwnerStillLeavesHealthy` accounts with tokens in a
vault without a slot (see the deviations below).

`StepsOfPools` ties the pool and the accounts together: every step of
`CrossMargin` is, for every asset, a step of that asset's `LendingPool` or leaves
it alone, so what is proved of `LendingPool`'s steps holds when margin accounts
take them.  The Lite instructions change reserves in ways of their own, so
`lite_exits` checks the invariants of the pool again (`PoolsSound`).

### Fairness

Nothing in the program makes anybody call an instruction: every action belongs
to a wallet, an administrator or a feed that may stay away for ever.  So the
specifications state no fairness for them, and the promise that a step is
*possible* is an invariant (`RepayAlwaysOpen`, `ScanOpen`).  The one thing that
does go on by itself is the clock.  `FairSpec` of `Governance` assumes weak
fairness of `Tick`, and from it alone `SilentFeedsAreRefused`: an asset whose
feed has fallen silent loses its price, whatever the administrator does.
`MCSilence` makes sure that the clock of the run outlives every limit.

### Where the code differs from its documents

Each is a run that TLC must find violated; `PROJECT.json` quotes the lines.

| run | document | code |
|---|---|---|
| `margin_composite` | the scan covers every *other* position (`composite.rs`) | the collateral slot of the borrowed asset is scanned and valued again |
| `lite_stale` | one instruction, so that the check sees the state after the repayment (`lite.rs`) | `lite_reduce_and_repay` counts the stock vault as before its own repayment and the yield vault with tokens the route has taken, on top of slots the scan has counted |
| `lite_duplicate` | a stock has exactly one strategy position (`validation/positions.rs`) | only scans enforce it; `lite_supply` makes none and its caller chooses the address |
| `lite_interest` | every instruction on reserve debt accrues first (`borrowing.rs`) | `lite_reduce_repay` does not |

Other deviations met while modelling, which no run is about:

* The comment at `constants.rs:36` has the cap on coefficients keep accrual from
  overflowing.  It bounds the rate, not the total; once the total would leave 64
  bits, every instruction that accrues first fails.
* `tests/test_security.rs:38` says a donation counts at once and can be
  withdrawn; into a vault without a slot it does not.
* A loan is judged as if all of it arrived (`borrowing.rs:267-284`), though
  the transfer may withhold a fee.
* An account deep under water cannot be liquidated when every repayment with
  its bonus lowers its health factor (`liquidation.rs:282-286`).
* Liquidation does not ask for the mode, although `validation/accounts.rs:28`
  has an entry for each category of instructions.
* `lite_supply` creates a debt position with `init_if_needed` and leaves it
  zero.  The account has no bump, so instructions that derive its address from
  it refuse it until a composite or an opening fills it in.
* `lite_open` writes byte 17 while a redemption is pending, `lite_reduce_and_repay`
  discards a pending redemption when it closes the position, and a full repayment
  after a half redemption closes a position that still has receipts.
* `lite_reduce_redeem` puts the redeemed tokens into a margin vault without a
  slot (`lite.rs:930-938`).  Until the second half, scans do not see them, but
  `user_withdraw_collateral` counts what it leaves in its vault whatever the
  registry says (`margin.rs:308-322`).  So a withdrawal between the halves may
  leave an account that is at or below 1.10 for the next scan.
* `lite_reduce_repay` takes the remembered amount out of the vault and never
  touches the collateral registry (`lite.rs:1154`).  When the vault has a slot by
  then and the tokens in it went elsewhere, a deposit pays, and an active slot
  stays on an empty vault.
* A `LiteStrategyConfig` is enabled for good: no instruction writes `enabled`.

## Proofs

All theorems hold for every number of lenders, accounts, assets and slots, every
curve, every word size and every amount.  They use the named assumptions on the
constants (`ReserveMathAssumption`, `LendingPoolAssumption`,
`MarginRegistryAssumption`, `CrossMarginAssumption`, `LiteAssumption`,
`GovernanceAssumption`, `OracleAssumption`): among them that a mint withholds at
most what is sent.  TLC evaluates each of them in a run.

**LendingPool.**  The inductive invariant `IInv` is the conjunction of
`TypeOK`, `SharesConserved`, `DebtSharesBacked`, `VaultCoversLiquidity`,
`LendersBacked` and `DebtRegistered`.  None is inductive alone.  A repayment subtracts with
saturation, so shares stay conserved only because debt shares are backed by debt
(`DebtSharesBacked`); that stays true because a position owes no more than the
total, which is again conservation; types stay 64-bit because the
subtractions do not go below zero; and a loan leaves its lenders backed because
a share of debt is issued rounded up.  There is one lemma for each group of
handlers, and each also gives `PriceKept`, that the step does not lower the
assets behind a supply share: `SharePriceSafe` is that fact along a behaviour.  `ReserveMath_proofs`
holds the arithmetic the steps rest on (a floor and a ceiling bracket a
quotient, accrual only adds, a partial repayment burns no more than it pays for)
and how a sum over positions changes when one position does.
`DebtIsOnlyPaidOff` and `LoansAreOwed` bracket every change of a position: what
it owes falls by no more than the vault receives and rises by no less than it
gives.  `OthersAreNotCharged` and `ConfigChangeNotRetroactive` say whom and what
time an instruction may charge.  They rest on one lemma for each way a handler
changes a position, and on accrual being idempotent within a second
(`AccruedOnce`).  `DebtIsNeverUndercounted` adds up ceilings over all positions
and needs the clock to be ahead of the reserve, which is inductive by itself
(`ClockAhead`).
`RepayIsAlwaysOpen` needs one hypothesis more, `GrossUpCovers`: the amount the
mint's inverse fee names arrives as at least what was asked for.  `MCLendingPool`
assumes it of both mints it uses, and TLC evaluates it.

**MarginRegistry.**  `IInv` is `TypeOK`, `CountsMatchSlots` and
`LiteAlwaysReadable`; without the counts the closing of an account could not be
shown to discard nothing.  `RegistryImplementsSets` maps every step to one step
of `MarginSets` or a stutter.

**CrossMargin.**  `IInv` is as much of the types as the steps need, `DebtsListed`
(an account without a debt slot for an asset owes none of it) and
`AssetsBounded`.  The bound is not inductive alone: only a *first* loan of an
asset looks at the count of slots, and then takes a collateral slot without
looking.  A second loan looks at nothing, and the bound survives because its
asset is a debt already, which is `DebtsListed`; on a first one collateral and
debt slot are of the same asset and count once.  A lemma per instruction shows
how balances and slots of the one account it changes relate (`AccountChange`
does the rest), and gives three facts at once: `IInv'`, `NoEmptySlots'` where
mints withhold nothing (`NoFees`), `NoHiddenCollateral'` where every asset is
collateral and there are no donations (`ProgramOnly`).  Both hypotheses are on
constants and stand in the theorems.

**CrossMarginPools.**  The books of all pools together: `Ledger` says that the
positions of all accounts in an asset add up to the total of its reserve, that
debt shares are backed and that the vault of the pool holds the accounted cash;
with `IInv` and the types of accounts and positions it is inductive (`PoolsInv`) and
gives `TypesAlwaysCorrect`.  `Books` is that invariant for one reserve and one
set of positions, and there is one lemma for what a loan, a settlement and an
accrual make of it.  `MarginStepsArePoolSteps` is the refinement: every margin
instruction is, for each asset, the step of `LendingPool` that moves that
reserve, or leaves it alone.  It asks that the pool knows every amount a vault may
hold (`EveryAmount`, on the constants that bound the inputs of a pool; a repayment
is capped at the balance it finds, which may be any).  With it, what
`LendingPool_proofs` shows of the steps of one pool is true of all pools under
accounts that share them.

**CrossMarginHealth.**  No instruction values the account it leaves.  It judges
a projection: a scan of the old registry without the slots it is going to change,
plus what it computes for those.  The proofs show that the projection is the
value of the whole account afterwards, with every position counted once.  That
takes sums over sets of slots; the first part of the module shows that the fold
`MapThenSumSet` computes on a finite set is such a sum, by the uniqueness of the
function it folds with.  Then one lemma per instruction compares the judged sum
and the real one slot by slot.  What fails without `NoHiddenCollateral` is exactly
that comparison (a vault without a slot counts in one and not in the other), so
`OwnersAlwaysLeaveHealthy` and `LiquidationsAlwaysHelp` carry the hypotheses of
that invariant: mints without fees (`NoFees`) and no tokens from outside
(`ProgramOnly`).

**LitePositions.**  `AlwaysRegistered` takes the shape of positions as its
strengthening (`LiteInv`).  `PendingAlwaysKept` follows from it by looking at
what each instruction stores; the digit `lite_open` writes cancels in
`div Byte`.  `ReceiptsAlwaysBacked` adds up what positions record by address:
`LiteInv` makes the burned receipts a part of the position they are taken from, and
the lemmas on sums of `ReserveMath_proofs` do the rest.

`LitePools` is `PoolsInv` short of the types of positions, with `LiteInv` and those
types; it is inductive under the Lite and the margin instructions together, and
all further theorems about `LiteSpec` come from it.  A Lite instruction is
seen through what it changes of one account (`AccountMoved`), so that conditions on
that change (`MoveOK`) keep accounts and books at once; `ExitBooks` is the lemma
for the repayment that counts on stored totals.  From `LitePools` follow the types, `AssetsBounded`,
`PoolsSound`, and `ScanOpen`, which needs `LiteRegistered` and `ReceiptsBacked`,
too: a scan can fail on a missing position, on receipts that are not there, on a
price, an accrual or a second position, and on nothing else.
`ExitsAlwaysPay` shows for each of the three repayments that what the account
owes falls by no more than the reserve receives.

The health theorems extend those of `CrossMarginHealth`: `LiteStored` and
`LiteClosed` give the value of the positions after an instruction stores or closes
one, `StoredScannable` and `ClosedScannable` that the next scan succeeds.
`OwnersStillLeaveHealthy` adds that no Lite instruction is a way to take tokens
without changing a position.  `LitesLeaveHealthy` needs neither `NoFees` nor
`ProgramOnly`: an opening and an exit judge the vaults as a scan finds them.
`SuppliesKeepValue` is arithmetic: of three divisions that round down, each costs
at most one unit of what it divides into.
Where a theorem bounds what the eight bytes of a position remember, or speaks of
the value of positions, it asks that they hold any amount (`WordHolds`,
2^64 - 1 below 256^8 in the code).

Two attempts failed for a reason and changed what is stated: `SlotsStayBacked`
without the exception for the second half of an exit, and `OwnerStillLeavesHealthy`
without the condition on hidden tokens, are false, though both had passed TLC on
an instance of `lite_cross` in which nobody could lend X.  The present one
shows both cases.  The set of words is a parameter of `LitePools`, because the
facts that do not speak of words (`LiteAssetsBounded`, `PoolsAlwaysSound`,
`ScanAlwaysOpen`, `ExitsAlwaysPay`) hold for any width.

**Governance.**  `IInv` is `TypeOK`, `IndexesIdentifyAssets`, `IndexesBelowNext`
(indexes are below the next one to be given, without which the next registration
could repeat one), `Validated` (every configuration passed
`validate_risk_parameters`, from which `SeizureCovered` follows by the bounds of
two rounded divisions) and `PendingIsProposed` (the pending administrator is the
one the administrator in office proposed last).

The third clause of `Reserve::assert_invariants`, that accrued fees are covered
by accounted cash, is not among them: nothing calls the function, and fees accrue
on interest nobody has paid, so a pool that is lent out has more fees than cash.
`admin_collect_protocol_fees` takes the smaller of the two.

Only proved, and in no run: `TypeOK` of `MarginRegistry` and of `Governance`.
Only model-checked: `SilentFeedsAreRefused` of `Governance`, because liveness
under fairness is out of the prover's reach.  Every other property of a passing
run is a theorem.  The properties of the four runs that expect a violation are
false.  What `wad_pow` computes for every exponent is not proved: it is
modelled for the two exponents the code calls it with (32 and 64), as repeated
squares.

## Plan

In the order of what matters most; all of these are done, with what is left of
each.

1. `ReserveMath`, with lemmas.  Left: `wad_pow` as the code loops, against exact
   powers over bounded inputs.
2. `LendingPool`: runs `lending_*`, proofs.
3. `MarginSets`, `MarginRegistry`: refinement checked and proved.
4. `CrossMargin`: runs `margin_*`, proofs.  Left: the share price of every pool
   as a theorem about `CrossMargin`'s own specification; two accounts that share a
   pool in a run.
5. `LitePositions`: runs `lite_*`, proofs.  Left: a bound on the interest that
   `lite_reduce_repay` may forgive.
6. `Governance`, `PriceOracle`: run and proofs.

## Not modelled

* Account validation (addresses, owners, token programs): it decides which
  accounts an instruction runs on, and the actions take those as given.  Where
  the caller has a choice the code leaves open (the address of a Lite position,
  the price update), the choice is in the model.
* Lite positions from before debt was attributed to them (flag byte 16), and
  the wallets that pay equity and receive what an exit leaves.
* The verification level of a Pyth update, which the receiver's library checks.
* The treasury: an address nothing here depends on.
* The effect of `user_close_collateral_position` on rent; transaction size,
  compute limits.  Events and their sequence number, error codes.
* Token extensions other than transfer fees.
* The scripts under `src/scripts/`, which drive a fork or devnet.
