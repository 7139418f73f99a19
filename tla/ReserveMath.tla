----------------------------- MODULE ReserveMath -----------------------------
(***************************************************************************)
(* The arithmetic of one lending reserve: fixed point multiplication and   *)
(* division (math/fixed_point.rs), share conversions (math/shares.rs) and  *)
(* interest accrual (math/interest.rs), as pure operators.                 *)
(*                                                                         *)
(* A reserve is a record of the accounting fields of `Reserve`; its        *)
(* configuration (rate curve, fee factor, caps, status) is a second        *)
(* record, because only the administrator changes it.  The operators keep  *)
(* the names the source gives them.  A checked operation of the code that  *)
(* overflows makes the whole instruction fail, so it shows up here as a    *)
(* conjunct (`fits in U64`) in the guard of the action that uses it.       *)
(*                                                                         *)
(* Definitions marked (faulty) are plausible bugs in the definition that   *)
(* follows them.  Nothing uses them; with one of them in its place, the    *)
(* property it is paired with in PROJECT.json must fail.                   *)
(***************************************************************************)
EXTENDS Integers, FiniteSets

CONSTANTS
  Wad,              \* fixed-point one (10^18 in the code)
  SecondsPerYear,   \* annualisation basis of the rate curve (31 556 952)
  BasisPoints,      \* 10 000
  MaxRateCoeff,     \* largest RateCurve coefficient (10 * Wad)
  MinInitialShares, \* smallest first supply, in shares (1 000)
  MaxU64,           \* largest token amount (2^64 - 1)
  MaxU128           \* largest intermediate product (2^128 - 1)

ASSUME ReserveMathAssumption ==
  /\ {Wad, SecondsPerYear, BasisPoints, MaxRateCoeff, MinInitialShares} \subseteq Nat \ {0}
  /\ MaxU64 \in Nat
  /\ MaxU128 \in Nat

U64 == 0..MaxU64

Uncapped == 0   \* the cap value that switches a cap off

(* The two records a reserve account is made of. *)

ReserveStatuses == {"Active", "SupplyOnly", "RepayOnly", "Frozen"}

ReserveRecords ==
  [accounted_liquidity_assets : U64,
   total_borrow_assets        : U64,
   total_borrow_shares        : Nat,
   borrow_index_wad           : Nat,
   accrued_protocol_fees      : U64,
   last_update_timestamp      : Nat]

\* What `validate_rate_config` and ReserveStatus::from_u8 accept.
ConfigRecords ==
  [linear_coeff_wad    : 1..MaxRateCoeff,
   jump_coeff_wad      : 1..MaxRateCoeff,
   rate_multiplier_wad : 1..MaxRateCoeff,
   reserve_factor_bps  : 0..BasisPoints,
   supply_cap          : U64,
   borrow_cap          : U64,
   status              : ReserveStatuses]

MinOf(a, b) == IF a <= b THEN a ELSE b
MaxOf(a, b) == IF a <= b THEN b ELSE a
SaturatingSub(a, b) == IF a >= b THEN a - b ELSE 0

-----------------------------------------------------------------------------
(* math/fixed_point.rs *)

mul_div_floor(a, b, denom) == (a * b) \div denom

mul_div_ceil(a, b, denom) ==
  (a * b) \div denom + (IF (a * b) % denom = 0 THEN 0 ELSE 1)

-----------------------------------------------------------------------------
(* math/shares.rs.  `r` is a reserve, `supply` the supply of share tokens. *)

lender_total_assets(r) ==
  r.accounted_liquidity_assets + r.total_borrow_assets - r.accrued_protocol_fees

available_lender_cash(r) ==
  SaturatingSub(r.accounted_liquidity_assets, r.accrued_protocol_fees)

assets_to_supply_shares_down(assets, supply, total) ==
  IF supply = 0 \/ total = 0 THEN assets ELSE mul_div_floor(assets, supply, total)

\* (faulty) rounds for the lender
RedeemedAssetsRoundedUp(shares, supply, total) ==
  IF supply = 0 THEN 0 ELSE mul_div_ceil(shares, total, supply)

supply_shares_to_assets_down(shares, supply, total) ==
  IF supply = 0 THEN 0 ELSE mul_div_floor(shares, total, supply)

\* (faulty) rounds for the borrower
DebtSharesRoundedDown(assets, shares, total) ==
  IF shares = 0 \/ total = 0 THEN assets ELSE mul_div_floor(assets, shares, total)

assets_to_debt_shares_up(assets, shares, total) ==
  IF shares = 0 \/ total = 0 THEN assets ELSE mul_div_ceil(assets, shares, total)

\* (faulty) rounds for the borrower
DebtRoundedDown(position, shares, total) ==
  IF shares = 0 THEN 0 ELSE mul_div_floor(position, total, shares)

debt_shares_to_assets_up(position, shares, total) ==
  IF shares = 0 THEN 0 ELSE mul_div_ceil(position, total, shares)

-----------------------------------------------------------------------------
(* math/interest.rs *)

utilization_wad(liquidity, borrows) ==
  IF liquidity + borrows = 0 THEN 0 ELSE mul_div_floor(borrows, Wad, liquidity + borrows)

\* One squaring of `wad_pow`, rounded half up.  The code only raises to the
\* powers 32 and 64, whose binary expansions are five and six squarings.
WadSquare == [x \in Nat |-> (x * x + Wad \div 2) \div Wad]
WadPow32(u) == WadSquare[WadSquare[WadSquare[WadSquare[WadSquare[u]]]]]
WadPow64(u) == WadSquare[WadPow32(u)]

borrow_rate_per_second_wad(c, u) ==
  LET polynomial == mul_div_floor(u, c.linear_coeff_wad, Wad)
                  + mul_div_floor(WadPow32(u), c.linear_coeff_wad, Wad)
                  + mul_div_floor(WadPow64(u), c.jump_coeff_wad, Wad)
  IN  mul_div_floor(c.rate_multiplier_wad, polynomial, SecondsPerYear * Wad)

\* Interest on the whole pool for the seconds since the last update.
InterestDue(r, c, now) ==
  LET u == utilization_wad(r.accounted_liquidity_assets, r.total_borrow_assets)
  IN  mul_div_ceil(r.total_borrow_assets,
                   borrow_rate_per_second_wad(c, u) * (now - r.last_update_timestamp),
                   Wad)

ProtocolFee(interest, c) == mul_div_floor(interest, c.reserve_factor_bps, BasisPoints)

\* `unwrap_or`: an index product that overflows leaves the index where it was.
GrownIndex(r, total) ==
  MaxOf(Wad, IF r.borrow_index_wad * total > MaxU128
               THEN r.borrow_index_wad
               ELSE mul_div_floor(r.borrow_index_wad, total, r.total_borrow_assets))

accrue(r, c, now) ==
  LET interest == InterestDue(r, c, now)
      total    == r.total_borrow_assets + interest
  IN  IF now = r.last_update_timestamp \/ r.total_borrow_assets = 0
        THEN [r EXCEPT !.last_update_timestamp = now]
        ELSE [r EXCEPT !.total_borrow_assets   = total,
                       !.accrued_protocol_fees = @ + ProtocolFee(interest, c),
                       !.borrow_index_wad      = GrownIndex(r, total),
                       !.last_update_timestamp = now]

\* (faulty) an unchecked addition
AccrualUnchecked(r, c, now) == now >= r.last_update_timestamp

\* The accrual succeeds: time has not gone back and no total overflows.
AccrualSucceeds(r, c, now) ==
  LET grown == accrue(r, c, now)
  IN  /\ now >= r.last_update_timestamp
      /\ grown.total_borrow_assets \in U64
      /\ grown.accrued_protocol_fees \in U64

-----------------------------------------------------------------------------
(* The reserve legs shared by the instructions that move debt. *)

\* A loan of `assets` against `shares` new debt shares leaves the reserve.
AfterBorrow(r, assets, shares) ==
  [r EXCEPT !.accounted_liquidity_assets = @ - assets,
            !.total_borrow_assets        = @ + assets,
            !.total_borrow_shares        = @ + shares]

\* (faulty) burns one share too many when the division leaves a remainder
DebtSharesBurnedRoundedUp(r, position, owed, received) ==
  IF received >= owed
    THEN position
    ELSE MinOf(mul_div_ceil(received, r.total_borrow_shares, r.total_borrow_assets), position)

\* Shares burned by a payment of `received` against a position that holds
\* `position` shares worth `owed`.
DebtSharesBurned(r, position, owed, received) ==
  IF received >= owed
    THEN position
    ELSE MinOf(mul_div_floor(received, r.total_borrow_shares, r.total_borrow_assets), position)

\* (faulty) takes assets for shares
AfterRepayInAssets(r, owed, received, burned) ==
  [r EXCEPT !.accounted_liquidity_assets = @ + received,
            !.total_borrow_assets        = SaturatingSub(@, MinOf(received, owed)),
            !.total_borrow_shares        = SaturatingSub(@, received)]

AfterRepay(r, owed, received, burned) ==
  [r EXCEPT !.accounted_liquidity_assets = @ + received,
            !.total_borrow_assets        = SaturatingSub(@, MinOf(received, owed)),
            !.total_borrow_shares        = SaturatingSub(@, burned)]

\* (faulty) forgets that the cash has left
FeesPaidFromNothing(r, amount) == [r EXCEPT !.accrued_protocol_fees = @ - amount]

\* (faulty) forgets that the fees have been paid
FeesPaidTwice(r, amount) == [r EXCEPT !.accounted_liquidity_assets = @ - amount]

AfterFeeCollection(r, amount) ==
  [r EXCEPT !.accounted_liquidity_assets = @ - amount,
            !.accrued_protocol_fees      = @ - amount]

-----------------------------------------------------------------------------
(* Sums.  The total of a function to the naturals is the number of units   *)
(* its entries stand for, each unit told apart by its owner and a serial   *)
(* number.  Written with Cardinality, the total needs no recursion.        *)

UnitsOf(f, x) == {x} \X (1..f[x])
TotalOf(f) == Cardinality(UNION {UnitsOf(f, x) : x \in DOMAIN f})
=============================================================================
