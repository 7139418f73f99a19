---------------------------- MODULE MCLendingPool ----------------------------
(***************************************************************************)
(* LendingPool on small numbers: fixed point with Wad = 4, a year of four  *)
(* seconds and token amounts of a few units, so that every division of the *)
(* code leaves a remainder somewhere and interest shows after one second.  *)
(***************************************************************************)
EXTENDS LendingPool, TLC

CurveOf(linear, jump, multiplier, factor, supplyCap, borrowCap, status) ==
  [linear_coeff_wad |-> linear, jump_coeff_wad |-> jump, rate_multiplier_wad |-> multiplier,
   reserve_factor_bps |-> factor, supply_cap |-> supplyCap, borrow_cap |-> borrowCap,
   status |-> status]

\* 25% interest for a second of half utilisation, up to 100% at full, half of it fees.
Steep == CurveOf(4, 8, 4, 5000, Uncapped, Uncapped, "Active")
\* A flatter curve with both caps, a higher fee.
Flat  == CurveOf(4, 1, 2, 10000, 6, 4, "Active")

OneConfig  == {Steep}
TwoConfigs == {Steep, Flat}

NoFee(x) == 0
Same(x) == x

\* A Token-2022 mint that withholds a tenth, rounded up; the inverse fee is
\* the fee of ceil(10 x / 9), as calculate_inverse_fee computes it.
TenthUp(x) == (x + 9) \div 10
GrossTenth(x) == x + TenthUp((10 * x + 8) \div 9)

\* The two mints of the runs satisfy the hypothesis of RepayIsAlwaysOpen.
ASSUME MCGrossUpAssumption == GrossUpCovers

Symmetric == Permutations(Lenders) \cup Permutations(Margins)
=============================================================================
