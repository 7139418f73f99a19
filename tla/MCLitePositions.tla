---------------------------- MODULE MCLitePositions ----------------------------
(***************************************************************************)
(* LitePositions on small numbers, with Wad at 100 as in MCCrossMargin.    *)
(***************************************************************************)
EXTENDS LitePositions, TLC

CONSTANTS X, Y    \* assets

OneCurve ==
  [linear_coeff_wad |-> 8, jump_coeff_wad |-> 4, rate_multiplier_wad |-> 100,
   reserve_factor_bps |-> 5000, supply_cap |-> Uncapped, borrow_cap |-> Uncapped,
   status |-> "Active"]

AssetOf(collateral, borrow, cap) ==
  [collateral_enabled |-> collateral, borrow_enabled |-> borrow,
   max_collateral_per_margin |-> cap, liquidation_bonus_bps |-> 2000]

\* X is collateral, which nobody has lent yet, and Y is lent; a token of either
\* is worth 1.
ConfigsXY  == (X :> {AssetOf(TRUE, TRUE, 6)}) @@ (Y :> {AssetOf(TRUE, TRUE, 6)})
PricesXY   == (X :> {2}) @@ (Y :> {2})
SuppliedXY == (X :> 0) @@ (Y :> 6)

ConfigsY  == Y :> {AssetOf(TRUE, TRUE, 6)}
PricesY   == Y :> {2}
SuppliedY == Y :> 6

NoFee(x) == 0
Same(x) == x
=============================================================================
