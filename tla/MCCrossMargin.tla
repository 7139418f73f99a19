---------------------------- MODULE MCCrossMargin ----------------------------
(***************************************************************************)
(* CrossMargin on small numbers: Wad is 100, so that the threshold of 1.10 *)
(* is 110 and a health factor has two digits.                              *)
(***************************************************************************)
EXTENDS CrossMargin, TLC

CONSTANTS X, Y, Z    \* assets

\* Interest of some 5% for a second of full utilisation, half of it fees.
OneCurve ==
  [linear_coeff_wad |-> 8, jump_coeff_wad |-> 4, rate_multiplier_wad |-> 100,
   reserve_factor_bps |-> 5000, supply_cap |-> Uncapped, borrow_cap |-> Uncapped,
   status |-> "Active"]

AssetOf(collateral, borrow, cap) ==
  [collateral_enabled |-> collateral, borrow_enabled |-> borrow,
   max_collateral_per_margin |-> cap, liquidation_bonus_bps |-> 2000]

\* X is collateral and moves between 11, 9 and no price at all; Y is lent and
\* stays at 50.  Six X carry a loan of twelve Y at 11 and not at 9.
ConfigsXY   == (X :> {AssetOf(TRUE, FALSE, 6)}) @@ (Y :> {AssetOf(TRUE, TRUE, 6)})
PricesXY    == (X :> {22, 18, 0}) @@ (Y :> {100})
SuppliedXY  == (X :> 0) @@ (Y :> 12)

\* Every balance a vault of Y reaches.
Balances24 == 0..24

\* Three assets of value 1 a token that may be switched off as collateral.
EitherWay(borrow) == {AssetOf(TRUE, borrow, 4), AssetOf(FALSE, borrow, 4)}
ConfigsXYZ  == (X :> {AssetOf(TRUE, FALSE, 4)}) @@ (Y :> EitherWay(TRUE)) @@ (Z :> EitherWay(TRUE))
PricesXYZ   == (X :> {2}) @@ (Y :> {2}) @@ (Z :> {2})
SuppliedXYZ == (X :> 0) @@ (Y :> 2) @@ (Z :> 2)

NoFee(x) == 0
Same(x) == x
=============================================================================
