------------------------------ MODULE Governance ------------------------------
(***************************************************************************)
(* The protocol's configuration: its administrator, the operating mode, and *)
(* the registered assets with their indexes, risk parameters, price limits, *)
(* reserves and Lite strategies (instructions/admin.rs, the first one of    *)
(* instructions/lite.rs).                                                  *)
(*                                                                         *)
(* Margin accounts name an asset by its index, so an index must never stand *)
(* for two assets or for the empty slot of their arrays.  Everything else  *)
(* trusts the administrator, who changes in two steps.  The rate curves and *)
(* caps of a reserve are LendingPool's.                                    *)
(***************************************************************************)
EXTENDS PriceOracle

CONSTANTS
  Keys,         \* the accounts that may sign
  NoKey,        \* Pubkey::default, which nobody can sign for
  Mints,        \* the tokens there are
  RiskChoices,  \* [ltv_bps, liquidation_threshold_bps, liquidation_bonus_bps]
  LimitChoices, \* [max_confidence_bps, max_price_age_secs]
  Modes,        \* the operating modes
  MaxAssets,    \* MAX_ASSETS, the size of an account's arrays
  AssetCounts,  \* the bounds initialize_protocol is called with
  IndexLimit,   \* 2^16; the last index marks an empty slot
  Values        \* the values of collateral SeizureCovered is stated for

VARIABLES
  admin, pending_admin, operating_mode, max_assets_per_margin, next_asset_index,
  assets,       \* registered mint -> its AssetConfig
  reserves,     \* mints with a Reserve account
  strategies,   \* mints with a LiteStrategyConfig
  proposal      \* history: who proposed whom last

oracle == <<now, published>>
protocol == <<admin, pending_admin, operating_mode, max_assets_per_margin>>
registered == <<next_asset_index, assets, reserves, strategies>>
vars == <<oracle, protocol, registered, proposal>>

ASSUME GovernanceAssumption ==
  /\ NoKey \notin Keys
  /\ RiskChoices \subseteq [ltv_bps : Nat, liquidation_threshold_bps : Nat, liquidation_bonus_bps : Nat]
  /\ LimitChoices \subseteq [max_confidence_bps : Nat, max_price_age_secs : Nat]
  /\ "Normal" \in Modes
  /\ MaxAssets \in Nat /\ AssetCounts \subseteq Nat
  /\ IndexLimit \in Nat \ {0}
  /\ Values \subseteq Nat

Initialized == admin # NoKey
EmptySlot == IndexLimit - 1

\* The parts of an AssetConfig that matter here.
AssetConfigs ==
  [price_feed_id : Feeds, asset_index : Nat, reserve : BOOLEAN,
   ltv_bps : Nat, liquidation_threshold_bps : Nat, liquidation_bonus_bps : Nat,
   max_confidence_bps : Nat, max_price_age_secs : Nat]

\* (faulty) forgets the bonus
ThresholdsOnly(risk) ==
  /\ risk.liquidation_threshold_bps <= BasisPoints
  /\ risk.ltv_bps < risk.liquidation_threshold_bps

validate_risk_parameters(risk) ==
  /\ risk.liquidation_threshold_bps <= BasisPoints
  /\ risk.ltv_bps < risk.liquidation_threshold_bps
  /\ risk.liquidation_threshold_bps * (BasisPoints + risk.liquidation_bonus_bps)
       <= BasisPoints * BasisPoints

Init ==
  /\ OracleInit
  /\ admin = NoKey /\ pending_admin = NoKey
  /\ operating_mode = "Normal"
  /\ max_assets_per_margin = 0
  /\ next_asset_index = 0
  /\ assets = [m \in {} |-> 0]
  /\ reserves = {} /\ strategies = {}
  /\ proposal = [by |-> NoKey, to |-> NoKey]

-----------------------------------------------------------------------------
(* The administrator *)

\* Once: the account is created here.
initialize_protocol(k, max_assets) ==
  /\ ~Initialized
  /\ max_assets \in 1..MaxAssets
  /\ admin' = k
  /\ max_assets_per_margin' = max_assets
  /\ UNCHANGED <<pending_admin, operating_mode, oracle, registered, proposal>>

\* A new proposal takes the place of the one before.
admin_propose_authority(k, new_admin) ==
  /\ Initialized /\ k = admin
  /\ new_admin # NoKey
  /\ pending_admin' = new_admin
  /\ proposal' = [by |-> k, to |-> new_admin]
  /\ UNCHANGED <<admin, operating_mode, max_assets_per_margin, oracle, registered>>

\* (faulty) whoever signs becomes the administrator, once anybody is proposed
AcceptByAnybody(k) ==
  /\ pending_admin # NoKey
  /\ admin' = k
  /\ pending_admin' = NoKey
  /\ UNCHANGED <<operating_mode, max_assets_per_margin, oracle, registered, proposal>>

authority_accept_admin(k) ==
  /\ Initialized /\ k = pending_admin
  /\ admin' = pending_admin
  /\ pending_admin' = NoKey
  /\ UNCHANGED <<operating_mode, max_assets_per_margin, oracle, registered, proposal>>

admin_set_operating_mode(k, new_mode) ==
  /\ Initialized /\ k = admin
  /\ operating_mode' = new_mode
  /\ UNCHANGED <<admin, pending_admin, max_assets_per_margin, oracle, registered, proposal>>

-----------------------------------------------------------------------------
(* Assets, reserves and strategies *)

\* The AssetConfig of a new asset.
NewAsset(feed, index, risk, limits) ==
  [price_feed_id             |-> feed,
   asset_index               |-> index,
   reserve                   |-> FALSE,
   ltv_bps                   |-> risk.ltv_bps,
   liquidation_threshold_bps |-> risk.liquidation_threshold_bps,
   liquidation_bonus_bps     |-> risk.liquidation_bonus_bps,
   max_confidence_bps        |-> limits.max_confidence_bps,
   max_price_age_secs        |-> limits.max_price_age_secs]

With(m, config) == [n \in DOMAIN assets \cup {m} |-> IF n = m THEN config ELSE assets[n]]

\* (faulty) the addition wraps around
NextIndexWrapped == next_asset_index' = (next_asset_index + 1) % IndexLimit

\* The addition is checked: the last index is never given to an asset.
NextIndex == next_asset_index + 1 < IndexLimit /\ next_asset_index' = next_asset_index + 1

\* (faulty) registers an asset again, with a new index
RegisterAgain(k, m, feed, risk, limits) ==
  /\ Initialized /\ k = admin
  /\ validate_risk_parameters(risk)
  /\ NextIndex
  /\ assets' = With(m, NewAsset(feed, next_asset_index, risk, limits))
  /\ UNCHANGED <<oracle, protocol, reserves, strategies, proposal>>

admin_register_asset(k, m, feed, risk, limits) ==
  /\ Initialized /\ k = admin
  /\ m \notin DOMAIN assets
  /\ validate_risk_parameters(risk)
  /\ NextIndex
  /\ assets' = With(m, NewAsset(feed, next_asset_index, risk, limits))
  /\ UNCHANGED <<oracle, protocol, reserves, strategies, proposal>>

\* The feed, the index and the reserve of an asset are for good.
admin_update_asset_config(k, m, risk, limits) ==
  /\ Initialized /\ k = admin
  /\ m \in DOMAIN assets
  /\ validate_risk_parameters(risk)
  /\ assets' = With(m, [NewAsset(assets[m].price_feed_id, assets[m].asset_index, risk, limits)
                          EXCEPT !.reserve = assets[m].reserve])
  /\ UNCHANGED <<oracle, protocol, next_asset_index, reserves, strategies, proposal>>

admin_initialize_reserve(k, m) ==
  /\ Initialized /\ k = admin
  /\ m \in DOMAIN assets
  /\ m \notin reserves
  /\ ~assets[m].reserve
  /\ assets' = [assets EXCEPT ![m].reserve = TRUE]
  /\ reserves' = reserves \cup {m}
  /\ UNCHANGED <<oracle, protocol, next_asset_index, strategies, proposal>>

\* A strategy is enabled for good: no instruction writes `enabled` again.
admin_register_lite_strategy(k, m) ==
  /\ Initialized /\ k = admin
  /\ m \in DOMAIN assets
  /\ m \notin strategies
  /\ strategies' = strategies \cup {m}
  /\ UNCHANGED <<oracle, protocol, next_asset_index, assets, reserves, proposal>>

-----------------------------------------------------------------------------
\* What an administrator does with the assets.
AssetStep(k) ==
  \E m \in Mints :
     \/ \E r \in RiskChoices, l \in LimitChoices :
           \/ \E f \in Feeds : admin_register_asset(k, m, f, r, l)
           \/ admin_update_asset_config(k, m, r, l)
     \/ admin_initialize_reserve(k, m)
     \/ admin_register_lite_strategy(k, m)

AdminStep(k) ==
  \/ \E c \in AssetCounts : initialize_protocol(k, c)
  \/ \E n \in Keys \cup {NoKey} : admin_propose_authority(k, n)
  \/ authority_accept_admin(k)
  \/ \E o \in Modes : admin_set_operating_mode(k, o)
  \/ AssetStep(k)

OracleStep == (Tick \/ \E f \in Feeds, q \in Quotes : Publish(f, q))
                /\ UNCHANGED <<protocol, registered, proposal>>

Next == OracleStep \/ \E k \in Keys : AdminStep(k)

Spec == Init /\ [][Next]_vars

\* Time goes on whatever the administrator and the feeds do; neither has to act.
FairSpec == Spec /\ WF_vars(Tick /\ UNCHANGED <<protocol, registered, proposal>>)

-----------------------------------------------------------------------------
(* Properties *)

\* Every variable holds a value of its kind.
TypeOK ==
  /\ now \in Nat /\ published \subseteq Updates
  /\ {admin, pending_admin} \subseteq Keys \cup {NoKey}
  /\ operating_mode \in Modes
  /\ max_assets_per_margin \in 0..MaxAssets
  /\ next_asset_index \in 0..(IndexLimit - 1)
  /\ DOMAIN assets \subseteq Mints
  /\ \A m \in DOMAIN assets : assets[m] \in AssetConfigs
  /\ reserves \subseteq DOMAIN assets /\ strategies \subseteq DOMAIN assets
  /\ proposal \in [by : Keys \cup {NoKey}, to : Keys \cup {NoKey}]

\* The registries of the margin accounts can tell assets apart: an index stands
\* for one asset, and never for the empty slot of an array.
IndexesIdentifyAssets ==
  /\ \A m, n \in DOMAIN assets : m # n => assets[m].asset_index # assets[n].asset_index
  /\ \A m \in DOMAIN assets : assets[m].asset_index # EmptySlot

\* Where collateral of value v carries the debt its liquidation threshold lets it
\* carry, paying that debt back with the bonus takes no more than the collateral,
\* in the rounding of public_liquidate.
SeizureCovered ==
  \A m \in DOMAIN assets : \A v \in Values :
     LET debt == (v * assets[m].liquidation_threshold_bps) \div BasisPoints
     IN  (debt * (BasisPoints + assets[m].liquidation_bonus_bps)) \div BasisPoints <= v

\* What margin accounts, reserves and strategies refer to is not exchanged under
\* them: an asset stays registered, with its index, its feed and its reserve.
AssetsKeepIdentity ==
  [][\A m \in DOMAIN assets :
       /\ m \in DOMAIN assets'
       /\ assets'[m].asset_index = assets[m].asset_index
       /\ assets'[m].price_feed_id = assets[m].price_feed_id
       /\ assets[m].reserve => assets'[m].reserve]_vars

\* The protocol is handed over by the administrator in office to the key it
\* proposed last: not to one it changed its mind about, nor to one an earlier
\* administrator proposed.
HandedOverAsProposed ==
  [][Initialized /\ admin' # admin => proposal = [by |-> admin, to |-> admin']]_vars

\* The updates an instruction may use for asset m.
Usable(m) == {u \in published : load_validated_price(assets[m], u)}

\* A price once refused is refused for good, however late somebody posts it,
\* unless the administrator changes the limits of the asset.
RefusedForGood ==
  [][\A m \in DOMAIN assets :
       assets'[m] = assets[m] => Usable(m)' \cap published \subseteq Usable(m)]_vars

\* When the feeds fall silent every asset loses its price sooner or later, and
\* with it all instructions that judge an account: none goes on with old prices.
SilentFeedsAreRefused == <>[](\A m \in DOMAIN assets : Usable(m) = {})
=============================================================================
