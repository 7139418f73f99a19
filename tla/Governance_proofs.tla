--------------------------- MODULE Governance_proofs ---------------------------
(***************************************************************************)
(* Governance for every number of keys, mints and indexes and every choice *)
(* of parameters: indexes stay apart, configurations stay safe, the         *)
(* hand-over follows the last proposal, old prices stay refused.           *)
(***************************************************************************)
EXTENDS Governance, TLAPS

-----------------------------------------------------------------------------
(* The inductive invariant *)

\* Indexes are given in order, so the next one is free.
IndexesBelowNext == \A m \in DOMAIN assets : assets[m].asset_index < next_asset_index

\* Nothing is configured that was not validated.
Validated == \A m \in DOMAIN assets : validate_risk_parameters(assets[m])

\* A pending administrator is the last one proposed, and whoever proposed it is
\* still in office.
PendingIsProposed ==
  /\ pending_admin # NoKey => proposal = [by |-> admin, to |-> pending_admin]
  /\ admin = NoKey => pending_admin = NoKey

IInv == TypeOK /\ IndexesIdentifyAssets /\ IndexesBelowNext /\ Validated /\ PendingIsProposed

\* What a step may do to assets and to the administrator.
AssetsKept ==
  \A m \in DOMAIN assets :
     /\ m \in DOMAIN assets'
     /\ assets'[m].asset_index = assets[m].asset_index
     /\ assets'[m].price_feed_id = assets[m].price_feed_id
     /\ assets[m].reserve => assets'[m].reserve

HandedOver == Initialized /\ admin' # admin => proposal = [by |-> admin, to |-> admin']

StepOK == IInv' /\ AssetsKept /\ HandedOver

\* The three parts of IInv that speak of assets and what a step may do to them.
AssetsOK ==
  /\ DOMAIN assets \subseteq Mints
  /\ \A m \in DOMAIN assets : assets[m] \in AssetConfigs
  /\ IndexesIdentifyAssets /\ IndexesBelowNext /\ Validated

USE GovernanceAssumption, OracleAssumption

-----------------------------------------------------------------------------
(* Assets *)

\* The fields of a new configuration.
LEMMA NewAssetFields ==
  ASSUME NEW feed \in Feeds, NEW index \in Nat, NEW risk \in RiskChoices, NEW limits \in LimitChoices
  PROVE  /\ NewAsset(feed, index, risk, limits) \in AssetConfigs
         /\ NewAsset(feed, index, risk, limits).asset_index = index
         /\ NewAsset(feed, index, risk, limits).price_feed_id = feed
         /\ validate_risk_parameters(risk)
              => validate_risk_parameters(NewAsset(feed, index, risk, limits))
<1>1. /\ risk \in [ltv_bps : Nat, liquidation_threshold_bps : Nat, liquidation_bonus_bps : Nat]
      /\ limits \in [max_confidence_bps : Nat, max_price_age_secs : Nat]
  OBVIOUS
<1> QED  BY <1>1 DEF NewAsset, AssetConfigs, validate_risk_parameters

\* A new asset takes the next index, which no asset has.
LEMMA RegisterKeepsAssets ==
  ASSUME TypeOK, AssetsOK,
         NEW k \in Keys, NEW m \in Mints, NEW feed \in Feeds,
         NEW risk \in RiskChoices, NEW limits \in LimitChoices,
         admin_register_asset(k, m, feed, risk, limits)
  PROVE  AssetsOK' /\ AssetsKept /\ next_asset_index' \in 0..(IndexLimit - 1)
<1> DEFINE new == NewAsset(feed, next_asset_index, risk, limits)
<1>0. next_asset_index \in Nat
  BY DEF TypeOK
<1>1. /\ new \in AssetConfigs /\ new.asset_index = next_asset_index
      /\ validate_risk_parameters(new)
  BY <1>0, NewAssetFields DEF admin_register_asset
<1>10. m \notin DOMAIN assets /\ assets' = With(m, new)
  BY DEF admin_register_asset
<1> HIDE DEF new
<1>2. /\ m \notin DOMAIN assets
      /\ DOMAIN assets' = DOMAIN assets \cup {m}
      /\ assets'[m] = new
      /\ \A n \in DOMAIN assets : assets'[n] = assets[n]
  <2>1. m \notin DOMAIN assets
    BY DEF admin_register_asset
  <2>2. /\ DOMAIN With(m, new) = DOMAIN assets \cup {m}
        /\ With(m, new)[m] = new
        /\ \A n \in DOMAIN assets \ {m} : With(m, new)[n] = assets[n]
    BY DEF With
  <2> QED  BY <1>10, <2>1, <2>2
<1>3. /\ next_asset_index \in Nat /\ next_asset_index' = next_asset_index + 1
      /\ next_asset_index' < IndexLimit
  BY DEF TypeOK, admin_register_asset, NextIndex
<1>4. \A n \in DOMAIN assets : assets[n].asset_index \in Nat /\ assets[n].asset_index < next_asset_index
  BY DEF AssetsOK, IndexesBelowNext, AssetConfigs
<1>5. (DOMAIN assets \subseteq Mints /\ \A n \in DOMAIN assets : assets[n] \in AssetConfigs)'
  BY <1>1, <1>2 DEF AssetsOK
<1>6. IndexesIdentifyAssets'
  BY <1>1, <1>2, <1>3, <1>4 DEF AssetsOK, IndexesIdentifyAssets, EmptySlot
<1>7. IndexesBelowNext'
  BY <1>1, <1>2, <1>3, <1>4 DEF IndexesBelowNext
<1>8. Validated'
  BY <1>1, <1>2 DEF AssetsOK, Validated, validate_risk_parameters
<1>9. AssetsKept
  BY <1>2 DEF AssetsKept
<1> QED  BY <1>3, <1>5, <1>6, <1>7, <1>8, <1>9 DEF AssetsOK

\* A change of configuration validates it and keeps what identifies the asset.
LEMMA UpdateKeepsAssets ==
  ASSUME AssetsOK,
         NEW k \in Keys, NEW m \in Mints, NEW risk \in RiskChoices, NEW limits \in LimitChoices,
         admin_update_asset_config(k, m, risk, limits)
  PROVE  AssetsOK' /\ AssetsKept
<1> DEFINE old == assets[m]
           new == NewAsset(old.price_feed_id, old.asset_index, risk, limits)
           config == [new EXCEPT !.reserve = old.reserve]
<1>1. m \in DOMAIN assets /\ old \in AssetConfigs
  BY DEF AssetsOK, admin_update_asset_config
<1>2. /\ new \in AssetConfigs /\ new.asset_index = old.asset_index
      /\ new.price_feed_id = old.price_feed_id
      /\ validate_risk_parameters(new)
  <2>1. old.price_feed_id \in Feeds /\ old.asset_index \in Nat
    BY <1>1 DEF AssetConfigs
  <2>2. validate_risk_parameters(risk)
    BY DEF admin_update_asset_config
  <2> QED  BY <2>1, <2>2, NewAssetFields
<1>3. assets' = With(m, config) /\ next_asset_index' = next_asset_index
  BY DEF admin_update_asset_config
<1> HIDE DEF new, old
<1>4. /\ config \in AssetConfigs /\ config.asset_index = old.asset_index
      /\ config.price_feed_id = old.price_feed_id /\ config.reserve = old.reserve
      /\ validate_risk_parameters(config)
  BY <1>1, <1>2 DEF AssetConfigs, validate_risk_parameters
<1> HIDE DEF config
<1>5. /\ DOMAIN assets' = DOMAIN assets
      /\ assets'[m] = config
      /\ \A n \in DOMAIN assets \ {m} : assets'[n] = assets[n]
  <2>1. DOMAIN assets \cup {m} = DOMAIN assets
    BY <1>1
  <2>2. /\ DOMAIN With(m, config) = DOMAIN assets \cup {m}
        /\ With(m, config)[m] = config
        /\ \A n \in DOMAIN assets \ {m} : With(m, config)[n] = assets[n]
    BY DEF With
  <2> QED  BY <1>3, <2>1, <2>2
<1>6. \A n \in DOMAIN assets : /\ assets'[n].asset_index = assets[n].asset_index
                               /\ assets'[n].price_feed_id = assets[n].price_feed_id
                               /\ assets'[n].reserve = assets[n].reserve
  BY <1>4, <1>5 DEF old
<1>7. (DOMAIN assets \subseteq Mints /\ \A n \in DOMAIN assets : assets[n] \in AssetConfigs)'
  BY <1>4, <1>5 DEF AssetsOK
<1>8. IndexesIdentifyAssets' /\ IndexesBelowNext'
  BY <1>3, <1>5, <1>6 DEF AssetsOK, IndexesIdentifyAssets, IndexesBelowNext, EmptySlot
<1>9. Validated'
  BY <1>4, <1>5 DEF AssetsOK, Validated, validate_risk_parameters
<1>10. AssetsKept
  BY <1>5, <1>6 DEF AssetsKept
<1> QED  BY <1>7, <1>8, <1>9, <1>10 DEF AssetsOK

\* A reserve is one flag of one asset.
LEMMA ReserveKeepsAssets ==
  ASSUME AssetsOK, NEW k \in Keys, NEW m \in Mints, admin_initialize_reserve(k, m)
  PROVE  AssetsOK' /\ AssetsKept
<1>1. /\ DOMAIN assets' = DOMAIN assets /\ next_asset_index' = next_asset_index
      /\ \A n \in DOMAIN assets :
           assets'[n] = assets[n] \/ assets'[n] = [assets[n] EXCEPT !.reserve = TRUE]
  BY DEF admin_initialize_reserve
<1>20. \A n \in DOMAIN assets : assets[n] \in AssetConfigs
  BY DEF AssetsOK
<1>2. \A n \in DOMAIN assets :
        /\ assets'[n] \in AssetConfigs
        /\ assets'[n].asset_index = assets[n].asset_index
        /\ assets'[n].price_feed_id = assets[n].price_feed_id
        /\ assets[n].reserve => assets'[n].reserve
        /\ assets'[n].ltv_bps = assets[n].ltv_bps
        /\ assets'[n].liquidation_threshold_bps = assets[n].liquidation_threshold_bps
        /\ assets'[n].liquidation_bonus_bps = assets[n].liquidation_bonus_bps
  <2> SUFFICES ASSUME NEW n \in DOMAIN assets
               PROVE  /\ assets'[n] \in AssetConfigs
                      /\ assets'[n].asset_index = assets[n].asset_index
                      /\ assets'[n].price_feed_id = assets[n].price_feed_id
                      /\ assets[n].reserve => assets'[n].reserve
                      /\ assets'[n].ltv_bps = assets[n].ltv_bps
                      /\ assets'[n].liquidation_threshold_bps = assets[n].liquidation_threshold_bps
                      /\ assets'[n].liquidation_bonus_bps = assets[n].liquidation_bonus_bps
    OBVIOUS
  <2>1. CASE assets'[n] = assets[n]
    BY <1>20, <2>1
  <2>2. CASE assets'[n] = [assets[n] EXCEPT !.reserve = TRUE]
    <3>1. assets[n] \in AssetConfigs
      BY <1>20
    <3>2. assets'[n] \in AssetConfigs /\ assets'[n].reserve = TRUE
      BY <2>2, <3>1 DEF AssetConfigs
    <3> QED  BY <2>2, <3>1, <3>2 DEF AssetConfigs
  <2> QED  BY <1>1, <2>1, <2>2
<1>3. IndexesIdentifyAssets' /\ IndexesBelowNext'
  BY <1>1, <1>2 DEF AssetsOK, IndexesIdentifyAssets, IndexesBelowNext, EmptySlot
<1>4. Validated'
  BY <1>1, <1>2 DEF AssetsOK, Validated, validate_risk_parameters
<1> QED  BY <1>1, <1>2, <1>3, <1>4 DEF AssetsOK, AssetsKept

\* What leaves the assets alone keeps all that is said of them.
LEMMA AssetsUntouched ==
  ASSUME AssetsOK, UNCHANGED <<next_asset_index, assets>>
  PROVE  AssetsOK' /\ AssetsKept
BY DEF AssetsOK, AssetsKept, IndexesIdentifyAssets, IndexesBelowNext, Validated,
       validate_risk_parameters, EmptySlot

-----------------------------------------------------------------------------
(* Steps *)

\* The parts of IInv that are not about assets.
RestOK ==
  /\ now \in Nat /\ published \subseteq Updates
  /\ {admin, pending_admin} \subseteq Keys \cup {NoKey}
  /\ operating_mode \in Modes
  /\ max_assets_per_margin \in 0..MaxAssets
  /\ next_asset_index \in 0..(IndexLimit - 1)
  /\ reserves \subseteq DOMAIN assets /\ strategies \subseteq DOMAIN assets
  /\ proposal \in [by : Keys \cup {NoKey}, to : Keys \cup {NoKey}]
  /\ PendingIsProposed

\* The invariant splits into what is said of the assets and the rest.
LEMMA IInvInTwo == IInv <=> AssetsOK /\ RestOK
BY DEF IInv, AssetsOK, RestOK, TypeOK

\* And so it does after a step.
LEMMA IInvInTwoNext == IInv' <=> AssetsOK' /\ RestOK'
BY DEF IInv, AssetsOK, RestOK, TypeOK

\* The administrator's steps that do not touch assets.
LEMMA AuthorityStep ==
  ASSUME IInv, NEW k \in Keys,
         \/ \E c \in AssetCounts : initialize_protocol(k, c)
         \/ \E n \in Keys \cup {NoKey} : admin_propose_authority(k, n)
         \/ authority_accept_admin(k)
         \/ \E o \in Modes : admin_set_operating_mode(k, o)
  PROVE  StepOK
<1>1. AssetsOK /\ RestOK
  BY IInvInTwo
<1>2. UNCHANGED <<next_asset_index, assets, reserves, strategies, now, published>>
  BY DEF initialize_protocol, admin_propose_authority, authority_accept_admin,
         admin_set_operating_mode, registered, oracle
<1>3. AssetsOK' /\ AssetsKept
  BY <1>1, <1>2, AssetsUntouched
<1>4. k # NoKey
  OBVIOUS
<1>5. CASE \E c \in AssetCounts : initialize_protocol(k, c)
  <2>1. RestOK' /\ HandedOver
    BY <1>1, <1>2, <1>4, <1>5
    DEF initialize_protocol, RestOK, PendingIsProposed, Initialized, HandedOver
  <2> QED  BY <1>3, <2>1, IInvInTwoNext DEF StepOK
<1>6. CASE \E n \in Keys \cup {NoKey} : admin_propose_authority(k, n)
  <2>1. RestOK' /\ HandedOver
    BY <1>1, <1>2, <1>4, <1>6
    DEF admin_propose_authority, RestOK, PendingIsProposed, Initialized, HandedOver
  <2> QED  BY <1>3, <2>1, IInvInTwoNext DEF StepOK
<1>7. CASE authority_accept_admin(k)
  <2>1. RestOK' /\ HandedOver
    BY <1>1, <1>2, <1>4, <1>7
    DEF authority_accept_admin, RestOK, PendingIsProposed, Initialized, HandedOver
  <2> QED  BY <1>3, <2>1, IInvInTwoNext DEF StepOK
<1>8. CASE \E o \in Modes : admin_set_operating_mode(k, o)
  <2>1. RestOK' /\ HandedOver
    BY <1>1, <1>2, <1>8
    DEF admin_set_operating_mode, RestOK, PendingIsProposed, HandedOver
  <2> QED  BY <1>3, <2>1, IInvInTwoNext DEF StepOK
<1> QED  BY <1>5, <1>6, <1>7, <1>8

\* The administrator's steps on assets, reserves and strategies.
LEMMA AssetStepOK ==
  ASSUME IInv, NEW k \in Keys, AssetStep(k)
  PROVE  StepOK
<1>1. AssetsOK /\ RestOK /\ TypeOK
  BY IInvInTwo DEF IInv
<1>2. PICK m \in Mints :
        \/ \E r \in RiskChoices, l \in LimitChoices :
              \/ \E f \in Feeds : admin_register_asset(k, m, f, r, l)
              \/ admin_update_asset_config(k, m, r, l)
        \/ admin_initialize_reserve(k, m)
        \/ admin_register_lite_strategy(k, m)
  BY DEF AssetStep
<1>3. UNCHANGED <<oracle, protocol, proposal>>
  BY <1>2 DEF admin_register_asset, admin_update_asset_config, admin_initialize_reserve,
              admin_register_lite_strategy
<1>4. AssetsOK' /\ AssetsKept /\ next_asset_index' \in 0..(IndexLimit - 1)
  <2>1. ASSUME NEW r \in RiskChoices, NEW l \in LimitChoices, NEW f \in Feeds,
               admin_register_asset(k, m, f, r, l)
        PROVE  AssetsOK' /\ AssetsKept /\ next_asset_index' \in 0..(IndexLimit - 1)
    BY <1>1, <2>1, RegisterKeepsAssets
  <2>2. ASSUME NEW r \in RiskChoices, NEW l \in LimitChoices,
               admin_update_asset_config(k, m, r, l)
        PROVE  AssetsOK' /\ AssetsKept /\ next_asset_index' \in 0..(IndexLimit - 1)
    BY <1>1, <2>2, UpdateKeepsAssets DEF admin_update_asset_config, RestOK
  <2>3. ASSUME admin_initialize_reserve(k, m)
        PROVE  AssetsOK' /\ AssetsKept /\ next_asset_index' \in 0..(IndexLimit - 1)
    BY <1>1, <2>3, ReserveKeepsAssets DEF admin_initialize_reserve, RestOK
  <2>4. ASSUME admin_register_lite_strategy(k, m)
        PROVE  AssetsOK' /\ AssetsKept /\ next_asset_index' \in 0..(IndexLimit - 1)
    BY <1>1, <2>4, AssetsUntouched DEF admin_register_lite_strategy, RestOK
  <2> QED  BY <1>2, <2>1, <2>2, <2>3, <2>4
<1>5. reserves' \subseteq DOMAIN assets' /\ strategies' \subseteq DOMAIN assets'
  <2>1. \A n \in DOMAIN assets : n \in DOMAIN assets'
    BY <1>4 DEF AssetsKept
  <2>2. reserves' \subseteq DOMAIN assets /\ strategies' \subseteq DOMAIN assets
    BY <1>1, <1>2 DEF RestOK, admin_register_asset, admin_update_asset_config,
                      admin_initialize_reserve, admin_register_lite_strategy
  <2> QED  BY <2>1, <2>2
<1>6. RestOK' /\ HandedOver
  BY <1>1, <1>3, <1>4, <1>5 DEF RestOK, HandedOver, PendingIsProposed, oracle, protocol
<1> QED  BY <1>4, <1>6, IInvInTwoNext DEF StepOK

\* Feeds and clock leave the protocol alone.
LEMMA OracleStepOK ==
  ASSUME IInv, OracleStep
  PROVE  StepOK
<1>1. AssetsOK /\ RestOK
  BY IInvInTwo
<1>2. UNCHANGED <<protocol, registered, proposal>>
  BY DEF OracleStep
<1>3. AssetsOK' /\ AssetsKept
  BY <1>1, <1>2, AssetsUntouched DEF registered
<1>4. now' \in Nat /\ published' \subseteq Updates
  <2>1. CASE Tick
    BY <1>1, <2>1 DEF Tick, RestOK
  <2>2. ASSUME NEW f \in Feeds, NEW q \in Quotes, Publish(f, q)
        PROVE  now' \in Nat /\ published' \subseteq Updates
    <3>1. [feed |-> f, price |-> q.price, conf |-> q.conf, publish_time |-> now] \in Updates
      BY <1>1 DEF RestOK, Updates
    <3> QED  BY <1>1, <2>2, <3>1 DEF Publish, RestOK
  <2> QED  BY <2>1, <2>2 DEF OracleStep
<1>5. RestOK' /\ HandedOver
  BY <1>1, <1>2, <1>4 DEF RestOK, HandedOver, PendingIsProposed, protocol, registered
<1> QED  BY <1>3, <1>5, IInvInTwoNext DEF StepOK

\* Before it is initialised, the protocol has neither assets nor an administrator.
LEMMA InitEstablishes == Init => IInv
BY DEF Init, OracleInit, IInv, TypeOK, IndexesIdentifyAssets, IndexesBelowNext, Validated,
       PendingIsProposed, Updates

\* One step of the specification, stuttering included.
LEMMA EveryStep ==
  ASSUME IInv, [Next]_vars
  PROVE  StepOK
<1>1. CASE OracleStep
  BY <1>1, OracleStepOK
<1>2. ASSUME NEW k \in Keys, AdminStep(k)
      PROVE  StepOK
  BY <1>2, AuthorityStep, AssetStepOK DEF AdminStep
<1>3. CASE UNCHANGED vars
  <2>1. AssetsOK /\ RestOK
    BY IInvInTwo
  <2>2. AssetsOK' /\ AssetsKept
    BY <1>3, <2>1, AssetsUntouched DEF vars, registered
  <2>3. RestOK' /\ HandedOver
    BY <1>3, <2>1 DEF vars, registered, protocol, oracle, RestOK, HandedOver, PendingIsProposed
  <2> QED  BY <2>2, <2>3, IInvInTwoNext DEF StepOK
<1> QED  BY <1>1, <1>2, <1>3 DEF Next

\* IInv is an invariant, and every step is OK.
LEMMA Always == Spec => []IInv
<1>1. Init => IInv
  BY InitEstablishes
<1>2. IInv /\ [Next]_vars => IInv'
  BY EveryStep DEF StepOK
<1> QED  BY <1>1, <1>2, PTL DEF Spec

-----------------------------------------------------------------------------
(* Theorems *)

\* Every variable keeps its kind, and a margin account is never allowed more
\* assets than its arrays hold (initialize_protocol).
THEOREM GovernanceTypeCorrect == Spec => []TypeOK
<1>1. IInv => TypeOK
  BY DEF IInv
<1> QED  BY <1>1, Always, PTL

\* No two assets share an index and none has that of the empty slot, however
\* many are registered (admin_register_asset).
THEOREM IndexesAlwaysIdentify == Spec => []IndexesIdentifyAssets
<1>1. IInv => IndexesIdentifyAssets
  BY DEF IInv
<1> QED  BY <1>1, Always, PTL

\* What validate_risk_parameters asks is enough for every collateral value.
LEMMA ValidatedIsCovered ==
  ASSUME NEW v \in Nat, NEW threshold \in Nat, NEW bonus \in Nat,
         threshold * (BasisPoints + bonus) <= BasisPoints * BasisPoints
  PROVE  (((v * threshold) \div BasisPoints) * (BasisPoints + bonus)) \div BasisPoints <= v
<1> DEFINE debt == (v * threshold) \div BasisPoints
           share == BasisPoints + bonus
<1>1. BasisPoints \in Nat /\ BasisPoints > 0 /\ share \in Nat /\ v * threshold \in Nat
  OBVIOUS
<1>2. debt \in Nat /\ debt * BasisPoints <= v * threshold
  BY <1>1
<1>3. threshold * share <= BasisPoints * BasisPoints
  OBVIOUS
<1> HIDE DEF debt, share
<1>4. debt * BasisPoints * share <= v * threshold * share
  BY <1>1, <1>2
<1>5. v * (threshold * share) <= v * (BasisPoints * BasisPoints)
  BY <1>1, <1>3
<1>6. (debt * share) * BasisPoints <= (v * BasisPoints) * BasisPoints
  BY <1>1, <1>2, <1>4, <1>5
<1>7. debt * share <= v * BasisPoints
  BY <1>1, <1>2, <1>6
<1>8. (debt * share) \div BasisPoints <= v
  BY <1>1, <1>2, <1>7
<1> QED  BY <1>8 DEF debt, share

\* Every configuration there can be leaves room for the bonus: seizing what a
\* debt at the threshold is worth takes no more than the collateral
\* (validate_risk_parameters, at registration and at every update).
THEOREM SeizureAlwaysCovered == Spec => []SeizureCovered
<1>1. IInv => SeizureCovered
  <2> SUFFICES ASSUME IInv, NEW m \in DOMAIN assets, NEW v \in Values
               PROVE  (((v * assets[m].liquidation_threshold_bps) \div BasisPoints)
                         * (BasisPoints + assets[m].liquidation_bonus_bps)) \div BasisPoints <= v
    BY DEF SeizureCovered
  <2>1. /\ assets[m].liquidation_threshold_bps \in Nat
        /\ assets[m].liquidation_bonus_bps \in Nat
    BY DEF IInv, TypeOK, AssetConfigs
  <2>2. assets[m].liquidation_threshold_bps * (BasisPoints + assets[m].liquidation_bonus_bps)
          <= BasisPoints * BasisPoints
    BY DEF IInv, Validated, validate_risk_parameters
  <2> QED  BY <2>1, <2>2, ValidatedIsCovered
<1> QED  BY <1>1, Always, PTL

\* An asset keeps its index, its feed and its reserve for ever
\* (admin_update_asset_config, admin_initialize_reserve).
THEOREM AssetsAlwaysKeepIdentity == Spec => AssetsKeepIdentity
<1>1. IInv /\ [Next]_vars => [AssetsKept]_vars
  BY EveryStep DEF StepOK
<1>2. [][AssetsKept]_vars => AssetsKeepIdentity
  BY PTL DEF AssetsKept, AssetsKeepIdentity
<1> QED  BY <1>1, <1>2, Always, PTL DEF Spec

\* The protocol goes from the administrator in office to the key it proposed
\* last, whatever proposals came before (authority_accept_admin).
THEOREM AlwaysHandedOverAsProposed == Spec => HandedOverAsProposed
<1>1. IInv /\ [Next]_vars => [HandedOver]_vars
  BY EveryStep DEF StepOK
<1>2. [][HandedOver]_vars => HandedOverAsProposed
  BY PTL DEF HandedOver, HandedOverAsProposed
<1> QED  BY <1>1, <1>2, Always, PTL DEF Spec

\* Time and the updates only grow.
LEMMA TimeGoesOn ==
  ASSUME TypeOK, [Next]_vars
  PROVE  now' \in Nat /\ now' >= now
<1>1. now \in Nat
  BY DEF TypeOK
<1>2. now' = now \/ now' = now + 1
  BY DEF Next, OracleStep, Tick, Publish, AdminStep, AssetStep, initialize_protocol,
         admin_propose_authority, authority_accept_admin, admin_set_operating_mode,
         admin_register_asset, admin_update_asset_config, admin_initialize_reserve,
         admin_register_lite_strategy, oracle, vars
<1> QED  BY <1>1, <1>2

\* What a step may do to the prices that can be used.
Refused ==
  \A m \in DOMAIN assets : assets'[m] = assets[m] => Usable(m)' \cap published \subseteq Usable(m)

\* A price that was too old, too uncertain or of another feed is never taken
\* again while the limits of the asset stay (load_validated_price).
THEOREM AlwaysRefusedForGood == Spec => RefusedForGood
<1>1. TypeOK /\ [Next]_vars => Refused
  <2> SUFFICES ASSUME TypeOK, [Next]_vars, NEW m \in DOMAIN assets, assets'[m] = assets[m],
                      NEW u \in published, load_validated_price(assets[m], u)'
               PROVE  load_validated_price(assets[m], u)
    BY DEF Refused, Usable
  <2>1. /\ now \in Nat /\ u.publish_time \in Nat /\ assets[m].max_price_age_secs \in Nat
    BY DEF TypeOK, Updates, AssetConfigs
  <2>2. now' \in Nat /\ now' >= now
    BY TimeGoesOn
  <2> QED  BY <2>1, <2>2 DEF load_validated_price, Fresh, Confident
<1>2. IInv => TypeOK
  BY DEF IInv
<1>3. [][Refused]_vars => RefusedForGood
  BY PTL DEF Refused, RefusedForGood
<1>4. IInv /\ [Next]_vars => [Refused]_vars
  BY <1>1, <1>2
<1> QED  BY <1>3, <1>4, Always, PTL DEF Spec
=============================================================================
