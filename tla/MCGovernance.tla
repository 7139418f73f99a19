----------------------------- MODULE MCGovernance -----------------------------
(***************************************************************************)
(* Governance with three mints for two indexes, and one feed for all of    *)
(* them.                                                                   *)
(***************************************************************************)
EXTENDS Governance

Risk(ltv, threshold, bonus) ==
  [ltv_bps |-> ltv, liquidation_threshold_bps |-> threshold, liquidation_bonus_bps |-> bonus]
Limits(conf, age) == [max_confidence_bps |-> conf, max_price_age_secs |-> age]
Quote(price, conf) == [price |-> price, conf |-> conf]

\* At the limit of what is accepted, beyond it in the bonus, and without room
\* between the two ratios.
Risks == {Risk(70, 80, 25), Risk(70, 80, 26), Risk(80, 80, 0)}

\* Wide and patient, or strict.
TwoLimits == {Limits(20, 1), Limits(5, 0)}

\* Certain, uncertain by a tenth, and not a price.
ThreeQuotes == {Quote(10, 0), Quote(10, 1), Quote(0, 0)}

\* The clock outlives every price.
ASSUME MCSilence == \A l \in TwoLimits : LastPublish + l.max_price_age_secs < MaxTime
=============================================================================
