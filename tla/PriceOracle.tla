------------------------------ MODULE PriceOracle ------------------------------
(***************************************************************************)
(* oracle/pyth.rs: which price updates an instruction may use.             *)
(*                                                                         *)
(* Pyth is external.  Its feeds publish signed prices; anybody may post any *)
(* of them, late or out of order, to an account of the receiver program,   *)
(* and the caller of an instruction chooses the account.  So the program   *)
(* does not see the latest price but some published one, and all that      *)
(* protects it is what load_validated_price asks of it.                    *)
(***************************************************************************)
EXTENDS Integers

CONSTANTS
  Feeds,        \* identifiers of the feeds
  Quotes,       \* [price, conf] pairs a feed may publish
  BasisPoints,  \* 10 000
  LastPublish,  \* bound: the feeds are silent after this time
  MaxTime       \* bound: the clock stops here

VARIABLES
  now,          \* the clock sysvar
  published     \* the updates that exist

ASSUME OracleAssumption ==
  /\ Quotes \subseteq [price : Int, conf : Nat]
  /\ BasisPoints \in Nat \ {0}
  /\ LastPublish \in Nat /\ MaxTime \in Nat

Updates == [feed : Feeds, price : Int, conf : Nat, publish_time : Nat]

Fresh(update, age) == update.publish_time + age >= now

\* The uncertainty is no larger than max_bps of the price, rounded down.
Confident(update, max_bps) ==
  update.conf > 0 => (update.conf * BasisPoints) \div update.price <= max_bps

\* (faulty) has the age limit the wrong way round
LoadWhenOld(asset, update) ==
  /\ update.publish_time + asset.max_price_age_secs <= now
  /\ update.feed = asset.price_feed_id
  /\ update.price > 0
  /\ Confident(update, asset.max_confidence_bps)

\* (faulty) takes updates of any age
LoadUnchecked(asset, update) ==
  /\ update.feed = asset.price_feed_id
  /\ update.price > 0
  /\ Confident(update, asset.max_confidence_bps)

\* An update is good for an asset: not too old, of its feed, positive, certain.
load_validated_price(asset, update) ==
  /\ Fresh(update, asset.max_price_age_secs)
  /\ update.feed = asset.price_feed_id
  /\ update.price > 0
  /\ Confident(update, asset.max_confidence_bps)

-----------------------------------------------------------------------------
OracleInit == now = 0 /\ published = {}

\* A feed publishes once a second, if at all.
Publish(f, q) ==
  /\ now <= LastPublish
  /\ \A u \in published : u.feed = f => u.publish_time < now
  /\ published' = published \cup {[feed |-> f, price |-> q.price, conf |-> q.conf, publish_time |-> now]}
  /\ UNCHANGED now

Tick ==
  /\ now < MaxTime
  /\ now' = now + 1
  /\ UNCHANGED published
=============================================================================
