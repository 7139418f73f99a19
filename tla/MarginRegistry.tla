---------------------------- MODULE MarginRegistry ----------------------------
(***************************************************************************)
(* state/margin_account.rs: how a margin account remembers its assets.     *)
(*                                                                         *)
(* Active collateral and active debts are two arrays of slots, each with a *)
(* count kept beside it; a slot that is not in use holds Empty and may be  *)
(* anywhere in the array.  The Lite registry is packed into `reserved`: a  *)
(* count byte and that many indexes, without gaps.  Every instruction on a *)
(* margin account goes through these operations, in any order.             *)
(***************************************************************************)
EXTENDS Naturals, FiniteSets, Sequences

CONSTANTS
  Indexes,   \* the asset indexes the administrator has handed out
  Empty,     \* EMPTY_ASSET_INDEX, which is never handed out
  MaxAssets  \* MAX_ASSETS (24)

ASSUME MarginRegistryAssumption ==
  /\ Empty \notin Indexes
  /\ MaxAssets \in Nat \ {0}

VARIABLES
  collateral,    \* collateral_asset_indexes and collateral_count
  debt,          \* debt_asset_indexes and debt_count
  lite_indexes   \* the packed registry: its length is the count byte

vars == <<collateral, debt, lite_indexes>>

Slots == 1..MaxAssets

Arrays == [slots : [Slots -> Indexes \cup {Empty}], count : Nat]

EmptyArray == [slots |-> [k \in Slots |-> Empty], count |-> 0]

\* The slots of array `a` that hold `i`; `find` takes the first of them.
Holding(a, i) == {k \in Slots : a.slots[k] = i}
FirstOf(ks) == CHOOSE k \in ks : \A j \in ks : k <= j

ActiveIn(a) == {i \in Indexes : Holding(a, i) # {}}
Filled(a) == {k \in Slots : a.slots[k] # Empty}
Listed(seq) == {seq[k] : k \in 1..Len(seq)}

-----------------------------------------------------------------------------
(* The arrays.  The two pairs of functions of the source are one here. *)

CanAdd(a, i) ==
  /\ Holding(a, i) = {}
  /\ Holding(a, Empty) # {}

\* (faulty) appends behind the count instead of looking for an empty slot
AddedAtCount(a, i) ==
  [slots |-> [a.slots EXCEPT ![(a.count % MaxAssets) + 1] = i], count |-> a.count + 1]

Added(a, i) ==
  [slots |-> [a.slots EXCEPT ![FirstOf(Holding(a, Empty))] = i], count |-> a.count + 1]

CanRemove(a, i) == Holding(a, i) # {}

Removed(a, i) ==
  [slots |-> [a.slots EXCEPT ![FirstOf(Holding(a, i))] = Empty], count |-> a.count - 1]

(* The packed registry. *)

\* What `lite_indexes` demands of the bytes before anything reads them.
LiteReadable ==
  /\ Len(lite_indexes) <= MaxAssets
  /\ \A j, k \in 1..Len(lite_indexes) : lite_indexes[j] = lite_indexes[k] => j = k

\* The registry without the index at k: those behind it move up.
Without(seq, k) == [j \in 1..(Len(seq) - 1) |-> IF j < k THEN seq[j] ELSE seq[j + 1]]

-----------------------------------------------------------------------------
Init ==
  /\ collateral = EmptyArray
  /\ debt = EmptyArray
  /\ lite_indexes = <<>>

add_active_collateral(i) ==
  /\ CanAdd(collateral, i)
  /\ collateral' = Added(collateral, i)
  /\ UNCHANGED <<debt, lite_indexes>>

remove_active_collateral(i) ==
  /\ CanRemove(collateral, i)
  /\ collateral' = Removed(collateral, i)
  /\ UNCHANGED <<debt, lite_indexes>>

add_active_debt(i) ==
  /\ CanAdd(debt, i)
  /\ debt' = Added(debt, i)
  /\ UNCHANGED <<collateral, lite_indexes>>

remove_active_debt(i) ==
  /\ CanRemove(debt, i)
  /\ debt' = Removed(debt, i)
  /\ UNCHANGED <<collateral, lite_indexes>>

\* (faulty) registers an index again
RegisterTwice(i) ==
  /\ LiteReadable
  /\ Len(lite_indexes) < MaxAssets
  /\ lite_indexes' = Append(lite_indexes, i)
  /\ UNCHANGED <<collateral, debt>>

\* An index that is registered already is left where it is.
register_lite(i) ==
  /\ LiteReadable
  /\ i \notin Listed(lite_indexes)
  /\ Len(lite_indexes) < MaxAssets
  /\ lite_indexes' = Append(lite_indexes, i)
  /\ UNCHANGED <<collateral, debt>>

unregister_lite(i) ==
  /\ LiteReadable
  /\ \E k \in 1..Len(lite_indexes) :
       /\ lite_indexes[k] = i
       /\ lite_indexes' = Without(lite_indexes, k)
  /\ UNCHANGED <<collateral, debt>>

\* (faulty) does not look at the Lite registry
EmptyButForLite == collateral.count = 0 /\ debt.count = 0

is_empty ==
  /\ collateral.count = 0
  /\ debt.count = 0
  /\ Len(lite_indexes) = 0

\* user_close_margin, and user_create_margin by the same wallet later on.
CloseAndCreate ==
  /\ is_empty
  /\ collateral' = EmptyArray
  /\ debt' = EmptyArray
  /\ lite_indexes' = <<>>

Next ==
  \/ \E i \in Indexes :
       \/ add_active_collateral(i) \/ remove_active_collateral(i)
       \/ add_active_debt(i)       \/ remove_active_debt(i)
       \/ register_lite(i)         \/ unregister_lite(i)
  \/ CloseAndCreate

Spec == Init /\ [][Next]_vars

-----------------------------------------------------------------------------
\* The arrays hold indexes or Empty, the packed registry holds indexes.
TypeOK ==
  /\ collateral \in Arrays
  /\ debt \in Arrays
  /\ lite_indexes \in Seq(Indexes)

Faithful(a) ==
  /\ a.count = Cardinality(Filled(a))
  /\ \A j, k \in Filled(a) : a.slots[j] = a.slots[k] => j = k

\* The counts that is_empty and the asset limit rely on are the numbers of
\* slots in use, and no asset takes two slots: an asset that was listed twice
\* would be valued twice by the health check and stay behind when removed.
CountsMatchSlots == Faithful(collateral) /\ Faithful(debt)

\* The registry can always be read back (lite_indexes would fail otherwise, and
\* with it every health check, withdrawal and liquidation of the account).
LiteAlwaysReadable == LiteReadable

\* The arrays and the packed bytes are sets of asset indexes to everybody who
\* uses them; closing the account, which looks at the counts only, never
\* discards a member.
Sets == INSTANCE MarginSets WITH collateral <- ActiveIn(collateral),
                                 debt       <- ActiveIn(debt),
                                 lite       <- Listed(lite_indexes)

ImplementsSets == Sets!Spec
=============================================================================
