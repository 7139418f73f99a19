------------------------------ MODULE MarginSets ------------------------------
(***************************************************************************)
(* What a margin account promises to remember, whatever bytes it keeps it  *)
(* in: which assets it holds as collateral, which it owes, and for which   *)
(* it has an indexed Lite position.  Each is a set of at most MaxAssets    *)
(* asset indexes.  MarginRegistry implements this.                         *)
(***************************************************************************)
EXTENDS Naturals, FiniteSets

CONSTANTS
  Indexes,   \* the asset indexes the administrator has handed out
  MaxAssets  \* MAX_ASSETS (24)

VARIABLES collateral, debt, lite

vars == <<collateral, debt, lite>>

Room(set) == Cardinality(set) < MaxAssets

Init == collateral = {} /\ debt = {} /\ lite = {}

AddCollateral(i) ==
  /\ i \notin collateral
  /\ Room(collateral)
  /\ collateral' = collateral \cup {i}
  /\ UNCHANGED <<debt, lite>>

RemoveCollateral(i) ==
  /\ i \in collateral
  /\ collateral' = collateral \ {i}
  /\ UNCHANGED <<debt, lite>>

AddDebt(i) ==
  /\ i \notin debt
  /\ Room(debt)
  /\ debt' = debt \cup {i}
  /\ UNCHANGED <<collateral, lite>>

RemoveDebt(i) ==
  /\ i \in debt
  /\ debt' = debt \ {i}
  /\ UNCHANGED <<collateral, lite>>

AddLite(i) ==
  /\ i \notin lite
  /\ Room(lite)
  /\ lite' = lite \cup {i}
  /\ UNCHANGED <<collateral, debt>>

RemoveLite(i) ==
  /\ i \in lite
  /\ lite' = lite \ {i}
  /\ UNCHANGED <<collateral, debt>>

Next ==
  \E i \in Indexes :
    \/ AddCollateral(i) \/ RemoveCollateral(i)
    \/ AddDebt(i)       \/ RemoveDebt(i)
    \/ AddLite(i)       \/ RemoveLite(i)

Spec == Init /\ [][Next]_vars
=============================================================================
