--------------------------- MODULE MCMarginRegistry ---------------------------
(***************************************************************************)
(* MarginRegistry with fewer slots than assets, so that arrays fill up and *)
(* gaps open in every place.                                               *)
(***************************************************************************)
EXTENDS MarginRegistry, TLC

Symmetric == Permutations(Indexes)
=============================================================================
