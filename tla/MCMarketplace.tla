--------------------------- MODULE MCMarketplace ---------------------------
(***************************************************************************)
(* Symmetries of the model-checked instances of Marketplace.               *)
(***************************************************************************)
EXTENDS Marketplace, TLC

PurchaseSymmetry ==
  Permutations(Proc) \cup Permutations(Key) \cup Permutations(ReplayKey)
    \cup Permutations(Approval)
=============================================================================
