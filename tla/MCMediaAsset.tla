----------------------------- MODULE MCMediaAsset -----------------------------
(* Instances of MediaAsset for TLC. *)
EXTENDS MediaAsset, TLC

Symmetry == Permutations(Uploads) \union Permutations(Assets)
==============================================================================
