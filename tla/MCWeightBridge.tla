---------------------------- MODULE MCWeightBridge ----------------------------
(***************************************************************************)
(* Small instances of WeightBridge for TLC.                                *)
(***************************************************************************)
EXTENDS WeightBridge, TLC

\* Update ids are drawn at random (uuid4) and never compared by order.
UpdateSymmetry == Permutations(Updates)
=============================================================================
