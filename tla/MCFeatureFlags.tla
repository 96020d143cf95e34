---------------------------- MODULE MCFeatureFlags ----------------------------
(***************************************************************************)
(* Two publishers that may choose the same revision.                       *)
(***************************************************************************)
EXTENDS FeatureFlags
=============================================================================
