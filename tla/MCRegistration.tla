---------------------------- MODULE MCRegistration ----------------------------
(***************************************************************************)
(* One email and two Google identities, with two requests at a time:       *)
(* enough to register it, ask for two more codes at once and verify it,    *)
(* and for both identities to come into its account at once.               *)
(***************************************************************************)
EXTENDS Registration

MCChallengeIds == 1..3
=============================================================================
