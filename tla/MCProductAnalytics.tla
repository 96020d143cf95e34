-------------------------- MODULE MCProductAnalytics --------------------------
(***************************************************************************)
(* Two batches over a queue for one, three events written in chunks of two *)
(* and one retry.                                                          *)
(***************************************************************************)
EXTENDS ProductAnalytics

MCBatches == 1..2
MCEvents == 1..3
MCEventsOf == <<{1}, {2, 3}>>
=============================================================================
