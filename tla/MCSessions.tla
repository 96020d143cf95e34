------------------------------ MODULE MCSessions ------------------------------
(***************************************************************************)
(* One browser with concurrent requests, over a time long enough for two   *)
(* rotations of a session.                                                 *)
(***************************************************************************)
EXTENDS Sessions, TLC

MCSlots == 1..2
MCSessionIds == 1..2
MCTokens == 1..5
MCHashes == 101..105
MCHashOf == [t \in MCTokens |-> 206 - 100 - t]
=============================================================================
