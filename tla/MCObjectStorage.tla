---------------------------- MODULE MCObjectStorage ---------------------------
(***************************************************************************)
(* A key and one below it, two requests at a time: enough for two uploads  *)
(* of a key to meet, or for a download to see one object go and another    *)
(* come.                                                                   *)
(***************************************************************************)
EXTENDS ObjectStorage, TLC

CONSTANTS outer, inner

MCKeys == {outer, inner}
MCAbove == [k \in MCKeys |-> IF k = inner THEN outer ELSE Root]
MCUploads == 1..2
MCLengths == {1, 2}
MCLimits == {1}
MCSymmetry == Permutations(Requests)
=============================================================================
