----------------------------- MODULE ObjectStore ------------------------------
(***************************************************************************)
(* What a create-only object storage promises                              *)
(* (apps/server/src/infrastructure/object-storage/object-storage.ts): at   *)
(* every moment a key holds one whole upload or nothing; an upload appears *)
(* at a free key in one step, is never replaced, and goes in one step.     *)
(***************************************************************************)
CONSTANTS Keys, Uploads, None

VARIABLE store            \* the upload each key holds, or None

Init == store = [k \in Keys |-> None]

Create(k, u) ==
    /\ store[k] = None
    /\ store' = [store EXCEPT ![k] = u]

Remove(k) ==
    /\ store[k] # None
    /\ store' = [store EXCEPT ![k] = None]

Next == \E k \in Keys : Remove(k) \/ \E u \in Uploads : Create(k, u)

Spec == Init /\ [][Next]_store
=============================================================================
