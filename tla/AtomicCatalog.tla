---------------------------- MODULE AtomicCatalog ----------------------------
(***************************************************************************)
(* What the edge operations of the study catalog promise to concurrent     *)
(* administrators: each one that succeeds takes effect in one step, with   *)
(* the effect it would have had running alone on the table at that moment, *)
(* and only when its endpoints fit its kind and its triple is new.         *)
(* Failed operations leave no trace.  StudyEdges implements this           *)
(* specification with row locks and re-reads.                              *)
(***************************************************************************)
EXTENDS EdgeOrder

CONSTANT InitialEdges

VARIABLE edges

Init == edges = InitialEdges

Create(e, kind, from, to, requested) ==
    /\ e \notin DOMAIN edges
    /\ EndpointsExist(from, to)
    /\ ~KindMismatch(kind, from, to)
    /\ ~Duplicate(edges, kind, from, to, e)
    /\ edges' = Inserted(edges, e, kind, from, to, requested,
                         Siblings(edges, from, kind))

Update(e, from, to, requested) ==
    /\ e \in DOMAIN edges
    /\ EndpointsExist(from, to)
    /\ ~KindMismatch(edges[e].kind, from, to)
    /\ ~Duplicate(edges, edges[e].kind, from, to, e)
    /\ LET old == Siblings(edges, edges[e].from, edges[e].kind)
       IN  edges' = Moved(edges, e, from, to, requested, old,
                          InsertionGroup(edges, e, from, old))

Remove(e) ==
    /\ e \in DOMAIN edges
    /\ edges' = Removed(edges, e,
                        Without(Siblings(edges, edges[e].from, edges[e].kind), e))

Next ==
    \E e \in EdgeIds :
        \/ Remove(e)
        \/ \E from, to \in NodeIds, requested \in Positions :
              \/ Update(e, from, to, requested)
              \/ \E kind \in EdgeKinds : Create(e, kind, from, to, requested)

Spec == Init /\ [][Next]_edges
=============================================================================
