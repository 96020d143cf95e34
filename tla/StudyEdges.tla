------------------------------ MODULE StudyEdges ------------------------------
(***************************************************************************)
(* Concurrent edge operations of the study catalog:                        *)
(* backend-infra/src/modules/study-catalog/repository.drizzle.ts on        *)
(* PostgreSQL at READ COMMITTED, one action per statement (or per run of   *)
(* statements under the same locks).                                       *)
(*                                                                         *)
(* An operation locks the node rows of its sources in id order (FOR        *)
(* UPDATE), then its edge row, checks its endpoints, reads the siblings    *)
(* and writes.  The sources to lock come from a read without a lock: when  *)
(* the edge has moved meanwhile the attempt commits nothing and the        *)
(* operation starts again.  Any failure rolls the transaction back.        *)
(***************************************************************************)
EXTENDS EdgeOrder, TLC

CONSTANTS Clients,       \* requests being served at a time
          Free,          \* holder of a lock nobody holds
          Requests,      \* requests the administrators may send
          MaxRequests,   \* bound on the requests of a behaviour
          InitialEdges   \* the table at the start

Ops == {"create", "update", "remove"}

Request == [op: Ops, edge: EdgeIds, kind: EdgeKinds,
            from: NodeIds, to: NodeIds, position: Positions]

\* Every row has an id of its own, its kind fits its endpoints, and no two
\* rows share a triple: the foreign keys and the unique index.
Consistent(t) ==
    \A i \in DOMAIN t :
        /\ ~KindMismatch(t[i].kind, t[i].from, t[i].to)
        /\ ~Duplicate(t, t[i].kind, t[i].from, t[i].to, i)

ASSUME EdgesAssumption ==
    /\ Free \notin Clients
    /\ Requests \subseteq Request
    /\ Requests # {}
    /\ MaxRequests \in Nat
    /\ IsTable(InitialEdges)
    /\ Consistent(InitialEdges)

VARIABLES edges,     \* committed rows of study_edges
          nodeLock,  \* holder of each study_nodes row lock
          edgeLock,  \* holder of each study_edges row lock
          minted,    \* ids handed out by randomUUIDv4, which never repeats one
          issued,    \* requests sent so far
          tx,        \* the transaction of each client
          old, new   \* sibling rows it has read: of the group the edge
                     \* leaves and of the group it joins

vars == <<edges, nodeLock, edgeLock, minted, issued, tx, old, new>>
reads == <<old, new>>

Phases == {"idle", "observe", "lock", "recheck", "validate", "siblings", "write"}

\* Locals of a transaction: the source read without a lock and the sources
\* still to lock.
Idle == [phase    |-> "idle",
         req      |-> CHOOSE r \in Requests : TRUE,
         observed |-> (CHOOSE r \in Requests : TRUE).from,
         pending  |-> {}]

NoRows == [i \in {} |-> 0]

Init ==
    /\ edges = InitialEdges
    /\ nodeLock = [n \in Nodes |-> Free]
    /\ edgeLock = [e \in EdgeIds |-> Free]
    /\ minted = DOMAIN InitialEdges
    /\ issued = 0
    /\ tx = [c \in Clients |-> Idle]
    /\ old = [c \in Clients |-> NoRows]
    /\ new = [c \in Clients |-> NoRows]

-----------------------------------------------------------------------------

Phase(c) == tx[c].phase
Op(c)    == tx[c].req.op
Target(c) == tx[c].req.edge

\* End of the transaction, committed or rolled back: its locks are gone.
Release(c) ==
    /\ nodeLock' = [n \in Nodes |-> IF nodeLock[n] = c THEN Free ELSE nodeLock[n]]
    /\ edgeLock' = [e \in EdgeIds |-> IF edgeLock[e] = c THEN Free ELSE edgeLock[e]]

\* The operation answers its caller.
Finish(c) ==
    /\ Release(c)
    /\ tx' = [tx EXCEPT ![c] = Idle]
    /\ old' = [old EXCEPT ![c] = NoRows]
    /\ new' = [new EXCEPT ![c] = NoRows]

\* A request without an edge locks its source; the others look at it first.
Submit(c, r) ==
    /\ Phase(c) = "idle"
    /\ issued < MaxRequests
    /\ issued' = issued + 1
    /\ IF r.op = "create"
       THEN /\ r.edge \notin minted
            /\ minted' = minted \cup {r.edge}
            /\ tx' = [tx EXCEPT ![c] =
                        [Idle EXCEPT !.phase = IF r.from \in Nodes
                                               THEN "lock" ELSE "validate",
                                     !.req = r,
                                     !.pending = {r.from} \cap Nodes]]
       ELSE /\ UNCHANGED minted
            /\ tx' = [tx EXCEPT ![c] = [Idle EXCEPT !.phase = "observe", !.req = r]]
    /\ UNCHANGED <<edges, nodeLock, edgeLock, reads>>

\* Seeded defect: the source an edge moves to is not locked.
SourcesToLockOldOnly(req, source) == {source}

\* Locks taken by an attempt: both sources of a move, the source of a removal.
SourcesToLock(req, source) ==
    IF req.op = "update" THEN {source, req.from} \cap Nodes ELSE {source}

ObserveMissing(c) ==
    /\ Phase(c) = "observe"
    /\ Target(c) \notin DOMAIN edges
    /\ Finish(c)
    /\ UNCHANGED <<edges, minted, issued>>

Observe(c) ==
    /\ Phase(c) = "observe"
    /\ Target(c) \in DOMAIN edges
    /\ LET source == edges[Target(c)].from
       IN  tx' = [tx EXCEPT ![c].phase = "lock",
                            ![c].observed = source,
                            ![c].pending = SourcesToLock(tx[c].req, source)]
    /\ UNCHANGED <<edges, nodeLock, edgeLock, minted, issued, reads>>

\* Seeded defect: the source named by the request first, not in id order.
NextToLockRequestedFirst(c) ==
    IF tx[c].req.from \in tx[c].pending
    THEN tx[c].req.from
    ELSE CHOOSE n \in tx[c].pending : TRUE

\* SELECT ... ORDER BY id FOR UPDATE takes the rows one after the other.
NextToLock(c) == CHOOSE n \in tx[c].pending : \A m \in tx[c].pending : n <= m

LockNode(c) ==
    /\ Phase(c) = "lock"
    /\ LET n == NextToLock(c)
           rest == tx[c].pending \ {n}
       IN  /\ nodeLock[n] = Free
           /\ nodeLock' = [nodeLock EXCEPT ![n] = c]
           /\ tx' = [tx EXCEPT ![c].pending = rest,
                               ![c].phase = IF rest # {} THEN "lock"
                                            ELSE IF Op(c) = "create"
                                                 THEN "validate" ELSE "recheck"]
    /\ UNCHANGED <<edges, edgeLock, minted, issued, reads>>

RecheckMissing(c) ==
    /\ Phase(c) = "recheck"
    /\ Target(c) \notin DOMAIN edges
    /\ Finish(c)
    /\ UNCHANGED <<edges, minted, issued>>

\* Seeded defect: the source is not verified under the locks.
SourceChangedIgnored(c) == FALSE

\* The edge has another source now: commit nothing and start a new attempt.
SourceChanged(c) == edges[Target(c)].from # tx[c].observed

Retry(c) ==
    /\ Phase(c) = "recheck"
    /\ Target(c) \in DOMAIN edges
    /\ edgeLock[Target(c)] = Free
    /\ SourceChanged(c)
    /\ Release(c)
    /\ tx' = [tx EXCEPT ![c] = [Idle EXCEPT !.phase = "observe",
                                            !.req = tx[c].req]]
    /\ UNCHANGED <<edges, minted, issued, reads>>

LockEdge(c) ==
    /\ Phase(c) = "recheck"
    /\ Target(c) \in DOMAIN edges
    /\ edgeLock[Target(c)] = Free
    /\ ~SourceChanged(c)
    /\ edgeLock' = [edgeLock EXCEPT ![Target(c)] = c]
    /\ tx' = [tx EXCEPT ![c].phase = IF Op(c) = "remove"
                                     THEN "siblings" ELSE "validate"]
    /\ UNCHANGED <<edges, nodeLock, minted, issued, reads>>

\* The kind an operation works with: the request's, or the row's own.
KindOf(c) == IF Op(c) = "create" THEN tx[c].req.kind ELSE edges[Target(c)].kind

Acceptable(c) ==
    LET r == tx[c].req
    IN  /\ EndpointsExist(r.from, r.to)
        /\ ~KindMismatch(KindOf(c), r.from, r.to)
        /\ ~Duplicate(edges, KindOf(c), r.from, r.to, r.edge)

Validate(c) ==
    /\ Phase(c) = "validate"
    /\ Acceptable(c)
    /\ tx' = [tx EXCEPT ![c].phase = "siblings"]
    /\ UNCHANGED <<edges, nodeLock, edgeLock, minted, issued, reads>>

\* NotFound, EndpointKindMismatch or AlreadyExists.
Reject(c) ==
    /\ Phase(c) = "validate"
    /\ ~Acceptable(c)
    /\ Finish(c)
    /\ UNCHANGED <<edges, minted, issued>>

\* The rows of the group an edge leaves, and of the group it joins.
OldSiblings(c) ==
    CASE Op(c) = "create" -> NoRows
      [] Op(c) = "update" -> Siblings(edges, edges[Target(c)].from, KindOf(c))
      [] Op(c) = "remove" -> Without(Siblings(edges, edges[Target(c)].from,
                                              KindOf(c)), Target(c))

NewSiblings(c) ==
    CASE Op(c) = "create" -> Siblings(edges, tx[c].req.from, KindOf(c))
      [] Op(c) = "update" -> InsertionGroup(edges, Target(c), tx[c].req.from,
                                            OldSiblings(c))
      [] Op(c) = "remove" -> NoRows

ReadSiblings(c) ==
    /\ Phase(c) = "siblings"
    /\ tx' = [tx EXCEPT ![c].phase = "write"]
    /\ old' = [old EXCEPT ![c] = OldSiblings(c)]
    /\ new' = [new EXCEPT ![c] = NewSiblings(c)]
    /\ UNCHANGED <<edges, nodeLock, edgeLock, minted, issued>>

\* What the UPDATE, INSERT and DELETE statements leave in the table.
Written(c) ==
    LET r == tx[c].req
    IN  CASE Op(c) = "create" -> Inserted(edges, r.edge, r.kind, r.from, r.to,
                                          r.position, new[c])
          [] Op(c) = "update" -> Moved(edges, r.edge, r.from, r.to, r.position,
                                       old[c], new[c])
          [] Op(c) = "remove" -> Removed(edges, r.edge, old[c])

\* Rows the statements touch: each needs its row lock.
RowsToWrite(c) ==
    {i \in DOMAIN edges : i \notin DOMAIN Written(c) \/ Written(c)[i] # edges[i]}

\* A new or changed foreign key takes FOR KEY SHARE on the node it names,
\* which waits for a FOR UPDATE of another transaction.
ForeignKeyNodes(c) ==
    LET r == tx[c].req
    IN  CASE Op(c) = "create" -> {r.from, r.to}
          [] Op(c) = "update" -> {r.from, r.to} \ {edges[Target(c)].to}
          [] Op(c) = "remove" -> {}

NodesHeldByOthers(c) == {n \in ForeignKeyNodes(c) : nodeLock[n] \notin {Free, c}}
RowsHeldByOthers(c)  == {i \in RowsToWrite(c) : edgeLock[i] \notin {Free, c}}

Write(c) ==
    /\ Phase(c) = "write"
    /\ NodesHeldByOthers(c) = {}
    /\ RowsHeldByOthers(c) = {}
    /\ edges' = Written(c)
    /\ Finish(c)
    /\ UNCHANGED <<minted, issued>>

\* A statement fails (lost connection, pool timeout): StudyCatalogRepositoryError.
Fail(c) ==
    /\ Phase(c) # "idle"
    /\ Finish(c)
    /\ UNCHANGED <<edges, minted, issued>>

-----------------------------------------------------------------------------
(* Who waits for whom                                                      *)

Waits(c, d) ==
    /\ c # d
    /\ \/ Phase(c) = "lock" /\ nodeLock[NextToLock(c)] = d
       \/ /\ Phase(c) = "recheck"
          /\ Target(c) \in DOMAIN edges
          /\ edgeLock[Target(c)] = d
       \/ /\ Phase(c) = "write"
          /\ \/ \E n \in NodesHeldByOthers(c) : nodeLock[n] = d
             \/ \E i \in RowsHeldByOthers(c) : edgeLock[i] = d

WaitCycle(S) == S # {} /\ \A c \in S : \E d \in S : Waits(c, d)

\* PostgreSQL's deadlock detector aborts one transaction of a (simplest) cycle.
InDeadlock(c) ==
    /\ \E d \in Clients : Waits(c, d)
    /\ \E S \in SUBSET Clients :
        /\ c \in S
        /\ WaitCycle(S)
        /\ \A T \in SUBSET S : WaitCycle(T) => T = S

BreakDeadlock(c) ==
    /\ InDeadlock(c)
    /\ Finish(c)
    /\ UNCHANGED <<edges, minted, issued>>

Step(c) ==
    \/ ObserveMissing(c) \/ Observe(c) \/ LockNode(c)
    \/ RecheckMissing(c) \/ Retry(c) \/ LockEdge(c)
    \/ Validate(c) \/ Reject(c) \/ ReadSiblings(c) \/ Write(c)

\* Every request has been answered and no more may be sent.
Quiet == issued = MaxRequests /\ \A c \in Clients : Phase(c) = "idle"

Next ==
    \/ \E c \in Clients :
          \/ \E r \in Requests : Submit(c, r)
          \/ Step(c) \/ Fail(c) \/ BreakDeadlock(c)
    \/ Quiet /\ UNCHANGED vars

Spec == Init /\ [][Next]_vars

-----------------------------------------------------------------------------
(* Properties                                                              *)

IsSnapshot(s) == DOMAIN s \subseteq EdgeIds /\ s \in [DOMAIN s -> Nat]

\* Type invariant: every variable of the model has its shape.
TypeOK ==
    /\ IsTable(edges)
    /\ nodeLock \in [Nodes -> Clients \cup {Free}]
    /\ edgeLock \in [EdgeIds -> Clients \cup {Free}]
    /\ minted \subseteq EdgeIds
    /\ issued \in Nat
    /\ tx \in [Clients -> [phase: Phases, req: Request, observed: NodeIds,
                           pending: SUBSET Nodes]]
    /\ old = [d \in Clients |-> old[d]] /\ \A d \in Clients : IsSnapshot(old[d])
    /\ new = [d \in Clients |-> new[d]] /\ \A d \in Clients : IsSnapshot(new[d])

\* The checks and reads of a transaction still hold when it writes: the edge
\* has not moved or gone, its triple is still new (the unique index of
\* study_edges never answers for the AlreadyExists check), and the siblings it
\* read are the committed ones.  Lines 401-505 of repository.drizzle.ts rely
\* on the source locks alone for this.
ReadsStillCurrent ==
    \A c \in Clients :
        Phase(c) = "write" =>
            /\ Op(c) # "create" => Target(c) \in DOMAIN edges
            /\ Op(c) # "remove" => Acceptable(c)
            /\ old[c] = OldSiblings(c)
            /\ new[c] = NewSiblings(c)

\* Rows never break the catalog's rules, although no constraint of the
\* database ties an edge's kind to the kinds of its nodes.
CatalogConsistent == Consistent(edges)

\* Transactions wait in a circle only when one of them asks to move an edge
\* under a node of another kind, which the kind check refuses only after the
\* locks are taken: the id order of the source locks then meets the foreign
\* key lock of an insert below that node.
Misplaced(c) ==
    /\ Op(c) = "update"
    /\ tx[c].req.from \in Nodes
    /\ NodeKind[tx[c].req.from] # NodeKind[tx[c].observed]

DeadlockNeedsMisplacedMove ==
    \A S \in SUBSET Clients :
        WaitCycle(S) => \E c \in S : Misplaced(c)

\* A group that gains or loses an edge is numbered 0, 1, 2... afterwards,
\* whatever happened to its positions before.
ChangedGroupsAreDense ==
    [][\A n \in Nodes, k \in EdgeKinds :
          Group(edges, n, k)' # Group(edges, n, k) => Dense(edges, n, k)']_vars

\* Every operation behaves as if it ran alone at the moment it commits.
Atomic == INSTANCE AtomicCatalog
AtomicOperations == Atomic!Spec
=============================================================================
