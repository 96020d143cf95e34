--------------------------- MODULE CatalogTheorems ---------------------------
(***************************************************************************)
(* The study catalog, for any catalog, any number of clients or            *)
(* administrators and any requests.  First what the position arithmetic of *)
(* EdgeOrder preserves, for every table.  Then the locking protocol of     *)
(* StudyEdges: types, what the source locks protect, that every operation  *)
(* is atomic and leaves the groups it changes dense, and which             *)
(* transactions can wait for each other in a circle.  Last the screens of  *)
(* CatalogScreen: what a screen at rest shows.                             *)
(***************************************************************************)
EXTENDS StudyEdges, CatalogScreen, FiniteSetTheorems, TLAPS

-----------------------------------------------------------------------------
(* The position arithmetic yields rows of the right shape and changes      *)
(* nothing but positions, and positions only of the siblings it was given. *)

\* s is a set of sibling rows: ids with positions.
IsSiblings(s) == DOMAIN s \subseteq EdgeIds

\* u holds the rows of t, with the same endpoints and kinds, and equal to
\* those of t outside S.
SameExcept(u, t, S) ==
    /\ IsTable(u)
    /\ DOMAIN u = DOMAIN t
    /\ \A i \in DOMAIN t :
          /\ u[i].kind = t[i].kind /\ u[i].from = t[i].from /\ u[i].to = t[i].to
          /\ i \notin S => u[i] = t[i]

\* u holds the rows with ids D: row e with the given kind and endpoints, and
\* the other rows as SameExcept has them.
RowsAre(u, t, S, D, e, kind, from, to) ==
    /\ IsTable(u)
    /\ DOMAIN u = D
    /\ e \in D => u[e].kind = kind /\ u[e].from = from /\ u[e].to = to
    /\ \A i \in DOMAIN t \ {e} :
          /\ u[i].kind = t[i].kind /\ u[i].from = t[i].from /\ u[i].to = t[i].to
          /\ i \notin S => u[i] = t[i]

\* An index among siblings is a natural number.
LEMMA IndexInNat ==
    ASSUME NEW s, IsSiblings(s), NEW i
    PROVE  IndexIn(s, i) \in Nat
<1> DEFINE B == {j \in DOMAIN s : s[j] < s[i] \/ (s[j] = s[i] /\ j < i)}
<1>1. IsFiniteSet(B)
  BY CatalogAssumption, FS_Subset DEF IsSiblings
<1>2. Cardinality(B) \in Nat
  BY <1>1, FS_CardinalityType
<1> QED
  BY <1>2 DEF IndexIn

\* The insertion slot of a request is a natural number.
LEMMA InsertAtNat ==
    ASSUME NEW s, IsSiblings(s), NEW requested \in Nat
    PROVE  InsertAt(s, requested) \in Nat
<1>1. IsFiniteSet(DOMAIN s)
  BY CatalogAssumption, FS_Subset DEF IsSiblings
<1>2. Cardinality(DOMAIN s) \in Nat
  BY <1>1, FS_CardinalityType
<1> QED
  BY <1>2 DEF InsertAt

\* Giving a row another position keeps it a row.
LEMMA Repositioned ==
    ASSUME NEW row \in Edge, NEW p \in Nat
    PROVE  /\ [row EXCEPT !.position = p] \in Edge
           /\ [row EXCEPT !.position = p].kind = row.kind
           /\ [row EXCEPT !.position = p].from = row.from
           /\ [row EXCEPT !.position = p].to = row.to
BY DEF Edge

\* Closing gaps changes positions of the given siblings only.
LEMMA CompactedRows ==
    ASSUME NEW t, IsTable(t), NEW s, IsSiblings(s)
    PROVE  SameExcept(Compacted(t, s), t, DOMAIN s)
<1> DEFINE u == Compacted(t, s)
<1>1. \A i : IndexIn(s, i) \in Nat
  BY IndexInNat
<1>2. DOMAIN u = DOMAIN t
  BY DEF Compacted
<1>3. ASSUME NEW i \in DOMAIN t
      PROVE  /\ u[i] \in Edge
             /\ u[i].kind = t[i].kind /\ u[i].from = t[i].from /\ u[i].to = t[i].to
             /\ i \notin DOMAIN s => u[i] = t[i]
  <2>1. t[i] \in Edge
    BY DEF IsTable
  <2>2. CASE i \in DOMAIN s /\ s[i] # IndexIn(s, i)
    <3>1. u[i] = [t[i] EXCEPT !.position = IndexIn(s, i)]
      BY <2>2 DEF Compacted
    <3> QED
      BY <1>1, <2>1, <2>2, <3>1, Repositioned
  <2>3. CASE ~(i \in DOMAIN s /\ s[i] # IndexIn(s, i))
    <3>1. u[i] = t[i]
      BY <2>3 DEF Compacted
    <3> QED
      BY <2>1, <3>1
  <2> QED
    BY <2>2, <2>3
<1>4. u = [i \in DOMAIN u |-> u[i]]
  BY DEF Compacted
<1>5. IsTable(u)
  <2>1. u \in [DOMAIN u -> Edge]
    BY <1>2, <1>3, <1>4
  <2> QED
    BY <1>2, <2>1 DEF IsTable
<1> QED
  BY <1>2, <1>3, <1>5 DEF SameExcept

\* Making room changes positions of the given siblings only.
LEMMA ShiftedRows ==
    ASSUME NEW t, IsTable(t), NEW s, IsSiblings(s), NEW p \in Nat
    PROVE  SameExcept(Shifted(t, s, p), t, DOMAIN s)
<1> DEFINE u == Shifted(t, s, p)
<1>1. \A i : SlotAfterInsert(s, i, p) \in Nat
  BY IndexInNat DEF SlotAfterInsert
<1>2. DOMAIN u = DOMAIN t
  BY DEF Shifted
<1>3. ASSUME NEW i \in DOMAIN t
      PROVE  /\ u[i] \in Edge
             /\ u[i].kind = t[i].kind /\ u[i].from = t[i].from /\ u[i].to = t[i].to
             /\ i \notin DOMAIN s => u[i] = t[i]
  <2>1. t[i] \in Edge
    BY DEF IsTable
  <2>2. CASE i \in DOMAIN s /\ s[i] # SlotAfterInsert(s, i, p)
    <3>1. u[i] = [t[i] EXCEPT !.position = SlotAfterInsert(s, i, p)]
      BY <2>2 DEF Shifted
    <3> QED
      BY <1>1, <2>1, <2>2, <3>1, Repositioned
  <2>3. CASE ~(i \in DOMAIN s /\ s[i] # SlotAfterInsert(s, i, p))
    <3>1. u[i] = t[i]
      BY <2>3 DEF Shifted
    <3> QED
      BY <2>1, <3>1
  <2> QED
    BY <2>2, <2>3
<1>4. u = [i \in DOMAIN u |-> u[i]]
  BY DEF Shifted
<1>5. IsTable(u)
  <2>1. u \in [DOMAIN u -> Edge]
    BY <1>2, <1>3, <1>4
  <2> QED
    BY <1>2, <2>1 DEF IsTable
<1> QED
  BY <1>2, <1>3, <1>5 DEF SameExcept

\* createEdge adds one row with the requested triple.
LEMMA InsertedRows ==
    ASSUME NEW t, IsTable(t), NEW e \in EdgeIds, e \notin DOMAIN t,
           NEW kind \in EdgeKinds, NEW from \in Nodes, NEW to \in Nodes,
           NEW requested \in Nat, NEW s, IsSiblings(s)
    PROVE  RowsAre(Inserted(t, e, kind, from, to, requested, s), t, DOMAIN s,
                   DOMAIN t \cup {e}, e, kind, from, to)
<1> DEFINE u == Inserted(t, e, kind, from, to, requested, s)
           p == InsertAt(s, requested)
           shifted == Shifted(t, s, p)
           row == [kind |-> kind, from |-> from, to |-> to, position |-> p]
<1>1. p \in Nat
  BY InsertAtNat
<1>2. SameExcept(shifted, t, DOMAIN s)
  BY <1>1, ShiftedRows
<1>3. row \in Edge
  BY <1>1 DEF Edge
<1>4. /\ DOMAIN u = DOMAIN t \cup {e}
      /\ u[e] = row
      /\ \A i \in DOMAIN t : u[i] = shifted[i]
      /\ u = [i \in DOMAIN u |-> u[i]]
  BY DEF Inserted
<1>5. \A i \in DOMAIN t : shifted[i] \in Edge
  BY <1>2 DEF SameExcept, IsTable
<1>6. \A i \in DOMAIN u : u[i] \in Edge
  BY <1>3, <1>4, <1>5
<1>7. IsTable(u)
  <2>1. u \in [DOMAIN u -> Edge]
    BY <1>4, <1>6
  <2> QED
    BY <1>4, <2>1 DEF IsTable
<1> HIDE DEF u, shifted, p
<1> QED
  BY <1>2, <1>4, <1>7 DEF SameExcept, RowsAre, u

\* updateEdge gives one row new endpoints.
LEMMA MovedRows ==
    ASSUME NEW t, IsTable(t), NEW e \in DOMAIN t,
           NEW from \in Nodes, NEW to \in Nodes, NEW requested \in Nat,
           NEW leaving, IsSiblings(leaving), NEW joining, IsSiblings(joining)
    PROVE  RowsAre(Moved(t, e, from, to, requested, leaving, joining), t,
                   DOMAIN leaving \cup DOMAIN joining, DOMAIN t, e, t[e].kind, from, to)
<1> DEFINE u == Moved(t, e, from, to, requested, leaving, joining)
           p == InsertAt(joining, requested)
           rest == Without(leaving, e)
           compacted == Compacted(t, rest)
           shifted == Shifted(compacted, joining, p)
           row == [kind |-> t[e].kind, from |-> from, to |-> to, position |-> p]
<1>1. p \in Nat
  BY InsertAtNat
<1>2. IsSiblings(rest) /\ DOMAIN rest = DOMAIN leaving \ {e}
  BY DEF IsSiblings, Without
<1>3. SameExcept(compacted, t, DOMAIN rest)
  BY <1>2, CompactedRows
<1>4. IsTable(compacted) /\ DOMAIN compacted = DOMAIN t
  BY <1>3 DEF SameExcept
<1>5. SameExcept(shifted, compacted, DOMAIN joining)
  BY <1>1, <1>4, ShiftedRows
<1>6. t[e] \in Edge
  BY DEF IsTable
<1>7. row \in Edge
  BY <1>1, <1>6 DEF Edge
<1>8. /\ DOMAIN u = DOMAIN t
      /\ u[e] = row
      /\ \A i \in DOMAIN t \ {e} : u[i] = shifted[i]
      /\ u = [i \in DOMAIN u |-> u[i]]
  BY DEF Moved
<1>9. \A i \in DOMAIN t : shifted[i] \in Edge
  BY <1>4, <1>5 DEF SameExcept, IsTable
<1>10. \A i \in DOMAIN u : u[i] \in Edge
  BY <1>7, <1>8, <1>9
<1>11. IsTable(u)
  <2>1. u \in [DOMAIN u -> Edge]
    BY <1>8, <1>10
  <2> QED
    BY <1>8, <2>1 DEF IsTable
<1>12. ASSUME NEW i \in DOMAIN t \ {e}
       PROVE  /\ shifted[i].kind = t[i].kind
              /\ shifted[i].from = t[i].from /\ shifted[i].to = t[i].to
              /\ i \notin DOMAIN leaving \cup DOMAIN joining => shifted[i] = t[i]
  <2> HIDE DEF shifted, compacted, rest, p
  <2> QED
    BY <1>2, <1>3, <1>4, <1>5 DEF SameExcept
<1> HIDE DEF u, shifted, compacted, rest, p
<1> QED
  BY <1>8, <1>11, <1>12 DEF RowsAre, u

\* removeEdge deletes one row.
LEMMA RemovedRows ==
    ASSUME NEW t, IsTable(t), NEW e, NEW s, IsSiblings(s)
    PROVE  RowsAre(Removed(t, e, s), t, DOMAIN s, DOMAIN t \ {e},
                   e, t[e].kind, t[e].from, t[e].to)
<1> DEFINE rest == [i \in DOMAIN t \ {e} |-> t[i]]
<1>1. IsTable(rest)
  BY DEF IsTable
<1>2. SameExcept(Compacted(rest, s), rest, DOMAIN s)
  BY <1>1, CompactedRows
<1>3. DOMAIN rest = DOMAIN t \ {e} /\ \A i \in DOMAIN rest : rest[i] = t[i]
  OBVIOUS
<1>4. Removed(t, e, s) = Compacted(rest, s)
  BY DEF Removed
<1> HIDE DEF rest
<1> QED
  BY <1>2, <1>3, <1>4 DEF SameExcept, RowsAre

-----------------------------------------------------------------------------
(* The locking protocol                                                    *)

\* The nodes an attempt locks before it trusts what it reads.
LockSet(c) ==
    IF Op(c) = "create" THEN {tx[c].req.from} \cap Nodes
                        ELSE SourcesToLock(tx[c].req, tx[c].observed)

Locking == {"lock", "recheck", "validate", "siblings", "write"}
Locked  == {"validate", "siblings", "write"}
Checked == {"siblings", "write"}

\* Locks are taken one by one and all held from the recheck on.
LocksHeld(c) ==
    Phase(c) \in Locking =>
        /\ Op(c) # "create" => tx[c].observed \in Nodes
        /\ Phase(c) = "lock" <=> tx[c].pending # {}
        /\ \A n \in LockSet(c) \ tx[c].pending : nodeLock[n] = c
        /\ Op(c) = "create" => Phase(c) # "recheck"
        /\ Op(c) = "remove" => Phase(c) # "validate"

\* A verified edge stays where the attempt saw it.
TargetKept(c) ==
    Phase(c) \in Locked /\ Op(c) # "create" =>
        /\ Target(c) \in DOMAIN edges
        /\ edges[Target(c)].from = tx[c].observed

\* The id of an edge being created belongs to no row and no other request.
FreshId(c) ==
    Phase(c) # "idle" /\ Op(c) = "create" =>
        /\ Phase(c) # "observe"
        /\ Target(c) \in minted \ DOMAIN edges
        /\ \A d \in Clients \ {c} :
              Phase(d) # "idle" /\ Op(d) = "create" => Target(d) # Target(c)

\* Checks passed under the locks still pass.
ChecksHold(c) ==
    Phase(c) \in Checked /\ Op(c) # "remove" => Acceptable(c)

\* Siblings read under the locks are still the committed ones.
SiblingsHold(c) ==
    Phase(c) = "write" => old[c] = OldSiblings(c) /\ new[c] = NewSiblings(c)

ClientInv(c) ==
    LocksHeld(c) /\ TargetKept(c) /\ FreshId(c) /\ ChecksHold(c) /\ SiblingsHold(c)

\* The inductive invariant.
IInv == /\ TypeOK
        /\ \A c \in Clients : ClientInv(c)
        /\ DOMAIN edges \subseteq minted
        /\ CatalogConsistent

ClientStep(c) ==
    (\E r \in Requests : Submit(c, r)) \/ Step(c) \/ Fail(c) \/ BreakDeadlock(c)

-----------------------------------------------------------------------------
(* Tables that agree outside a set of sources                              *)

AgreeOutside(t, u, L) ==
    /\ \A i \in DOMAIN t : t[i].from \notin L => i \in DOMAIN u /\ u[i] = t[i]
    /\ \A i \in DOMAIN u : u[i].from \notin L => i \in DOMAIN t /\ u[i] = t[i]

\* Reads of a group whose source is outside the set give the same answer.
LEMMA SameGroup ==
    ASSUME NEW t, NEW u, NEW L, AgreeOutside(t, u, L), NEW n, n \notin L
    PROVE  \A k : /\ Group(u, n, k) = Group(t, n, k)
                  /\ Siblings(u, n, k) = Siblings(t, n, k)
                  /\ \A to, self : Duplicate(u, k, n, to, self)
                                       <=> Duplicate(t, k, n, to, self)
<1>1. ASSUME NEW k PROVE Group(u, n, k) = Group(t, n, k)
  BY DEF AgreeOutside, Group
<1>2. ASSUME NEW k PROVE Siblings(u, n, k) = Siblings(t, n, k)
  <2>1. \A i \in Group(t, n, k) : u[i].position = t[i].position
    BY DEF AgreeOutside, Group
  <2> QED
    BY <1>1, <2>1 DEF Siblings
<1>3. ASSUME NEW k, NEW to, NEW self
      PROVE  Duplicate(u, k, n, to, self) <=> Duplicate(t, k, n, to, self)
  BY DEF AgreeOutside, Duplicate
<1> QED
  BY <1>1, <1>2, <1>3

-----------------------------------------------------------------------------
(* What a step of one client leaves alone                                  *)

\* Free is no client, and the default request is one of the requests.
LEMMA Defaults ==
    /\ Free \notin Clients
    /\ Idle.req \in Request
    /\ Idle \in [phase: Phases, req: Request, observed: NodeIds, pending: SUBSET Nodes]
    /\ Idle.phase = "idle" /\ Idle.pending = {}
    /\ IsSnapshot(NoRows)
<1> DEFINE r0 == CHOOSE r \in Requests : TRUE
<1>1. r0 \in Request
  BY EdgesAssumption
<1>2. r0.from \in NodeIds
  BY <1>1 DEF Request
<1> HIDE DEF r0
<1>3. Idle = [phase |-> "idle", req |-> r0, observed |-> r0.from, pending |-> {}]
  BY DEF Idle, r0
<1>4. "idle" \in Phases
  BY DEF Phases
<1>5. IsSnapshot(NoRows)
  BY DEF IsSnapshot, NoRows
<1> QED
  BY <1>1, <1>2, <1>3, <1>4, <1>5, EdgesAssumption

\* The locals of other clients, and the locks they hold.
OthersKept(c) ==
    \A d \in Clients \ {c} :
        /\ tx'[d] = tx[d] /\ old'[d] = old[d] /\ new'[d] = new[d]
        /\ \A n \in Nodes : nodeLock[n] = d => nodeLock'[n] = d

\* Per-client locals are functions on the clients.
LEMMA Locals ==
    ASSUME TypeOK, NEW c \in Clients, NEW x
    PROVE  /\ \A d \in Clients \ {c} : [old EXCEPT ![c] = x][d] = old[d]
           /\ \A d \in Clients \ {c} : [new EXCEPT ![c] = x][d] = new[d]
           /\ \A d \in Clients \ {c} : [tx EXCEPT ![c] = x][d] = tx[d]
           /\ [old EXCEPT ![c] = x][c] = x
           /\ [new EXCEPT ![c] = x][c] = x
           /\ [tx EXCEPT ![c] = x][c] = x
<1>1. /\ old = [d \in Clients |-> old[d]]
      /\ new = [d \in Clients |-> new[d]]
      /\ tx = [d \in Clients |-> tx[d]]
  BY DEF TypeOK
<1> QED
  BY <1>1

\* Giving up one's own locks takes none from the others.
LEMMA Released ==
    ASSUME TypeOK, NEW c \in Clients, Release(c)
    PROVE  /\ \A d \in Clients \ {c}, n \in Nodes : nodeLock[n] = d => nodeLock'[n] = d
           /\ nodeLock' \in [Nodes -> Clients \cup {Free}]
           /\ edgeLock' \in [EdgeIds -> Clients \cup {Free}]
BY DEF TypeOK, Release

\* The end of an operation frees what it held and touches no other client.
LEMMA Finished ==
    ASSUME TypeOK, NEW c \in Clients, Finish(c)
    PROVE  OthersKept(c) /\ Phase(c)' = "idle"
<1>1. Release(c)
  BY DEF Finish
<1>2. tx' = [tx EXCEPT ![c] = Idle] /\ old' = [old EXCEPT ![c] = NoRows]
      /\ new' = [new EXCEPT ![c] = NoRows]
  BY DEF Finish
<1>3. \A d \in Clients \ {c} : tx'[d] = tx[d] /\ old'[d] = old[d] /\ new'[d] = new[d]
  BY <1>2, Locals
<1>4. tx'[c] = Idle
  BY <1>2, Locals
<1> QED
  BY <1>1, <1>3, <1>4, Released, Defaults DEF OthersKept, Phase

-----------------------------------------------------------------------------
(* What the statements of an operation write                               *)

\* A snapshot of a group of the table is a snapshot.
LEMMA SnapshotsOfTable ==
    ASSUME NEW t, IsTable(t), NEW n, NEW k, NEW e
    PROVE  /\ IsSnapshot(Siblings(t, n, k))
           /\ IsSnapshot(Without(Siblings(t, n, k), e))
           /\ DOMAIN Siblings(t, n, k) = Group(t, n, k)
<1>1. Group(t, n, k) \subseteq DOMAIN t
  BY DEF Group
<1>2. \A i \in DOMAIN t : t[i].position \in Nat
  BY DEF IsTable, Edge
<1> DEFINE s == Siblings(t, n, k)
<1>3. DOMAIN s = Group(t, n, k) /\ \A i \in DOMAIN s : s[i] \in Nat
  BY <1>1, <1>2 DEF Siblings
<1>4. s = [i \in DOMAIN s |-> s[i]]
  BY DEF Siblings
<1>5. IsSnapshot(s)
  BY <1>1, <1>3, <1>4 DEF IsSnapshot, IsTable
<1> HIDE DEF s
<1>6. IsSnapshot(Without(s, e))
  BY <1>5 DEF IsSnapshot, Without
<1> QED
  BY <1>3, <1>5, <1>6 DEF s

\* What an operation has read fits its table.
LEMMA SnapshotsRead ==
    ASSUME TypeOK, NEW c \in Clients
    PROVE  Op(c) \in Ops => IsSnapshot(OldSiblings(c)) /\ IsSnapshot(NewSiblings(c))
<1>1. IsTable(edges)
  BY DEF TypeOK
<1>2. IsSnapshot(NoRows)
  BY Defaults
<1>3. CASE Op(c) = "create"
  BY <1>1, <1>2, <1>3, SnapshotsOfTable DEF OldSiblings, NewSiblings
<1>4. CASE Op(c) = "update"
  BY <1>1, <1>4, SnapshotsOfTable DEF OldSiblings, NewSiblings, InsertionGroup
<1>5. CASE Op(c) = "remove"
  BY <1>1, <1>2, <1>5, SnapshotsOfTable DEF OldSiblings, NewSiblings
<1> QED
  BY <1>3, <1>4, <1>5 DEF Ops

\* The types of a client's locals.
LEMMA LocalTypes ==
    ASSUME TypeOK, NEW c \in Clients
    PROVE  /\ Phase(c) \in Phases /\ Op(c) \in Ops /\ Target(c) \in EdgeIds
           /\ tx[c].req \in Request /\ tx[c].req.kind \in EdgeKinds
           /\ tx[c].req.position \in Positions
           /\ tx[c].observed \in NodeIds /\ tx[c].pending \in SUBSET Nodes
           /\ IsSnapshot(old[c]) /\ IsSnapshot(new[c])
<1>1. tx[c] \in [phase: Phases, req: Request, observed: NodeIds, pending: SUBSET Nodes]
  BY DEF TypeOK
<1>2. IsSnapshot(old[c]) /\ IsSnapshot(new[c])
  BY DEF TypeOK
<1> QED
  BY <1>1, <1>2 DEF Phase, Op, Target, Request

\* The rows of a sibling snapshot have the group's source.
LEMMA SnapshotSources ==
    ASSUME NEW t, NEW n, NEW k, NEW e
    PROVE  /\ \A i \in DOMAIN Siblings(t, n, k) : t[i].from = n
           /\ \A i \in DOMAIN Without(Siblings(t, n, k), e) : t[i].from = n
BY DEF Siblings, Without, Group

\* The ids of the table an operation leaves.
WrittenIds(c) ==
    CASE Op(c) = "create" -> DOMAIN edges \cup {Target(c)}
      [] Op(c) = "update" -> DOMAIN edges
      [] Op(c) = "remove" -> DOMAIN edges \ {Target(c)}

\* W is the table a client's operation leaves: rows other than its own keep
\* kind and endpoints, and rows of sources it has not locked stay as they are.
OperationLeaves(c, W) ==
    /\ IsTable(W)
    /\ DOMAIN W = WrittenIds(c)
    /\ \A i \in DOMAIN edges \ {Target(c)} :
          /\ W[i].kind = edges[i].kind
          /\ W[i].from = edges[i].from /\ W[i].to = edges[i].to
          /\ edges[i].from \notin LockSet(c) => W[i] = edges[i]
    /\ Op(c) # "remove" =>
          /\ W[Target(c)].kind = KindOf(c)
          /\ W[Target(c)].from = tx[c].req.from
          /\ W[Target(c)].to = tx[c].req.to

\* A create adds its row and moves rows of its source only.
LEMMA CreateWrites ==
    ASSUME TypeOK, NEW c \in Clients, ClientInv(c), Phase(c) = "write", Op(c) = "create"
    PROVE  OperationLeaves(c, Written(c))
<1> DEFINE r == tx[c].req
<1>1. r.edge \notin DOMAIN edges /\ Target(c) = r.edge /\ r.edge \in EdgeIds
  BY LocalTypes DEF ClientInv, FreshId, Target
<1>2. Acceptable(c) /\ new[c] = Siblings(edges, r.from, r.kind)
  BY DEF ClientInv, ChecksHold, SiblingsHold, Checked, NewSiblings, KindOf
<1>3. r.from \in Nodes /\ r.to \in Nodes
  BY <1>2 DEF Acceptable, EndpointsExist
<1>4. IsSnapshot(new[c]) /\ IsTable(edges) /\ r.kind \in EdgeKinds /\ r.position \in Nat
  BY LocalTypes, CatalogAssumption DEF TypeOK
<1>5. \A i \in DOMAIN new[c] : edges[i].from = r.from
  BY <1>2, SnapshotSources
<1>6. LockSet(c) = {r.from} /\ KindOf(c) = r.kind
  BY <1>3 DEF LockSet, KindOf
<1>7. IsSiblings(new[c])
  BY <1>4 DEF IsSnapshot, IsSiblings
<1>8. Written(c) = Inserted(edges, r.edge, r.kind, r.from, r.to, r.position, new[c])
  BY DEF Written
<1>9. RowsAre(Written(c), edges, DOMAIN new[c], DOMAIN edges \cup {r.edge},
              r.edge, r.kind, r.from, r.to)
  <2> HIDE DEF r
  <2> QED
    BY <1>1, <1>3, <1>4, <1>7, <1>8, InsertedRows
<1>10. WrittenIds(c) = DOMAIN edges \cup {r.edge}
  BY <1>1 DEF WrittenIds
<1> QED
  BY <1>1, <1>5, <1>6, <1>9, <1>10 DEF OperationLeaves, RowsAre

\* An update rewrites its row and moves rows of its two sources only.
LEMMA UpdateWrites ==
    ASSUME TypeOK, NEW c \in Clients, ClientInv(c), Phase(c) = "write", Op(c) = "update"
    PROVE  OperationLeaves(c, Written(c))
<1> DEFINE r == tx[c].req
           row == edges[r.edge]
<1>1. r.edge \in DOMAIN edges /\ Target(c) = r.edge /\ row.from = tx[c].observed
  BY DEF ClientInv, TargetKept, Locked, Target
<1>2. Acceptable(c) /\ old[c] = OldSiblings(c) /\ new[c] = NewSiblings(c)
  BY DEF ClientInv, ChecksHold, SiblingsHold, Checked
<1>3. r.from \in Nodes /\ r.to \in Nodes /\ row.from \in Nodes
  BY <1>1, <1>2 DEF Acceptable, EndpointsExist, ClientInv, LocksHeld, Locking
<1>4. IsSnapshot(old[c]) /\ IsSnapshot(new[c]) /\ IsTable(edges) /\ r.position \in Nat
  BY LocalTypes, CatalogAssumption DEF TypeOK
<1>5. KindOf(c) = row.kind
  BY <1>1 DEF KindOf
<1>6. old[c] = Siblings(edges, row.from, row.kind)
  BY <1>1, <1>2, <1>5 DEF OldSiblings
<1>7. new[c] = InsertionGroup(edges, r.edge, r.from, old[c])
  BY <1>1, <1>2 DEF NewSiblings
<1>8. \A i \in DOMAIN old[c] \cup DOMAIN new[c] : edges[i].from \in {row.from, r.from}
  <2>1. \A i \in DOMAIN old[c] : edges[i].from = row.from
    BY <1>6, SnapshotSources
  <2>2. CASE row.from = r.from
    <3>1. new[c] = Without(old[c], r.edge)
      BY <1>7, <2>2 DEF InsertionGroup
    <3>2. DOMAIN new[c] \subseteq DOMAIN old[c]
      BY <3>1 DEF Without
    <3> QED
      BY <2>1, <3>2
  <2>3. CASE row.from # r.from
    <3>1. new[c] = Siblings(edges, r.from, row.kind)
      BY <1>7, <2>3 DEF InsertionGroup
    <3>2. \A i \in DOMAIN new[c] : edges[i].from = r.from
      BY <3>1, SnapshotSources
    <3> QED
      BY <2>1, <3>2
  <2> QED
    BY <2>2, <2>3
<1>9. LockSet(c) = {row.from, r.from}
  BY <1>1, <1>3 DEF LockSet, SourcesToLock, Op
<1>10. IsSiblings(old[c]) /\ IsSiblings(new[c])
  BY <1>4 DEF IsSnapshot, IsSiblings
<1>11. Written(c) = Moved(edges, r.edge, r.from, r.to, r.position, old[c], new[c])
  BY DEF Written
<1>12. RowsAre(Written(c), edges, DOMAIN old[c] \cup DOMAIN new[c], DOMAIN edges,
               r.edge, row.kind, r.from, r.to)
  <2> HIDE DEF r
  <2> QED
    BY <1>1, <1>3, <1>4, <1>10, <1>11, MovedRows
<1>13. WrittenIds(c) = DOMAIN edges
  BY DEF WrittenIds
<1> QED
  BY <1>1, <1>5, <1>8, <1>9, <1>12, <1>13 DEF OperationLeaves, RowsAre

\* A removal deletes its row and moves rows of its source only.
LEMMA RemoveWrites ==
    ASSUME TypeOK, NEW c \in Clients, ClientInv(c), Phase(c) = "write", Op(c) = "remove"
    PROVE  OperationLeaves(c, Written(c))
<1> DEFINE e == Target(c)
           row == edges[e]
<1>1. e \in DOMAIN edges /\ row.from = tx[c].observed /\ tx[c].req.edge = e
  BY DEF ClientInv, TargetKept, Locked, Target
<1>2. old[c] = Without(Siblings(edges, row.from, KindOf(c)), e)
  BY DEF ClientInv, SiblingsHold, OldSiblings
<1>3. IsSnapshot(old[c]) /\ IsTable(edges)
  BY LocalTypes DEF TypeOK
<1>4. \A i \in DOMAIN old[c] : edges[i].from = row.from
  BY <1>2, SnapshotSources
<1>5. LockSet(c) = {row.from}
  BY <1>1 DEF LockSet, SourcesToLock, Op
<1>6. IsSiblings(old[c])
  BY <1>3 DEF IsSnapshot, IsSiblings
<1>7. Written(c) = Removed(edges, e, old[c])
  BY <1>1 DEF Written
<1>8. RowsAre(Written(c), edges, DOMAIN old[c], DOMAIN edges \ {e},
              e, edges[e].kind, edges[e].from, edges[e].to)
  <2> HIDE DEF e
  <2> QED
    BY <1>3, <1>6, <1>7, RemovedRows
<1>9. WrittenIds(c) = DOMAIN edges \ {e}
  BY DEF WrittenIds
<1> QED
  BY <1>4, <1>5, <1>8, <1>9 DEF OperationLeaves, RowsAre

\* The same for whatever operation the client runs.
LEMMA OperationWrites ==
    ASSUME TypeOK, NEW c \in Clients, ClientInv(c), Phase(c) = "write"
    PROVE  OperationLeaves(c, Written(c))
BY LocalTypes, CreateWrites, UpdateWrites, RemoveWrites DEF Ops

\* The sources an operation writes under are locked by it.
LEMMA OwnSources ==
    ASSUME TypeOK, NEW c \in Clients, ClientInv(c), Phase(c) = "write"
    PROVE  /\ Op(c) # "create" => /\ Target(c) \in DOMAIN edges
                                  /\ edges[Target(c)].from \in LockSet(c)
           /\ Op(c) = "create" => Target(c) \notin DOMAIN edges
           /\ Op(c) # "remove" => tx[c].req.from \in LockSet(c)
<1>1. Op(c) \in Ops
  BY LocalTypes
<1>2. Op(c) # "remove" => tx[c].req.from \in Nodes
  BY DEF ClientInv, ChecksHold, Checked, Acceptable, EndpointsExist
<1>3. Op(c) # "create" => /\ Target(c) \in DOMAIN edges
                          /\ edges[Target(c)].from = tx[c].observed
                          /\ tx[c].observed \in Nodes
  BY DEF ClientInv, TargetKept, Locked, LocksHeld, Locking
<1>4. Op(c) = "create" => Target(c) \notin DOMAIN edges
  BY DEF ClientInv, FreshId
<1> QED
  BY <1>1, <1>2, <1>3, <1>4 DEF LockSet, SourcesToLock, Op, Ops

\* A write changes rows of locked sources only.
LEMMA WrittenAgrees ==
    ASSUME TypeOK, NEW c \in Clients, ClientInv(c), Phase(c) = "write"
    PROVE  AgreeOutside(edges, Written(c), LockSet(c))
<1> DEFINE W == Written(c)
<1>1. OperationLeaves(c, W)
  BY OperationWrites
<1>2. Op(c) \in Ops
  BY LocalTypes
<1> HIDE DEF W
<1>3. ASSUME NEW i \in DOMAIN edges, edges[i].from \notin LockSet(c)
      PROVE  i \in DOMAIN W /\ W[i] = edges[i]
  BY <1>1, <1>2, <1>3, OwnSources DEF OperationLeaves, WrittenIds, Ops
<1>4. ASSUME NEW i \in DOMAIN W, W[i].from \notin LockSet(c)
      PROVE  i \in DOMAIN edges /\ W[i] = edges[i]
  BY <1>1, <1>2, <1>4, OwnSources DEF OperationLeaves, WrittenIds, Ops
<1> QED
  BY <1>3, <1>4 DEF AgreeOutside, W

-----------------------------------------------------------------------------
(* A transaction is not disturbed by writes below sources it has not       *)
(* locked.                                                                  *)

\* A write below sources it has not locked changes nothing a client relies on.
LEMMA Undisturbed ==
    ASSUME TypeOK, NEW d \in Clients, ClientInv(d),
           tx'[d] = tx[d], old'[d] = old[d], new'[d] = new[d],
           \A n \in Nodes : nodeLock[n] = d => nodeLock'[n] = d,
           NEW L, AgreeOutside(edges, edges', L),
           Phase(d) \in Locked => L \cap LockSet(d) = {},
           FreshId(d)'
    PROVE  ClientInv(d)'
<1> DEFINE r == tx[d].req
<1>1. /\ Phase(d)' = Phase(d) /\ Op(d)' = Op(d) /\ Target(d)' = Target(d)
      /\ LockSet(d)' = LockSet(d) /\ tx'[d] = tx[d]
  BY DEF Phase, Op, Target, LockSet
<1>2. /\ Op(d) \in Ops /\ tx[d].pending \subseteq Nodes
      /\ Op(d) = r.op /\ Target(d) = r.edge
  BY LocalTypes DEF Op, Target
<1>3. LocksHeld(d)'
  <2>1. Phase(d) \in Locking => LockSet(d) \subseteq Nodes
    BY <1>2 DEF ClientInv, LocksHeld, LockSet, SourcesToLock, Op
  <2> QED
    BY <1>1, <2>1 DEF ClientInv, LocksHeld
<1>4. ASSUME Phase(d) \in Locked, Op(d) # "create"
      PROVE  /\ Target(d) \in DOMAIN edges /\ Target(d) \in DOMAIN edges'
             /\ edges'[Target(d)] = edges[Target(d)]
             /\ edges[Target(d)].from = tx[d].observed
             /\ tx[d].observed \notin L
  <2>1. Target(d) \in DOMAIN edges /\ edges[Target(d)].from = tx[d].observed
    BY <1>4 DEF ClientInv, TargetKept
  <2>2. tx[d].observed \in LockSet(d)
    BY <1>2, <1>4 DEF ClientInv, LocksHeld, Locked, Locking, LockSet,
                      SourcesToLock, Op, Ops
  <2> QED
    BY <1>4, <2>1, <2>2 DEF AgreeOutside
<1>5. TargetKept(d)'
  BY <1>1, <1>4 DEF TargetKept
<1>6. Phase(d) \in Locked => KindOf(d)' = KindOf(d)
  BY <1>1, <1>4 DEF KindOf
<1>7. ASSUME Phase(d) \in Checked, Op(d) # "remove"
      PROVE  Acceptable(d) /\ r.from \in Nodes /\ r.from \notin L
  <2>1. Acceptable(d)
    BY <1>7 DEF ClientInv, ChecksHold
  <2>2. r.from \in Nodes
    BY <2>1 DEF Acceptable, EndpointsExist
  <2>3. r.from \in LockSet(d)
    BY <1>2, <1>7, <2>2 DEF LockSet, SourcesToLock, Ops
  <2> QED
    BY <1>7, <2>1, <2>2, <2>3 DEF Checked, Locked
<1>8. ChecksHold(d)'
  <2> SUFFICES ASSUME Phase(d) \in Checked, Op(d) # "remove"
               PROVE  Acceptable(d)'
    BY <1>1 DEF ChecksHold
  <2>1. KindOf(d)' = KindOf(d)
    BY <1>6 DEF Checked, Locked
  <2>2. Duplicate(edges', KindOf(d), r.from, r.to, r.edge)
          <=> Duplicate(edges, KindOf(d), r.from, r.to, r.edge)
    BY <1>7, SameGroup
  <2> QED
    BY <1>1, <1>7, <2>1, <2>2 DEF Acceptable
<1>9. SiblingsHold(d)'
  <2> SUFFICES ASSUME Phase(d) = "write"
               PROVE  OldSiblings(d)' = OldSiblings(d) /\ NewSiblings(d)' = NewSiblings(d)
    BY <1>1 DEF SiblingsHold, ClientInv
  <2>1. KindOf(d)' = KindOf(d)
    BY <1>6 DEF Locked
  <2>2. Op(d) # "create" =>
          \A k : Siblings(edges', tx[d].observed, k) = Siblings(edges, tx[d].observed, k)
    BY <1>4, SameGroup DEF Locked
  <2>3. Op(d) # "remove" =>
          \A k : Siblings(edges', r.from, k) = Siblings(edges, r.from, k)
    BY <1>7, SameGroup DEF Checked
  <2>4. OldSiblings(d)' = OldSiblings(d)
    BY <1>1, <1>2, <1>4, <2>1, <2>2 DEF OldSiblings, Locked, Ops
  <2>5. NewSiblings(d)' = NewSiblings(d)
    <3>1. CASE Op(d) = "create"
      BY <1>1, <2>1, <2>3, <3>1 DEF NewSiblings
    <3>2. CASE Op(d) = "update"
      <4>1. InsertionGroup(edges', Target(d), r.from, OldSiblings(d))
              = InsertionGroup(edges, Target(d), r.from, OldSiblings(d))
        BY <1>4, <2>3, <3>2 DEF InsertionGroup, Locked
      <4> QED
        BY <1>1, <2>4, <3>2, <4>1 DEF NewSiblings
    <3>3. CASE Op(d) = "remove"
      BY <1>1, <3>3 DEF NewSiblings
    <3> QED
      BY <1>2, <3>1, <3>2, <3>3 DEF Ops
  <2> QED
    BY <2>4, <2>5
<1> QED
  BY <1>3, <1>5, <1>8, <1>9 DEF ClientInv

-----------------------------------------------------------------------------
(* The steps of one client                                                 *)

TxRecord == [phase: Phases, req: Request, observed: NodeIds, pending: SUBSET Nodes]

\* What a client's step may do to the rest of the system.
StepOf(c) ==
    /\ OthersKept(c)
    /\ minted \subseteq minted'
    /\ edges' = edges \/ (Phase(c) = "write" /\ edges' = Written(c))
    /\ Phase(c)' # "idle" /\ Op(c)' = "create" =>
          \/ (Phase(c) # "idle" /\ Op(c) = "create" /\ Target(c)' = Target(c))
          \/ Target(c)' \in minted' \ minted

\* A step keeps the types and the client's own invariant.
Keeps(c) == TypeOK' /\ ClientInv(c)' /\ StepOf(c)

\* A step of client c on tx leaves the transactions of the others alone.
LEMMA TxUpdated ==
    ASSUME TypeOK, NEW c \in Clients, NEW x \in TxRecord, tx' = [tx EXCEPT ![c] = x]
    PROVE  /\ tx' \in [Clients -> TxRecord]
           /\ tx'[c] = x
           /\ \A d \in Clients \ {c} : tx'[d] = tx[d]
           /\ Phase(c)' = x.phase /\ Op(c)' = x.req.op /\ Target(c)' = x.req.edge
<1>1. tx \in [Clients -> TxRecord]
  BY DEF TypeOK, TxRecord
<1> QED
  BY <1>1 DEF Phase, Op, Target

\* The end of a transaction, committed or not.
LEMMA FinishKeeps ==
    ASSUME IInv, NEW c \in Clients, Finish(c), UNCHANGED <<minted, issued>>,
           edges' = edges \/ (Phase(c) = "write" /\ edges' = Written(c))
    PROVE  Keeps(c)
<1>1. TypeOK /\ ClientInv(c)
  BY DEF IInv
<1>2. OthersKept(c) /\ Phase(c)' = "idle"
  BY <1>1, Finished
<1>3. IsTable(edges')
  BY <1>1, OperationWrites DEF TypeOK, OperationLeaves
<1>4. Release(c) /\ tx' = [tx EXCEPT ![c] = Idle] /\ old' = [old EXCEPT ![c] = NoRows]
      /\ new' = [new EXCEPT ![c] = NoRows]
  BY DEF Finish
<1>5. tx' \in [Clients -> TxRecord]
  BY <1>1, <1>4, Defaults, TxUpdated DEF TxRecord
<1>6. /\ old' = [d \in Clients |-> old'[d]] /\ \A d \in Clients : IsSnapshot(old'[d])
      /\ new' = [d \in Clients |-> new'[d]] /\ \A d \in Clients : IsSnapshot(new'[d])
  BY <1>1, <1>4, Defaults DEF TypeOK
<1>7. TypeOK'
  BY <1>1, <1>3, <1>4, <1>5, <1>6, Released DEF TypeOK, TxRecord
<1>8. ClientInv(c)'
  BY <1>2 DEF ClientInv, LocksHeld, TargetKept, FreshId, ChecksHold, SiblingsHold,
              Locking, Locked, Checked
<1> QED
  BY <1>2, <1>7, <1>8 DEF Keeps, StepOf

\* A new request.
LEMMA SubmitKeeps ==
    ASSUME IInv, NEW c \in Clients, NEW r \in Requests, Submit(c, r)
    PROVE  Keeps(c)
<1>1. TypeOK /\ r \in Request /\ DOMAIN edges \subseteq minted
  BY EdgesAssumption DEF IInv
<1>2. issued' = issued + 1 /\ UNCHANGED <<edges, nodeLock, edgeLock, old, new>>
  BY DEF Submit, reads
<1>3. r.op \in Ops /\ r.edge \in EdgeIds /\ r.from \in NodeIds
  BY <1>1 DEF Request
<1>4. CASE r.op = "create"
  <2> DEFINE ph == IF r.from \in Nodes THEN "lock" ELSE "validate"
             x == [Idle EXCEPT !.phase = ph, !.req = r, !.pending = {r.from} \cap Nodes]
  <2>1. tx' = [tx EXCEPT ![c] = x] /\ r.edge \notin minted /\ minted' = minted \cup {r.edge}
    BY <1>4 DEF Submit
  <2>2. x \in TxRecord /\ x.phase = ph /\ x.req = r /\ x.pending = {r.from} \cap Nodes
    BY <1>1, Defaults DEF TxRecord, Phases
  <2> HIDE DEF x
  <2>3. /\ tx' \in [Clients -> TxRecord]
        /\ tx'[c] = x
        /\ \A d \in Clients \ {c} : tx'[d] = tx[d]
        /\ Phase(c)' = ph /\ Op(c)' = "create" /\ Target(c)' = r.edge
    BY <1>1, <1>4, <2>1, <2>2, TxUpdated
  <2>4. TypeOK'
    BY <1>1, <1>2, <1>3, <2>1, <2>3 DEF TypeOK, TxRecord
  <2>5. LocksHeld(c)'
    <3>1. LockSet(c)' = tx'[c].pending
      BY <2>2, <2>3 DEF LockSet
    <3>2. Phase(c)' = "lock" <=> tx'[c].pending # {}
      BY <2>2, <2>3
    <3>3. Phase(c)' # "recheck"
      BY <2>3
    <3> QED
      BY <2>3, <3>1, <3>2, <3>3 DEF LocksHeld
  <2>6. FreshId(c)'
    <3>1. ASSUME NEW d \in Clients \ {c}, Phase(d)' # "idle", Op(d)' = "create"
          PROVE  Target(d)' # r.edge
      <4>1. Phase(d)' = Phase(d) /\ Op(d)' = Op(d) /\ Target(d)' = Target(d)
        BY <2>3 DEF Phase, Op, Target
      <4>2. Target(d) \in minted
        BY <3>1, <4>1 DEF IInv, ClientInv, FreshId
      <4> QED
        BY <2>1, <4>1, <4>2
    <3>2. r.edge \in minted' \ DOMAIN edges'
      BY <1>1, <1>2, <2>1
    <3> QED
      BY <2>3, <3>1, <3>2 DEF FreshId
  <2>7. ClientInv(c)'
    BY <2>3, <2>5, <2>6 DEF ClientInv, TargetKept, ChecksHold, SiblingsHold, Checked
  <2>8. StepOf(c)
    <3>1. OthersKept(c)
      BY <1>2, <2>3 DEF OthersKept
    <3>2. Target(c)' \in minted' \ minted
      BY <2>1, <2>3
    <3> QED
      BY <1>2, <2>1, <3>1, <3>2 DEF StepOf
  <2> QED
    BY <2>4, <2>7, <2>8 DEF Keeps
<1>5. CASE r.op # "create"
  <2> DEFINE x == [Idle EXCEPT !.phase = "observe", !.req = r]
  <2>1. tx' = [tx EXCEPT ![c] = x] /\ minted' = minted
    BY <1>5 DEF Submit
  <2>2. x \in TxRecord /\ x.phase = "observe" /\ x.req = r
    BY <1>1, Defaults DEF TxRecord, Phases
  <2> HIDE DEF x
  <2>3. /\ tx' \in [Clients -> TxRecord]
        /\ \A d \in Clients \ {c} : tx'[d] = tx[d]
        /\ Phase(c)' = "observe" /\ Op(c)' # "create"
    BY <1>1, <1>5, <2>1, <2>2, TxUpdated
  <2>4. TypeOK'
    BY <1>1, <1>2, <2>1, <2>3 DEF TypeOK, TxRecord
  <2>5. ClientInv(c)'
    BY <2>3 DEF ClientInv, LocksHeld, TargetKept, FreshId, ChecksHold, SiblingsHold,
                Locking, Locked, Checked
  <2>6. StepOf(c)
    BY <1>2, <2>1, <2>3 DEF StepOf, OthersKept
  <2> QED
    BY <2>4, <2>5, <2>6 DEF Keeps
<1> QED
  BY <1>4, <1>5

\* The source an operation sees before it locks anything is a node.
LEMMA ObserveKeeps ==
    ASSUME IInv, NEW c \in Clients, Observe(c)
    PROVE  Keeps(c)
<1> DEFINE source == edges[Target(c)].from
           x == [tx[c] EXCEPT !.phase = "lock", !.observed = source,
                              !.pending = SourcesToLock(tx[c].req, source)]
<1>1. TypeOK /\ tx[c] \in TxRecord /\ Phase(c) = "observe" /\ Target(c) \in DOMAIN edges
  BY DEF IInv, TypeOK, TxRecord, Observe
<1>2. source \in Nodes /\ source \in NodeIds
  BY <1>1, CatalogAssumption DEF TypeOK, IsTable, Edge
<1>3. Op(c) # "create"
  BY <1>1 DEF IInv, ClientInv, FreshId
<1>4. SourcesToLock(tx[c].req, source) \subseteq Nodes /\ source \in SourcesToLock(tx[c].req, source)
  BY <1>2 DEF SourcesToLock
<1>5. tx' = [tx EXCEPT ![c] = x]
  BY <1>1 DEF Observe, TypeOK
<1>6. UNCHANGED <<edges, nodeLock, edgeLock, minted, issued, old, new>>
  BY DEF Observe, reads
<1>7. /\ x \in TxRecord /\ x.phase = "lock" /\ x.req = tx[c].req /\ x.observed = source
      /\ x.pending = SourcesToLock(tx[c].req, source)
  BY <1>1, <1>2, <1>4 DEF TxRecord, Phases
<1> HIDE DEF x, source
<1>8. /\ tx' \in [Clients -> TxRecord]
      /\ tx'[c] = x
      /\ \A d \in Clients \ {c} : tx'[d] = tx[d]
      /\ Phase(c)' = "lock" /\ Op(c)' = Op(c) /\ Target(c)' = Target(c)
  BY <1>1, <1>5, <1>7, TxUpdated DEF Op, Target
<1>9. TypeOK'
  BY <1>1, <1>6, <1>8 DEF TypeOK, TxRecord
<1>10. LocksHeld(c)'
  <2>1. LockSet(c)' = tx'[c].pending
    BY <1>3, <1>7, <1>8 DEF LockSet
  <2>2. tx'[c].pending # {} /\ tx'[c].observed \in Nodes
    BY <1>2, <1>4, <1>7, <1>8
  <2> QED
    BY <1>3, <1>8, <2>1, <2>2 DEF LocksHeld
<1>11. ClientInv(c)'
  BY <1>3, <1>8, <1>10 DEF ClientInv, TargetKept, FreshId, ChecksHold, SiblingsHold,
                           Locked, Checked
<1>12. StepOf(c)
  BY <1>3, <1>6, <1>8 DEF StepOf, OthersKept
<1> QED
  BY <1>9, <1>11, <1>12 DEF Keeps

\* A node row locked.
LEMMA LockNodeKeeps ==
    ASSUME IInv, NEW c \in Clients, LockNode(c)
    PROVE  Keeps(c)
<1> DEFINE n == NextToLock(c)
           rest == tx[c].pending \ {n}
           ph == IF rest # {} THEN "lock"
                 ELSE IF Op(c) = "create" THEN "validate" ELSE "recheck"
           x == [tx[c] EXCEPT !.pending = rest, !.phase = ph]
<1>1. /\ TypeOK /\ tx[c] \in TxRecord /\ Phase(c) = "lock"
      /\ LocksHeld(c) /\ FreshId(c) /\ nodeLock \in [Nodes -> Clients \cup {Free}]
  BY DEF IInv, ClientInv, TypeOK, TxRecord, LockNode
<1>2. rest \subseteq Nodes
  BY <1>1 DEF TxRecord
<1>3. /\ nodeLock[n] = Free /\ nodeLock' = [nodeLock EXCEPT ![n] = c]
      /\ UNCHANGED <<edges, edgeLock, minted, issued, old, new>>
  BY DEF LockNode, reads
<1>4. tx' = [tx EXCEPT ![c] = x]
  BY <1>1 DEF LockNode, TypeOK
<1>5. /\ x \in TxRecord /\ x.phase = ph /\ x.req = tx[c].req
      /\ x.observed = tx[c].observed /\ x.pending = rest
  BY <1>1, <1>2 DEF TxRecord, Phases
<1> HIDE DEF x
<1>6. /\ tx' \in [Clients -> TxRecord]
      /\ tx'[c] = x
      /\ \A d \in Clients \ {c} : tx'[d] = tx[d]
      /\ Phase(c)' = ph /\ Op(c)' = Op(c) /\ Target(c)' = Target(c)
  <2>1. /\ tx' \in [Clients -> TxRecord]
        /\ tx'[c] = x
        /\ \A d \in Clients \ {c} : tx'[d] = tx[d]
        /\ Phase(c)' = x.phase /\ Op(c)' = x.req.op /\ Target(c)' = x.req.edge
    BY <1>1, <1>4, <1>5, TxUpdated
  <2>2. x.phase = ph /\ x.req.op = Op(c) /\ x.req.edge = Target(c)
    BY <1>5 DEF Op, Target
  <2> QED
    BY <2>1, <2>2
<1>7. nodeLock' \in [Nodes -> Clients \cup {Free}]
  BY <1>1, <1>3
<1>8. TypeOK'
  BY <1>1, <1>3, <1>6, <1>7 DEF TypeOK, TxRecord
<1>9. LocksHeld(c)'
  <2>1. LockSet(c)' = LockSet(c)
    BY <1>5, <1>6 DEF LockSet
  <2>2. LockSet(c) \subseteq Nodes
    BY <1>1 DEF LocksHeld, Locking, LockSet, SourcesToLock
  <2>3. \A m \in LockSet(c) \ rest : nodeLock'[m] = c
    BY <1>1, <1>3, <2>2 DEF LocksHeld, Locking
  <2>4. Op(c) # "create" => tx'[c].observed \in Nodes
    BY <1>1, <1>5, <1>6 DEF LocksHeld, Locking
  <2>5. Phase(c)' = "lock" <=> rest # {}
    BY <1>6
  <2>6. (Op(c) = "create" => ph # "recheck") /\ (Op(c) = "remove" => ph # "validate")
    OBVIOUS
  <2> QED
    BY <1>5, <1>6, <2>1, <2>3, <2>4, <2>5, <2>6 DEF LocksHeld
<1>10. FreshId(c)'
  BY <1>1, <1>3, <1>6 DEF FreshId, Phase, Op, Target
<1>11. ClientInv(c)'
  BY <1>6, <1>9, <1>10 DEF ClientInv, TargetKept, ChecksHold, SiblingsHold, Locked, Checked
<1>12. OthersKept(c)
  BY <1>1, <1>3, <1>6, EdgesAssumption DEF OthersKept
<1>13. StepOf(c)
  BY <1>1, <1>3, <1>6, <1>12 DEF StepOf
<1> QED
  BY <1>8, <1>11, <1>13 DEF Keeps

\* The edge moved under the attempt.
LEMMA RetryKeeps ==
    ASSUME IInv, NEW c \in Clients, Retry(c)
    PROVE  Keeps(c)
<1> DEFINE x == [Idle EXCEPT !.phase = "observe", !.req = tx[c].req]
<1>1. TypeOK /\ tx[c] \in TxRecord /\ Phase(c) = "recheck" /\ Op(c) # "create"
  BY DEF IInv, ClientInv, LocksHeld, Locking, TypeOK, TxRecord, Retry
<1>2. Release(c) /\ tx' = [tx EXCEPT ![c] = x] /\ UNCHANGED <<edges, minted, issued, old, new>>
  BY DEF Retry, reads
<1>3. x \in TxRecord /\ x.phase = "observe" /\ x.req = tx[c].req
  BY <1>1, Defaults DEF TxRecord, Phases
<1> HIDE DEF x
<1>4. /\ tx' \in [Clients -> TxRecord]
      /\ \A d \in Clients \ {c} : tx'[d] = tx[d]
      /\ Phase(c)' = "observe" /\ Op(c)' # "create"
  BY <1>1, <1>2, <1>3, TxUpdated DEF Op
<1>5. TypeOK'
  BY <1>1, <1>2, <1>4, Released DEF TypeOK, TxRecord
<1>6. ClientInv(c)'
  BY <1>4 DEF ClientInv, LocksHeld, TargetKept, FreshId, ChecksHold, SiblingsHold,
              Locking, Locked, Checked
<1>7. OthersKept(c)
  BY <1>1, <1>2, <1>4, Released DEF OthersKept
<1>8. StepOf(c)
  BY <1>2, <1>4, <1>7 DEF StepOf
<1> QED
  BY <1>5, <1>6, <1>8 DEF Keeps

\* A step that only moves an operation to its next phase keeps what the
\* phase does not name.
LEMMA PhaseKeeps ==
    ASSUME IInv, NEW c \in Clients, NEW ph \in Phases,
           tx' = [tx EXCEPT ![c] = [tx[c] EXCEPT !.phase = ph]],
           UNCHANGED <<edges, nodeLock, minted, issued>>,
           edgeLock' \in [EdgeIds -> Clients \cup {Free}],
           \A d \in Clients \ {c} : old'[d] = old[d] /\ new'[d] = new[d],
           old' = [d \in Clients |-> old'[d]], IsSnapshot(old'[c]),
           new' = [d \in Clients |-> new'[d]], IsSnapshot(new'[c]),
           Phase(c) \in Locking \ {"lock"}, ph \in Checked \cup {"validate"},
           Op(c) = "remove" => ph # "validate",
           TargetKept(c)', ChecksHold(c)', SiblingsHold(c)'
    PROVE  Keeps(c)
<1> DEFINE x == [tx[c] EXCEPT !.phase = ph]
<1>1. TypeOK /\ tx[c] \in TxRecord /\ LocksHeld(c) /\ FreshId(c)
  BY DEF IInv, ClientInv, TypeOK, TxRecord
<1>2. /\ x \in TxRecord /\ x.phase = ph /\ x.req = tx[c].req
      /\ x.observed = tx[c].observed /\ x.pending = tx[c].pending
  BY <1>1 DEF TxRecord
<1>3. tx' = [tx EXCEPT ![c] = x]
  OBVIOUS
<1> HIDE DEF x
<1>4. /\ tx' \in [Clients -> TxRecord]
      /\ tx'[c] = x
      /\ \A d \in Clients \ {c} : tx'[d] = tx[d]
      /\ Phase(c)' = ph /\ Op(c)' = Op(c) /\ Target(c)' = Target(c)
  <2>1. /\ tx' \in [Clients -> TxRecord]
        /\ tx'[c] = x
        /\ \A d \in Clients \ {c} : tx'[d] = tx[d]
        /\ Phase(c)' = x.phase /\ Op(c)' = x.req.op /\ Target(c)' = x.req.edge
    BY <1>1, <1>2, <1>3, TxUpdated
  <2>2. x.phase = ph /\ x.req.op = Op(c) /\ x.req.edge = Target(c)
    BY <1>2 DEF Op, Target
  <2> QED
    BY <2>1, <2>2
<1>5. \A d \in Clients : IsSnapshot(old'[d]) /\ IsSnapshot(new'[d])
  BY <1>1 DEF TypeOK
<1>6. TypeOK'
  BY <1>1, <1>4, <1>5 DEF TypeOK, TxRecord
<1>7. LocksHeld(c)'
  <2>1. LockSet(c)' = LockSet(c)
    BY <1>2, <1>4 DEF LockSet
  <2> QED
    BY <1>1, <1>2, <1>4, <2>1 DEF LocksHeld, Locking, Checked
<1>8. FreshId(c)'
  BY <1>1, <1>4 DEF FreshId, Phase, Op, Target, Locking, Checked
<1>9. StepOf(c)
  <2>1. OthersKept(c)
    BY <1>4 DEF OthersKept
  <2>2. Phase(c) # "idle"
    BY DEF Locking
  <2> QED
    BY <1>4, <2>1, <2>2 DEF StepOf
<1> QED
  BY <1>6, <1>7, <1>8, <1>9 DEF Keeps, ClientInv

\* The edge is where the attempt saw it: its row is locked.
LEMMA LockEdgeKeeps ==
    ASSUME IInv, NEW c \in Clients, LockEdge(c)
    PROVE  Keeps(c)
<1> DEFINE ph == IF Op(c) = "remove" THEN "siblings" ELSE "validate"
<1>1. TypeOK /\ tx[c] \in TxRecord /\ Phase(c) = "recheck" /\ Op(c) # "create"
  BY DEF IInv, ClientInv, LocksHeld, Locking, TypeOK, TxRecord, LockEdge
<1>2. /\ Target(c) \in DOMAIN edges /\ edges[Target(c)].from = tx[c].observed
      /\ edgeLock' = [edgeLock EXCEPT ![Target(c)] = c]
      /\ UNCHANGED <<edges, nodeLock, minted, issued, old, new>>
  BY DEF LockEdge, reads, SourceChanged
<1>3. tx' = [tx EXCEPT ![c] = [tx[c] EXCEPT !.phase = ph]]
  BY <1>1 DEF LockEdge, TypeOK
<1>4. ph \in Phases
  BY DEF Phases
<1>5. edgeLock' \in [EdgeIds -> Clients \cup {Free}]
  BY <1>1, <1>2 DEF TypeOK
<1>6. /\ tx'[c] = [tx[c] EXCEPT !.phase = ph]
      /\ Phase(c)' = ph /\ Op(c)' = Op(c) /\ Target(c)' = Target(c)
      /\ tx'[c].observed = tx[c].observed
  BY <1>1, <1>3 DEF TypeOK, TxRecord, Phase, Op, Target
<1>7. TargetKept(c)'
  BY <1>2, <1>6 DEF TargetKept
<1>8. ChecksHold(c)' /\ SiblingsHold(c)'
  BY <1>6 DEF ChecksHold, SiblingsHold, Checked
<1>9. /\ \A d \in Clients \ {c} : old'[d] = old[d] /\ new'[d] = new[d]
      /\ old' = [d \in Clients |-> old'[d]] /\ IsSnapshot(old'[c])
      /\ new' = [d \in Clients |-> new'[d]] /\ IsSnapshot(new'[c])
  BY <1>1, <1>2 DEF TypeOK
<1>10. Phase(c) \in Locking \ {"lock"} /\ ph \in Checked \cup {"validate"}
       /\ (Op(c) = "remove" => ph # "validate")
  BY <1>1 DEF Locking, Checked
<1> HIDE DEF ph
<1> QED
  BY <1>2, <1>3, <1>4, <1>5, <1>7, <1>8, <1>9, <1>10, PhaseKeeps

\* The checks of a create or an update passed.
LEMMA ValidateKeeps ==
    ASSUME IInv, NEW c \in Clients, Validate(c)
    PROVE  Keeps(c)
<1>1. TypeOK /\ tx[c] \in TxRecord /\ Phase(c) = "validate" /\ TargetKept(c)
  BY DEF IInv, ClientInv, TypeOK, TxRecord, Validate
<1>2. Acceptable(c) /\ UNCHANGED <<edges, nodeLock, edgeLock, minted, issued, old, new>>
  BY DEF Validate, reads
<1>3. tx' = [tx EXCEPT ![c] = [tx[c] EXCEPT !.phase = "siblings"]]
  BY <1>1 DEF Validate, TypeOK
<1>4. edgeLock' \in [EdgeIds -> Clients \cup {Free}] /\ "siblings" \in Phases
  BY <1>1, <1>2 DEF TypeOK, Phases
<1>5. /\ tx'[c] = [tx[c] EXCEPT !.phase = "siblings"]
      /\ Phase(c)' = "siblings" /\ Op(c)' = Op(c) /\ Target(c)' = Target(c)
      /\ tx'[c].observed = tx[c].observed /\ tx'[c].req = tx[c].req
  BY <1>1, <1>3 DEF TypeOK, TxRecord, Phase, Op, Target
<1>6. TargetKept(c)'
  BY <1>1, <1>2, <1>5 DEF TargetKept, Locked
<1>7. ChecksHold(c)'
  <2>1. KindOf(c)' = KindOf(c)
    BY <1>2, <1>5 DEF KindOf
  <2> QED
    BY <1>2, <1>5, <2>1 DEF ChecksHold, Acceptable
<1>8. SiblingsHold(c)'
  BY <1>5 DEF SiblingsHold
<1>9. /\ \A d \in Clients \ {c} : old'[d] = old[d] /\ new'[d] = new[d]
      /\ old' = [d \in Clients |-> old'[d]] /\ IsSnapshot(old'[c])
      /\ new' = [d \in Clients |-> new'[d]] /\ IsSnapshot(new'[c])
  BY <1>1, <1>2 DEF TypeOK
<1>10. Phase(c) \in Locking \ {"lock"} /\ "siblings" \in Checked \cup {"validate"}
  BY <1>1 DEF Locking, Checked
<1> QED
  BY <1>2, <1>3, <1>4, <1>6, <1>7, <1>8, <1>9, <1>10, PhaseKeeps

\* The siblings are read.
LEMMA ReadSiblingsKeeps ==
    ASSUME IInv, NEW c \in Clients, ReadSiblings(c)
    PROVE  Keeps(c)
<1>1. /\ TypeOK /\ tx[c] \in TxRecord /\ Phase(c) = "siblings" /\ TargetKept(c)
      /\ ChecksHold(c) /\ Op(c) \in Ops
  BY LocalTypes DEF IInv, ClientInv, TypeOK, TxRecord, ReadSiblings
<1>2. /\ UNCHANGED <<edges, nodeLock, edgeLock, minted, issued>>
      /\ old' = [old EXCEPT ![c] = OldSiblings(c)]
      /\ new' = [new EXCEPT ![c] = NewSiblings(c)]
  BY DEF ReadSiblings
<1>3. tx' = [tx EXCEPT ![c] = [tx[c] EXCEPT !.phase = "write"]]
  BY <1>1 DEF ReadSiblings, TypeOK
<1>4. edgeLock' \in [EdgeIds -> Clients \cup {Free}] /\ "write" \in Phases
  BY <1>1, <1>2 DEF TypeOK, Phases
<1>5. /\ tx'[c] = [tx[c] EXCEPT !.phase = "write"]
      /\ Phase(c)' = "write" /\ Op(c)' = Op(c) /\ Target(c)' = Target(c)
      /\ tx'[c].observed = tx[c].observed /\ tx'[c].req = tx[c].req
  BY <1>1, <1>3 DEF TypeOK, TxRecord, Phase, Op, Target
<1>6. TargetKept(c)'
  BY <1>1, <1>2, <1>5 DEF TargetKept, Locked
<1>7. KindOf(c)' = KindOf(c)
  BY <1>2, <1>5 DEF KindOf
<1>8. ChecksHold(c)'
  BY <1>1, <1>2, <1>5, <1>7 DEF ChecksHold, Acceptable, Checked
<1>9. OldSiblings(c)' = OldSiblings(c)
  BY <1>2, <1>5, <1>7 DEF OldSiblings
<1>10. NewSiblings(c)' = NewSiblings(c)
  BY <1>2, <1>5, <1>7, <1>9 DEF NewSiblings
<1>11. IsSnapshot(OldSiblings(c)) /\ IsSnapshot(NewSiblings(c))
  BY <1>1, SnapshotsRead
<1>12. /\ old = [d \in Clients |-> old[d]] /\ new = [d \in Clients |-> new[d]]
  BY <1>1 DEF TypeOK
<1>13. old'[c] = OldSiblings(c) /\ new'[c] = NewSiblings(c)
  BY <1>1, <1>2, Locals
<1>14. SiblingsHold(c)'
  BY <1>9, <1>10, <1>13 DEF SiblingsHold
<1>15. \A d \in Clients \ {c} : old'[d] = old[d] /\ new'[d] = new[d]
  BY <1>1, <1>2, Locals
<1>16. old' = [d \in Clients |-> old'[d]] /\ new' = [d \in Clients |-> new'[d]]
  BY <1>2, <1>12
<1>17. Phase(c) \in Locking \ {"lock"} /\ "write" \in Checked \cup {"validate"}
  BY <1>1 DEF Locking, Checked
<1> QED
  BY <1>2, <1>3, <1>4, <1>6, <1>8, <1>11, <1>13, <1>14, <1>15, <1>16, <1>17, PhaseKeeps

\* The write of an operation whose checks and reads hold keeps the rules of
\* the catalog.
LEMMA WriteConsistent ==
    ASSUME TypeOK, CatalogConsistent, NEW c \in Clients, ClientInv(c), Phase(c) = "write"
    PROVE  Consistent(Written(c)) /\ DOMAIN Written(c) \subseteq DOMAIN edges \cup {Target(c)}
<1> DEFINE W == Written(c)
           r == tx[c].req
           e == Target(c)
<1>1. OperationLeaves(c, W) /\ Op(c) \in Ops /\ r.edge = e
  BY OperationWrites, LocalTypes DEF Target
<1> HIDE DEF W
<1>2. DOMAIN W \subseteq DOMAIN edges \cup {e} /\ (Op(c) = "remove" => e \notin DOMAIN W)
  BY <1>1 DEF OperationLeaves, WrittenIds, Ops
<1>3. \A i \in DOMAIN W \ {e} :
         /\ i \in DOMAIN edges
         /\ W[i].kind = edges[i].kind /\ W[i].from = edges[i].from /\ W[i].to = edges[i].to
  BY <1>1, <1>2 DEF OperationLeaves
<1>4. ASSUME e \in DOMAIN W
      PROVE  /\ W[e].kind = KindOf(c) /\ W[e].from = r.from /\ W[e].to = r.to
             /\ ~KindMismatch(KindOf(c), r.from, r.to)
             /\ ~Duplicate(edges, KindOf(c), r.from, r.to, e)
  BY <1>1, <1>2, <1>4 DEF OperationLeaves, ClientInv, ChecksHold, Checked, Acceptable
<1>5. ASSUME NEW i \in DOMAIN W
      PROVE  ~KindMismatch(W[i].kind, W[i].from, W[i].to)
  <2>1. CASE i = e
    BY <1>4, <2>1
  <2>2. CASE i # e
    BY <1>3, <2>2 DEF CatalogConsistent, Consistent
  <2> QED
    BY <2>1, <2>2
<1>6. ASSUME NEW i \in DOMAIN W, NEW j \in DOMAIN W \ {i},
             W[j].kind = W[i].kind, W[j].from = W[i].from, W[j].to = W[i].to
      PROVE  FALSE
  <2>1. CASE i # e /\ j # e
    BY <1>3, <1>6, <2>1 DEF CatalogConsistent, Consistent, Duplicate
  <2>2. CASE i = e
    BY <1>3, <1>4, <1>6, <2>2 DEF Duplicate
  <2>3. CASE j = e
    BY <1>3, <1>4, <1>6, <2>3 DEF Duplicate
  <2> QED
    BY <2>1, <2>2, <2>3
<1> QED
  BY <1>2, <1>5, <1>6 DEF Consistent, Duplicate, W

-----------------------------------------------------------------------------
(* The invariant                                                           *)

\* A client's step leaves the invariants of the others alone.
LEMMA OthersKeep ==
    ASSUME IInv, NEW c \in Clients, Keeps(c), NEW d \in Clients \ {c}
    PROVE  ClientInv(d)'
<1>1. TypeOK /\ ClientInv(c) /\ ClientInv(d) /\ FreshId(c) /\ FreshId(d)
  BY DEF IInv, ClientInv
<1>2. StepOf(c) /\ FreshId(c)'
  BY DEF Keeps, ClientInv
<1>3. /\ tx'[d] = tx[d] /\ old'[d] = old[d] /\ new'[d] = new[d]
      /\ \A n \in Nodes : nodeLock[n] = d => nodeLock'[n] = d
  BY <1>2 DEF StepOf, OthersKept
<1>4. edges' = edges \/ (Phase(c) = "write" /\ edges' = Written(c))
  BY <1>2 DEF StepOf
<1>5. /\ \A x \in Clients \ {c} : /\ Phase(x)' = Phase(x) /\ Op(x)' = Op(x)
                                  /\ Target(x)' = Target(x)
  BY <1>2 DEF StepOf, OthersKept, Phase, Op, Target
<1>6. FreshId(d)'
  <2> SUFFICES ASSUME Phase(d) # "idle", Op(d) = "create"
               PROVE  /\ Phase(d) # "observe"
                      /\ Target(d) \in minted' \ DOMAIN edges'
                      /\ \A x \in Clients \ {d} :
                            Phase(x)' # "idle" /\ Op(x)' = "create" => Target(x)' # Target(d)
    BY <1>5 DEF FreshId
  <2>1. Phase(d) # "observe" /\ Target(d) \in minted \ DOMAIN edges
    BY <1>1 DEF FreshId
  <2>2. Target(d) \in minted'
    BY <1>2, <2>1 DEF StepOf
  <2>3. Target(d) \notin DOMAIN edges'
    <3>1. CASE edges' = edges
      BY <2>1, <3>1
    <3>2. CASE Phase(c) = "write" /\ edges' = Written(c)
      <4>1. OperationLeaves(c, Written(c)) /\ Op(c) \in Ops
        BY <1>1, <3>2, OperationWrites, LocalTypes
      <4>2. Op(c) = "create" => Target(c) # Target(d)
        BY <1>1, <3>2 DEF FreshId
      <4> QED
        BY <2>1, <3>2, <4>1, <4>2 DEF OperationLeaves, WrittenIds, Ops
    <3> QED
      BY <1>4, <3>1, <3>2
  <2>4. ASSUME NEW x \in Clients \ {d}, Phase(x)' # "idle", Op(x)' = "create"
        PROVE  Target(x)' # Target(d)
    <3>1. CASE x # c
      BY <1>1, <1>5, <2>4, <3>1 DEF FreshId
    <3>2. CASE x = c
      BY <1>1, <1>2, <2>1, <2>4, <3>2 DEF StepOf, FreshId
    <3> QED
      BY <3>1, <3>2
  <2> QED
    BY <2>1, <2>2, <2>3, <2>4
<1>7. CASE edges' = edges
  <2>1. AgreeOutside(edges, edges', {})
    BY <1>7 DEF AgreeOutside
  <2> QED
    BY <1>1, <1>3, <1>6, <2>1, Undisturbed
<1>8. CASE Phase(c) = "write" /\ edges' = Written(c)
  <2>1. AgreeOutside(edges, edges', LockSet(c))
    BY <1>1, <1>8, WrittenAgrees
  <2>2. \A n \in LockSet(c) : nodeLock[n] = c
    BY <1>1, <1>8, LocalTypes DEF ClientInv, LocksHeld, Locking
  <2>3. Phase(d) \in Locked => \A n \in LockSet(d) : nodeLock[n] = d
    BY <1>1, LocalTypes DEF ClientInv, LocksHeld, Locking, Locked
  <2>4. Phase(d) \in Locked => LockSet(c) \cap LockSet(d) = {}
    BY <2>2, <2>3
  <2> QED
    BY <1>1, <1>3, <1>6, <2>1, <2>4, Undisturbed
<1> QED
  BY <1>4, <1>7, <1>8

\* Every kind of step keeps the stepping client's invariant.
LEMMA StepKeeps ==
    ASSUME IInv, NEW c \in Clients, ClientStep(c)
    PROVE  Keeps(c)
<1>1. ASSUME NEW r \in Requests, Submit(c, r) PROVE Keeps(c)
  BY <1>1, SubmitKeeps
<1>2. CASE ObserveMissing(c)
  BY <1>2, FinishKeeps DEF ObserveMissing
<1>3. CASE Observe(c)
  BY <1>3, ObserveKeeps
<1>4. CASE LockNode(c)
  BY <1>4, LockNodeKeeps
<1>5. CASE RecheckMissing(c)
  BY <1>5, FinishKeeps DEF RecheckMissing
<1>6. CASE Retry(c)
  BY <1>6, RetryKeeps
<1>7. CASE LockEdge(c)
  BY <1>7, LockEdgeKeeps
<1>8. CASE Validate(c)
  BY <1>8, ValidateKeeps
<1>9. CASE Reject(c)
  BY <1>9, FinishKeeps DEF Reject
<1>10. CASE ReadSiblings(c)
  BY <1>10, ReadSiblingsKeeps
<1>11. CASE Write(c)
  BY <1>11, FinishKeeps DEF Write
<1>12. CASE Fail(c)
  BY <1>12, FinishKeeps DEF Fail
<1>13. CASE BreakDeadlock(c)
  BY <1>13, FinishKeeps DEF BreakDeadlock
<1> QED
  BY <1>1, <1>2, <1>3, <1>4, <1>5, <1>6, <1>7, <1>8, <1>9, <1>10, <1>11, <1>12,
     <1>13 DEF ClientStep, Step

\* The inductive invariant holds at the start.
LEMMA InitInv == Init => IInv
<1> SUFFICES ASSUME Init PROVE IInv
  OBVIOUS
<1>1. IsTable(edges) /\ CatalogConsistent /\ DOMAIN edges = minted
  BY EdgesAssumption DEF Init, CatalogConsistent
<1>2. minted \subseteq EdgeIds
  BY <1>1 DEF IsTable
<1>3. tx \in [Clients -> TxRecord] /\ \A c \in Clients : tx[c] = Idle
  BY Defaults DEF Init, TxRecord
<1>4. \A c \in Clients : IsSnapshot(old[c]) /\ IsSnapshot(new[c])
  BY Defaults DEF Init
<1>5. TypeOK
  BY <1>1, <1>2, <1>3, <1>4 DEF Init, TypeOK, TxRecord
<1>6. \A c \in Clients : Phase(c) = "idle"
  BY <1>3, Defaults DEF Phase
<1>7. \A c \in Clients : ClientInv(c)
  BY <1>6 DEF ClientInv, LocksHeld, TargetKept, FreshId, ChecksHold, SiblingsHold,
              Locking, Locked, Checked
<1> QED
  BY <1>1, <1>5, <1>7 DEF IInv

\* Every step keeps the inductive invariant.
LEMMA NextInv == IInv /\ [Next]_vars => IInv'
<1> SUFFICES ASSUME IInv, [Next]_vars PROVE IInv'
  OBVIOUS
<1>1. ASSUME NEW c \in Clients, ClientStep(c) PROVE IInv'
  <2>1. Keeps(c)
    BY <1>1, StepKeeps
  <2>2. \A d \in Clients : ClientInv(d)'
    BY <2>1, OthersKeep DEF Keeps
  <2>3. TypeOK /\ ClientInv(c) /\ CatalogConsistent /\ DOMAIN edges \subseteq minted
    BY DEF IInv
  <2>4. minted \subseteq minted' /\ (edges' = edges \/ (Phase(c) = "write" /\ edges' = Written(c)))
    BY <2>1 DEF Keeps, StepOf
  <2>5. DOMAIN edges' \subseteq minted' /\ CatalogConsistent'
    <3>1. CASE edges' = edges
      BY <2>3, <2>4, <3>1 DEF CatalogConsistent, Consistent
    <3>2. CASE Phase(c) = "write" /\ edges' = Written(c)
      <4>1. /\ Consistent(Written(c))
            /\ DOMAIN Written(c) \subseteq DOMAIN edges \cup {Target(c)}
        BY <2>3, <3>2, WriteConsistent
      <4>2. Target(c) \in minted
        BY <2>3, <3>2 DEF ClientInv, FreshId, TargetKept, Locked
      <4> QED
        BY <2>3, <2>4, <3>2, <4>1, <4>2 DEF CatalogConsistent
    <3> QED
      BY <2>4, <3>1, <3>2
  <2> QED
    BY <2>1, <2>2, <2>5 DEF Keeps, IInv
<1>2. ASSUME UNCHANGED vars PROVE IInv'
  <2>1. UNCHANGED <<edges, nodeLock, edgeLock, minted, issued, tx, old, new>>
    BY <1>2 DEF vars
  <2>2. TypeOK' /\ CatalogConsistent' /\ DOMAIN edges' \subseteq minted'
    BY <2>1 DEF IInv, TypeOK, CatalogConsistent, Consistent
  <2>3. ASSUME NEW c \in Clients PROVE ClientInv(c)'
    <3>1. /\ Phase(c)' = Phase(c) /\ Op(c)' = Op(c) /\ Target(c)' = Target(c)
          /\ LockSet(c)' = LockSet(c) /\ KindOf(c)' = KindOf(c)
      BY <2>1 DEF Phase, Op, Target, LockSet, KindOf
    <3>2. LocksHeld(c)' /\ TargetKept(c)'
      BY <2>1, <3>1 DEF IInv, ClientInv, LocksHeld, TargetKept
    <3>3. FreshId(c)'
      BY <2>1 DEF IInv, ClientInv, FreshId, Phase, Op, Target
    <3>4. ChecksHold(c)'
      BY <2>1, <3>1 DEF IInv, ClientInv, ChecksHold, Acceptable
    <3>5. OldSiblings(c)' = OldSiblings(c)
      BY <2>1, <3>1 DEF OldSiblings
    <3>6. SiblingsHold(c)'
      BY <2>1, <3>1, <3>5 DEF IInv, ClientInv, SiblingsHold, NewSiblings
    <3> QED
      BY <3>2, <3>3, <3>4, <3>6 DEF ClientInv
  <2> QED
    BY <2>2, <2>3 DEF IInv
<1> QED
  BY <1>1, <1>2 DEF Next, ClientStep

\* The inductive invariant: types, locks held, checks and reads still valid.
THEOREM InvariantHolds == Spec => []IInv
<1> QED
  BY InitInv, NextInv, PTL DEF Spec

\* Every variable keeps its type.
THEOREM TypeCorrect == Spec => []TypeOK
<1>1. IInv => TypeOK
  BY DEF IInv
<1> QED
  BY <1>1, InvariantHolds, PTL

\* What an operation checked and read is still so when it writes, for any
\* number of concurrent operations on any catalog.
THEOREM ReadsCurrent == Spec => []ReadsStillCurrent
<1>1. IInv => ReadsStillCurrent
  BY DEF IInv, ClientInv, TargetKept, ChecksHold, SiblingsHold, ReadsStillCurrent,
         Locked, Checked
<1> QED
  BY <1>1, InvariantHolds, PTL

\* No interleaving stores a duplicate triple or an edge between nodes of the
\* wrong kinds.
THEOREM Consistency == Spec => []CatalogConsistent
<1>1. IInv => CatalogConsistent
  BY DEF IInv
<1> QED
  BY <1>1, InvariantHolds, PTL

-----------------------------------------------------------------------------
(* Refinement                                                              *)

\* The table changes only by writing.
LEMMA TableChanges ==
    ASSUME NEW c \in Clients, ClientStep(c)
    PROVE  edges' = edges \/ Write(c)
BY DEF ClientStep, Submit, Step, ObserveMissing, Observe, LockNode, RecheckMissing,
       Retry, LockEdge, Validate, Reject, ReadSiblings, Fail, BreakDeadlock

\* Both specifications compute positions with the same operators.
LEMMA SameOperators ==
    /\ \A t, n, k : Atomic!Siblings(t, n, k) = Siblings(t, n, k)
    /\ \A s, e : Atomic!Without(s, e) = Without(s, e)
    /\ \A t, e, n, s : Atomic!InsertionGroup(t, e, n, s) = InsertionGroup(t, e, n, s)
    /\ \A n, m : Atomic!EndpointsExist(n, m) <=> EndpointsExist(n, m)
    /\ \A k, n, m : Atomic!KindMismatch(k, n, m) <=> KindMismatch(k, n, m)
    /\ \A t, k, n, m, e : Atomic!Duplicate(t, k, n, m, e) <=> Duplicate(t, k, n, m, e)
<1>1. \A t, n, k : Atomic!Siblings(t, n, k) = Siblings(t, n, k)
  BY DEF Siblings, Group, Atomic!Siblings, Atomic!Group
<1>2. \A s, e : Atomic!Without(s, e) = Without(s, e)
  BY DEF Without, Atomic!Without
<1>3. \A t, e, n, s : Atomic!InsertionGroup(t, e, n, s) = InsertionGroup(t, e, n, s)
  BY <1>1, <1>2 DEF InsertionGroup, Atomic!InsertionGroup
<1>4. \A n, m : Atomic!EndpointsExist(n, m) <=> EndpointsExist(n, m)
  BY DEF EndpointsExist, Atomic!EndpointsExist
<1>5. \A k, n, m : Atomic!KindMismatch(k, n, m) <=> KindMismatch(k, n, m)
  BY DEF KindMismatch, FromKind, ToKind, Atomic!KindMismatch, Atomic!FromKind, Atomic!ToKind
<1>6. \A t, k, n, m, e : Atomic!Duplicate(t, k, n, m, e) <=> Duplicate(t, k, n, m, e)
  BY DEF Duplicate, Atomic!Duplicate
<1> QED
  BY <1>1, <1>2, <1>3, <1>4, <1>5, <1>6

\* Both specifications write the same tables, operation by operation.
LEMMA SameWrites ==
    /\ \A t, s : Atomic!Compacted(t, s) = Compacted(t, s)
    /\ \A t, e, k, n, m, p, s :
          Atomic!Inserted(t, e, k, n, m, p, s) = Inserted(t, e, k, n, m, p, s)
    /\ \A t, e, n, m, p, s, u :
          Atomic!Moved(t, e, n, m, p, s, u) = Moved(t, e, n, m, p, s, u)
    /\ \A t, e, s : Atomic!Removed(t, e, s) = Removed(t, e, s)
<1>1. \A s, i : Atomic!IndexIn(s, i) = IndexIn(s, i)
  BY Zenon DEF IndexIn, Atomic!IndexIn, Cardinality, Atomic!Cardinality
<1>2. \A t, s : Atomic!Compacted(t, s) = Compacted(t, s)
  BY <1>1 DEF Compacted, Atomic!Compacted
<1>3. \A s, i, p : Atomic!SlotAfterInsert(s, i, p) = SlotAfterInsert(s, i, p)
  BY <1>1 DEF SlotAfterInsert, Atomic!SlotAfterInsert
<1>4. \A t, s, p : Atomic!Shifted(t, s, p) = Shifted(t, s, p)
  BY <1>3 DEF Shifted, Atomic!Shifted
<1>5. \A s, p : Atomic!InsertAt(s, p) = InsertAt(s, p)
  BY Zenon DEF InsertAt, Atomic!InsertAt, Cardinality, Atomic!Cardinality
<1>6. \A s, e : Atomic!Without(s, e) = Without(s, e)
  BY SameOperators
<1>7. \A t, e, k, n, m, p, s :
         Atomic!Inserted(t, e, k, n, m, p, s) = Inserted(t, e, k, n, m, p, s)
  BY <1>4, <1>5 DEF Inserted, Atomic!Inserted
<1>8. \A t, e, n, m, p, s, u :
         Atomic!Moved(t, e, n, m, p, s, u) = Moved(t, e, n, m, p, s, u)
  BY <1>2, <1>4, <1>5, <1>6 DEF Moved, Atomic!Moved
<1>9. \A t, e, s : Atomic!Removed(t, e, s) = Removed(t, e, s)
  BY <1>2 DEF Removed, Atomic!Removed
<1> QED
  BY <1>2, <1>7, <1>8, <1>9

\* A committing write is the atomic operation of the abstract catalog.
LEMMA WriteIsAtomic ==
    ASSUME IInv, NEW c \in Clients, Write(c)
    PROVE  Atomic!Next
<1> DEFINE r == tx[c].req
<1>1. /\ TypeOK /\ ClientInv(c) /\ Phase(c) = "write" /\ edges' = Written(c)
  BY DEF IInv, Write
<1>2. /\ Op(c) \in Ops /\ r.edge \in EdgeIds /\ r.from \in NodeIds /\ r.to \in NodeIds
      /\ r.position \in Positions /\ r.kind \in EdgeKinds /\ Target(c) = r.edge
  BY <1>1, LocalTypes DEF Target, Request
<1>3. old[c] = OldSiblings(c) /\ new[c] = NewSiblings(c)
  BY <1>1 DEF ClientInv, SiblingsHold
<1>4. Op(c) # "create" => r.edge \in DOMAIN edges
  BY <1>1, <1>2, OwnSources
<1>5. Op(c) # "remove" => Acceptable(c)
  BY <1>1 DEF ClientInv, ChecksHold, Checked
<1>6. CASE Op(c) = "create"
  <2>1. r.edge \notin DOMAIN edges
    BY <1>1, <1>2, <1>6, OwnSources
  <2>2. KindOf(c) = r.kind
    BY <1>6 DEF KindOf
  <2>3. edges' = Inserted(edges, r.edge, r.kind, r.from, r.to, r.position,
                          Siblings(edges, r.from, r.kind))
    BY <1>1, <1>3, <1>6, <2>2 DEF Written, NewSiblings
  <2>4. Atomic!Create(r.edge, r.kind, r.from, r.to, r.position)
    BY <1>5, <1>6, <2>1, <2>2, <2>3, SameOperators, SameWrites
       DEF Acceptable, Atomic!Create
  <2> QED
    BY <1>2, <2>4 DEF Atomic!Next, EdgeKinds, Atomic!EdgeKinds
<1>7. CASE Op(c) = "update"
  <2>1. KindOf(c) = edges[r.edge].kind
    BY <1>2, <1>7 DEF KindOf
  <2>2. OldSiblings(c) = Siblings(edges, edges[r.edge].from, edges[r.edge].kind)
    BY <1>2, <1>7, <2>1 DEF OldSiblings
  <2>3. NewSiblings(c) = InsertionGroup(edges, r.edge, r.from, OldSiblings(c))
    BY <1>2, <1>7 DEF NewSiblings
  <2>4. edges' = Moved(edges, r.edge, r.from, r.to, r.position,
                       OldSiblings(c), NewSiblings(c))
    BY <1>1, <1>3, <1>7 DEF Written
  <2>5. Atomic!Update(r.edge, r.from, r.to, r.position)
    BY <1>4, <1>5, <1>7, <2>1, <2>2, <2>3, <2>4, SameOperators, SameWrites
       DEF Acceptable, Atomic!Update
  <2> QED
    BY <1>2, <2>5 DEF Atomic!Next
<1>8. CASE Op(c) = "remove"
  <2>1. KindOf(c) = edges[r.edge].kind
    BY <1>2, <1>8 DEF KindOf
  <2>2. OldSiblings(c) =
          Without(Siblings(edges, edges[r.edge].from, edges[r.edge].kind), r.edge)
    BY <1>2, <1>8, <2>1 DEF OldSiblings
  <2>3. edges' = Removed(edges, r.edge, OldSiblings(c))
    BY <1>1, <1>3, <1>8 DEF Written
  <2>4. Atomic!Remove(r.edge)
    BY <1>4, <1>8, <2>2, <2>3, SameOperators, SameWrites DEF Atomic!Remove
  <2> QED
    BY <1>2, <2>4 DEF Atomic!Next
<1> QED
  BY <1>2, <1>6, <1>7, <1>8 DEF Ops

\* The edge operations are linearizable: each one takes effect at its commit
\* as if it ran alone, whatever the others do.
THEOREM Refinement == Spec => AtomicOperations
<1>1. Init => Atomic!Init
  BY DEF Init, Atomic!Init
<1>2. IInv /\ [Next]_vars => [Atomic!Next]_edges
  <2> SUFFICES ASSUME IInv, [Next]_vars PROVE [Atomic!Next]_edges
    OBVIOUS
  <2>1. ASSUME NEW c \in Clients, ClientStep(c) PROVE [Atomic!Next]_edges
    BY <2>1, TableChanges, WriteIsAtomic
  <2>2. CASE UNCHANGED vars
    BY <2>2 DEF vars
  <2> QED
    BY <2>1, <2>2 DEF Next, ClientStep
<1> QED
  BY <1>1, <1>2, InvariantHolds, PTL DEF Spec, AtomicOperations, Atomic!Spec

-----------------------------------------------------------------------------
(* Positions                                                               *)

\* ORDER BY position, id numbers the rows of a group 0, 1, 2...
LEMMA IndexesDense ==
    ASSUME NEW s, IsSnapshot(s)
    PROVE  {IndexIn(s, i) : i \in DOMAIN s} = 0 .. (Cardinality(DOMAIN s) - 1)
<1> DEFINE D == DOMAIN s
           n == Cardinality(D)
           Ahead(j, i) == s[j] < s[i] \/ (s[j] = s[i] /\ j < i)
           B(i) == {j \in D : Ahead(j, i)}
           f == [i \in D |-> IndexIn(s, i)]
<1>1. /\ D \subseteq Nat /\ IsFiniteSet(D) /\ n \in Nat
      /\ \A i \in D : s[i] \in Nat
  BY CatalogAssumption, FS_Subset, FS_CardinalityType DEF IsSnapshot
<1>2. \A i \in D : IndexIn(s, i) = Cardinality(B(i))
  BY DEF IndexIn
<1>3. ASSUME NEW i \in D
      PROVE  IsFiniteSet(B(i)) /\ Cardinality(B(i)) \in 0 .. (n - 1)
  <2>1. B(i) \in SUBSET (D \ {i})
    BY <1>1
  <2>2. IsFiniteSet(D \ {i}) /\ Cardinality(D \ {i}) = n - 1
    BY <1>1, FS_RemoveElement
  <2>3. IsFiniteSet(B(i)) /\ Cardinality(B(i)) <= n - 1
    BY <2>1, <2>2, FS_Subset
  <2> HIDE DEF B, n
  <2> QED
    BY <1>1, <2>3, FS_CardinalityType
<1>4. ASSUME NEW i \in D, NEW j \in D, Ahead(i, j)
      PROVE  Cardinality(B(i)) < Cardinality(B(j))
  <2>1. B(i) \cup {i} \in SUBSET B(j) /\ i \notin B(i)
    BY <1>1, <1>4
  <2>2. Cardinality(B(i) \cup {i}) = Cardinality(B(i)) + 1
    BY <1>3, <2>1, FS_AddElement
  <2>3. Cardinality(B(i) \cup {i}) <= Cardinality(B(j))
    BY <1>3, <2>1, FS_Subset
  <2> HIDE DEF B, n
  <2> QED
    BY <1>3, <2>2, <2>3
<1>5. ASSUME NEW i \in D, NEW j \in D, i # j PROVE Ahead(i, j) \/ Ahead(j, i)
  BY <1>1, <1>5
<1> HIDE DEF B, Ahead, n
<1>6. ASSUME NEW i \in D, NEW j \in D, f[i] = f[j] PROVE i = j
  BY <1>2, <1>3, <1>4, <1>5, <1>6
<1>7. f \in Injection(D, 0 .. (n - 1))
  BY <1>2, <1>3, <1>6 DEF Injection, IsInjective
<1>8. IsFiniteSet(0 .. (n - 1)) /\ Cardinality(0 .. (n - 1)) = n
  BY <1>1, FS_Interval
<1>9. f \in Surjection(D, 0 .. (n - 1))
  <2> HIDE DEF f
  <2> QED
    BY <1>1, <1>7, <1>8, FS_Injection DEF n
<1>10. ASSUME NEW k \in 0 .. (n - 1) PROVE \E i \in D : IndexIn(s, i) = k
  BY <1>9 DEF Surjection
<1>11. \A i \in D : IndexIn(s, i) \in 0 .. (n - 1)
  BY <1>2, <1>3
<1> QED
  BY <1>10, <1>11 DEF n

\* A group whose rows are at their indexes is dense.
LEMMA AtIndexes ==
    ASSUME NEW u, NEW n, NEW k, NEW s, IsSnapshot(s), Group(u, n, k) = DOMAIN s,
           \A i \in DOMAIN s : u[i].position = IndexIn(s, i)
    PROVE  Dense(u, n, k)
<1>1. {u[i].position : i \in Group(u, n, k)} = {IndexIn(s, i) : i \in DOMAIN s}
  OBVIOUS
<1> QED
  BY <1>1, IndexesDense DEF Dense

\* A row put at p among rows that made room for it leaves a dense group.
LEMMA AtSlots ==
    ASSUME NEW u, NEW n, NEW k, NEW s, IsSnapshot(s), NEW e, e \notin DOMAIN s,
           Group(u, n, k) = DOMAIN s \cup {e},
           NEW p \in Nat, p <= Cardinality(DOMAIN s), u[e].position = p,
           \A i \in DOMAIN s : u[i].position = SlotAfterInsert(s, i, p)
    PROVE  Dense(u, n, k)
<1> DEFINE m == Cardinality(DOMAIN s)
<1>1. IsFiniteSet(DOMAIN s)
  BY CatalogAssumption, FS_Subset DEF IsSnapshot
<1>2. m \in Nat /\ Cardinality(DOMAIN s \cup {e}) = m + 1
  BY <1>1, FS_CardinalityType, FS_AddElement
<1>3. {IndexIn(s, i) : i \in DOMAIN s} = 0 .. (m - 1)
  BY IndexesDense
<1> HIDE DEF m
<1>4. ASSUME NEW i \in Group(u, n, k) PROVE u[i].position \in 0 .. m
  <2>1. CASE i = e
    BY <1>2, <2>1 DEF m
  <2>2. CASE i \in DOMAIN s
    <3>1. IndexIn(s, i) \in 0 .. (m - 1)
      BY <1>3, <2>2
    <3> QED
      BY <1>2, <2>2, <3>1 DEF SlotAfterInsert
  <2> QED
    BY <2>1, <2>2
<1>5. ASSUME NEW q \in 0 .. m PROVE \E i \in Group(u, n, k) : u[i].position = q
  <2>1. CASE q = p
    BY <2>1
  <2>2. CASE q < p
    <3>1. q \in 0 .. (m - 1)
      BY <1>2, <2>2 DEF m
    <3>2. PICK i \in DOMAIN s : IndexIn(s, i) = q
      BY <1>3, <3>1
    <3> QED
      BY <2>2, <3>2 DEF SlotAfterInsert
  <2>3. CASE q > p
    <3>1. q - 1 \in 0 .. (m - 1)
      BY <1>2, <2>3
    <3>2. PICK i \in DOMAIN s : IndexIn(s, i) = q - 1
      BY <1>3, <3>1
    <3> QED
      BY <2>3, <3>2 DEF SlotAfterInsert
  <2> QED
    BY <2>1, <2>2, <2>3
<1>6. {u[i].position : i \in Group(u, n, k)} = 0 .. m
  BY <1>4, <1>5
<1> QED
  BY <1>2, <1>6 DEF Dense

\* Rewriting the positions that differ leaves every row at its index.
LEMMA CompactedPositions ==
    ASSUME NEW t, IsTable(t), NEW s, IsSnapshot(s),
           \A i \in DOMAIN s : i \in DOMAIN t /\ t[i].position = s[i]
    PROVE  \A i \in DOMAIN s : Compacted(t, s)[i].position = IndexIn(s, i)
<1> SUFFICES ASSUME NEW i \in DOMAIN s PROVE Compacted(t, s)[i].position = IndexIn(s, i)
  OBVIOUS
<1>1. t[i] \in Edge
  BY DEF IsTable
<1> QED
  BY <1>1 DEF Compacted, Edge

LEMMA ShiftedPositions ==
    ASSUME NEW t, IsTable(t), NEW s, IsSnapshot(s), NEW p,
           \A i \in DOMAIN s : i \in DOMAIN t /\ t[i].position = s[i]
    PROVE  \A i \in DOMAIN s : Shifted(t, s, p)[i].position = SlotAfterInsert(s, i, p)
<1> SUFFICES ASSUME NEW i \in DOMAIN s
             PROVE  Shifted(t, s, p)[i].position = SlotAfterInsert(s, i, p)
  OBVIOUS
<1>1. t[i] \in Edge
  BY DEF IsTable
<1> QED
  BY <1>1 DEF Shifted, Edge

\* An insertion slot is a position of the group or its end.
LEMMA InsertAtBound ==
    ASSUME NEW s, IsSnapshot(s), NEW requested \in Positions
    PROVE  InsertAt(s, requested) \in Nat /\ InsertAt(s, requested) <= Cardinality(DOMAIN s)
<1>1. IsFiniteSet(DOMAIN s)
  BY CatalogAssumption, FS_Subset DEF IsSnapshot
<1>2. Cardinality(DOMAIN s) \in Nat
  BY <1>1, FS_CardinalityType
<1> QED
  BY <1>2, CatalogAssumption DEF InsertAt

\* s holds the positions of the rows G of the table.
ReadOf(s, t, G) ==
    /\ IsSnapshot(s)
    /\ DOMAIN s = G
    /\ \A i \in DOMAIN s : i \in DOMAIN t /\ t[i].position = s[i]

\* A group read from the table, with or without one of its rows.
LEMMA GroupRead ==
    ASSUME NEW t, IsTable(t), NEW n, NEW k, NEW e
    PROVE  /\ ReadOf(Siblings(t, n, k), t, Group(t, n, k))
           /\ ReadOf(Without(Siblings(t, n, k), e), t, Group(t, n, k) \ {e})
<1>1. IsSnapshot(Siblings(t, n, k)) /\ IsSnapshot(Without(Siblings(t, n, k), e))
  BY SnapshotsOfTable
<1> QED
  BY <1>1 DEF ReadOf, Siblings, Without, Group

\* The groups an operation leaves: only its own row comes or goes.
LEMMA GroupsWritten ==
    ASSUME TypeOK, NEW c \in Clients, ClientInv(c), Phase(c) = "write", NEW n, NEW k
    PROVE  Group(Written(c), n, k) =
              (Group(edges, n, k) \ {Target(c)}) \cup
              (IF Op(c) # "remove" /\ n = tx[c].req.from /\ k = KindOf(c)
               THEN {Target(c)} ELSE {})
<1> DEFINE W == Written(c)
           e == Target(c)
<1>1. OperationLeaves(c, W) /\ Op(c) \in Ops
  BY OperationWrites, LocalTypes
<1>2. Op(c) # "create" => e \in DOMAIN edges
  BY OwnSources
<1> HIDE DEF W, e
<1>3. ASSUME NEW i, i # e PROVE i \in Group(W, n, k) <=> i \in Group(edges, n, k)
  BY <1>1, <1>3 DEF OperationLeaves, WrittenIds, Group, Ops, e
<1>4. e \in Group(W, n, k) <=> Op(c) # "remove" /\ n = tx[c].req.from /\ k = KindOf(c)
  BY <1>1, <1>2 DEF OperationLeaves, WrittenIds, Group, Ops, e
<1> QED
  BY <1>3, <1>4 DEF W, e

\* An operation leaves every group dense that gains or loses a row.
LEMMA CreateDense ==
    ASSUME TypeOK, NEW c \in Clients, ClientInv(c), Phase(c) = "write", Op(c) = "create",
           NEW n, NEW k, Group(Written(c), n, k) # Group(edges, n, k)
    PROVE  Dense(Written(c), n, k)
<1> DEFINE r == tx[c].req
           e == Target(c)
           p == InsertAt(new[c], r.position)
           W == Written(c)
<1>1. /\ IsTable(edges) /\ e \notin DOMAIN edges /\ r.edge = e
      /\ r.position \in Positions /\ IsSnapshot(new[c])
  BY OwnSources, LocalTypes DEF TypeOK, Target
<1>2. KindOf(c) = r.kind
  BY DEF KindOf
<1>3. new[c] = Siblings(edges, r.from, r.kind)
  BY <1>2 DEF ClientInv, SiblingsHold, NewSiblings
<1>4. /\ Group(W, n, k) = (Group(edges, n, k) \ {e}) \cup
            (IF n = r.from /\ k = r.kind THEN {e} ELSE {})
  BY <1>2, GroupsWritten
<1>5. e \notin Group(edges, n, k)
  BY <1>1 DEF Group
<1>6. n = r.from /\ k = r.kind
  BY <1>4, <1>5
<1>7. /\ DOMAIN new[c] = Group(edges, n, k)
      /\ \A i \in DOMAIN new[c] : i \in DOMAIN edges /\ edges[i].position = new[c][i]
  <2>1. ReadOf(new[c], edges, Group(edges, n, k))
    BY <1>1, <1>3, <1>6, GroupRead
  <2> QED
    BY <2>1 DEF ReadOf
<1>8. /\ W[e].position = p
      /\ \A i \in DOMAIN new[c] : W[i] = Shifted(edges, new[c], p)[i]
  BY <1>1, <1>7 DEF Written, Inserted
<1>9. p \in Nat /\ p <= Cardinality(DOMAIN new[c])
  BY <1>1, InsertAtBound
<1>10. \A i \in DOMAIN new[c] : Shifted(edges, new[c], p)[i].position = SlotAfterInsert(new[c], i, p)
  BY <1>1, <1>7, ShiftedPositions
<1> HIDE DEF W, e, p, r
<1>11. Group(W, n, k) = DOMAIN new[c] \cup {e} /\ e \notin DOMAIN new[c]
  BY <1>4, <1>5, <1>6, <1>7
<1>12. \A i \in DOMAIN new[c] : W[i].position = SlotAfterInsert(new[c], i, p)
  BY <1>8, <1>10
<1>13. Dense(W, n, k)
  BY <1>1, <1>8, <1>9, <1>11, <1>12, AtSlots
<1> QED
  BY <1>13 DEF W

LEMMA UpdateDense ==
    ASSUME TypeOK, NEW c \in Clients, ClientInv(c), Phase(c) = "write", Op(c) = "update",
           NEW n, NEW k, Group(Written(c), n, k) # Group(edges, n, k)
    PROVE  Dense(Written(c), n, k)
<1> DEFINE r == tx[c].req
           e == Target(c)
           from == edges[e].from
           kind == edges[e].kind
           rest == Without(old[c], e)
           p == InsertAt(new[c], r.position)
           C == Compacted(edges, rest)
           W == Written(c)
<1>1. /\ IsTable(edges) /\ e \in DOMAIN edges /\ r.edge = e
      /\ r.position \in Positions /\ IsSnapshot(new[c])
  BY OwnSources, LocalTypes DEF TypeOK, Target
<1>2. KindOf(c) = kind
  BY DEF KindOf
<1>3. old[c] = Siblings(edges, from, kind)
  BY <1>2 DEF ClientInv, SiblingsHold, OldSiblings
<1>4. new[c] = InsertionGroup(edges, e, r.from, old[c])
  BY DEF ClientInv, SiblingsHold, NewSiblings
<1>5. Group(W, n, k) = (Group(edges, n, k) \ {e}) \cup
            (IF n = r.from /\ k = kind THEN {e} ELSE {})
  BY <1>2, GroupsWritten
<1>6. e \in Group(edges, n, k) <=> n = from /\ k = kind
  BY <1>1 DEF Group
<1>7. from # r.from /\ k = kind /\ (n = from \/ n = r.from)
  BY <1>5, <1>6
<1>8. /\ IsSnapshot(rest) /\ DOMAIN rest = Group(edges, from, kind) \ {e}
      /\ \A i \in DOMAIN rest : i \in DOMAIN edges /\ edges[i].position = rest[i]
  <2>1. ReadOf(rest, edges, Group(edges, from, kind) \ {e})
    BY <1>1, <1>3, GroupRead
  <2> QED
    BY <2>1 DEF ReadOf
<1>9. /\ DOMAIN new[c] = Group(edges, r.from, kind)
      /\ \A i \in DOMAIN new[c] : i \in DOMAIN edges /\ edges[i].position = new[c][i]
  <2>1. new[c] = Siblings(edges, r.from, kind)
    BY <1>4, <1>7 DEF InsertionGroup
  <2>2. ReadOf(new[c], edges, Group(edges, r.from, kind))
    BY <1>1, <2>1, GroupRead
  <2> QED
    BY <2>2 DEF ReadOf
<1>10. \A i \in DOMAIN edges : i \notin (DOMAIN rest \cap DOMAIN new[c])
  BY <1>7, <1>8, <1>9 DEF Group
<1>11. e \notin DOMAIN new[c] /\ e \notin DOMAIN rest
  BY <1>7, <1>8, <1>9 DEF Group
<1>12. p \in Nat /\ p <= Cardinality(DOMAIN new[c])
  BY <1>1, InsertAtBound
<1>13. /\ W[e].position = p
       /\ \A i \in DOMAIN edges \ {e} : W[i] = Shifted(C, new[c], p)[i]
  BY <1>1 DEF Written, Moved
<1>14. IsTable(C) /\ DOMAIN C = DOMAIN edges
  <2>1. IsSiblings(rest)
    BY <1>8 DEF IsSnapshot, IsSiblings
  <2> QED
    BY <1>1, <2>1, CompactedRows DEF SameExcept
<1>15. \A i \in DOMAIN rest : C[i].position = IndexIn(rest, i)
  BY <1>1, <1>8, CompactedPositions
<1>16. \A i \in DOMAIN new[c] : i \in DOMAIN C /\ C[i].position = new[c][i]
  BY <1>8, <1>9, <1>10, <1>14 DEF Compacted
<1> HIDE DEF C
<1>17. \A i \in DOMAIN new[c] : Shifted(C, new[c], p)[i].position = SlotAfterInsert(new[c], i, p)
  BY <1>1, <1>14, <1>16, ShiftedPositions
<1>18. \A i \in DOMAIN rest : Shifted(C, new[c], p)[i] = C[i]
  BY <1>8, <1>10, <1>14 DEF Shifted
<1> HIDE DEF W, e, p, r, rest, from, kind
<1>19. CASE n = from
  <2>1. Group(W, n, k) = DOMAIN rest
    BY <1>5, <1>7, <1>8, <1>19
  <2>2. \A i \in DOMAIN rest : W[i].position = IndexIn(rest, i)
    BY <1>8, <1>11, <1>13, <1>15, <1>18
  <2>3. Dense(W, n, k)
    BY <1>8, <2>1, <2>2, AtIndexes
  <2> QED
    BY <2>3 DEF W
<1>20. CASE n = r.from
  <2>1. Group(W, n, k) = DOMAIN new[c] \cup {e}
    BY <1>5, <1>7, <1>9, <1>11, <1>20
  <2>2. \A i \in DOMAIN new[c] : W[i].position = SlotAfterInsert(new[c], i, p)
    BY <1>9, <1>11, <1>13, <1>17
  <2>3. Dense(W, n, k)
    BY <1>1, <1>11, <1>12, <1>13, <2>1, <2>2, AtSlots
  <2> QED
    BY <2>3 DEF W
<1> QED
  BY <1>7, <1>19, <1>20

LEMMA RemoveDense ==
    ASSUME TypeOK, NEW c \in Clients, ClientInv(c), Phase(c) = "write", Op(c) = "remove",
           NEW n, NEW k, Group(Written(c), n, k) # Group(edges, n, k)
    PROVE  Dense(Written(c), n, k)
<1> DEFINE e == Target(c)
           from == edges[e].from
           kind == edges[e].kind
           s == old[c]
           t == [i \in DOMAIN edges \ {e} |-> edges[i]]
           W == Written(c)
<1>1. IsTable(edges) /\ e \in DOMAIN edges /\ tx[c].req.edge = e
  BY OwnSources DEF TypeOK, Target
<1>2. s = Without(Siblings(edges, from, kind), e)
  <2>1. KindOf(c) = kind
    BY DEF KindOf
  <2> QED
    BY <2>1 DEF ClientInv, SiblingsHold, OldSiblings
<1>3. Group(W, n, k) = Group(edges, n, k) \ {e}
  BY GroupsWritten
<1>4. n = from /\ k = kind
  BY <1>1, <1>3 DEF Group
<1>5. /\ IsSnapshot(s) /\ DOMAIN s = Group(edges, from, kind) \ {e}
      /\ \A i \in DOMAIN s : i \in DOMAIN edges /\ edges[i].position = s[i]
  <2>1. ReadOf(s, edges, Group(edges, from, kind) \ {e})
    BY <1>1, <1>2, GroupRead
  <2> QED
    BY <2>1 DEF ReadOf
<1>6. IsTable(t)
  BY <1>1 DEF IsTable
<1>7. \A i \in DOMAIN s : i \in DOMAIN t /\ t[i].position = s[i]
  BY <1>5
<1>8. W = Compacted(t, s)
  BY <1>1 DEF Written, Removed
<1> HIDE DEF t, s, e, from, kind
<1>9. \A i \in DOMAIN s : W[i].position = IndexIn(s, i)
  BY <1>5, <1>6, <1>7, <1>8, CompactedPositions
<1> HIDE DEF W
<1>10. Group(W, n, k) = DOMAIN s
  BY <1>3, <1>4, <1>5
<1>11. Dense(W, n, k)
  BY <1>5, <1>9, <1>10, AtIndexes
<1> QED
  BY <1>11 DEF W

\* Whatever holes or repeats the positions of a group had, an operation that
\* adds a row to it or takes one away leaves 0, 1, 2... for any catalog and any
\* interleaving (repository.drizzle.ts:436, 468, 497).
THEOREM GroupsDense == Spec => ChangedGroupsAreDense
<1> DEFINE Renumbers ==
      \A n \in Nodes, k \in EdgeKinds :
          Group(edges, n, k)' # Group(edges, n, k) => Dense(edges, n, k)'
<1>1. IInv /\ [Next]_vars => [Renumbers]_vars
  <2> SUFFICES ASSUME IInv, [Next]_vars, NEW n \in Nodes, NEW k \in EdgeKinds,
                      Group(edges, n, k)' # Group(edges, n, k)
               PROVE  Dense(edges, n, k)'
    OBVIOUS
  <2>1. edges' # edges
    BY DEF Group
  <2>2. PICK c \in Clients : ClientStep(c)
    BY <2>1 DEF Next, ClientStep, vars
  <2>3. Phase(c) = "write" /\ edges' = Written(c)
    BY <2>1, <2>2, TableChanges DEF Write
  <2>4. TypeOK /\ ClientInv(c) /\ Op(c) \in Ops
    BY LocalTypes DEF IInv
  <2>5. Group(Written(c), n, k) # Group(edges, n, k)
    BY <2>3
  <2>6. Dense(Written(c), n, k)
    BY <2>3, <2>4, <2>5, CreateDense, UpdateDense, RemoveDense DEF Ops
  <2> QED
    BY <2>3, <2>6
<1>2. Spec => [][Renumbers]_vars
  BY <1>1, InvariantHolds, PTL DEF Spec
<1> QED
  BY <1>2 DEF ChangedGroupsAreDense

-----------------------------------------------------------------------------
(* Who can wait for whom                                                   *)

\* A client holds the source locks it has taken and no others, and takes them
\* in ascending order.
LocksOnly(c) ==
    /\ \A n \in Nodes : nodeLock[n] = c =>
          Phase(c) \in Locking /\ n \in LockSet(c) \ tx[c].pending
    /\ Phase(c) = "lock" =>
          /\ tx[c].pending \subseteq LockSet(c)
          /\ \A n \in LockSet(c) \ tx[c].pending, m \in tx[c].pending : n < m

\* It holds the row of the edge it has verified, and no other.
EdgeOnly(c) ==
    \A i \in EdgeIds : edgeLock[i] = c =>
        Phase(c) \in Locked /\ Op(c) # "create" /\ Target(c) = i

\* The source it saw is of the kind that the edge's kind asks for: an edge may
\* move or go away, and keeps its kind.
KindSeen(c) ==
    Phase(c) \in Locking /\ Op(c) # "create" =>
        /\ Target(c) \in minted
        /\ \A d \in Clients : Phase(d) # "idle" /\ Op(d) = "create" => Target(d) # Target(c)
        /\ Target(c) \in DOMAIN edges =>
              NodeKind[tx[c].observed] = FromKind[edges[Target(c)].kind]

WaitInv == \A c \in Clients : LocksOnly(c) /\ EdgeOnly(c) /\ KindSeen(c)

\* The sources of an operation, two at most.
LEMMA LockSetOf ==
    ASSUME TypeOK, NEW c \in Clients, Phase(c) \in Locking, LocksHeld(c)
    PROVE  /\ LockSet(c) \subseteq Nodes
           /\ LockSet(c) \subseteq {tx[c].req.from, tx[c].observed}
           /\ Op(c) = "create" => LockSet(c) \subseteq {tx[c].req.from}
           /\ Op(c) = "remove" => LockSet(c) = {tx[c].observed}
           /\ Op(c) # "create" => tx[c].observed \in LockSet(c)
<1>1. Op(c) \in Ops /\ Op(c) = tx[c].req.op
  BY LocalTypes DEF Op
<1>2. Op(c) # "create" => tx[c].observed \in Nodes
  BY DEF LocksHeld
<1> QED
  BY <1>1, <1>2 DEF LockSet, SourcesToLock, Ops

\* The next node to lock is the least one that is still to be locked.
LEMMA NextIsLeast ==
    ASSUME TypeOK, NEW c \in Clients, Phase(c) = "lock", LocksHeld(c), LocksOnly(c)
    PROVE  /\ NextToLock(c) \in tx[c].pending
           /\ \A m \in tx[c].pending : NextToLock(c) <= m
           /\ NextToLock(c) \in Nodes
<1> DEFINE a == tx[c].req.from
           b == tx[c].observed
           P == tx[c].pending
           Least(n) == \A m \in P : n <= m
<1>1. P # {} /\ P \subseteq LockSet(c)
  BY DEF LocksHeld, LocksOnly, Locking
<1>2. P \subseteq {a, b} /\ P \subseteq Nodes
  BY <1>1, LockSetOf DEF Locking
<1>3. P \subseteq Nat
  BY <1>2, CatalogAssumption
<1> HIDE DEF a, b, P
<1>4. \E n \in P : Least(n)
  <2>1. CASE P = {a, b}
    <3>1. a \in Nat /\ b \in Nat
      BY <1>3, <2>1
    <3>2. CASE a <= b
      <4>1. a \in P /\ Least(a)
        BY <2>1, <3>1, <3>2
      <4> QED
        BY <4>1
    <3>3. CASE b <= a
      <4>1. b \in P /\ Least(b)
        BY <2>1, <3>1, <3>3
      <4> QED
        BY <4>1
    <3> QED
      BY <3>1, <3>2, <3>3
  <2>2. ASSUME NEW n \in P, P = {n} PROVE \E m \in P : Least(m)
    <3>1. n \in Nat
      BY <1>3
    <3>2. Least(n)
      BY <2>2, <3>1
    <3> QED
      BY <3>2
  <2>3. P = {a, b} \/ \E n \in P : P = {n}
    BY <1>1, <1>2
  <2> QED
    BY <2>1, <2>2, <2>3
<1>5. NextToLock(c) = CHOOSE n \in P : Least(n)
  BY DEF NextToLock, P
<1> HIDE DEF Least
<1>6. NextToLock(c) \in P /\ Least(NextToLock(c))
  BY <1>4, <1>5
<1> QED
  BY <1>2, <1>6 DEF P, Least

\* Where an operation's edge starts, and how deep that is in the catalog.
Source(c) == IF Op(c) = "create" THEN tx[c].req.from ELSE tx[c].observed
Depth == [country |-> 0, type |-> 1, university |-> 2, degree |-> 3, subject |-> 4]
Level(c) == Depth[NodeKind[Source(c)]]

\* Every edge goes down.
LEMMA EdgesGoDown ==
    /\ \A n \in Nodes : Depth[NodeKind[n]] \in 0 .. 4
    /\ \A k \in EdgeKinds : Depth[FromKind[k]] < Depth[ToKind[k]]
<1>1. \A k \in NodeKinds : Depth[k] \in 0 .. 4
  BY DEF NodeKinds, Depth
<1>2. \A k \in EdgeKinds : Depth[FromKind[k]] < Depth[ToKind[k]]
  BY DEF EdgeKinds, FromKind, ToKind, Depth
<1> QED
  BY <1>1, <1>2, CatalogAssumption

\* An operation that is not misplaced locks sources of one kind.
LEMMA OneLevel ==
    ASSUME TypeOK, NEW c \in Clients, LocksHeld(c), Phase(c) \in Locking, ~Misplaced(c),
           NEW n \in LockSet(c)
    PROVE  Depth[NodeKind[n]] = Level(c) /\ Level(c) \in 0 .. 4
<1>1. n \in Nodes /\ n \in {tx[c].req.from, tx[c].observed}
  BY LockSetOf
<1>2. NodeKind[n] = NodeKind[Source(c)]
  <2>1. CASE Op(c) = "create"
    BY <2>1, LockSetOf DEF Source
  <2>2. CASE Op(c) = "update"
    BY <1>1, <2>2 DEF Source, Misplaced
  <2>3. CASE Op(c) = "remove"
    BY <2>3, LockSetOf DEF Source
  <2> QED
    BY <2>1, <2>2, <2>3, LocalTypes DEF Ops
<1> QED
  BY <1>1, <1>2, EdgesGoDown DEF Level

\* The rows an operation writes are its own: whoever holds one holds its
\* source too.
LEMMA NoRowsHeld ==
    ASSUME IInv, WaitInv, NEW c \in Clients, Phase(c) = "write"
    PROVE  RowsHeldByOthers(c) = {}
<1> SUFFICES ASSUME NEW i \in RowsToWrite(c), edgeLock[i] \notin {Free, c} PROVE FALSE
  BY DEF RowsHeldByOthers
<1>1. /\ TypeOK /\ ClientInv(c) /\ i \in DOMAIN edges
      /\ i \notin DOMAIN Written(c) \/ Written(c)[i] # edges[i]
  BY DEF IInv, RowsToWrite
<1>2. PICK d \in Clients \ {c} : edgeLock[i] = d
  BY <1>1 DEF TypeOK, IsTable
<1>3. /\ i \in EdgeIds /\ ClientInv(d)
      /\ Phase(d) \in Locked /\ Op(d) # "create" /\ Target(d) = i
  BY <1>1, <1>2 DEF IInv, TypeOK, IsTable, WaitInv, EdgeOnly
<1>4. edges[i].from \in LockSet(d) /\ nodeLock[edges[i].from] = d
  <2>1. edges[i].from = tx[d].observed
    BY <1>3 DEF ClientInv, TargetKept
  <2>2. tx[d].observed \in LockSet(d) /\ Phase(d) # "lock" /\ Phase(d) \in Locking
    BY <1>1, <1>3, LockSetOf DEF ClientInv, Locked, Locking
  <2> QED
    BY <1>3, <2>1, <2>2 DEF ClientInv, LocksHeld
<1>5. edges[i].from \in LockSet(c)
  <2>1. CASE i = Target(c)
    BY <1>1, <2>1, OwnSources
  <2>2. CASE i # Target(c)
    <3>1. OperationLeaves(c, Written(c)) /\ Op(c) \in Ops
      BY <1>1, OperationWrites, LocalTypes
    <3> QED
      BY <1>1, <2>2, <3>1 DEF OperationLeaves, WrittenIds, Ops
  <2> QED
    BY <2>1, <2>2
<1>6. nodeLock[edges[i].from] = c
  BY <1>1, <1>5 DEF ClientInv, LocksHeld, Locking
<1> QED
  BY <1>2, <1>4, <1>6

\* Waiting goes down the catalog, or on to a later node or a later phase.
Follows(c, d) ==
    \/ Level(c) < Level(d)
    \/ /\ Level(c) = Level(d)
       /\ \/ Phase(c) = "lock" /\ Phase(d) \in {"recheck", "write"}
          \/ Phase(c) = "recheck" /\ Phase(d) = "write"
          \/ /\ Phase(c) = "lock" /\ Phase(d) = "lock"
             /\ NextToLock(c) < NextToLock(d)

LEMMA WaitsFollow ==
    ASSUME IInv, WaitInv, NEW c \in Clients, NEW d \in Clients, Waits(c, d),
           NEW x \in Clients, Waits(d, x), ~Misplaced(c), ~Misplaced(d)
    PROVE  Follows(c, d) /\ Level(c) \in 0 .. 4
<1>1. /\ TypeOK /\ ClientInv(c) /\ ClientInv(d) /\ c # d
      /\ LocksHeld(c) /\ LocksHeld(d) /\ LocksOnly(c) /\ LocksOnly(d)
  BY DEF IInv, ClientInv, WaitInv, Waits
<1>2. /\ Phase(c) \in {"lock", "recheck", "write"} /\ Phase(c) \in Locking
      /\ Phase(d) \in {"lock", "recheck", "write"} /\ Phase(d) \in Locking
  BY DEF Waits, Locking
<1>3. ASSUME NEW n \in Nodes, nodeLock[n] = d
      PROVE  n \in LockSet(d) \ tx[d].pending /\ Depth[NodeKind[n]] = Level(d)
  BY <1>1, <1>2, <1>3, OneLevel DEF LocksOnly
<1>4. CASE Phase(c) = "lock"
  <2>1. /\ nodeLock[NextToLock(c)] = d
        /\ NextToLock(c) \in LockSet(c) /\ NextToLock(c) \in Nodes
    BY <1>1, <1>4, NextIsLeast DEF Waits, LocksOnly
  <2>2. Level(c) = Level(d) /\ Level(c) \in 0 .. 4
    BY <1>1, <1>2, <1>3, <2>1, OneLevel
  <2>3. Phase(d) = "lock" => NextToLock(c) < NextToLock(d)
    BY <1>1, <1>3, <2>1, NextIsLeast DEF LocksOnly
  <2> QED
    BY <1>2, <1>4, <2>2, <2>3 DEF Follows
<1>5. CASE Phase(c) = "recheck"
  <2>1. Target(c) \in DOMAIN edges /\ edgeLock[Target(c)] = d /\ Op(c) # "create"
    BY <1>1, <1>5 DEF Waits, LocksHeld, Locking
  <2>2. Phase(d) = "write" /\ Op(d) # "create" /\ Target(d) = Target(c)
    BY <1>1, <1>2, <2>1, LocalTypes DEF WaitInv, EdgeOnly, Locked
  <2>3. NodeKind[tx[c].observed] = NodeKind[tx[d].observed]
    BY <1>2, <2>1, <2>2 DEF WaitInv, KindSeen
  <2>4. Level(c) = Level(d)
    BY <2>1, <2>2, <2>3 DEF Level, Source
  <2>5. tx[c].observed \in LockSet(c)
    BY <1>1, <1>2, <2>1, LockSetOf
  <2>6. Level(c) \in 0 .. 4
    BY <1>1, <1>2, <2>5, OneLevel
  <2> QED
    BY <1>5, <2>2, <2>4, <2>6 DEF Follows
<1>6. CASE Phase(c) = "write"
  <2>1. PICK n \in NodesHeldByOthers(c) : nodeLock[n] = d
    BY <1>6, NoRowsHeld DEF Waits
  <2>2. Op(c) # "remove" /\ n \in {tx[c].req.from, tx[c].req.to}
    BY <1>1, <2>1, LocalTypes DEF NodesHeldByOthers, ForeignKeyNodes, Ops
  <2>3. Acceptable(c) /\ tx[c].req.from \in LockSet(c)
    BY <1>1, <1>6, <2>2, OwnSources DEF ClientInv, ChecksHold, Checked
  <2>4. nodeLock[tx[c].req.from] = c
    BY <1>1, <1>6, <2>3 DEF LocksHeld, Locking
  <2>5. n = tx[c].req.to /\ n \in Nodes
    BY <1>1, <2>1, <2>2, <2>3, <2>4 DEF Acceptable, EndpointsExist
  <2>6. /\ NodeKind[tx[c].req.from] = FromKind[KindOf(c)]
        /\ NodeKind[n] = ToKind[KindOf(c)]
    BY <2>3, <2>5 DEF Acceptable, KindMismatch
  <2>7. KindOf(c) \in EdgeKinds
    <3>1. Op(c) # "create" => edges[Target(c)] \in Edge
      BY <1>1, <1>6, OwnSources DEF TypeOK, IsTable
    <3> QED
      BY <1>1, <3>1, LocalTypes DEF KindOf, Edge
  <2>8. Depth[NodeKind[tx[c].req.from]] < Depth[NodeKind[n]]
    BY <2>6, <2>7, EdgesGoDown
  <2>9. Depth[NodeKind[tx[c].req.from]] = Level(c) /\ Level(c) \in 0 .. 4
    BY <1>1, <1>2, <2>3, OneLevel
  <2>10. Depth[NodeKind[n]] = Level(d)
    BY <1>3, <2>1, <2>5
  <2> QED
    BY <2>8, <2>9, <2>10 DEF Follows
<1> QED
  BY <1>2, <1>4, <1>5, <1>6

\* A finite set of numbers that is not empty has a greatest one.
LEMMA Greatest ==
    ASSUME NEW T, T \subseteq Nodes, T # {}
    PROVE  \E n \in T : \A m \in T : m <= n
<1> DEFINE Above(n) == {m \in Nodes : n < m}
           U == {Above(n) : n \in T}
           R == StrictSubsetOrdering(Nodes)
<1>1. Nodes \subseteq Nat /\ IsFiniteSet(Nodes)
  BY CatalogAssumption
<1>2. U \subseteq FiniteSubsetsOf(Nodes) /\ U # {}
  <2>1. ASSUME NEW n \in T PROVE Above(n) \in FiniteSubsetsOf(Nodes)
    <3>1. Above(n) \in SUBSET Nodes
      OBVIOUS
    <3>2. IsFiniteSet(Above(n))
      BY <1>1, <3>1, FS_Subset
    <3> QED
      BY <3>1, <3>2 DEF FiniteSubsetsOf
  <2> QED
    BY <2>1
<1>3. IsWellFoundedOn(R, FiniteSubsetsOf(Nodes))
  BY FS_StrictSubsetOrderingWellFounded
<1>4. PICK u \in U : \A v \in U : <<v, u>> \notin R
  <2> HIDE DEF U, R
  <2> QED
    BY <1>2, <1>3, WFMin
<1>5. PICK n \in T : u = Above(n)
  BY <1>4
<1>6. ASSUME NEW m \in T, n < m PROVE FALSE
  <2>1. Above(m) \subseteq Above(n) /\ m \in Above(n) /\ m \notin Above(m)
    <3>1. m \in Nodes /\ n \in Nodes /\ m \in Nat /\ n \in Nat
      BY <1>1
    <3>2. ASSUME NEW y \in Above(m) PROVE y \in Above(n)
      <4>1. y \in Nodes /\ y \in Nat /\ m < y
        BY <1>1
      <4>2. n < y
        BY <1>6, <3>1, <4>1
      <4> QED
        BY <4>1, <4>2
    <3>3. ~(m < m)
      BY <3>1
    <3>4. m \in Above(n) /\ m \notin Above(m)
      BY <1>6, <3>1, <3>3
    <3> QED
      BY <3>2, <3>4
  <2>2. Above(m) # Above(n) /\ Above(m) \in SUBSET Nodes /\ Above(n) \in SUBSET Nodes
    BY <2>1
  <2> HIDE DEF Above
  <2>3. <<Above(m), Above(n)>> \in R
    BY <2>1, <2>2 DEF StrictSubsetOrdering
  <2> QED
    BY <1>4, <1>5, <2>3
<1> QED
  BY <1>1, <1>6

\* A circle of waiting clients would come back to where it started.
LEMMA NoCircle ==
    ASSUME IInv, WaitInv, NEW S \in SUBSET Clients, WaitCycle(S)
    PROVE  \E c \in S : Misplaced(c)
<1> SUFFICES ASSUME \A c \in S : ~Misplaced(c) PROVE FALSE
  OBVIOUS
<1>1. S # {} /\ \A c \in S : \E d \in S : Waits(c, d)
  BY DEF WaitCycle
<1>2. \A c \in S : \E d \in S : Follows(c, d) /\ Waits(c, d)
  BY <1>1, WaitsFollow
<1>3. \A c \in S : Level(c) \in 0 .. 4
  BY <1>1, WaitsFollow
<1>4. PICK top \in S : \A c \in S : Level(c) <= Level(top)
  <2>1. CASE \E c \in S : Level(c) = 4
    BY <1>3, <2>1
  <2>2. CASE (\A c \in S : Level(c) \in 0 .. 3) /\ \E c \in S : Level(c) = 3
    BY <2>2
  <2>3. CASE (\A c \in S : Level(c) \in 0 .. 2) /\ \E c \in S : Level(c) = 2
    BY <2>3
  <2>4. CASE (\A c \in S : Level(c) \in 0 .. 1) /\ \E c \in S : Level(c) = 1
    BY <2>4
  <2>5. CASE \A c \in S : Level(c) = 0
    BY <1>1, <2>5
  <2> QED
    BY <1>1, <1>3, <2>1, <2>2, <2>3, <2>4, <2>5
<1> DEFINE L == {c \in S : Level(c) = Level(top)}
<1>5. ASSUME NEW c \in L
      PROVE  \E d \in L : Follows(c, d) /\ Level(d) = Level(c)
  <2>1. PICK d \in S : Follows(c, d)
    BY <1>2
  <2>2. Level(d) <= Level(top) /\ Level(c) = Level(top) /\ Level(d) \in 0 .. 4
    BY <1>3, <1>4
  <2>3. Level(d) = Level(c)
    BY <1>3, <2>1, <2>2 DEF Follows
  <2> QED
    BY <2>1, <2>2, <2>3
<1>6. \A c \in L : Phase(c) = "lock"
  <2>1. \A c \in L : Phase(c) # "write"
    BY <1>3, <1>5 DEF Follows
  <2>2. \A c \in L : Phase(c) # "recheck"
    BY <1>3, <1>5, <2>1 DEF Follows
  <2>3. \A c \in S : Phase(c) \in {"lock", "recheck", "write"}
    BY <1>1 DEF Waits
  <2> QED
    BY <2>1, <2>2, <2>3
<1>7. ASSUME NEW c \in L PROVE NextToLock(c) \in Nodes
  BY <1>6, NextIsLeast DEF IInv, ClientInv, WaitInv
<1>8. ASSUME NEW c \in L PROVE \E d \in L : NextToLock(c) < NextToLock(d)
  BY <1>3, <1>5, <1>6 DEF Follows
<1> DEFINE T == {NextToLock(c) : c \in L}
<1>9. T \subseteq Nodes /\ T # {}
  BY <1>4, <1>7
<1>10. PICK n \in T : \A m \in T : m <= n
  <2> HIDE DEF T
  <2> QED
    BY <1>9, Greatest
<1>11. PICK c \in L : n = NextToLock(c)
  BY <1>10
<1>12. PICK d \in L : NextToLock(c) < NextToLock(d)
  BY <1>8
<1>13. NextToLock(d) <= n
  BY <1>10
<1> HIDE DEF L
<1>14. n \in Nat /\ NextToLock(d) \in Nat
  BY <1>7, <1>11, CatalogAssumption
<1> QED
  BY <1>11, <1>12, <1>13, <1>14

-----------------------------------------------------------------------------
(* Every step keeps who can wait for whom                                  *)

WaitOf(c) == LocksOnly(c) /\ EdgeOnly(c) /\ KindSeen(c)

\* A client's step takes no lock for another.
NoLockForOthers(c) ==
    \A d \in Clients \ {c} :
        /\ \A n \in Nodes : nodeLock'[n] = d => nodeLock[n] = d
        /\ \A i \in EdgeIds : edgeLock'[i] = d => edgeLock[i] = d

\* The other clients still hold what they held.
LEMMA OthersWait ==
    ASSUME IInv, WaitInv, NEW c \in Clients, StepOf(c), NoLockForOthers(c),
           NEW d \in Clients \ {c}
    PROVE  WaitOf(d)'
<1>1. /\ TypeOK /\ ClientInv(c) /\ ClientInv(d)
      /\ LocksOnly(d) /\ EdgeOnly(d) /\ KindSeen(d)
  BY DEF IInv, WaitInv
<1>2. \A x \in Clients \ {c} : /\ tx'[x] = tx[x]
                               /\ Phase(x)' = Phase(x) /\ Op(x)' = Op(x)
                               /\ Target(x)' = Target(x) /\ LockSet(x)' = LockSet(x)
  BY DEF StepOf, OthersKept, Phase, Op, Target, LockSet
<1>3. LocksOnly(d)' /\ EdgeOnly(d)'
  BY <1>1, <1>2 DEF LocksOnly, EdgeOnly, NoLockForOthers
<1>4. KindSeen(d)'
  <2> SUFFICES ASSUME Phase(d) \in Locking, Op(d) # "create"
               PROVE  /\ Target(d) \in minted'
                      /\ \A x \in Clients : Phase(x)' # "idle" /\ Op(x)' = "create"
                                               => Target(x)' # Target(d)
                      /\ Target(d) \in DOMAIN edges' =>
                            NodeKind[tx[d].observed] = FromKind[edges'[Target(d)].kind]
    BY <1>2 DEF KindSeen
  <2>1. /\ Target(d) \in minted
        /\ \A x \in Clients : Phase(x) # "idle" /\ Op(x) = "create" => Target(x) # Target(d)
        /\ Target(d) \in DOMAIN edges =>
              NodeKind[tx[d].observed] = FromKind[edges[Target(d)].kind]
    BY <1>1 DEF KindSeen
  <2>2. Target(d) \in minted'
    BY <2>1 DEF StepOf
  <2>3. ASSUME NEW x \in Clients, Phase(x)' # "idle", Op(x)' = "create"
        PROVE  Target(x)' # Target(d)
    <3>1. CASE x # c
      BY <1>2, <2>1, <2>3, <3>1
    <3>2. CASE x = c
      BY <2>1, <2>3, <3>2 DEF StepOf
    <3> QED
      BY <3>1, <3>2
  <2>4. ASSUME Target(d) \in DOMAIN edges'
        PROVE  /\ Target(d) \in DOMAIN edges
               /\ edges'[Target(d)].kind = edges[Target(d)].kind
    <3>1. CASE edges' = edges
      BY <2>4, <3>1
    <3>2. CASE Phase(c) = "write" /\ edges' = Written(c)
      <4>1. OperationLeaves(c, Written(c)) /\ Op(c) \in Ops
        BY <1>1, <3>2, OperationWrites, LocalTypes
      <4>2. CASE Target(d) = Target(c)
        <5>1. Op(c) # "create" /\ Op(c) # "remove"
          BY <2>1, <2>4, <3>2, <4>1, <4>2 DEF OperationLeaves, WrittenIds
        <5>2. Target(c) \in DOMAIN edges /\ KindOf(c) = edges[Target(c)].kind
          BY <1>1, <3>2, <5>1, OwnSources DEF KindOf
        <5> QED
          BY <3>2, <4>1, <4>2, <5>1, <5>2 DEF OperationLeaves
      <4>3. CASE Target(d) # Target(c)
        BY <2>4, <3>2, <4>1, <4>3 DEF OperationLeaves, WrittenIds, Ops
      <4> QED
        BY <4>2, <4>3
    <3> QED
      BY <3>1, <3>2 DEF StepOf
  <2> QED
    BY <2>1, <2>2, <2>3, <2>4
<1> QED
  BY <1>3, <1>4 DEF WaitOf

\* A client that is not locking holds no lock.
LEMMA NotLocking ==
    ASSUME NEW c \in Clients, Phase(c)' \notin Locking,
           \A n \in Nodes : nodeLock'[n] # c, \A i \in EdgeIds : edgeLock'[i] # c
    PROVE  WaitOf(c)'
BY DEF WaitOf, LocksOnly, EdgeOnly, KindSeen, Locking

\* Nobody holds the locks that are given up.
LEMMA ReleasedWait ==
    ASSUME TypeOK, NEW c \in Clients, Release(c)
    PROVE  /\ \A n \in Nodes : nodeLock'[n] # c
           /\ \A i \in EdgeIds : edgeLock'[i] # c
           /\ NoLockForOthers(c)
BY Defaults DEF Release, NoLockForOthers, TypeOK

\* The end of an operation.
LEMMA FinishWait ==
    ASSUME IInv, NEW c \in Clients, Finish(c)
    PROVE  WaitOf(c)' /\ NoLockForOthers(c)
<1>1. TypeOK /\ Release(c)
  BY DEF IInv, Finish
<1>2. Phase(c)' \notin Locking
  BY <1>1, Finished DEF Locking
<1> QED
  BY <1>1, <1>2, ReleasedWait, NotLocking

\* What an operation saw of its edge still holds while the table is the same.
LEMMA KindKept ==
    ASSUME WaitInv, NEW c \in Clients, Phase(c) \in Locking,
           \A d \in Clients \ {c} : tx'[d] = tx[d],
           Op(c)' = Op(c), Target(c)' = Target(c), tx'[c].observed = tx[c].observed,
           UNCHANGED <<edges, minted>>
    PROVE  KindSeen(c)'
<1>1. KindSeen(c)
  BY DEF WaitInv
<1>2. \A d \in Clients \ {c} : Phase(d)' = Phase(d) /\ Op(d)' = Op(d) /\ Target(d)' = Target(d)
  BY DEF Phase, Op, Target
<1> QED
  BY <1>1, <1>2 DEF KindSeen

\* A new request holds nothing yet.
LEMMA SubmitWait ==
    ASSUME IInv, WaitInv, NEW c \in Clients, NEW r \in Requests, Submit(c, r)
    PROVE  WaitOf(c)' /\ NoLockForOthers(c)
<1>1. TypeOK /\ r \in Request /\ Phase(c) = "idle" /\ LocksOnly(c) /\ EdgeOnly(c)
  BY EdgesAssumption DEF IInv, WaitInv, Submit
<1>2. UNCHANGED <<edges, nodeLock, edgeLock>>
  BY DEF Submit
<1>3. /\ \A n \in Nodes : nodeLock'[n] # c
      /\ \A i \in EdgeIds : edgeLock'[i] # c
  BY <1>1, <1>2 DEF LocksOnly, EdgeOnly, Locking, Locked
<1>4. NoLockForOthers(c)
  BY <1>2 DEF NoLockForOthers
<1>5. CASE r.op = "create"
  <2> DEFINE ph == IF r.from \in Nodes THEN "lock" ELSE "validate"
             x == [Idle EXCEPT !.phase = ph, !.req = r, !.pending = {r.from} \cap Nodes]
  <2>1. tx' = [tx EXCEPT ![c] = x]
    BY <1>5 DEF Submit
  <2>2. x \in TxRecord /\ x.phase = ph /\ x.req = r /\ x.pending = {r.from} \cap Nodes
    BY <1>1, Defaults DEF TxRecord, Phases
  <2> HIDE DEF x
  <2>3. tx'[c] = x /\ Op(c)' = "create"
    BY <1>1, <1>5, <2>1, <2>2, TxUpdated
  <2>4. LockSet(c)' = tx'[c].pending
    BY <2>2, <2>3 DEF LockSet
  <2>5. LocksOnly(c)'
    BY <1>3, <2>4 DEF LocksOnly
  <2> QED
    BY <1>3, <1>4, <2>3, <2>5 DEF WaitOf, EdgeOnly, KindSeen
<1>6. CASE r.op # "create"
  <2> DEFINE x == [Idle EXCEPT !.phase = "observe", !.req = r]
  <2>1. tx' = [tx EXCEPT ![c] = x]
    BY <1>6 DEF Submit
  <2>2. x \in TxRecord /\ x.phase = "observe"
    BY <1>1, Defaults DEF TxRecord, Phases
  <2> HIDE DEF x
  <2>3. Phase(c)' = "observe"
    BY <1>1, <2>1, <2>2, TxUpdated
  <2> QED
    BY <1>3, <1>4, <2>3, NotLocking DEF Locking
<1> QED
  BY <1>5, <1>6

\* The source seen without a lock is of the kind the edge asks for.
LEMMA ObserveWait ==
    ASSUME IInv, WaitInv, NEW c \in Clients, Observe(c)
    PROVE  WaitOf(c)' /\ NoLockForOthers(c)
<1> DEFINE source == edges[Target(c)].from
           x == [tx[c] EXCEPT !.phase = "lock", !.observed = source,
                              !.pending = SourcesToLock(tx[c].req, source)]
<1>1. /\ TypeOK /\ tx[c] \in TxRecord /\ Phase(c) = "observe"
      /\ Target(c) \in DOMAIN edges /\ LocksOnly(c) /\ EdgeOnly(c)
  BY DEF IInv, WaitInv, TypeOK, TxRecord, Observe
<1>2. source \in Nodes /\ source \in NodeIds
  BY <1>1, CatalogAssumption DEF TypeOK, IsTable, Edge
<1>3. Op(c) # "create"
  BY <1>1 DEF IInv, ClientInv, FreshId
<1>4. tx' = [tx EXCEPT ![c] = x]
  BY <1>1 DEF Observe, TypeOK
<1>5. UNCHANGED <<edges, nodeLock, edgeLock, minted>>
  BY DEF Observe
<1>6. /\ x \in TxRecord /\ x.phase = "lock" /\ x.req = tx[c].req /\ x.observed = source
      /\ x.pending = SourcesToLock(tx[c].req, source)
  BY <1>1, <1>2 DEF TxRecord, Phases, SourcesToLock
<1>7. /\ NodeKind[source] = FromKind[edges[Target(c)].kind]
      /\ Target(c) \in minted
  BY <1>1 DEF IInv, CatalogConsistent, Consistent, KindMismatch
<1>8. \A d \in Clients : Phase(d) # "idle" /\ Op(d) = "create" => Target(d) # Target(c)
  BY <1>1 DEF IInv, ClientInv, FreshId
<1> HIDE DEF x
<1>9. /\ tx'[c] = x /\ \A d \in Clients \ {c} : tx'[d] = tx[d]
      /\ Phase(c)' = "lock" /\ Op(c)' = Op(c) /\ Target(c)' = Target(c)
  BY <1>1, <1>4, <1>6, TxUpdated DEF Op, Target
<1>10. tx'[c].observed = source /\ LockSet(c)' = tx'[c].pending
  BY <1>3, <1>6, <1>9 DEF LockSet
<1> HIDE DEF source
<1>11. /\ \A n \in Nodes : nodeLock'[n] # c
       /\ \A i \in EdgeIds : edgeLock'[i] # c
  BY <1>1, <1>5 DEF LocksOnly, EdgeOnly, Locking, Locked
<1>12. LocksOnly(c)' /\ EdgeOnly(c)'
  BY <1>10, <1>11 DEF LocksOnly, EdgeOnly
<1>13. KindSeen(c)'
  <2>1. \A d \in Clients : Phase(d)' # "idle" /\ Op(d)' = "create" => Target(d)' # Target(c)'
    BY <1>3, <1>8, <1>9 DEF Phase, Op, Target
  <2> QED
    BY <1>5, <1>7, <1>9, <1>10, <2>1 DEF KindSeen
<1>14. NoLockForOthers(c)
  BY <1>5 DEF NoLockForOthers
<1> QED
  BY <1>12, <1>13, <1>14 DEF WaitOf

\* The next row in id order is locked.
LEMMA LockNodeWait ==
    ASSUME IInv, WaitInv, NEW c \in Clients, LockNode(c)
    PROVE  WaitOf(c)' /\ NoLockForOthers(c)
<1> DEFINE n == NextToLock(c)
           rest == tx[c].pending \ {n}
           ph == IF rest # {} THEN "lock"
                 ELSE IF Op(c) = "create" THEN "validate" ELSE "recheck"
           x == [tx[c] EXCEPT !.pending = rest, !.phase = ph]
<1>1. /\ TypeOK /\ tx[c] \in TxRecord /\ Phase(c) = "lock" /\ Phase(c) \in Locking
      /\ LocksHeld(c) /\ LocksOnly(c) /\ EdgeOnly(c)
      /\ nodeLock \in [Nodes -> Clients \cup {Free}]
  BY DEF IInv, ClientInv, WaitInv, TypeOK, TxRecord, LockNode, Locking
<1>2. n \in tx[c].pending /\ (\A m \in tx[c].pending : n <= m) /\ n \in Nodes
  BY <1>1, NextIsLeast
<1>3. /\ nodeLock' = [nodeLock EXCEPT ![n] = c]
      /\ UNCHANGED <<edges, edgeLock, minted>>
  BY DEF LockNode
<1>4. tx' = [tx EXCEPT ![c] = x]
  BY <1>1 DEF LockNode, TypeOK
<1>5. /\ x \in TxRecord /\ x.phase = ph /\ x.req = tx[c].req
      /\ x.observed = tx[c].observed /\ x.pending = rest
  BY <1>1 DEF TxRecord, Phases
<1> HIDE DEF x, n
<1>6. /\ tx'[c] = x /\ \A d \in Clients \ {c} : tx'[d] = tx[d]
      /\ Phase(c)' = ph /\ Op(c)' = Op(c) /\ Target(c)' = Target(c)
  <2>1. /\ tx'[c] = x /\ \A d \in Clients \ {c} : tx'[d] = tx[d]
        /\ Phase(c)' = x.phase /\ Op(c)' = x.req.op /\ Target(c)' = x.req.edge
    BY <1>1, <1>4, <1>5, TxUpdated
  <2>2. x.phase = ph /\ x.req.op = Op(c) /\ x.req.edge = Target(c)
    BY <1>5 DEF Op, Target
  <2> QED
    BY <2>1, <2>2
<1>7. /\ LockSet(c)' = LockSet(c) /\ tx'[c].pending = rest
      /\ tx'[c].observed = tx[c].observed
  BY <1>5, <1>6 DEF LockSet
<1>8. \A m \in Nodes : nodeLock'[m] = c => m \in LockSet(c) \ rest
  BY <1>1, <1>2, <1>3 DEF LocksOnly
<1>9. ASSUME NEW m \in LockSet(c) \ rest, NEW k \in rest PROVE m < k
  <2>1. k \in tx[c].pending /\ k # n
    OBVIOUS
  <2>2. CASE m = n
    <3>1. n \in Nat /\ k \in Nat
      BY <1>1, <1>2, <2>1, CatalogAssumption DEF TxRecord
    <3> QED
      BY <1>2, <2>1, <2>2, <3>1
  <2>3. CASE m # n
    BY <1>1, <2>1, <2>3 DEF LocksOnly
  <2> QED
    BY <2>2, <2>3
<1>10. Phase(c)' \in Locking /\ rest \subseteq LockSet(c)
  BY <1>1, <1>6 DEF Locking, LocksOnly
<1>11. LocksOnly(c)'
  BY <1>7, <1>8, <1>9, <1>10 DEF LocksOnly
<1>12. EdgeOnly(c)'
  BY <1>1, <1>3 DEF EdgeOnly, Locked
<1>13. KindSeen(c)'
  BY <1>1, <1>3, <1>6, <1>7, KindKept
<1>14. NoLockForOthers(c)
  BY <1>1, <1>2, <1>3 DEF NoLockForOthers
<1> QED
  BY <1>11, <1>12, <1>13, <1>14 DEF WaitOf

\* A later phase under the same node locks.
LEMMA PhaseWait ==
    ASSUME IInv, WaitInv, NEW c \in Clients, NEW ph \in Locked,
           tx' = [tx EXCEPT ![c].phase = ph], Phase(c) \in Locking,
           UNCHANGED <<edges, nodeLock, minted>>,
           \A i \in EdgeIds : edgeLock'[i] = c =>
               edgeLock[i] = c \/ (Op(c) # "create" /\ Target(c) = i)
    PROVE  WaitOf(c)'
<1> DEFINE x == [tx[c] EXCEPT !.phase = ph]
<1>1. TypeOK /\ tx[c] \in TxRecord /\ LocksOnly(c) /\ EdgeOnly(c)
  BY DEF IInv, WaitInv, TypeOK, TxRecord
<1>2. tx' = [tx EXCEPT ![c] = x]
  BY <1>1 DEF TypeOK
<1>3. /\ x \in TxRecord /\ x.phase = ph /\ x.req = tx[c].req
      /\ x.observed = tx[c].observed /\ x.pending = tx[c].pending
  BY <1>1 DEF TxRecord, Locked, Phases
<1> HIDE DEF x
<1>4. /\ tx'[c] = x /\ \A d \in Clients \ {c} : tx'[d] = tx[d]
      /\ Phase(c)' = ph /\ Op(c)' = Op(c) /\ Target(c)' = Target(c)
  <2>1. /\ tx'[c] = x /\ \A d \in Clients \ {c} : tx'[d] = tx[d]
        /\ Phase(c)' = x.phase /\ Op(c)' = x.req.op /\ Target(c)' = x.req.edge
    BY <1>1, <1>2, <1>3, TxUpdated
  <2>2. x.phase = ph /\ x.req.op = Op(c) /\ x.req.edge = Target(c)
    BY <1>3 DEF Op, Target
  <2> QED
    BY <2>1, <2>2
<1>5. /\ LockSet(c)' = LockSet(c) /\ tx'[c].pending = tx[c].pending
      /\ tx'[c].observed = tx[c].observed
  BY <1>3, <1>4 DEF LockSet
<1>6. LocksOnly(c)'
  BY <1>1, <1>4, <1>5 DEF LocksOnly, Locking, Locked
<1>7. EdgeOnly(c)'
  BY <1>1, <1>4 DEF EdgeOnly, Locked
<1>8. KindSeen(c)'
  BY <1>4, <1>5, KindKept
<1> QED
  BY <1>6, <1>7, <1>8 DEF WaitOf

\* The row of a verified edge is locked.
LEMMA LockEdgeWait ==
    ASSUME IInv, WaitInv, NEW c \in Clients, LockEdge(c)
    PROVE  WaitOf(c)' /\ NoLockForOthers(c)
<1> DEFINE ph == IF Op(c) = "remove" THEN "siblings" ELSE "validate"
<1>1. TypeOK /\ Phase(c) = "recheck" /\ Op(c) # "create"
  BY DEF IInv, ClientInv, LocksHeld, Locking, LockEdge
<1>2. /\ edgeLock' = [edgeLock EXCEPT ![Target(c)] = c]
      /\ tx' = [tx EXCEPT ![c].phase = ph]
      /\ UNCHANGED <<edges, nodeLock, minted>>
  BY DEF LockEdge
<1>3. edgeLock \in [EdgeIds -> Clients \cup {Free}]
  BY <1>1 DEF TypeOK
<1>4. ph \in Locked /\ Phase(c) \in Locking
  BY <1>1 DEF Locked, Locking
<1> HIDE DEF ph
<1>5. WaitOf(c)'
  BY <1>1, <1>2, <1>3, <1>4, PhaseWait
<1>6. NoLockForOthers(c)
  BY <1>2, <1>3 DEF NoLockForOthers
<1> QED
  BY <1>5, <1>6

\* Every kind of step.
LEMMA StepWait ==
    ASSUME IInv, WaitInv, NEW c \in Clients, ClientStep(c)
    PROVE  WaitOf(c)' /\ NoLockForOthers(c)
<1>1. ASSUME NEW r \in Requests, Submit(c, r) PROVE WaitOf(c)' /\ NoLockForOthers(c)
  BY <1>1, SubmitWait
<1>2. CASE Finish(c)
  BY <1>2, FinishWait
<1>3. CASE Observe(c)
  BY <1>3, ObserveWait
<1>4. CASE LockNode(c)
  BY <1>4, LockNodeWait
<1>5. CASE Retry(c)
  <2> DEFINE x == [Idle EXCEPT !.phase = "observe", !.req = tx[c].req]
  <2>1. TypeOK /\ tx[c] \in TxRecord /\ Release(c) /\ tx' = [tx EXCEPT ![c] = x]
    BY <1>5 DEF IInv, TypeOK, TxRecord, Retry
  <2>2. x \in TxRecord /\ x.phase = "observe"
    BY <2>1, Defaults DEF TxRecord, Phases
  <2> HIDE DEF x
  <2>3. Phase(c)' = "observe"
    BY <2>1, <2>2, TxUpdated
  <2> QED
    BY <2>1, <2>3, NotLocking, ReleasedWait DEF Locking
<1>6. CASE LockEdge(c)
  BY <1>6, LockEdgeWait
<1>7. CASE Validate(c)
  <2>1. /\ tx' = [tx EXCEPT ![c].phase = "siblings"] /\ Phase(c) = "validate"
        /\ UNCHANGED <<edges, nodeLock, edgeLock, minted>>
    BY <1>7 DEF Validate
  <2> QED
    BY <2>1, PhaseWait DEF Locked, Locking, NoLockForOthers
<1>8. CASE ReadSiblings(c)
  <2>1. /\ tx' = [tx EXCEPT ![c].phase = "write"] /\ Phase(c) = "siblings"
        /\ UNCHANGED <<edges, nodeLock, edgeLock, minted>>
    BY <1>8 DEF ReadSiblings
  <2> QED
    BY <2>1, PhaseWait DEF Locked, Locking, NoLockForOthers
<1> QED
  BY <1>1, <1>2, <1>3, <1>4, <1>5, <1>6, <1>7, <1>8
     DEF ClientStep, Step, ObserveMissing, RecheckMissing, Reject, Write, Fail, BreakDeadlock

\* Nobody holds a lock at the start.
LEMMA InitWait == Init => WaitInv
<1> SUFFICES ASSUME Init, NEW c \in Clients
             PROVE  LocksOnly(c) /\ EdgeOnly(c) /\ KindSeen(c)
  BY DEF WaitInv
<1>1. Phase(c) = "idle" /\ Free # c
  BY Defaults DEF Init, Phase
<1>2. /\ \A n \in Nodes : nodeLock[n] = Free
      /\ \A i \in EdgeIds : edgeLock[i] = Free
  BY DEF Init
<1> QED
  BY <1>1, <1>2 DEF LocksOnly, EdgeOnly, KindSeen, Locking

\* Every step keeps who can wait for whom.
LEMMA NextWait == IInv /\ WaitInv /\ [Next]_vars => WaitInv'
<1> SUFFICES ASSUME IInv, WaitInv, [Next]_vars PROVE WaitInv'
  OBVIOUS
<1>1. ASSUME NEW c \in Clients, ClientStep(c) PROVE WaitInv'
  <2>1. StepOf(c)
    BY <1>1, StepKeeps DEF Keeps
  <2>2. WaitOf(c)' /\ NoLockForOthers(c)
    BY <1>1, StepWait
  <2>3. \A d \in Clients \ {c} : WaitOf(d)'
    BY <2>1, <2>2, OthersWait
  <2> QED
    BY <2>2, <2>3 DEF WaitOf, WaitInv
<1>2. ASSUME UNCHANGED vars PROVE WaitInv'
  <2>1. UNCHANGED <<edges, nodeLock, edgeLock, minted, tx>>
    BY <1>2 DEF vars
  <2>2. \A d \in Clients : /\ Phase(d)' = Phase(d) /\ Op(d)' = Op(d)
                           /\ Target(d)' = Target(d) /\ LockSet(d)' = LockSet(d)
    BY <2>1 DEF Phase, Op, Target, LockSet
  <2> QED
    BY <2>1, <2>2 DEF WaitInv, LocksOnly, EdgeOnly, KindSeen
<1> QED
  BY <1>1, <1>2 DEF Next, ClientStep

\* With it, a client holds exactly the locks its phase accounts for.
LEMMA WaitHolds == Spec => [](IInv /\ WaitInv)
<1> QED
  BY InitInv, NextInv, InitWait, NextWait, PTL DEF Spec

\* Whatever the catalog and the requests, only moves under a node of another
\* kind can close a circle of lock waits: with them out of the way the id
\* order and the catalog's levels exclude every deadlock.
THEOREM DeadlocksMisplaced == Spec => []DeadlockNeedsMisplacedMove
<1>1. IInv /\ WaitInv => DeadlockNeedsMisplacedMove
  BY NoCircle DEF DeadlockNeedsMisplacedMove
<1> QED
  BY <1>1, WaitHolds, PTL

-----------------------------------------------------------------------------
(* The administrators' screens: what the states of CatalogScreen have in   *)
(* common.  K stands for the nodes created so far, s for what a screen is  *)
(* showing and c for its atoms.                                            *)

Known == {n \in Nodes : node[n] # None}

\* The server's rows: every edge fits its kind and joins nodes that exist.
ServerInv ==
    /\ IsTable(stored)
    /\ node \in [Nodes -> NodeRow \cup {None}]
    /\ \A e \in DOMAIN stored :
          /\ ~KindMismatch(stored[e].kind, stored[e].from, stored[e].to)
          /\ stored[e].from \in Known /\ stored[e].to \in Known

ScreenState(K) == [selected : K \cup {None}, tab : {"outgoing", "incoming"},
                   kind : NodeKinds, status : Statuses]

\* A row that belongs among the relations x.
Belongs(K, x, row) ==
    row \in Edge /\ Near(x, row) = x[2] /\ row.from \in K /\ row.to \in K

\* What a part of query x may have been answered.
IsAnswer(K, x, part, v) ==
    /\ x[1] = "node" => v \in NodeRow
    /\ x[1] = "list" => DOMAIN v \subseteq K
    /\ IsRelations(x) /\ part = "edges" =>
          DOMAIN v \subseteq EdgeIds /\ \A e \in DOMAIN v : Belongs(K, x, v[e])

\* What atom x may show.
IsShown(K, x, v) ==
    /\ x[1] = "node" => v \in NodeRow
    /\ x[1] = "list" => DOMAIN v \subseteq K
    /\ IsRelations(x) =>
          DOMAIN v \subseteq EdgeIds /\ \A e \in DOMAIN v : Belongs(K, x, v[e].row)

\* An atom x holds what the server answered to the parts that wait no longer.
IsAtom(K, x, entry) ==
    /\ entry = [shown |-> entry.shown, waiting |-> entry.waiting, got |-> entry.got]
    /\ entry.waiting \subseteq Parts(x)
    /\ entry.got = [part \in Parts(x) |-> entry.got[part]]
    /\ entry.shown \notin {None, Failed} => IsShown(K, x, entry.shown)
    /\ entry.waiting # {} =>
          \A part \in Parts(x) \ entry.waiting : IsAnswer(K, x, part, entry.got[part])

AreAtoms(K, c) == c = [x \in DOMAIN c |-> c[x]] /\ \A x \in DOMAIN c : IsAtom(K, x, c[x])

IsCache(K, s, c) == AreAtoms(K, c) /\ DOMAIN c = Used(s, c)

States == {"sent", "done"}
CreateCall == [op : {"create"}, kind : NodeKinds, name : Names,
               state : States, left : BOOLEAN]
RenameCall(K) == [op : {"rename"}, node : K, name : Names,
                  filter : NodeKinds \X Statuses, state : States, left : BOOLEAN]
StatusCall(K) == [op : {"status"}, node : K, kind : NodeKinds, previous : Statuses,
                  status : Statuses, state : States, left : BOOLEAN]
ConnectCall(K) == [op : {"connect"}, kind : EdgeKinds, from : K, to : K,
                   state : States, left : BOOLEAN]
UpdateCall(K) == [op : {"update"}, by : {"edit", "reorder"}, edge : EdgeIds,
                  previous : K, from : K, to : K, position : Nat,
                  state : States, left : BOOLEAN]
DisconnectCall(K) == [op : {"disconnect"}, edge : EdgeIds, from : K, to : K,
                      state : States, left : BOOLEAN]

IsCall(K, call) ==
    \/ call \in CreateCall \/ call \in RenameCall(K)
    \/ call \in StatusCall(K) /\ call.kind = NodeKind[call.node]
    \/ call \in ConnectCall(K) \/ call \in UpdateCall(K) \/ call \in DisconnectCall(K)

\* A mutation of a relation whose component is there is about the relations
\* the screen shows.
CallFits(call, s, c) ==
    ~call.left =>
        /\ Hosted(call, s, c)
        /\ call.op \in {"connect", "update", "disconnect"} =>
              s.selected # None /\ Relations(s) \in Refreshes(call)

AreCalls(K, cs, s, c) == \A call \in cs : IsCall(K, call) /\ CallFits(call, s, c)

\* What the server answers to all the parts of a query.
Told(x) == [part \in Parts(x) |-> Answer(x, part)]

\* An atom shows what the server tells, or is being told it.
Fresh(x, entry, told) ==
    IF entry.waiting = {}
    THEN entry.shown = Failed \/ entry.shown = Value(x, told)
    ELSE \A part \in Parts(x) \ entry.waiting : entry.got[part] = told[part]

\* The answer to come of a mutation has x asked again, or is of a component
\* that has gone.
ToCome(call, x) == call.state = "done" /\ (call.left \/ x \in Refreshes(call))

\* An atom that is not current is known to be so, or is about to be asked again.
Remembered(x, entry, told, forgiven, cs) ==
    x \in forgiven \/ Fresh(x, entry, told) \/ \E call \in cs : ToCome(call, x)

AdminInv(a) ==
    /\ screen[a] \in ScreenState(Known)
    /\ IsCache(Known, screen[a], cache[a])
    /\ AreCalls(Known, calls[a], screen[a], cache[a])
    /\ \A x \in DOMAIN cache[a] : Remembered(x, cache[a][x], Told(x), foreign[a], calls[a])

PerAdmin ==
    /\ screen = [a \in Admins |-> screen[a]] /\ cache = [a \in Admins |-> cache[a]]
    /\ calls = [a \in Admins |-> calls[a]] /\ foreign = [a \in Admins |-> foreign[a]]

ScreenInv == ServerInv /\ PerAdmin /\ \A a \in Admins : AdminInv(a)

\* The atoms a screen uses.
LEMMA UsedAtoms ==
    ASSUME NEW s, NEW c, NEW x \in Used(s, c)
    PROVE  \/ x = ListOf(s.kind, s.status)
           \/ s.selected # None /\ x = Detail(s.selected)
           \/ s.selected # None /\ x = Relations(s) /\ Shows(c, Detail(s.selected))
BY DEF Used

\* The four queries are told apart.
LEMMA Queried ==
    /\ \A k, t : ListOf(k, t)[1] = "list" /\ ~IsRelations(ListOf(k, t))
    /\ \A n : Detail(n)[1] = "node" /\ Detail(n)[2] = n /\ ~IsRelations(Detail(n))
    /\ \A n : Outgoing(n)[1] = "outgoing" /\ Outgoing(n)[2] = n /\ IsRelations(Outgoing(n))
    /\ \A n : Incoming(n)[1] = "incoming" /\ Incoming(n)[2] = n /\ IsRelations(Incoming(n))
    /\ \A s : IsRelations(Relations(s)) /\ Relations(s)[2] = s.selected
BY DEF ListOf, Detail, Outgoing, Incoming, Relations, IsRelations

\* A new atom, or one asked again, is one of which everything is awaited.
LEMMA AskedAtom ==
    ASSUME NEW K, NEW x, NEW shown, shown \notin {None, Failed} => IsShown(K, x, shown),
           NEW told
    PROVE  IsAtom(K, x, Asked(x, shown)) /\ Fresh(x, Asked(x, shown), told)
BY DEF IsAtom, Asked, Fresh, Parts

\* What mounting the components of a screen does to its atoms.
LEMMA MountedAtoms ==
    ASSUME NEW s, NEW c
    PROVE  LET m == Mounted(s, c)
           IN  /\ DOMAIN m = Used(s, c) /\ m = [x \in DOMAIN m |-> m[x]]
               /\ \A x \in DOMAIN m : m[x] = IF x \in DOMAIN c THEN c[x] ELSE Asked(x, None)
               /\ \A x : Shows(m, x) => Shows(c, x) /\ m[x] = c[x]
               /\ Used(s, m) = Used(s, c)
<1> DEFINE m == Mounted(s, c)
<1>1. DOMAIN m = Used(s, c) /\ m = [x \in DOMAIN m |-> m[x]]
  BY DEF Mounted
<1>2. \A x \in DOMAIN m : m[x] = IF x \in DOMAIN c THEN c[x] ELSE Asked(x, None)
  BY DEF Mounted
<1>3. \A x : Asked(x, None).shown = None
  BY DEF Asked
<1> HIDE DEF m
<1>4. \A x : Shows(m, x) => Shows(c, x) /\ m[x] = c[x]
  BY <1>2, <1>3 DEF Shows
<1>5. s.selected # None => (Shows(m, Detail(s.selected)) <=> Shows(c, Detail(s.selected)))
  <2> SUFFICES ASSUME s.selected # None
               PROVE  Shows(m, Detail(s.selected)) <=> Shows(c, Detail(s.selected))
    OBVIOUS
  <2>1. Detail(s.selected) \in Used(s, c)
    BY DEF Used
  <2> QED
    BY <1>1, <1>2, <1>4, <2>1 DEF Shows
<1>6. Used(s, m) = Used(s, c)
  BY <1>5 DEF Used
<1> QED
  BY <1>1, <1>2, <1>4, <1>6 DEF m

\* Mounted atoms are the atoms of a screen.
LEMMA MountedCache ==
    ASSUME NEW K, NEW s, NEW c, AreAtoms(K, c)
    PROVE  IsCache(K, s, Mounted(s, c))
<1> DEFINE m == Mounted(s, c)
<1>1. /\ DOMAIN m = Used(s, c) /\ m = [x \in DOMAIN m |-> m[x]] /\ Used(s, m) = Used(s, c)
      /\ \A x \in DOMAIN m : m[x] = IF x \in DOMAIN c THEN c[x] ELSE Asked(x, None)
  BY MountedAtoms
<1>2. ASSUME NEW x \in DOMAIN m PROVE IsAtom(K, x, m[x])
  <2> HIDE DEF m
  <2>1. IsAtom(K, x, Asked(x, None))
    BY AskedAtom
  <2> QED
    BY <1>1, <2>1 DEF AreAtoms
<1> HIDE DEF m
<1>3. IsCache(K, s, m)
  BY <1>1, <1>2 DEF IsCache, AreAtoms
<1> QED
  BY <1>3 DEF m

\* A mutation whose component has gone is the same mutation.
LEMMA LeftCall ==
    ASSUME NEW K, NEW call, IsCall(K, call), NEW b \in BOOLEAN
    PROVE  LET gone == [call EXCEPT !.left = b]
           IN  /\ IsCall(K, gone)
               /\ gone.left = b /\ gone.state = call.state /\ gone.op = call.op
               /\ Refreshes(gone) = Refreshes(call)
               /\ \A s, c : Hosted(gone, s, c) <=> Hosted(call, s, c)
<1> USE DEF IsCall
<1>1. CASE call \in CreateCall
  BY <1>1 DEF CreateCall, Refreshes, Hosted
<1>2. CASE call \in RenameCall(K)
  BY <1>2 DEF RenameCall, Refreshes, Hosted
<1>3. CASE call \in StatusCall(K) /\ call.kind = NodeKind[call.node]
  BY <1>3 DEF StatusCall, Refreshes, Hosted
<1>4. CASE call \in ConnectCall(K)
  BY <1>4 DEF ConnectCall, Refreshes, Hosted
<1>5. CASE call \in UpdateCall(K)
  BY <1>5 DEF UpdateCall, Refreshes, RelationsUpdated, Hosted
<1>6. CASE call \in DisconnectCall(K)
  BY <1>6 DEF DisconnectCall, Refreshes, Hosted
<1> QED
  BY <1>1, <1>2, <1>3, <1>4, <1>5, <1>6

\* The same mutation, executed.
LEMMA DoneCall ==
    ASSUME NEW K, NEW call, IsCall(K, call)
    PROVE  LET done == [call EXCEPT !.state = "done"]
           IN  /\ IsCall(K, done)
               /\ done.left = call.left /\ done.state = "done" /\ done.op = call.op
               /\ Refreshes(done) = Refreshes(call)
               /\ \A s, c : Hosted(done, s, c) <=> Hosted(call, s, c)
<1> USE DEF IsCall, States
<1>1. CASE call \in CreateCall
  BY <1>1 DEF CreateCall, Refreshes, Hosted
<1>2. CASE call \in RenameCall(K)
  BY <1>2 DEF RenameCall, Refreshes, Hosted
<1>3. CASE call \in StatusCall(K) /\ call.kind = NodeKind[call.node]
  BY <1>3 DEF StatusCall, Refreshes, Hosted
<1>4. CASE call \in ConnectCall(K)
  BY <1>4 DEF ConnectCall, Refreshes, Hosted
<1>5. CASE call \in UpdateCall(K)
  BY <1>5 DEF UpdateCall, Refreshes, RelationsUpdated, Hosted
<1>6. CASE call \in DisconnectCall(K)
  BY <1>6 DEF DisconnectCall, Refreshes, Hosted
<1> QED
  BY <1>1, <1>2, <1>3, <1>4, <1>5, <1>6

\* The mutations after a screen with the atoms c0 that showed s0 has become s
\* with atoms that replace those: the ones whose component has gone are left.
LEMMA LeftCalls ==
    ASSUME NEW K, NEW s0, NEW c0, IsCache(K, s0, c0), NEW cs, AreCalls(K, cs, s0, c0),
           NEW s, NEW c, DOMAIN c = DOMAIN c0
    PROVE  AreCalls(K, Left(cs, s, Mounted(s, c)), s, Mounted(s, c))
<1> DEFINE m == Mounted(s, c)
<1>1. \A x : Shows(m, x) => Shows(c, x)
  BY MountedAtoms
<1> HIDE DEF m
<1>2. ASSUME NEW call \in cs, NEW gone, gone = [call EXCEPT !.left = @ \/ ~Hosted(call, s, m)]
      PROVE  IsCall(K, gone) /\ CallFits(gone, s, m)
  <2>1. IsCall(K, call) /\ CallFits(call, s0, c0)
    BY DEF AreCalls
  <2>2. PICK b \in BOOLEAN : b = (call.left \/ ~Hosted(call, s, m))
    OBVIOUS
  <2>3. gone = [call EXCEPT !.left = b]
    BY <1>2, <2>2
  <2>4. /\ IsCall(K, gone) /\ gone.left = b /\ gone.op = call.op
        /\ Refreshes(gone) = Refreshes(call) /\ (Hosted(gone, s, m) <=> Hosted(call, s, m))
    BY <2>1, <2>3, LeftCall
  <2>5. CASE gone.left
    BY <2>4, <2>5 DEF CallFits
  <2>6. CASE ~gone.left
    <3>1. ~call.left /\ Hosted(call, s, m)
      BY <2>2, <2>4, <2>6
    <3>2. call.op \in {"connect", "update", "disconnect"} =>
             s0.selected # None /\ Relations(s0) \in Refreshes(call) /\ Hosted(call, s0, c0)
      BY <2>1, <3>1 DEF CallFits
    <3>3. CASE call.op = "connect"
      <4>1. s.selected = call.from /\ s.tab = "outgoing"
            /\ s0.selected = call.from /\ s0.tab = "outgoing"
        BY <3>1, <3>2, <3>3 DEF Hosted
      <4>2. Relations(s) = Relations(s0)
        BY <4>1 DEF Relations
      <4> QED
        BY <2>4, <3>1, <3>2, <3>3, <4>1, <4>2 DEF CallFits
    <3>4. CASE call.op \in {"update", "disconnect"}
      <4>1. s.selected # None /\ Shows(m, Relations(s))
        BY <3>1, <3>4 DEF Hosted
      <4>2. Relations(s) \in Used(s0, c0)
        BY <1>1, <4>1 DEF Shows, IsCache
      <4>3. Relations(s) = Relations(s0)
        BY <4>2, UsedAtoms, Queried
      <4> QED
        BY <2>4, <3>1, <3>2, <3>4, <4>1, <4>3 DEF CallFits
    <3>5. CASE call.op \notin {"connect", "update", "disconnect"}
      BY <2>4, <3>1, <3>5 DEF CallFits
    <3> QED
      BY <3>3, <3>4, <3>5
  <2> QED
    BY <2>5, <2>6
<1>3. \A call \in Left(cs, s, m) : IsCall(K, call) /\ CallFits(call, s, m)
  BY <1>2 DEF Left
<1> QED
  BY <1>3 DEF AreCalls, m

\* An answer to come is still to come when its component has gone.
LEMMA LeftToCome ==
    ASSUME NEW K, NEW cs, \A call \in cs : IsCall(K, call), NEW s, NEW m, NEW x,
           NEW call \in cs, ToCome(call, x)
    PROVE  \E gone \in Left(cs, s, m) : ToCome(gone, x)
<1>1. PICK b \in BOOLEAN : b = (call.left \/ ~Hosted(call, s, m))
  OBVIOUS
<1>2. PICK gone : gone = [call EXCEPT !.left = b]
  OBVIOUS
<1>3. gone.left = b /\ gone.state = call.state /\ Refreshes(gone) = Refreshes(call)
  BY <1>2, LeftCall
<1>4. ToCome(gone, x)
  BY <1>1, <1>3 DEF ToCome
<1>5. gone \in Left(cs, s, m)
  BY <1>1, <1>2 DEF Left
<1> QED
  BY <1>4, <1>5

\* What is remembered of the atoms is so when their components are mounted.
LEMMA MountedRemembered ==
    ASSUME NEW K, NEW s, NEW c, NEW cs, \A call \in cs : IsCall(K, call),
           NEW x \in DOMAIN Mounted(s, c), NEW told, NEW forgiven,
           x \in DOMAIN c => Remembered(x, c[x], told, forgiven, cs)
    PROVE  Remembered(x, Mounted(s, c)[x], told, forgiven, Left(cs, s, Mounted(s, c)))
<1> DEFINE m == Mounted(s, c)
<1>1. m[x] = IF x \in DOMAIN c THEN c[x] ELSE Asked(x, None)
  BY MountedAtoms
<1>2. Fresh(x, Asked(x, None), told)
  BY AskedAtom
<1> HIDE DEF m
<1>3. (\E call \in cs : ToCome(call, x)) => \E gone \in Left(cs, s, m) : ToCome(gone, x)
  BY LeftToCome
<1>4. Remembered(x, m[x], told, forgiven, Left(cs, s, m))
  BY <1>1, <1>2, <1>3 DEF Remembered, m
<1> QED
  BY <1>4 DEF m

\* Nodes are only ever added: what a screen knows stays true.
LEMMA MoreKnown ==
    ASSUME NEW K, NEW L, K \subseteq L
    PROVE  /\ ScreenState(K) \subseteq ScreenState(L)
           /\ \A x, entry : IsAtom(K, x, entry) => IsAtom(L, x, entry)
           /\ \A s, c : IsCache(K, s, c) => IsCache(L, s, c)
           /\ \A call : IsCall(K, call) => IsCall(L, call)
           /\ \A cs, s, c : AreCalls(K, cs, s, c) => AreCalls(L, cs, s, c)
<1>1. ScreenState(K) \subseteq ScreenState(L)
  BY DEF ScreenState
<1>2. \A x, row : Belongs(K, x, row) => Belongs(L, x, row)
  BY DEF Belongs
<1>3. \A x, v : IsShown(K, x, v) => IsShown(L, x, v)
  BY <1>2 DEF IsShown
<1>4. \A x, part, v : IsAnswer(K, x, part, v) => IsAnswer(L, x, part, v)
  BY <1>2 DEF IsAnswer
<1>5. \A x, entry : IsAtom(K, x, entry) => IsAtom(L, x, entry)
  BY <1>3, <1>4 DEF IsAtom
<1>6. \A s, c : IsCache(K, s, c) => IsCache(L, s, c)
  BY <1>5 DEF IsCache, AreAtoms
<1>7. ASSUME NEW call, IsCall(K, call) PROVE IsCall(L, call)
  BY <1>7 DEF IsCall, RenameCall, StatusCall, ConnectCall, UpdateCall, DisconnectCall
<1>8. \A cs, s, c : AreCalls(K, cs, s, c) => AreCalls(L, cs, s, c)
  BY <1>7 DEF AreCalls
<1> QED
  BY <1>1, <1>5, <1>6, <1>7, <1>8

\* What a step of one screen leaves alone: the server, and the other screens.
LEMMA OthersStay ==
    ASSUME ScreenInv, UNCHANGED <<stored, node>>, NEW b \in Admins,
           screen'[b] = screen[b], cache'[b] = cache[b], calls'[b] = calls[b],
           foreign'[b] = foreign[b]
    PROVE  AdminInv(b)'
<1>1. Known' = Known /\ \A x : Told(x)' = Told(x)
  BY DEF Known, Told, Answer, Related, Listed
<1> QED
  BY <1>1 DEF ScreenInv, AdminInv

\* The server's part of the invariant.
LEMMA ServerStays ==
    ASSUME ServerInv, UNCHANGED <<stored, node>>
    PROVE  ServerInv' /\ Known' = Known /\ \A x : Told(x)' = Told(x)
BY DEF ServerInv, Known, Told, Answer, Related, Listed

-----------------------------------------------------------------------------
(* Steps of a screen                                                       *)

\* A step that ends with a screen becoming s, of which nothing is forgotten.
LEMMA BecomesKeeps ==
    ASSUME ScreenInv, NEW a \in Admins, NEW s \in ScreenState(Known), NEW c,
           NEW cs \in SUBSET calls[a], Becomes(a, s, c, cs), UNCHANGED <<stored, node>>,
           AreAtoms(Known, c), DOMAIN c = DOMAIN cache[a],
           NEW forgiven, foreign' = [foreign EXCEPT ![a] = forgiven],
           \A x \in DOMAIN c \cap DOMAIN cache'[a] :
              Remembered(x, c[x], Told(x), forgiven, cs)
    PROVE  ScreenInv'
<1>1. ServerInv' /\ Known' = Known /\ \A x : Told(x)' = Told(x)
  BY ServerStays DEF ScreenInv
<1>2. PICK m : m = Mounted(s, c)
  OBVIOUS
<1>3. PICK left : left = Left(cs, s, m)
  OBVIOUS
<1>4. /\ screen' = [screen EXCEPT ![a] = s] /\ cache' = [cache EXCEPT ![a] = m]
      /\ calls' = [calls EXCEPT ![a] = left]
  BY <1>2, <1>3 DEF Becomes
<1>5. PerAdmin
  BY DEF ScreenInv
<1>6. PerAdmin' /\ screen'[a] = s /\ cache'[a] = m /\ calls'[a] = left /\ foreign'[a] = forgiven
  BY <1>4, <1>5 DEF PerAdmin
<1>7. ASSUME NEW b \in Admins, b # a
      PROVE  screen'[b] = screen[b] /\ cache'[b] = cache[b] /\ calls'[b] = calls[b]
             /\ foreign'[b] = foreign[b]
  BY <1>4, <1>5, <1>7 DEF PerAdmin
<1>8. IsCache(Known, screen[a], cache[a]) /\ AreCalls(Known, calls[a], screen[a], cache[a])
  BY DEF ScreenInv, AdminInv
<1>9. IsCache(Known, s, m)
  BY <1>2, MountedCache
<1>10. AreCalls(Known, cs, screen[a], cache[a])
  BY <1>8 DEF AreCalls
<1>11. AreCalls(Known, left, s, m)
  BY <1>2, <1>3, <1>8, <1>10, LeftCalls
<1>12. ASSUME NEW x \in DOMAIN m
       PROVE  Remembered(x, m[x], Told(x), forgiven, left)
  <2>1. x \in DOMAIN c => Remembered(x, c[x], Told(x), forgiven, cs)
    BY <1>6
  <2>2. \A call \in cs : IsCall(Known, call)
    BY <1>10 DEF AreCalls
  <2> QED
    BY <1>2, <1>3, <2>1, <2>2, MountedRemembered
<1>13. AdminInv(a)'
  BY <1>1, <1>6, <1>9, <1>11, <1>12 DEF AdminInv
<1>14. \A b \in Admins : AdminInv(b)'
  BY <1>7, <1>13, OthersStay
<1> QED
  BY <1>1, <1>6, <1>14 DEF ScreenInv

\* Changes of what the screen is showing.
LEMMA GoKeeps ==
    ASSUME ScreenInv, NEW a \in Admins, NEW s \in ScreenState(Known), Go(a, s)
    PROVE  ScreenInv'
<1>1. PICK forgiven : forgiven = foreign[a] \cap DOMAIN cache'[a]
  OBVIOUS
<1>2. /\ Becomes(a, s, cache[a], calls[a]) /\ UNCHANGED <<stored, node>>
      /\ foreign' = [foreign EXCEPT ![a] = forgiven]
  BY <1>1 DEF Go, server
<1>3. AdminInv(a)
  BY DEF ScreenInv
<1>4. AreAtoms(Known, cache[a])
  BY <1>3 DEF AdminInv, IsCache
<1>5. \A x \in DOMAIN cache[a] \cap DOMAIN cache'[a] :
         Remembered(x, cache[a][x], Told(x), forgiven, calls[a])
  BY <1>1, <1>3 DEF AdminInv, Remembered
<1> QED
  BY <1>2, <1>4, <1>5, BecomesKeeps

\* The relations shown belong to the selected node.
LEMMA RowsShown ==
    ASSUME ScreenInv, NEW a \in Admins, NEW e \in DOMAIN Rows(a)
    PROVE  /\ screen[a].selected # None /\ Shows(cache[a], Relations(screen[a]))
           /\ Rows(a) = cache[a][Relations(screen[a])].shown
           /\ DOMAIN Rows(a) \subseteq EdgeIds
           /\ \A i \in DOMAIN Rows(a) : Belongs(Known, Relations(screen[a]), Rows(a)[i].row)
<1> DEFINE x == Relations(screen[a])
<1>1. screen[a].selected # None /\ Shows(cache[a], x) /\ Rows(a) = cache[a][x].shown
  BY DEF Rows
<1>2. IsCache(Known, screen[a], cache[a])
  BY DEF ScreenInv, AdminInv
<1>3. IsAtom(Known, x, cache[a][x]) /\ cache[a][x].shown \notin {None, Failed}
  BY <1>1, <1>2 DEF Shows, IsCache, AreAtoms
<1>4. IsShown(Known, x, Rows(a)) /\ IsRelations(x)
  BY <1>1, <1>3, Queried DEF IsAtom
<1> QED
  BY <1>1, <1>4 DEF IsShown

LEMMA MovesKeep ==
    ASSUME ScreenInv, NEW a \in Admins, Moves(a)
    PROVE  ScreenInv'
<1>1. screen[a] \in ScreenState(Known) /\ IsCache(Known, screen[a], cache[a])
  BY DEF ScreenInv, AdminInv
<1>2. CASE SelectNode(a)
  <2> DEFINE list == ListOf(screen[a].kind, screen[a].status)
             x == Relations(screen[a])
  <2>1. PICK n : /\ \/ Shows(cache[a], list) /\ n \in DOMAIN cache[a][list].shown
                    \/ \E e \in DOMAIN Rows(a) : n = Far(x, Rows(a)[e].row)
                 /\ Go(a, [screen[a] EXCEPT !.selected = n, !.tab = "outgoing"])
    BY <1>2 DEF SelectNode
  <2>2. n \in Known
    <3>1. CASE Shows(cache[a], list) /\ n \in DOMAIN cache[a][list].shown
      <4>1. IsAtom(Known, list, cache[a][list]) /\ list[1] = "list"
        BY <1>1, <3>1, Queried DEF Shows, IsCache, AreAtoms
      <4> QED
        BY <3>1, <4>1 DEF IsAtom, IsShown, Shows
    <3>2. ASSUME NEW e \in DOMAIN Rows(a), n = Far(x, Rows(a)[e].row) PROVE n \in Known
      <4>1. Belongs(Known, x, Rows(a)[e].row)
        BY RowsShown
      <4> QED
        BY <3>2, <4>1 DEF Belongs, Far
    <3> QED
      BY <2>1, <3>1, <3>2
  <2>3. PICK s : s = [screen[a] EXCEPT !.selected = n, !.tab = "outgoing"]
    OBVIOUS
  <2>4. s \in ScreenState(Known)
    BY <1>1, <2>2, <2>3 DEF ScreenState
  <2> QED
    BY <2>1, <2>3, <2>4, GoKeeps
<1>3. CASE SwitchTab(a)
  <2>1. PICK s : /\ s = [screen[a] EXCEPT !.tab = IF @ = "outgoing" THEN "incoming"
                                                                ELSE "outgoing"]
                 /\ Go(a, s)
    BY <1>3 DEF SwitchTab
  <2>2. s \in ScreenState(Known)
    BY <1>1, <2>1 DEF ScreenState
  <2> QED
    BY <2>1, <2>2, GoKeeps
<1>4. CASE SetFilter(a)
  <2>1. PICK filter \in Filters :
           Go(a, [screen[a] EXCEPT !.kind = filter[1], !.status = filter[2]])
    BY <1>4 DEF SetFilter
  <2>2. PICK s : s = [screen[a] EXCEPT !.kind = filter[1], !.status = filter[2]]
    OBVIOUS
  <2>3. filter \in NodeKinds \X Statuses
    BY ScreenAssumption
  <2>4. s \in ScreenState(Known)
    BY <1>1, <2>2, <2>3 DEF ScreenState
  <2> QED
    BY <2>1, <2>2, <2>4, GoKeeps
<1> QED
  BY <1>2, <1>3, <1>4 DEF Moves

\* What the server answers to the queries of a screen.
LEMMA AnswersOf ==
    ASSUME ServerInv, NEW s \in ScreenState(Known), NEW c, NEW x \in Used(s, c),
           NEW part \in Parts(x)
    PROVE  IsAnswer(Known, x, part, Answer(x, part))
<1>1. CASE x = ListOf(s.kind, s.status)
  <2>1. x[1] = "list" /\ ~IsRelations(x)
    BY <1>1, Queried
  <2>2. Answer(x, part) = [n \in Listed(x[2], x[3]) |-> node[n].name]
    BY <2>1 DEF Answer, Parts
  <2>3. Listed(x[2], x[3]) \subseteq Known
    BY DEF Listed, Known
  <2> QED
    BY <2>1, <2>2, <2>3 DEF IsAnswer
<1>2. CASE s.selected # None /\ x = Detail(s.selected)
  <2>1. x[1] = "node" /\ x[2] = s.selected /\ ~IsRelations(x)
    BY <1>2, Queried
  <2>2. Answer(x, part) = node[s.selected]
    BY <2>1 DEF Answer, Parts
  <2>3. node[s.selected] \in NodeRow
    BY <1>2 DEF ScreenState, ServerInv, Known
  <2> QED
    BY <2>1, <2>2, <2>3 DEF IsAnswer
<1>3. CASE x = Relations(s)
  <2>1. IsRelations(x)
    BY <1>3, Queried
  <2>2. x[1] # "node" /\ x[1] # "list"
    BY <2>1 DEF IsRelations
  <2>3. CASE part = "edges"
    <3>1. Answer(x, part) = [e \in Related(x) |-> stored[e]]
      BY <2>2, <2>3 DEF Answer
    <3>2. Related(x) \subseteq EdgeIds /\ \A e \in Related(x) : Belongs(Known, x, stored[e])
      BY DEF Related, ServerInv, IsTable, Belongs
    <3> QED
      BY <2>2, <3>1, <3>2 DEF IsAnswer
  <2>4. CASE part # "edges"
    BY <2>2, <2>4 DEF IsAnswer
  <2> QED
    BY <2>3, <2>4
<1> QED
  BY <1>1, <1>2, <1>3, UsedAtoms

\* What an atom of which everything has been answered shows.
LEMMA ValueShown ==
    ASSUME NEW K, NEW x, NEW got, \A part \in Parts(x) : IsAnswer(K, x, part, got[part])
    PROVE  IsShown(K, x, Value(x, got))
<1>1. CASE IsRelations(x)
  <2>1. PICK rows : rows = got["edges"]
    OBVIOUS
  <2>2. DOMAIN rows \subseteq EdgeIds /\ \A e \in DOMAIN rows : Belongs(K, x, rows[e])
    BY <1>1, <2>1 DEF Parts, IsAnswer
  <2>3. PICK v : v = PairRelations(x, rows, got["nodes"])
    OBVIOUS
  <2>4. DOMAIN v \subseteq DOMAIN rows /\ \A e \in DOMAIN v : v[e].row = rows[e]
    BY <2>3 DEF PairRelations
  <2>5. Value(x, got) = v
    BY <1>1, <2>1, <2>3 DEF Value
  <2>6. x[1] # "node" /\ x[1] # "list"
    BY <1>1 DEF IsRelations
  <2> QED
    BY <2>2, <2>4, <2>5, <2>6 DEF IsShown
<1>2. CASE ~IsRelations(x)
  BY <1>2 DEF Parts, IsAnswer, IsShown, Value
<1> QED
  BY <1>1, <1>2

\* An atom that is being told what the server answers is once it is told all.
LEMMA ValueTold ==
    ASSUME NEW x, NEW got, got = [part \in Parts(x) |-> got[part]],
           \A part \in Parts(x) : got[part] = Told(x)[part]
    PROVE  got = Told(x)
<1>1. Told(x) = [part \in Parts(x) |-> Told(x)[part]]
  BY DEF Told
<1> QED
  BY <1>1

LEMMA ReadKeeps ==
    ASSUME ScreenInv, NEW a \in Admins, NEW x \in DOMAIN cache[a], NEW part \in Parts(x),
           Read(a, x, part)
    PROVE  ScreenInv'
<1>1. PICK atom : atom = cache[a][x]
  OBVIOUS
<1>2. PICK got : got = [atom.got EXCEPT ![part] = Answer(x, part)]
  OBVIOUS
<1>3. PICK rest : rest = atom.waiting \ {part}
  OBVIOUS
<1>4. PICK entry : entry = IF rest = {}
                           THEN [Asked(x, Value(x, got)) EXCEPT !.waiting = {}]
                           ELSE [atom EXCEPT !.waiting = rest, !.got = got]
  OBVIOUS
<1>5. PICK c : c = [cache[a] EXCEPT ![x] = entry]
  OBVIOUS
<1>6. PICK forgiven : forgiven = foreign[a] \cap DOMAIN cache'[a]
  OBVIOUS
<1>7. /\ part \in atom.waiting
      /\ Becomes(a, screen[a], c, calls[a]) /\ UNCHANGED <<stored, node>>
      /\ foreign' = [foreign EXCEPT ![a] = forgiven]
  BY <1>1, <1>2, <1>3, <1>4, <1>5, <1>6 DEF Read, server
<1>8. AdminInv(a) /\ screen[a] \in ScreenState(Known) /\ IsCache(Known, screen[a], cache[a])
      /\ ServerInv
  BY DEF ScreenInv, AdminInv
<1>9. IsAtom(Known, x, atom) /\ x \in Used(screen[a], cache[a])
  BY <1>1, <1>8 DEF IsCache, AreAtoms
<1>10. /\ got = [p \in Parts(x) |-> got[p]] /\ got[part] = Answer(x, part)
       /\ \A p \in Parts(x) \ {part} : got[p] = atom.got[p]
  BY <1>2, <1>9 DEF IsAtom
<1>11. \A p \in Parts(x) \ rest : IsAnswer(Known, x, p, got[p])
  <2>1. IsAnswer(Known, x, part, got[part])
    BY <1>8, <1>9, <1>10, AnswersOf
  <2>2. \A p \in Parts(x) \ atom.waiting : IsAnswer(Known, x, p, atom.got[p])
    BY <1>7, <1>9 DEF IsAtom
  <2> QED
    BY <1>3, <1>10, <2>1, <2>2
<1>12. entry.waiting = rest
       /\ (rest = {} => entry.shown = Value(x, got)) /\ (rest # {} => entry.got = got)
  <2>1. CASE rest = {}
    BY <1>4, <2>1 DEF Asked
  <2>2. CASE rest # {}
    BY <1>4, <1>9, <2>2 DEF IsAtom
  <2> QED
    BY <2>1, <2>2
<1>13. IsAtom(Known, x, entry)
  <2>1. CASE rest = {}
    <3>1. entry = [shown |-> Value(x, got), waiting |-> {}, got |-> [p \in Parts(x) |-> None]]
      BY <1>4, <2>1 DEF Asked
    <3>2. IsShown(Known, x, Value(x, got))
      BY <1>11, <2>1, ValueShown
    <3> QED
      BY <3>1, <3>2 DEF IsAtom
  <2>2. CASE rest # {}
    <3>1. entry = [shown |-> atom.shown, waiting |-> rest, got |-> got]
      BY <1>4, <1>9, <2>2 DEF IsAtom
    <3> QED
      BY <1>3, <1>9, <1>10, <1>11, <3>1 DEF IsAtom
  <2> QED
    BY <2>1, <2>2
<1>14. DOMAIN c = DOMAIN cache[a] /\ c[x] = entry /\ c = [y \in DOMAIN c |-> c[y]]
       /\ \A y \in DOMAIN c \ {x} : c[y] = cache[a][y]
  BY <1>5
<1>15. AreAtoms(Known, c)
  BY <1>8, <1>13, <1>14 DEF IsCache, AreAtoms
<1>16. Fresh(x, atom, Told(x)) => Fresh(x, entry, Told(x))
  <2> SUFFICES ASSUME Fresh(x, atom, Told(x)) PROVE Fresh(x, entry, Told(x))
    OBVIOUS
  <2>1. \A p \in Parts(x) \ atom.waiting : atom.got[p] = Told(x)[p]
    BY <1>7 DEF Fresh
  <2>2. Told(x)[part] = Answer(x, part)
    BY DEF Told
  <2>3. \A p \in Parts(x) \ rest : got[p] = Told(x)[p]
    BY <1>3, <1>10, <2>1, <2>2
  <2>4. CASE rest = {}
    <3>1. got = Told(x)
      BY <1>10, <2>3, <2>4, ValueTold
    <3> QED
      BY <1>12, <2>4, <3>1 DEF Fresh
  <2>5. CASE rest # {}
    BY <1>12, <2>3, <2>5 DEF Fresh
  <2> QED
    BY <2>4, <2>5
<1>17. ASSUME NEW y \in DOMAIN c \cap DOMAIN cache'[a]
       PROVE  Remembered(y, c[y], Told(y), forgiven, calls[a])
  <2>1. Remembered(y, cache[a][y], Told(y), foreign[a], calls[a])
    BY <1>8, <1>14 DEF AdminInv
  <2>2. Fresh(y, cache[a][y], Told(y)) => Fresh(y, c[y], Told(y))
    BY <1>1, <1>14, <1>16
  <2> QED
    BY <1>6, <2>1, <2>2 DEF Remembered
<1> QED
  BY <1>7, <1>8, <1>14, <1>15, <1>17, BecomesKeeps

LEMMA FailReadKeeps ==
    ASSUME ScreenInv, NEW a \in Admins, NEW x \in DOMAIN cache[a], FailRead(a, x)
    PROVE  ScreenInv'
<1>1. PICK entry : entry = [Asked(x, Failed) EXCEPT !.waiting = {}]
  OBVIOUS
<1>2. PICK c : c = [cache[a] EXCEPT ![x] = entry]
  OBVIOUS
<1>3. PICK forgiven : forgiven = foreign[a] \cap DOMAIN cache'[a]
  OBVIOUS
<1>0. PICK s : s = ShownTab(screen[a], x)
  OBVIOUS
<1>4. /\ Becomes(a, s, c, calls[a]) /\ UNCHANGED <<stored, node>>
      /\ foreign' = [foreign EXCEPT ![a] = forgiven]
  BY <1>0, <1>1, <1>2, <1>3 DEF FailRead, server
<1>5. AdminInv(a) /\ screen[a] \in ScreenState(Known) /\ IsCache(Known, screen[a], cache[a])
  BY DEF ScreenInv, AdminInv
<1>6. IsAtom(Known, x, entry) /\ \A told : Fresh(x, entry, told)
  BY <1>1 DEF IsAtom, Fresh, Asked
<1>7. DOMAIN c = DOMAIN cache[a] /\ c[x] = entry /\ c = [y \in DOMAIN c |-> c[y]]
      /\ \A y \in DOMAIN c \ {x} : c[y] = cache[a][y]
  BY <1>2
<1>8. AreAtoms(Known, c)
  BY <1>5, <1>6, <1>7 DEF IsCache, AreAtoms
<1>9. ASSUME NEW y \in DOMAIN c \cap DOMAIN cache'[a]
      PROVE  Remembered(y, c[y], Told(y), forgiven, calls[a])
  <2>1. Remembered(y, cache[a][y], Told(y), foreign[a], calls[a])
    BY <1>5, <1>7 DEF AdminInv
  <2>2. Fresh(y, cache[a][y], Told(y)) => Fresh(y, c[y], Told(y))
    BY <1>6, <1>7
  <2> QED
    BY <1>3, <2>1, <2>2 DEF Remembered
<1>10. s \in ScreenState(Known)
  BY <1>0, <1>5 DEF ShownTab, ScreenState
<1> QED
  BY <1>4, <1>7, <1>8, <1>9, <1>10, BecomesKeeps

\* The answer of a mutation, heard or not.
LEMMA HearKeeps ==
    ASSUME ScreenInv, NEW a \in Admins, NEW call \in calls[a], Hear(a, call)
    PROVE  ScreenInv'
<1>1. PICK heard \in IF call.left THEN BOOLEAN ELSE {TRUE} :
         LET again == IF heard THEN Refreshes(call) ELSE {}
         IN  /\ Becomes(a, screen[a], Refreshed(cache[a], again), calls[a] \ {call})
             /\ foreign' = [foreign EXCEPT ![a] =
                   (IF call.left THEN DOMAIN cache[a] ELSE @) \ again]
  BY DEF Hear
<1>2. PICK again : again = IF heard THEN Refreshes(call) ELSE {}
  OBVIOUS
<1>3. PICK c : c = Refreshed(cache[a], again)
  OBVIOUS
<1>4. PICK forgiven : forgiven = (IF call.left THEN DOMAIN cache[a] ELSE foreign[a]) \ again
  OBVIOUS
<1>5. PICK cs \in SUBSET calls[a] : cs = calls[a] \ {call}
  OBVIOUS
<1>6. /\ Becomes(a, screen[a], c, cs) /\ UNCHANGED <<stored, node>>
      /\ foreign' = [foreign EXCEPT ![a] = forgiven]
  BY <1>1, <1>2, <1>3, <1>4, <1>5 DEF Hear, server
<1>7. AdminInv(a) /\ screen[a] \in ScreenState(Known) /\ IsCache(Known, screen[a], cache[a])
  BY DEF ScreenInv, AdminInv
<1>8. DOMAIN c = DOMAIN cache[a] /\ c = [x \in DOMAIN c |-> c[x]]
      /\ \A x \in DOMAIN c :
            c[x] = IF x \in again THEN Asked(x, cache[a][x].shown) ELSE cache[a][x]
  BY <1>3 DEF Refreshed
<1>9. ASSUME NEW x \in DOMAIN c
      PROVE  IsAtom(Known, x, c[x]) /\ (x \in again => Fresh(x, c[x], Told(x)))
  <2>1. IsAtom(Known, x, cache[a][x])
    BY <1>7, <1>8 DEF IsCache, AreAtoms
  <2>2. cache[a][x].shown \notin {None, Failed} => IsShown(Known, x, cache[a][x].shown)
    BY <2>1 DEF IsAtom
  <2>3. \A told : IsAtom(Known, x, Asked(x, cache[a][x].shown))
                  /\ Fresh(x, Asked(x, cache[a][x].shown), told)
    BY <2>2, AskedAtom
  <2> QED
    BY <1>8, <2>1, <2>3
<1>10. AreAtoms(Known, c)
  BY <1>8, <1>9 DEF AreAtoms
<1>11. ASSUME NEW x \in DOMAIN c \cap DOMAIN cache'[a]
       PROVE  Remembered(x, c[x], Told(x), forgiven, cs)
  <2>1. CASE x \in again
    BY <1>9, <2>1 DEF Remembered
  <2>2. CASE x \notin again
    <3>1. Remembered(x, cache[a][x], Told(x), foreign[a], calls[a]) /\ c[x] = cache[a][x]
      BY <1>7, <1>8, <2>2 DEF AdminInv
    <3>2. CASE call.left
      BY <1>4, <1>8, <2>2, <3>2 DEF Remembered
    <3>3. CASE ~call.left
      <4>1. forgiven = foreign[a] \ again /\ ~ToCome(call, x)
        BY <1>2, <1>4, <2>2, <3>3 DEF ToCome
      <4> QED
        BY <1>5, <2>2, <3>1, <4>1 DEF Remembered
    <3> QED
      BY <3>2, <3>3
  <2> QED
    BY <2>1, <2>2
<1> QED
  BY <1>6, <1>7, <1>8, <1>10, <1>11, BecomesKeeps

LEMMA LoseAnswerKeeps ==
    ASSUME ScreenInv, NEW a \in Admins, NEW call \in calls[a], LoseAnswer(a, call)
    PROVE  ScreenInv'
<1>1. PICK cs \in SUBSET calls[a] : cs = calls[a] \ {call}
  OBVIOUS
<1>2. PICK forgiven : forgiven = DOMAIN cache[a]
  OBVIOUS
<1>3. /\ Becomes(a, screen[a], cache[a], cs) /\ UNCHANGED <<stored, node>>
      /\ foreign' = [foreign EXCEPT ![a] = forgiven]
  BY <1>1, <1>2 DEF LoseAnswer, server
<1>4. screen[a] \in ScreenState(Known) /\ AreAtoms(Known, cache[a])
  BY DEF ScreenInv, AdminInv, IsCache
<1>5. \A x \in DOMAIN cache[a] \cap DOMAIN cache'[a] :
         Remembered(x, cache[a][x], Told(x), forgiven, cs)
  BY <1>2 DEF Remembered
<1> QED
  BY <1>3, <1>4, <1>5, BecomesKeeps

\* A request is sent: it is about what the screen shows.
LEMMA SendKeeps ==
    ASSUME ScreenInv, NEW a \in Admins, NEW call, Send(a, call), IsCall(Known, call),
           CallFits(call, screen[a], cache[a])
    PROVE  ScreenInv'
<1>1. UNCHANGED <<stored, node>> /\ UNCHANGED <<screen, cache, foreign>>
      /\ calls' = [calls EXCEPT ![a] = @ \cup {call}]
  BY DEF Send, server
<1>2. ServerInv' /\ Known' = Known /\ \A x : Told(x)' = Told(x)
  BY <1>1, ServerStays DEF ScreenInv
<1>3. PerAdmin' /\ calls'[a] = calls[a] \cup {call}
      /\ \A b \in Admins \ {a} : calls'[b] = calls[b]
  BY <1>1 DEF ScreenInv, PerAdmin
<1>4. AdminInv(a)
  BY DEF ScreenInv
<1>5. AreCalls(Known, calls'[a], screen[a], cache[a])
  BY <1>3, <1>4 DEF AdminInv, AreCalls
<1>6. \A x \in DOMAIN cache[a] :
         Remembered(x, cache[a][x], Told(x), foreign[a], calls'[a])
  BY <1>3, <1>4 DEF AdminInv, Remembered
<1>7. AdminInv(a)'
  BY <1>1, <1>2, <1>4, <1>5, <1>6 DEF AdminInv
<1>8. \A b \in Admins : AdminInv(b)'
  BY <1>1, <1>3, <1>7, OthersStay
<1> QED
  BY <1>2, <1>3, <1>8 DEF ScreenInv

\* The selected node, when its detail is shown.
LEMMA DetailShown ==
    ASSUME ScreenInv, NEW a \in Admins, screen[a].selected # None,
           Shows(cache[a], Detail(screen[a].selected))
    PROVE  /\ screen[a].selected \in Known
           /\ cache[a][Detail(screen[a].selected)].shown \in NodeRow
<1> DEFINE x == Detail(screen[a].selected)
<1>1. screen[a] \in ScreenState(Known) /\ IsCache(Known, screen[a], cache[a])
  BY DEF ScreenInv, AdminInv
<1>2. IsAtom(Known, x, cache[a][x]) /\ x[1] = "node"
  BY <1>1, Queried DEF Shows, IsCache, AreAtoms
<1> QED
  BY <1>1, <1>2 DEF ScreenState, IsAtom, IsShown, Shows

LEMMA NodeButtonsKeep ==
    ASSUME ScreenInv, NEW a \in Admins, CreateNode(a) \/ RenameNode(a) \/ SelectStatus(a)
    PROVE  ScreenInv'
<1>1. screen[a] \in ScreenState(Known)
  BY DEF ScreenInv, AdminInv
<1> DEFINE n == screen[a].selected
<1>2. CASE CreateNode(a)
  <2>1. PICK name, call :
           /\ name \in Names
           /\ call = [op |-> "create", kind |-> screen[a].kind, name |-> name,
                      state |-> "sent", left |-> FALSE]
           /\ Send(a, call)
    BY <1>2 DEF CreateNode
  <2>2. IsCall(Known, call) /\ call.op = "create"
    BY <1>1, <2>1 DEF ScreenState, IsCall, CreateCall, States
  <2>3. CallFits(call, screen[a], cache[a])
    BY <2>2 DEF CallFits, Hosted
  <2> QED
    BY <2>1, <2>2, <2>3, SendKeeps
<1>3. CASE RenameNode(a)
  <2>1. PICK name, call :
           /\ name \in Names
           /\ call = [op |-> "rename", node |-> n, name |-> name,
                      filter |-> <<screen[a].kind, screen[a].status>>,
                      state |-> "sent", left |-> FALSE]
           /\ Send(a, call)
    BY <1>3 DEF RenameNode
  <2>2. n \in Known
    BY <1>3, DetailShown DEF RenameNode
  <2>3. IsCall(Known, call) /\ call.op = "rename" /\ call.node = n
    BY <1>1, <2>1, <2>2 DEF ScreenState, IsCall, RenameCall, States
  <2>4. CallFits(call, screen[a], cache[a])
    BY <2>3 DEF CallFits, Hosted
  <2> QED
    BY <2>1, <2>3, <2>4, SendKeeps
<1>4. CASE SelectStatus(a)
  <2>1. PICK status, call :
           /\ status \in Statuses
           /\ call = [op |-> "status", node |-> n, kind |-> NodeKind[n],
                      previous |-> cache[a][Detail(n)].shown.status, status |-> status,
                      state |-> "sent", left |-> FALSE]
           /\ Send(a, call)
    BY <1>4 DEF SelectStatus
  <2>2. n \in Known /\ cache[a][Detail(n)].shown \in NodeRow
    BY <1>4, DetailShown DEF SelectStatus
  <2>3. cache[a][Detail(n)].shown.status \in Statuses /\ NodeKind[n] \in NodeKinds
    BY <2>2, CatalogAssumption DEF NodeRow, Known
  <2>4. IsCall(Known, call) /\ call.op = "status" /\ call.node = n
    BY <2>1, <2>2, <2>3 DEF IsCall, StatusCall, States
  <2>5. CallFits(call, screen[a], cache[a])
    BY <2>4 DEF CallFits, Hosted
  <2> QED
    BY <2>1, <2>4, <2>5, SendKeeps
<1> QED
  BY <1>2, <1>3, <1>4

LEMMA ConnectKeeps ==
    ASSUME ScreenInv, NEW a \in Admins, ConnectNodes(a)
    PROVE  ScreenInv'
<1> DEFINE n == screen[a].selected
<1>1. screen[a] \in ScreenState(Known)
  BY DEF ScreenInv, AdminInv
<1>2. PICK k, m, call :
         /\ k \in EdgeKinds /\ m \in Candidates(ToKind[k])
         /\ call = [op |-> "connect", kind |-> k, from |-> n, to |-> m,
                    state |-> "sent", left |-> FALSE]
         /\ Send(a, call)
  BY DEF ConnectNodes
<1>3. n \in Known /\ m \in Known /\ n # None /\ screen[a].tab = "outgoing"
  <2>1. n # None /\ screen[a].tab = "outgoing"
    BY DEF ConnectNodes
  <2>2. n \in Known
    BY <1>1, <2>1 DEF ScreenState
  <2> QED
    BY <1>2, <2>1, <2>2 DEF Candidates, Known
<1>4. IsCall(Known, call) /\ call.op = "connect" /\ call.from = n
  BY <1>2, <1>3 DEF IsCall, ConnectCall, States
<1>5. Relations(screen[a]) = Outgoing(n) /\ Outgoing(n) \in Refreshes(call)
  BY <1>3, <1>4 DEF Relations, Refreshes
<1>6. Shows(cache[a], Relations(screen[a]))
  BY <1>5 DEF ConnectNodes
<1>7. CallFits(call, screen[a], cache[a])
  BY <1>3, <1>4, <1>5, <1>6 DEF CallFits, Hosted
<1> QED
  BY <1>2, <1>4, <1>7, SendKeeps

\* The buttons of a relation shown.
LEMMA UpdateKeeps ==
    ASSUME ScreenInv, NEW a \in Admins, NEW e \in DOMAIN Rows(a),
           NEW by \in {"edit", "reorder"}, NEW from \in Known, NEW position \in Nat,
           Update(a, e, by, from, position)
    PROVE  ScreenInv'
<1>1. PICK row : row = Rows(a)[e].row
  OBVIOUS
<1>2. PICK call : /\ call = [op |-> "update", by |-> by, edge |-> e, previous |-> row.from,
                             from |-> from, to |-> row.to, position |-> position,
                             state |-> "sent", left |-> FALSE]
                  /\ Send(a, call)
  BY <1>1 DEF Update
<1>3. /\ screen[a].selected # None /\ Shows(cache[a], Relations(screen[a]))
      /\ e \in EdgeIds /\ e \in DOMAIN cache[a][Relations(screen[a])].shown
      /\ Belongs(Known, Relations(screen[a]), row)
  BY <1>1, RowsShown
<1>4. row.from \in Known /\ row.to \in Known
      /\ Near(Relations(screen[a]), row) = Relations(screen[a])[2]
  BY <1>3 DEF Belongs
<1>5. /\ IsCall(Known, call) /\ call.op = "update" /\ call.edge = e
      /\ call.previous = row.from /\ call.to = row.to
  BY <1>2, <1>3, <1>4 DEF IsCall, UpdateCall, States
<1>6. Relations(screen[a]) \in {Outgoing(row.from), Incoming(row.to)}
  BY <1>4, Queried DEF Relations, Near, Outgoing, Incoming
<1>7. Refreshes(call) = RelationsUpdated(call)
  BY <1>5 DEF Refreshes
<1>8. Relations(screen[a]) \in Refreshes(call)
  BY <1>5, <1>6, <1>7 DEF RelationsUpdated
<1>9. CallFits(call, screen[a], cache[a])
  BY <1>3, <1>5, <1>8 DEF CallFits, Hosted
<1> QED
  BY <1>2, <1>5, <1>9, SendKeeps

LEMMA DisconnectKeeps ==
    ASSUME ScreenInv, NEW a \in Admins, Disconnect(a)
    PROVE  ScreenInv'
<1>1. PICK e, row, call :
         /\ e \in DOMAIN Rows(a) /\ row = Rows(a)[e].row
         /\ call = [op |-> "disconnect", edge |-> e, from |-> row.from, to |-> row.to,
                    state |-> "sent", left |-> FALSE]
         /\ Send(a, call)
  BY DEF Disconnect
<1>2. /\ screen[a].selected # None /\ Shows(cache[a], Relations(screen[a]))
      /\ e \in EdgeIds /\ e \in DOMAIN cache[a][Relations(screen[a])].shown
      /\ Belongs(Known, Relations(screen[a]), row)
  BY <1>1, RowsShown
<1>3. row.from \in Known /\ row.to \in Known
      /\ Near(Relations(screen[a]), row) = Relations(screen[a])[2]
  BY <1>2 DEF Belongs
<1>4. /\ IsCall(Known, call) /\ call.op = "disconnect" /\ call.edge = e
      /\ call.from = row.from /\ call.to = row.to
  BY <1>1, <1>2, <1>3 DEF IsCall, DisconnectCall, States
<1>5. Relations(screen[a]) \in {Outgoing(row.from), Incoming(row.to)}
  BY <1>3, Queried DEF Relations, Near, Outgoing, Incoming
<1>6. Relations(screen[a]) \in Refreshes(call)
  BY <1>4, <1>5 DEF Refreshes
<1>7. CallFits(call, screen[a], cache[a])
  BY <1>2, <1>4, <1>6 DEF CallFits, Hosted
<1> QED
  BY <1>1, <1>4, <1>7, SendKeeps

\* A place among the relations shown is a number.
LEMMA PlaceShown ==
    ASSUME ScreenInv, NEW a \in Admins, NEW e \in DOMAIN Rows(a)
    PROVE  SiblingIndex(Rows(a), e) \in Nat
<1> DEFINE rows == Rows(a)
           places == [i \in {j \in DOMAIN rows : rows[j].row.kind = rows[e].row.kind} |->
                         rows[i].row.position]
<1>1. DOMAIN rows \subseteq EdgeIds
  BY RowsShown
<1>2. IsSiblings(places)
  BY <1>1 DEF IsSiblings
<1>3. IndexIn(places, e) \in Nat
  <2> HIDE DEF places
  <2> QED
    BY <1>2, IndexInNat
<1> QED
  BY <1>3 DEF SiblingIndex

LEMMA ButtonsKeep ==
    ASSUME ScreenInv, NEW a \in Admins, Buttons(a)
    PROVE  ScreenInv'
<1>1. CASE EditRelation(a)
  <2>1. PICK e, row, parent :
           /\ e \in DOMAIN Rows(a) /\ row = Rows(a)[e].row
           /\ parent \in Candidates(FromKind[row.kind]) \cup {row.from}
           /\ Update(a, e, "edit", parent, row.position)
    BY <1>1 DEF EditRelation
  <2>2. row \in Edge /\ row.from \in Known
    BY <2>1, RowsShown DEF Belongs
  <2>3. parent \in Known /\ row.position \in Nat
    BY <2>1, <2>2 DEF Candidates, Known, Edge
  <2> QED
    BY <2>1, <2>3, UpdateKeeps
<1>2. CASE Reorder(a)
  <2>1. PICK e, index :
           /\ e \in DOMAIN Rows(a) /\ index = SiblingIndex(Rows(a), e)
           /\ \/ index > 0 /\ Update(a, e, "reorder", Rows(a)[e].row.from, index - 1)
              \/ Update(a, e, "reorder", Rows(a)[e].row.from, index + 1)
    BY <1>2 DEF Reorder
  <2>2. Rows(a)[e].row.from \in Known
    BY <2>1, RowsShown DEF Belongs
  <2>3. index \in Nat
    BY <2>1, PlaceShown
  <2>4. CASE index > 0 /\ Update(a, e, "reorder", Rows(a)[e].row.from, index - 1)
    <3>1. index - 1 \in Nat
      BY <2>3, <2>4
    <3> QED
      BY <2>1, <2>2, <2>4, <3>1, UpdateKeeps
  <2>5. CASE Update(a, e, "reorder", Rows(a)[e].row.from, index + 1)
    <3>1. index + 1 \in Nat
      BY <2>3
    <3> QED
      BY <2>1, <2>2, <2>5, <3>1, UpdateKeeps
  <2> QED
    BY <2>1, <2>4, <2>5
<1> QED
  BY <1>1, <1>2, NodeButtonsKeep, ConnectKeeps, DisconnectKeeps DEF Buttons

\* A request refused: it was not executed, so nothing waits for its answer.
LEMMA RefuseKeeps ==
    ASSUME ScreenInv, NEW a \in Admins, NEW call \in calls[a], Refuse(a, call)
    PROVE  ScreenInv'
<1>1. /\ UNCHANGED <<stored, node>> /\ UNCHANGED <<screen, cache, foreign>>
      /\ calls' = [calls EXCEPT ![a] = @ \ {call}] /\ call.state = "sent"
  BY DEF Refuse, server
<1>2. ServerInv' /\ Known' = Known /\ \A x : Told(x)' = Told(x)
  BY <1>1, ServerStays DEF ScreenInv
<1>3. PerAdmin' /\ calls'[a] = calls[a] \ {call}
      /\ \A b \in Admins \ {a} : calls'[b] = calls[b]
  BY <1>1 DEF ScreenInv, PerAdmin
<1>4. AdminInv(a)
  BY DEF ScreenInv
<1>5. AreCalls(Known, calls'[a], screen[a], cache[a])
  BY <1>3, <1>4 DEF AdminInv, AreCalls
<1>6. \A x : ~ToCome(call, x)
  BY <1>1 DEF ToCome
<1>7. \A x \in DOMAIN cache[a] :
         Remembered(x, cache[a][x], Told(x), foreign[a], calls'[a])
  BY <1>3, <1>4, <1>6 DEF AdminInv, Remembered
<1>8. AdminInv(a)'
  BY <1>1, <1>2, <1>4, <1>5, <1>7 DEF AdminInv
<1>9. \A b \in Admins : AdminInv(b)'
  BY <1>1, <1>3, <1>8, OthersStay
<1> QED
  BY <1>2, <1>3, <1>9 DEF ScreenInv

-----------------------------------------------------------------------------
(* Steps of the server                                                     *)

\* The relations made of the rows E and the names N of their ends.
LEMMA PairsMade ==
    ASSUME NEW x, NEW E, NEW N, DOMAIN N = {Far(x, E[e]) : e \in DOMAIN E},
           NEW p, p = PairRelations(x, E, N)
    PROVE  /\ DOMAIN p = DOMAIN E
           /\ \A e \in DOMAIN E : p[e].row = E[e] /\ p[e].name = N[Far(x, E[e])]
BY DEF PairRelations

\* The rows of a list of relations can be told from what is made of them.
LEMMA PairsDetermine ==
    ASSUME NEW x, NEW E, NEW N, NEW F, NEW M,
           E = [e \in DOMAIN E |-> E[e]], F = [e \in DOMAIN F |-> F[e]],
           N = [n \in DOMAIN N |-> N[n]], M = [n \in DOMAIN M |-> M[n]],
           DOMAIN N = {Far(x, E[e]) : e \in DOMAIN E},
           DOMAIN M = {Far(x, F[e]) : e \in DOMAIN F},
           PairRelations(x, E, N) = PairRelations(x, F, M)
    PROVE  E = F /\ N = M
<1>1. PICK p : p = PairRelations(x, E, N)
  OBVIOUS
<1>2. DOMAIN p = DOMAIN E /\ \A e \in DOMAIN E : p[e].row = E[e] /\ p[e].name = N[Far(x, E[e])]
  BY <1>1, PairsMade
<1>3. DOMAIN p = DOMAIN F /\ \A e \in DOMAIN F : p[e].row = F[e] /\ p[e].name = M[Far(x, F[e])]
  BY <1>1, PairsMade
<1>4. DOMAIN E = DOMAIN F /\ \A e \in DOMAIN E : E[e] = F[e]
  BY <1>2, <1>3
<1>5. E = F
  BY <1>4
<1>6. DOMAIN N = DOMAIN M
  BY <1>5
<1>7. \A n \in DOMAIN N : N[n] = M[n]
  BY <1>2, <1>3, <1>5
<1> QED
  BY <1>5, <1>6, <1>7

\* The answers to a query are functions of what its atom should show: when
\* that has not changed, neither has any of them.
LEMMA CurrentDetermines ==
    ASSUME NEW s, NEW c, NEW x \in Used(s, c), Current(x)' = Current(x)
    PROVE  Told(x)' = Told(x)
<1>1. CASE ~IsRelations(x)
  <2>1. Parts(x) = {"rows"}
    BY <1>1 DEF Parts
  <2>2. Current(x) = Answer(x, "rows") /\ Current(x)' = Answer(x, "rows")'
    BY <1>1, <2>1 DEF Current, Value
  <2>3. Answer(x, "rows")' = Answer(x, "rows")
    BY <2>2
  <2>4. Told(x) = [part \in {"rows"} |-> Answer(x, "rows")]
        /\ Told(x)' = [part \in {"rows"} |-> Answer(x, "rows")']
    BY <2>1 DEF Told
  <2> QED
    BY <2>3, <2>4
<1>2. CASE IsRelations(x)
  <2>1. Parts(x) = {"edges", "nodes"}
    BY <1>2 DEF Parts
  <2>2. x[1] # "node" /\ x[1] # "list"
    BY <1>2 DEF IsRelations
  <2>3. PICK E, N : /\ E = [e \in Related(x) |-> stored[e]]
                    /\ N = [n \in {Far(x, stored[e]) : e \in Related(x)} |-> node[n].name]
    OBVIOUS
  <2>4. PICK F, M : /\ F = [e \in Related(x)' |-> stored'[e]]
                    /\ M = [n \in {Far(x, stored'[e]) : e \in Related(x)'} |-> node'[n].name]
    OBVIOUS
  <2>5. Answer(x, "edges") = E /\ Answer(x, "nodes") = N
    BY <2>2, <2>3 DEF Answer
  <2>6. Answer(x, "edges")' = F /\ Answer(x, "nodes")' = M
    BY <2>2, <2>4 DEF Answer
  <2>7. Current(x) = PairRelations(x, E, N)
    BY <1>2, <2>1, <2>5 DEF Current, Value
  <2>8. Current(x)' = PairRelations(x, F, M)
    BY <1>2, <2>1, <2>6 DEF Current, Value
  <2>9. /\ E = [e \in DOMAIN E |-> E[e]] /\ N = [n \in DOMAIN N |-> N[n]]
        /\ DOMAIN N = {Far(x, E[e]) : e \in DOMAIN E}
    BY <2>3
  <2>10. /\ F = [e \in DOMAIN F |-> F[e]] /\ M = [n \in DOMAIN M |-> M[n]]
         /\ DOMAIN M = {Far(x, F[e]) : e \in DOMAIN F}
    BY <2>4
  <2>11. E = F /\ N = M
    <3>1. PairRelations(x, E, N) = PairRelations(x, F, M)
      BY <2>7, <2>8
    <3> QED
      BY <2>9, <2>10, <3>1, PairsDetermine
  <2>12. \A part \in Parts(x) : Answer(x, part)' = Answer(x, part)
    BY <2>1, <2>5, <2>6, <2>11
  <2> QED
    BY <2>12 DEF Told
<1> QED
  BY <1>1, <1>2

\* The atomic catalog computes with the operators of EdgeOrder.
LEMMA SameCatalog ==
    /\ \A t, n, k : Catalog!Siblings(t, n, k) = Siblings(t, n, k)
    /\ \A s, e : Catalog!Without(s, e) = Without(s, e)
    /\ \A t, e, n, s : Catalog!InsertionGroup(t, e, n, s) = InsertionGroup(t, e, n, s)
    /\ \A n, m : Catalog!EndpointsExist(n, m) <=> EndpointsExist(n, m)
    /\ \A k, n, m : Catalog!KindMismatch(k, n, m) <=> KindMismatch(k, n, m)
    /\ \A t, e, k, n, m, p, s :
          Catalog!Inserted(t, e, k, n, m, p, s) = Inserted(t, e, k, n, m, p, s)
    /\ \A t, e, n, m, p, s, u :
          Catalog!Moved(t, e, n, m, p, s, u) = Moved(t, e, n, m, p, s, u)
    /\ \A t, e, s : Catalog!Removed(t, e, s) = Removed(t, e, s)
<1>1. \A t, n, k : Catalog!Siblings(t, n, k) = Siblings(t, n, k)
  BY DEF Siblings, Group, Catalog!Siblings, Catalog!Group
<1>2. \A s, e : Catalog!Without(s, e) = Without(s, e)
  BY DEF Without, Catalog!Without
<1>3. \A t, e, n, s : Catalog!InsertionGroup(t, e, n, s) = InsertionGroup(t, e, n, s)
  BY <1>1, <1>2 DEF InsertionGroup, Catalog!InsertionGroup
<1>4. \A n, m : Catalog!EndpointsExist(n, m) <=> EndpointsExist(n, m)
  BY DEF EndpointsExist, Catalog!EndpointsExist
<1>5. \A k, n, m : Catalog!KindMismatch(k, n, m) <=> KindMismatch(k, n, m)
  BY DEF KindMismatch, FromKind, ToKind,
         Catalog!KindMismatch, Catalog!FromKind, Catalog!ToKind
<1>6. \A s, i : Catalog!IndexIn(s, i) = IndexIn(s, i)
  BY Zenon DEF IndexIn, Catalog!IndexIn, Cardinality, Catalog!Cardinality
<1>7. \A t, s : Catalog!Compacted(t, s) = Compacted(t, s)
  BY <1>6 DEF Compacted, Catalog!Compacted
<1>8. \A s, i, p : Catalog!SlotAfterInsert(s, i, p) = SlotAfterInsert(s, i, p)
  BY <1>6 DEF SlotAfterInsert, Catalog!SlotAfterInsert
<1>9. \A t, s, p : Catalog!Shifted(t, s, p) = Shifted(t, s, p)
  BY <1>8 DEF Shifted, Catalog!Shifted
<1>10. \A s, p : Catalog!InsertAt(s, p) = InsertAt(s, p)
  BY Zenon DEF InsertAt, Catalog!InsertAt, Cardinality, Catalog!Cardinality
<1>11. \A t, e, k, n, m, p, s :
          Catalog!Inserted(t, e, k, n, m, p, s) = Inserted(t, e, k, n, m, p, s)
  BY <1>9, <1>10 DEF Inserted, Catalog!Inserted
<1>12. \A t, e, n, m, p, s, u :
          Catalog!Moved(t, e, n, m, p, s, u) = Moved(t, e, n, m, p, s, u)
  BY <1>2, <1>7, <1>9, <1>10 DEF Moved, Catalog!Moved
<1>13. \A t, e, s : Catalog!Removed(t, e, s) = Removed(t, e, s)
  BY <1>7 DEF Removed, Catalog!Removed
<1> QED
  BY <1>1, <1>2, <1>3, <1>4, <1>5, <1>11, <1>12, <1>13

\* The siblings in a table are rows of it.
LEMMA SiblingRows ==
    ASSUME NEW t, IsTable(t)
    PROVE  /\ \A n, k : IsSiblings(Siblings(t, n, k))
           /\ \A s, e : IsSiblings(s) => IsSiblings(Without(s, e))
           /\ \A e, n, s : IsSiblings(s) => IsSiblings(InsertionGroup(t, e, n, s))
<1>1. \A n, k : IsSiblings(Siblings(t, n, k))
  BY DEF IsSiblings, Siblings, Group, IsTable
<1>2. \A s, e : IsSiblings(s) => IsSiblings(Without(s, e))
  BY DEF IsSiblings, Without
<1> QED
  BY <1>1, <1>2 DEF InsertionGroup

\* A table in which every edge fits its kind and joins nodes of K.
Joined(K, t) ==
    /\ IsTable(t)
    /\ \A i \in DOMAIN t : /\ ~KindMismatch(t[i].kind, t[i].from, t[i].to)
                           /\ t[i].from \in K /\ t[i].to \in K

\* A write of one row that fits leaves such a table.
LEMMA RowsJoined ==
    ASSUME NEW K, NEW t, Joined(K, t), NEW u, NEW S, NEW D, NEW e, NEW kind, NEW from, NEW to,
           RowsAre(u, t, S, D, e, kind, from, to), D \subseteq DOMAIN t \cup {e},
           e \in D => ~KindMismatch(kind, from, to) /\ from \in K /\ to \in K
    PROVE  Joined(K, u)
<1>1. IsTable(u) /\ DOMAIN u = D
  BY DEF RowsAre
<1>2. ASSUME NEW i \in D
      PROVE  ~KindMismatch(u[i].kind, u[i].from, u[i].to) /\ u[i].from \in K /\ u[i].to \in K
  <2>1. CASE i = e
    BY <1>2, <2>1 DEF RowsAre
  <2>2. CASE i # e
    <3>1. i \in DOMAIN t \ {e}
      BY <2>2
    <3>2. u[i].kind = t[i].kind /\ u[i].from = t[i].from /\ u[i].to = t[i].to
      BY <3>1 DEF RowsAre
    <3> QED
      BY <3>1, <3>2 DEF Joined
  <2> QED
    BY <2>1, <2>2
<1> QED
  BY <1>1, <1>2 DEF Joined

LEMMA ServerJoined == ServerInv <=> node \in [Nodes -> NodeRow \cup {None}] /\ Joined(Known, stored)
BY DEF ServerInv, Joined

\* The server's side of an executed mutation of the relations.
LEMMA EdgesWritten ==
    ASSUME ServerInv, NEW call, IsCall(Known, call),
           EdgeConnected(call) \/ EdgeUpdated(call) \/ EdgeDisconnected(call)
    PROVE  /\ node' = node /\ Joined(Known, stored')
           /\ call.op \in {"connect", "update", "disconnect"}
<1>1. IsTable(stored) /\ Joined(Known, stored) /\ Known \subseteq Nodes
  BY ServerJoined DEF ServerInv, Known
<1>2. CASE EdgeConnected(call)
  <2>1. PICK e, requested :
           /\ e \in EdgeIds /\ requested = Cardinality(Group(stored, call.from, call.kind))
           /\ Catalog!Create(e, call.kind, call.from, call.to, requested)
    BY <1>2 DEF EdgeConnected
  <2>2. call.kind \in EdgeKinds /\ call.from \in Known /\ call.to \in Known
        /\ call.op = "connect" /\ node' = node
    <3>1. call.op = "connect" /\ node' = node
      BY <1>2 DEF EdgeConnected
    <3>2. call \in ConnectCall(Known)
      BY <3>1 DEF IsCall, CreateCall, RenameCall, StatusCall, UpdateCall, DisconnectCall
    <3> QED
      BY <3>1, <3>2 DEF ConnectCall
  <2>3. requested \in Nat
    <3>1. IsFiniteSet(Group(stored, call.from, call.kind))
      BY <1>1, CatalogAssumption, FS_Subset DEF Group, IsTable
    <3> QED
      BY <2>1, <3>1, FS_CardinalityType
  <2>4. PICK s : s = Siblings(stored, call.from, call.kind)
    OBVIOUS
  <2>5. /\ e \notin DOMAIN stored /\ ~KindMismatch(call.kind, call.from, call.to)
        /\ stored' = Inserted(stored, e, call.kind, call.from, call.to, requested, s)
    BY <2>1, <2>4, SameCatalog DEF Catalog!Create
  <2>6. IsSiblings(s)
    BY <1>1, <2>4, SiblingRows
  <2>7. RowsAre(stored', stored, DOMAIN s, DOMAIN stored \cup {e}, e,
                call.kind, call.from, call.to)
    BY <1>1, <2>1, <2>2, <2>3, <2>5, <2>6, InsertedRows
  <2>8. Joined(Known, stored')
    BY <1>1, <2>2, <2>5, <2>7, RowsJoined
  <2> QED
    BY <2>2, <2>8
<1>3. CASE EdgeUpdated(call)
  <2>1. Catalog!Update(call.edge, call.from, call.to, call.position)
        /\ call.op = "update" /\ node' = node
    BY <1>3 DEF EdgeUpdated
  <2>2. call.from \in Known /\ call.to \in Known /\ call.position \in Nat
    <3>1. call \in UpdateCall(Known)
      BY <2>1 DEF IsCall, CreateCall, RenameCall, StatusCall, ConnectCall, DisconnectCall
    <3> QED
      BY <3>1 DEF UpdateCall
  <2>3. PICK e : e = call.edge
    OBVIOUS
  <2>4. PICK s : s = Siblings(stored, stored[e].from, stored[e].kind)
    OBVIOUS
  <2>5. PICK j : j = InsertionGroup(stored, e, call.from, s)
    OBVIOUS
  <2>6. /\ e \in DOMAIN stored /\ ~KindMismatch(stored[e].kind, call.from, call.to)
        /\ stored' = Moved(stored, e, call.from, call.to, call.position, s, j)
    BY <2>1, <2>3, <2>4, <2>5, SameCatalog DEF Catalog!Update
  <2>7. IsSiblings(s) /\ IsSiblings(j)
    BY <1>1, <2>4, <2>5, SiblingRows
  <2>8. RowsAre(stored', stored, DOMAIN s \cup DOMAIN j, DOMAIN stored, e,
                stored[e].kind, call.from, call.to)
    BY <1>1, <2>2, <2>6, <2>7, MovedRows
  <2>9. Joined(Known, stored')
    BY <1>1, <2>2, <2>6, <2>8, RowsJoined
  <2> QED
    BY <2>1, <2>9
<1>4. CASE EdgeDisconnected(call)
  <2>1. Catalog!Remove(call.edge) /\ call.op = "disconnect" /\ node' = node
    BY <1>4 DEF EdgeDisconnected
  <2>2. PICK e : e = call.edge
    OBVIOUS
  <2>3. PICK s : s = Without(Siblings(stored, stored[e].from, stored[e].kind), e)
    OBVIOUS
  <2>4. stored' = Removed(stored, e, s)
    BY <2>1, <2>2, <2>3, SameCatalog DEF Catalog!Remove
  <2>5. IsSiblings(s)
    BY <1>1, <2>3, SiblingRows
  <2>6. RowsAre(stored', stored, DOMAIN s, DOMAIN stored \ {e}, e,
                stored[e].kind, stored[e].from, stored[e].to)
    BY <1>1, <2>4, <2>5, RemovedRows
  <2>7. Joined(Known, stored')
    BY <1>1, <2>6, RowsJoined
  <2> QED
    BY <2>1, <2>7
<1> QED
  BY <1>2, <1>3, <1>4

\* The server's side of an executed mutation of a node.
LEMMA NodesWritten ==
    ASSUME ServerInv, NEW call, IsCall(Known, call),
           NodeCreated(call) \/ NodeRenamed(call) \/ StatusChanged(call)
    PROVE  stored' = stored /\ Known \subseteq Known' /\ node' \in [Nodes -> NodeRow \cup {None}]
<1>1. node \in [Nodes -> NodeRow \cup {None}] /\ None \notin NodeRow
  BY ScreenAssumption DEF ServerInv
<1>2. \A n \in Known : n \in Nodes /\ node[n] \in NodeRow
  BY <1>1 DEF Known
<1>3. stored' = stored
  BY DEF NodeCreated, NodeRenamed, StatusChanged
<1>4. PICK n \in Nodes, row \in NodeRow : node' = [node EXCEPT ![n] = row]
  <2>1. CASE NodeCreated(call)
    <3>1. PICK n \in Nodes : node' = [node EXCEPT ![n] = [name |-> call.name, status |-> "draft"]]
      BY <2>1 DEF NodeCreated
    <3>2. call.name \in Names
      <4>1. call \in CreateCall
        BY <2>1 DEF NodeCreated, IsCall, RenameCall, StatusCall, ConnectCall, UpdateCall,
                    DisconnectCall
      <4> QED
        BY <4>1 DEF CreateCall
    <3> QED
      BY <3>1, <3>2 DEF NodeRow, Statuses
  <2>2. CASE NodeRenamed(call)
    <3>1. call \in RenameCall(Known)
      BY <2>2 DEF NodeRenamed, IsCall, CreateCall, StatusCall, ConnectCall, UpdateCall,
                  DisconnectCall
    <3>2. PICK row : row = [node[call.node] EXCEPT !.name = call.name]
      OBVIOUS
    <3>3. call.node \in Nodes /\ row \in NodeRow
      BY <1>2, <3>1, <3>2 DEF RenameCall, NodeRow
    <3>4. node' = [node EXCEPT ![call.node] = row]
      BY <2>2, <3>2 DEF NodeRenamed
    <3> QED
      BY <3>3, <3>4
  <2>3. CASE StatusChanged(call)
    <3>1. call \in StatusCall(Known)
      BY <2>3 DEF StatusChanged, IsCall, CreateCall, RenameCall, ConnectCall, UpdateCall,
                  DisconnectCall
    <3>2. PICK row : row = [node[call.node] EXCEPT !.status = call.status]
      OBVIOUS
    <3>3. call.node \in Nodes /\ row \in NodeRow
      BY <1>2, <3>1, <3>2 DEF StatusCall, NodeRow
    <3>4. node' = [node EXCEPT ![call.node] = row]
      BY <2>3, <3>2 DEF StatusChanged
    <3> QED
      BY <3>3, <3>4
  <2> QED
    BY <2>1, <2>2, <2>3
<1>5. node' \in [Nodes -> NodeRow \cup {None}]
  BY <1>1, <1>4
<1>6. Known \subseteq Known'
  BY <1>1, <1>4 DEF Known
<1> QED
  BY <1>3, <1>5, <1>6

\* What an executed mutation leaves of the server.
LEMMA ServerWritten ==
    ASSUME ServerInv, NEW a \in Admins, NEW call \in calls[a], IsCall(Known, call),
           Execute(a, call)
    PROVE  ServerInv' /\ Known \subseteq Known'
<1>1. CASE NodeCreated(call) \/ NodeRenamed(call) \/ StatusChanged(call)
  <2>1. stored' = stored /\ Known \subseteq Known' /\ node' \in [Nodes -> NodeRow \cup {None}]
    BY <1>1, NodesWritten
  <2> QED
    BY <2>1 DEF ServerInv
<1>2. CASE EdgeConnected(call) \/ EdgeUpdated(call) \/ EdgeDisconnected(call)
  <2>1. node' = node /\ Joined(Known, stored')
    BY <1>2, EdgesWritten
  <2>2. Known' = Known
    BY <2>1 DEF Known
  <2> QED
    BY <2>1, <2>2 DEF ServerInv, Joined
<1> QED
  BY <1>1, <1>2 DEF Execute

\* When the answers to a query are the same.
LEMMA ListTold ==
    ASSUME NEW k, NEW t, Listed(k, t)' = Listed(k, t),
           \A n \in Listed(k, t) : node'[n].name = node[n].name
    PROVE  Told(ListOf(k, t))' = Told(ListOf(k, t))
<1>1. PICK x : x = ListOf(k, t)
  OBVIOUS
<1>2. x[1] = "list" /\ x[2] = k /\ x[3] = t /\ Parts(x) = {"rows"}
  BY <1>1 DEF ListOf, Parts, IsRelations
<1>3. Answer(x, "rows") = [n \in Listed(k, t) |-> node[n].name]
      /\ Answer(x, "rows")' = [n \in Listed(k, t)' |-> node'[n].name]
  BY <1>2 DEF Answer
<1>4. Answer(x, "rows")' = Answer(x, "rows")
  BY <1>3
<1>5. Told(x)' = Told(x)
  BY <1>2, <1>4 DEF Told
<1> QED
  BY <1>1, <1>5

LEMMA DetailTold ==
    ASSUME NEW n, node'[n] = node[n]
    PROVE  Told(Detail(n))' = Told(Detail(n))
<1>1. PICK x : x = Detail(n)
  OBVIOUS
<1>2. x[1] = "node" /\ x[2] = n /\ Parts(x) = {"rows"}
  BY <1>1 DEF Detail, Parts, IsRelations
<1>3. Answer(x, "rows") = node[n] /\ Answer(x, "rows")' = node'[n]
  BY <1>2 DEF Answer
<1>4. Told(x)' = Told(x)
  BY <1>2, <1>3 DEF Told
<1> QED
  BY <1>1, <1>4

LEMMA RelationsTold ==
    ASSUME NEW x, IsRelations(x), stored' = stored,
           \A e \in Related(x) : node'[Far(x, stored[e])].name = node[Far(x, stored[e])].name
    PROVE  Told(x)' = Told(x)
<1>1. Parts(x) = {"edges", "nodes"} /\ x[1] # "node" /\ x[1] # "list"
  BY DEF Parts, IsRelations
<1>2. Related(x)' = Related(x)
  BY DEF Related
<1>3. Answer(x, "edges")' = Answer(x, "edges")
  BY <1>1, <1>2 DEF Answer
<1>4. PICK ends : ends = {Far(x, stored[e]) : e \in Related(x)}
  OBVIOUS
<1>5. \A n \in ends : node'[n].name = node[n].name
  BY <1>4
<1>6. Answer(x, "nodes") = [n \in ends |-> node[n].name]
      /\ Answer(x, "nodes")' = [n \in ends |-> node'[n].name]
  BY <1>1, <1>2, <1>4 DEF Answer
<1>7. Answer(x, "nodes")' = Answer(x, "nodes")
  BY <1>5, <1>6
<1> QED
  BY <1>1, <1>3, <1>7 DEF Told

\* The ends of the relations of a node: created, and other nodes than it.
LEMMA EndsOf ==
    ASSUME ServerInv, NEW x, IsRelations(x), NEW e \in Related(x)
    PROVE  Far(x, stored[e]) \in Known /\ Far(x, stored[e]) # x[2]
<1>1. /\ e \in DOMAIN stored /\ Near(x, stored[e]) = x[2]
      /\ stored[e].from \in Known /\ stored[e].to \in Known /\ stored[e].kind \in EdgeKinds
      /\ ~KindMismatch(stored[e].kind, stored[e].from, stored[e].to)
  BY DEF Related, ServerInv, IsTable, Edge
<1>2. \A k \in EdgeKinds : FromKind[k] # ToKind[k]
  BY DEF EdgeKinds, FromKind, ToKind
<1>3. stored[e].from # stored[e].to
  BY <1>1, <1>2 DEF KindMismatch
<1> QED
  BY <1>1, <1>3 DEF Near, Far

\* The mutations of a screen whose component is there: the atoms of the screen
\* that they change are asked again, or cannot be foreseen.
LEMMA CreatedForeseen ==
    ASSUME ServerInv, NEW call, NodeCreated(call), NEW s \in ScreenState(Known), NEW c,
           NEW x \in Used(s, c), x \notin Refreshes(call)
    PROVE  Told(x)' = Told(x)
<1>1. PICK n \in Nodes : /\ node[n] = None /\ NodeKind[n] = call.kind
                         /\ node' = [node EXCEPT ![n] = [name |-> call.name, status |-> "draft"]]
  BY DEF NodeCreated
<1>2. /\ node' = [m \in Nodes |-> node'[m]] /\ node'[n].status = "draft"
      /\ \A m \in Nodes \ {n} : node'[m] = node[m]
  BY <1>1 DEF ServerInv
<1>3. \A m \in Known : node'[m] = node[m] /\ m # n
  BY <1>1, <1>2 DEF Known
<1>4. stored' = stored /\ Refreshes(call) = {ListOf(call.kind, "draft")}
  BY DEF NodeCreated, Refreshes
<1>5. CASE x = ListOf(s.kind, s.status)
  <2>1. s.kind # call.kind \/ s.status # "draft"
    BY <1>4, <1>5
  <2>2. \A m \in Nodes :
           (node'[m] # None /\ NodeKind[m] = s.kind /\ node'[m].status = s.status)
           <=> (node[m] # None /\ NodeKind[m] = s.kind /\ node[m].status = s.status)
    BY <1>1, <1>2, <2>1
  <2>3. Listed(s.kind, s.status)' = Listed(s.kind, s.status)
    BY <2>2 DEF Listed
  <2>4. \A m \in Listed(s.kind, s.status) : node'[m].name = node[m].name
    BY <1>3 DEF Listed, Known
  <2> QED
    BY <1>5, <2>3, <2>4, ListTold
<1>6. CASE s.selected # None /\ x = Detail(s.selected)
  <2>1. node'[s.selected] = node[s.selected]
    BY <1>3, <1>6 DEF ScreenState
  <2> QED
    BY <1>6, <2>1, DetailTold
<1>7. CASE x = Relations(s)
  <2>1. IsRelations(x)
    BY <1>7, Queried
  <2>2. \A e \in Related(x) : node'[Far(x, stored[e])].name = node[Far(x, stored[e])].name
    BY <1>3, <2>1, EndsOf
  <2> QED
    BY <1>4, <2>1, <2>2, RelationsTold
<1> QED
  BY <1>5, <1>6, <1>7, UsedAtoms

LEMMA RenamedForeseen ==
    ASSUME ServerInv, NEW call, NodeRenamed(call), NEW s \in ScreenState(Known), NEW c,
           s.selected = call.node,
           NEW x \in Used(s, c), x \notin Refreshes(call), ~Unforeseen(call, x)
    PROVE  Told(x)' = Told(x)
<1>1. /\ stored' = stored /\ call.op = "rename"
      /\ node' = [node EXCEPT ![call.node].name = call.name]
  BY DEF NodeRenamed
<1>2. Refreshes(call) = {Detail(call.node), ListOf(call.filter[1], call.filter[2])}
  BY <1>1 DEF Refreshes
<1>3. x # ListOf(s.kind, s.status)
  <2> SUFFICES ASSUME x = ListOf(s.kind, s.status) PROVE FALSE
    OBVIOUS
  <2>1. x[1] = "list" /\ x[2] = s.kind /\ x[3] = s.status
    BY DEF ListOf
  <2>2. <<s.kind, s.status>> = call.filter
    BY <1>1, <2>1 DEF Unforeseen
  <2>3. call.filter[1] = s.kind /\ call.filter[2] = s.status
    BY <2>2
  <2> QED
    BY <1>2, <2>3
<1>4. x = Relations(s)
  BY <1>2, <1>3, UsedAtoms
<1>5. IsRelations(x) /\ x[2] = call.node
  BY <1>4, Queried
<1>6. \A m \in Nodes \ {call.node} : node'[m] = node[m]
  BY <1>1 DEF ServerInv
<1>7. \A e \in Related(x) : node'[Far(x, stored[e])].name = node[Far(x, stored[e])].name
  BY <1>5, <1>6, EndsOf DEF Known
<1> QED
  BY <1>1, <1>5, <1>7, RelationsTold

LEMMA StatusForeseen ==
    ASSUME ServerInv, NEW call, IsCall(Known, call), StatusChanged(call),
           NEW s \in ScreenState(Known), NEW c, s.selected = call.node,
           NEW x \in Used(s, c), x \notin Refreshes(call), ~Unforeseen(call, x)
    PROVE  Told(x)' = Told(x)
<1>1. /\ stored' = stored /\ call.op = "status"
      /\ node' = [node EXCEPT ![call.node].status = call.status]
  BY DEF StatusChanged
<1>2. PICK n : n = call.node
  OBVIOUS
<1>3. n \in Known /\ call.kind = NodeKind[n] /\ call.status \in Statuses
  <2>1. call \in StatusCall(Known) /\ call.kind = NodeKind[call.node]
    BY <1>1 DEF IsCall, CreateCall, RenameCall, ConnectCall, UpdateCall, DisconnectCall
  <2> QED
    BY <1>2, <2>1 DEF StatusCall
<1>4. n \in Nodes /\ node[n] \in NodeRow
  BY <1>3 DEF Known, ServerInv
<1>5. /\ \A m \in Nodes \ {n} : node'[m] = node[m]
      /\ node'[n] \in NodeRow /\ node'[n].name = node[n].name /\ node'[n].status = call.status
  <2>1. PICK row : row = [node[n] EXCEPT !.status = call.status]
    OBVIOUS
  <2>2. row \in NodeRow /\ row.name = node[n].name /\ row.status = call.status
    BY <1>3, <1>4, <2>1 DEF NodeRow
  <2>3. node' = [node EXCEPT ![n] = row]
    BY <1>1, <1>2, <2>1
  <2> QED
    BY <1>4, <2>2, <2>3 DEF ServerInv
<1>6. \A m \in Nodes : node'[m].name = node[m].name
  BY <1>5
<1>7. Refreshes(call) = {Detail(n), ListOf(call.kind, call.previous),
                         ListOf(call.kind, call.status)}
  BY <1>1, <1>2 DEF Refreshes
<1>8. CASE x = ListOf(s.kind, s.status)
  <2>1. x[1] = "list"
    BY <1>8, Queried
  <2>2. node[n].status # call.previous => x # ListOf(call.kind, node[n].status)
    BY <1>1, <1>2, <2>1 DEF Unforeseen
  <2>3. x # ListOf(call.kind, node[n].status)
    BY <1>7, <2>2
  <2>4. ~(s.kind = NodeKind[n] /\ s.status = node[n].status)
        /\ ~(s.kind = NodeKind[n] /\ s.status = call.status)
    BY <1>3, <1>7, <1>8, <2>3
  <2>5. \A m \in Nodes :
           (node'[m] # None /\ NodeKind[m] = s.kind /\ node'[m].status = s.status)
           <=> (node[m] # None /\ NodeKind[m] = s.kind /\ node[m].status = s.status)
    BY <1>5, <2>4
  <2>6. Listed(s.kind, s.status)' = Listed(s.kind, s.status)
    BY <2>5 DEF Listed
  <2>7. \A m \in Listed(s.kind, s.status) : node'[m].name = node[m].name
    BY <1>6 DEF Listed
  <2> QED
    BY <1>8, <2>6, <2>7, ListTold
<1>9. CASE x = Relations(s)
  <2>1. IsRelations(x)
    BY <1>9, Queried
  <2>2. \A e \in Related(x) : node'[Far(x, stored[e])].name = node[Far(x, stored[e])].name
    BY <1>6, <2>1, EndsOf DEF Known
  <2> QED
    BY <1>1, <2>1, <2>2, RelationsTold
<1>10. x # Detail(s.selected)
  BY <1>2, <1>7
<1> QED
  BY <1>8, <1>9, <1>10, UsedAtoms

LEMMA EdgesForeseen ==
    ASSUME NEW call, NEW s, NEW c, NEW x \in Used(s, c), x \notin Refreshes(call),
           Relations(s) \in Refreshes(call), node' = node
    PROVE  Told(x)' = Told(x)
<1>1. Listed(s.kind, s.status)' = Listed(s.kind, s.status)
  BY DEF Listed
<1>2. Told(ListOf(s.kind, s.status))' = Told(ListOf(s.kind, s.status))
  BY <1>1, ListTold
<1>3. Told(Detail(s.selected))' = Told(Detail(s.selected))
  BY DetailTold
<1> QED
  BY <1>2, <1>3, UsedAtoms

LEMMA OwnForeseen ==
    ASSUME ServerInv, NEW a \in Admins, AdminInv(a), NEW call \in calls[a], Execute(a, call),
           ~call.left, NEW x \in DOMAIN cache[a],
           x \notin Refreshes(call), ~Unforeseen(call, x)
    PROVE  Told(x)' = Told(x)
<1>1. PICK s, c : s = screen[a] /\ c = cache[a]
  OBVIOUS
<1>2. s \in ScreenState(Known) /\ x \in Used(s, c)
  BY <1>1 DEF AdminInv, IsCache
<1>3. IsCall(Known, call) /\ CallFits(call, s, c)
  BY <1>1 DEF AdminInv, AreCalls
<1>4. CASE NodeCreated(call)
  BY <1>2, <1>4, CreatedForeseen
<1>5. CASE NodeRenamed(call)
  <2>1. s.selected = call.node
    BY <1>3, <1>5 DEF NodeRenamed, CallFits, Hosted
  <2> QED
    BY <1>2, <1>5, <2>1, RenamedForeseen
<1>6. CASE StatusChanged(call)
  <2>1. s.selected = call.node
    BY <1>3, <1>6 DEF StatusChanged, CallFits, Hosted
  <2> QED
    BY <1>2, <1>3, <1>6, <2>1, StatusForeseen
<1>7. CASE EdgeConnected(call) \/ EdgeUpdated(call) \/ EdgeDisconnected(call)
  <2>1. node' = node /\ call.op \in {"connect", "update", "disconnect"}
    BY <1>3, <1>7, EdgesWritten
  <2>2. Relations(s) \in Refreshes(call)
    BY <1>3, <2>1 DEF CallFits
  <2> QED
    BY <1>2, <2>1, <2>2, EdgesForeseen
<1> QED
  BY <1>4, <1>5, <1>6, <1>7 DEF Execute

LEMMA ExecuteKeeps ==
    ASSUME ScreenInv, NEW a \in Admins, NEW call \in calls[a], Execute(a, call)
    PROVE  ScreenInv'
<1>1. PICK done : done = [call EXCEPT !.state = "done"]
  OBVIOUS
<1>2. /\ call.state = "sent" /\ calls' = [calls EXCEPT ![a] = (@ \ {call}) \cup {done}]
      /\ UNCHANGED <<screen, cache>> /\ Changed(a, call)
  BY <1>1 DEF Execute
<1>3. PerAdmin' /\ calls'[a] = (calls[a] \ {call}) \cup {done}
      /\ \A b \in Admins \ {a} : calls'[b] = calls[b]
  BY <1>2 DEF ScreenInv, PerAdmin, Changed
<1>4. ServerInv /\ \A b \in Admins : AdminInv(b)
  BY DEF ScreenInv
<1>5. IsCall(Known, call) /\ CallFits(call, screen[a], cache[a])
  BY <1>4 DEF AdminInv, AreCalls
<1>6. ServerInv' /\ Known \subseteq Known'
  BY <1>4, <1>5, ServerWritten
<1>7. /\ IsCall(Known, done) /\ done.left = call.left /\ done.op = call.op
      /\ Refreshes(done) = Refreshes(call) /\ done.state = "done"
      /\ \A s, c : Hosted(done, s, c) <=> Hosted(call, s, c)
  BY <1>1, <1>5, DoneCall
<1>8. CallFits(done, screen[a], cache[a])
  BY <1>5, <1>7 DEF CallFits
<1>9. ASSUME NEW b \in Admins
      PROVE  AreCalls(Known, calls'[b], screen[b], cache[b])
  BY <1>3, <1>4, <1>7, <1>8 DEF AdminInv, AreCalls
<1>10. ASSUME NEW b \in Admins, NEW x \in DOMAIN cache[b]
       PROVE  Remembered(x, cache[b][x], Told(x)', foreign'[b], calls'[b])
  <2>1. Remembered(x, cache[b][x], Told(x), foreign[b], calls[b])
    BY <1>4 DEF AdminInv
  <2>2. foreign'[b] = foreign[b] \cup
           {y \in DOMAIN cache[b] : /\ b # a \/ call.left \/ Unforeseen(call, y)
                                    /\ Current(y)' # Current(y)}
    BY <1>2 DEF Changed
  <2>3. CASE Told(x)' = Told(x)
    <3>1. \A other \in calls[b] : ToCome(other, x) => other \in calls'[b]
      BY <1>2, <1>3 DEF ToCome
    <3> QED
      BY <2>1, <2>2, <2>3, <3>1 DEF Remembered
  <2>4. CASE Told(x)' # Told(x)
    <3>1. x \in Used(screen[b], cache[b])
      BY <1>4 DEF AdminInv, IsCache
    <3>2. Current(x)' # Current(x)
      <4>1. PICK s, c : s = screen[b] /\ c = cache[b]
        OBVIOUS
      <4> QED
        BY <2>4, <3>1, <4>1, CurrentDetermines
    <3>3. CASE b # a \/ call.left \/ Unforeseen(call, x)
      BY <2>2, <3>2, <3>3 DEF Remembered
    <3>4. CASE b = a /\ ~call.left /\ ~Unforeseen(call, x)
      <4>1. x \in Refreshes(call)
        BY <1>4, <2>4, <3>4, OwnForeseen
      <4>2. done \in calls'[b] /\ ToCome(done, x)
        BY <1>3, <1>7, <3>4, <4>1 DEF ToCome
      <4> QED
        BY <4>2 DEF Remembered
    <3> QED
      BY <3>3, <3>4
  <2> QED
    BY <2>3, <2>4
<1>11. ASSUME NEW b \in Admins PROVE AdminInv(b)'
  <2>1. PICK L : L = Known'
    OBVIOUS
  <2>2. Known \subseteq L
    BY <1>6, <2>1
  <2>3. screen[b] \in ScreenState(L) /\ IsCache(L, screen[b], cache[b])
        /\ AreCalls(L, calls'[b], screen[b], cache[b])
    BY <1>4, <1>9, <2>2, MoreKnown DEF AdminInv
  <2> QED
    BY <1>2, <1>10, <2>1, <2>3 DEF AdminInv
<1> QED
  BY <1>3, <1>6, <1>11 DEF ScreenInv

-----------------------------------------------------------------------------
(* The screens' invariant                                                  *)

\* At the start the screens have nothing but questions.
LEMMA InitScreen == ScreenInit => ScreenInv
<1> SUFFICES ASSUME ScreenInit PROVE ScreenInv
  OBVIOUS
<1>1. ServerInv
  BY ScreenAssumption DEF ScreenInit, ServerInv, Known, IsTable, Edge
<1>2. PerAdmin
  BY DEF ScreenInit, PerAdmin
<1>3. ASSUME NEW a \in Admins PROVE AdminInv(a)
  <2>1. /\ screen[a] = Start /\ cache[a] = Mounted(Start, << >>) /\ calls[a] = {}
        /\ foreign[a] = {}
    BY DEF ScreenInit
  <2>2. Start \in ScreenState(Known)
    BY DEF Start, ScreenState, NodeKinds, Statuses
  <2>3. PICK c : c = << >>
    OBVIOUS
  <2>4. AreAtoms(Known, c) /\ DOMAIN c = {}
    BY <2>3 DEF AreAtoms
  <2>5. IsCache(Known, Start, Mounted(Start, c))
    BY <2>4, MountedCache
  <2>6. ASSUME NEW x \in DOMAIN cache[a]
        PROVE  Remembered(x, cache[a][x], Told(x), foreign[a], calls[a])
    <3>1. cache[a][x] = Asked(x, None)
      BY <2>1, <2>3, <2>4, MountedAtoms
    <3>2. Fresh(x, Asked(x, None), Told(x))
      BY AskedAtom
    <3> QED
      BY <3>1, <3>2 DEF Remembered
  <2> QED
    BY <2>1, <2>2, <2>3, <2>5, <2>6 DEF AdminInv, AreCalls
<1> QED
  BY <1>1, <1>2, <1>3 DEF ScreenInv

LEMMA NextScreen == ScreenInv /\ [ScreenNext]_screenVars => ScreenInv'
<1> SUFFICES ASSUME ScreenInv, [ScreenNext]_screenVars PROVE ScreenInv'
  OBVIOUS
<1>1. ASSUME NEW a \in Admins, Buttons(a) PROVE ScreenInv'
  BY <1>1, ButtonsKeep
<1>2. ASSUME NEW a \in Admins, Moves(a) PROVE ScreenInv'
  BY <1>2, MovesKeep
<1>3. ASSUME NEW a \in Admins, Queries(a) PROVE ScreenInv'
  BY <1>3, ReadKeeps, FailReadKeeps DEF Queries
<1>4. ASSUME NEW a \in Admins, Answers(a) PROVE ScreenInv'
  BY <1>4, ExecuteKeeps, RefuseKeeps, HearKeeps, LoseAnswerKeeps DEF Answers
<1>5. CASE UNCHANGED screenVars
  <2>1. UNCHANGED <<stored, node>> /\ UNCHANGED <<screen, cache, calls, foreign>>
    BY <1>5 DEF screenVars, server, browser
  <2>2. ServerInv' /\ PerAdmin'
    BY <2>1, ServerStays DEF ScreenInv, PerAdmin
  <2>3. \A b \in Admins : AdminInv(b)'
    BY <2>1, OthersStay
  <2> QED
    BY <2>2, <2>3 DEF ScreenInv
<1> QED
  BY <1>1, <1>2, <1>3, <1>4, <1>5 DEF ScreenNext

\* At every moment each atom of a screen shows the catalog as it is, or is
\* being told it, or is known to be old, or is one that the answer to come of a
\* mutation has asked again; and every mutation whose component is there is
\* about the relations that its screen shows.
THEOREM ScreensRemember == ScreenSpec => []ScreenInv
BY InitScreen, NextScreen, PTL DEF ScreenSpec

\* A screen at rest shows the catalog as it is: whatever mutations its
\* administrator has sent, and however they overlap with its queries, mutations.ts
\* has asked again the atoms that they changed.
THEOREM ScreensShowCatalog == ScreenSpec => []ShownIsCurrent
<1>1. ScreenInv => ShownIsCurrent
  <2> SUFFICES ASSUME ScreenInv, NEW a \in Admins, NEW x \in DOMAIN cache[a], Settled(a, x)
               PROVE  cache[a][x].shown = Current(x)
    BY DEF ShownIsCurrent
  <2>1. Remembered(x, cache[a][x], Told(x), foreign[a], calls[a])
    BY DEF ScreenInv, AdminInv
  <2>2. Fresh(x, cache[a][x], Told(x))
    BY <2>1 DEF Settled, Remembered, ToCome
  <2> QED
    BY <2>2 DEF Settled, Fresh, Told, Current
<1> QED
  BY <1>1, ScreensRemember, PTL

=============================================================================
