----------------------------- MODULE AccessControl -----------------------------
(***************************************************************************)
(* Roles and what they allow: AccessControlService of                      *)
(* backend-domain/src/modules/access-control/service.ts over the           *)
(* role_assignments table, with the administrators' other operations that  *)
(* it authorizes (account status, study catalog).                          *)
(*                                                                         *)
(* A request authenticates its account, reads its roles, for some          *)
(* operations counts the administrators, and then writes: separate         *)
(* statements without a transaction, with other requests in between.       *)
(***************************************************************************)
EXTENDS Integers, FiniteSets

CONSTANTS Accounts,
          Uuids,               \* ids of nodes and edges
          Slots,               \* requests being served at a time
          Requests,            \* requests accounts may send
          InitialAssignments, InitialActive, InitialCatalog

Roles == {"admin", "catalog-editor", "student"}
ScopeTypes == {"studyCatalog", "studyNode", "studyEdge"}
Scopes == [type: ScopeTypes, id: Uuids \cup {"global"}]
Global == [type |-> "studyCatalog", id |-> "global"]

Assignment == [user: Accounts, role: Roles, scope: Scopes]

\* Operations on roles, on accounts and on the catalog.
RoleOps    == {"grant", "revoke"}
StatusOps  == {"disable", "enable"}
CatalogOps == {"connect", "rename", "disconnect"}

\* `user`, `role` and `scope` are the assignment to grant or revoke, the
\* account to disable or enable, or the resource to edit.
Request == [op: RoleOps \cup StatusOps \cup CatalogOps, actor: Accounts,
            user: Accounts, role: Roles, scope: Scopes]

\* The resource each edit names: the catalog itself, a node or an edge.
EditedType == [connect |-> "studyCatalog", rename |-> "studyNode",
               disconnect |-> "studyEdge"]

\* Permissions of a role, by the operation that asks for them.
Permits == [r \in Roles |-> IF r = "student" THEN {} ELSE CatalogOps]

ValidScope(role, scope) ==
    IF scope.type = "studyCatalog"
    THEN scope.id = "global"
    ELSE scope.id # "global" /\ role = "catalog-editor"

ValidAssignments == {a \in Assignment : ValidScope(a.role, a.scope)}

ASSUME AccessAssumption ==
    /\ IsFiniteSet(Accounts)
    /\ "global" \notin Uuids
    /\ Requests \subseteq Request
    /\ Requests # {}
    /\ \A r \in Requests : r.op \in CatalogOps => r.scope.type = EditedType[r.op]
    /\ InitialAssignments \subseteq ValidAssignments
    /\ \E a \in InitialAssignments : a.role = "admin" /\ a.scope = Global
    /\ InitialActive \subseteq Accounts
    /\ InitialCatalog \subseteq Scopes

VARIABLES assignments,  \* rows of role_assignments
          active,       \* accounts whose status is active
          catalog,      \* resources that exist
          edits,        \* resources edited so far
          calls,        \* the request in each slot
          held, awake,  \* history: assignments in force and accounts active
                        \* at some moment since the request arrived
          overlapped    \* history: an administrator was revoked while another
                        \* revocation had counted the administrators

vars == <<assignments, active, catalog, edits, calls, held, awake, overlapped>>

Phases == {"idle", "authenticate", "load", "authorize", "count", "write"}

Idle == [phase |-> "idle", req |-> CHOOSE r \in Requests : TRUE]

Init ==
    /\ assignments = InitialAssignments
    /\ active = InitialActive
    /\ catalog = InitialCatalog
    /\ edits = {}
    /\ calls = [s \in Slots |-> Idle]
    /\ held = [s \in Slots |-> {}]
    /\ awake = [s \in Slots |-> {}]
    /\ overlapped = FALSE

-----------------------------------------------------------------------------

Phase(s) == calls[s].phase
Req(s)   == calls[s].req

\* The history of every request in flight after a step.
Remember ==
    /\ held' = [s \in Slots |->
                  IF calls'[s].phase = "idle" THEN {} ELSE held[s] \cup assignments']
    /\ awake' = [s \in Slots |->
                  IF calls'[s].phase = "idle" THEN {} ELSE awake[s] \cup active']

\* The call goes on, or ends.
Goto(s, phase) == calls' = [calls EXCEPT ![s].phase = phase]
Answer(s)      == calls' = [calls EXCEPT ![s] = Idle]

RolesIn(user, scopes, table) ==
    {a.role : a \in {b \in table : b.user = user /\ b.scope \in scopes}}

IsGlobalAdmin(a) == a.role = "admin" /\ a.scope = Global

Administrators(table) == {a.user : a \in {b \in table : IsGlobalAdmin(b)}}

\* Edits need a permission on the resource or the whole catalog; everything
\* else needs a global administrator.
May(r, table) ==
    IF r.op \in CatalogOps
    THEN \E role \in RolesIn(r.actor, {r.scope, Global}, table) : r.op \in Permits[role]
    ELSE "admin" \in RolesIn(r.actor, {Global}, table)

\* The assignment a request names.
Named(r) == [user |-> r.user, role |-> r.role, scope |-> r.scope]

-----------------------------------------------------------------------------

Send(s, r) ==
    /\ Phase(s) = "idle"
    /\ calls' = [calls EXCEPT ![s] = [phase |-> "authenticate", req |-> r]]
    /\ UNCHANGED <<assignments, active, catalog, edits, overlapped>>

\* Seeded defect: the session of a disabled account goes on.
IsActiveUnread(s) == TRUE

IsActive(s) == Req(s).actor \in active

\* The session middleware reads the account; a disabled one gets 401.
Authenticate(s) ==
    /\ Phase(s) = "authenticate"
    /\ IF IsActive(s)
       THEN Goto(s, IF Req(s).op \in {"rename", "disconnect"} THEN "load" ELSE "authorize")
       ELSE Answer(s)
    /\ UNCHANGED <<assignments, active, catalog, edits, overlapped>>

\* An edit loads the node or edge it names before it asks for permission.
Load(s) ==
    /\ Phase(s) = "load"
    /\ IF Req(s).scope \in catalog THEN Goto(s, "authorize") ELSE Answer(s)
    /\ UNCHANGED <<assignments, active, catalog, edits, overlapped>>

ScopeChecked(r) == r.op \in RoleOps => ValidScope(r.role, r.scope)

NeedsCount(r) == r.op = "revoke" /\ IsGlobalAdmin(Named(r))

Authorize(s) ==
    /\ Phase(s) = "authorize"
    /\ IF May(Req(s), assignments) /\ ScopeChecked(Req(s))
       THEN Goto(s, IF NeedsCount(Req(s)) THEN "count" ELSE "write")
       ELSE Answer(s)
    /\ UNCHANGED <<assignments, active, catalog, edits, overlapped>>

\* Seeded defect: the last administrator counts as one to spare.
EnoughAdministratorsOffByOne == Cardinality(Administrators(assignments)) > 0

EnoughAdministrators == Cardinality(Administrators(assignments)) > 1

\* LastAdministrator unless there are two.
Count(s) ==
    /\ Phase(s) = "count"
    /\ IF EnoughAdministrators THEN Goto(s, "write") ELSE Answer(s)
    /\ UNCHANGED <<assignments, active, catalog, edits, overlapped>>

-----------------------------------------------------------------------------
(* Writes.  Granting what is granted and revoking what is not change       *)
(* nothing (DuplicateRoleAssignment, RoleAssignmentNotFound).              *)

Grant(s) ==
    /\ Phase(s) = "write"
    /\ Req(s).op = "grant"
    /\ assignments' = assignments \cup {Named(Req(s))}
    /\ Answer(s)
    /\ UNCHANGED <<active, catalog, edits, overlapped>>

Revoke(s) ==
    /\ Phase(s) = "write"
    /\ Req(s).op = "revoke"
    /\ assignments' = assignments \ {Named(Req(s))}
    /\ overlapped' = (overlapped \/
                        /\ NeedsCount(Req(s))
                        /\ Named(Req(s)) \in assignments
                        /\ \E t \in Slots \ {s} :
                              Phase(t) = "write" /\ NeedsCount(Req(t)))
    /\ Answer(s)
    /\ UNCHANGED <<active, catalog, edits>>

\* Every account has verified its email, which enabling requires.
SetStatus(s) ==
    /\ Phase(s) = "write"
    /\ Req(s).op \in StatusOps
    /\ active' = IF Req(s).op = "disable"
                 THEN active \ {Req(s).user} ELSE active \cup {Req(s).user}
    /\ Answer(s)
    /\ UNCHANGED <<assignments, catalog, edits, overlapped>>

\* An edge removed meanwhile is not found; nodes stay.
Edit(s) ==
    /\ Phase(s) = "write"
    /\ Req(s).op \in CatalogOps
    /\ edits' = IF Req(s).scope \in catalog THEN edits \cup {Req(s).scope} ELSE edits
    /\ catalog' = IF Req(s).op = "disconnect" THEN catalog \ {Req(s).scope} ELSE catalog
    /\ Answer(s)
    /\ UNCHANGED <<assignments, active, overlapped>>

\* A statement fails: 500, or 401 while the session is read; never 403.
Fail(s) ==
    /\ Phase(s) # "idle"
    /\ Answer(s)
    /\ UNCHANGED <<assignments, active, catalog, edits, overlapped>>

Step(s) ==
    \/ \E r \in Requests : Send(s, r)
    \/ Authenticate(s) \/ Load(s) \/ Authorize(s) \/ Count(s)
    \/ Grant(s) \/ Revoke(s) \/ SetStatus(s) \/ Edit(s)
    \/ Fail(s)

Next == (\E s \in Slots : Step(s)) /\ Remember

Spec == Init /\ [][Next]_vars

-----------------------------------------------------------------------------
(* Properties                                                              *)

\* Type invariant: every variable of the model has its shape, and a role is
\* stored only with a scope it can have.
TypeOK ==
    /\ assignments \subseteq ValidAssignments
    /\ active \subseteq Accounts
    /\ catalog \subseteq Scopes
    /\ edits \subseteq Scopes
    /\ calls \in [Slots -> [phase: Phases, req: Requests]]
    /\ held \in [Slots -> SUBSET Assignment]
    /\ awake \in [Slots -> SUBSET Accounts]
    /\ overlapped \in BOOLEAN

\* A change is made for an account that was active and allowed to make it at
\* some moment since its request arrived: what a revocation or a disabling
\* takes away, the next request does not have.
Changed == <<assignments, active, catalog, edits>>

EffectsAreAuthorized ==
    [][\A s \in Slots :
          Phase(s) = "write" /\ calls'[s] = Idle /\ Changed' # Changed =>
              Req(s).actor \in awake[s] /\ May(Req(s), held[s])]_vars

\* The last global administrator disappears only when two revocations overlap,
\* each of which counted the other's administrator.
LostOnlyByOverlap == Administrators(assignments) = {} => overlapped

\* There is always a global administrator: "el servicio [...] no permite
\* retirar el ultimo administrador global".
LastAdministratorKept == Administrators(assignments) # {}
=============================================================================
