---------------------------- MODULE AccountTheorems ----------------------------
(***************************************************************************)
(* Proofs about AccessControl, for any number of accounts, requests and    *)
(* slots, and about PasswordRecovery, for any number of browsers, codes,   *)
(* passwords and sessions and any bound of failures.                       *)
(*                                                                         *)
(* An administrator is left because a revocation that passed its count     *)
(* still has two administrators before it, as long as no other revocation  *)
(* has slipped in: TwoLeft.  What a request was allowed to do when it read *)
(* its roles is in its history ever after: CallInv.                        *)
(*                                                                         *)
(* A code is used once because the reset that has written with it still    *)
(* holds it, or it is spent: UsesCounted.  Its wrong codes are counted by  *)
(* its row, up to the maximum: GuessesCounted.  Old sessions end because   *)
(* the password of the account is accepted only by a reset that has        *)
(* revoked them all, and running or cut as soon as another writes:         *)
(* PasswordsEnd.  Pages follow the state because each is left by a step    *)
(* that changes both, or waits for an answer: ScreenSound.                 *)
(***************************************************************************)
EXTENDS AccessControl, PasswordRecovery, FiniteSetTheorems, TLAPS

CallRecord == [phase: Phases, req: Requests]

\* What the checks behind a request have established.
CallInv(s) ==
    /\ Phase(s) \in {"load", "authorize", "count", "write"} => Req(s).actor \in awake[s]
    /\ Phase(s) \in {"count", "write"} => /\ May(Req(s), held[s])
                                          /\ ScopeChecked(Req(s))

TwoLeft == \E u, v \in Administrators(assignments) : u # v

\* Revocations of an administrator that have counted.
Counted(s) == Phase(s) = "write" /\ NeedsCount(Req(s))

SomeLeft ==
    ~overlapped => /\ Administrators(assignments) # {}
                   /\ \A s \in Slots : Counted(s) => TwoLeft

IInv ==
    /\ TypeOK
    /\ \A s \in Slots : CallInv(s)
    /\ SomeLeft

-----------------------------------------------------------------------------
(* Roles                                                                   *)

\* More assignments never allow less.
LEMMA MayGrows ==
    ASSUME NEW r, NEW T, NEW U, T \subseteq U, May(r, T)
    PROVE  May(r, U)
<1>1. \A scopes : RolesIn(r.actor, scopes, T) \subseteq RolesIn(r.actor, scopes, U)
  BY DEF RolesIn
<1> QED
  BY <1>1 DEF May

\* An account is an administrator by one row of the table.
LEMMA AdministratorRow ==
    ASSUME NEW T, T \subseteq Assignment, NEW u
    PROVE  u \in Administrators(T) <=>
              [user |-> u, role |-> "admin", scope |-> Global] \in T
BY DEF Administrators, IsGlobalAdmin, Assignment

\* Administrators are accounts, finitely many.
LEMMA AdministratorsFinite ==
    ASSUME TypeOK
    PROVE  /\ Administrators(assignments) \subseteq Accounts
           /\ IsFiniteSet(Administrators(assignments))
<1>1. Administrators(assignments) \subseteq Accounts
  BY DEF TypeOK, Administrators, ValidAssignments, Assignment
<1> QED
  BY <1>1, FS_Subset, AccessAssumption

\* Counting more than one administrator finds two.
LEMMA CountFindsTwo ==
    ASSUME TypeOK, EnoughAdministrators
    PROVE  TwoLeft
<1> DEFINE A == Administrators(assignments)
<1>1. IsFiniteSet(A) /\ Cardinality(A) > 1
  BY AdministratorsFinite DEF EnoughAdministrators
<1>2. A # {}
  BY <1>1, FS_EmptySet
<1>3. PICK u \in A : TRUE
  BY <1>2
<1>4. CASE A = {u}
  BY <1>1, <1>4, FS_Singleton
<1>5. CASE A # {u}
  BY <1>3, <1>5 DEF TwoLeft
<1> QED
  BY <1>4, <1>5

-----------------------------------------------------------------------------
(* Steps of one request                                                    *)

\* The request in one slot goes on while the tables it reads keep their type.
LEMMA StepType ==
    ASSUME IInv, NEW s \in Slots, NEW x \in CallRecord,
           calls' = [calls EXCEPT ![s] = x], Remember,
           assignments' \subseteq ValidAssignments, active' \subseteq Accounts,
           catalog' \subseteq Scopes, edits' \subseteq Scopes, overlapped' \in BOOLEAN
    PROVE  TypeOK'
<1>1. calls' \in [Slots -> CallRecord]
  BY DEF IInv, TypeOK, CallRecord
<1>2. assignments' \subseteq Assignment
  BY DEF ValidAssignments
<1>3. held' \in [Slots -> SUBSET Assignment]
  BY <1>2 DEF Remember, IInv, TypeOK
<1>4. awake' \in [Slots -> SUBSET Accounts]
  BY DEF Remember, IInv, TypeOK
<1> QED
  BY <1>1, <1>3, <1>4 DEF TypeOK, CallRecord

\* The other requests keep what they have established.
LEMMA OthersKeep ==
    ASSUME IInv, NEW s \in Slots, NEW x,
           calls' = [calls EXCEPT ![s] = x], Remember, NEW t \in Slots, t # s
    PROVE  CallInv(t)' /\ calls'[t] = calls[t]
<1>1. calls'[t] = calls[t]
  BY DEF IInv, TypeOK
<1>2. CASE calls[t].phase = "idle"
  BY <1>1, <1>2 DEF CallInv, Phase
<1>3. CASE calls[t].phase # "idle"
  <2>1. held[t] \subseteq held'[t] /\ awake[t] \subseteq awake'[t]
    BY <1>1, <1>3 DEF Remember
  <2>2. CallInv(t)
    BY DEF IInv
  <2>3. Phase(t)' = Phase(t) /\ Req(t)' = Req(t)
    BY <1>1 DEF Phase, Req
  <2>4. Phase(t)' \in {"count", "write"} => May(Req(t), held'[t])
    BY <2>1, <2>2, <2>3, MayGrows DEF CallInv
  <2> QED
    BY <2>1, <2>2, <2>3, <2>4 DEF CallInv, ScopeChecked
<1> QED
  BY <1>1, <1>2, <1>3

\* Going to another phase of the same request.
LEMMA GotoType ==
    ASSUME IInv, NEW s \in Slots, NEW q \in Phases, Goto(s, q)
    PROVE  /\ calls' = [calls EXCEPT ![s] = [phase |-> q, req |-> Req(s)]]
           /\ [phase |-> q, req |-> Req(s)] \in CallRecord
           /\ calls'[s] = [phase |-> q, req |-> Req(s)]
<1>1. calls[s] \in CallRecord
  BY DEF IInv, TypeOK, CallRecord
<1>2. [calls[s] EXCEPT !.phase = q] = [phase |-> q, req |-> Req(s)]
  BY <1>1 DEF CallRecord, Req
<1>3. calls' = [calls EXCEPT ![s] = [calls[s] EXCEPT !.phase = q]]
  BY DEF Goto
<1> QED
  BY <1>1, <1>2, <1>3 DEF IInv, TypeOK, CallRecord

\* A request that has gone.
LEMMA IdleCall ==
    ASSUME NEW s \in Slots, Answer(s), TypeOK
    PROVE  Idle \in CallRecord /\ calls'[s] = Idle
           /\ CallInv(s)' /\ ~Counted(s)'
<1>1. Idle \in CallRecord
  BY AccessAssumption DEF Idle, CallRecord, Phases
<1>2. calls'[s] = Idle
  BY DEF Answer, TypeOK
<1>3. Phase(s)' = "idle"
  BY <1>2 DEF Phase, Idle
<1> QED
  BY <1>1, <1>2, <1>3 DEF CallInv, Counted

\* A step that changes neither assignments nor the flag, and leaves no new
\* revocation past its count, keeps an administrator.
LEMMA LeftAlone ==
    ASSUME IInv, NEW s \in Slots, UNCHANGED <<assignments, overlapped>>,
           \A t \in Slots \ {s} : calls'[t] = calls[t],
           Counted(s)' => TwoLeft
    PROVE  SomeLeft'
<1>1. ASSUME NEW t \in Slots, Counted(t)', ~overlapped PROVE TwoLeft
  <2>1. CASE t = s
    BY <1>1, <2>1
  <2>2. CASE t # s
    BY <1>1, <2>2 DEF IInv, SomeLeft, Counted, Phase, Req
  <2> QED
    BY <2>1, <2>2
<1>2. ~overlapped => Administrators(assignments) # {}
  BY DEF IInv, SomeLeft
<1>3. TwoLeft' <=> TwoLeft
  BY DEF TwoLeft
<1> QED
  BY <1>1, <1>2, <1>3 DEF SomeLeft

\* Answering without touching the roles keeps the invariant.
LEMMA AnswerKeeps ==
    ASSUME IInv, NEW s \in Slots, Answer(s), Remember,
           UNCHANGED <<assignments, overlapped>>, active' \subseteq Accounts,
           catalog' \subseteq Scopes, edits' \subseteq Scopes
    PROVE  IInv'
<1>1. /\ Idle \in CallRecord
      /\ CallInv(s)'
      /\ ~Counted(s)'
  BY IdleCall DEF IInv
<1>2. calls' = [calls EXCEPT ![s] = Idle]
  BY DEF Answer
<1>3. TypeOK'
  BY <1>1, <1>2, StepType DEF IInv, TypeOK
<1>4. \A t \in Slots \ {s} : CallInv(t)' /\ calls'[t] = calls[t]
  BY <1>2, OthersKeep
<1>5. SomeLeft'
  BY <1>1, <1>4, LeftAlone
<1> QED
  BY <1>1, <1>3, <1>4, <1>5 DEF IInv

\* Going on without touching any table keeps the invariant.
LEMMA GotoKeeps ==
    ASSUME IInv, NEW s \in Slots, NEW q \in Phases, Goto(s, q), Remember,
           UNCHANGED <<assignments, active, catalog, edits, overlapped>>,
           q # "idle",
           q \in {"load", "authorize", "count", "write"} =>
              Req(s).actor \in awake[s] \cup active,
           q \in {"count", "write"} => /\ May(Req(s), held[s] \cup assignments)
                                       /\ ScopeChecked(Req(s)),
           q = "write" /\ NeedsCount(Req(s)) => TwoLeft
    PROVE  IInv'
<1> DEFINE x == [phase |-> q, req |-> Req(s)]
<1>1. calls' = [calls EXCEPT ![s] = x] /\ x \in CallRecord /\ calls'[s] = x
  BY GotoType
<1>2. Phase(s)' = q /\ Req(s)' = Req(s)
  BY <1>1 DEF Phase, Req
<1> HIDE DEF x
<1>3. TypeOK'
  BY <1>1, StepType DEF IInv, TypeOK
<1>4. \A t \in Slots \ {s} : CallInv(t)' /\ calls'[t] = calls[t]
  BY <1>1, OthersKeep
<1>5. calls'[s].phase # "idle"
  BY <1>2 DEF Phase
<1>6. held'[s] = held[s] \cup assignments /\ awake'[s] = awake[s] \cup active
  BY <1>5 DEF Remember
<1>7. CallInv(s)'
  BY <1>2, <1>6 DEF CallInv, ScopeChecked
<1>8. Counted(s)' => TwoLeft
  BY <1>2 DEF Counted, NeedsCount
<1>9. SomeLeft'
  BY <1>4, <1>8, LeftAlone
<1> QED
  BY <1>3, <1>4, <1>7, <1>9 DEF IInv

-----------------------------------------------------------------------------
(* The actions                                                             *)

\* Sending a request keeps the invariant.
LEMMA SendKeeps ==
    ASSUME IInv, NEW s \in Slots, NEW r \in Requests, Send(s, r), Remember
    PROVE  IInv'
<1> DEFINE x == [phase |-> "authenticate", req |-> r]
<1>1. x \in CallRecord /\ calls' = [calls EXCEPT ![s] = x]
  BY DEF CallRecord, Phases, Send
<1>2. calls'[s] = x
  BY <1>1 DEF IInv, TypeOK
<1>3. Phase(s)' = "authenticate"
  BY <1>2 DEF Phase
<1> HIDE DEF x
<1>4. TypeOK'
  BY <1>1, StepType DEF Send, IInv, TypeOK
<1>5. \A t \in Slots \ {s} : CallInv(t)' /\ calls'[t] = calls[t]
  BY <1>1, OthersKeep
<1>6. CallInv(s)' /\ ~Counted(s)'
  BY <1>3 DEF CallInv, Counted
<1>7. SomeLeft'
  BY <1>5, <1>6, LeftAlone DEF Send
<1> QED
  BY <1>4, <1>5, <1>6, <1>7 DEF IInv

\* Reading the account keeps the invariant.
LEMMA AuthenticateKeeps ==
    ASSUME IInv, NEW s \in Slots, Authenticate(s), Remember
    PROVE  IInv'
<1>1. CASE ~IsActive(s)
  BY <1>1, AnswerKeeps DEF Authenticate, IInv, TypeOK
<1>2. CASE IsActive(s)
  <2>1. PICK q \in {"load", "authorize"} : Goto(s, q)
    BY <1>2 DEF Authenticate
  <2>2. Req(s).actor \in awake[s] \cup active
    BY <1>2 DEF IsActive
  <2> QED
    BY <2>1, <2>2, GotoKeeps DEF Authenticate, Phases
<1> QED
  BY <1>1, <1>2

\* Loading the resource keeps the invariant.
LEMMA LoadKeeps ==
    ASSUME IInv, NEW s \in Slots, Load(s), Remember
    PROVE  IInv'
<1>1. CASE Req(s).scope \notin catalog
  BY <1>1, AnswerKeeps DEF Load, IInv, TypeOK
<1>2. CASE Req(s).scope \in catalog
  <2>1. Goto(s, "authorize")
    BY <1>2 DEF Load
  <2>2. Req(s).actor \in awake[s]
    BY DEF Load, IInv, CallInv
  <2> QED
    BY <2>1, <2>2, GotoKeeps DEF Load, Phases
<1> QED
  BY <1>1, <1>2

\* Reading the roles keeps the invariant.
LEMMA AuthorizeKeeps ==
    ASSUME IInv, NEW s \in Slots, Authorize(s), Remember
    PROVE  IInv'
<1>1. CASE ~(May(Req(s), assignments) /\ ScopeChecked(Req(s)))
  BY <1>1, AnswerKeeps DEF Authorize, IInv, TypeOK
<1>2. CASE May(Req(s), assignments) /\ ScopeChecked(Req(s))
  <2>1. PICK q \in {"count", "write"} : Goto(s, q) /\ (q = "write" => ~NeedsCount(Req(s)))
    BY <1>2 DEF Authorize
  <2>2. Req(s).actor \in awake[s]
    BY DEF Authorize, IInv, CallInv
  <2>3. May(Req(s), held[s] \cup assignments)
    BY <1>2, MayGrows
  <2> QED
    BY <1>2, <2>1, <2>2, <2>3, GotoKeeps DEF Authorize, Phases
<1> QED
  BY <1>1, <1>2

\* Counting the administrators keeps the invariant.
LEMMA CountKeeps ==
    ASSUME IInv, NEW s \in Slots, Count(s), Remember
    PROVE  IInv'
<1>1. CASE ~EnoughAdministrators
  BY <1>1, AnswerKeeps DEF Count, IInv, TypeOK
<1>2. CASE EnoughAdministrators
  <2>1. Goto(s, "write")
    BY <1>2 DEF Count
  <2>2. Req(s).actor \in awake[s] /\ May(Req(s), held[s]) /\ ScopeChecked(Req(s))
    BY DEF Count, IInv, CallInv
  <2>3. May(Req(s), held[s] \cup assignments)
    BY <2>2, MayGrows
  <2>4. TwoLeft
    BY <1>2, CountFindsTwo DEF IInv
  <2> QED
    BY <2>1, <2>2, <2>3, <2>4, GotoKeeps DEF Count, Phases
<1> QED
  BY <1>1, <1>2

\* A step that ends a request and changes the roles keeps what the others
\* have established.
LEMMA WriteKeeps ==
    ASSUME IInv, NEW s \in Slots, Answer(s), Remember,
           assignments' \subseteq ValidAssignments, overlapped' \in BOOLEAN,
           UNCHANGED <<active, catalog, edits>>
    PROVE  /\ TypeOK'
           /\ \A t \in Slots : CallInv(t)'
           /\ ~Counted(s)'
           /\ \A t \in Slots \ {s} : Counted(t)' <=> Counted(t)
<1>1. /\ Idle \in CallRecord
      /\ CallInv(s)'
      /\ ~Counted(s)'
  BY IdleCall DEF IInv
<1>2. calls' = [calls EXCEPT ![s] = Idle]
  BY DEF Answer
<1>3. TypeOK'
  BY <1>1, <1>2, StepType DEF IInv, TypeOK
<1>4. \A t \in Slots \ {s} : CallInv(t)' /\ calls'[t] = calls[t]
  BY <1>2, OthersKeep
<1>5. \A t \in Slots \ {s} : Counted(t)' <=> Counted(t)
  BY <1>4 DEF Counted, Phase, Req
<1> QED
  BY <1>1, <1>3, <1>4, <1>5

\* A request's assignment, once its scope is checked, is a valid one.
LEMMA NamedValid ==
    ASSUME TypeOK, NEW s \in Slots, ScopeChecked(Req(s)), Req(s).op \in RoleOps
    PROVE  Named(Req(s)) \in ValidAssignments
<1>1. Req(s) \in Request
  BY AccessAssumption DEF TypeOK, Req
<1> QED
  BY <1>1 DEF Named, ScopeChecked, ValidAssignments, Assignment, Request

\* Granting a role keeps the invariant.
LEMMA GrantKeeps ==
    ASSUME IInv, NEW s \in Slots, Grant(s), Remember
    PROVE  IInv'
<1>1. Named(Req(s)) \in ValidAssignments
  BY NamedValid DEF Grant, IInv, CallInv, RoleOps
<1>2. assignments \subseteq assignments' /\ assignments' \subseteq ValidAssignments
  BY <1>1 DEF Grant, IInv, TypeOK
<1>3. /\ TypeOK'
      /\ \A t \in Slots : CallInv(t)'
      /\ ~Counted(s)'
      /\ \A t \in Slots \ {s} : Counted(t)' <=> Counted(t)
  BY <1>2, WriteKeeps DEF Grant, IInv, TypeOK
<1>4. Administrators(assignments) \subseteq Administrators(assignments')
  BY <1>2 DEF Administrators
<1>5. ASSUME ~overlapped
      PROVE  /\ Administrators(assignments') # {}
             /\ \A t \in Slots : Counted(t)' => TwoLeft'
  <2>1. Administrators(assignments) # {} /\ \A t \in Slots : Counted(t) => TwoLeft
    BY <1>5 DEF IInv, SomeLeft
  <2>2. TwoLeft => TwoLeft'
    BY <1>4 DEF TwoLeft
  <2> QED
    BY <1>3, <1>4, <2>1, <2>2
<1>6. SomeLeft'
  BY <1>5 DEF SomeLeft, Grant
<1> QED
  BY <1>3, <1>6 DEF IInv

\* Revoking a role keeps the invariant.
LEMMA RevokeKeeps ==
    ASSUME IInv, NEW s \in Slots, Revoke(s), Remember
    PROVE  IInv'
<1> DEFINE a == Named(Req(s))
<1>1. assignments' = assignments \ {a} /\ assignments' \subseteq ValidAssignments
  BY DEF Revoke, IInv, TypeOK
<1>2. overlapped' \in BOOLEAN /\ (overlapped => overlapped')
  BY DEF Revoke, IInv, TypeOK
<1>3. /\ TypeOK'
      /\ \A t \in Slots : CallInv(t)'
      /\ ~Counted(s)'
      /\ \A t \in Slots \ {s} : Counted(t)' <=> Counted(t)
  BY <1>1, <1>2, WriteKeeps DEF Revoke
<1>4. assignments \subseteq Assignment
  BY DEF IInv, TypeOK, ValidAssignments
<1>5. ASSUME ~overlapped'
      PROVE  /\ Administrators(assignments') # {}
             /\ \A t \in Slots : Counted(t)' => TwoLeft'
  <2>1. ~overlapped
    BY <1>2, <1>5
  <2>2. Administrators(assignments) # {} /\ \A t \in Slots : Counted(t) => TwoLeft
    BY <2>1 DEF IInv, SomeLeft
  <2>3. CASE ~IsGlobalAdmin(a) \/ a \notin assignments
    <3>1. Administrators(assignments') = Administrators(assignments)
      BY <1>1, <2>3 DEF Administrators
    <3> QED
      BY <1>3, <2>2, <3>1 DEF TwoLeft
  <2>4. CASE IsGlobalAdmin(a) /\ a \in assignments
    <3>1. Counted(s)
      BY <2>4 DEF Revoke, Counted, NeedsCount
    <3>2. PICK u, v \in Administrators(assignments) : u # v
      BY <2>2, <3>1 DEF TwoLeft
    <3>3. PICK w \in {u, v} : w # a.user
      BY <3>2
    <3>4. [user |-> w, role |-> "admin", scope |-> Global] \in assignments
      BY <1>4, <3>2, <3>3, AdministratorRow
    <3>5. [user |-> w, role |-> "admin", scope |-> Global] \in assignments'
      BY <1>1, <3>3, <3>4
    <3>6. w \in Administrators(assignments')
      BY <3>5 DEF Administrators, IsGlobalAdmin
    <3>7. \A t \in Slots \ {s} : ~Counted(t)
      BY <1>5, <2>4, <3>1 DEF Revoke, Counted
    <3> QED
      BY <1>3, <3>6, <3>7
  <2> QED
    BY <2>3, <2>4
<1>6. SomeLeft'
  BY <1>5 DEF SomeLeft
<1> QED
  BY <1>3, <1>6 DEF IInv

\* Changing the status of an account keeps the invariant.
LEMMA SetStatusKeeps ==
    ASSUME IInv, NEW s \in Slots, SetStatus(s), Remember
    PROVE  IInv'
<1>1. Req(s) \in Request
  BY AccessAssumption DEF IInv, TypeOK, Req
<1>2. active' \subseteq Accounts
  BY <1>1 DEF SetStatus, IInv, TypeOK, Request
<1> QED
  BY <1>2, AnswerKeeps DEF SetStatus, IInv, TypeOK

\* Editing the catalog keeps the invariant.
LEMMA EditKeeps ==
    ASSUME IInv, NEW s \in Slots, Edit(s), Remember
    PROVE  IInv'
<1>1. catalog' \subseteq Scopes /\ edits' \subseteq Scopes
  BY DEF Edit, IInv, TypeOK
<1> QED
  BY <1>1, AnswerKeeps DEF Edit, IInv, TypeOK

\* A failure keeps the invariant.
LEMMA FailKeeps ==
    ASSUME IInv, NEW s \in Slots, Fail(s), Remember
    PROVE  IInv'
BY AnswerKeeps DEF Fail, IInv, TypeOK

-----------------------------------------------------------------------------

\* The invariant holds at the start.
LEMMA InitInv == Init => IInv
<1> SUFFICES ASSUME Init PROVE IInv
  OBVIOUS
<1>1. Idle \in CallRecord
  BY AccessAssumption DEF Idle, CallRecord, Phases
<1>2. InitialAssignments \subseteq Assignment
  BY AccessAssumption DEF ValidAssignments
<1>3. TypeOK
  BY <1>1, AccessAssumption DEF Init, TypeOK, CallRecord
<1>4. \A s \in Slots : Phase(s) = "idle"
  BY DEF Init, Phase, Idle
<1>5. \A s \in Slots : CallInv(s) /\ ~Counted(s)
  BY <1>4 DEF CallInv, Counted
<1>6. Administrators(assignments) # {}
  BY AccessAssumption DEF Init, Administrators, IsGlobalAdmin
<1> QED
  BY <1>3, <1>5, <1>6 DEF IInv, SomeLeft

\* Every step keeps the invariant.
LEMMA NextKeeps == IInv /\ [Next]_vars => IInv'
<1> SUFFICES ASSUME IInv, [Next]_vars PROVE IInv'
  OBVIOUS
<1>1. CASE UNCHANGED vars
  BY <1>1 DEF vars, IInv, TypeOK, CallInv, SomeLeft, TwoLeft, Counted, Phase, Req,
              ScopeChecked, NeedsCount
<1>2. CASE Next
  <2>1. PICK s \in Slots : Step(s) /\ Remember
    BY <1>2 DEF Next
  <2>2. CASE \E r \in Requests : Send(s, r)
    BY <2>1, <2>2, SendKeeps
  <2>3. CASE Authenticate(s) \/ Load(s) \/ Authorize(s) \/ Count(s)
    BY <2>1, <2>3, AuthenticateKeeps, LoadKeeps, AuthorizeKeeps, CountKeeps
  <2>4. CASE Grant(s) \/ Revoke(s)
    BY <2>1, <2>4, GrantKeeps, RevokeKeeps
  <2>5. CASE SetStatus(s) \/ Edit(s) \/ Fail(s)
    BY <2>1, <2>5, SetStatusKeeps, EditKeeps, FailKeeps
  <2> QED
    BY <2>1, <2>2, <2>3, <2>4, <2>5 DEF Step
<1> QED
  BY <1>1, <1>2

\* The inductive invariant of AccessControl.
THEOREM InvariantHolds == Spec => []IInv
BY InitInv, NextKeeps, PTL DEF Spec

\* Roles are stored only with scopes they can have, and every variable keeps
\* its shape.
THEOREM TypeCorrect == Spec => []TypeOK
<1>1. IInv => TypeOK
  BY DEF IInv
<1> QED
  BY <1>1, InvariantHolds, PTL

\* The last administrator is revoked only by two revocations that overlap.
THEOREM AdministratorKept == Spec => []LostOnlyByOverlap
<1>1. IInv => LostOnlyByOverlap
  BY DEF IInv, SomeLeft, LostOnlyByOverlap
<1> QED
  BY <1>1, InvariantHolds, PTL

\* Served one at a time, requests always leave an administrator.
THEOREM AloneKept ==
    (\A s, t \in Slots : s = t) => (Spec => []LastAdministratorKept)
<1> SUFFICES ASSUME \A s, t \in Slots : s = t
             PROVE  Spec => []LastAdministratorKept
  OBVIOUS
<1>1. Init => ~overlapped
  BY DEF Init
<1>2. ~overlapped /\ [Next]_vars => ~overlapped'
  BY DEF Next, Step, vars, Send, Authenticate, Load, Authorize, Count, Grant, Revoke,
         SetStatus, Edit, Fail
<1>3. IInv /\ ~overlapped => LastAdministratorKept
  BY DEF IInv, SomeLeft, LastAdministratorKept
<1> QED
  BY <1>1, <1>2, <1>3, InvariantHolds, PTL DEF Spec

\* Every change is made for an account that was active and allowed to make it
\* at some moment since its request arrived.
THEOREM Authorization == Spec => EffectsAreAuthorized
<1>1. IInv => \A s \in Slots : Phase(s) = "write" =>
                 Req(s).actor \in awake[s] /\ May(Req(s), held[s])
  BY DEF IInv, CallInv
<1>2. IInv => [\A s \in Slots :
          Phase(s) = "write" /\ calls'[s] = Idle /\ Changed' # Changed =>
              Req(s).actor \in awake[s] /\ May(Req(s), held[s])]_vars
  BY <1>1
<1> QED
  BY <1>2, InvariantHolds, PTL DEF EffectsAreAuthorized

-----------------------------------------------------------------------------
(* The recovery of a password: what the services and the screens keep true *)

ChallengeRow == [failedAttempts : 0..MaximumAttempts, consumed : BOOLEAN, expired : BOOLEAN]
SessionRow == [password : Passwords, revoked : BOOLEAN, late : BOOLEAN]

RequestRow == [stage : Stages, kind : Kinds, code : Codes \cup {None},
               password : Passwords \cup {None}, challenge : Codes \cup {None},
               reply : {"accepted", "failed"}]

ScreenRow == [route : Routes,
              screen : {"login", "forgot", "code", "new-password", "done"},
              email : {""}, code : Codes \cup {None},
              waiting : {"no", "login", "submit", "resend", "reset"},
              strayed : BOOLEAN, dropped : BOOLEAN]

\* What a request has at each stage.
RequestSound(b) ==
    /\ Stage(b) \in {"find", "count", "password", "consume", "revoke"} =>
          requests[b].kind = "reset"
    /\ Stage(b) = "create" => requests[b].kind = "login"
    /\ Stage(b) \notin {"idle", "answered"} /\ requests[b].kind # "ask" =>
          Password(b) \in Passwords
    /\ Stage(b) \in {"mail", "count", "password", "consume", "revoke"} =>
          Challenge(b) \in DOMAIN challenges

RecoveryTypes ==
    /\ RecoveryTypeOK
    /\ screens \in [Browsers -> ScreenRow]
    /\ written \in [Codes -> SUBSET Passwords]
    /\ wrong \in [Codes -> Nat]
    /\ \A b \in Browsers : RequestSound(b)

\* Request b is at one of these stages with challenge i.
At(b, i, stages) == Challenge(b) = i /\ Stage(b) \in stages

\* No reset finds the challenge again.
Spent(i) == i \in DOMAIN challenges /\ (challenges[i].consumed \/ Exhausted(i))

\* A code that replaced a password is spent or about to be, and nobody else
\* is using it.
UsesCounted(i) ==
    i \notin contested =>
        /\ \A p, q \in written[i] : p = q
        /\ \A b, c \in Browsers :
              At(b, i, {"password", "consume"}) /\ At(c, i, {"password", "consume"}) => b = c
        /\ (\E b \in Browsers : At(b, i, {"password"})) => written[i] = {}
        /\ written[i] # {} => Spent(i) \/ \E b \in Browsers : At(b, i, {"consume"})

\* The row counts the wrong codes up to the maximum, and a request that waits
\* to be counted had room.
GuessesCounted(i) ==
    /\ i \notin DOMAIN challenges => wrong[i] = 0
    /\ i \in DOMAIN challenges =>
          challenges[i].failedAttempts =
              IF wrong[i] <= MaximumAttempts THEN wrong[i] ELSE MaximumAttempts
    /\ i \notin crowded =>
          /\ wrong[i] <= MaximumAttempts
          /\ \A b \in Browsers : At(b, i, {"count"}) => wrong[i] < MaximumAttempts
          /\ \A b, c \in Browsers : At(b, i, {"count"}) /\ At(c, i, {"count"}) => b = c

\* Every session is of the account's password, once its reset was accepted.
Ended(s) == s.password = password \/ s.revoked \/ s.late

PasswordsEnd ==
    /\ outcome[password] # "unused"
    /\ outcome[password] = "accepted" => \A s \in DOMAIN sessions : Ended(sessions[s])

\* Without straying, the route and the state of the recovery go together while
\* it is there, and a command that changes it waits on its own page.
RightScreen(s) ==
    ~s.strayed =>
        /\ ~s.dropped => s.route \in {PageOf(s.screen), "app"}
        /\ s.waiting = "submit" => s.route = "recovery"
        /\ s.waiting = "reset" => s.route = "new-password"

ScreenSound(b) == RightScreen(screens[b])

RecoveryInv ==
    /\ RecoveryTypes
    /\ \A i \in Codes : UsesCounted(i) /\ GuessesCounted(i)
    /\ PasswordsEnd
    /\ \A b \in Browsers : ScreenSound(b)

-----------------------------------------------------------------------------
(* Requests *)

\* Rows and history keep their types.
RowTypes ==
    /\ enabled \in BOOLEAN
    /\ password \in Passwords
    /\ DOMAIN challenges \subseteq Codes
    /\ \A i \in DOMAIN challenges : challenges[i] \in ChallengeRow
    /\ DOMAIN sessions \subseteq SessionIds
    /\ \A s \in DOMAIN sessions : sessions[s] \in SessionRow
    /\ mailed \subseteq DOMAIN challenges
    /\ outcome \in [Passwords -> Outcomes]
    /\ contested \cup crowded \subseteq Codes
    /\ written \in [Codes -> SUBSET Passwords]
    /\ wrong \in [Codes -> Nat]

LEMMA TypesAre ==
    RecoveryTypes <=> /\ RowTypes
                      /\ requests \in [Browsers -> RequestRow]
                      /\ screens \in [Browsers -> ScreenRow]
                      /\ \A b \in Browsers : RequestSound(b)
<1>1. ASSUME screens \in [Browsers -> ScreenRow] PROVE \A b \in Browsers : screens[b].route \in Routes
  BY <1>1 DEF ScreenRow
<1> QED
  BY <1>1 DEF RecoveryTypes, RowTypes, RecoveryTypeOK, ChallengeRow, SessionRow, RequestRow

\* Request b goes on to a stage, with a challenge.
Reaches(b, stage, i) ==
    /\ requests' \in [Browsers -> RequestRow]
    /\ \A c \in Browsers \ {b} : requests'[c] = requests[c]
    /\ Stage(b)' = stage /\ Challenge(b)' = i
    /\ requests'[b].kind = requests[b].kind /\ Password(b)' = Password(b)

\* A request replaced.
LEMMA Replaced ==
    ASSUME requests \in [Browsers -> RequestRow], NEW b \in Browsers, NEW x \in RequestRow,
           requests' = [requests EXCEPT ![b] = x]
    PROVE  /\ requests' \in [Browsers -> RequestRow]
           /\ \A c \in Browsers \ {b} : requests'[c] = requests[c]
           /\ requests'[b] = x
OBVIOUS

\* The stage, the challenge and the reply of a request replaced.
LEMMA Advanced ==
    ASSUME requests \in [Browsers -> RequestRow], NEW b \in Browsers,
           NEW stage \in Stages, NEW i \in Codes \cup {None}, NEW reply \in {"accepted", "failed"},
           requests' = [requests EXCEPT ![b] = [requests[b] EXCEPT !.stage = stage,
                                                   !.challenge = i, !.reply = reply]]
    PROVE  Reaches(b, stage, i)
<1> DEFINE x == [requests[b] EXCEPT !.stage = stage, !.challenge = i, !.reply = reply]
<1>1. requests[b] \in RequestRow
  OBVIOUS
<1>2. /\ x \in RequestRow /\ x.stage = stage /\ x.challenge = i
      /\ x.kind = requests[b].kind /\ x.password = requests[b].password
  BY <1>1 DEF RequestRow
<1>3. requests' = [requests EXCEPT ![b] = x]
  OBVIOUS
<1> HIDE DEF x
<1> QED
  BY <1>2, <1>3, Replaced DEF Reaches, Stage, Challenge, Password

LEMMA MovesOn ==
    ASSUME RecoveryTypes, NEW b \in Browsers, NEW stage \in Stages, MoveOn(b, stage)
    PROVE  Reaches(b, stage, Challenge(b))
<1>1. requests \in [Browsers -> RequestRow] /\ requests[b] \in RequestRow
  BY TypesAre
<1>2. [requests[b] EXCEPT !.stage = stage]
        = [requests[b] EXCEPT !.stage = stage, !.challenge = Challenge(b),
                              !.reply = requests[b].reply]
  BY <1>1 DEF RequestRow, Challenge
<1>3. requests' = [requests EXCEPT ![b] = [requests[b] EXCEPT !.stage = stage]]
  BY DEF MoveOn
<1>4. Challenge(b) \in Codes \cup {None} /\ requests[b].reply \in {"accepted", "failed"}
  BY <1>1 DEF RequestRow, Challenge
<1> QED
  BY <1>1, <1>2, <1>3, <1>4, Advanced

LEMMA Replies ==
    ASSUME RecoveryTypes, NEW b \in Browsers, NEW reply \in {"accepted", "failed"}, Reply(b, reply)
    PROVE  Reaches(b, "answered", Challenge(b))
<1>1. requests \in [Browsers -> RequestRow] /\ requests[b] \in RequestRow
  BY TypesAre
<1>2. [requests[b] EXCEPT !.stage = "answered", !.reply = reply]
        = [requests[b] EXCEPT !.stage = "answered", !.challenge = Challenge(b), !.reply = reply]
  BY <1>1 DEF RequestRow, Challenge
<1>3. requests' = [requests EXCEPT ![b] = [requests[b] EXCEPT !.stage = "answered", !.reply = reply]]
  BY <1>1 DEF Reply
<1>4. Challenge(b) \in Codes \cup {None} /\ "answered" \in Stages
  BY <1>1 DEF RequestRow, Challenge, Stages
<1> QED
  BY <1>1, <1>2, <1>3, <1>4, Advanced

LEMMA Challenged ==
    ASSUME RecoveryTypes, NEW b \in Browsers, NEW stage \in Stages, NEW i \in Codes,
           requests' = [requests EXCEPT ![b].challenge = i, ![b].stage = stage]
    PROVE  Reaches(b, stage, i)
<1>1. requests \in [Browsers -> RequestRow] /\ requests[b] \in RequestRow
  BY TypesAre
<1>2. [requests[b] EXCEPT !.challenge = i, !.stage = stage]
        = [requests[b] EXCEPT !.stage = stage, !.challenge = i, !.reply = requests[b].reply]
  BY <1>1 DEF RequestRow
<1>3. requests' = [requests EXCEPT ![b] = [requests[b] EXCEPT !.challenge = i, !.stage = stage]]
  BY <1>1
<1>4. requests[b].reply \in {"accepted", "failed"}
  BY <1>1 DEF RequestRow
<1> QED
  BY <1>1, <1>2, <1>3, <1>4, Advanced

\* A step of the services keeps the types when it keeps those of the rows and
\* leaves request b as it should be.
LEMMA ServedTypes ==
    ASSUME RecoveryTypes, NEW b \in Browsers, NEW stage, NEW i, Reaches(b, stage, i),
           RowTypes', UNCHANGED screens, DOMAIN challenges \subseteq DOMAIN challenges',
           RequestSound(b)'
    PROVE  RecoveryTypes'
<1>1. ASSUME NEW c \in Browsers \ {b} PROVE RequestSound(c)'
  <2>1. requests'[c] = requests[c] /\ RequestSound(c)
    BY DEF Reaches, RecoveryTypes
  <2> QED
    BY <2>1 DEF RequestSound, Stage, Challenge, Password
<1>2. requests' \in [Browsers -> RequestRow]
  BY DEF Reaches
<1>3. screens' \in [Browsers -> ScreenRow]
  BY TypesAre
<1>4. \A c \in Browsers : RequestSound(c)'
  BY <1>1
<1>5. \A c \in Browsers : screens'[c].route \in Routes
  BY <1>3 DEF ScreenRow
<1> QED
  BY <1>2, <1>3, <1>4, <1>5
     DEF RecoveryTypes, RowTypes, RecoveryTypeOK, ChallengeRow, SessionRow, RequestRow

-----------------------------------------------------------------------------
(* The steps of the services keep the types *)

\* Rows and history that no step changes.
LEMMA RowsSame ==
    ASSUME RowTypes, UNCHANGED <<rows, history>>
    PROVE  RowTypes'
BY DEF RowTypes, rows, history

\* A challenge that exists, in a reset.
LEMMA ResetOf ==
    ASSUME RecoveryTypes, NEW b \in Browsers,
           Stage(b) \in {"count", "password", "consume", "revoke"}
    PROVE  /\ RequestSound(b) /\ requests[b].kind = "reset"
           /\ Challenge(b) \in DOMAIN challenges /\ Challenge(b) \in Codes
           /\ challenges[Challenge(b)] \in ChallengeRow
           /\ Password(b) \in Passwords
BY TypesAre DEF RecoveryTypes, RequestSound, RowTypes

\* The rows of challenges that statements leave.
LEMMA ChallengesKept ==
    ASSUME RowTypes, NEW i \in DOMAIN challenges, NEW x \in ChallengeRow,
           challenges' = [challenges EXCEPT ![i] = x]
    PROVE  /\ DOMAIN challenges' = DOMAIN challenges
           /\ challenges'[i] = x
           /\ \A j \in DOMAIN challenges \ {i} : challenges'[j] = challenges[j]
           /\ \A j \in DOMAIN challenges' : challenges'[j] \in ChallengeRow
BY DEF RowTypes

\* Steps that only look.
LEMMA LookTypes ==
    ASSUME RecoveryTypes, NEW b \in Browsers,
           AskAccount(b) \/ ResetAccount(b) \/ FindNothing(b) \/ VerifyPassword(b)
    PROVE  /\ RecoveryTypes' /\ UNCHANGED <<rows, screens, history>>
           /\ \E st \in {"answered", "issue", "find", "create"} : Reaches(b, st, Challenge(b))
<1>1. UNCHANGED <<rows, screens, history>>
  BY DEF AskAccount, ResetAccount, FindNothing, VerifyPassword
<1>2. \/ \E reply \in {"accepted", "failed"} : Reply(b, reply)
      \/ MoveOn(b, "issue") /\ requests[b].kind = "ask"
      \/ MoveOn(b, "find") /\ requests[b].kind = "reset"
      \/ MoveOn(b, "create") /\ requests[b].kind = "login"
  BY DEF AskAccount, ResetAccount, FindNothing, VerifyPassword
<1>3. PICK st \in {"answered", "issue", "find", "create"} :
         /\ Reaches(b, st, Challenge(b))
         /\ st = "find" => requests[b].kind = "reset"
         /\ st = "create" => requests[b].kind = "login"
  BY <1>2, Replies, MovesOn DEF Stages
<1>4. RequestSound(b) /\ Stage(b) \in {"account", "find"}
  BY DEF RecoveryTypes, AskAccount, ResetAccount, FindNothing, VerifyPassword
<1>5. RequestSound(b)'
  BY <1>3, <1>4 DEF Reaches, RequestSound
<1>6. RowTypes'
  BY <1>1, TypesAre, RowsSame
<1>7. DOMAIN challenges \subseteq DOMAIN challenges' /\ UNCHANGED screens
  BY <1>1 DEF rows
<1> QED
  BY <1>1, <1>3, <1>5, <1>6, <1>7, ServedTypes

LEMMA NewCodeIs ==
    ASSUME RowTypes, DOMAIN challenges # Codes
    PROVE  NewCode \in Codes \ DOMAIN challenges
BY DEF RowTypes, NewCode

LEMMA IssueTypes ==
    ASSUME RecoveryTypes, NEW b \in Browsers, Issue(b)
    PROVE  /\ RecoveryTypes' /\ Reaches(b, "mail", NewCode)
           /\ UNCHANGED <<enabled, password, sessions, mailed, screens, history>>
           /\ NewCode \in Codes \ DOMAIN challenges
           /\ DOMAIN challenges' = DOMAIN challenges \cup {NewCode}
           /\ challenges'[NewCode] = [failedAttempts |-> 0, consumed |-> FALSE, expired |-> FALSE]
           /\ \A j \in DOMAIN challenges :
                 challenges'[j] = [challenges[j] EXCEPT !.consumed = TRUE]
<1> DEFINE i == NewCode
<1>1. RowTypes /\ i \in Codes \ DOMAIN challenges
  BY TypesAre, NewCodeIs DEF Issue
<1>2. /\ challenges' = Issued(i)
      /\ UNCHANGED <<enabled, password, sessions, mailed, screens, history>>
      /\ requests' = [requests EXCEPT ![b].stage = "mail", ![b].challenge = i]
  BY DEF Issue
<1> HIDE DEF i
<1>3. Reaches(b, "mail", i)
  <2>1. requests' = [requests EXCEPT ![b].challenge = i, ![b].stage = "mail"]
    BY <1>2, TypesAre DEF RequestRow
  <2> QED
    BY <1>1, <2>1, Challenged DEF Stages
<1>4. /\ DOMAIN challenges' = DOMAIN challenges \cup {i}
      /\ challenges'[i] = [failedAttempts |-> 0, consumed |-> FALSE, expired |-> FALSE]
      /\ \A j \in DOMAIN challenges :
            challenges'[j] = [challenges[j] EXCEPT !.consumed = TRUE]
  BY <1>1, <1>2 DEF Issued
<1>5. \A j \in DOMAIN challenges' : challenges'[j] \in ChallengeRow
  <2>1. challenges'[i] \in ChallengeRow
    BY <1>4, RecoveryAssumption DEF ChallengeRow
  <2>2. ASSUME NEW j \in DOMAIN challenges PROVE challenges'[j] \in ChallengeRow
    BY <1>1, <1>4 DEF RowTypes, ChallengeRow
  <2> QED
    BY <1>4, <2>1, <2>2
<1>6. RowTypes'
  BY <1>1, <1>2, <1>4, <1>5 DEF RowTypes, history
<1>7. RequestSound(b)'
  <2>1. RequestSound(b) /\ Stage(b) = "issue"
    BY DEF RecoveryTypes, Issue
  <2> QED
    BY <1>3, <1>4, <2>1 DEF Reaches, RequestSound
<1>8. RecoveryTypes'
  BY <1>2, <1>3, <1>4, <1>6, <1>7, ServedTypes
<1> QED
  BY <1>1, <1>2, <1>3, <1>4, <1>8 DEF i

LEMMA MailTypes ==
    ASSUME RecoveryTypes, NEW b \in Browsers, Mail(b)
    PROVE  /\ RecoveryTypes' /\ Reaches(b, "answered", Challenge(b))
           /\ UNCHANGED <<enabled, password, challenges, sessions, screens, history>>
<1>1. /\ UNCHANGED <<enabled, password, challenges, sessions, screens, history>>
      /\ mailed' = mailed \cup {Challenge(b)}
      /\ Challenge(b) \in DOMAIN challenges
  BY DEF Mail, RecoveryTypes, RequestSound
<1>2. Reaches(b, "answered", Challenge(b))
  BY Replies DEF Mail
<1>3. RowTypes'
  BY <1>1, TypesAre DEF RowTypes, history
<1>4. RequestSound(b)'
  BY <1>2 DEF Reaches, RequestSound
<1> QED
  BY <1>1, <1>2, <1>3, <1>4, ServedTypes

LEMMA FindTypes ==
    ASSUME RecoveryTypes, NEW b \in Browsers, NEW i \in Codes, Find(b, i)
    PROVE  /\ RecoveryTypes'
           /\ Reaches(b, IF Code(b) = i THEN "password" ELSE "count", i)
           /\ UNCHANGED <<rows, screens, written, outcome, wrong>>
<1> DEFINE st == IF Code(b) = i THEN "password" ELSE "count"
<1>1. /\ UNCHANGED <<rows, screens, written, outcome, wrong>>
      /\ contested' \subseteq contested \cup {i} /\ crowded' \subseteq crowded \cup {i}
      /\ i \in DOMAIN challenges
  BY DEF Find, Met, Active, Open
<1>2. Reaches(b, st, i)
  <2>1. st \in Stages /\ After("code") = "password"
    BY DEF Stages, After
  <2>2. requests' = [requests EXCEPT ![b].challenge = i, ![b].stage = st]
    BY <2>1 DEF Find
  <2> HIDE DEF st
  <2> QED
    BY <2>1, <2>2, Challenged
<1>3. RowTypes'
  BY <1>1, TypesAre DEF RowTypes, rows
<1>4. RequestSound(b)'
  <2>1. RequestSound(b) /\ Stage(b) = "find"
    BY DEF RecoveryTypes, Find
  <2> QED
    BY <1>1, <1>2, <2>1 DEF Reaches, RequestSound, rows
<1>5. RecoveryTypes'
  <2> HIDE DEF st
  <2>1. DOMAIN challenges \subseteq DOMAIN challenges' /\ UNCHANGED screens
    BY <1>1 DEF rows
  <2> QED
    BY <1>2, <1>3, <1>4, <2>1, ServedTypes
<1> QED
  BY <1>1, <1>2, <1>5

LEMMA RecordFailureTypes ==
    ASSUME RecoveryTypes, NEW b \in Browsers, RecordFailure(b)
    PROVE  /\ RecoveryTypes' /\ Reaches(b, "answered", Challenge(b))
           /\ UNCHANGED <<enabled, password, sessions, mailed, screens, written, contested,
                          outcome, crowded>>
           /\ DOMAIN challenges' = DOMAIN challenges
           /\ \A j \in DOMAIN challenges \ {Challenge(b)} : challenges'[j] = challenges[j]
           /\ challenges'[Challenge(b)] = [challenges[Challenge(b)] EXCEPT !.failedAttempts =
                 IF Exhausted(Challenge(b)) THEN MaximumAttempts ELSE @ + 1]
           /\ wrong' = [wrong EXCEPT ![Challenge(b)] = @ + 1]
<1> DEFINE i == Challenge(b)
           x == [challenges[i] EXCEPT !.failedAttempts =
                    IF Exhausted(i) THEN MaximumAttempts ELSE @ + 1]
<1>1. /\ UNCHANGED <<enabled, password, sessions, mailed, screens, written, contested,
                     outcome, crowded>>
      /\ challenges' = [challenges EXCEPT ![i] = x]
      /\ wrong' = [wrong EXCEPT ![i] = @ + 1]
      /\ Reply(b, "failed") /\ Stage(b) = "count"
  BY DEF RecordFailure, FailureRecorded
<1>2. RowTypes /\ i \in DOMAIN challenges /\ i \in Codes /\ challenges[i] \in ChallengeRow
  BY <1>1, TypesAre, ResetOf
<1>3. x \in ChallengeRow
  BY <1>2, RecoveryAssumption DEF ChallengeRow, Exhausted
<1>4. /\ DOMAIN challenges' = DOMAIN challenges /\ challenges'[i] = x
      /\ \A j \in DOMAIN challenges \ {i} : challenges'[j] = challenges[j]
      /\ \A j \in DOMAIN challenges' : challenges'[j] \in ChallengeRow
  <2> HIDE DEF x, i
  <2> QED
    BY <1>1, <1>2, <1>3, ChallengesKept
<1>5. wrong' \in [Codes -> Nat]
  BY <1>1, <1>2 DEF RowTypes
<1>6. RowTypes'
  BY <1>1, <1>2, <1>4, <1>5 DEF RowTypes
<1>7. Reaches(b, "answered", i)
  BY <1>1, Replies
<1>8. RequestSound(b)'
  BY <1>7 DEF Reaches, RequestSound
<1>9. RecoveryTypes'
  <2> HIDE DEF i, x
  <2> QED
    BY <1>1, <1>4, <1>6, <1>7, <1>8, ServedTypes
<1> QED
  BY <1>1, <1>4, <1>7, <1>9

\* The stages a write of a reset leads to.
LEMMA Proceeds ==
    ASSUME RecoveryTypes, NEW b \in Browsers, Password(b) \in Passwords,
           NEW stage \in {"password", "consume", "revoke"}, Proceed(b, stage)
    PROVE  /\ stage = "password" => Reaches(b, "consume", Challenge(b))
           /\ stage = "consume" => Reaches(b, "revoke", Challenge(b))
           /\ stage = "revoke" => Reaches(b, "answered", Challenge(b))
           /\ outcome' = [outcome EXCEPT ![Password(b)] =
                             IF stage = "revoke" THEN "accepted" ELSE "running"]
           /\ outcome' \in [Passwords -> Outcomes]
<1>1. After("password") = "consume" /\ After("consume") = "revoke" /\ After("revoke") = "end"
  BY DEF After
<1>2. outcome' = [outcome EXCEPT ![Password(b)] =
                     IF stage = "revoke" THEN "accepted" ELSE "running"]
  BY <1>1 DEF Proceed
<1>3. outcome' \in [Passwords -> Outcomes]
  BY <1>2, TypesAre DEF RowTypes, Outcomes
<1>4. CASE stage = "revoke"
  <2>1. Reply(b, "accepted")
    BY <1>1, <1>4 DEF Proceed
  <2> QED
    BY <1>2, <1>3, <1>4, <2>1, Replies
<1>5. CASE stage = "password"
  <2>1. MoveOn(b, "consume") /\ "consume" \in Stages
    BY <1>1, <1>5 DEF Proceed, Stages
  <2> QED
    BY <1>2, <1>3, <1>5, <2>1, MovesOn
<1>6. CASE stage = "consume"
  <2>1. MoveOn(b, "revoke") /\ "revoke" \in Stages
    BY <1>1, <1>6 DEF Proceed, Stages
  <2> QED
    BY <1>2, <1>3, <1>6, <2>1, MovesOn
<1> QED
  BY <1>4, <1>5, <1>6

LEMMA UpdatePasswordTypes ==
    ASSUME RecoveryTypes, NEW b \in Browsers, UpdatePassword(b)
    PROVE  /\ RecoveryTypes' /\ Reaches(b, "consume", Challenge(b))
           /\ UNCHANGED <<enabled, challenges, sessions, mailed, screens, contested, wrong, crowded>>
           /\ password' = Password(b)
           /\ written' = [written EXCEPT ![Challenge(b)] = @ \cup {Password(b)}]
           /\ outcome' = [outcome EXCEPT ![Password(b)] = "running"]
<1>1. /\ UNCHANGED <<enabled, challenges, sessions, mailed, screens, contested, wrong, crowded>>
      /\ password' = Password(b)
      /\ written' = [written EXCEPT ![Challenge(b)] = @ \cup {Password(b)}]
      /\ Proceed(b, "password") /\ Stage(b) = "password"
  BY DEF UpdatePassword
<1>2. RequestSound(b) /\ requests[b].kind = "reset" /\ Challenge(b) \in DOMAIN challenges
      /\ Challenge(b) \in Codes /\ Password(b) \in Passwords
  BY <1>1, ResetOf
<1>3. /\ Reaches(b, "consume", Challenge(b))
      /\ outcome' = [outcome EXCEPT ![Password(b)] = "running"]
      /\ outcome' \in [Passwords -> Outcomes]
  BY <1>1, <1>2, Proceeds
<1>4. written' \in [Codes -> SUBSET Passwords]
  BY <1>1, <1>2, TypesAre DEF RowTypes
<1>5. RowTypes'
  BY <1>1, <1>2, <1>3, <1>4, TypesAre DEF RowTypes
<1>6. RequestSound(b)'
  BY <1>1, <1>2, <1>3 DEF Reaches, RequestSound
<1>7. RecoveryTypes'
  BY <1>1, <1>3, <1>5, <1>6, ServedTypes
<1> QED
  BY <1>1, <1>3, <1>7

\* A reset that ends early leaves no password but a cut one.
LEMMA CutLeaves ==
    ASSUME RecoveryTypes, NEW b \in Browsers, Password(b) \in Passwords, Cut(b)
    PROVE  /\ Reaches(b, "answered", Challenge(b))
           /\ outcome' \in [Passwords -> Outcomes]
           /\ \A p \in Passwords : outcome'[p] \in {outcome[p], "cut"}
<1>1. outcome \in [Passwords -> Outcomes]
  BY TypesAre DEF RowTypes
<1>2. outcome' = outcome \/ outcome' = [outcome EXCEPT ![Password(b)] = "cut"]
  BY DEF Cut
<1>3. outcome' \in [Passwords -> Outcomes] /\ \A p \in Passwords : outcome'[p] \in {outcome[p], "cut"}
  BY <1>1, <1>2 DEF Outcomes
<1>4. Reply(b, "failed")
  BY DEF Cut
<1> QED
  BY <1>3, <1>4, Replies

\* The row that a reset consumes: `used` says that it could be.
LEMMA ConsumeTypes ==
    ASSUME RecoveryTypes, NEW b \in Browsers, Consume(b)
    PROVE  /\ RecoveryTypes'
           /\ UNCHANGED <<enabled, password, sessions, mailed, screens, written, contested,
                          wrong, crowded>>
           /\ DOMAIN challenges' = DOMAIN challenges
           /\ \A j \in DOMAIN challenges :
                 /\ challenges'[j].failedAttempts = challenges[j].failedAttempts
                 /\ challenges[j].consumed => challenges'[j].consumed
           /\ Challenge(b) \in DOMAIN challenges
           /\ challenges'[Challenge(b)].consumed \/ Exhausted(Challenge(b))
           /\ \A p \in Passwords : outcome'[p] \in {outcome[p], "running", "cut"}
           /\ Reaches(b, "answered", Challenge(b)) \/ Reaches(b, "revoke", Challenge(b))
<1> DEFINE i == Challenge(b)
           x == [challenges[i] EXCEPT !.consumed = TRUE]
<1>1. /\ UNCHANGED <<enabled, password, sessions, mailed, screens, written, contested,
                     wrong, crowded>>
      /\ Stage(b) = "consume"
  BY DEF Consume
<1>2. /\ RequestSound(b) /\ requests[b].kind = "reset" /\ i \in DOMAIN challenges /\ i \in Codes
      /\ challenges[i] \in ChallengeRow /\ Password(b) \in Passwords /\ RowTypes
  BY <1>1, ResetOf, TypesAre
<1>3. CASE Open(i) /\ ~Exhausted(i)
  <2>1. challenges' = [challenges EXCEPT ![i] = x] /\ Proceed(b, "consume")
    BY <1>3 DEF Consume
  <2>2. x \in ChallengeRow /\ x.consumed = TRUE /\ x.failedAttempts = challenges[i].failedAttempts
    BY <1>2 DEF ChallengeRow
  <2> HIDE DEF i, x
  <2>3. /\ DOMAIN challenges' = DOMAIN challenges /\ challenges'[i] = x
        /\ \A j \in DOMAIN challenges \ {i} : challenges'[j] = challenges[j]
        /\ \A j \in DOMAIN challenges' : challenges'[j] \in ChallengeRow
    BY <1>2, <2>1, <2>2, ChallengesKept
  <2>4. /\ Reaches(b, "revoke", i)
        /\ outcome' = [outcome EXCEPT ![Password(b)] = "running"]
        /\ outcome' \in [Passwords -> Outcomes]
    BY <1>2, <2>1, Proceeds DEF i
  <2>5. RowTypes'
    BY <1>1, <1>2, <2>3, <2>4 DEF RowTypes
  <2>6. RequestSound(b)'
    BY <1>1, <1>2, <2>3, <2>4 DEF Reaches, RequestSound, i
  <2>7. RecoveryTypes'
    BY <1>1, <2>3, <2>4, <2>5, <2>6, ServedTypes
  <2>8. \A p \in Passwords : outcome'[p] \in {outcome[p], "running", "cut"}
    BY <1>2, <2>4 DEF RowTypes
  <2>9. \A j \in DOMAIN challenges :
           /\ challenges'[j].failedAttempts = challenges[j].failedAttempts
           /\ challenges[j].consumed => challenges'[j].consumed
    BY <2>2, <2>3
  <2> QED
    BY <1>1, <1>2, <2>2, <2>3, <2>4, <2>7, <2>8, <2>9 DEF i
<1>4. CASE ~(Open(i) /\ ~Exhausted(i))
  <2>1. UNCHANGED challenges /\ Cut(b)
    BY <1>4 DEF Consume
  <2>2. challenges[i].consumed \/ Exhausted(i)
    BY <1>2, <1>4 DEF Open
  <2>3. /\ Reaches(b, "answered", i) /\ outcome' \in [Passwords -> Outcomes]
        /\ \A p \in Passwords : outcome'[p] \in {outcome[p], "cut"}
    BY <1>2, <2>1, CutLeaves
  <2>4. RowTypes'
    BY <1>1, <1>2, <2>1, <2>3 DEF RowTypes
  <2>5. RequestSound(b)'
    BY <2>3 DEF Reaches, RequestSound
  <2>6. RecoveryTypes'
    BY <1>1, <2>1, <2>3, <2>4, <2>5, ServedTypes
  <2> QED
    BY <1>1, <1>2, <2>1, <2>2, <2>3, <2>6
<1> QED
  BY <1>3, <1>4

LEMMA RevokeTypes ==
    ASSUME RecoveryTypes, NEW b \in Browsers, RevokeSessions(b)
    PROVE  /\ RecoveryTypes' /\ Reaches(b, "answered", Challenge(b))
           /\ UNCHANGED <<enabled, password, challenges, mailed, screens,
                          written, contested, wrong, crowded>>
           /\ \A s \in DOMAIN sessions' : sessions'[s].revoked
           /\ \A p \in Passwords : outcome'[p] \in {outcome[p], "accepted"}
<1>1. /\ UNCHANGED <<enabled, password, challenges, mailed, screens,
                     written, contested, wrong, crowded>>
      /\ sessions' = [s \in DOMAIN sessions |-> [sessions[s] EXCEPT !.revoked = TRUE]]
      /\ Proceed(b, "revoke") /\ Stage(b) = "revoke"
  BY DEF RevokeSessions
<1>2. Password(b) \in Passwords /\ RowTypes
  BY <1>1, ResetOf, TypesAre
<1>3. /\ Reaches(b, "answered", Challenge(b))
      /\ outcome' = [outcome EXCEPT ![Password(b)] = "accepted"]
      /\ outcome' \in [Passwords -> Outcomes]
  BY <1>1, <1>2, Proceeds
<1>4. /\ DOMAIN sessions' = DOMAIN sessions
      /\ \A s \in DOMAIN sessions' : sessions'[s] \in SessionRow /\ sessions'[s].revoked
  BY <1>1, <1>2 DEF RowTypes, SessionRow
<1>5. RowTypes'
  BY <1>1, <1>2, <1>3, <1>4 DEF RowTypes
<1>6. RequestSound(b)'
  BY <1>3 DEF Reaches, RequestSound
<1>7. RecoveryTypes'
  BY <1>1, <1>3, <1>5, <1>6, ServedTypes
<1>8. \A p \in Passwords : outcome'[p] \in {outcome[p], "accepted"}
  BY <1>2, <1>3 DEF RowTypes
<1> QED
  BY <1>1, <1>3, <1>4, <1>7, <1>8

LEMMA CreateSessionTypes ==
    ASSUME RecoveryTypes, NEW b \in Browsers, CreateSession(b)
    PROVE  /\ RecoveryTypes' /\ Reaches(b, "answered", Challenge(b))
           /\ UNCHANGED <<enabled, password, challenges, mailed, screens, history>>
           /\ \A s \in DOMAIN sessions' :
                 \/ s \in DOMAIN sessions /\ sessions'[s] = sessions[s]
                 \/ sessions'[s].password = password \/ sessions'[s].late
<1> DEFINE n == NewSession
           x == [password |-> Password(b), revoked |-> FALSE, late |-> Password(b) # password]
<1>1. /\ UNCHANGED <<enabled, password, challenges, mailed, screens, history>>
      /\ sessions' = [s \in DOMAIN sessions \cup {n} |-> IF s = n THEN x ELSE sessions[s]]
      /\ Reply(b, "accepted") /\ Stage(b) = "create" /\ DOMAIN sessions # SessionIds
  BY DEF CreateSession
<1>2. RowTypes /\ Password(b) \in Passwords
  BY <1>1, TypesAre DEF RecoveryTypes, RequestSound
<1>3. n \in SessionIds
  BY <1>1, <1>2 DEF RowTypes, NewSession
<1>4. x \in SessionRow /\ (x.password = password \/ x.late)
  BY <1>2 DEF SessionRow
<1> HIDE DEF n, x
<1>5. /\ DOMAIN sessions' = DOMAIN sessions \cup {n}
      /\ \A s \in DOMAIN sessions' :
            \/ s = n /\ sessions'[s] = x
            \/ s \in DOMAIN sessions /\ sessions'[s] = sessions[s]
  BY <1>1
<1>6. DOMAIN sessions' \subseteq SessionIds /\ \A s \in DOMAIN sessions' : sessions'[s] \in SessionRow
  BY <1>2, <1>3, <1>4, <1>5 DEF RowTypes
<1>7. RowTypes'
  BY <1>1, <1>2, <1>6 DEF RowTypes, history
<1>8. Reaches(b, "answered", Challenge(b))
  BY <1>1, Replies
<1>9. RequestSound(b)'
  BY <1>8 DEF Reaches, RequestSound
<1>10. RecoveryTypes'
  BY <1>1, <1>7, <1>8, <1>9, ServedTypes
<1> QED
  BY <1>1, <1>4, <1>5, <1>8, <1>10

LEMMA FailsTypes ==
    ASSUME RecoveryTypes, NEW b \in Browsers, RequestFails(b)
    PROVE  /\ RecoveryTypes' /\ Reaches(b, "answered", Challenge(b))
           /\ UNCHANGED <<rows, screens, written, wrong, crowded>>
           /\ contested \subseteq contested'
           /\ Stage(b) = "consume" => Challenge(b) \in contested'
           /\ \A p \in Passwords : outcome'[p] \in {outcome[p], "cut"}
<1>1. /\ UNCHANGED <<rows, screens, written, wrong, crowded>>
      /\ contested' = IF Stage(b) \in {"consume", "revoke"}
                      THEN contested \cup {Challenge(b)} ELSE contested
      /\ Stage(b) \notin {"idle", "answered"}
  BY DEF RequestFails
<1>2. RowTypes /\ RequestSound(b)
  BY TypesAre DEF RecoveryTypes
<1>3. \/ requests[b].kind = "reset" /\ Cut(b)
      \/ (\E reply \in {"accepted", "failed"} : Reply(b, reply)) /\ outcome' = outcome
  BY DEF RequestFails
<1>4. /\ Reaches(b, "answered", Challenge(b)) /\ outcome' \in [Passwords -> Outcomes]
      /\ \A p \in Passwords : outcome'[p] \in {outcome[p], "cut"}
  <2>1. CASE requests[b].kind = "reset" /\ Cut(b)
    <3>1. Password(b) \in Passwords
      BY <1>1, <1>2, <2>1 DEF RequestSound
    <3> QED
      BY <2>1, <3>1, CutLeaves
  <2>2. CASE (\E reply \in {"accepted", "failed"} : Reply(b, reply)) /\ outcome' = outcome
    BY <1>2, <2>2, Replies DEF RowTypes
  <2> QED
    BY <1>3, <2>1, <2>2
<1>5. contested' \subseteq Codes
  BY <1>1, <1>2, ResetOf DEF RowTypes
<1>6. RowTypes'
  BY <1>1, <1>2, <1>4, <1>5 DEF RowTypes, rows
<1>7. RequestSound(b)'
  BY <1>4 DEF Reaches, RequestSound
<1>8. RecoveryTypes'
  <2>1. DOMAIN challenges \subseteq DOMAIN challenges' /\ UNCHANGED screens
    BY <1>1 DEF rows
  <2> QED
    BY <1>4, <1>6, <1>7, <2>1, ServedTypes
<1> QED
  BY <1>1, <1>4, <1>8

-----------------------------------------------------------------------------
(* The steps of the screens keep the types, and the screens right *)

\* A request that is not a reset under way is sound wherever the rows stand.
LEMMA ScreensTypes ==
    ASSUME RecoveryTypes, NEW b \in Browsers, UNCHANGED <<rows, history>>,
           requests' \in [Browsers -> RequestRow],
           \A c \in Browsers \ {b} : requests'[c] = requests[c],
           \/ requests'[b] = requests[b]
           \/ Stage(b)' = "idle"
           \/ Stage(b)' = "account" /\ (requests'[b].kind = "ask" \/ Password(b)' \in Passwords),
           screens' \in [Browsers -> ScreenRow]
    PROVE  RecoveryTypes'
<1>1. RowTypes'
  BY TypesAre, RowsSame
<1>2. ASSUME NEW c \in Browsers PROVE RequestSound(c)'
  <2>1. RequestSound(c) /\ UNCHANGED challenges
    BY DEF RecoveryTypes, rows
  <2>2. \/ requests'[c] = requests[c]
        \/ Stage(c)' = "idle"
        \/ Stage(c)' = "account" /\ (requests'[c].kind = "ask" \/ Password(c)' \in Passwords)
    OBVIOUS
  <2> QED
    BY <2>1, <2>2 DEF RequestSound, Stage, Challenge, Password
<1>3. \A c \in Browsers : screens'[c].route \in Routes
  BY DEF ScreenRow
<1>4. \A c \in Browsers : RequestSound(c)'
  BY <1>2
<1> QED
  BY <1>1, <1>3, <1>4
     DEF RecoveryTypes, RowTypes, RecoveryTypeOK, ChallengeRow, SessionRow, RequestRow

\* One browser shows something else.
LEMMA Shown ==
    ASSUME screens \in [Browsers -> ScreenRow], NEW b \in Browsers, NEW s \in ScreenRow,
           Show(b, s)
    PROVE  /\ screens' \in [Browsers -> ScreenRow] /\ screens'[b] = s
           /\ \A c \in Browsers \ {b} : screens'[c] = screens[c]
BY DEF Show

\* The events of the recovery as they change a screen.
LEMMA Transitions ==
    ASSUME NEW s \in ScreenRow, NEW i \in Codes \cup {None}
    PROVE  /\ Transition(s, "ForgotRequested", i)
                = [s EXCEPT !.screen = "forgot", !.email = LoginEmail, !.code = None]
           /\ s.screen = "forgot" =>
                 Transition(s, "CodeRequested", i) = [s EXCEPT !.screen = "code"]
           /\ s.screen # "forgot" => Transition(s, "CodeRequested", i) = s
           /\ s.screen = "code" => Transition(s, "CodeAccepted", i)
                = [s EXCEPT !.screen = "new-password", !.code = i]
           /\ s.screen # "code" => Transition(s, "CodeAccepted", i) = s
           /\ s.screen = "new-password" => Transition(s, "PasswordReset", i)
                = [s EXCEPT !.screen = "done", !.code = None]
           /\ s.screen # "new-password" => Transition(s, "PasswordReset", i) = s
           /\ Transition(s, "BackToLogin", i) = [s EXCEPT !.screen = "login", !.code = None]
BY DEF Transition

\* A screen whose state was dropped.
LEMMA DroppedScreen ==
    ASSUME NEW s \in ScreenRow
    PROVE  /\ Dropped(s) = [s EXCEPT !.screen = "login", !.email = "", !.code = None,
                                     !.dropped = TRUE]
           /\ Dropped(s) \in ScreenRow
           /\ RightScreen(s) => RightScreen(Dropped(s))
<1>1. Dropped(s) = [s EXCEPT !.screen = "login", !.email = "", !.code = None, !.dropped = TRUE]
  BY DEF Dropped, FirstScreen
<1>2. Dropped(s) \in ScreenRow
  BY <1>1 DEF ScreenRow
<1>3. /\ Dropped(s).dropped /\ Dropped(s).strayed = s.strayed
      /\ Dropped(s).route = s.route /\ Dropped(s).waiting = s.waiting
  BY <1>1 DEF ScreenRow
<1> QED
  BY <1>1, <1>2, <1>3 DEF RightScreen

\* A step of a browser: the rows stay, its request is idle, new or the same,
\* and it shows a right screen.
Browsed(b) ==
    /\ RecoveryTypes' /\ UNCHANGED <<rows, history>>
    /\ \A c \in Browsers \ {b} : requests'[c] = requests[c] /\ screens'[c] = screens[c]
    /\ requests'[b] = requests[b] \/ Stage(b)' \in {"idle", "account"}
    /\ ScreenSound(b)'

\* A step that shows something else and touches no request.
LEMMA LocalBrowses ==
    ASSUME RecoveryTypes, NEW b \in Browsers, NEW s \in ScreenRow, RightScreen(s),
           Show(b, s), UNCHANGED <<rows, requests, history>>
    PROVE  Browsed(b)
<1>1. screens \in [Browsers -> ScreenRow] /\ requests \in [Browsers -> RequestRow]
  BY TypesAre
<1>2. /\ screens' \in [Browsers -> ScreenRow] /\ screens'[b] = s
      /\ \A c \in Browsers \ {b} : screens'[c] = screens[c]
  BY <1>1, Shown
<1>3. RecoveryTypes'
  BY <1>1, <1>2, ScreensTypes
<1> QED
  BY <1>2, <1>3 DEF Browsed, ScreenSound, RightScreen

\* A command that is sent, from a right screen that is not waiting.
LEMMA SendBrowses ==
    ASSUME RecoveryTypes, NEW b \in Browsers, ScreenSound(b),
           NEW command \in {"no", "login", "submit", "resend", "reset"}, NEW kind \in Kinds,
           NEW code \in Codes \cup {None}, NEW p \in Passwords \cup {None},
           kind = "ask" \/ p \in Passwords,
           command = "submit" => screens[b].route = "recovery",
           command = "reset" => screens[b].route = "new-password",
           SendRequest(b, command, kind, code, p)
    PROVE  Browsed(b)
<1> DEFINE x == [NoRequest EXCEPT !.stage = "account", !.kind = kind, !.code = code, !.password = p]
           s == [screens[b] EXCEPT !.waiting = command]
<1>1. screens \in [Browsers -> ScreenRow] /\ requests \in [Browsers -> RequestRow]
  BY TypesAre
<1>2. /\ requests' = [requests EXCEPT ![b] = x] /\ Show(b, s)
      /\ UNCHANGED <<rows, history>>
  BY DEF SendRequest
<1>3. x \in RequestRow /\ x.stage = "account" /\ x.kind = kind /\ x.password = p
  BY DEF NoRequest, RequestRow, Stages, Kinds
<1>4. screens[b] \in ScreenRow
  BY <1>1
<1>5. s \in ScreenRow /\ s.waiting = command /\ s.route = screens[b].route
      /\ s.screen = screens[b].screen /\ s.strayed = screens[b].strayed
      /\ s.dropped = screens[b].dropped
  BY <1>4 DEF ScreenRow
<1> HIDE DEF x, s
<1>6. /\ requests' \in [Browsers -> RequestRow] /\ requests'[b] = x
      /\ \A c \in Browsers \ {b} : requests'[c] = requests[c]
  BY <1>1, <1>2, <1>3, Replaced
<1>7. /\ screens' \in [Browsers -> ScreenRow] /\ screens'[b] = s
      /\ \A c \in Browsers \ {b} : screens'[c] = screens[c]
  BY <1>1, <1>2, <1>5, Shown
<1>8. Stage(b)' = "account" /\ (requests'[b].kind = "ask" \/ Password(b)' \in Passwords)
  BY <1>3, <1>6 DEF Stage, Password
<1>9. RecoveryTypes'
  BY <1>2, <1>6, <1>7, <1>8, ScreensTypes
<1>10. ScreenSound(b)'
  BY <1>5, <1>7 DEF ScreenSound, RightScreen
<1> QED
  BY <1>2, <1>6, <1>7, <1>8, <1>9, <1>10 DEF Browsed

\* A browser that does nothing.
LEMMA StillBrowses ==
    ASSUME RecoveryTypes, NEW b \in Browsers, ScreenSound(b), UNCHANGED recoveryVars
    PROVE  Browsed(b)
<1>1. screens[b] \in ScreenRow /\ RightScreen(screens[b]) /\ Show(b, screens[b])
      /\ UNCHANGED <<rows, requests, history>>
  BY TypesAre DEF recoveryVars, Show, ScreenSound, RightScreen
<1> QED
  BY <1>1, LocalBrowses

LEMMA DeliverBrowses ==
    ASSUME RecoveryTypes, NEW b \in Browsers, ScreenSound(b), Deliver(b)
    PROVE  Browsed(b)
<1> DEFINE old == screens[b]
           s == [old EXCEPT !.waiting = "no"]
           coded == [Transition(s, "CodeRequested", None) EXCEPT !.route = "code"]
           done == [Transition(s, "PasswordReset", None) EXCEPT !.route = "done"]
<1>1. screens \in [Browsers -> ScreenRow] /\ requests \in [Browsers -> RequestRow]
  BY TypesAre
<1>2. /\ requests' = [requests EXCEPT ![b] = NoRequest] /\ UNCHANGED <<rows, history>>
  BY DEF Deliver
<1>3. \/ Show(b, s) \/ Show(b, [s EXCEPT !.route = "app"])
      \/ old.waiting = "submit" /\ Show(b, coded)
      \/ old.waiting = "reset" /\ Show(b, done)
  BY <1>1 DEF Deliver, ScreenRow
<1>4. old \in ScreenRow /\ RightScreen(old)
  BY <1>1 DEF ScreenSound
<1> HIDE DEF old
<1>5. s \in ScreenRow /\ s.waiting = "no" /\ s.route = old.route
      /\ s.screen = old.screen /\ s.strayed = old.strayed /\ s.dropped = old.dropped
  BY <1>4 DEF ScreenRow
<1>6. RightScreen(s)
  BY <1>4, <1>5 DEF RightScreen
<1> HIDE DEF s
<1>7. [s EXCEPT !.route = "app"] \in ScreenRow /\ RightScreen([s EXCEPT !.route = "app"])
  <2>1. [s EXCEPT !.route = "app"] \in ScreenRow
    BY <1>5 DEF ScreenRow, Routes
  <2>2. [s EXCEPT !.route = "app"].route = "app" /\ [s EXCEPT !.route = "app"].waiting = "no"
    BY <1>5 DEF ScreenRow
  <2> QED
    BY <2>1, <2>2 DEF RightScreen
<1>8. ASSUME old.waiting = "submit" PROVE coded \in ScreenRow /\ RightScreen(coded)
  <2>1. CASE s.screen = "forgot"
    <3>1. coded = [s EXCEPT !.screen = "code", !.route = "code"]
      BY <1>5, <2>1, Transitions DEF ScreenRow
    <3>2. coded \in ScreenRow /\ coded.screen = "code" /\ coded.route = "code"
          /\ coded.waiting = "no"
      BY <1>5, <3>1 DEF ScreenRow, Routes
    <3> QED
      BY <3>2 DEF RightScreen, PageOf
  <2>2. CASE s.screen # "forgot"
    <3>1. coded = [s EXCEPT !.route = "code"]
      BY <1>5, <2>2, Transitions
    <3>2. s.strayed \/ s.dropped
      BY <1>4, <1>5, <1>8, <2>2 DEF RightScreen, PageOf, ScreenRow
    <3>3. coded \in ScreenRow /\ (coded.strayed \/ coded.dropped) /\ coded.waiting = "no"
      BY <1>5, <3>1, <3>2 DEF ScreenRow, Routes
    <3> QED
      BY <3>3 DEF RightScreen
  <2> QED
    BY <2>1, <2>2
<1>9. ASSUME old.waiting = "reset" PROVE done \in ScreenRow /\ RightScreen(done)
  <2>1. CASE s.screen = "new-password"
    <3>1. done = [s EXCEPT !.screen = "done", !.code = None, !.route = "done"]
      BY <1>5, <2>1, Transitions DEF ScreenRow
    <3>2. done \in ScreenRow /\ done.screen = "done" /\ done.route = "done"
          /\ done.waiting = "no"
      BY <1>5, <3>1 DEF ScreenRow, Routes
    <3> QED
      BY <3>2 DEF RightScreen, PageOf
  <2>2. CASE s.screen # "new-password"
    <3>1. done = [s EXCEPT !.route = "done"]
      BY <1>5, <2>2, Transitions
    <3>2. s.strayed \/ s.dropped
      BY <1>4, <1>5, <1>9, <2>2 DEF RightScreen, PageOf, ScreenRow
    <3>3. done \in ScreenRow /\ (done.strayed \/ done.dropped) /\ done.waiting = "no"
      BY <1>5, <3>1, <3>2 DEF ScreenRow, Routes
    <3> QED
      BY <3>3 DEF RightScreen
  <2> QED
    BY <2>1, <2>2
<1>10. PICK n \in ScreenRow : Show(b, n) /\ RightScreen(n)
  BY <1>3, <1>5, <1>6, <1>7, <1>8, <1>9
<1>11. /\ screens' \in [Browsers -> ScreenRow] /\ screens'[b] = n
       /\ \A c \in Browsers \ {b} : screens'[c] = screens[c]
  BY <1>1, <1>10, Shown
<1>12. NoRequest \in RequestRow /\ NoRequest.stage = "idle"
  BY DEF NoRequest, RequestRow, Stages, Kinds
<1>13. /\ requests' \in [Browsers -> RequestRow] /\ requests'[b] = NoRequest
       /\ \A c \in Browsers \ {b} : requests'[c] = requests[c]
  BY <1>1, <1>2, <1>12, Replaced
<1>14. Stage(b)' = "idle"
  BY <1>12, <1>13 DEF Stage
<1>15. RecoveryTypes'
  BY <1>2, <1>11, <1>13, <1>14, ScreensTypes
<1>16. ScreenSound(b)'
  BY <1>10, <1>11 DEF ScreenSound, RightScreen
<1> QED
  BY <1>2, <1>11, <1>13, <1>14, <1>15, <1>16 DEF Browsed

LEMMA DropBrowses ==
    ASSUME RecoveryTypes, NEW b \in Browsers, ScreenSound(b), Drop(b)
    PROVE  Browsed(b)
<1>1. Show(b, Dropped(screens[b])) /\ UNCHANGED <<rows, requests, history>>
  BY DEF Drop, Local
<1>2. screens[b] \in ScreenRow /\ RightScreen(screens[b])
  BY TypesAre DEF ScreenSound
<1>3. Dropped(screens[b]) \in ScreenRow /\ RightScreen(Dropped(screens[b]))
  BY <1>2, DroppedScreen
<1> QED
  BY <1>1, <1>3, LocalBrowses

\* A page is left for one of the state it gets.
LEMMA LeftScreen ==
    ASSUME NEW s \in ScreenRow, NEW route \in Routes, PageOf(s.screen) = route,
           NEW waiting \in {"no", "login", "submit", "resend", "reset"}
    PROVE  /\ [Leave(s, waiting) EXCEPT !.route = route] \in ScreenRow
           /\ RightScreen([Leave(s, waiting) EXCEPT !.route = route])
<1> DEFINE n == [Leave(s, waiting) EXCEPT !.route = route]
<1>1. (waiting # "no") \in BOOLEAN
  OBVIOUS
<1>2. /\ n \in ScreenRow /\ n.screen = s.screen /\ n.route = route
      /\ n.waiting = waiting /\ n.strayed = (waiting # "no")
  BY <1>1 DEF Leave, ScreenRow
<1> HIDE DEF n
<1>3. RightScreen(n)
  BY <1>2 DEF RightScreen
<1> QED
  BY <1>2, <1>3 DEF n

LEMMA OpenRecoveryBrowses ==
    ASSUME RecoveryTypes, NEW b \in Browsers, ScreenSound(b), OpenRecovery(b)
    PROVE  Browsed(b)
<1>1. screens[b] \in ScreenRow
  BY TypesAre
<1>2. PICK t : t = Transition(screens[b], "ForgotRequested", None)
  OBVIOUS
<1>3. PICK waiting \in {"no", screens[b].waiting} :
         LET s == [Leave(t, waiting) EXCEPT !.route = "recovery"]
         IN  Local(b, s) \/ Local(b, Dropped(s))
  BY <1>2 DEF OpenRecovery
<1>4. waiting \in {"no", "login", "submit", "resend", "reset"}
  BY <1>1, <1>3 DEF ScreenRow
<1>5. t \in ScreenRow /\ t.screen = "forgot"
  <2>1. t = [screens[b] EXCEPT !.screen = "forgot", !.email = LoginEmail, !.code = None]
    BY <1>1, <1>2, Transitions
  <2> QED
    BY <1>1, <2>1 DEF ScreenRow, LoginEmail
<1>6. PICK s : s = [Leave(t, waiting) EXCEPT !.route = "recovery"]
  OBVIOUS
<1>7. s \in ScreenRow /\ RightScreen(s)
  BY <1>4, <1>5, <1>6, LeftScreen DEF PageOf, Routes
<1>8. Dropped(s) \in ScreenRow /\ RightScreen(Dropped(s))
  BY <1>7, DroppedScreen
<1>9. Local(b, s) \/ Local(b, Dropped(s))
  BY <1>3, <1>6
<1> QED
  BY <1>7, <1>8, <1>9, LocalBrowses DEF Local

LEMMA SubmitCodeBrowses ==
    ASSUME RecoveryTypes, NEW b \in Browsers, ScreenSound(b), NEW i \in Codes \cup {None},
           SubmitCode(b, i)
    PROVE  Browsed(b)
<1> DEFINE s == screens[b]
           n == [Transition(s, "CodeAccepted", i) EXCEPT !.route = "new-password"]
<1>1. /\ Show(b, n) /\ UNCHANGED <<rows, requests, history>>
      /\ s.waiting = "no" /\ s.route = "code"
  BY DEF SubmitCode, Local, Free
<1>2. s \in ScreenRow /\ RightScreen(s)
  BY TypesAre DEF ScreenSound
<1> HIDE DEF s
<1>3. n \in ScreenRow /\ RightScreen(n)
  <2>1. CASE s.screen = "code"
    <3>1. n = [s EXCEPT !.screen = "new-password", !.code = i, !.route = "new-password"]
      BY <1>2, <2>1, Transitions DEF ScreenRow
    <3>2. n \in ScreenRow /\ n.screen = "new-password" /\ n.route = "new-password"
          /\ n.waiting = "no"
      BY <1>1, <1>2, <3>1 DEF ScreenRow, Routes
    <3> QED
      BY <3>2 DEF RightScreen, PageOf
  <2>2. CASE s.screen # "code"
    <3>1. n = [s EXCEPT !.route = "new-password"]
      BY <1>2, <2>2, Transitions
    <3>2. s.strayed \/ s.dropped
      BY <1>1, <1>2, <2>2 DEF RightScreen, PageOf, ScreenRow
    <3>3. n \in ScreenRow /\ (n.strayed \/ n.dropped) /\ n.waiting = "no"
      BY <1>1, <1>2, <3>1, <3>2 DEF ScreenRow, Routes
    <3> QED
      BY <3>3 DEF RightScreen
  <2> QED
    BY <2>1, <2>2
<1> HIDE DEF n
<1> QED
  BY <1>1, <1>3, LocalBrowses

LEMMA BackToLoginBrowses ==
    ASSUME RecoveryTypes, NEW b \in Browsers, ScreenSound(b), BackToLogin(b)
    PROVE  Browsed(b)
<1>1. screens[b] \in ScreenRow
  BY TypesAre
<1>2. PICK t : t = Transition(screens[b], "BackToLogin", None)
  OBVIOUS
<1>3. PICK waiting \in {"no", screens[b].waiting} :
         Local(b, [Leave(t, waiting) EXCEPT !.route = "login"])
  BY <1>2 DEF BackToLogin
<1>4. waiting \in {"no", "login", "submit", "resend", "reset"}
  BY <1>1, <1>3 DEF ScreenRow
<1>5. t \in ScreenRow /\ t.screen = "login"
  <2>1. t = [screens[b] EXCEPT !.screen = "login", !.code = None]
    BY <1>1, <1>2, Transitions
  <2> QED
    BY <1>1, <2>1 DEF ScreenRow
<1>6. PICK s : s = [Leave(t, waiting) EXCEPT !.route = "login"]
  OBVIOUS
<1>7. s \in ScreenRow /\ RightScreen(s)
  BY <1>4, <1>5, <1>6, LeftScreen DEF PageOf, Routes
<1> QED
  BY <1>3, <1>6, <1>7, LocalBrowses DEF Local

\* A page that was strayed to is right whatever it is.
LEMMA StrayBrowses ==
    ASSUME RecoveryTypes, NEW b \in Browsers, NEW s \in ScreenRow, Stray(b, s)
    PROVE  Browsed(b)
<1> DEFINE n == [s EXCEPT !.strayed = TRUE]
<1>1. Show(b, n) /\ UNCHANGED <<rows, requests, history>>
  BY DEF Stray
<1>2. n \in ScreenRow /\ RightScreen(n)
  BY DEF ScreenRow, RightScreen
<1> HIDE DEF n
<1> QED
  BY <1>1, <1>2, LocalBrowses

\* Every step of a browser.
LEMMA BrowseKeeps ==
    ASSUME RecoveryTypes, NEW b \in Browsers, ScreenSound(b), Browse(b)
    PROVE  Browsed(b)
<1>1. screens[b] \in ScreenRow
  BY TypesAre
<1>2. ASSUME NEW p \in Passwords, Login(b, p) PROVE Browsed(b)
  <2>1. SendRequest(b, "login", "login", None, p)
    BY <1>2 DEF Login
  <2> QED
    BY <2>1, SendBrowses DEF Kinds
<1>3. ASSUME NEW p \in Passwords, SubmitPassword(b, p) PROVE Browsed(b)
  <2>1. \/ Local(b, [screens[b] EXCEPT !.route = "done"]) /\ screens[b].screen # "new-password"
        \/ UNCHANGED recoveryVars
        \/ SendRequest(b, "reset", "reset", screens[b].code, p)
    BY <1>3 DEF SubmitPassword, SendReset
  <2>2. CASE Local(b, [screens[b] EXCEPT !.route = "done"]) /\ screens[b].screen # "new-password"
    <3> DEFINE n == [screens[b] EXCEPT !.route = "done"]
    <3>1. Show(b, n) /\ UNCHANGED <<rows, requests, history>>
      BY <2>2 DEF Local
    <3>2. screens[b].waiting = "no" /\ (screens[b].strayed \/ screens[b].dropped)
      BY <1>1, <1>3, <2>2 DEF SubmitPassword, Free, ScreenSound, RightScreen, PageOf, ScreenRow
    <3>3. n \in ScreenRow /\ n.waiting = "no" /\ (n.strayed \/ n.dropped)
      BY <1>1, <3>2 DEF ScreenRow, Routes
    <3>4. RightScreen(n)
      BY <3>3 DEF RightScreen
    <3> HIDE DEF n
    <3> QED
      BY <3>1, <3>3, <3>4, LocalBrowses
  <2>3. CASE SendRequest(b, "reset", "reset", screens[b].code, p)
    <3>1. screens[b].code \in Codes \cup {None} /\ screens[b].route = "new-password"
      BY <1>1, <1>3 DEF ScreenRow, SubmitPassword, Free
    <3> QED
      BY <2>3, <3>1, SendBrowses DEF Kinds
  <2> QED
    BY <2>1, <2>2, <2>3, StillBrowses
<1>4. ASSUME SubmitEmail(b) PROVE Browsed(b)
  <2>1. SendRequest(b, "submit", "ask", None, None) /\ screens[b].route = "recovery"
    BY <1>4 DEF SubmitEmail, Free
  <2> QED
    BY <2>1, SendBrowses DEF Kinds
<1>5. ASSUME Resend(b) PROVE Browsed(b)
  <2>1. SendRequest(b, "resend", "ask", None, None) \/ UNCHANGED recoveryVars
    BY <1>5 DEF Resend
  <2> QED
    BY <2>1, SendBrowses, StillBrowses DEF Kinds
<1>6. ASSUME NEW i \in Codes \cup {None}, NEW p \in Passwords, Reset(b, i, p) PROVE Browsed(b)
  <2>1. SendRequest(b, "no", "reset", i, p)
    BY <1>6 DEF Reset, SendReset
  <2> QED
    BY <2>1, SendBrowses DEF Kinds
<1>7. ASSUME NEW route \in Routes, GoBack(b, route) PROVE Browsed(b)
  <2>1. PICK waiting \in {"no", screens[b].waiting} :
           Stray(b, [screens[b] EXCEPT !.route = route, !.waiting = waiting])
    BY <1>7 DEF GoBack
  <2>2. [screens[b] EXCEPT !.route = route, !.waiting = waiting] \in ScreenRow
    BY <1>1 DEF ScreenRow
  <2> QED
    BY <2>1, <2>2, StrayBrowses
<1>8. ASSUME Reload(b) PROVE Browsed(b)
  <2>1. Stray(b, [FirstScreen EXCEPT !.route = screens[b].route])
    BY <1>8 DEF Reload
  <2>2. [FirstScreen EXCEPT !.route = screens[b].route] \in ScreenRow
    BY <1>1 DEF ScreenRow, FirstScreen
  <2> QED
    BY <2>1, <2>2, StrayBrowses
<1> QED
  BY <1>2, <1>3, <1>4, <1>5, <1>6, <1>7, <1>8, DeliverBrowses, DropBrowses,
     OpenRecoveryBrowses, SubmitCodeBrowses, BackToLoginBrowses DEF Browse

-----------------------------------------------------------------------------
(* A code is used once, and its wrong codes are counted *)

Writing == {"password", "consume"}

\* The uses of a code stay counted when nobody starts or ends one.
LEMMA UsesKept ==
    ASSUME NEW i, UsesCounted(i), written'[i] = written[i],
           i \in contested => i \in contested',
           \A c \in Browsers :
               /\ At(c, i, {"password"})' <=> At(c, i, {"password"})
               /\ At(c, i, {"consume"})' <=> At(c, i, {"consume"}),
           Spent(i) => Spent(i)'
    PROVE  UsesCounted(i)'
<1>1. \A c \in Browsers : At(c, i, {"password", "consume"})' <=> At(c, i, {"password", "consume"})
  BY DEF At
<1> QED
  BY <1>1 DEF UsesCounted

\* The wrong codes of a challenge stay counted when nobody answers one.
LEMMA GuessesKept ==
    ASSUME NEW i \in Codes, GuessesCounted(i), wrong'[i] = wrong[i],
           i \in crowded => i \in crowded',
           \A c \in Browsers : At(c, i, {"count"})' => At(c, i, {"count"}),
           i \in DOMAIN challenges => /\ i \in DOMAIN challenges'
               /\ challenges'[i].failedAttempts = challenges[i].failedAttempts,
           i \in DOMAIN challenges' /\ i \notin DOMAIN challenges =>
               challenges'[i].failedAttempts = 0
    PROVE  GuessesCounted(i)'
<1>1. MaximumAttempts \in Nat \ {0}
  BY RecoveryAssumption
<1>2. \/ i \notin DOMAIN challenges /\ i \notin DOMAIN challenges'
      \/ i \in DOMAIN challenges /\ i \in DOMAIN challenges'
            /\ challenges'[i].failedAttempts = challenges[i].failedAttempts
      \/ i \notin DOMAIN challenges /\ i \in DOMAIN challenges'
            /\ challenges'[i].failedAttempts = 0 /\ wrong[i] = 0
  BY DEF GuessesCounted
<1> QED
  BY <1>1, <1>2 DEF GuessesCounted

\* A request that stays, or is not about to use or to count a code.
Quiet(c) ==
    \/ requests'[c] = requests[c]
    \/ Stage(c) \notin Writing /\ Stage(c)' \notin Writing \cup {"count"}

LEMMA QuietAt ==
    ASSUME NEW c \in Browsers, NEW i, Quiet(c)
    PROVE  /\ At(c, i, {"password"})' <=> At(c, i, {"password"})
           /\ At(c, i, {"consume"})' <=> At(c, i, {"consume"})
           /\ At(c, i, {"count"})' => At(c, i, {"count"})
BY DEF Quiet, At, Stage, Challenge, Writing

\* Challenges stay with their failures; new ones have none.
ChallengesGrow ==
    /\ \A i \in DOMAIN challenges :
          /\ i \in DOMAIN challenges'
          /\ challenges'[i].failedAttempts = challenges[i].failedAttempts
          /\ challenges[i].consumed => challenges'[i].consumed
    /\ \A i \in DOMAIN challenges' \ DOMAIN challenges : challenges'[i].failedAttempts = 0

LEMMA SpentStays ==
    ASSUME ChallengesGrow, NEW i, Spent(i)
    PROVE  Spent(i)'
BY DEF ChallengesGrow, Spent, Exhausted

CountsHold == \A i \in Codes : UsesCounted(i) /\ GuessesCounted(i)

\* A step that no reset with a code takes.
LEMMA Ordinary ==
    ASSUME CountsHold, \A c \in Browsers : Quiet(c), ChallengesGrow,
           UNCHANGED <<written, wrong, crowded>>, contested \subseteq contested'
    PROVE  CountsHold'
<1> SUFFICES ASSUME NEW i \in Codes PROVE UsesCounted(i)' /\ GuessesCounted(i)'
  BY DEF CountsHold
<1>1. UsesCounted(i) /\ GuessesCounted(i) /\ (Spent(i) => Spent(i)')
  BY SpentStays DEF CountsHold
<1>2. \A c \in Browsers :
         /\ At(c, i, {"password"})' <=> At(c, i, {"password"})
         /\ At(c, i, {"consume"})' <=> At(c, i, {"consume"})
         /\ At(c, i, {"count"})' => At(c, i, {"count"})
  BY QuietAt
<1>3. UsesCounted(i)'
  BY <1>1, <1>2, UsesKept
<1>4. GuessesCounted(i)'
  BY <1>1, <1>2, GuessesKept DEF ChallengesGrow
<1> QED
  BY <1>3, <1>4

\* Rows of challenges untouched.
LEMMA SameChallengesGrow ==
    ASSUME UNCHANGED challenges
    PROVE  ChallengesGrow
BY DEF ChallengesGrow

\* Request b goes on: the other ones are where they were.
LEMMA ReachesAt ==
    ASSUME NEW b \in Browsers, NEW stage, NEW k, Reaches(b, stage, k)
    PROVE  /\ \A c \in Browsers \ {b}, i \in Codes :
                 /\ At(c, i, {"password"})' <=> At(c, i, {"password"})
                 /\ At(c, i, {"consume"})' <=> At(c, i, {"consume"})
                 /\ At(c, i, {"count"})' <=> At(c, i, {"count"})
           /\ \A i \in Codes :
                 /\ At(b, i, {"password"})' <=> i = k /\ stage = "password"
                 /\ At(b, i, {"consume"})' <=> i = k /\ stage = "consume"
                 /\ At(b, i, {"count"})' <=> i = k /\ stage = "count"
           /\ stage \notin Writing \cup {"count"} /\ Stage(b) \notin Writing =>
                 \A c \in Browsers : Quiet(c)
BY DEF Reaches, At, Stage, Challenge, Quiet

\* A code that a reset finds: another reset may be using it.
LEMMA FindCounts ==
    ASSUME RecoveryTypes, CountsHold, NEW b \in Browsers, NEW k \in Codes, Find(b, k)
    PROVE  CountsHold'
<1> DEFINE st == IF Code(b) = k THEN "password" ELSE "count"
<1>1. Reaches(b, st, k) /\ UNCHANGED <<rows, screens, written, outcome, wrong>>
  BY FindTypes
<1>2. Stage(b) = "find" /\ Active(k) /\ UNCHANGED challenges
  BY <1>1 DEF Find, rows
<1>3. /\ \A c \in Browsers \ {b}, i \in Codes :
            /\ At(c, i, {"password"})' <=> At(c, i, {"password"})
            /\ At(c, i, {"consume"})' <=> At(c, i, {"consume"})
            /\ At(c, i, {"count"})' <=> At(c, i, {"count"})
      /\ \A i \in Codes :
            /\ At(b, i, {"password"})' <=> i = k /\ st = "password"
            /\ At(b, i, {"consume"})' <=> i = k /\ st = "consume"
            /\ At(b, i, {"count"})' <=> i = k /\ st = "count"
  <2> HIDE DEF st
  <2> QED
    BY <1>1, ReachesAt
<1>4. \A i \in Codes : ~At(b, i, {"password"}) /\ ~At(b, i, {"consume"}) /\ ~At(b, i, {"count"})
  BY <1>2 DEF At
<1>5. \A c \in Browsers : Stage(c) \in Writing \cup {"count"} => requests[c].kind = "reset"
  BY DEF RecoveryTypes, RequestSound, Writing
<1>6. ~Spent(k) /\ ~Exhausted(k) /\ k \in DOMAIN challenges
  BY <1>2 DEF Active, Open, Spent
<1>7. \A i \in Codes : UsesCounted(i) /\ GuessesCounted(i) /\ (Spent(i) <=> Spent(i)')
  BY <1>2 DEF CountsHold, Spent, Exhausted
<1>8. ASSUME NEW i \in Codes, i # k \/ st = "count" PROVE UsesCounted(i)'
  <2>1. i \in contested => i \in contested'
    BY DEF Find, Met
  <2>2. \A c \in Browsers :
           /\ At(c, i, {"password"})' <=> At(c, i, {"password"})
           /\ At(c, i, {"consume"})' <=> At(c, i, {"consume"})
    BY <1>3, <1>4, <1>8
  <2> QED
    BY <1>1, <1>7, <2>1, <2>2, UsesKept
<1>9. ASSUME NEW i \in Codes, i # k \/ st = "password" PROVE GuessesCounted(i)'
  <2>1. i \in crowded => i \in crowded'
    BY DEF Find, Met
  <2>2. \A c \in Browsers : At(c, i, {"count"})' => At(c, i, {"count"})
    BY <1>3, <1>9
  <2> QED
    BY <1>1, <1>2, <1>7, <2>1, <2>2, GuessesKept
<1>10. ASSUME st = "password" PROVE UsesCounted(k)'
  <2>1. contested' = Met(k, Writing, contested)
    BY <1>10 DEF Find, Writing
  <2>2. SUFFICES ASSUME k \notin contested' PROVE UsesCounted(k)'
    BY DEF UsesCounted
  <2>3. k \notin contested /\ ~Underway(k, Writing)
    BY <2>1, <2>2 DEF Met
  <2>4. \A c \in Browsers : ~At(c, k, {"password"}) /\ ~At(c, k, {"consume"})
    BY <1>5, <2>3 DEF At, Underway, Writing
  <2>5. written[k] = {} /\ written'[k] = {}
    BY <1>1, <1>6, <1>7, <2>3, <2>4 DEF UsesCounted
  <2>6. \A c \in Browsers : At(c, k, Writing)' => c = b
    BY <1>3, <2>4 DEF At, Writing
  <2> QED
    BY <2>5, <2>6 DEF UsesCounted, Writing
<1>11. ASSUME st = "count" PROVE GuessesCounted(k)'
  <2>1. crowded' = Met(k, {"count"}, crowded)
    BY <1>11 DEF Find
  <2>2. MaximumAttempts \in Nat \ {0} /\ wrong[k] \in Nat
    BY RecoveryAssumption, TypesAre DEF RowTypes
  <2>3. challenges[k].failedAttempts = IF wrong[k] <= MaximumAttempts THEN wrong[k] ELSE MaximumAttempts
    BY <1>6, <1>7 DEF GuessesCounted
  <2>4. wrong[k] < MaximumAttempts
    BY <1>6, <2>2, <2>3 DEF Exhausted
  <2>5. k \notin crowded' => k \notin crowded /\ ~Underway(k, {"count"})
    BY <2>1 DEF Met
  <2>6. ~Underway(k, {"count"}) => \A c \in Browsers : ~At(c, k, {"count"})
    BY <1>5 DEF At, Underway, Writing
  <2>7. k \notin crowded' => \A c \in Browsers : At(c, k, {"count"})' => c = b
    BY <1>3, <2>5, <2>6
  <2> QED
    BY <1>1, <1>2, <1>6, <2>2, <2>3, <2>4, <2>7 DEF GuessesCounted
<1>12. st = "password" \/ st = "count"
  OBVIOUS
<1> HIDE DEF st
<1> QED
  BY <1>8, <1>9, <1>10, <1>11, <1>12 DEF CountsHold

\* A wrong code that is counted.
LEMMA RecordFailureCounts ==
    ASSUME RecoveryTypes, CountsHold, NEW b \in Browsers, RecordFailure(b)
    PROVE  CountsHold'
<1>0. PICK k \in Codes : k = Challenge(b)
  BY ResetOf DEF RecordFailure
<1>1. /\ Reaches(b, "answered", k)
      /\ UNCHANGED <<written, contested, crowded>>
      /\ DOMAIN challenges' = DOMAIN challenges
      /\ \A j \in DOMAIN challenges \ {k} : challenges'[j] = challenges[j]
      /\ challenges'[k] = [challenges[k] EXCEPT !.failedAttempts =
            IF Exhausted(k) THEN MaximumAttempts ELSE @ + 1]
      /\ wrong' = [wrong EXCEPT ![k] = @ + 1]
  BY <1>0, RecordFailureTypes
<1>2. Stage(b) = "count" /\ k \in DOMAIN challenges /\ k \in Codes /\ challenges[k] \in ChallengeRow
  BY <1>0, ResetOf DEF RecordFailure
<1>3. MaximumAttempts \in Nat \ {0} /\ wrong \in [Codes -> Nat]
  BY RecoveryAssumption, TypesAre DEF RowTypes
<1>4. At(b, k, {"count"})
  BY <1>0, <1>2 DEF At
<1>5. /\ wrong'[k] = wrong[k] + 1 /\ \A j \in Codes \ {k} : wrong'[j] = wrong[j]
  BY <1>1, <1>2, <1>3
<1>6. /\ \A c \in Browsers \ {b}, i \in Codes :
            /\ At(c, i, {"password"})' <=> At(c, i, {"password"})
            /\ At(c, i, {"consume"})' <=> At(c, i, {"consume"})
            /\ At(c, i, {"count"})' <=> At(c, i, {"count"})
      /\ \A i \in Codes : ~At(b, i, {"password"})' /\ ~At(b, i, {"consume"})' /\ ~At(b, i, {"count"})'
  BY <1>1, ReachesAt
<1>7. \A i \in Codes : ~At(b, i, {"password"}) /\ ~At(b, i, {"consume"})
  BY <1>2 DEF At
<1>8. /\ challenges'[k].consumed = challenges[k].consumed
      /\ challenges'[k].failedAttempts =
            IF Exhausted(k) THEN MaximumAttempts ELSE challenges[k].failedAttempts + 1
  BY <1>1, <1>2 DEF ChallengeRow
<1>9. ASSUME NEW i \in Codes PROVE UsesCounted(i)'
  <2>1. Spent(i) => Spent(i)'
    <3>1. CASE i = k
      <4>1. DOMAIN challenges' = DOMAIN challenges /\ MaximumAttempts >= MaximumAttempts
        BY <1>1, <1>3
      <4>2. Exhausted(k) => challenges'[k].failedAttempts >= MaximumAttempts
        BY <1>8, <4>1
      <4> QED
        BY <1>8, <3>1, <4>1, <4>2 DEF Spent, Exhausted
    <3>2. CASE i # k
      BY <1>1, <3>2 DEF Spent, Exhausted
    <3> QED
      BY <3>1, <3>2
  <2> QED
    BY <1>1, <1>6, <1>7, <1>9, <2>1, UsesKept DEF CountsHold
<1>10. ASSUME NEW i \in Codes \ {k} PROVE GuessesCounted(i)'
  BY <1>1, <1>5, <1>6, GuessesKept DEF CountsHold
<1>11. GuessesCounted(k)'
  <2>1. GuessesCounted(k) /\ challenges[k].failedAttempts \in Nat
        /\ wrong[k] \in Nat
    BY <1>2, <1>3 DEF CountsHold, ChallengeRow
  <2>2. challenges[k].failedAttempts =
           IF wrong[k] <= MaximumAttempts THEN wrong[k] ELSE MaximumAttempts
    BY <1>2, <2>1 DEF GuessesCounted
  <2>3. challenges'[k].failedAttempts =
           IF wrong'[k] <= MaximumAttempts THEN wrong'[k] ELSE MaximumAttempts
    BY <1>3, <1>5, <1>8, <2>1, <2>2 DEF Exhausted
  <2>4. ASSUME k \notin crowded
        PROVE  wrong'[k] <= MaximumAttempts /\ \A c \in Browsers : ~At(c, k, {"count"})'
    <3>1. wrong[k] < MaximumAttempts
      BY <1>4, <2>1, <2>4 DEF GuessesCounted
    <3>2. \A c \in Browsers : At(c, k, {"count"}) => c = b
      BY <1>4, <2>1, <2>4 DEF GuessesCounted
    <3> QED
      BY <1>2, <1>3, <1>5, <1>6, <3>1, <3>2
  <2> QED
    BY <1>1, <1>2, <2>3, <2>4 DEF GuessesCounted
<1> QED
  BY <1>9, <1>10, <1>11 DEF CountsHold

\* The password is replaced: the first time with this code.
LEMMA UpdatePasswordCounts ==
    ASSUME RecoveryTypes, CountsHold, NEW b \in Browsers, UpdatePassword(b)
    PROVE  CountsHold'
<1>0. PICK k \in Codes : k = Challenge(b)
  BY ResetOf DEF UpdatePassword
<1>1. /\ Reaches(b, "consume", k)
      /\ UNCHANGED <<challenges, contested, wrong, crowded>>
      /\ written' = [written EXCEPT ![k] = @ \cup {Password(b)}]
  BY <1>0, UpdatePasswordTypes
<1>2. Stage(b) = "password" /\ k \in DOMAIN challenges /\ k \in Codes
  BY <1>0, ResetOf DEF UpdatePassword
<1>3. At(b, k, {"password"}) /\ At(b, k, {"password", "consume"})
  BY <1>0, <1>2 DEF At
<1>4. written \in [Codes -> SUBSET Passwords]
  BY TypesAre DEF RowTypes
<1>5. \A i \in Codes \ {k} : ~At(b, i, {"password"}) /\ ~At(b, i, {"consume"})
  BY <1>0 DEF At
<1>6. /\ \A c \in Browsers \ {b}, i \in Codes :
            /\ At(c, i, {"password"})' <=> At(c, i, {"password"})
            /\ At(c, i, {"consume"})' <=> At(c, i, {"consume"})
            /\ At(c, i, {"count"})' <=> At(c, i, {"count"})
      /\ \A i \in Codes :
            /\ ~At(b, i, {"password"})' /\ ~At(b, i, {"count"})'
            /\ At(b, i, {"consume"})' <=> i = k
  BY <1>1, ReachesAt
<1>7. written'[k] = written[k] \cup {Password(b)} /\ \A i \in Codes \ {k} : written'[i] = written[i]
  BY <1>1, <1>2, <1>4
<1>8. ASSUME NEW i \in Codes PROVE GuessesCounted(i)'
  BY <1>1, <1>6, <1>8, GuessesKept DEF CountsHold
<1>9. ASSUME NEW i \in Codes \ {k} PROVE UsesCounted(i)'
  <2>1. Spent(i) => Spent(i)'
    BY <1>1 DEF Spent, Exhausted
  <2> QED
    BY <1>1, <1>5, <1>6, <1>7, <2>1, UsesKept DEF CountsHold
<1>10. UsesCounted(k)'
  <2> SUFFICES ASSUME k \notin contested PROVE UsesCounted(k)'
    BY <1>1 DEF UsesCounted
  <2>1. UsesCounted(k)
    BY <1>2 DEF CountsHold
  <2>2. written[k] = {} /\ \A c \in Browsers : At(c, k, {"password", "consume"}) => c = b
    BY <1>3, <2>1 DEF UsesCounted
  <2>3. \A c \in Browsers : At(c, k, {"password", "consume"})' => c = b
    BY <1>2, <1>6, <2>2 DEF At
  <2>4. \A c \in Browsers : ~At(c, k, {"password"})'
    BY <1>2, <1>6, <2>2 DEF At
  <2>5. \A p, q \in written'[k] : p = q
    BY <1>7, <2>2
  <2>6. At(b, k, {"consume"})'
    BY <1>2, <1>6
  <2> QED
    BY <2>3, <2>4, <2>5, <2>6 DEF UsesCounted
<1> QED
  BY <1>8, <1>9, <1>10 DEF CountsHold

\* A reset leaves the stages of its writes: the code is spent, contested, or
\* has replaced nothing.
LEMMA LeavesWriting ==
    ASSUME RecoveryTypes, CountsHold, NEW b \in Browsers, NEW k, Challenge(b) = k,
           NEW stage \in {"answered", "revoke"}, Reaches(b, stage, k),
           ChallengesGrow, UNCHANGED <<written, wrong, crowded>>,
           contested \subseteq contested', Stage(b) \in Writing,
           Stage(b) = "consume" => Spent(k)' \/ k \in contested'
    PROVE  CountsHold'
<1>1. k \in DOMAIN challenges /\ k \in Codes
  BY ResetOf DEF Writing
<1>2. At(b, k, {Stage(b)}) /\ \A i \in Codes \ {k} : ~At(b, i, {"password"}) /\ ~At(b, i, {"consume"})
  BY DEF At
<1>3. /\ \A c \in Browsers \ {b}, i \in Codes :
            /\ At(c, i, {"password"})' <=> At(c, i, {"password"})
            /\ At(c, i, {"consume"})' <=> At(c, i, {"consume"})
            /\ At(c, i, {"count"})' <=> At(c, i, {"count"})
      /\ \A i \in Codes : ~At(b, i, {"password"})' /\ ~At(b, i, {"count"})' /\ ~At(b, i, {"consume"})'
  BY ReachesAt
<1>4. ASSUME NEW i \in Codes PROVE GuessesCounted(i)'
  BY <1>3, GuessesKept DEF CountsHold, ChallengesGrow
<1>5. ASSUME NEW i \in Codes \ {k} PROVE UsesCounted(i)'
  BY <1>2, <1>3, SpentStays, UsesKept DEF CountsHold
<1>6. UsesCounted(k)'
  <2> SUFFICES ASSUME k \notin contested' PROVE UsesCounted(k)'
    BY DEF UsesCounted
  <2>1. UsesCounted(k) /\ k \notin contested
    BY <1>1 DEF CountsHold
  <2>2. \A c \in Browsers : At(c, k, {"password", "consume"})' => At(c, k, {"password", "consume"})
    BY <1>1, <1>3 DEF At
  <2>3. (\E c \in Browsers : At(c, k, {"password"})') => written'[k] = {}
    BY <1>1, <1>3, <2>1 DEF UsesCounted
  <2>4. written'[k] # {} => Spent(k)'
    <3>1. CASE Stage(b) = "consume"
      BY <3>1
    <3>2. CASE Stage(b) = "password"
      <4>1. At(b, k, {"password"})
        BY <1>2, <3>2
      <4> QED
        BY <2>1, <4>1 DEF UsesCounted
    <3> QED
      BY <3>1, <3>2 DEF Writing
  <2> QED
    BY <2>1, <2>2, <2>3, <2>4 DEF UsesCounted
<1> QED
  BY <1>4, <1>5, <1>6 DEF CountsHold

\* A code that is consumed, and a reset that ends before it is.
LEMMA ConsumeCounts ==
    ASSUME RecoveryTypes, CountsHold, NEW b \in Browsers, Consume(b)
    PROVE  CountsHold'
<1>0. PICK k \in Codes : k = Challenge(b)
  BY ResetOf DEF Consume
<1>1. /\ UNCHANGED <<written, contested, wrong, crowded>>
      /\ DOMAIN challenges' = DOMAIN challenges
      /\ \A j \in DOMAIN challenges :
            /\ challenges'[j].failedAttempts = challenges[j].failedAttempts
            /\ challenges[j].consumed => challenges'[j].consumed
      /\ k \in DOMAIN challenges
      /\ challenges'[k].consumed \/ Exhausted(k)
      /\ Reaches(b, "answered", k) \/ Reaches(b, "revoke", k)
  BY <1>0, ConsumeTypes
<1>2. ChallengesGrow /\ Stage(b) \in Writing
  BY <1>1 DEF ChallengesGrow, Consume, Writing
<1>3. Spent(k)'
  BY <1>1 DEF Spent, Exhausted
<1> QED
  BY <1>0, <1>1, <1>2, <1>3, LeavesWriting

LEMMA FailsCounts ==
    ASSUME RecoveryTypes, CountsHold, NEW b \in Browsers, RequestFails(b)
    PROVE  CountsHold'
<1> DEFINE k == Challenge(b)
<1>1. /\ Reaches(b, "answered", k)
      /\ UNCHANGED <<rows, written, wrong, crowded>>
      /\ contested \subseteq contested'
      /\ Stage(b) = "consume" => k \in contested'
  BY FailsTypes
<1>2. ChallengesGrow
  BY <1>1, SameChallengesGrow DEF rows
<1>3. CASE Stage(b) \in Writing
  <2>1. PICK i \in Codes : i = Challenge(b)
    BY <1>3, ResetOf DEF Writing
  <2> QED
    BY <1>1, <1>2, <1>3, <2>1, LeavesWriting
<1>4. CASE Stage(b) \notin Writing
  <2> HIDE DEF k
  <2>1. \A c \in Browsers : Quiet(c)
    BY <1>1, <1>4, ReachesAt DEF Writing
  <2> QED
    BY <1>1, <1>2, <2>1, Ordinary
<1> QED
  BY <1>3, <1>4

\* Requests that look, are answered or fail, the mail and the sessions.
LEMMA QuietServes ==
    ASSUME RecoveryTypes, CountsHold, NEW b \in Browsers, NEW k, NEW st,
           Reaches(b, st, k), st \notin Writing \cup {"count"}, Stage(b) \notin Writing,
           ChallengesGrow, UNCHANGED history
    PROVE  CountsHold'
<1>1. \A c \in Browsers : Quiet(c)
  BY ReachesAt
<1>2. UNCHANGED <<written, wrong, crowded>> /\ contested \subseteq contested'
  BY DEF history
<1> QED
  BY <1>1, <1>2, Ordinary

-----------------------------------------------------------------------------
(* A password that was replaced ends its sessions *)

\* The password stays, no outcome becomes accepted, and sessions stay or are
\* of the password or late.
LEMMA PasswordsStay ==
    ASSUME RowTypes, PasswordsEnd, UNCHANGED password,
           outcome' = outcome \/ \A p \in Passwords : outcome'[p] \in {outcome[p], "running", "cut"},
           \A s \in DOMAIN sessions' :
              \/ s \in DOMAIN sessions /\ sessions'[s] = sessions[s]
              \/ sessions'[s].password = password \/ sessions'[s].late
    PROVE  PasswordsEnd'
<1>1. password \in Passwords
  BY DEF RowTypes
<1>2. outcome'[password] # "unused"
      /\ (outcome'[password] = "accepted" => outcome[password] = "accepted")
  BY <1>1 DEF PasswordsEnd
<1>3. ASSUME outcome[password] = "accepted", NEW s \in DOMAIN sessions'
      PROVE  sessions'[s].password = password' \/ sessions'[s].revoked \/ sessions'[s].late
  BY <1>3 DEF PasswordsEnd, Ended
<1> QED
  BY <1>2, <1>3 DEF PasswordsEnd, Ended

LEMMA ServePasswords ==
    ASSUME RecoveryTypes, PasswordsEnd, NEW b \in Browsers, Serve(b)
    PROVE  PasswordsEnd'
<1>1. RowTypes /\ password \in Passwords
  BY TypesAre DEF RowTypes
<1>2. CASE UNCHANGED <<password, sessions, outcome>>
  BY <1>1, <1>2, PasswordsStay
<1>3. CASE UpdatePassword(b)
  <2>1. password' = Password(b) /\ outcome' = [outcome EXCEPT ![Password(b)] = "running"]
    BY <1>3, UpdatePasswordTypes
  <2>2. Password(b) \in Passwords
    BY <1>3, ResetOf DEF UpdatePassword
  <2>3. outcome'[password'] = "running"
    BY <1>1, <2>1, <2>2 DEF RowTypes
  <2> QED
    BY <2>3 DEF PasswordsEnd
<1>4. CASE Consume(b)
  <2>1. UNCHANGED <<password, sessions>> /\ \A p \in Passwords : outcome'[p] \in {outcome[p], "running", "cut"}
    BY <1>4, ConsumeTypes
  <2> QED
    BY <1>1, <2>1, PasswordsStay
<1>5. CASE RequestFails(b)
  <2>1. UNCHANGED <<password, sessions>> /\ \A p \in Passwords : outcome'[p] \in {outcome[p], "cut"}
    BY <1>5, FailsTypes DEF rows
  <2> QED
    BY <1>1, <2>1, PasswordsStay
<1>6. CASE RevokeSessions(b)
  <2>1. /\ UNCHANGED password /\ \A s \in DOMAIN sessions' : sessions'[s].revoked
        /\ \A p \in Passwords : outcome'[p] \in {outcome[p], "accepted"}
    BY <1>6, RevokeTypes
  <2>2. outcome'[password] # "unused"
    BY <1>1, <2>1 DEF PasswordsEnd
  <2> QED
    BY <2>1, <2>2 DEF PasswordsEnd, Ended
<1>7. CASE CreateSession(b)
  <2>1. /\ UNCHANGED <<password, outcome>>
        /\ \A s \in DOMAIN sessions' :
              \/ s \in DOMAIN sessions /\ sessions'[s] = sessions[s]
              \/ sessions'[s].password = password \/ sessions'[s].late
    BY <1>7, CreateSessionTypes DEF history
  <2> QED
    BY <1>1, <2>1, PasswordsStay
<1> QED
  BY <1>2, <1>3, <1>4, <1>5, <1>6, <1>7
     DEF Serve, AskAccount, Issue, Mail, ResetAccount, FindNothing, Find, RecordFailure,
         VerifyPassword, rows, history

-----------------------------------------------------------------------------
(* The invariant *)

LEMMA ServeCounts ==
    ASSUME RecoveryTypes, CountsHold, NEW b \in Browsers, Serve(b)
    PROVE  CountsHold'
<1>1. CASE AskAccount(b) \/ ResetAccount(b) \/ FindNothing(b) \/ VerifyPassword(b)
  <2>1. /\ UNCHANGED <<rows, screens, history>>
        /\ \E st \in {"answered", "issue", "find", "create"} : Reaches(b, st, Challenge(b))
    BY <1>1, LookTypes
  <2>2. PICK st \in {"answered", "issue", "find", "create"} : Reaches(b, st, Challenge(b))
    BY <2>1
  <2>3. Stage(b) \notin Writing /\ ChallengesGrow
    BY <1>1, <2>1, SameChallengesGrow
       DEF AskAccount, ResetAccount, FindNothing, VerifyPassword, Writing, rows
  <2> QED
    BY <2>1, <2>2, <2>3, QuietServes DEF Writing
<1>2. CASE Issue(b)
  <2>1. /\ Reaches(b, "mail", NewCode) /\ UNCHANGED history
        /\ NewCode \in Codes \ DOMAIN challenges
        /\ DOMAIN challenges' = DOMAIN challenges \cup {NewCode}
        /\ challenges'[NewCode] = [failedAttempts |-> 0, consumed |-> FALSE, expired |-> FALSE]
        /\ \A j \in DOMAIN challenges :
              challenges'[j] = [challenges[j] EXCEPT !.consumed = TRUE]
    BY <1>2, IssueTypes
  <2>2. \A j \in DOMAIN challenges : challenges[j] \in ChallengeRow
    BY TypesAre DEF RowTypes
  <2>3. ChallengesGrow
    BY <2>1, <2>2 DEF ChallengesGrow, ChallengeRow
  <2> QED
    BY <1>2, <2>1, <2>3, QuietServes DEF Issue, Writing
<1>3. CASE Mail(b)
  <2>1. Reaches(b, "answered", Challenge(b)) /\ UNCHANGED history /\ ChallengesGrow
    BY <1>3, MailTypes, SameChallengesGrow
  <2> QED
    BY <1>3, <2>1, QuietServes DEF Mail, Writing
<1>4. CASE RevokeSessions(b)
  <2>1. /\ Reaches(b, "answered", Challenge(b)) /\ ChallengesGrow
        /\ UNCHANGED <<written, contested, wrong, crowded>>
    BY <1>4, RevokeTypes, SameChallengesGrow
  <2>2. \A c \in Browsers : Quiet(c)
    BY <1>4, <2>1, ReachesAt DEF RevokeSessions, Writing
  <2> QED
    BY <2>1, <2>2, Ordinary
<1>5. CASE CreateSession(b)
  <2>1. Reaches(b, "answered", Challenge(b)) /\ UNCHANGED history /\ ChallengesGrow
    BY <1>5, CreateSessionTypes, SameChallengesGrow
  <2> QED
    BY <1>5, <2>1, QuietServes DEF CreateSession, Writing
<1> QED
  BY <1>1, <1>2, <1>3, <1>4, <1>5, FindCounts, RecordFailureCounts, UpdatePasswordCounts,
     ConsumeCounts, FailsCounts DEF Serve

LEMMA ServeTypes ==
    ASSUME RecoveryTypes, NEW b \in Browsers, Serve(b)
    PROVE  RecoveryTypes'
BY LookTypes, IssueTypes, MailTypes, FindTypes, RecordFailureTypes, UpdatePasswordTypes,
   ConsumeTypes, RevokeTypes, CreateSessionTypes, FailsTypes DEF Serve

LEMMA ServeShowsNothing ==
    ASSUME NEW b \in Browsers, Serve(b)
    PROVE  UNCHANGED screens
BY DEF Serve, AskAccount, Issue, Mail, ResetAccount, FindNothing, Find, RecordFailure,
       UpdatePassword, Consume, RevokeSessions, VerifyPassword, CreateSession, RequestFails

\* A step of nobody's request: an account's status, a code that expires.
LEMMA OthersTypes ==
    ASSUME RecoveryTypes, RowTypes', UNCHANGED <<requests, screens>>,
           DOMAIN challenges' = DOMAIN challenges
    PROVE  RecoveryTypes'
<1>1. ASSUME NEW b \in Browsers PROVE RequestSound(b)'
  BY DEF RecoveryTypes, RequestSound, Stage, Challenge, Password
<1> QED
  BY <1>1 DEF RecoveryTypes, RowTypes, RecoveryTypeOK, ChallengeRow, SessionRow, RequestRow

LEMMA InitRecovery == RecoveryInit => RecoveryInv
<1> SUFFICES ASSUME RecoveryInit PROVE RecoveryInv
  OBVIOUS
<1>1. \A b \in Browsers : requests[b] = NoRequest /\ screens[b] = FirstScreen
  BY DEF RecoveryInit
<1>2. NoRequest \in RequestRow /\ FirstScreen \in ScreenRow
  BY DEF NoRequest, FirstScreen, RequestRow, ScreenRow, Stages, Kinds, Routes
<1>3. requests \in [Browsers -> RequestRow] /\ screens \in [Browsers -> ScreenRow]
  BY <1>2 DEF RecoveryInit
<1>4. DOMAIN challenges = {} /\ DOMAIN sessions = {}
  BY DEF RecoveryInit
<1>5. RowTypes
  BY <1>4, RecoveryAssumption DEF RecoveryInit, RowTypes, Outcomes
<1>6. \A b \in Browsers : Stage(b) = "idle"
  BY <1>1 DEF Stage, NoRequest
<1>7. RecoveryTypes
  BY <1>3, <1>5, <1>6, TypesAre DEF RequestSound
<1>8. ASSUME NEW i \in Codes PROVE UsesCounted(i) /\ GuessesCounted(i)
  <2>1. written[i] = {} /\ wrong[i] = 0 /\ MaximumAttempts \in Nat \ {0}
    BY RecoveryAssumption DEF RecoveryInit
  <2>2. \A b \in Browsers : /\ ~At(b, i, {"password"}) /\ ~At(b, i, {"password", "consume"})
                            /\ ~At(b, i, {"count"})
    BY <1>6 DEF At
  <2> QED
    BY <1>4, <2>1, <2>2 DEF UsesCounted, GuessesCounted
<1>9. PasswordsEnd
  <2>1. outcome[password] = "accepted"
    BY RecoveryAssumption DEF RecoveryInit
  <2> QED
    BY <1>4, <2>1 DEF PasswordsEnd
<1>10. ASSUME NEW b \in Browsers PROVE ScreenSound(b)
  <2>1. FirstScreen.route = "login" /\ FirstScreen.screen = "login" /\ FirstScreen.waiting = "no"
    BY DEF FirstScreen
  <2> QED
    BY <1>1, <2>1 DEF ScreenSound, RightScreen, PageOf
<1> QED
  BY <1>7, <1>8, <1>9, <1>10 DEF RecoveryInv

\* A browser sends a request when it has none, and gets the answer of an
\* answered one.
LEMMA BrowseIdle ==
    ASSUME NEW b \in Browsers, Browse(b)
    PROVE  UNCHANGED requests \/ Stage(b) \in {"idle", "answered"}
BY DEF Browse, Deliver, Drop, OpenRecovery, SubmitEmail, Resend, BackToLogin, Reload, Login,
       SubmitPassword, SubmitCode, Reset, GoBack, SendReset, SendRequest, Local, Stray,
       recoveryVars

LEMMA NextRecovery == RecoveryInv /\ [RecoveryNext]_recoveryVars => RecoveryInv'
<1> SUFFICES ASSUME RecoveryInv, [RecoveryNext]_recoveryVars PROVE RecoveryInv'
  OBVIOUS
<1>1. /\ RecoveryTypes /\ CountsHold /\ PasswordsEnd /\ RowTypes
      /\ \A b \in Browsers : ScreenSound(b)
  BY TypesAre DEF RecoveryInv, CountsHold
<1>2. SUFFICES RecoveryTypes' /\ CountsHold' /\ PasswordsEnd' /\ \A b \in Browsers : ScreenSound(b)'
  BY DEF RecoveryInv, CountsHold
<1>3. CASE UNCHANGED recoveryVars
  <2>1. /\ UNCHANGED <<enabled, password, challenges, sessions, mailed, requests, screens,
                       written, contested, outcome, wrong, crowded>>
    BY <1>3 DEF recoveryVars, rows, history
  <2>2. RowTypes' /\ ChallengesGrow /\ \A c \in Browsers : Quiet(c)
    BY <1>1, <2>1, RowsSame, SameChallengesGrow DEF rows, history, Quiet
  <2>3. RecoveryTypes' /\ CountsHold'
    BY <1>1, <2>1, <2>2, OthersTypes, Ordinary
  <2>4. PasswordsEnd'
    BY <1>1, <2>1, PasswordsStay
  <2> QED
    BY <1>1, <2>1, <2>3, <2>4 DEF ScreenSound
<1>4. CASE ChangeStatus
  <2>1. /\ UNCHANGED <<password, challenges, sessions, mailed, requests, screens,
                       written, contested, outcome, wrong, crowded>>
        /\ enabled' = ~enabled
    BY <1>4 DEF ChangeStatus, history
  <2>2. RowTypes' /\ ChallengesGrow /\ \A c \in Browsers : Quiet(c)
    BY <1>1, <2>1, SameChallengesGrow DEF RowTypes, Quiet
  <2>3. RecoveryTypes' /\ CountsHold'
    BY <1>1, <2>1, <2>2, OthersTypes, Ordinary
  <2>4. PasswordsEnd'
    BY <1>1, <2>1, PasswordsStay
  <2> QED
    BY <1>1, <2>1, <2>3, <2>4 DEF ScreenSound
<1>5. ASSUME NEW i \in Codes, Expire(i)
      PROVE  RecoveryTypes' /\ CountsHold' /\ PasswordsEnd' /\ \A b \in Browsers : ScreenSound(b)'
  <2> DEFINE x == [challenges[i] EXCEPT !.expired = TRUE]
  <2>1. /\ UNCHANGED <<enabled, password, sessions, mailed, requests, screens,
                       written, contested, outcome, wrong, crowded>>
        /\ challenges' = [challenges EXCEPT ![i] = x] /\ i \in DOMAIN challenges
    BY <1>5 DEF Expire, Open, history
  <2>2. x \in ChallengeRow /\ x.failedAttempts = challenges[i].failedAttempts
        /\ x.consumed = challenges[i].consumed
    BY <1>1, <2>1 DEF RowTypes, ChallengeRow
  <2> HIDE DEF x
  <2>3. /\ DOMAIN challenges' = DOMAIN challenges /\ challenges'[i] = x
        /\ \A j \in DOMAIN challenges \ {i} : challenges'[j] = challenges[j]
        /\ \A j \in DOMAIN challenges' : challenges'[j] \in ChallengeRow
    BY <1>1, <2>1, <2>2, ChallengesKept
  <2>4. RowTypes'
    BY <1>1, <2>1, <2>3 DEF RowTypes
  <2>5. ChallengesGrow /\ \A c \in Browsers : Quiet(c)
    BY <2>1, <2>2, <2>3 DEF ChallengesGrow, Quiet
  <2>6. RecoveryTypes' /\ CountsHold'
    BY <1>1, <2>1, <2>3, <2>4, <2>5, OthersTypes, Ordinary
  <2>7. PasswordsEnd'
    BY <1>1, <2>1, PasswordsStay
  <2> QED
    BY <1>1, <2>1, <2>6, <2>7 DEF ScreenSound
<1>6. ASSUME NEW b \in Browsers, Serve(b)
      PROVE  RecoveryTypes' /\ CountsHold' /\ PasswordsEnd' /\ \A c \in Browsers : ScreenSound(c)'
  <2>1. UNCHANGED screens
    BY <1>6, ServeShowsNothing
  <2> QED
    BY <1>1, <1>6, <2>1, ServeTypes, ServeCounts, ServePasswords DEF ScreenSound
<1>7. ASSUME NEW b \in Browsers, Browse(b)
      PROVE  RecoveryTypes' /\ CountsHold' /\ PasswordsEnd' /\ \A c \in Browsers : ScreenSound(c)'
  <2>1. Browsed(b)
    BY <1>1, <1>7, BrowseKeeps
  <2>2. /\ RecoveryTypes'
        /\ UNCHANGED <<password, challenges, sessions, written, contested, outcome, wrong, crowded>>
        /\ \A c \in Browsers \ {b} : requests'[c] = requests[c] /\ screens'[c] = screens[c]
        /\ requests'[b] = requests[b] \/ Stage(b)' \in {"idle", "account"}
        /\ ScreenSound(b)'
    BY <2>1 DEF Browsed, rows, history
  <2>3. requests'[b] = requests[b] \/ Stage(b) \notin Writing
    BY <1>7, BrowseIdle DEF Writing
  <2>4. \A c \in Browsers : Quiet(c)
    BY <2>2, <2>3 DEF Quiet, Writing
  <2>5. CountsHold'
    BY <1>1, <2>2, <2>4, SameChallengesGrow, Ordinary
  <2>6. PasswordsEnd'
    BY <1>1, <2>2, PasswordsStay
  <2>7. ASSUME NEW c \in Browsers \ {b} PROVE ScreenSound(c)'
    BY <1>1, <2>2 DEF ScreenSound
  <2> QED
    BY <2>2, <2>5, <2>6, <2>7
<1> QED
  BY <1>3, <1>4, <1>5, <1>6, <1>7 DEF RecoveryNext

-----------------------------------------------------------------------------
(* Theorems of the recovery *)

LEMMA RecoveryInvHolds == RecoverySpec => []RecoveryInv
BY InitRecovery, NextRecovery, PTL DEF RecoverySpec

\* Rows, requests and screens are well formed in every state.
THEOREM RecoveryTypesHold == RecoverySpec => []RecoveryTypeOK
<1>1. RecoveryInv => RecoveryTypeOK
  BY DEF RecoveryInv, RecoveryTypes
<1> QED
  BY <1>1, RecoveryInvHolds, PTL

\* Once every reset has been answered well, no session opened with a replaced
\* password is alive, but one inserted after the replacement by a login that
\* had verified before it: revokeAllForAccount comes after updatePasswordHash
\* in every reset, however logins and other resets interleave with them.
THEOREM OldSessionsAreEnded == RecoverySpec => []OldSessionsEnd
<1>1. RecoveryInv => OldSessionsEnd
  <2> SUFFICES ASSUME RecoveryInv, \A p \in Passwords : outcome[p] \notin {"running", "cut"},
                      NEW s \in DOMAIN sessions
               PROVE  sessions[s].password = password \/ sessions[s].revoked \/ sessions[s].late
    BY DEF OldSessionsEnd
  <2>1. password \in Passwords /\ outcome \in [Passwords -> Outcomes] /\ PasswordsEnd
    BY TypesAre DEF RecoveryInv, RowTypes
  <2>2. outcome[password] = "accepted"
    BY <2>1 DEF PasswordsEnd, Outcomes
  <2> QED
    BY <2>1, <2>2 DEF PasswordsEnd, Ended
<1> QED
  BY <1>1, RecoveryInvHolds, PTL

\* A code replaces the password once, however many resets present it one after
\* the other: consume comes after the write, and a code that is not found open
\* again is used no more.  Two resets at once, or one cut short, are the
\* exceptions.
THEOREM CodesAreUsedOnce == RecoverySpec => []CodeUsedOnce
<1>1. RecoveryInv => CodeUsedOnce
  <2> SUFFICES ASSUME RecoveryInv, NEW i \in Codes \ contested
               PROVE  Cardinality(written[i]) <= 1
    BY DEF CodeUsedOnce
  <2>1. \A p, q \in written[i] : p = q
    BY DEF RecoveryInv, UsesCounted
  <2>2. CASE written[i] = {}
    BY <2>2, FS_EmptySet
  <2>3. CASE written[i] # {}
    <3>1. PICK p : written[i] = {p}
      BY <2>1, <2>3
    <3> QED
      BY <3>1, FS_Singleton
  <2> QED
    BY <2>2, <2>3
<1> QED
  BY <1>1, RecoveryInvHolds, PTL

\* Wrong codes are answered as often as the policy allows, whatever the number
\* of browsers, but for requests that had found the challenge together:
\* findActive refuses an exhausted one and recordFailure counts in the row.
THEOREM GuessesAreLimited == RecoverySpec => []GuessesLimited
<1>1. RecoveryInv => GuessesLimited
  <2> SUFFICES ASSUME RecoveryInv, NEW i \in Codes, i \notin crowded
               PROVE  ~(wrong[i] > MaximumAttempts)
    BY DEF GuessesLimited
  <2>1. wrong[i] <= MaximumAttempts /\ wrong[i] \in Nat /\ MaximumAttempts \in Nat
    BY TypesAre, RecoveryAssumption DEF RecoveryInv, GuessesCounted, RowTypes
  <2> QED
    BY <2>1
<1> QED
  BY <1>1, RecoveryInvHolds, PTL

\* A browser shows the page of the recovery's state: of the code only after one
\* was asked for, of the new password only after a code was entered, unless the
\* state was dropped, a page was strayed to, or a command answered a page that
\* had been left.
THEOREM PagesAgree == RecoverySpec => []PagesFollowState
<1>1. RecoveryInv => PagesFollowState
  BY DEF RecoveryInv, ScreenSound, RightScreen, PagesFollowState
<1> QED
  BY <1>1, RecoveryInvHolds, PTL
=============================================================================
