------------------------ MODULE RegistrationTheorems ------------------------
(***************************************************************************)
(* Registration for any number of clients, emails, Google identities and   *)
(* codes, and any policy: types, one open code, mailed codes, activation   *)
(* by a code, identities that keep apart, and codes a cooldown apart.      *)
(***************************************************************************)
EXTENDS Registration, TLAPS

\* The kinds of requests there may be at each phase.
KindInv(c) ==
    /\ Phase(c) = "insert" => Kind(c) \in {"register", "google"}
    /\ Phase(c) = "account" => Kind(c) \in {"resend", "verify"}
    /\ Phase(c) \in {"cooldown", "lock", "snapshot", "revoke"} => Kind(c) = "resend"
    /\ Phase(c) = "send" => Kind(c) \in {"register", "resend"}
    /\ Phase(c) \in {"latest", "count", "consume", "activate"} => Kind(c) = "verify"
    /\ Phase(c) = "commit" => Kind(c) # "login"
    /\ Phase(c) \in {"subject", "email", "link", "session"} => Kind(c) = "login"
    /\ Kind(c) \in {"google", "login"} => tx[c].subject \in Subjects

\* Transactions that have inserted a row of users, and those that hold one.
Creates(c) ==
    \/ Kind(c) = "register" /\ Phase(c) \in {"send", "commit"}
    \/ Kind(c) = "google" /\ Phase(c) = "commit"
Holds(c) ==
    \/ Creates(c)
    \/ Kind(c) = "resend" /\ Phase(c) \in {"snapshot", "revoke", "send", "commit"}
    \/ Kind(c) = "verify" /\ Phase(c) = "commit"

AccountInv(c) ==
    /\ Holds(c) => accountLock[Email(c)] = c
    /\ Creates(c) => Account(c) = Nobody
    /\ Kind(c) = "resend" /\ Phase(c) \notin {"idle", "account"} => Account(c) # Nobody

\* Transactions that have drawn the id of a new code.
Issues(c) == Kind(c) \in {"register", "resend"} /\ Phase(c) \in {"send", "commit"}

NewCodeInv(c) ==
    Issues(c) =>
        /\ tx[c].challenge \in ChallengeIds \ DOMAIN challenges
        /\ \A d \in Clients \ {c} : Issues(d) => tx[d].challenge # tx[c].challenge
        /\ Phase(c) = "commit" => tx[c].challenge \in mailed

\* What a resend will revoke is all that is open: only the holder of the
\* account's row adds to it.
RevokeInv(c) ==
    Kind(c) = "resend" =>
        /\ Phase(c) \in {"revoke", "send", "commit"} => Open(Email(c)) \subseteq tx[c].open
        /\ Phase(c) \in {"send", "commit"} => \A i \in tx[c].open : challengeLock[i] = c

\* A code that is being used stays open for whoever has locked it.
ConsumeInv(c) ==
    Kind(c) = "verify" /\ Phase(c) \in {"activate", "commit"} =>
        /\ tx[c].challenge \in Open(Email(c))
        /\ challengeLock[tx[c].challenge] = c

\* Google logins and registrations.
IdentityInv(c) ==
    /\ Phase(c) = "session" => Account(c).subject = tx[c].subject
    /\ Kind(c) = "google" /\ Phase(c) = "commit" =>
          AccountsOf(tx[c].subject) = {} /\ ~BeingInserted(c)

\* The committed rows.
RowsInv ==
    /\ \A i \in DOMAIN challenges : accounts[challenges[i].email] # Nobody
    /\ \A e, f \in Emails :
          accounts[e].subject = accounts[f].subject /\ accounts[e].subject # None => e = f
    /\ \A p \in signedIn : accounts[p[2]].subject = p[1]

ClientInv(c) ==
    /\ KindInv(c) /\ AccountInv(c) /\ NewCodeInv(c) /\ RevokeInv(c)
    /\ ConsumeInv(c) /\ IdentityInv(c)

IInv ==
    /\ TypeOK
    /\ RowsInv
    /\ OneOpenChallenge
    /\ CodesWereMailed
    /\ \A c \in Clients : ClientInv(c)

-----------------------------------------------------------------------------
(* Types                                                                   *)

USE RegistrationAssumption

LEMMA IdleType == Idle \in Request
<1>1. (CHOOSE e \in Emails : TRUE) \in Emails
  OBVIOUS
<1> QED
  BY <1>1 DEF Idle, Request, Phases, Kinds

LEMMA RequestType ==
    ASSUME NEW r \in Request
    PROVE  /\ \A p \in Phases : [r EXCEPT !.phase = p] \in Request
           /\ \A p \in Phases, i \in ChallengeIds :
                 [r EXCEPT !.phase = p, !.challenge = i] \in Request
           /\ \A p \in Phases, o \in SUBSET ChallengeIds :
                 [r EXCEPT !.phase = p, !.open = o] \in Request
           /\ \A p \in Phases, e \in Emails : [r EXCEPT !.phase = p, !.email = e] \in Request
BY DEF Request

LEMMA RequestFields ==
    ASSUME TypeOK, NEW c \in Clients
    PROVE  /\ tx[c] \in Request
           /\ Phase(c) \in Phases
           /\ Kind(c) \in Kinds
           /\ Email(c) \in Emails
           /\ tx[c].subject \in Subjects \cup {None}
           /\ tx[c].code \in ChallengeIds \cup {None}
           /\ tx[c].checkedAt \in Nat
           /\ tx[c].open \subseteq ChallengeIds
           /\ tx[c].challenge \in ChallengeIds \cup {None}
BY DEF TypeOK, Request, Phase, Kind, Email

LEMMA UserType ==
    ASSUME NEW a \in User
    PROVE  /\ a.status \in Statuses /\ a.verified \in BOOLEAN
           /\ a.subject \in Subjects \cup {None}
           /\ \A s \in Statuses : [a EXCEPT !.status = s] \in User
           /\ \A s \in Subjects \cup {None} : [a EXCEPT !.subject = s] \in User
           /\ Verified(a) \in User
BY DEF User, Verified, Statuses

LEMMA InitTypeOK == Init => TypeOK
<1> SUFFICES ASSUME Init PROVE TypeOK
  OBVIOUS
<1>1. Nobody \in User /\ Known \in User
  BY DEF Nobody, Known, User, Statuses
<1>2. \A e \in Emails : accounts[e] \in {Nobody, Known}
  BY DEF Init
<1>3. accounts \in [Emails -> User]
  BY <1>1 DEF Init
<1>4. \A e \in Emails : accounts[e].status = "active" => accounts[e].verified
  BY <1>2 DEF Nobody, Known
<1>5. DOMAIN challenges = {} /\ challenges \in [DOMAIN challenges -> Challenge]
  BY DEF Init
<1>6. tx \in [Clients -> Request]
  BY IdleType DEF Init
<1> QED
  BY <1>3, <1>4, <1>5, <1>6 DEF Init, TypeOK

LEMMA EndTypeOK ==
    ASSUME TypeOK, NEW c \in Clients, Finish(c)
    PROVE  /\ tx' \in [Clients -> Request]
           /\ accountLock' \in [Emails -> Clients \cup {Free}]
           /\ challengeLock' \in [ChallengeIds -> Clients \cup {Free}]
BY IdleType DEF TypeOK, Finish, Release

LEMMA CommitTypeOK ==
    ASSUME TypeOK, NEW c \in Clients, KindInv(c), NewCodeInv(c), Commit(c)
    PROVE  TypeOK'
<1> DEFINE e == Email(c)
<1>1. /\ e \in Emails
      /\ tx[c].checkedAt \in Nat
      /\ Kind(c) \in {"register", "google", "resend", "verify"}
  BY RequestFields DEF Commit, KindInv, Kinds
<1>2. /\ accounts' = [accounts EXCEPT ![e] = accounts'[e]]
      /\ accounts'[e] \in User
      /\ accounts'[e].status = "active" => accounts'[e].verified
  <2>1. /\ accounts \in [Emails -> User]
        /\ accounts[e] \in User
        /\ accounts[e].status = "active" => accounts[e].verified
    BY <1>1 DEF TypeOK
  <2>2. CASE Kind(c) = "register"
    <3>1. accounts' = [accounts EXCEPT ![e] = [@ EXCEPT !.status = "pending"]]
      BY <2>2 DEF Commit
    <3>2. accounts'[e] = [accounts[e] EXCEPT !.status = "pending"]
      BY <1>1, <2>1, <3>1
    <3> QED
      BY <1>1, <2>1, <3>1, <3>2, UserType DEF Statuses, User
  <2>3. CASE Kind(c) = "google"
    <3>1. tx[c].subject \in Subjects
      BY <2>3 DEF KindInv
    <3>2. accounts' = [accounts EXCEPT ![e] = [Verified(@) EXCEPT !.subject = tx[c].subject]]
      BY <2>3 DEF Commit
    <3>3. accounts'[e] = [Verified(accounts[e]) EXCEPT !.subject = tx[c].subject]
      BY <1>1, <2>1, <3>2
    <3>4. Verified(accounts[e]) \in User /\ Verified(accounts[e]).verified
      BY <2>1, UserType DEF Verified, User
    <3> QED
      BY <1>1, <2>1, <3>1, <3>2, <3>3, <3>4, UserType DEF User
  <2>4. CASE Kind(c) = "verify"
    <3>1. accounts' = [accounts EXCEPT ![e] = Verified(@)]
      BY <2>4 DEF Commit
    <3>2. Verified(accounts[e]) \in User /\ Verified(accounts[e]).verified
      BY <2>1, UserType DEF Verified, User
    <3> QED
      BY <1>1, <2>1, <3>1, <3>2
  <2>5. CASE Kind(c) = "resend"
    BY <1>1, <2>1, <2>5 DEF Commit
  <2> QED
    BY <1>1, <2>2, <2>3, <2>4, <2>5
<1>3. /\ DOMAIN challenges' \subseteq ChallengeIds
      /\ challenges' \in [DOMAIN challenges' -> Challenge]
  <2>1. ASSUME NEW R
        PROVE  WithConsumed(R) \in [DOMAIN challenges -> Challenge]
    <3>1. \A r \in Challenge : [r EXCEPT !.consumed = TRUE] \in Challenge
      BY DEF Challenge
    <3> QED
      BY <3>1 DEF WithConsumed, TypeOK
  <2>2. ASSUME NEW t \in [DOMAIN challenges -> Challenge], tx[c].challenge \in ChallengeIds
        PROVE  WithNew(t, c) \in [DOMAIN challenges \cup {tx[c].challenge} -> Challenge]
    <3>1. [email |-> e, createdAt |-> tx[c].checkedAt,
           failedAttempts |-> 0, consumed |-> FALSE] \in Challenge
      BY <1>1 DEF Challenge
    <3> QED
      BY <3>1 DEF WithNew
  <2>3. challenges \in [DOMAIN challenges -> Challenge]
    BY DEF TypeOK
  <2>4. CASE Kind(c) \in {"register", "resend"}
    <3>1. tx[c].challenge \in ChallengeIds
      BY <2>4 DEF NewCodeInv, Issues, Commit
    <3>2. \E t \in [DOMAIN challenges -> Challenge] : challenges' = WithNew(t, c)
      BY <2>1, <2>3, <2>4 DEF Commit
    <3>3. challenges' \in [DOMAIN challenges \cup {tx[c].challenge} -> Challenge]
      BY <2>2, <3>1, <3>2
    <3> QED
      BY <3>1, <3>3 DEF TypeOK
  <2>5. CASE Kind(c) \in {"google", "verify"}
    <3>1. challenges' \in [DOMAIN challenges -> Challenge]
      BY <2>1, <2>3, <2>5 DEF Commit
    <3> QED
      BY <3>1 DEF TypeOK
  <2> QED
    BY <1>1, <2>4, <2>5
<1>4. signedIn' \subseteq Subjects \X Emails
  BY <1>1 DEF TypeOK, Commit, KindInv
<1>5. accounts' \in [Emails -> User] /\ (\A f \in Emails : accounts'[f].status = "active" => accounts'[f].verified)
  BY <1>1, <1>2 DEF TypeOK
<1>6. Finish(c) /\ UNCHANGED <<now, sent, mailed, pending, wrong, overlapped>>
  BY DEF Commit
<1> QED
  BY <1>3, <1>4, <1>5, <1>6, EndTypeOK DEF TypeOK

LEMMA NextTypeOK ==
    ASSUME TypeOK, \A c \in Clients : KindInv(c) /\ NewCodeInv(c), [Next]_vars
    PROVE  TypeOK'
<1>1. ASSUME NEW c \in Clients, NEW kind \in Kinds, NEW email \in Emails,
             NEW subject \in Subjects \cup {None}, NEW code \in ChallengeIds \cup {None},
             Send(c, kind, email, subject, code)
      PROVE  TypeOK'
  <2>1. tx' \in [Clients -> Request]
    <3> DEFINE r == [Idle EXCEPT
                       !.phase = CASE kind \in {"register", "google"} -> "insert"
                                   [] kind \in {"resend", "verify"} -> "account"
                                   [] kind = "login" -> "subject",
                       !.kind = kind, !.email = email, !.subject = subject,
                       !.code = code, !.checkedAt = now]
    <3>1. now \in Nat /\ tx \in [Clients -> Request]
      BY DEF TypeOK
    <3>2. (CASE kind \in {"register", "google"} -> "insert"
             [] kind \in {"resend", "verify"} -> "account"
             [] kind = "login" -> "subject") \in Phases
      BY DEF Kinds, Phases
    <3>3. r \in Request
      BY <3>1, <3>2, IdleType DEF Request
    <3>4. tx' = [tx EXCEPT ![c] = r]
      BY <1>1 DEF Send
    <3> QED
      BY <3>1, <3>3, <3>4
  <2>2. /\ sent' = sent + 1
        /\ UNCHANGED <<now, accounts, challenges, locks, mailed, google, wrong, overlapped>>
    BY <1>1 DEF Send
  <2> QED
    BY <2>1, <2>2 DEF TypeOK, locks, google
<1>2. ASSUME NEW c \in Clients, RollBack(c) PROVE TypeOK'
  BY <1>2, EndTypeOK DEF RollBack, TypeOK, google
<1>3. ASSUME NEW c \in Clients,
             Conflict(c) \/ NotPending(c) \/ TooSoon(c) \/ NoActiveChallenge(c)
             \/ NotConsumable(c) \/ NotActivatable(c) \/ Fail(c) \/ BreakDeadlock(c)
      PROVE  TypeOK'
  BY <1>2, <1>3 DEF Conflict, NotPending, TooSoon, NoActiveChallenge, NotConsumable,
     NotActivatable, Fail, BreakDeadlock
<1>4. ASSUME NEW c \in Clients, NEW p \in Phases, Goto(c, p) PROVE tx' \in [Clients -> Request]
  BY <1>4, RequestType DEF TypeOK, Goto
<1>5. ASSUME NEW c \in Clients, InsertAccount(c) PROVE TypeOK'
  <2>1. tx' \in [Clients -> Request]
    <3>1. CASE Goto(c, "commit")
      BY <1>4, <3>1 DEF Phases
    <3>2. CASE \E i \in Unused : tx' = [tx EXCEPT ![c].phase = "send", ![c].challenge = i]
      <4>1. PICK i \in ChallengeIds :
               tx' = [tx EXCEPT ![c] = [tx[c] EXCEPT !.phase = "send", !.challenge = i]]
        BY <3>2, RequestFields DEF Unused, TypeOK, Request
      <4>2. [tx[c] EXCEPT !.phase = "send", !.challenge = i] \in Request
        BY RequestType, RequestFields DEF Phases
      <4> QED
        BY <4>1, <4>2 DEF TypeOK
    <3> QED
      BY <1>5, <3>1, <3>2 DEF InsertAccount
  <2>2. accountLock' \in [Emails -> Clients \cup {Free}]
    BY <1>5 DEF InsertAccount, TypeOK
  <2> QED
    BY <1>5, <2>1, <2>2 DEF InsertAccount, TypeOK, google
<1>6. ASSUME NEW c \in Clients, ReadAccount(c) PROVE TypeOK'
  <2>1. tx' \in [Clients -> Request]
    BY <1>4, <1>6 DEF ReadAccount, Phases
  <2> QED
    BY <1>6, <2>1 DEF ReadAccount, TypeOK, locks, google
<1>7. ASSUME NEW c \in Clients, CheckCooldown(c) PROVE TypeOK'
  <2>1. tx' \in [Clients -> Request]
    BY <1>4, <1>7 DEF CheckCooldown, Phases
  <2> QED
    BY <1>7, <2>1, RequestFields DEF CheckCooldown, TypeOK, locks, google
<1>8. ASSUME NEW c \in Clients, LockAccount(c) PROVE TypeOK'
  <2>1. tx' \in [Clients -> Request]
    BY <1>4, <1>8 DEF LockAccount, Phases
  <2>2. accountLock' \in [Emails -> Clients \cup {Free}]
    BY <1>8 DEF LockAccount, TypeOK
  <2> QED
    BY <1>8, <2>1, <2>2 DEF LockAccount, TypeOK, google
<1>9. ASSUME NEW c \in Clients, Snapshot(c) PROVE TypeOK'
  <2>1. Open(Email(c)) \subseteq ChallengeIds
    BY DEF Open, Of, TypeOK
  <2>2. [tx[c] EXCEPT !.phase = "revoke", !.open = Open(Email(c))] \in Request
    BY <2>1, RequestType, RequestFields DEF Phases
  <2>3. tx' = [tx EXCEPT ![c] = [tx[c] EXCEPT !.phase = "revoke", !.open = Open(Email(c))]]
    BY <1>9 DEF Snapshot, TypeOK, Request
  <2> QED
    BY <1>9, <2>2, <2>3 DEF Snapshot, TypeOK, locks, google
<1>10. ASSUME NEW c \in Clients, RevokeAndInsert(c) PROVE TypeOK'
  <2>1. PICK i \in ChallengeIds :
           tx' = [tx EXCEPT ![c] = [tx[c] EXCEPT !.phase = "send", !.challenge = i]]
    BY <1>10, RequestFields DEF RevokeAndInsert, AfterIssue, Unused, TypeOK, Request
  <2>2. [tx[c] EXCEPT !.phase = "send", !.challenge = i] \in Request
    BY RequestType, RequestFields DEF Phases
  <2>3. challengeLock' \in [ChallengeIds -> Clients \cup {Free}]
    BY <1>10 DEF RevokeAndInsert, TypeOK
  <2> QED
    BY <1>10, <2>1, <2>2, <2>3 DEF RevokeAndInsert, TypeOK, google
<1>11. ASSUME NEW c \in Clients, SendEmail(c) PROVE TypeOK'
  <2>1. tx[c].challenge \in ChallengeIds
    BY <1>11 DEF SendEmail, NewCodeInv, KindInv, Issues
  <2>2. tx' \in [Clients -> Request]
    BY <1>4, <1>11 DEF SendEmail, Phases
  <2> QED
    BY <1>11, <2>1, <2>2 DEF SendEmail, TypeOK, locks, google
<1>12. ASSUME NEW c \in Clients, FindLatest(c) PROVE TypeOK'
  <2> DEFINE i == Latest(Email(c))
             p == IF tx[c].code = i THEN "consume" ELSE "count"
  <2>1. i \in ChallengeIds
    BY <1>12 DEF FindLatest, LatestIsActive, Open, Of, TypeOK
  <2>2. [tx[c] EXCEPT !.phase = p, !.challenge = i] \in Request
    BY <2>1, RequestType, RequestFields DEF Phases
  <2>3. tx' = [tx EXCEPT ![c] = [tx[c] EXCEPT !.phase = p, !.challenge = i]]
    BY <1>12 DEF FindLatest, TypeOK, Request
  <2>4. tx' \in [Clients -> Request]
    BY <2>2, <2>3 DEF TypeOK
  <2> QED
    BY <1>12, <2>4 DEF FindLatest, TypeOK, locks, google
<1>13. ASSUME NEW c \in Clients, CountFailure(c) PROVE TypeOK'
  <2>1. /\ Finish(c)
        /\ wrong' = [wrong EXCEPT ![tx[c].challenge] = @ + 1]
        /\ UNCHANGED <<now, accounts, challenges, sent, mailed, google, overlapped>>
    BY <1>13 DEF CountFailure
  <2>2. wrong' \in [ChallengeIds -> Nat]
    <3>1. wrong \in [ChallengeIds -> Nat]
      BY DEF TypeOK
    <3>2. CASE tx[c].challenge \in ChallengeIds
      <4>1. \A i \in ChallengeIds : wrong[i] \in Nat
        BY <3>1
      <4>2. \A n \in Nat : n + 1 \in Nat
        OBVIOUS
      <4>3. wrong[tx[c].challenge] + 1 \in Nat
        BY <3>2, <4>1, <4>2
      <4> QED
        BY <2>1, <3>1, <4>3
    <3>3. CASE tx[c].challenge \notin ChallengeIds
      <4>1. wrong' = wrong
        BY <2>1, <3>1, <3>3
      <4> QED
        BY <3>1, <4>1
    <3> QED
      BY <3>2, <3>3
  <2> QED
    BY <2>1, <2>2, EndTypeOK DEF TypeOK, google
<1>14. ASSUME NEW c \in Clients, Consume(c) PROVE TypeOK'
  <2>1. tx' \in [Clients -> Request]
    BY <1>4, <1>14 DEF Consume, Phases
  <2>2. challengeLock' \in [ChallengeIds -> Clients \cup {Free}]
    BY <1>14 DEF Consume, TypeOK
  <2> QED
    BY <1>14, <2>1, <2>2 DEF Consume, TypeOK, google
<1>15. ASSUME NEW c \in Clients, Activate(c) PROVE TypeOK'
  <2>1. tx' \in [Clients -> Request]
    BY <1>4, <1>15 DEF Activate, Phases
  <2>2. accountLock' \in [Emails -> Clients \cup {Free}]
    BY <1>15 DEF Activate, TypeOK
  <2> QED
    BY <1>15, <2>1, <2>2 DEF Activate, TypeOK, google
<1>16. ASSUME NEW c \in Clients, Commit(c) PROVE TypeOK'
  BY <1>16, CommitTypeOK
<1>17. ASSUME NEW c \in Clients, Answer(c) PROVE tx' \in [Clients -> Request]
  BY <1>17, IdleType DEF TypeOK, Answer
<1>18. ASSUME NEW c \in Clients, FindSubject(c) PROVE TypeOK'
  <2>1. tx' \in [Clients -> Request]
    <3>1. CASE Goto(c, "email") \/ Answer(c)
      BY <1>4, <1>17, <3>1 DEF Phases
    <3>2. CASE \E e \in AccountsOf(tx[c].subject) :
                 tx' = [tx EXCEPT ![c].phase = "session", ![c].email = e]
      <4>1. PICK e \in Emails :
               tx' = [tx EXCEPT ![c] = [tx[c] EXCEPT !.phase = "session", !.email = e]]
        BY <3>2, RequestFields DEF AccountsOf, TypeOK, Request
      <4>2. [tx[c] EXCEPT !.phase = "session", !.email = e] \in Request
        BY RequestType, RequestFields DEF Phases
      <4> QED
        BY <4>1, <4>2 DEF TypeOK
    <3> QED
      BY <1>18, <3>1, <3>2 DEF FindSubject
  <2> QED
    BY <1>18, <2>1 DEF FindSubject, TypeOK, locks, google
<1>19. ASSUME NEW c \in Clients, FindEmail(c) PROVE TypeOK'
  <2>1. tx' \in [Clients -> Request]
    BY <1>4, <1>17, <1>19 DEF FindEmail, Phases
  <2>2. pending' \subseteq Subjects \X Emails
    BY <1>19, RequestFields DEF FindEmail, KindInv, TypeOK
  <2> QED
    BY <1>19, <2>1, <2>2 DEF FindEmail, TypeOK, locks
<1>20. ASSUME NEW c \in Clients, LinkGoogle(c) PROVE TypeOK'
  <2>1. tx' \in [Clients -> Request]
    BY <1>4, <1>17, <1>20 DEF LinkGoogle, Phases
  <2>2. ASSUME accounts' = [accounts EXCEPT ![Email(c)].subject = tx[c].subject]
        PROVE  /\ accounts' \in [Emails -> User]
               /\ \A e \in Emails : accounts'[e].status = "active" => accounts'[e].verified
    <3>1. [accounts[Email(c)] EXCEPT !.subject = tx[c].subject] \in User
      BY RequestFields, UserType DEF TypeOK
    <3>2. accounts' = [accounts EXCEPT ![Email(c)] =
                         [accounts[Email(c)] EXCEPT !.subject = tx[c].subject]]
      BY <2>2, RequestFields DEF TypeOK
    <3> QED
      BY <3>1, <3>2, RequestFields DEF TypeOK, User
  <2> QED
    BY <1>20, <2>1, <2>2 DEF LinkGoogle, TypeOK, locks, google
<1>21. ASSUME NEW c \in Clients, IssueSession(c) PROVE TypeOK'
  <2>1. signedIn' \subseteq Subjects \X Emails
    BY <1>21, RequestFields DEF IssueSession, KindInv, TypeOK
  <2> QED
    BY <1>17, <1>21, <2>1 DEF IssueSession, TypeOK, locks
<1>22. ASSUME NEW e \in Emails, NEW s \in Statuses,
              accounts' = [accounts EXCEPT ![e].status = s], s = "active" => accounts[e].verified
       PROVE  /\ accounts' \in [Emails -> User]
              /\ \A f \in Emails : accounts'[f].status = "active" => accounts'[f].verified
  <2>1. [accounts[e] EXCEPT !.status = s] \in User
    BY UserType DEF TypeOK
  <2>2. accounts' = [accounts EXCEPT ![e] = [accounts[e] EXCEPT !.status = s]]
    BY <1>22 DEF TypeOK
  <2> QED
    BY <1>22, <2>1, <2>2 DEF TypeOK, User
<1>23. ASSUME NEW e \in Emails, Disable(e) \/ Enable(e) PROVE TypeOK'
  BY <1>22, <1>23 DEF Disable, Enable, Statuses, TypeOK, locks, google
<1>24. ASSUME Tick \/ UNCHANGED vars PROVE TypeOK'
  BY <1>24 DEF Tick, vars, TypeOK, locks, google
<1> QED
  BY <1>1, <1>3, <1>5, <1>6, <1>7, <1>8, <1>9, <1>10, <1>11, <1>12, <1>13, <1>14, <1>15,
     <1>16, <1>18, <1>19, <1>20, <1>21, <1>23, <1>24 DEF Next, Step

-----------------------------------------------------------------------------
(* What a step of one request leaves to the others                         *)

\* `c` is a client, or Free for an administrator or the clock.
Frame(c) ==
    /\ \A d \in Clients \ {c} : tx'[d] = tx[d]
    /\ \A d \in Clients \ {c}, e \in Emails : accountLock[e] = d => accountLock'[e] = d
    /\ \A d \in Clients \ {c}, i \in ChallengeIds :
          challengeLock[i] = d => challengeLock'[i] = d
    /\ \A e \in Emails :
          /\ accounts'[e] # accounts[e] => accountLock[e] \in {c, Free}
          /\ accounts[e] # Nobody => accounts'[e] # Nobody
          /\ accounts'[e].subject # accounts[e].subject =>
                /\ accounts[e].subject = None
                /\ \A d \in Clients \ {c} : Kind(d) = "google" /\ Phase(d) = "commit" =>
                      tx[d].subject # accounts'[e].subject
    /\ DOMAIN challenges \subseteq DOMAIN challenges'
    /\ \A i \in DOMAIN challenges :
          /\ challenges'[i].email = challenges[i].email
          /\ challenges[i].consumed => challenges'[i].consumed
          /\ challenges'[i].consumed => challenges[i].consumed \/ challengeLock[i] = c
    /\ \A i \in DOMAIN challenges' \ DOMAIN challenges :
          /\ c \in Clients /\ Issues(c) /\ i = tx[c].challenge
          /\ challenges'[i].email = Email(c)
          /\ accountLock[Email(c)] = c
    /\ mailed \subseteq mailed'
    /\ c \in Clients => \A d \in Clients \ {c} :
          /\ Issues(c)' /\ Issues(d) => tx'[c].challenge # tx[d].challenge
          /\ /\ Kind(c)' = "google" /\ Phase(c)' = "commit"
             /\ Kind(d) = "google" /\ Phase(d) = "commit"
             => tx[d].subject # tx'[c].subject

LEMMA OthersKept ==
    ASSUME IInv, NEW c \in Clients \cup {Free}, Frame(c), NEW d \in Clients, d # c
    PROVE  ClientInv(d)'
<1>1. tx'[d] = tx[d]
  BY DEF Frame
<1>2. ClientInv(d) /\ TypeOK
  BY DEF IInv
<1>3. Email(d) \in Emails
  BY <1>2, RequestFields
<1>4. KindInv(d)'
  BY <1>1, <1>2 DEF ClientInv, KindInv, Phase, Kind
<1>5. Holds(d)' = Holds(d) /\ Creates(d)' = Creates(d)
  BY <1>1 DEF Holds, Creates, Phase, Kind
<1>6. AccountInv(d)'
  <2>1. AccountInv(d)
    BY <1>2 DEF ClientInv
  <2>2. Holds(d) => accountLock'[Email(d)] = d
    BY <1>3, <2>1 DEF AccountInv, Frame
  <2>3. Creates(d) => accounts'[Email(d)] = Nobody
    <3>1. Creates(d) => Holds(d)
      BY DEF Holds
    <3>2. Creates(d) => accountLock[Email(d)] = d /\ accounts[Email(d)] = Nobody
      BY <2>1, <3>1 DEF AccountInv, Account
    <3> QED
      BY <1>3, <3>2 DEF Frame
  <2>4. accounts[Email(d)] # Nobody => accounts'[Email(d)] # Nobody
    BY <1>3 DEF Frame
  <2> QED
    BY <1>1, <1>5, <2>1, <2>2, <2>3, <2>4 DEF AccountInv, Account, Email, Kind, Phase, Nobody
<1>7. NewCodeInv(d)'
  <2>1. SUFFICES ASSUME Issues(d)' PROVE NewCodeInv(d)'
    BY DEF NewCodeInv
  <2>2. Issues(d)
    BY <1>1, <2>1 DEF Issues, Phase, Kind
  <2>3. /\ tx[d].challenge \in ChallengeIds \ DOMAIN challenges
        /\ \A b \in Clients \ {d} : Issues(b) => tx[b].challenge # tx[d].challenge
        /\ Phase(d) = "commit" => tx[d].challenge \in mailed
    BY <1>2, <2>2 DEF ClientInv, NewCodeInv
  <2>4. tx[d].challenge \notin DOMAIN challenges'
    BY <2>3 DEF Frame
  <2>5. ASSUME NEW b \in Clients \ {d}, Issues(b)' PROVE tx'[b].challenge # tx'[d].challenge
    <3>1. CASE b = c
      BY <1>1, <2>2, <2>5, <3>1 DEF Frame
    <3>2. CASE b # c
      <4>1. tx'[b] = tx[b]
        BY <3>2 DEF Frame
      <4> QED
        BY <1>1, <2>3, <2>5, <4>1 DEF Issues, Phase, Kind
    <3> QED
      BY <3>1, <3>2
  <2>6. Phase(d)' = "commit" => tx'[d].challenge \in mailed'
    BY <1>1, <2>3 DEF Frame, Phase
  <2> QED
    BY <1>1, <2>3, <2>4, <2>5, <2>6 DEF NewCodeInv
<1>8. RevokeInv(d)'
  <2>1. SUFFICES ASSUME Kind(d) = "resend"
                 PROVE  /\ Phase(d) \in {"revoke", "send", "commit"} =>
                              Open(Email(d))' \subseteq tx[d].open
                        /\ Phase(d) \in {"send", "commit"} =>
                              \A i \in tx[d].open : challengeLock'[i] = d
    BY <1>1 DEF RevokeInv, Kind, Phase, Email, Open, Of
  <2>2. RevokeInv(d) /\ AccountInv(d)
    BY <1>2 DEF ClientInv
  <2>3. ASSUME Phase(d) \in {"revoke", "send", "commit"}
        PROVE  Open(Email(d))' \subseteq tx[d].open
    <3>1. accountLock[Email(d)] = d /\ Open(Email(d)) \subseteq tx[d].open
      BY <2>1, <2>2, <2>3 DEF AccountInv, RevokeInv, Holds
    <3>2. SUFFICES ASSUME NEW i \in DOMAIN challenges', challenges'[i].email = Email(d),
                          ~challenges'[i].consumed
                   PROVE  i \in Open(Email(d))
      BY <1>1, <3>1 DEF Open, Of, Email
    <3>3. i \in DOMAIN challenges
      BY <3>1, <3>2 DEF Frame
    <3> QED
      BY <3>2, <3>3 DEF Frame, Open, Of
  <2>4. ASSUME Phase(d) \in {"send", "commit"}, NEW i \in tx[d].open
        PROVE  challengeLock'[i] = d
    <3>1. challengeLock[i] = d
      BY <2>1, <2>2, <2>4 DEF RevokeInv
    <3>2. i \in ChallengeIds
      BY <1>2, <2>4, RequestFields
    <3> QED
      BY <3>1, <3>2 DEF Frame
  <2> QED
    BY <2>3, <2>4
<1>9. ConsumeInv(d)'
  <2>1. SUFFICES ASSUME Kind(d) = "verify", Phase(d) \in {"activate", "commit"}
                 PROVE  /\ tx[d].challenge \in DOMAIN challenges'
                        /\ challenges'[tx[d].challenge].email = Email(d)
                        /\ ~challenges'[tx[d].challenge].consumed
                        /\ challengeLock'[tx[d].challenge] = d
    BY <1>1 DEF ConsumeInv, Kind, Phase, Email, Open, Of
  <2>2. tx[d].challenge \in Open(Email(d)) /\ challengeLock[tx[d].challenge] = d
    BY <1>2, <2>1 DEF ClientInv, ConsumeInv
  <2>3. tx[d].challenge \in ChallengeIds
    BY <1>2, <2>2 DEF Open, Of, TypeOK
  <2> QED
    BY <2>2, <2>3 DEF Frame, Open, Of
<1>10. IdentityInv(d)'
  <2>1. IdentityInv(d) /\ KindInv(d)
    BY <1>2 DEF ClientInv
  <2>2. Phase(d) = "session" => accounts'[Email(d)].subject = tx[d].subject
    <3>1. SUFFICES ASSUME Phase(d) = "session"
                   PROVE  accounts'[Email(d)].subject = tx[d].subject
      OBVIOUS
    <3>2. tx[d].subject \in Subjects /\ accounts[Email(d)].subject = tx[d].subject
      BY <2>1, <3>1 DEF KindInv, IdentityInv, Account
    <3>3. tx[d].subject # None
      BY <3>2
    <3> QED
      BY <1>3, <3>2, <3>3 DEF Frame
  <2>3. ASSUME Kind(d) = "google", Phase(d) = "commit"
        PROVE  AccountsOf(tx[d].subject)' = {} /\ ~BeingInserted(d)'
    <3>1. AccountsOf(tx[d].subject) = {} /\ ~BeingInserted(d)
      BY <2>1, <2>3 DEF IdentityInv
    <3>2. \A e \in Emails : accounts'[e].subject # tx[d].subject
      BY <2>3, <3>1 DEF Frame, AccountsOf
    <3>3. ASSUME NEW b \in Clients \ {d}, Kind(b)' = "google", Phase(b)' = "commit",
                 tx'[b].subject = tx'[d].subject
          PROVE  FALSE
      <4>1. CASE b = c
        BY <1>1, <2>3, <3>3, <4>1 DEF Frame
      <4>2. CASE b # c
        <5>1. tx'[b] = tx[b]
          BY <4>2 DEF Frame
        <5> QED
          BY <1>1, <3>1, <3>3, <5>1 DEF BeingInserted, Kind, Phase
      <4> QED
        BY <4>1, <4>2
    <3> QED
      BY <1>1, <3>2, <3>3 DEF AccountsOf, BeingInserted
  <2> QED
    BY <1>1, <2>2, <2>3 DEF IdentityInv, Kind, Phase, Email, Account
<1> QED
  BY <1>4, <1>6, <1>7, <1>8, <1>9, <1>10 DEF ClientInv

-----------------------------------------------------------------------------
(* Steps that leave the tables alone                                       *)

LEMMA GotoFields ==
    ASSUME TypeOK, NEW c \in Clients, NEW p, Goto(c, p)
    PROVE  /\ \A d \in Clients \ {c} : tx'[d] = tx[d]
           /\ Phase(c)' = p
           /\ Kind(c)' = Kind(c)
           /\ Email(c)' = Email(c)
           /\ tx'[c].subject = tx[c].subject
           /\ tx'[c].challenge = tx[c].challenge
           /\ tx'[c].open = tx[c].open
BY DEF TypeOK, Goto, Request, Phase, Kind, Email

LEMMA IdleFields ==
    ASSUME TypeOK, NEW c \in Clients, tx' = [tx EXCEPT ![c] = Idle]
    PROVE  /\ \A d \in Clients \ {c} : tx'[d] = tx[d]
           /\ ClientInv(c)'
           /\ ~Issues(c)' /\ Kind(c)' = "resend"
<1>1. tx'[c] = Idle /\ \A d \in Clients \ {c} : tx'[d] = tx[d]
  BY DEF TypeOK
<1>2. Phase(c)' = "idle" /\ Kind(c)' = "resend"
  BY <1>1 DEF Idle, Phase, Kind
<1> QED
  BY <1>1, <1>2 DEF ClientInv, KindInv, AccountInv, Holds, Creates, NewCodeInv, Issues, RevokeInv,
     ConsumeInv, IdentityInv

LEMMA TablesAlone ==
    ASSUME NEW c \in Clients,
           \A d \in Clients \ {c} : tx'[d] = tx[d],
           \A d \in Clients \ {c}, e \in Emails : accountLock[e] = d => accountLock'[e] = d,
           \A d \in Clients \ {c}, i \in ChallengeIds :
              challengeLock[i] = d => challengeLock'[i] = d,
           UNCHANGED <<accounts, challenges>>,
           mailed \subseteq mailed',
           \A d \in Clients \ {c} :
              Issues(c)' /\ Issues(d) => tx'[c].challenge # tx[d].challenge,
           Kind(c)' = "google" => Phase(c)' # "commit"
    PROVE  Frame(c)
BY DEF Frame

LEMMA RowsAlone ==
    ASSUME IInv, UNCHANGED <<accounts, challenges, signedIn>>, mailed \subseteq mailed'
    PROVE  RowsInv' /\ OneOpenChallenge' /\ CodesWereMailed'
BY DEF IInv, RowsInv, OneOpenChallenge, Open, Of, CodesWereMailed

\* What a step of c has to show.
Kept(c) ==
    /\ Frame(c)
    /\ ClientInv(c)'
    /\ RowsInv' /\ OneOpenChallenge' /\ CodesWereMailed'

LEMMA FinishKept ==
    ASSUME IInv, NEW c \in Clients, Finish(c), UNCHANGED <<accounts, challenges, signedIn, mailed>>
    PROVE  Kept(c)
<1>1. TypeOK
  BY DEF IInv
<1>2. /\ \A d \in Clients \ {c} : tx'[d] = tx[d]
      /\ ClientInv(c)'
      /\ ~Issues(c)' /\ Kind(c)' = "resend"
  BY <1>1, IdleFields DEF Finish
<1>3. /\ \A d \in Clients \ {c}, e \in Emails : accountLock[e] = d => accountLock'[e] = d
      /\ \A d \in Clients \ {c}, i \in ChallengeIds :
            challengeLock[i] = d => challengeLock'[i] = d
  BY DEF Finish, Release
<1>4. Frame(c)
  BY <1>2, <1>3, TablesAlone
<1> QED
  BY <1>2, <1>4, RowsAlone DEF Kept

LEMMA SendKept ==
    ASSUME IInv, NEW c \in Clients, NEW kind \in Kinds, NEW email \in Emails,
           NEW subject \in Subjects \cup {None}, NEW code \in ChallengeIds \cup {None},
           Send(c, kind, email, subject, code)
    PROVE  Kept(c)
<1> DEFINE r == [Idle EXCEPT
                   !.phase = CASE kind \in {"register", "google"} -> "insert"
                               [] kind \in {"resend", "verify"} -> "account"
                               [] kind = "login" -> "subject",
                   !.kind = kind, !.email = email, !.subject = subject,
                   !.code = code, !.checkedAt = now]
<1>1. /\ tx' = [tx EXCEPT ![c] = r]
      /\ kind \in {"google", "login"} <=> subject # None
      /\ UNCHANGED <<accounts, challenges, accountLock, challengeLock, mailed, signedIn>>
  BY DEF Send, locks, google
<1>2. tx'[c] = r /\ \A d \in Clients \ {c} : tx'[d] = tx[d]
  BY <1>1 DEF IInv, TypeOK
<1>3. /\ r.kind = kind /\ r.subject = subject
      /\ kind \in {"register", "google"} => r.phase = "insert"
      /\ kind \in {"resend", "verify"} => r.phase = "account"
      /\ kind = "login" => r.phase = "subject"
  BY DEF Idle, Kinds
<1>4. Kind(c)' = kind /\ Phase(c)' = r.phase /\ tx'[c].subject = subject
  BY <1>2, <1>3 DEF Kind, Phase
<1>5. Phase(c)' \in {"insert", "account", "subject"}
  BY <1>3, <1>4 DEF Kinds
<1>6. KindInv(c)'
  BY <1>1, <1>3, <1>4, <1>5 DEF KindInv, Kinds
<1>7. ClientInv(c)' /\ ~Issues(c)'
  BY <1>3, <1>4, <1>5, <1>6 DEF ClientInv, AccountInv, Holds, Creates, NewCodeInv, Issues,
     RevokeInv, ConsumeInv, IdentityInv
<1>8. Frame(c)
  BY <1>1, <1>2, <1>5, <1>7, TablesAlone
<1> QED
  BY <1>1, <1>7, <1>8, RowsAlone DEF Kept

LEMMA InsertKept == ASSUME IInv, NEW c \in Clients, InsertAccount(c) PROVE Kept(c)
<1>1. /\ TypeOK /\ ClientInv(c)
      /\ Phase(c) = "insert" /\ accountLock[Email(c)] = Free
      /\ Account(c) = Nobody
      /\ Kind(c) = "google" => AccountsOf(tx[c].subject) = {} /\ ~BeingInserted(c)
      /\ accountLock' = [accountLock EXCEPT ![Email(c)] = c]
      /\ UNCHANGED <<accounts, challenges, challengeLock, mailed, signedIn>>
  BY DEF IInv, InsertAccount, MayInsert, Taken, google
<1>2. Email(c) \in Emails
  BY <1>1, RequestFields
<1>3. /\ accountLock'[Email(c)] = c
      /\ \A d \in Clients \ {c}, e \in Emails : accountLock[e] = d => accountLock'[e] = d
  BY <1>1, <1>2 DEF TypeOK
<1>4. CASE Kind(c) = "google" /\ Goto(c, "commit")
  <2>1. /\ \A d \in Clients \ {c} : tx'[d] = tx[d]
        /\ Phase(c)' = "commit" /\ Kind(c)' = "google"
        /\ Email(c)' = Email(c) /\ tx'[c].subject = tx[c].subject
    BY <1>1, <1>4, GotoFields
  <2>2. \A d \in Clients \ {c} :
           Kind(d) = "google" /\ Phase(d) = "commit" => tx[d].subject # tx[c].subject
    BY <1>1, <1>4 DEF BeingInserted
  <2>3. Frame(c)
    BY <1>1, <1>3, <2>1, <2>2 DEF Frame, Issues
  <2>4. KindInv(c)'
    BY <1>1, <1>4, <2>1 DEF ClientInv, KindInv
  <2>5. AccountInv(c)'
    BY <1>1, <1>3, <2>1 DEF AccountInv, Account
  <2>6. IdentityInv(c)'
    <3>1. AccountsOf(tx[c].subject)' = {}
      BY <1>1, <1>4, <2>1 DEF AccountsOf
    <3>2. ~BeingInserted(c)'
      BY <2>1, <2>2 DEF BeingInserted, Kind, Phase
    <3> QED
      BY <2>1, <3>1, <3>2 DEF IdentityInv, AccountsOf
  <2>7. NewCodeInv(c)' /\ RevokeInv(c)' /\ ConsumeInv(c)'
    BY <2>1 DEF NewCodeInv, Issues, RevokeInv, ConsumeInv
  <2> QED
    BY <1>1, <2>3, <2>4, <2>5, <2>6, <2>7, RowsAlone DEF Kept, ClientInv
<1>5. CASE /\ Kind(c) = "register"
           /\ \E i \in Unused : tx' = [tx EXCEPT ![c].phase = "send", ![c].challenge = i]
  <2>1. PICK i \in Unused : tx' = [tx EXCEPT ![c].phase = "send", ![c].challenge = i]
    BY <1>5
  <2>2. /\ i \in ChallengeIds \ DOMAIN challenges
        /\ \A d \in Clients : tx[d].challenge # i
    BY DEF Unused
  <2>3. /\ \A d \in Clients \ {c} : tx'[d] = tx[d]
        /\ Phase(c)' = "send" /\ Kind(c)' = "register"
        /\ Email(c)' = Email(c) /\ tx'[c].challenge = i
    BY <1>1, <1>5, <2>1 DEF TypeOK, Request, Phase, Kind, Email
  <2>4. Frame(c)
    BY <1>1, <1>3, <2>2, <2>3, TablesAlone
  <2>5. KindInv(c)'
    BY <2>3 DEF KindInv
  <2>6. AccountInv(c)'
    BY <1>1, <1>3, <2>3 DEF AccountInv, Account
  <2>7. NewCodeInv(c)'
    BY <1>1, <2>2, <2>3 DEF NewCodeInv, Issues, Kind, Phase
  <2>8. RevokeInv(c)' /\ ConsumeInv(c)' /\ IdentityInv(c)'
    BY <2>3 DEF RevokeInv, ConsumeInv, IdentityInv
  <2> QED
    BY <1>1, <2>4, <2>5, <2>6, <2>7, <2>8, RowsAlone DEF Kept, ClientInv
<1> QED
  BY <1>4, <1>5 DEF InsertAccount

LEMMA ReadAccountKept == ASSUME IInv, NEW c \in Clients, ReadAccount(c) PROVE Kept(c)
<1> DEFINE p == IF Kind(c) = "resend" THEN "cooldown" ELSE "latest"
<1>1. /\ TypeOK /\ ClientInv(c)
      /\ Phase(c) = "account" /\ Account(c).status = "pending"
      /\ Goto(c, p)
      /\ UNCHANGED <<accounts, challenges, accountLock, challengeLock, mailed, signedIn>>
  BY DEF IInv, ReadAccount, locks, google
<1>2. /\ \A d \in Clients \ {c} : tx'[d] = tx[d]
      /\ Phase(c)' = p /\ Kind(c)' = Kind(c) /\ Email(c)' = Email(c)
      /\ tx'[c].subject = tx[c].subject
  BY <1>1, GotoFields
<1>3. Kind(c) \in {"resend", "verify"} /\ Account(c) # Nobody
  BY <1>1 DEF ClientInv, KindInv, Nobody
<1>4. ClientInv(c)'
  BY <1>1, <1>2, <1>3 DEF ClientInv, KindInv, AccountInv, Account, Holds, Creates, NewCodeInv,
     Issues, RevokeInv, ConsumeInv, IdentityInv
<1>5. Frame(c)
  BY <1>1, <1>2, <1>3, TablesAlone DEF Issues
<1> QED
  BY <1>1, <1>4, <1>5, RowsAlone DEF Kept

LEMMA CheckCooldownKept == ASSUME IInv, NEW c \in Clients, CheckCooldown(c) PROVE Kept(c)
<1>1. /\ TypeOK /\ ClientInv(c)
      /\ Phase(c) = "cooldown"
      /\ Goto(c, "lock")
      /\ UNCHANGED <<accounts, challenges, accountLock, challengeLock, mailed, signedIn>>
  BY DEF IInv, CheckCooldown, locks, google
<1>2. /\ \A d \in Clients \ {c} : tx'[d] = tx[d]
      /\ Phase(c)' = "lock" /\ Kind(c)' = Kind(c) /\ Email(c)' = Email(c)
  BY <1>1, GotoFields
<1>3. Kind(c) = "resend" /\ Account(c) # Nobody
  BY <1>1 DEF ClientInv, KindInv, AccountInv
<1>4. ClientInv(c)'
  BY <1>1, <1>2, <1>3 DEF ClientInv, KindInv, AccountInv, Account, Holds, Creates, NewCodeInv,
     Issues, RevokeInv, ConsumeInv, IdentityInv
<1>5. Frame(c)
  BY <1>1, <1>2, <1>3, TablesAlone DEF Issues
<1> QED
  BY <1>1, <1>4, <1>5, RowsAlone DEF Kept

LEMMA LockAccountKept == ASSUME IInv, NEW c \in Clients, LockAccount(c) PROVE Kept(c)
<1>1. /\ TypeOK /\ ClientInv(c)
      /\ Phase(c) = "lock" /\ accountLock[Email(c)] = Free
      /\ accountLock' = [accountLock EXCEPT ![Email(c)] = c]
      /\ Goto(c, "snapshot")
      /\ UNCHANGED <<accounts, challenges, challengeLock, mailed, signedIn>>
  BY DEF IInv, LockAccount, AccountLocked, google
<1>2. /\ \A d \in Clients \ {c} : tx'[d] = tx[d]
      /\ Phase(c)' = "snapshot" /\ Kind(c)' = Kind(c) /\ Email(c)' = Email(c)
  BY <1>1, GotoFields
<1>3. Kind(c) = "resend" /\ Account(c) # Nobody
  BY <1>1 DEF ClientInv, KindInv, AccountInv
<1>4. /\ accountLock'[Email(c)] = c
      /\ \A d \in Clients \ {c}, e \in Emails : accountLock[e] = d => accountLock'[e] = d
  BY <1>1, RequestFields DEF TypeOK
<1>5. ClientInv(c)'
  BY <1>1, <1>2, <1>3, <1>4 DEF ClientInv, KindInv, AccountInv, Account, Holds, Creates,
     NewCodeInv, Issues, RevokeInv, ConsumeInv, IdentityInv
<1>6. Frame(c)
  BY <1>1, <1>2, <1>3, <1>4, TablesAlone DEF Issues
<1> QED
  BY <1>1, <1>5, <1>6, RowsAlone DEF Kept

LEMMA SnapshotKept == ASSUME IInv, NEW c \in Clients, Snapshot(c) PROVE Kept(c)
<1>1. /\ TypeOK /\ ClientInv(c)
      /\ Phase(c) = "snapshot"
      /\ tx' = [tx EXCEPT ![c].phase = "revoke", ![c].open = Open(Email(c))]
      /\ UNCHANGED <<accounts, challenges, accountLock, challengeLock, mailed, signedIn>>
  BY DEF IInv, Snapshot, locks, google
<1>2. /\ \A d \in Clients \ {c} : tx'[d] = tx[d]
      /\ Phase(c)' = "revoke" /\ Kind(c)' = Kind(c) /\ Email(c)' = Email(c)
      /\ tx'[c].open = Open(Email(c))
  BY <1>1 DEF TypeOK, Request, Phase, Kind, Email
<1>3. Kind(c) = "resend" /\ Account(c) # Nobody /\ accountLock[Email(c)] = c
  BY <1>1 DEF ClientInv, KindInv, AccountInv, Holds
<1>4. Open(Email(c))' = Open(Email(c))
  BY <1>1, <1>2 DEF Open, Of
<1>5. ClientInv(c)'
  BY <1>1, <1>2, <1>3, <1>4 DEF ClientInv, KindInv, AccountInv, Account, Holds, Creates,
     NewCodeInv, Issues, RevokeInv, ConsumeInv, IdentityInv
<1>6. Frame(c)
  BY <1>1, <1>2, <1>3, TablesAlone DEF Issues
<1> QED
  BY <1>1, <1>5, <1>6, RowsAlone DEF Kept

LEMMA RevokeAndInsertKept == ASSUME IInv, NEW c \in Clients, RevokeAndInsert(c) PROVE Kept(c)
<1>1. /\ TypeOK /\ ClientInv(c)
      /\ Phase(c) = "revoke"
      /\ \A i \in tx[c].open : challengeLock[i] = Free
      /\ challengeLock' = [i \in ChallengeIds |->
                              IF i \in tx[c].open THEN c ELSE challengeLock[i]]
      /\ UNCHANGED <<accounts, challenges, accountLock, mailed, signedIn>>
  BY DEF IInv, RevokeAndInsert, google
<1>2. PICK i \in Unused : tx' = [tx EXCEPT ![c].phase = "send", ![c].challenge = i]
  BY DEF RevokeAndInsert, AfterIssue
<1>3. /\ i \in ChallengeIds \ DOMAIN challenges
      /\ \A d \in Clients : tx[d].challenge # i
  BY DEF Unused
<1>4. /\ \A d \in Clients \ {c} : tx'[d] = tx[d]
      /\ Phase(c)' = "send" /\ Kind(c)' = Kind(c) /\ Email(c)' = Email(c)
      /\ tx'[c].challenge = i /\ tx'[c].open = tx[c].open
  BY <1>1, <1>2 DEF TypeOK, Request, Phase, Kind, Email
<1>5. /\ Kind(c) = "resend" /\ Account(c) # Nobody /\ accountLock[Email(c)] = c
      /\ Open(Email(c)) \subseteq tx[c].open
  BY <1>1 DEF ClientInv, KindInv, AccountInv, Holds, RevokeInv
<1>6. \A j \in tx[c].open : challengeLock'[j] = c
  BY <1>1, RequestFields
<1>7. Open(Email(c))' = Open(Email(c))
  BY <1>1, <1>4 DEF Open, Of
<1>8. NewCodeInv(c)'
  BY <1>1, <1>3, <1>4 DEF NewCodeInv, Issues, Kind, Phase
<1>9. ClientInv(c)'
  BY <1>1, <1>4, <1>5, <1>6, <1>7, <1>8 DEF ClientInv, KindInv, AccountInv, Account, Holds, Creates,
     RevokeInv, ConsumeInv, IdentityInv
<1>10. \A d \in Clients \ {c}, j \in ChallengeIds : challengeLock[j] = d => challengeLock'[j] = d
  BY <1>1
<1>11. Frame(c)
  BY <1>1, <1>3, <1>4, <1>5, <1>10, TablesAlone
<1> QED
  BY <1>1, <1>9, <1>11, RowsAlone DEF Kept

LEMMA SendEmailKept == ASSUME IInv, NEW c \in Clients, SendEmail(c) PROVE Kept(c)
<1>1. /\ TypeOK /\ ClientInv(c)
      /\ Phase(c) = "send"
      /\ mailed' = mailed \cup {tx[c].challenge}
      /\ Goto(c, "commit")
      /\ UNCHANGED <<accounts, challenges, accountLock, challengeLock, signedIn>>
  BY DEF IInv, SendEmail, locks, google
<1>2. /\ \A d \in Clients \ {c} : tx'[d] = tx[d]
      /\ Phase(c)' = "commit" /\ Kind(c)' = Kind(c) /\ Email(c)' = Email(c)
      /\ tx'[c].challenge = tx[c].challenge /\ tx'[c].open = tx[c].open
  BY <1>1, GotoFields
<1>3. Kind(c) \in {"register", "resend"} /\ Issues(c)
  BY <1>1 DEF ClientInv, KindInv, Issues
<1>4. /\ tx[c].challenge \in ChallengeIds \ DOMAIN challenges
      /\ \A d \in Clients \ {c} : Issues(d) => tx[d].challenge # tx[c].challenge
  BY <1>1, <1>3 DEF ClientInv, NewCodeInv
<1>5. KindInv(c)'
  BY <1>2, <1>3 DEF KindInv
<1>6. AccountInv(c)'
  BY <1>1, <1>2, <1>3 DEF ClientInv, AccountInv, Account, Holds, Creates
<1>7. NewCodeInv(c)'
  BY <1>1, <1>2, <1>3, <1>4 DEF NewCodeInv, Issues, Kind, Phase
<1>8. RevokeInv(c)'
  <2>1. Open(Email(c))' = Open(Email(c))
    BY <1>1, <1>2 DEF Open, Of
  <2> QED
    BY <1>1, <1>2, <2>1 DEF ClientInv, RevokeInv
<1>9. ConsumeInv(c)' /\ IdentityInv(c)'
  BY <1>2, <1>3 DEF ConsumeInv, IdentityInv
<1>10. Frame(c)
  BY <1>1, <1>2, <1>3, <1>4, TablesAlone
<1> QED
  BY <1>1, <1>5, <1>6, <1>7, <1>8, <1>9, <1>10, RowsAlone DEF Kept, ClientInv

LEMMA FindLatestKept == ASSUME IInv, NEW c \in Clients, FindLatest(c) PROVE Kept(c)
<1> DEFINE i == Latest(Email(c))
           p == IF tx[c].code = i THEN "consume" ELSE "count"
<1>1. /\ TypeOK /\ ClientInv(c)
      /\ Phase(c) = "latest"
      /\ tx' = [tx EXCEPT ![c].challenge = i, ![c].phase = p]
      /\ UNCHANGED <<accounts, challenges, accountLock, challengeLock, mailed, signedIn>>
  BY DEF IInv, FindLatest, locks, google
<1> HIDE DEF i
<1>2. /\ \A d \in Clients \ {c} : tx'[d] = tx[d]
      /\ Phase(c)' = p /\ Kind(c)' = Kind(c) /\ Email(c)' = Email(c)
  BY <1>1 DEF TypeOK, Request, Phase, Kind, Email
<1>3. Kind(c) = "verify"
  BY <1>1 DEF ClientInv, KindInv
<1>4. ClientInv(c)'
  BY <1>1, <1>2, <1>3 DEF ClientInv, KindInv, AccountInv, Account, Holds, Creates, NewCodeInv,
     Issues, RevokeInv, ConsumeInv, IdentityInv
<1>5. Frame(c)
  BY <1>1, <1>2, <1>3, TablesAlone DEF Issues
<1> QED
  BY <1>1, <1>4, <1>5, RowsAlone DEF Kept

LEMMA ConsumeKept == ASSUME IInv, NEW c \in Clients, Consume(c) PROVE Kept(c)
<1>1. /\ TypeOK /\ ClientInv(c)
      /\ Phase(c) = "consume" /\ challengeLock[tx[c].challenge] = Free
      /\ tx[c].challenge \in Open(Email(c))
      /\ challengeLock' = [challengeLock EXCEPT ![tx[c].challenge] = c]
      /\ Goto(c, "activate")
      /\ UNCHANGED <<accounts, challenges, accountLock, mailed, signedIn>>
  BY DEF IInv, Consume, Consumable, google
<1>2. /\ \A d \in Clients \ {c} : tx'[d] = tx[d]
      /\ Phase(c)' = "activate" /\ Kind(c)' = Kind(c) /\ Email(c)' = Email(c)
      /\ tx'[c].challenge = tx[c].challenge
  BY <1>1, GotoFields
<1>3. Kind(c) = "verify" /\ tx[c].challenge \in ChallengeIds
  BY <1>1 DEF ClientInv, KindInv, Open, Of, TypeOK
<1>4. /\ challengeLock'[tx[c].challenge] = c
      /\ \A d \in Clients \ {c}, i \in ChallengeIds :
            challengeLock[i] = d => challengeLock'[i] = d
  BY <1>1, <1>3 DEF TypeOK
<1>5. ConsumeInv(c)'
  BY <1>1, <1>2, <1>4 DEF ConsumeInv, Open, Of
<1>6. ClientInv(c)'
  BY <1>1, <1>2, <1>3, <1>5 DEF ClientInv, KindInv, AccountInv, Account, Holds, Creates,
     NewCodeInv, Issues, RevokeInv, IdentityInv
<1>7. Frame(c)
  BY <1>1, <1>2, <1>3, <1>4, TablesAlone DEF Issues
<1> QED
  BY <1>1, <1>6, <1>7, RowsAlone DEF Kept

LEMMA ActivateKept == ASSUME IInv, NEW c \in Clients, Activate(c) PROVE Kept(c)
<1>1. /\ TypeOK /\ ClientInv(c)
      /\ Phase(c) = "activate" /\ accountLock[Email(c)] = Free
      /\ accountLock' = [accountLock EXCEPT ![Email(c)] = c]
      /\ Goto(c, "commit")
      /\ UNCHANGED <<accounts, challenges, challengeLock, mailed, signedIn>>
  BY DEF IInv, Activate, google
<1>2. /\ \A d \in Clients \ {c} : tx'[d] = tx[d]
      /\ Phase(c)' = "commit" /\ Kind(c)' = Kind(c) /\ Email(c)' = Email(c)
      /\ tx'[c].challenge = tx[c].challenge
  BY <1>1, GotoFields
<1>3. /\ Kind(c) = "verify"
      /\ tx[c].challenge \in Open(Email(c)) /\ challengeLock[tx[c].challenge] = c
  BY <1>1 DEF ClientInv, KindInv, ConsumeInv
<1>4. /\ accountLock'[Email(c)] = c
      /\ \A d \in Clients \ {c}, e \in Emails : accountLock[e] = d => accountLock'[e] = d
  BY <1>1, RequestFields DEF TypeOK
<1>5. ConsumeInv(c)'
  BY <1>1, <1>2, <1>3 DEF ConsumeInv, Open, Of
<1>6. ClientInv(c)'
  BY <1>1, <1>2, <1>3, <1>4, <1>5 DEF ClientInv, KindInv, AccountInv, Account, Holds, Creates,
     NewCodeInv, Issues, RevokeInv, IdentityInv
<1>7. Frame(c)
  BY <1>1, <1>2, <1>3, <1>4, TablesAlone DEF Issues
<1> QED
  BY <1>1, <1>6, <1>7, RowsAlone DEF Kept

LEMMA FindSubjectKept == ASSUME IInv, NEW c \in Clients, FindSubject(c) PROVE Kept(c)
<1>1. /\ TypeOK /\ ClientInv(c)
      /\ Phase(c) = "subject"
      /\ UNCHANGED <<accounts, challenges, accountLock, challengeLock, mailed, signedIn>>
  BY DEF IInv, FindSubject, locks, google
<1>2. Kind(c) = "login" /\ tx[c].subject \in Subjects
  BY <1>1 DEF ClientInv, KindInv
<1>3. CASE Goto(c, "email")
  <2>1. /\ \A d \in Clients \ {c} : tx'[d] = tx[d]
        /\ Phase(c)' = "email" /\ Kind(c)' = "login"
        /\ tx'[c].subject = tx[c].subject
    BY <1>1, <1>2, <1>3, GotoFields
  <2>2. ClientInv(c)'
    BY <1>2, <2>1 DEF ClientInv, KindInv, AccountInv, Holds, Creates, NewCodeInv, Issues,
       RevokeInv, ConsumeInv, IdentityInv
  <2>3. Frame(c)
    BY <1>1, <2>1, TablesAlone DEF Issues
  <2> QED
    BY <1>1, <2>2, <2>3, RowsAlone DEF Kept
<1>4. CASE Answer(c)
  <2>1. /\ \A d \in Clients \ {c} : tx'[d] = tx[d]
        /\ ClientInv(c)' /\ ~Issues(c)' /\ Kind(c)' = "resend"
    BY <1>1, <1>4, IdleFields DEF Answer
  <2>2. Frame(c)
    BY <1>1, <2>1, TablesAlone
  <2> QED
    BY <1>1, <2>1, <2>2, RowsAlone DEF Kept
<1>5. CASE \E e \in AccountsOf(tx[c].subject) :
              tx' = [tx EXCEPT ![c].phase = "session", ![c].email = e]
  <2>1. PICK e \in AccountsOf(tx[c].subject) :
           tx' = [tx EXCEPT ![c].phase = "session", ![c].email = e]
    BY <1>5
  <2>2. /\ \A d \in Clients \ {c} : tx'[d] = tx[d]
        /\ Phase(c)' = "session" /\ Kind(c)' = "login" /\ Email(c)' = e
        /\ tx'[c].subject = tx[c].subject
    BY <1>1, <1>2, <2>1 DEF TypeOK, Request, Phase, Kind, Email
  <2>3. IdentityInv(c)'
    BY <1>1, <2>2 DEF IdentityInv, Account, AccountsOf
  <2>4. ClientInv(c)'
    BY <1>2, <2>2, <2>3 DEF ClientInv, KindInv, AccountInv, Holds, Creates, NewCodeInv, Issues,
       RevokeInv, ConsumeInv
  <2>5. Frame(c)
    BY <1>1, <2>2, TablesAlone DEF Issues
  <2> QED
    BY <1>1, <2>4, <2>5, RowsAlone DEF Kept
<1> QED
  BY <1>3, <1>4, <1>5 DEF FindSubject

LEMMA FindEmailKept == ASSUME IInv, NEW c \in Clients, FindEmail(c) PROVE Kept(c)
<1>1. /\ TypeOK /\ ClientInv(c)
      /\ Phase(c) = "email"
      /\ UNCHANGED <<accounts, challenges, accountLock, challengeLock, mailed, signedIn>>
  BY DEF IInv, FindEmail, locks
<1>2. Kind(c) = "login" /\ tx[c].subject \in Subjects
  BY <1>1 DEF ClientInv, KindInv
<1>3. CASE Goto(c, "link")
  <2>1. /\ \A d \in Clients \ {c} : tx'[d] = tx[d]
        /\ Phase(c)' = "link" /\ Kind(c)' = "login"
        /\ tx'[c].subject = tx[c].subject
    BY <1>1, <1>2, <1>3, GotoFields
  <2>2. ClientInv(c)'
    BY <1>2, <2>1 DEF ClientInv, KindInv, AccountInv, Holds, Creates, NewCodeInv, Issues,
       RevokeInv, ConsumeInv, IdentityInv
  <2>3. Frame(c)
    BY <1>1, <2>1, TablesAlone DEF Issues
  <2> QED
    BY <1>1, <2>2, <2>3, RowsAlone DEF Kept
<1>4. CASE Answer(c)
  <2>1. /\ \A d \in Clients \ {c} : tx'[d] = tx[d]
        /\ ClientInv(c)' /\ ~Issues(c)' /\ Kind(c)' = "resend"
    BY <1>1, <1>4, IdleFields DEF Answer
  <2>2. Frame(c)
    BY <1>1, <2>1, TablesAlone
  <2> QED
    BY <1>1, <2>1, <2>2, RowsAlone DEF Kept
<1> QED
  BY <1>3, <1>4 DEF FindEmail

LEMMA IssueSessionKept == ASSUME IInv, NEW c \in Clients, IssueSession(c) PROVE Kept(c)
<1>1. /\ TypeOK /\ ClientInv(c)
      /\ Phase(c) = "session"
      /\ signedIn' = signedIn \cup {<<tx[c].subject, Email(c)>>}
      /\ tx' = [tx EXCEPT ![c] = Idle]
      /\ UNCHANGED <<accounts, challenges, accountLock, challengeLock, mailed>>
  BY DEF IInv, IssueSession, Answer, locks
<1>2. /\ \A d \in Clients \ {c} : tx'[d] = tx[d]
      /\ ClientInv(c)' /\ ~Issues(c)' /\ Kind(c)' = "resend"
  BY <1>1, IdleFields
<1>3. Frame(c)
  BY <1>1, <1>2, TablesAlone
<1>4. accounts[Email(c)].subject = tx[c].subject
  BY <1>1 DEF ClientInv, IdentityInv, Account
<1>5. RowsInv'
  BY <1>1, <1>4 DEF IInv, RowsInv
<1>6. OneOpenChallenge' /\ CodesWereMailed'
  BY <1>1 DEF IInv, OneOpenChallenge, Open, Of, CodesWereMailed
<1> QED
  BY <1>2, <1>3, <1>5, <1>6 DEF Kept

-----------------------------------------------------------------------------
(* Steps that write accounts                                               *)

\* Writing one account keeps the rows when its email stays taken and only a
\* free identity is added.
LEMMA AccountRows ==
    ASSUME IInv, NEW e \in Emails, NEW a \in User,
           accounts' = [accounts EXCEPT ![e] = a],
           a # Nobody,
           accounts[e].subject # None => a.subject = accounts[e].subject,
           a.subject # None => AccountsOf(a.subject) \subseteq {e},
           \A i \in DOMAIN challenges' :
              /\ challenges'[i].email \in Emails
              /\ challenges'[i].email = e \/ accounts[challenges'[i].email] # Nobody,
           \A p \in signedIn' \ signedIn : p = <<a.subject, e>>
    PROVE  RowsInv'
<1>1. /\ accounts'[e] = a
      /\ \A f \in Emails \ {e} : accounts'[f] = accounts[f]
      /\ signedIn \subseteq Subjects \X Emails
      /\ RowsInv
  BY DEF IInv, TypeOK
<1>2. \A i \in DOMAIN challenges' : accounts'[challenges'[i].email] # Nobody
  BY <1>1
<1>3. \A f, g \in Emails :
         accounts'[f].subject = accounts'[g].subject /\ accounts'[f].subject # None => f = g
  BY <1>1 DEF RowsInv, AccountsOf
<1>4. \A p \in signedIn' : accounts'[p[2]].subject = p[1]
  <2>1. SUFFICES ASSUME NEW p \in signedIn' PROVE accounts'[p[2]].subject = p[1]
    OBVIOUS
  <2>2. CASE p \in signedIn
    <3>1. accounts[p[2]].subject = p[1] /\ p[1] \in Subjects /\ p[2] \in Emails
      BY <1>1, <2>2 DEF RowsInv
    <3>2. p[1] # None
      BY <3>1
    <3> QED
      BY <1>1, <3>1, <3>2
  <2>3. CASE p \notin signedIn
    BY <1>1, <2>1, <2>3
  <2> QED
    BY <2>2, <2>3
<1> QED
  BY <1>2, <1>3, <1>4 DEF RowsInv

LEMMA AccountWritten ==
    ASSUME IInv, NEW e \in Emails, NEW a \in User,
           accounts' = [accounts EXCEPT ![e] = a],
           a # Nobody,
           accounts[e].subject # None => a.subject = accounts[e].subject,
           a.subject # None => AccountsOf(a.subject) \subseteq {e},
           UNCHANGED <<challenges, mailed, signedIn>>
    PROVE  RowsInv' /\ OneOpenChallenge' /\ CodesWereMailed'
<1>1. \A i \in DOMAIN challenges' :
         challenges'[i].email \in Emails /\ accounts[challenges'[i].email] # Nobody
  BY DEF IInv, TypeOK, Challenge, RowsInv
<1>2. RowsInv'
  BY <1>1, AccountRows
<1> QED
  BY <1>2 DEF IInv, OneOpenChallenge, Open, Of, CodesWereMailed

LEMMA LinkKept == ASSUME IInv, NEW c \in Clients, LinkGoogle(c) PROVE Kept(c)
<1>1. /\ TypeOK /\ ClientInv(c)
      /\ Phase(c) = "link" /\ accountLock[Email(c)] = Free
      /\ ~BeingInserted(c)
      /\ UNCHANGED <<challenges, accountLock, challengeLock, mailed, signedIn>>
  BY DEF IInv, LinkGoogle, locks, google
<1>2. /\ Kind(c) = "login" /\ tx[c].subject \in Subjects
      /\ Email(c) \in Emails /\ accounts[Email(c)] \in User
  BY <1>1, RequestFields DEF ClientInv, KindInv, TypeOK
<1>3. CASE /\ Linkable(c) /\ AccountsOf(tx[c].subject) \subseteq {Email(c)}
           /\ accounts' = [accounts EXCEPT ![Email(c)].subject = tx[c].subject]
           /\ Goto(c, "session")
  <2> DEFINE a == [accounts[Email(c)] EXCEPT !.subject = tx[c].subject]
  <2>1. /\ a \in User /\ a.subject = tx[c].subject /\ a.status = "active"
        /\ accounts' = [accounts EXCEPT ![Email(c)] = a]
        /\ accounts[Email(c)].subject \in {None, tx[c].subject}
    BY <1>1, <1>2, <1>3, UserType DEF Linkable, Account, User, TypeOK
  <2>2. a # Nobody
    BY <2>1 DEF Nobody
  <2> HIDE DEF a
  <2>3. /\ \A d \in Clients \ {c} : tx'[d] = tx[d]
        /\ Phase(c)' = "session" /\ Kind(c)' = "login" /\ Email(c)' = Email(c)
        /\ tx'[c].subject = tx[c].subject
    BY <1>1, <1>2, <1>3, GotoFields
  <2>4. RowsInv' /\ OneOpenChallenge' /\ CodesWereMailed'
    <3>1. accounts[Email(c)].subject # None => a.subject = accounts[Email(c)].subject
      BY <2>1
    <3>2. AccountsOf(a.subject) \subseteq {Email(c)}
      BY <1>3, <2>1
    <3>3. UNCHANGED <<challenges, mailed, signedIn>>
      BY <1>1
    <3> QED
      BY <1>2, <2>1, <2>2, <3>1, <3>2, <3>3, AccountWritten
  <2>5. accounts'[Email(c)] = a /\ \A e \in Emails \ {Email(c)} : accounts'[e] = accounts[e]
    BY <1>1, <1>2, <2>1 DEF TypeOK
  <2>6. IdentityInv(c)'
    BY <2>1, <2>3, <2>5 DEF IdentityInv, Account
  <2>7. ClientInv(c)'
    BY <1>2, <2>3, <2>6 DEF ClientInv, KindInv, AccountInv, Holds, Creates, NewCodeInv, Issues,
       RevokeInv, ConsumeInv
  <2>8. \A d \in Clients \ {c} : Kind(d) = "google" /\ Phase(d) = "commit" =>
           tx[d].subject # tx[c].subject
    BY <1>1 DEF BeingInserted
  <2>9. Frame(c)
    BY <1>1, <2>1, <2>2, <2>3, <2>5, <2>8 DEF Frame, Issues
  <2> QED
    BY <2>4, <2>7, <2>9 DEF Kept
<1>4. CASE UNCHANGED accounts /\ Answer(c)
  <2>1. /\ \A d \in Clients \ {c} : tx'[d] = tx[d]
        /\ ClientInv(c)' /\ ~Issues(c)' /\ Kind(c)' = "resend"
    BY <1>1, <1>4, IdleFields DEF Answer
  <2>2. Frame(c)
    BY <1>1, <1>4, <2>1, TablesAlone
  <2> QED
    BY <1>1, <1>4, <2>1, <2>2, RowsAlone DEF Kept
<1> QED
  BY <1>3, <1>4 DEF LinkGoogle

LEMMA AdministratorKept ==
    ASSUME IInv, NEW e \in Emails, Disable(e) \/ Enable(e)
    PROVE  Frame(Free) /\ RowsInv' /\ OneOpenChallenge' /\ CodesWereMailed'
<1>1. PICK s \in {"disabled", "active"} : accounts' = [accounts EXCEPT ![e].status = s]
  BY DEF Disable, Enable
<1>2. /\ TypeOK /\ accounts[e] \in User /\ accountLock[e] = Free
      /\ UNCHANGED <<challenges, accountLock, challengeLock, tx, mailed, signedIn>>
  BY DEF IInv, TypeOK, Disable, Enable, locks, google
<1> DEFINE a == [accounts[e] EXCEPT !.status = s]
<1>3. /\ a \in User /\ a.status = s /\ a.subject = accounts[e].subject
      /\ accounts' = [accounts EXCEPT ![e] = a]
  BY <1>1, <1>2, UserType DEF User, Statuses, TypeOK
<1>4. a # Nobody
  BY <1>3 DEF Nobody
<1> HIDE DEF a
<1>5. a.subject # None => AccountsOf(a.subject) \subseteq {e}
  BY <1>3 DEF IInv, RowsInv, AccountsOf
<1>6. RowsInv' /\ OneOpenChallenge' /\ CodesWereMailed'
  BY <1>2, <1>3, <1>4, <1>5, AccountWritten
<1>7. accounts'[e] = a /\ \A f \in Emails \ {e} : accounts'[f] = accounts[f]
  BY <1>2, <1>3 DEF TypeOK
<1>8. Frame(Free)
  BY <1>2, <1>3, <1>4, <1>7 DEF Frame
<1> QED
  BY <1>6, <1>8

-----------------------------------------------------------------------------
(* Commits                                                                 *)

LEMMA CommitFacts ==
    ASSUME IInv, NEW c \in Clients, Commit(c)
    PROVE  /\ TypeOK /\ ClientInv(c) /\ Phase(c) = "commit"
           /\ Kind(c) \in {"register", "google", "resend", "verify"}
           /\ Email(c) \in Emails /\ accounts[Email(c)] \in User
           /\ accountLock[Email(c)] = c
           /\ Kind(c) \in {"register", "google"} => Account(c) = Nobody
           /\ Kind(c) = "resend" => Account(c) # Nobody
<1>1. TypeOK /\ ClientInv(c) /\ Phase(c) = "commit"
  BY DEF IInv, Commit
<1>2. Kind(c) \in {"register", "google", "resend", "verify"}
  BY <1>1, RequestFields DEF ClientInv, KindInv, Kinds
<1>3. Email(c) \in Emails /\ accounts[Email(c)] \in User
  BY <1>1, RequestFields DEF TypeOK
<1>4. Holds(c) /\ (Kind(c) \in {"register", "google"} => Creates(c))
  BY <1>1, <1>2 DEF Holds, Creates
<1> QED
  BY <1>1, <1>2, <1>3, <1>4 DEF ClientInv, AccountInv

LEMMA CommitAccount ==
    ASSUME IInv, NEW c \in Clients, Commit(c)
    PROVE  \E a \in User :
              /\ accounts' = [accounts EXCEPT ![Email(c)] = a]
              /\ a # Nobody
              /\ accounts[Email(c)].subject # None => a.subject = accounts[Email(c)].subject
              /\ a.subject # None => AccountsOf(a.subject) \subseteq {Email(c)}
              /\ \A p \in signedIn' \ signedIn : p = <<a.subject, Email(c)>>
              /\ a.subject # accounts[Email(c)].subject =>
                    a.subject = tx[c].subject /\ ~BeingInserted(c)
<1> DEFINE e == Email(c)
<1>1. /\ TypeOK /\ ClientInv(c) /\ Phase(c) = "commit"
      /\ Kind(c) \in {"register", "google", "resend", "verify"}
      /\ e \in Emails /\ accounts[e] \in User
      /\ Kind(c) \in {"register", "google"} => accounts[e] = Nobody
      /\ Kind(c) = "resend" => accounts[e] # Nobody
  BY CommitFacts DEF Account
<1>2. accounts[e].subject # None => AccountsOf(accounts[e].subject) \subseteq {e}
  BY <1>1 DEF IInv, RowsInv, AccountsOf
<1>3. CASE Kind(c) = "register"
  <2> DEFINE a == [accounts[e] EXCEPT !.status = "pending"]
  <2>1. a \in User /\ a.status = "pending" /\ a.subject = accounts[e].subject
    BY <1>1, UserType DEF User, Statuses
  <2>2. a # Nobody
    BY <2>1 DEF Nobody
  <2>3. accounts' = [accounts EXCEPT ![e] = a] /\ signedIn' = signedIn
    BY <1>1, <1>3 DEF Commit, TypeOK
  <2> HIDE DEF a
  <2> QED
    BY <1>2, <2>1, <2>2, <2>3
<1>4. CASE Kind(c) = "google"
  <2> DEFINE a == [Verified(accounts[e]) EXCEPT !.subject = tx[c].subject]
  <2>1. tx[c].subject \in Subjects
    BY <1>1, <1>4 DEF ClientInv, KindInv
  <2>2. /\ Verified(accounts[e]) \in User
        /\ Verified(accounts[e]).status = "active"
    BY <1>1, UserType DEF Verified, User
  <2>3. a \in User /\ a.status = "active" /\ a.subject = tx[c].subject
    BY <2>1, <2>2, UserType DEF User
  <2>4. a # Nobody
    BY <2>3 DEF Nobody
  <2>5. /\ accounts' = [accounts EXCEPT ![e] = a]
        /\ signedIn' = signedIn \cup {<<tx[c].subject, e>>}
    <3>1. accounts' = [accounts EXCEPT ![e] = [Verified(@) EXCEPT !.subject = tx[c].subject]]
      BY <1>4 DEF Commit
    <3> QED
      BY <1>1, <1>4, <3>1 DEF Commit, TypeOK
  <2>6. accounts[e].subject = None
    BY <1>1, <1>4 DEF Nobody
  <2>7. AccountsOf(tx[c].subject) = {} /\ ~BeingInserted(c)
    BY <1>1, <1>4 DEF ClientInv, IdentityInv
  <2> HIDE DEF a
  <2> QED
    BY <2>3, <2>4, <2>5, <2>6, <2>7
<1>5. CASE Kind(c) = "verify"
  <2> DEFINE a == Verified(accounts[e])
  <2>1. a \in User /\ a.status = "active" /\ a.subject = accounts[e].subject
    BY <1>1, UserType DEF Verified, User
  <2>2. a # Nobody
    BY <2>1 DEF Nobody
  <2>3. accounts' = [accounts EXCEPT ![e] = a] /\ signedIn' = signedIn
    <3>1. accounts' = [accounts EXCEPT ![e] = Verified(@)]
      BY <1>5 DEF Commit
    <3> QED
      BY <1>1, <1>5, <3>1 DEF Commit, TypeOK
  <2> HIDE DEF a
  <2> QED
    BY <1>2, <2>1, <2>2, <2>3
<1>6. CASE Kind(c) = "resend"
  <2>1. accounts' = [accounts EXCEPT ![e] = accounts[e]] /\ signedIn' = signedIn
    BY <1>1, <1>6 DEF Commit, TypeOK
  <2> QED
    BY <1>1, <1>2, <1>6, <2>1
<1> QED
  BY <1>1, <1>3, <1>4, <1>5, <1>6

\* The rows a commit revokes or uses, which are locked.
Used(c) == CASE Kind(c) = "resend" -> tx[c].open
             [] Kind(c) = "verify" -> {tx[c].challenge}
             [] OTHER -> {}

LEMMA CommitChallenges ==
    ASSUME IInv, NEW c \in Clients, Commit(c)
    PROVE  /\ DOMAIN challenges' =
                DOMAIN challenges \cup (IF Issues(c) THEN {tx[c].challenge} ELSE {})
           /\ \A i \in DOMAIN challenges :
                 /\ challenges'[i].email = challenges[i].email
                 /\ challenges'[i].consumed <=> challenges[i].consumed \/ i \in Used(c)
           /\ Issues(c) =>
                 /\ tx[c].challenge \in mailed \ DOMAIN challenges
                 /\ challenges'[tx[c].challenge].email = Email(c)
           /\ \A i \in Used(c) : challengeLock[i] = c
           /\ Kind(c) = "verify" => Used(c) \subseteq Open(Email(c))
           /\ Kind(c) = "resend" => Open(Email(c)) \subseteq Used(c)
<1> DEFINE e == Email(c)
           i == tx[c].challenge
<1>1. /\ TypeOK /\ ClientInv(c) /\ Phase(c) = "commit"
      /\ Kind(c) \in {"register", "google", "resend", "verify"}
      /\ challenges \in [DOMAIN challenges -> Challenge]
  BY CommitFacts DEF TypeOK
<1>2. Issues(c) <=> Kind(c) \in {"register", "resend"}
  BY <1>1 DEF Issues
<1>3. Issues(c) => i \in mailed \ DOMAIN challenges
  BY <1>1 DEF ClientInv, NewCodeInv
<1>4. /\ \A j \in Used(c) : challengeLock[j] = c
      /\ Kind(c) = "verify" => Used(c) \subseteq Open(Email(c))
      /\ Kind(c) = "resend" => Open(Email(c)) \subseteq Used(c)
  BY <1>1 DEF Used, ClientInv, RevokeInv, ConsumeInv
<1>5. ASSUME NEW R
      PROVE  /\ DOMAIN WithConsumed(R) = DOMAIN challenges
             /\ \A j \in DOMAIN challenges :
                   /\ WithConsumed(R)[j].email = challenges[j].email
                   /\ WithConsumed(R)[j].consumed <=> challenges[j].consumed \/ j \in R
  <2>1. \A j \in DOMAIN challenges : challenges[j] \in Challenge
    BY <1>1
  <2> QED
    BY <2>1 DEF WithConsumed, Challenge
<1>6. ASSUME NEW t, DOMAIN t = DOMAIN challenges
      PROVE  /\ DOMAIN WithNew(t, c) = DOMAIN challenges \cup {i}
             /\ WithNew(t, c)[i].email = e
             /\ \A j \in DOMAIN challenges \ {i} : WithNew(t, c)[j] = t[j]
  BY <1>6 DEF WithNew
<1>7. CASE Kind(c) = "register"
  <2>1. challenges' = WithNew(challenges, c) /\ Used(c) = {}
    BY <1>7 DEF Commit, Used
  <2> QED
    BY <1>2, <1>3, <1>4, <1>6, <1>7, <2>1
<1>8. CASE Kind(c) = "resend"
  <2>1. challenges' = WithNew(WithConsumed(tx[c].open), c) /\ Used(c) = tx[c].open
    BY <1>8 DEF Commit, Used
  <2>2. DOMAIN WithConsumed(tx[c].open) = DOMAIN challenges
    BY <1>5
  <2>3. /\ DOMAIN challenges' = DOMAIN challenges \cup {i}
        /\ challenges'[i].email = e
        /\ \A j \in DOMAIN challenges \ {i} : challenges'[j] = WithConsumed(tx[c].open)[j]
    BY <1>6, <2>1, <2>2
  <2> QED
    BY <1>2, <1>3, <1>4, <1>5, <1>8, <2>1, <2>3
<1>9. CASE Kind(c) = "verify"
  <2>1. challenges' = WithConsumed({tx[c].challenge}) /\ Used(c) = {tx[c].challenge}
    BY <1>9 DEF Commit, Used
  <2> QED
    BY <1>2, <1>4, <1>5, <1>9, <2>1
<1>10. CASE Kind(c) = "google"
  <2>1. challenges' = challenges /\ Used(c) = {}
    BY <1>10 DEF Commit, Used
  <2> QED
    BY <1>2, <1>4, <1>10, <2>1
<1> QED
  BY <1>1, <1>7, <1>8, <1>9, <1>10

LEMMA CommitKept == ASSUME IInv, NEW c \in Clients, Commit(c) PROVE Kept(c)
<1> DEFINE e == Email(c)
           i == tx[c].challenge
<1>1. /\ TypeOK /\ ClientInv(c) /\ Phase(c) = "commit"
      /\ Kind(c) \in {"register", "google", "resend", "verify"}
      /\ e \in Emails /\ accountLock[e] = c
      /\ Kind(c) \in {"register", "google"} => accounts[e] = Nobody
      /\ \A j \in DOMAIN challenges : challenges[j].email \in Emails
  BY CommitFacts DEF Account, TypeOK, Challenge
<1>2. PICK a \in User :
         /\ accounts' = [accounts EXCEPT ![e] = a]
         /\ a # Nobody
         /\ accounts[e].subject # None => a.subject = accounts[e].subject
         /\ a.subject # None => AccountsOf(a.subject) \subseteq {e}
         /\ \A p \in signedIn' \ signedIn : p = <<a.subject, e>>
         /\ a.subject # accounts[e].subject => a.subject = tx[c].subject /\ ~BeingInserted(c)
  BY CommitAccount
<1>3. accounts'[e] = a /\ \A f \in Emails \ {e} : accounts'[f] = accounts[f]
  BY <1>1, <1>2 DEF TypeOK
<1>4. /\ DOMAIN challenges' = DOMAIN challenges \cup (IF Issues(c) THEN {i} ELSE {})
      /\ \A j \in DOMAIN challenges :
            /\ challenges'[j].email = challenges[j].email
            /\ challenges'[j].consumed <=> challenges[j].consumed \/ j \in Used(c)
      /\ Issues(c) => i \in mailed \ DOMAIN challenges /\ challenges'[i].email = e
      /\ \A j \in Used(c) : challengeLock[j] = c
      /\ Kind(c) = "verify" => Used(c) \subseteq Open(e)
      /\ Kind(c) = "resend" => Open(e) \subseteq Used(c)
  BY CommitChallenges
<1>5. /\ \A d \in Clients \ {c} : tx'[d] = tx[d]
      /\ ClientInv(c)' /\ ~Issues(c)' /\ Kind(c)' = "resend"
      /\ \A d \in Clients \ {c}, f \in Emails : accountLock[f] = d => accountLock'[f] = d
      /\ \A d \in Clients \ {c}, j \in ChallengeIds :
            challengeLock[j] = d => challengeLock'[j] = d
      /\ mailed' = mailed
  BY <1>1, IdleFields DEF Commit, Finish, Release
<1>6. Frame(c)
  <2>1. ASSUME NEW f \in Emails
        PROVE  /\ accounts'[f] # accounts[f] => accountLock[f] \in {c, Free}
               /\ accounts[f] # Nobody => accounts'[f] # Nobody
               /\ accounts'[f].subject # accounts[f].subject =>
                     /\ accounts[f].subject = None
                     /\ \A d \in Clients \ {c} : Kind(d) = "google" /\ Phase(d) = "commit" =>
                           tx[d].subject # accounts'[f].subject
    BY <1>1, <1>2, <1>3 DEF BeingInserted
  <2>2. \A j \in DOMAIN challenges' \ DOMAIN challenges :
           /\ c \in Clients /\ Issues(c) /\ j = tx[c].challenge
           /\ challenges'[j].email = Email(c)
           /\ accountLock[Email(c)] = c
    BY <1>1, <1>4
  <2>3. /\ DOMAIN challenges \subseteq DOMAIN challenges'
        /\ \A j \in DOMAIN challenges :
              /\ challenges'[j].email = challenges[j].email
              /\ challenges[j].consumed => challenges'[j].consumed
              /\ challenges'[j].consumed => challenges[j].consumed \/ challengeLock[j] = c
    BY <1>4
  <2> QED
    BY <1>5, <2>1, <2>2, <2>3 DEF Frame
<1>7. RowsInv'
  <2>1. \A j \in DOMAIN challenges' :
           /\ challenges'[j].email \in Emails
           /\ challenges'[j].email = e \/ accounts[challenges'[j].email] # Nobody
    BY <1>1, <1>4 DEF IInv, RowsInv
  <2> QED
    BY <1>1, <1>2, <2>1, AccountRows
<1>8. CodesWereMailed'
  BY <1>4, <1>5 DEF IInv, CodesWereMailed
<1>9. OneOpenChallenge'
  <2>1. SUFFICES ASSUME NEW f \in Emails, NEW j \in DOMAIN challenges',
                        NEW k \in DOMAIN challenges',
                        challenges'[j].email = f, ~challenges'[j].consumed,
                        challenges'[k].email = f, ~challenges'[k].consumed
                 PROVE  j = k
    BY DEF OneOpenChallenge, Open, Of
  <2>2. ASSUME NEW l \in DOMAIN challenges, challenges'[l].email = e, ~challenges'[l].consumed
        PROVE  ~Issues(c)
    <3>1. l \in Open(e) /\ l \notin Used(c)
      BY <1>4, <2>2 DEF Open, Of
    <3>2. Kind(c) # "resend"
      BY <1>4, <3>1
    <3>3. Kind(c) # "register"
      BY <1>1, <3>1 DEF IInv, RowsInv, Open, Of
    <3> QED
      BY <3>2, <3>3 DEF Issues
  <2>3. CASE j \in DOMAIN challenges /\ k \in DOMAIN challenges
    <3>1. j \in Open(f) /\ k \in Open(f)
      BY <1>4, <2>1, <2>3 DEF Open, Of
    <3> QED
      BY <2>3, <3>1 DEF IInv, OneOpenChallenge
  <2>4. CASE j \notin DOMAIN challenges
    <3>1. Issues(c) /\ j = i /\ f = e
      BY <1>4, <2>1, <2>4
    <3> QED
      BY <1>4, <2>1, <2>2, <3>1
  <2>5. CASE k \notin DOMAIN challenges
    <3>1. Issues(c) /\ k = i /\ f = e
      BY <1>4, <2>1, <2>5
    <3> QED
      BY <1>4, <2>1, <2>2, <3>1
  <2> QED
    BY <2>3, <2>4, <2>5
<1> QED
  BY <1>5, <1>6, <1>7, <1>8, <1>9 DEF Kept

-----------------------------------------------------------------------------
(* The invariant                                                           *)

LEMMA InitIInv == Init => IInv
<1> SUFFICES ASSUME Init PROVE IInv
  OBVIOUS
<1>1. TypeOK
  BY InitTypeOK
<1>2. /\ \A e \in Emails : accounts[e].subject = None
      /\ DOMAIN challenges = {} /\ signedIn = {}
  BY DEF Init, Nobody, Known
<1>3. \A c \in Clients : Phase(c) = "idle" /\ Kind(c) = "resend"
  BY DEF Init, Idle, Phase, Kind
<1>4. ASSUME NEW c \in Clients PROVE ClientInv(c)
  BY <1>3 DEF ClientInv, KindInv, AccountInv, Holds, Creates, NewCodeInv, Issues, RevokeInv,
     ConsumeInv, IdentityInv
<1>5. RowsInv /\ OneOpenChallenge /\ CodesWereMailed
  BY <1>2 DEF RowsInv, OneOpenChallenge, Open, Of, CodesWereMailed
<1> QED
  BY <1>1, <1>4, <1>5 DEF IInv

LEMMA RollBackKept == ASSUME IInv, NEW c \in Clients, RollBack(c) PROVE Kept(c)
BY FinishKept DEF RollBack, google

LEMMA StepKept == ASSUME IInv, NEW c \in Clients, Step(c) PROVE Kept(c)
<1>1. CASE Conflict(c) \/ NotPending(c) \/ TooSoon(c) \/ NoActiveChallenge(c)
           \/ NotConsumable(c) \/ NotActivatable(c)
  BY <1>1, RollBackKept DEF Conflict, NotPending, TooSoon, NoActiveChallenge, NotConsumable,
     NotActivatable
<1>2. CASE CountFailure(c)
  BY <1>2, FinishKept DEF CountFailure, google
<1> QED
  BY <1>1, <1>2, InsertKept, ReadAccountKept, CheckCooldownKept, LockAccountKept, SnapshotKept,
     RevokeAndInsertKept, SendEmailKept, FindLatestKept, ConsumeKept, ActivateKept, CommitKept,
     FindSubjectKept, FindEmailKept, LinkKept, IssueSessionKept DEF Step

LEMMA NextIInv == IInv /\ [Next]_vars => IInv'
<1> SUFFICES ASSUME IInv, [Next]_vars PROVE IInv'
  OBVIOUS
<1>1. TypeOK'
  BY NextTypeOK DEF IInv, ClientInv
<1>2. ASSUME NEW c \in Clients, Kept(c) PROVE IInv'
  <2>1. \A d \in Clients \ {c} : ClientInv(d)'
    BY <1>2, OthersKept DEF Kept
  <2> QED
    BY <1>1, <1>2, <2>1 DEF Kept, IInv
<1>3. ASSUME Frame(Free), RowsInv', OneOpenChallenge', CodesWereMailed' PROVE IInv'
  <2>1. \A d \in Clients : ClientInv(d)'
    BY <1>3, OthersKept
  <2> QED
    BY <1>1, <1>3, <2>1 DEF IInv
<1>4. CASE \E c \in Clients :
              \/ \E kind \in Kinds, email \in Emails, subject \in Subjects \cup {None},
                    code \in ChallengeIds \cup {None} : Send(c, kind, email, subject, code)
              \/ Step(c) \/ Fail(c) \/ BreakDeadlock(c)
  BY <1>2, <1>4, SendKept, StepKept, RollBackKept DEF Fail, BreakDeadlock
<1>5. CASE \E email \in Emails : Disable(email) \/ Enable(email)
  BY <1>3, <1>5, AdministratorKept
<1>6. CASE Tick \/ UNCHANGED vars
  <2>1. UNCHANGED <<accounts, challenges, accountLock, challengeLock, tx, mailed, signedIn>>
    BY <1>6 DEF Tick, vars, locks, google
  <2>2. Frame(Free)
    BY <2>1 DEF Frame
  <2> QED
    BY <1>3, <2>1, <2>2, RowsAlone
<1> QED
  BY <1>4, <1>5, <1>6 DEF Next

\* Every reachable state satisfies the inductive invariant: committed rows,
\* the locks and ids each request holds, and what it read that stays true
\* until it commits (registration.live.ts, google.live.ts).
THEOREM Invariant == Spec => []IInv
BY InitIInv, NextIInv, PTL DEF Spec

\* Every variable keeps its type, and an active account has a verified email,
\* as users_verified_status_check asks.
THEOREM TypeCorrect == Spec => []TypeOK
<1>1. IInv => TypeOK
  BY DEF IInv
<1> QED
  BY <1>1, Invariant, PTL

\* Issuing a code holds the account's row from before it looks for the open
\* codes until it commits, so an account never has two open codes
\* (repositories.drizzle.ts:158).
THEOREM OneCode == Spec => []OneOpenChallenge
<1>1. IInv => OneOpenChallenge
  BY DEF IInv
<1> QED
  BY <1>1, Invariant, PTL

\* A committed code has been mailed, whatever fails (registration.live.ts:64).
THEOREM Mailed == Spec => []CodesWereMailed
<1>1. IInv => CodesWereMailed
  BY DEF IInv
<1> QED
  BY <1>1, Invariant, PTL

\* A Google identity comes into one account only and an account takes one
\* identity only, although a login links in another statement than the one
\* that read the account (google.live.ts:50).
THEOREM Apart == Spec => []IdentitiesKeepApart
<1>1. IInv => IdentitiesKeepApart
  <2> SUFFICES ASSUME IInv, NEW p \in signedIn, NEW q \in signedIn
               PROVE  p[1] = q[1] <=> p[2] = q[2]
    BY DEF IdentitiesKeepApart
  <2>1. p \in Subjects \X Emails /\ q \in Subjects \X Emails
    BY DEF IInv, TypeOK
  <2>2. /\ accounts[p[2]].subject = p[1] /\ accounts[q[2]].subject = q[1]
        /\ p[1] # None /\ q[1] # None
    BY <2>1 DEF IInv, RowsInv
  <2> QED
    BY <2>1, <2>2 DEF IInv, RowsInv
<1> QED
  BY <1>1, Invariant, PTL

-----------------------------------------------------------------------------
(* Activation                                                              *)

LEMMA ActivatingStep ==
    ASSUME IInv, [Next]_vars, NEW e \in Emails,
           accounts[e].status = "pending", accounts'[e].status = "active"
    PROVE  \E i \in Open(e) : i \in mailed /\ challenges'[i].consumed
<1>1. accounts \in [Emails -> User]
  BY DEF IInv, TypeOK
<1>2. ASSUME NEW c \in Clients, Commit(c)
      PROVE  \E i \in Open(e) : i \in mailed /\ challenges'[i].consumed
  <2>1. /\ Kind(c) \in {"register", "google", "resend", "verify"}
        /\ Email(c) \in Emails /\ accounts[Email(c)] \in User
        /\ Kind(c) \in {"register", "google"} => Account(c) = Nobody
    BY <1>2, CommitFacts
  <2>2. e = Email(c)
    <3>1. PICK a \in User : accounts' = [accounts EXCEPT ![Email(c)] = a]
      BY <1>2, CommitAccount
    <3> QED
      BY <1>1, <3>1
  <2>3. Kind(c) \notin {"register", "google"}
    BY <2>1, <2>2 DEF Account, Nobody
  <2>4. CASE Kind(c) = "resend"
    <3>1. accounts' = [accounts EXCEPT ![Email(c)] = accounts[Email(c)]]
      BY <1>1, <1>2, <2>1, <2>4 DEF Commit
    <3> QED
      BY <1>1, <2>2, <3>1
  <2>5. CASE Kind(c) = "verify"
    <3>1. /\ tx[c].challenge \in Used(c)
          /\ Used(c) \subseteq Open(Email(c))
          /\ \A i \in DOMAIN challenges :
                challenges'[i].consumed <=> challenges[i].consumed \/ i \in Used(c)
      BY <1>2, <2>5, CommitChallenges DEF Used
    <3>2. tx[c].challenge \in DOMAIN challenges /\ tx[c].challenge \in mailed
      BY <3>1 DEF Open, Of, IInv, CodesWereMailed
    <3> QED
      BY <2>2, <3>1, <3>2
  <2> QED
    BY <2>1, <2>3, <2>4, <2>5
<1>3. ASSUME NEW c \in Clients, LinkGoogle(c) PROVE FALSE
  <2>1. \/ accounts' = accounts
        \/ accounts' = [accounts EXCEPT ![Email(c)].subject = tx[c].subject]
    BY <1>3 DEF LinkGoogle
  <2> QED
    BY <1>1, <2>1 DEF User
<1>4. ASSUME NEW f \in Emails, Disable(f) \/ Enable(f) PROVE FALSE
  <2>1. \/ accounts' = [accounts EXCEPT ![f].status = "disabled"]
        \/ /\ accounts[f].status = "disabled"
           /\ accounts' = [accounts EXCEPT ![f].status = "active"]
    BY <1>4 DEF Disable, Enable
  <2> QED
    BY <1>1, <2>1 DEF User
<1>5. ASSUME NEW c \in Clients, Step(c), ~Commit(c), ~LinkGoogle(c) PROVE UNCHANGED accounts
  BY <1>5 DEF Step, InsertAccount, Conflict, ReadAccount, NotPending, CheckCooldown, TooSoon,
     LockAccount, Snapshot, RevokeAndInsert, SendEmail, FindLatest, NoActiveChallenge,
     CountFailure, Consume, NotConsumable, Activate, NotActivatable, FindSubject, FindEmail,
     IssueSession, RollBack
<1>6. ASSUME NEW c \in Clients,
             \/ \E kind \in Kinds, email \in Emails, subject \in Subjects \cup {None},
                   code \in ChallengeIds \cup {None} : Send(c, kind, email, subject, code)
             \/ Fail(c) \/ BreakDeadlock(c)
      PROVE  UNCHANGED accounts
  BY <1>6 DEF Send, Fail, BreakDeadlock, RollBack
<1>7. UNCHANGED accounts => FALSE
  OBVIOUS
<1>8. Tick \/ UNCHANGED vars => UNCHANGED accounts
  BY DEF Tick, vars
<1> QED
  BY <1>2, <1>3, <1>4, <1>5, <1>6, <1>7, <1>8 DEF Next

\* An account is activated by a code that nothing has replaced or used since
\* the request found it, and the same commit uses it up
\* (registration.live.ts:117).
THEOREM Activation == Spec => ActivatedByOpenCode
<1> DEFINE Activates ==
      \A e \in Emails :
          accounts[e].status = "pending" /\ accounts'[e].status = "active" =>
              \E i \in Open(e) : i \in mailed /\ challenges'[i].consumed
<1>1. IInv /\ [Next]_vars => [Activates]_vars
  <2> SUFFICES ASSUME IInv, [Next]_vars PROVE Activates
    OBVIOUS
  <2> QED
    BY ActivatingStep
<1>2. Spec => [][Activates]_vars
  BY <1>1, Invariant, PTL DEF Spec
<1> QED
  BY <1>2 DEF ActivatedByOpenCode


-----------------------------------------------------------------------------
(* Codes a cooldown apart                                                  *)

\* Requests that may issue another code for an email.
Issuer(c, e) == Kind(c) = "resend" /\ Phase(c) \in Issuing /\ Email(c) = e

\* Every code of the email is a cooldown older than a request's clock.
Cooled(e, at) == \A i \in Of(e) : challenges[i].createdAt + ResendCooldown <= at

\* The newest code of a pending account is open and a cooldown newer than the
\* others, and there is one request at most to issue the next one, which will
\* be a cooldown newer still.
Spacing(e) ==
    /\ Spaced(e)
    /\ \E i \in Open(e) : \A j \in Of(e) \ {i} :
          challenges[j].createdAt + ResendCooldown <= challenges[i].createdAt
    /\ \A c \in Clients : Issuer(c, e) =>
          Cooled(e, tx[c].checkedAt) /\ \A d \in Clients : Issuer(d, e) => d = c

SpacingInv ==
    /\ \A e \in Emails : accounts[e].status = "pending" => Spacing(e) \/ e \in overlapped
    /\ \A i \in DOMAIN challenges : challenges[i].failedAttempts = 0
    /\ \A c \in Clients : Kind(c) = "resend" /\ Phase(c) \in {"revoke", "send", "commit"} =>
          tx[c].open \subseteq Of(Email(c))


\* Requests that may issue a code for e after a step might before, with the
\* clock they had.
IssuersKept ==
    \A c \in Clients, e \in Emails : Issuer(c, e)' =>
        Issuer(c, e) /\ tx'[c].checkedAt = tx[c].checkedAt

\* The rows a resend will revoke stay rows of its email.
OpenKept ==
    \A c \in Clients : Kind(c)' = "resend" /\ Phase(c)' \in {"revoke", "send", "commit"} =>
        tx'[c].open \subseteq Of(Email(c))'

LEMMA SpacingOf ==
    ASSUME NEW e \in Emails, Spacing(e), IssuersKept, Of(e)' = Of(e),
           \A i \in Of(e) : challenges'[i] = challenges[i]
    PROVE  Spacing(e)'
<1>1. Spaced(e)'
  BY DEF Spacing, Spaced
<1>2. Open(e)' = Open(e)
  BY DEF Open
<1>3. PICK i \in Open(e) : \A j \in Of(e) \ {i} :
          challenges[j].createdAt + ResendCooldown <= challenges[i].createdAt
  BY DEF Spacing
<1>4. i \in Of(e)
  BY <1>3 DEF Open
<1>5. \A j \in Of(e)' \ {i} :
          challenges'[j].createdAt + ResendCooldown <= challenges'[i].createdAt
  BY <1>3, <1>4
<1>6. ASSUME NEW c \in Clients, Issuer(c, e)'
      PROVE  Cooled(e, tx[c].checkedAt)' /\ \A d \in Clients : Issuer(d, e)' => d = c
  <2>1. Issuer(c, e) /\ tx'[c].checkedAt = tx[c].checkedAt
    BY <1>6 DEF IssuersKept
  <2>2. Cooled(e, tx[c].checkedAt) /\ \A d \in Clients : Issuer(d, e) => d = c
    BY <2>1 DEF Spacing
  <2>3. Cooled(e, tx[c].checkedAt)'
    BY <2>1, <2>2 DEF Cooled
  <2> QED
    BY <2>2, <2>3 DEF IssuersKept
<1> QED
  BY <1>1, <1>2, <1>3, <1>5, <1>6 DEF Spacing

\* A step that issues nothing.
LEMMA SpacingKept ==
    ASSUME SpacingInv, IssuersKept, OpenKept, UNCHANGED challenges,
           overlapped \subseteq overlapped',
           \A e \in Emails : accounts'[e].status = "pending" => accounts[e].status = "pending"
    PROVE  SpacingInv'
<1>1. ASSUME NEW e \in Emails, accounts'[e].status = "pending", e \notin overlapped'
      PROVE  Spacing(e)'
  <2>1. Spacing(e)
    BY <1>1 DEF SpacingInv
  <2>2. Of(e)' = Of(e)
    BY DEF Of
  <2> QED
    BY <2>1, <2>2, SpacingOf
<1> QED
  BY <1>1 DEF SpacingInv, OpenKept

\* One request goes to r, and no other may issue a code after it.
LEMMA IssuerStep ==
    ASSUME TypeOK, SpacingInv, NEW c \in Clients, NEW r, tx' = [tx EXCEPT ![c] = r],
           r.kind = "resend" /\ r.phase \in Issuing =>
              /\ Kind(c) = "resend" /\ Phase(c) \in Issuing
              /\ r.email = Email(c) /\ r.checkedAt = tx[c].checkedAt,
           r.kind = "resend" /\ r.phase \in {"revoke", "send", "commit"} =>
              \/ r.open = tx[c].open /\ Phase(c) \in {"revoke", "send", "commit"}
              \/ r.open = Open(Email(c)),
           UNCHANGED challenges
    PROVE  IssuersKept /\ OpenKept
<1>1. tx'[c] = r /\ \A d \in Clients \ {c} : tx'[d] = tx[d]
  BY DEF TypeOK
<1>2. IssuersKept
  BY <1>1 DEF IssuersKept, Issuer, Kind, Phase, Email
<1>3. ASSUME NEW d \in Clients, Kind(d)' = "resend", Phase(d)' \in {"revoke", "send", "commit"}
      PROVE  tx'[d].open \subseteq Of(Email(d))'
  <2>1. Of(Email(d)) = Of(Email(d)')
    <3>1. Email(d)' = Email(d)
      <4>1. CASE d = c
        BY <1>1, <1>3, <4>1 DEF Issuing, Kind, Phase, Email
      <4>2. CASE d # c
        BY <1>1, <4>2 DEF Email
      <4> QED
        BY <4>1, <4>2
    <3> QED
      BY <3>1
  <2>2. tx'[d].open \subseteq Of(Email(d))
    <3>1. CASE d = c
      <4>1. Kind(c) = "resend"
        BY <1>1, <1>3, <3>1 DEF Issuing, Kind, Phase
      <4>2. Open(Email(c)) \subseteq Of(Email(c))
        BY DEF Open
      <4>3. Phase(c) \in {"revoke", "send", "commit"} => tx[c].open \subseteq Of(Email(c))
        BY <4>1 DEF SpacingInv
      <4> QED
        BY <1>1, <1>3, <3>1, <4>2, <4>3 DEF Kind, Phase
    <3>2. CASE d # c
      BY <1>1, <1>3, <3>2 DEF SpacingInv, Kind, Phase
    <3> QED
      BY <3>1, <3>2
  <2> QED
    BY <2>1, <2>2 DEF Of
<1> QED
  BY <1>2, <1>3 DEF OpenKept

\* Going on within a transaction, or answering.
LEMMA GotoSpacing ==
    ASSUME TypeOK, SpacingInv, NEW c \in Clients, UNCHANGED challenges,
           NEW p, Goto(c, p),
           p \notin Issuing \/ Kind(c) # "resend" \/
              (Phase(c) \in Issuing /\
                 (p \in {"revoke", "send", "commit"} => Phase(c) \in {"revoke", "send"}))
    PROVE  IssuersKept /\ OpenKept
<1> DEFINE r == [tx[c] EXCEPT !.phase = p]
<1>1. tx' = [tx EXCEPT ![c] = r]
  BY DEF Goto
<1>2. /\ r.phase = p /\ r.kind = Kind(c) /\ r.email = Email(c)
      /\ r.checkedAt = tx[c].checkedAt /\ r.open = tx[c].open
  BY RequestFields DEF Request, Kind, Email
<1>3. p \in {"revoke", "send", "commit"} => p \in Issuing
  BY DEF Issuing
<1> HIDE DEF r
<1> QED
  BY <1>1, <1>2, <1>3, IssuerStep

LEMMA IdleSpacing ==
    ASSUME TypeOK, SpacingInv, NEW c \in Clients, UNCHANGED challenges,
           tx' = [tx EXCEPT ![c] = Idle]
    PROVE  IssuersKept /\ OpenKept
<1>1. Idle.phase \notin Issuing /\ Idle.phase \notin {"revoke", "send", "commit"}
  BY DEF Idle, Issuing
<1> HIDE DEF Idle
<1> QED
  BY <1>1, IssuerStep

\* The steps of a request other than passing the cooldown and committing.
LEMMA RequestSpacing ==
    ASSUME IInv, SpacingInv, NEW c \in Clients,
           \/ \E kind \in Kinds, email \in Emails, subject \in Subjects \cup {None},
                 code \in ChallengeIds \cup {None} : Send(c, kind, email, subject, code)
           \/ Step(c) /\ ~CheckCooldown(c) /\ ~Commit(c)
           \/ Fail(c) \/ BreakDeadlock(c)
    PROVE  SpacingInv'
<1>1. TypeOK /\ KindInv(c) /\ tx[c] \in Request
  BY RequestFields DEF IInv, ClientInv
<1>2. UNCHANGED <<challenges, overlapped>>
  BY DEF Send, Step, Fail, BreakDeadlock, InsertAccount, Conflict, ReadAccount, NotPending,
     TooSoon, LockAccount, Snapshot, RevokeAndInsert, SendEmail, FindLatest, NoActiveChallenge,
     CountFailure, Consume, NotConsumable, Activate, NotActivatable, FindSubject, FindEmail,
     LinkGoogle, IssueSession, RollBack
<1>3. ASSUME NEW e \in Emails, accounts'[e].status = "pending"
      PROVE  accounts[e].status = "pending"
  <2>1. CASE UNCHANGED accounts
    BY <1>3, <2>1
  <2>2. CASE LinkGoogle(c)
    <3>1. accounts' = accounts \/ accounts' = [accounts EXCEPT ![Email(c)].subject = tx[c].subject]
      BY <2>2 DEF LinkGoogle
    <3> QED
      BY <1>1, <1>3, <3>1 DEF TypeOK, User
  <2> QED
    BY <2>1, <2>2 DEF Send, Step, Fail, BreakDeadlock, InsertAccount, Conflict, ReadAccount,
     NotPending, TooSoon, LockAccount, Snapshot, RevokeAndInsert, SendEmail, FindLatest,
     NoActiveChallenge, CountFailure, Consume, NotConsumable, Activate, NotActivatable,
     FindSubject, FindEmail, IssueSession, RollBack
<1>4. CASE tx' = [tx EXCEPT ![c] = Idle]
  BY <1>1, <1>2, <1>3, <1>4, IdleSpacing, SpacingKept
<1>5. ASSUME NEW p, Goto(c, p),
             p \notin Issuing \/ Kind(c) # "resend" \/
               (Phase(c) \in Issuing /\
                  (p \in {"revoke", "send", "commit"} => Phase(c) \in {"revoke", "send"}))
      PROVE  SpacingInv'
  BY <1>1, <1>2, <1>3, <1>5, GotoSpacing, SpacingKept
<1>6. ASSUME NEW r, tx' = [tx EXCEPT ![c] = r], r.kind # "resend" \/ r.phase \notin Issuing
      PROVE  SpacingInv'
  <2>1. r.kind # "resend" \/ r.phase \notin {"revoke", "send", "commit"}
    BY <1>6 DEF Issuing
  <2> QED
    BY <1>1, <1>2, <1>3, <1>6, <2>1, IssuerStep, SpacingKept
<1>7. ASSUME NEW kind \in Kinds, NEW email \in Emails, NEW subject \in Subjects \cup {None},
             NEW code \in ChallengeIds \cup {None}, Send(c, kind, email, subject, code)
      PROVE  SpacingInv'
  <2> DEFINE p == CASE kind \in {"register", "google"} -> "insert"
                    [] kind \in {"resend", "verify"} -> "account"
                    [] kind = "login" -> "subject"
             r == [Idle EXCEPT !.phase = p, !.kind = kind, !.email = email,
                               !.subject = subject, !.code = code, !.checkedAt = now]
  <2>1. p \notin Issuing
    BY DEF Issuing, Kinds
  <2>2. tx' = [tx EXCEPT ![c] = r]
    BY <1>7 DEF Send
  <2> HIDE DEF p
  <2>3. r.phase = p
    BY DEF Idle
  <2> HIDE DEF r
  <2> QED
    BY <1>6, <2>1, <2>2, <2>3
<1>8. ASSUME NEW p, NEW i, tx' = [tx EXCEPT ![c] = [tx[c] EXCEPT !.phase = p, !.challenge = i]],
             \/ p \notin Issuing
             \/ Kind(c) # "resend"
             \/ p = "send" /\ Phase(c) = "revoke"
      PROVE  SpacingInv'
  <2> DEFINE r == [tx[c] EXCEPT !.phase = p, !.challenge = i]
  <2>1. /\ r.phase = p /\ r.kind = Kind(c) /\ r.email = Email(c)
        /\ r.checkedAt = tx[c].checkedAt /\ r.open = tx[c].open
    BY <1>1 DEF Request, Kind, Email
  <2>2. p \in {"revoke", "send", "commit"} => p \in Issuing
    BY DEF Issuing
  <2>3. Phase(c) = "revoke" => Phase(c) \in Issuing
    BY DEF Issuing
  <2>4. tx' = [tx EXCEPT ![c] = r]
    BY <1>8
  <2> HIDE DEF r
  <2>5. IssuersKept /\ OpenKept
    BY <1>1, <1>2, <1>8, <2>1, <2>2, <2>3, <2>4, IssuerStep
  <2> QED
    BY <1>2, <1>3, <2>5, SpacingKept
<1>9. CASE InsertAccount(c)
  <2>1. Kind(c) # "resend"
    BY <1>1, <1>9 DEF InsertAccount, MayInsert, KindInv
  <2>2. CASE Goto(c, "commit")
    BY <1>5, <2>1, <2>2
  <2>3. CASE \E i \in Unused : tx' = [tx EXCEPT ![c].phase = "send", ![c].challenge = i]
    <3>1. PICK i : tx' = [tx EXCEPT ![c] = [tx[c] EXCEPT !.phase = "send", !.challenge = i]]
      BY <1>1, <2>3 DEF TypeOK
    <3> QED
      BY <1>8, <2>1, <3>1
  <2> QED
    BY <1>9, <2>2, <2>3 DEF InsertAccount
<1>10. CASE ReadAccount(c) \/ Consume(c)
  BY <1>5, <1>10 DEF ReadAccount, Consume, Issuing
<1>11. CASE LockAccount(c) \/ SendEmail(c)
  BY <1>5, <1>11 DEF LockAccount, SendEmail, Issuing
<1>12. CASE Activate(c)
  BY <1>1, <1>5, <1>12 DEF Activate, KindInv
<1>13. CASE Snapshot(c)
  <2> DEFINE r == [tx[c] EXCEPT !.phase = "revoke", !.open = Open(Email(c))]
  <2>1. tx' = [tx EXCEPT ![c] = r]
    BY <1>1, <1>13 DEF Snapshot, TypeOK
  <2>2. /\ r.phase = "revoke" /\ r.kind = Kind(c) /\ r.email = Email(c)
        /\ r.checkedAt = tx[c].checkedAt /\ r.open = Open(Email(c))
    BY <1>1 DEF Request, Kind, Email
  <2> HIDE DEF r
  <2>3. Phase(c) \in Issuing
    BY <1>13 DEF Snapshot, Issuing
  <2> QED
    BY <1>1, <1>2, <1>3, <2>1, <2>2, <2>3, IssuerStep, SpacingKept
<1>14. CASE RevokeAndInsert(c)
  <2>1. PICK i : tx' = [tx EXCEPT ![c] = [tx[c] EXCEPT !.phase = "send", !.challenge = i]]
    BY <1>1, <1>14 DEF RevokeAndInsert, AfterIssue, TypeOK
  <2> QED
    BY <1>8, <1>14, <2>1 DEF RevokeAndInsert
<1>15. CASE FindLatest(c)
  <2> DEFINE p == IF tx[c].code = Latest(Email(c)) THEN "consume" ELSE "count"
  <2>1. tx' = [tx EXCEPT ![c] = [tx[c] EXCEPT !.phase = p, !.challenge = Latest(Email(c))]]
    BY <1>1, <1>15 DEF FindLatest, TypeOK
  <2>2. p \notin Issuing
    BY DEF Issuing
  <2> HIDE DEF p
  <2> QED
    BY <1>8, <2>1, <2>2
<1>16. CASE FindSubject(c)
  <2>1. CASE Goto(c, "email") \/ Answer(c)
    BY <1>4, <1>5, <2>1 DEF Issuing, Answer
  <2>2. CASE \E e \in AccountsOf(tx[c].subject) :
               tx' = [tx EXCEPT ![c].phase = "session", ![c].email = e]
    <3>1. PICK e : tx' = [tx EXCEPT ![c] = [tx[c] EXCEPT !.phase = "session", !.email = e]]
      BY <1>1, <2>2 DEF TypeOK
    <3>2. [tx[c] EXCEPT !.phase = "session", !.email = e].phase = "session"
      BY <1>1 DEF Request
    <3> QED
      BY <1>6, <3>1, <3>2 DEF Issuing
  <2> QED
    BY <1>16, <2>1, <2>2 DEF FindSubject
<1>17. CASE FindEmail(c) \/ LinkGoogle(c) \/ IssueSession(c)
  BY <1>4, <1>5, <1>17 DEF FindEmail, LinkGoogle, IssueSession, Answer, Issuing
<1>18. CASE RollBack(c) \/ CountFailure(c)
  BY <1>4, <1>18 DEF RollBack, CountFailure, Finish
<1> QED
  BY <1>7, <1>9, <1>10, <1>11, <1>12, <1>13, <1>14, <1>15, <1>16, <1>17, <1>18
     DEF Step, Conflict, NotPending, TooSoon, NoActiveChallenge, NotConsumable, NotActivatable,
         Fail, BreakDeadlock


\* The code that is newer than all others is the latest.
LEMMA NewestIsLatest ==
    ASSUME NEW e, NEW i \in Of(e),
           \A j \in Of(e) : challenges[j].createdAt \in Nat /\ j \in Nat,
           \A j \in Of(e) \ {i} :
              challenges[j].createdAt + ResendCooldown <= challenges[i].createdAt
    PROVE  Latest(e) = i
<1> DEFINE P(k) == \A j \in Of(e) :
              \/ challenges[j].createdAt < challenges[k].createdAt
              \/ challenges[j].createdAt = challenges[k].createdAt /\ j <= k
<1>0. ResendCooldown \in Nat
  BY RegistrationAssumption
<1>1. P(i)
  <2> SUFFICES ASSUME NEW j \in Of(e)
               PROVE  \/ challenges[j].createdAt < challenges[i].createdAt
                      \/ challenges[j].createdAt = challenges[i].createdAt /\ j <= i
    OBVIOUS
  <2>1. CASE j = i
    BY <2>1
  <2>2. CASE j # i
    BY <1>0, <2>2, CooldownAssumption
  <2> QED
    BY <2>1, <2>2
<1>2. ASSUME NEW k \in Of(e), P(k) PROVE k = i
  BY <1>0, <1>2, CooldownAssumption
<1>3. Latest(e) = CHOOSE k \in Of(e) : P(k)
  BY DEF Latest
<1> HIDE DEF P
<1> QED
  BY <1>1, <1>2, <1>3


\* Passing the cooldown: either nobody else is issuing, and every code of the
\* email is a cooldown old, or the email is overlapped.
LEMMA CooldownPassed ==
    ASSUME IInv, SpacingInv, NEW e \in Emails, Spacing(e), NEW c \in Clients,
           Email(c) = e, ~CoolingDown(c)
    PROVE  Cooled(e, tx[c].checkedAt)
<1>1. PICK i \in Open(e) : \A j \in Of(e) \ {i} :
          challenges[j].createdAt + ResendCooldown <= challenges[i].createdAt
  BY DEF Spacing
<1>2. /\ i \in Of(e)
      /\ \A j \in Of(e) : challenges[j].createdAt \in Nat /\ j \in Nat
      /\ tx[c].checkedAt \in Nat
  BY <1>1, RequestFields DEF Open, Of, IInv, TypeOK, Challenge
<1>3. Latest(e) = i
  BY <1>1, <1>2, NewestIsLatest
<1>4. ~Exhausted(i)
  BY <1>2 DEF Exhausted, SpacingInv, Of
<1>5. challenges[i].createdAt + ResendCooldown <= tx[c].checkedAt
  <2>1. CASE Expired(i, tx[c].checkedAt)
    BY <1>2, <2>1, CooldownAssumption DEF Expired
  <2>2. CASE ~Expired(i, tx[c].checkedAt)
    BY <1>1, <1>2, <1>3, <1>4, <2>2 DEF CoolingDown, LatestIsActive
  <2> QED
    BY <2>1, <2>2
<1>6. ASSUME NEW j \in Of(e) PROVE challenges[j].createdAt + ResendCooldown <= tx[c].checkedAt
  <2>1. CASE j = i
    BY <1>5, <2>1
  <2>2. CASE j # i
    BY <1>1, <1>2, <1>5, <2>2
  <2> QED
    BY <2>1, <2>2
<1> QED
  BY <1>6 DEF Cooled

LEMMA CheckCooldownSpacing ==
    ASSUME IInv, SpacingInv, NEW c \in Clients, CheckCooldown(c)
    PROVE  SpacingInv'
<1>1. TypeOK /\ KindInv(c) /\ Email(c) \in Emails
  BY RequestFields DEF IInv, ClientInv
<1>2. /\ \A d \in Clients \ {c} : tx'[d] = tx[d]
      /\ Phase(c)' = "lock" /\ Kind(c)' = Kind(c) /\ Email(c)' = Email(c)
      /\ tx'[c].checkedAt = tx[c].checkedAt
  BY <1>1 DEF CheckCooldown, Goto, TypeOK, Request, Phase, Kind, Email
<1>3. /\ UNCHANGED <<accounts, challenges>> /\ overlapped \subseteq overlapped'
      /\ Kind(c) = "resend" /\ Phase(c) = "cooldown" /\ ~CoolingDown(c)
  BY <1>1 DEF CheckCooldown, KindInv
<1>4. OpenKept
  BY <1>2, <1>3 DEF OpenKept, SpacingInv, Kind, Phase, Email, Of
<1>5. ASSUME NEW e \in Emails, accounts[e].status = "pending", e \notin overlapped'
      PROVE  Spacing(e)'
  <2>1. Spacing(e)
    BY <1>3, <1>5 DEF SpacingInv
  <2>2. Spaced(e)' /\ Open(e)' = Open(e) /\ Of(e)' = Of(e)
    BY <1>3, <2>1 DEF Spacing, Spaced, Open, Of
  <2>3. ASSUME NEW d \in Clients, Issuer(d, e)', d # c
        PROVE  Issuer(d, e) /\ tx'[d] = tx[d]
    BY <1>2, <2>3 DEF Issuer, Kind, Phase, Email
  <2>4. ASSUME Email(c) = e, NEW d \in Clients, Issuer(d, e), d # c PROVE FALSE
    BY <1>5, <2>4 DEF CheckCooldown, Issuer
  <2>5. Email(c) = e => Cooled(e, tx[c].checkedAt)
    BY <1>3, <2>1, CooldownPassed
  <2>6. ASSUME NEW d \in Clients, Issuer(d, e)'
        PROVE  Cooled(e, tx[d].checkedAt)' /\ \A b \in Clients : Issuer(b, e)' => b = d
    <3>1. CASE d = c
      <4>1. Email(c) = e
        BY <1>2, <2>6, <3>1 DEF Issuer
      <4>2. Cooled(e, tx[d].checkedAt)'
        BY <1>2, <1>3, <2>2, <2>5, <3>1, <4>1 DEF Cooled
      <4> QED
        BY <2>3, <2>4, <3>1, <4>1, <4>2
    <3>2. CASE d # c
      <4>1. Issuer(d, e) /\ tx'[d] = tx[d]
        BY <2>3, <2>6, <3>2
      <4>2. Cooled(e, tx[d].checkedAt) /\ \A b \in Clients : Issuer(b, e) => b = d
        BY <2>1, <4>1 DEF Spacing
      <4>3. Cooled(e, tx[d].checkedAt)'
        BY <1>3, <2>2, <4>1, <4>2 DEF Cooled
      <4>4. ~Issuer(c, e)'
        BY <1>2, <2>4, <3>2, <4>1 DEF Issuer
      <4> QED
        BY <2>3, <4>2, <4>3, <4>4
    <3> QED
      BY <3>1, <3>2
  <2> QED
    BY <1>3, <2>1, <2>2, <2>6 DEF Spacing
<1> QED
  BY <1>3, <1>4, <1>5 DEF SpacingInv, OpenKept

\* The first code of an account.
LEMMA RegisterSpacing ==
    ASSUME IInv, SpacingInv, NEW c \in Clients, Commit(c), Kind(c) = "register",
           NEW e \in Emails, e = Email(c)
    PROVE  Spacing(e)'
<1> DEFINE i == tx[c].challenge
<1>2. /\ TypeOK /\ ClientInv(c) /\ Phase(c) = "commit" /\ accounts[e] = Nobody
  BY CommitFacts DEF Account
<1>3. Of(e) = {}
  BY <1>2 DEF IInv, RowsInv, Of
<1>4. /\ challenges' = WithNew(challenges, c)
      /\ tx' = [tx EXCEPT ![c] = Idle]
  BY DEF Commit, Finish
<1>5. /\ DOMAIN challenges' = DOMAIN challenges \cup {i}
      /\ challenges'[i].email = e /\ ~challenges'[i].consumed
      /\ \A j \in DOMAIN challenges \ {i} : challenges'[j] = challenges[j]
  BY <1>4 DEF WithNew
<1>6. i \notin DOMAIN challenges
  BY <1>2 DEF ClientInv, NewCodeInv, Issues
<1> HIDE DEF i
<1>7. Of(e)' = {i} /\ i \in Open(e)'
  BY <1>3, <1>5, <1>6 DEF Of, Open
<1>8. ASSUME NEW d \in Clients PROVE ~Issuer(d, e)'
  <2>1. CASE d = c
    BY <1>2, <1>4, <2>1 DEF Issuer, Idle, Phase, Issuing, TypeOK
  <2>2. CASE d # c
    <3>1. tx'[d] = tx[d]
      BY <1>2, <1>4, <2>2 DEF TypeOK
    <3>2. AccountInv(d)
      BY DEF IInv, ClientInv
    <3>3. ~Issuer(d, e)
      BY <1>2, <3>2 DEF Issuer, AccountInv, Account, Issuing
    <3> QED
      BY <3>1, <3>3 DEF Issuer, Kind, Phase, Email
  <2> QED
    BY <2>1, <2>2
<1>9. Spaced(e)'
  BY <1>7 DEF Spaced
<1> QED
  BY <1>7, <1>8, <1>9 DEF Spacing


\* The next code of an account.
LEMMA ResendSpacing ==
    ASSUME IInv, SpacingInv, NEW c \in Clients, Commit(c), Kind(c) = "resend",
           NEW e \in Emails, e = Email(c), Spacing(e)
    PROVE  Spacing(e)'
<1> DEFINE i == tx[c].challenge
           at == tx[c].checkedAt
<1>1. /\ TypeOK /\ ClientInv(c) /\ Phase(c) = "commit"
      /\ challenges \in [DOMAIN challenges -> Challenge] /\ at \in Nat
  BY CommitFacts, RequestFields DEF TypeOK
<1>2. /\ challenges' = WithNew(WithConsumed(tx[c].open), c)
      /\ tx' = [tx EXCEPT ![c] = Idle]
  BY DEF Commit, Finish
<1>3. /\ DOMAIN challenges' = DOMAIN challenges \cup {i}
      /\ challenges'[i].email = e /\ ~challenges'[i].consumed /\ challenges'[i].createdAt = at
      /\ \A j \in DOMAIN challenges \ {i} : challenges'[j] = WithConsumed(tx[c].open)[j]
  BY <1>2 DEF WithNew, WithConsumed
<1>4. i \notin DOMAIN challenges
  BY <1>1 DEF ClientInv, NewCodeInv, Issues
<1>5. ASSUME NEW j \in DOMAIN challenges
      PROVE  /\ challenges'[j].email = challenges[j].email
             /\ challenges'[j].createdAt = challenges[j].createdAt
             /\ challenges[j].createdAt \in Nat
  <2>1. challenges'[j] = WithConsumed(tx[c].open)[j] /\ challenges[j] \in Challenge
    BY <1>1, <1>3, <1>4
  <2> QED
    BY <2>1 DEF WithConsumed, Challenge
<1>6. Issuer(c, e)
  BY <1>1 DEF Issuer, Issuing
<1>7. /\ \A j \in Of(e) : challenges[j].createdAt + ResendCooldown <= at
      /\ \A d \in Clients : Issuer(d, e) => d = c
  BY <1>6 DEF Spacing, Cooled
<1> HIDE DEF i, at
<1>8. Of(e)' = Of(e) \cup {i} /\ i \in Open(e)' /\ i \notin Of(e)
  BY <1>3, <1>4, <1>5 DEF Of, Open
<1>9. \A j \in Of(e) : /\ challenges'[j].createdAt = challenges[j].createdAt
                       /\ challenges[j].createdAt \in Nat
  BY <1>5 DEF Of
<1>10. Spaced(e)
  BY DEF Spacing
<1>11. ResendCooldown \in Nat
  BY RegistrationAssumption
<1>12. Spaced(e)'
  <2> SUFFICES ASSUME NEW j \in Of(e)', NEW k \in Of(e)', j # k,
                      challenges'[j].createdAt <= challenges'[k].createdAt
               PROVE  challenges'[j].createdAt + ResendCooldown <= challenges'[k].createdAt
    BY DEF Spaced
  <2>1. CASE j \in Of(e) /\ k \in Of(e)
    BY <1>9, <1>10, <2>1 DEF Spaced
  <2>2. CASE j \in Of(e) /\ k = i
    BY <1>3, <1>7, <1>9, <2>2
  <2>3. CASE j = i /\ k \in Of(e)
    BY <1>1, <1>3, <1>7, <1>9, <1>11, <2>3, CooldownAssumption
  <2> QED
    BY <1>8, <2>1, <2>2, <2>3
<1>13. \A j \in Of(e)' \ {i} :
          challenges'[j].createdAt + ResendCooldown <= challenges'[i].createdAt
  BY <1>3, <1>7, <1>8, <1>9
<1>14. ASSUME NEW d \in Clients PROVE ~Issuer(d, e)'
  <2>1. CASE d = c
    BY <1>1, <1>2, <2>1 DEF Issuer, Idle, Phase, Issuing, TypeOK
  <2>2. CASE d # c
    <3>1. tx'[d] = tx[d]
      BY <1>1, <1>2, <2>2 DEF TypeOK
    <3> QED
      BY <1>7, <2>2, <3>1 DEF Issuer, Kind, Phase, Email
  <2> QED
    BY <2>1, <2>2
<1> QED
  BY <1>8, <1>12, <1>13, <1>14 DEF Spacing

\* A commit writes rows of one email only, and counts no failed attempts.
LEMMA CommitRows ==
    ASSUME IInv, SpacingInv, NEW c \in Clients, Commit(c)
    PROVE  \A i \in DOMAIN challenges' :
              /\ challenges'[i].failedAttempts = 0
              /\ challenges'[i].email # Email(c) =>
                    i \in DOMAIN challenges /\ challenges'[i] = challenges[i]
<1> DEFINE e == Email(c)
           n == tx[c].challenge
<1>1. /\ TypeOK /\ ClientInv(c) /\ Phase(c) = "commit"
      /\ Kind(c) \in {"register", "google", "resend", "verify"}
      /\ \A i \in DOMAIN challenges :
            challenges[i] \in Challenge /\ challenges[i].failedAttempts = 0
  BY CommitFacts DEF TypeOK, SpacingInv
<1>2. ASSUME NEW R, R \subseteq Of(e)
      PROVE  /\ DOMAIN WithConsumed(R) = DOMAIN challenges
             /\ \A i \in DOMAIN challenges :
                   /\ WithConsumed(R)[i].failedAttempts = 0
                   /\ WithConsumed(R)[i].email = challenges[i].email
                   /\ challenges[i].email # e => WithConsumed(R)[i] = challenges[i]
  BY <1>1, <1>2 DEF WithConsumed, Challenge, Of
<1>3. ASSUME NEW t, DOMAIN t = DOMAIN challenges
      PROVE  /\ DOMAIN WithNew(t, c) = DOMAIN challenges \cup {n}
             /\ WithNew(t, c)[n].email = e /\ WithNew(t, c)[n].failedAttempts = 0
             /\ \A i \in DOMAIN challenges \ {n} : WithNew(t, c)[i] = t[i]
  BY <1>3 DEF WithNew
<1>4. CASE Kind(c) = "register"
  <2>1. challenges' = WithNew(challenges, c)
    BY <1>4 DEF Commit
  <2> QED
    BY <1>1, <1>3, <2>1
<1>5. CASE Kind(c) = "resend"
  <2>1. challenges' = WithNew(WithConsumed(tx[c].open), c)
    BY <1>5 DEF Commit
  <2>2. tx[c].open \subseteq Of(e)
    BY <1>1, <1>5 DEF SpacingInv
  <2>3. DOMAIN WithConsumed(tx[c].open) = DOMAIN challenges
    BY <1>2, <2>2
  <2>4. /\ DOMAIN challenges' = DOMAIN challenges \cup {n}
        /\ challenges'[n].email = e /\ challenges'[n].failedAttempts = 0
        /\ \A i \in DOMAIN challenges \ {n} : challenges'[i] = WithConsumed(tx[c].open)[i]
    BY <1>3, <2>1, <2>3
  <2> QED
    BY <1>2, <2>2, <2>4
<1>6. CASE Kind(c) = "verify"
  <2>1. challenges' = WithConsumed({n})
    BY <1>6 DEF Commit
  <2>2. {n} \subseteq Of(e)
    BY <1>1, <1>6 DEF ClientInv, ConsumeInv, Open
  <2> QED
    BY <1>2, <2>1, <2>2
<1>7. CASE Kind(c) = "google"
  BY <1>1, <1>7 DEF Commit
<1> QED
  BY <1>1, <1>4, <1>5, <1>6, <1>7

LEMMA CommitSpacing ==
    ASSUME IInv, SpacingInv, NEW c \in Clients, Commit(c)
    PROVE  SpacingInv'
<1>1. PICK e \in Emails : e = Email(c)
  BY CommitFacts
<1>2. /\ TypeOK /\ accounts[e] \in User
      /\ Kind(c) \in {"register", "google", "resend", "verify"}
      /\ tx' = [tx EXCEPT ![c] = Idle] /\ UNCHANGED overlapped
  BY <1>1, CommitFacts DEF Commit, Finish
<1>3. /\ tx'[c] = Idle /\ \A d \in Clients \ {c} : tx'[d] = tx[d]
      /\ Phase(c)' = "idle"
  BY <1>2 DEF TypeOK, Idle, Phase
<1>4. IssuersKept
  BY <1>3 DEF IssuersKept, Issuer, Issuing, Kind, Phase, Email
<1>5. /\ DOMAIN challenges \subseteq DOMAIN challenges'
      /\ \A i \in DOMAIN challenges : challenges'[i].email = challenges[i].email
  BY CommitChallenges
<1>6. \A i \in DOMAIN challenges' :
         /\ challenges'[i].failedAttempts = 0
         /\ challenges'[i].email # e => i \in DOMAIN challenges /\ challenges'[i] = challenges[i]
  BY <1>1, CommitRows
<1>7. OpenKept
  <2> SUFFICES ASSUME NEW d \in Clients, Kind(d)' = "resend",
                      Phase(d)' \in {"revoke", "send", "commit"}
               PROVE  tx'[d].open \subseteq Of(Email(d))'
    BY DEF OpenKept
  <2>1. d # c
    BY <1>3
  <2>2. tx'[d] = tx[d] /\ Email(d)' = Email(d)
    BY <1>3, <2>1 DEF Email
  <2>3. tx[d].open \subseteq Of(Email(d))
    BY <2>2 DEF SpacingInv, Kind, Phase
  <2> QED
    BY <1>5, <2>2, <2>3 DEF Of
<1>8. ASSUME NEW f \in Emails, accounts'[f].status = "pending", f \notin overlapped'
      PROVE  Spacing(f)'
  <2>1. CASE f # e
    <3>1. accounts'[f] = accounts[f]
      <4>1. PICK a \in User : accounts' = [accounts EXCEPT ![Email(c)] = a]
        BY CommitAccount
      <4> QED
        BY <1>1, <1>2, <2>1, <4>1 DEF TypeOK
    <3>2. Spacing(f)
      BY <1>2, <1>8, <3>1 DEF SpacingInv
    <3>3. Of(f)' = Of(f) /\ \A i \in Of(f) : challenges'[i] = challenges[i]
      BY <1>5, <1>6, <2>1 DEF Of
    <3> QED
      BY <1>4, <3>2, <3>3, SpacingOf
  <2>2. CASE f = e /\ Kind(c) = "register"
    BY <1>1, <2>2, RegisterSpacing
  <2>3. CASE f = e /\ Kind(c) = "resend"
    <3>1. accounts'[e] = accounts[e]
      BY <1>1, <1>2, <2>3 DEF Commit, TypeOK
    <3>2. Spacing(e)
      BY <1>2, <1>8, <2>3, <3>1 DEF SpacingInv
    <3> QED
      BY <1>1, <2>3, <3>2, ResendSpacing
  <2>4. CASE f = e /\ Kind(c) = "verify"
    <3>1. accounts'[e] = Verified(accounts[e])
      BY <1>1, <1>2, <2>4 DEF Commit, TypeOK
    <3> QED
      BY <1>2, <1>8, <2>4, <3>1 DEF Verified, User
  <2>5. CASE f = e /\ Kind(c) = "google"
    <3>1. accounts'[e] = [Verified(accounts[e]) EXCEPT !.subject = tx[c].subject]
      BY <1>1, <1>2, <2>5 DEF Commit, TypeOK
    <3> QED
      BY <1>2, <1>8, <2>5, <3>1 DEF Verified, User
  <2> QED
    BY <1>2, <2>1, <2>2, <2>3, <2>4, <2>5
<1> QED
  BY <1>6, <1>7, <1>8 DEF SpacingInv, OpenKept

LEMMA InitSpacing == Init => SpacingInv
<1> SUFFICES ASSUME Init PROVE SpacingInv
  OBVIOUS
<1>1. \A e \in Emails : accounts[e].status # "pending"
  BY DEF Init, Nobody, Known
<1>2. DOMAIN challenges = {} /\ \A c \in Clients : Phase(c) = "idle"
  BY DEF Init, Idle, Phase
<1> QED
  BY <1>1, <1>2 DEF SpacingInv

LEMMA NextSpacing == IInv /\ SpacingInv /\ [Next]_vars => SpacingInv'
<1> SUFFICES ASSUME IInv, SpacingInv, [Next]_vars PROVE SpacingInv'
  OBVIOUS
<1>1. accounts \in [Emails -> User]
  BY DEF IInv, TypeOK
<1>2. ASSUME UNCHANGED <<tx, challenges, overlapped>>,
             \A e \in Emails : accounts'[e].status = "pending" => accounts[e].status = "pending"
      PROVE  SpacingInv'
  <2>1. IssuersKept /\ OpenKept
    BY <1>2 DEF IssuersKept, OpenKept, SpacingInv, Issuer, Of, Kind, Phase, Email
  <2> QED
    BY <1>2, <2>1, SpacingKept
<1>3. CASE \E c \in Clients :
              \/ \E kind \in Kinds, email \in Emails, subject \in Subjects \cup {None},
                    code \in ChallengeIds \cup {None} : Send(c, kind, email, subject, code)
              \/ Step(c) \/ Fail(c) \/ BreakDeadlock(c)
  BY <1>3, RequestSpacing, CheckCooldownSpacing, CommitSpacing
<1>4. ASSUME NEW e \in Emails, Disable(e) \/ Enable(e) PROVE SpacingInv'
  <2>1. PICK s \in {"disabled", "active"} : accounts' = [accounts EXCEPT ![e].status = s]
    BY <1>4 DEF Disable, Enable
  <2>2. \A f \in Emails : accounts'[f].status = "pending" => accounts[f].status = "pending"
    BY <1>1, <2>1 DEF User
  <2> QED
    BY <1>2, <1>4, <2>2 DEF Disable, Enable
<1>5. CASE Tick \/ UNCHANGED vars
  BY <1>2, <1>5 DEF Tick, vars
<1> QED
  BY <1>3, <1>4, <1>5 DEF Next

LEMMA SpacingHolds == Spec => [](IInv /\ SpacingInv)
BY InitIInv, NextIInv, InitSpacing, NextSpacing, PTL DEF Spec

\* Two codes of a pending account are a cooldown apart by the clocks of the
\* requests that issued them, unless two of them passed the cooldown before
\* either committed (registration.live.ts:52).
THEOREM CodesApart == Spec => []SpacedUnlessOverlapped
<1>1. SpacingInv => SpacedUnlessOverlapped
  BY DEF SpacingInv, Spacing, SpacedUnlessOverlapped
<1> QED
  BY <1>1, SpacingHolds, PTL

\* The row a verification finds, the newest by created_at, is the only code of
\* the pending account that is not revoked, unless requests overlapped
\* (repositories.drizzle.ts:182).
THEOREM NewestOpen == Spec => []NewestCodeIsOpen
<1>1. ASSUME IInv, SpacingInv, NEW e \in Emails, accounts[e].status = "pending",
             e \notin overlapped
      PROVE  Latest(e) \in Open(e)
  <2>1. PICK i \in Open(e) : \A j \in Of(e) \ {i} :
            challenges[j].createdAt + ResendCooldown <= challenges[i].createdAt
    BY <1>1 DEF SpacingInv, Spacing
  <2>2. /\ i \in Of(e)
        /\ \A j \in Of(e) : challenges[j].createdAt \in Nat /\ j \in Nat
    BY <1>1, <2>1 DEF Open, Of, IInv, TypeOK, Challenge
  <2>3. Latest(e) = i
    BY <2>1, <2>2, NewestIsLatest
  <2> QED
    BY <2>1, <2>3
<1>2. IInv /\ SpacingInv => NewestCodeIsOpen
  BY <1>1 DEF NewestCodeIsOpen
<1> QED
  BY <1>2, SpacingHolds, PTL
=============================================================================
