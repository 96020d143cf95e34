----------------------------- MODULE Registration -----------------------------
(***************************************************************************)
(* Registering, resending a verification code and verifying an email, and  *)
(* signing in with Google: registration.live.ts and google.live.ts over    *)
(* the users and auth_challenges tables of repositories.drizzle.ts.        *)
(*                                                                         *)
(* Each request is a transaction at READ COMMITTED, one action per         *)
(* statement.  What it writes is visible to others, and its row locks are  *)
(* gone, when it commits; a failure rolls everything back.  Only signing   *)
(* in with Google is statements that commit one by one.  Each request      *)
(* reads the clock once, before its transaction.  Ids stand for UUIDs:     *)
(* numbers, because challenges of one moment are sorted by id.             *)
(***************************************************************************)
EXTENDS Integers, FiniteSets

CONSTANTS Clients,        \* requests being served at a time
          Emails,
          Subjects,       \* Google identities
          ChallengeIds,   \* ids of challenges; each has a code of its own
          None,           \* no challenge, no identity, and a code that is nobody's
          Free,           \* holder of a lock nobody holds
          ChallengeTtl, ResendCooldown, MaximumAttempts, \* EmailRegistrationPolicy
          MaxTime, MaxRequests                           \* bounds of a behaviour

ASSUME RegistrationAssumption ==
    /\ Free \notin Clients
    /\ Emails # {}
    /\ ChallengeIds \subseteq Nat
    /\ IsFiniteSet(ChallengeIds)
    /\ None \notin ChallengeIds \cup Subjects
    /\ {ChallengeTtl, ResendCooldown, MaximumAttempts, MaxTime, MaxRequests} \subseteq Nat
    /\ MaximumAttempts > 0

\* A code outlives its cooldown.
ASSUME CooldownAssumption == 0 < ResendCooldown /\ ResendCooldown <= ChallengeTtl

VARIABLES now,
          accounts,       \* committed row of each email, or Nobody
          challenges,     \* committed rows of auth_challenges, by id
          accountLock,    \* holder of each users row, inserted ones included
          challengeLock,  \* holder of each auth_challenges row
          tx,             \* the request of each client
          sent,           \* requests sent so far
          mailed,         \* challenges whose code has been mailed
          pending,        \* identities and emails that may register
          signedIn,       \* history: identities and the accounts they came into
          wrong,          \* history: wrong codes answered, by challenge
          overlapped      \* history: emails with two codes being issued at once

vars == <<now, accounts, challenges, accountLock, challengeLock, tx, sent,
          mailed, pending, signedIn, wrong, overlapped>>
google == <<pending, signedIn>>
locks == <<accountLock, challengeLock>>

Kinds == {"register", "google", "resend", "verify", "login"}
Phases == {"idle", "insert", "account", "cooldown", "lock", "snapshot", "revoke",
           "send", "latest", "count", "consume", "activate", "commit",
           "subject", "email", "link", "session"}

Statuses == {"none", "pending", "active", "disabled"}
Nobody == [status |-> "none", verified |-> FALSE, subject |-> None]

\* An account whose email was verified some time ago.
Known == [status |-> "active", verified |-> TRUE, subject |-> None]

User == [status: Statuses, verified: BOOLEAN, subject: Subjects \cup {None}]

Challenge == [email: Emails, createdAt: Nat, failedAttempts: Nat, consumed: BOOLEAN]

\* `code` is the challenge whose code a verification presents, `open` the rows
\* an issuing transaction will revoke, `challenge` the row it inserts or the
\* row a verification has found.
Request == [phase: Phases, kind: Kinds, email: Emails, subject: Subjects \cup {None},
            code: ChallengeIds \cup {None}, checkedAt: Nat,
            open: SUBSET ChallengeIds, challenge: ChallengeIds \cup {None}]

Idle == [phase |-> "idle", kind |-> "resend", email |-> CHOOSE e \in Emails : TRUE,
         subject |-> None, code |-> None, checkedAt |-> 0, open |-> {}, challenge |-> None]

Init ==
    /\ now = 0
    /\ accounts \in [Emails -> {Nobody, Known}]
    /\ challenges = [i \in {} |-> Nobody]
    /\ accountLock = [e \in Emails |-> Free]
    /\ challengeLock = [i \in ChallengeIds |-> Free]
    /\ tx = [c \in Clients |-> Idle]
    /\ sent = 0
    /\ mailed = {}
    /\ pending = {}
    /\ signedIn = {}
    /\ wrong = [i \in ChallengeIds |-> 0]
    /\ overlapped = {}

-----------------------------------------------------------------------------

Phase(c) == tx[c].phase
Kind(c)  == tx[c].kind
Email(c) == tx[c].email
Account(c) == accounts[Email(c)]
Goto(c, phase) == tx' = [tx EXCEPT ![c].phase = phase]

Of(email) == {i \in DOMAIN challenges : challenges[i].email = email}
Open(email) == {i \in Of(email) : ~challenges[i].consumed}

Expired(i, at) == challenges[i].createdAt + ChallengeTtl <= at
Exhausted(i) == challenges[i].failedAttempts >= MaximumAttempts

\* Seeded defect: ORDER BY created_at, id LIMIT 1.
LatestAscending(email) ==
    CHOOSE i \in Of(email) : \A j \in Of(email) :
        \/ challenges[j].createdAt > challenges[i].createdAt
        \/ challenges[j].createdAt = challenges[i].createdAt /\ j >= i

\* ORDER BY created_at DESC, id DESC LIMIT 1.
Latest(email) ==
    CHOOSE i \in Of(email) : \A j \in Of(email) :
        \/ challenges[j].createdAt < challenges[i].createdAt
        \/ challenges[j].createdAt = challenges[i].createdAt /\ j <= i

\* findLatest answers Active.
LatestIsActive(email, at) ==
    /\ Of(email) # {}
    /\ Latest(email) \in Open(email)
    /\ ~Expired(Latest(email), at)
    /\ ~Exhausted(Latest(email))

\* An id no transaction has drawn yet.
Unused == ChallengeIds \ (DOMAIN challenges \cup mailed \cup {tx[c].challenge : c \in Clients})

\* The transaction is over, committed or rolled back.
Release(c) ==
    /\ accountLock' = [e \in Emails |-> IF accountLock[e] = c THEN Free ELSE accountLock[e]]
    /\ challengeLock' =
          [i \in ChallengeIds |-> IF challengeLock[i] = c THEN Free ELSE challengeLock[i]]

Finish(c) ==
    /\ Release(c)
    /\ tx' = [tx EXCEPT ![c] = Idle]

RollBack(c) ==
    /\ Finish(c)
    /\ UNCHANGED <<now, accounts, challenges, sent, mailed, google, wrong, overlapped>>

\* A request arrives and reads the clock.
Send(c, kind, email, subject, code) ==
    /\ Phase(c) = "idle"
    /\ sent < MaxRequests
    /\ sent' = sent + 1
    /\ kind # "verify" => code = None
    /\ code # None => code \in mailed
    /\ kind \in {"google", "login"} <=> subject # None
    /\ kind = "google" => <<subject, email>> \in pending
    /\ tx' = [tx EXCEPT ![c] =
                [Idle EXCEPT !.phase = CASE kind \in {"register", "google"} -> "insert"
                                         [] kind \in {"resend", "verify"} -> "account"
                                         [] kind = "login" -> "subject",
                             !.kind = kind, !.email = email, !.subject = subject,
                             !.code = code, !.checkedAt = now]]
    /\ UNCHANGED <<now, accounts, challenges, locks, mailed, google, wrong, overlapped>>

-----------------------------------------------------------------------------
(* Creating an account                                                     *)

\* The accounts of an identity: users_google_subject_uidx leaves one at most.
AccountsOf(subject) == {e \in Emails : accounts[e].subject = subject}

\* Another transaction is inserting a row with the same identity.
BeingInserted(c) ==
    \E d \in Clients \ {c} :
        Kind(d) = "google" /\ Phase(d) = "commit" /\ tx[d].subject = tx[c].subject

Taken(c) == \/ Account(c) # Nobody
            \/ Kind(c) = "google" /\ AccountsOf(tx[c].subject) # {}

\* INSERT ... ON CONFLICT DO NOTHING waits for a row with the same email, or
\* the same identity, that another transaction is inserting.
MayInsert(c) ==
    /\ Phase(c) = "insert"
    /\ accountLock[Email(c)] = Free
    /\ Kind(c) = "google" => ~BeingInserted(c)

InsertAccount(c) ==
    /\ MayInsert(c)
    /\ ~Taken(c)
    /\ accountLock' = [accountLock EXCEPT ![Email(c)] = c]
    /\ \/ /\ Kind(c) = "google"
          /\ Goto(c, "commit")
       \/ /\ Kind(c) = "register"
          /\ \E i \in Unused :
                tx' = [tx EXCEPT ![c].phase = "send", ![c].challenge = i]
    /\ UNCHANGED <<now, accounts, challenges, challengeLock, sent, mailed, google, wrong, overlapped>>

\* UserConflict.
Conflict(c) ==
    /\ MayInsert(c)
    /\ Taken(c)
    /\ RollBack(c)

-----------------------------------------------------------------------------
(* Issuing another code                                                    *)

\* Unknown and other accounts are answered alike.
ReadAccount(c) ==
    /\ Phase(c) = "account"
    /\ Account(c).status = "pending"
    /\ Goto(c, IF Kind(c) = "resend" THEN "cooldown" ELSE "latest")
    /\ UNCHANGED <<now, accounts, challenges, locks, sent, mailed, google, wrong, overlapped>>

NotPending(c) ==
    /\ Phase(c) = "account"
    /\ Account(c).status # "pending"
    /\ RollBack(c)

\* Seeded defect: any time is good for another code.
CoolingDownNever(c) == FALSE

CoolingDown(c) ==
    /\ LatestIsActive(Email(c), tx[c].checkedAt)
    /\ challenges[Latest(Email(c))].createdAt + ResendCooldown > tx[c].checkedAt

Issuing == {"lock", "snapshot", "revoke", "send", "commit"}

CheckCooldown(c) ==
    /\ Phase(c) = "cooldown"
    /\ ~CoolingDown(c)
    /\ Goto(c, "lock")
    /\ overlapped' = IF \E d \in Clients \ {c} :
                            Kind(d) = "resend" /\ Phase(d) \in Issuing /\ Email(d) = Email(c)
                     THEN overlapped \cup {Email(c)} ELSE overlapped
    /\ UNCHANGED <<now, accounts, challenges, locks, sent, mailed, google, wrong>>

\* VerificationCooldown.
TooSoon(c) ==
    /\ Phase(c) = "cooldown"
    /\ CoolingDown(c)
    /\ RollBack(c)

\* Seeded defect: SELECT without FOR UPDATE.
AccountLockedUnneeded(c) == FALSE

AccountLocked(c) == accountLock[Email(c)] # Free

\* SELECT ... FROM users FOR UPDATE: issuers of one account take turns.
LockAccount(c) ==
    /\ Phase(c) = "lock"
    /\ ~AccountLocked(c)
    /\ accountLock' = [accountLock EXCEPT ![Email(c)] = c]
    /\ Goto(c, "snapshot")
    /\ UNCHANGED <<now, accounts, challenges, challengeLock, sent, mailed, google, wrong, overlapped>>

\* The UPDATE that revokes finds the open rows as it starts, then waits for
\* each of them.
Snapshot(c) ==
    /\ Phase(c) = "snapshot"
    /\ tx' = [tx EXCEPT ![c].phase = "revoke", ![c].open = Open(Email(c))]
    /\ UNCHANGED <<now, accounts, challenges, locks, sent, mailed, google, wrong, overlapped>>

\* Seeded defect: the mail is left for after the commit.
AfterIssueCommit == "commit"

AfterIssue == "send"

RevokeAndInsert(c) ==
    /\ Phase(c) = "revoke"
    /\ \A i \in tx[c].open : challengeLock[i] = Free
    /\ challengeLock' = [i \in ChallengeIds |->
                            IF i \in tx[c].open THEN c ELSE challengeLock[i]]
    /\ \E i \in Unused :
          tx' = [tx EXCEPT ![c].phase = AfterIssue, ![c].challenge = i]
    /\ UNCHANGED <<now, accounts, challenges, accountLock, sent, mailed, google, wrong, overlapped>>

\* The mail leaves before the transaction commits.
SendEmail(c) ==
    /\ Phase(c) = "send"
    /\ mailed' = mailed \cup {tx[c].challenge}
    /\ Goto(c, "commit")
    /\ UNCHANGED <<now, accounts, challenges, locks, sent, google, wrong, overlapped>>

-----------------------------------------------------------------------------
(* Verifying an email                                                      *)

FindLatest(c) ==
    /\ Phase(c) = "latest"
    /\ LatestIsActive(Email(c), tx[c].checkedAt)
    /\ LET i == Latest(Email(c))
       IN  tx' = [tx EXCEPT ![c].challenge = i,
                            ![c].phase = IF tx[c].code = i THEN "consume" ELSE "count"]
    /\ UNCHANGED <<now, accounts, challenges, locks, sent, mailed, google, wrong, overlapped>>

\* Missing, used, expired or with too many attempts.
NoActiveChallenge(c) ==
    /\ Phase(c) = "latest"
    /\ ~LatestIsActive(Email(c), tx[c].checkedAt)
    /\ RollBack(c)

\* A wrong code is counted, and the failure that answers it undoes the count.
CountFailure(c) ==
    /\ Phase(c) = "count"
    /\ challengeLock[tx[c].challenge] = Free
    /\ wrong' = [wrong EXCEPT ![tx[c].challenge] = @ + 1]
    /\ Finish(c)
    /\ UNCHANGED <<now, accounts, challenges, sent, mailed, google, overlapped>>

\* Seeded defect: the UPDATE names the row by its id alone.
ConsumableById(c) == TRUE

Consumable(c) ==
    /\ tx[c].challenge \in Open(Email(c))
    /\ ~Expired(tx[c].challenge, tx[c].checkedAt)
    /\ ~Exhausted(tx[c].challenge)

Consume(c) ==
    /\ Phase(c) = "consume"
    /\ challengeLock[tx[c].challenge] = Free
    /\ Consumable(c)
    /\ challengeLock' = [challengeLock EXCEPT ![tx[c].challenge] = c]
    /\ Goto(c, "activate")
    /\ UNCHANGED <<now, accounts, challenges, accountLock, sent, mailed, google, wrong, overlapped>>

NotConsumable(c) ==
    /\ Phase(c) = "consume"
    /\ challengeLock[tx[c].challenge] = Free
    /\ ~Consumable(c)
    /\ RollBack(c)

Activatable(c) == Account(c).status = "pending"

Activate(c) ==
    /\ Phase(c) = "activate"
    /\ accountLock[Email(c)] = Free
    /\ Activatable(c)
    /\ accountLock' = [accountLock EXCEPT ![Email(c)] = c]
    /\ Goto(c, "commit")
    /\ UNCHANGED <<now, accounts, challenges, challengeLock, sent, mailed, google, wrong, overlapped>>

NotActivatable(c) ==
    /\ Phase(c) = "activate"
    /\ accountLock[Email(c)] = Free
    /\ ~Activatable(c)
    /\ RollBack(c)

-----------------------------------------------------------------------------
(* Signing in with Google                                                  *)

Answer(c) == tx' = [tx EXCEPT ![c] = Idle]

FindSubject(c) ==
    /\ Phase(c) = "subject"
    /\ IF AccountsOf(tx[c].subject) = {}
       THEN Goto(c, "email")
       ELSE \E e \in AccountsOf(tx[c].subject) :
               IF accounts[e].status = "active"
               THEN tx' = [tx EXCEPT ![c].phase = "session", ![c].email = e]
               ELSE Answer(c)
    /\ UNCHANGED <<now, accounts, challenges, locks, sent, mailed, google, wrong, overlapped>>

\* An identity that nobody has, with an email that nobody has, may register.
FindEmail(c) ==
    /\ Phase(c) = "email"
    /\ IF Account(c).status = "active" /\ Account(c).verified
       THEN Goto(c, "link") ELSE Answer(c)
    /\ pending' = IF Account(c) = Nobody
                  THEN pending \cup {<<tx[c].subject, Email(c)>>} ELSE pending
    /\ UNCHANGED <<now, accounts, challenges, locks, sent, mailed, signedIn, wrong, overlapped>>

\* Seeded defect: the UPDATE does not look at the identity there is.
LinkableToAny(c) == Account(c).status = "active" /\ Account(c).verified

Linkable(c) ==
    /\ Account(c).status = "active"
    /\ Account(c).verified
    /\ Account(c).subject \in {None, tx[c].subject}

\* linkGoogle: an UPDATE with the conditions the account was read with, which
\* waits for a row that another transaction has written or is inserting.
LinkGoogle(c) ==
    /\ Phase(c) = "link"
    /\ accountLock[Email(c)] = Free
    /\ ~BeingInserted(c)
    /\ IF Linkable(c) /\ AccountsOf(tx[c].subject) \subseteq {Email(c)}
       THEN /\ accounts' = [accounts EXCEPT ![Email(c)].subject = tx[c].subject]
            /\ Goto(c, "session")
       ELSE UNCHANGED accounts /\ Answer(c)
    /\ UNCHANGED <<now, challenges, locks, sent, mailed, google, wrong, overlapped>>

IssueSession(c) ==
    /\ Phase(c) = "session"
    /\ signedIn' = signedIn \cup {<<tx[c].subject, Email(c)>>}
    /\ Answer(c)
    /\ UNCHANGED <<now, accounts, challenges, locks, sent, mailed, pending, wrong, overlapped>>

-----------------------------------------------------------------------------
(* Ends                                                                    *)

Verified(a) == [a EXCEPT !.status = "active", !.verified = TRUE]

WithConsumed(rows) ==
    [i \in DOMAIN challenges |->
        IF i \in rows THEN [challenges[i] EXCEPT !.consumed = TRUE] ELSE challenges[i]]

WithNew(table, c) ==
    [i \in DOMAIN table \cup {tx[c].challenge} |->
        IF i = tx[c].challenge
        THEN [email |-> Email(c), createdAt |-> tx[c].checkedAt,
              failedAttempts |-> 0, consumed |-> FALSE]
        ELSE table[i]]

\* The session of a verification, or of a Google registration, is inserted in
\* the same transaction.
Commit(c) ==
    /\ Phase(c) = "commit"
    /\ accounts' = [accounts EXCEPT ![Email(c)] =
                      CASE Kind(c) = "register" -> [@ EXCEPT !.status = "pending"]
                        [] Kind(c) = "google" ->
                              [Verified(@) EXCEPT !.subject = tx[c].subject]
                        [] Kind(c) = "verify" -> Verified(@)
                        [] Kind(c) = "resend" -> @]
    /\ challenges' = CASE Kind(c) = "register" -> WithNew(challenges, c)
                       [] Kind(c) = "resend" -> WithNew(WithConsumed(tx[c].open), c)
                       [] Kind(c) = "verify" -> WithConsumed({tx[c].challenge})
                       [] Kind(c) = "google" -> challenges
    /\ signedIn' = IF Kind(c) = "google"
                   THEN signedIn \cup {<<tx[c].subject, Email(c)>>} ELSE signedIn
    /\ Finish(c)
    /\ UNCHANGED <<now, sent, mailed, pending, wrong, overlapped>>

\* A statement, the mail or the commit fails.
Fail(c) ==
    /\ Phase(c) # "idle"
    /\ RollBack(c)

\* Who waits for whom, and PostgreSQL's answer to a circle.
Waits(c, d) ==
    /\ c # d
    /\ \/ Phase(c) \in {"insert", "lock", "activate"} /\ accountLock[Email(c)] = d
       \/ Phase(c) = "revoke" /\ \E i \in tx[c].open : challengeLock[i] = d
       \/ Phase(c) \in {"count", "consume"} /\ challengeLock[tx[c].challenge] = d

InDeadlock(c) == \E d \in Clients : Waits(c, d) /\ Waits(d, c)

BreakDeadlock(c) ==
    /\ InDeadlock(c)
    /\ RollBack(c)

-----------------------------------------------------------------------------
(* Administrators and time                                                 *)

Disable(email) ==
    /\ accounts[email].status \in {"pending", "active"}
    /\ accountLock[email] = Free
    /\ accounts' = [accounts EXCEPT ![email].status = "disabled"]
    /\ UNCHANGED <<now, challenges, locks, tx, sent, mailed, google, wrong, overlapped>>

\* Only a verified account can be enabled.
Enable(email) ==
    /\ accounts[email].status = "disabled"
    /\ accounts[email].verified
    /\ accountLock[email] = Free
    /\ accounts' = [accounts EXCEPT ![email].status = "active"]
    /\ UNCHANGED <<now, challenges, locks, tx, sent, mailed, google, wrong, overlapped>>

Tick ==
    /\ now < MaxTime
    /\ now' = now + 1
    /\ UNCHANGED <<accounts, challenges, locks, tx, sent, mailed, google, wrong, overlapped>>

Step(c) ==
    \/ InsertAccount(c) \/ Conflict(c)
    \/ ReadAccount(c) \/ NotPending(c) \/ CheckCooldown(c) \/ TooSoon(c)
    \/ LockAccount(c) \/ Snapshot(c) \/ RevokeAndInsert(c) \/ SendEmail(c)
    \/ FindLatest(c) \/ NoActiveChallenge(c) \/ CountFailure(c)
    \/ Consume(c) \/ NotConsumable(c) \/ Activate(c) \/ NotActivatable(c)
    \/ Commit(c)
    \/ FindSubject(c) \/ FindEmail(c) \/ LinkGoogle(c) \/ IssueSession(c)

Quiet == sent = MaxRequests /\ \A c \in Clients : Phase(c) = "idle"

Next ==
    \/ \E c \in Clients :
          \/ \E kind \in Kinds, email \in Emails, subject \in Subjects \cup {None},
                code \in ChallengeIds \cup {None} : Send(c, kind, email, subject, code)
          \/ Step(c) \/ Fail(c) \/ BreakDeadlock(c)
    \/ \E email \in Emails : Disable(email) \/ Enable(email)
    \/ Tick
    \/ Quiet /\ UNCHANGED vars

Spec == Init /\ [][Next]_vars

-----------------------------------------------------------------------------
(* Properties                                                              *)

\* Type invariant: every variable of the model has its shape, and an active
\* account has a verified email.
TypeOK ==
    /\ now \in Nat
    /\ accounts \in [Emails -> User]
    /\ \A e \in Emails : accounts[e].status = "active" => accounts[e].verified
    /\ DOMAIN challenges \subseteq ChallengeIds
    /\ challenges \in [DOMAIN challenges -> Challenge]
    /\ accountLock \in [Emails -> Clients \cup {Free}]
    /\ challengeLock \in [ChallengeIds -> Clients \cup {Free}]
    /\ tx \in [Clients -> Request]
    /\ sent \in Nat
    /\ mailed \subseteq ChallengeIds
    /\ pending \subseteq Subjects \X Emails
    /\ signedIn \subseteq Subjects \X Emails
    /\ wrong \in [ChallengeIds -> Nat]
    /\ overlapped \subseteq Emails

\* However many codes are asked for at once, an account has at most one that
\* has not been consumed or revoked: the lock on its row makes revoking and
\* inserting one operation (repositories.drizzle.ts:158).
OneOpenChallenge ==
    \A e \in Emails, i, j \in DOMAIN challenges :
        i \in Open(e) /\ j \in Open(e) => i = j

\* A code replaces the ones before it only when it has been mailed: a failed
\* delivery never leaves an account without a code it knows.
CodesWereMailed == DOMAIN challenges \subseteq mailed

\* Two codes of an account are a cooldown apart.
Spaced(e) ==
    \A i, j \in Of(e) :
        i # j /\ challenges[i].createdAt <= challenges[j].createdAt =>
            challenges[i].createdAt + ResendCooldown <= challenges[j].createdAt

\* The codes of a pending account are a cooldown apart, unless two requests
\* were issuing codes for it at once (registration.live.ts:52).  Once the
\* account is active a resend that read it as pending may still issue one, as
\* the code before it no longer counts as active.
SpacedUnlessOverlapped ==
    \A e \in Emails :
        accounts[e].status = "pending" => Spaced(e) \/ e \in overlapped

\* The code that a verification will look at is the one that has not been
\* revoked, so a pending account can always use the last code it was mailed:
\* the newest row by created_at is the last one issued, unless two requests
\* were issuing codes at once (repositories.drizzle.ts:182).
NewestCodeIsOpen ==
    \A e \in Emails :
        accounts[e].status = "pending" => Latest(e) \in Open(e) \/ e \in overlapped

\* An account is activated with a code that nothing has replaced or used, and
\* using it consumes it in the same step.
ActivatedByOpenCode ==
    [][\A e \in Emails :
          accounts[e].status = "pending" /\ accounts'[e].status = "active" =>
              \E i \in Open(e) : i \in mailed /\ challenges'[i].consumed]_vars

\* An identity always comes into the same account, and no two come into one,
\* however its logins, the registrations of the same email and those of other
\* identities overlap: a login links the account it has read in another
\* statement (google.live.ts:50), and registering follows a login that found
\* nobody (google.live.ts:54).
IdentitiesKeepApart ==
    \A p, q \in signedIn : p[1] = q[1] <=> p[2] = q[2]

\* A code that was answered wrong the maximum number of times activates
\* nothing: "máximo cinco intentos".
AttemptsLimited ==
    [][\A i \in DOMAIN challenges :
          challenges'[i].consumed /\ ~challenges[i].consumed
            /\ accounts'[challenges[i].email] # accounts[challenges[i].email] =>
              wrong[i] < MaximumAttempts]_vars
=============================================================================
