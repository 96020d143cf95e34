--------------------------- MODULE PasswordRecovery ---------------------------
(***************************************************************************)
(* Forgetting a password: the services of                                  *)
(* backend-infra/src/modules/auth/authentication.live.ts with their        *)
(* statements over one account, its reset codes and its sessions, and the  *)
(* recovery screens of the web (frontend-core/src/auth/recovery.ts,        *)
(* apps/web/src/modules/auth/actions.ts) in browsers that send a request   *)
(* at a time.  A reset that the screens cannot send may come from another  *)
(* client of the API.  The button to send the code again is there from the *)
(* start: its cooldown is the browser's alone.                             *)
(*                                                                         *)
(* No service here is a transaction: every statement commits by itself.    *)
(* Only issuing a code is one, and it holds the account's row from its     *)
(* first statement, so that it is one step.  A reset reads the clock once, *)
(* so that a code that is valid when it is looked up stays valid for it.   *)
(***************************************************************************)
EXTENDS Integers, FiniteSets

CONSTANTS Browsers,
          Passwords, Old,       \* the password at the start is Old
          Codes,                \* reset codes, each of a challenge of its own
          SessionIds,
          None,
          MaximumAttempts,      \* passwordResetMaximumAttempts
          MaxRequests, MaxStrays    \* bounds of a behaviour

ASSUME RecoveryAssumption ==
    /\ Old \in Passwords
    /\ None \notin Codes \cup SessionIds \cup Passwords
    /\ IsFiniteSet(Browsers)
    /\ MaximumAttempts \in Nat \ {0}
    /\ {MaxRequests, MaxStrays} \subseteq Nat

VARIABLES enabled,        \* the account's status is active
          password,       \* whose hash the account has
          challenges,     \* rows of auth_challenges, by the code they hash
          sessions,       \* rows of auth_sessions
          mailed,         \* codes the mail has brought
          requests,       \* the request of each browser
          screens,        \* what each browser shows
          sent, strays,   \* requests sent and pages strayed from so far
          written,        \* history: passwords written with each code
          contested,      \* history: codes of two resets at once, or cut short
          outcome,        \* history: how the reset to each password ended
          wrong,          \* history: wrong codes answered, by open challenge
          crowded         \* history: codes two wrong ones were compared with at once

rows == <<enabled, password, challenges, sessions, mailed>>
history == <<written, contested, outcome, wrong, crowded>>
counts == <<sent, strays>>
recoveryVars == <<rows, requests, screens, counts, history>>

Kinds == {"ask", "reset", "login"}
Stages == {"idle", "account", "issue", "mail", "find", "count", "password", "consume",
           "revoke", "create", "answered"}
Routes == {"login", "recovery", "code", "new-password", "done", "app"}
Outcomes == {"unused", "running", "accepted", "cut"}

\* `code` and `password` are what the browser sent, `challenge` the row a
\* reset found.
NoRequest == [stage |-> "idle", kind |-> "ask", code |-> None, password |-> None,
         challenge |-> None, reply |-> "failed"]

\* initialRecoveryState, on the login page: `screen`, `email` and `code` are the
\* state of the recovery, `waiting` the command under way.  The rest is history
\* since the last way to the login or out of it: `strayed`, that the browser was
\* reloaded, went back or left a page for which a command goes on, and `dropped`,
\* that the state was lost.
FirstScreen == [route |-> "login", screen |-> "login", email |-> "", code |-> None,
                waiting |-> "no", strayed |-> FALSE, dropped |-> FALSE]

RecoveryInit ==
    /\ enabled = TRUE
    /\ password = Old
    /\ challenges = [i \in {} |-> None]
    /\ sessions = [s \in {} |-> None]
    /\ mailed = {}
    /\ requests = [b \in Browsers |-> NoRequest]
    /\ screens = [b \in Browsers |-> FirstScreen]
    /\ sent = 0
    /\ strays = 0
    /\ written = [i \in Codes |-> {}]
    /\ contested = {}
    /\ outcome = [p \in Passwords |-> IF p = Old THEN "accepted" ELSE "unused"]
    /\ wrong = [i \in Codes |-> 0]
    /\ crowded = {}

-----------------------------------------------------------------------------

Stage(b) == requests[b].stage
Code(b) == requests[b].code
Password(b) == requests[b].password
Challenge(b) == requests[b].challenge
MoveOn(b, stage) == requests' = [requests EXCEPT ![b].stage = stage]
Reply(b, reply) ==
    requests' = [requests EXCEPT ![b].stage = "answered", ![b].reply = reply]

Open(i) == i \in DOMAIN challenges /\ ~challenges[i].consumed
Exhausted(i) == challenges[i].failedAttempts >= MaximumAttempts

NewCode == CHOOSE i \in Codes : i \notin DOMAIN challenges
NewSession == CHOOSE s \in SessionIds : s \notin DOMAIN sessions

-----------------------------------------------------------------------------
(* requestPasswordReset *)

\* Only an active account gets a code; any other is answered the same.
AskAccount(b) ==
    /\ Stage(b) = "account"
    /\ requests[b].kind = "ask"
    /\ IF enabled THEN MoveOn(b, "issue") ELSE Reply(b, "accepted")
    /\ UNCHANGED <<rows, screens, counts, history>>

\* The open codes are consumed and a new one is inserted.
Issued(i) == [j \in DOMAIN challenges \cup {i} |->
    IF j = i THEN [failedAttempts |-> 0, consumed |-> FALSE, expired |-> FALSE]
    ELSE [challenges[j] EXCEPT !.consumed = TRUE]]

Issue(b) ==
    /\ Stage(b) = "issue"
    /\ DOMAIN challenges # Codes
    /\ challenges' = Issued(NewCode)
    /\ requests' = [requests EXCEPT ![b].stage = "mail", ![b].challenge = NewCode]
    /\ UNCHANGED <<enabled, password, sessions, mailed, screens, counts, history>>

Mail(b) ==
    /\ Stage(b) = "mail"
    /\ mailed' = mailed \cup {Challenge(b)}
    /\ Reply(b, "accepted")
    /\ UNCHANGED <<enabled, password, challenges, sessions, screens, counts, history>>

-----------------------------------------------------------------------------
(* resetPassword *)

ResetAccount(b) ==
    /\ Stage(b) = "account"
    /\ requests[b].kind = "reset"
    /\ IF enabled THEN MoveOn(b, "find") ELSE Reply(b, "failed")
    /\ UNCHANGED <<rows, screens, counts, history>>

\* Seeded defect: the sessions are revoked first.
AfterRevokingFirst(stage) ==
    CASE stage = "code"     -> "revoke"
      [] stage = "revoke"   -> "password"
      [] stage = "password" -> "consume"
      [] stage = "consume"  -> "end"

\* The order of the three writes of a reset.
After(stage) ==
    CASE stage = "code"     -> "password"
      [] stage = "password" -> "consume"
      [] stage = "consume"  -> "revoke"
      [] stage = "revoke"   -> "end"

\* Seeded defect: a code that was used is found again.
ActiveAgain(i) == i \in DOMAIN challenges /\ ~challenges[i].expired /\ ~Exhausted(i)

\* findActive: there is one open code at most.
Active(i) == Open(i) /\ ~challenges[i].expired /\ ~Exhausted(i)

Underway(i, stages) ==
    \E b \in Browsers :
        requests[b].kind = "reset" /\ Challenge(b) = i /\ Stage(b) \in stages

\* The codes of two requests that have found the challenge meet.
Met(i, stages, codes) == IF Underway(i, stages) THEN codes \cup {i} ELSE codes

FindNothing(b) ==
    /\ Stage(b) = "find"
    /\ \A i \in Codes : ~Active(i)
    /\ Reply(b, "failed")
    /\ UNCHANGED <<rows, screens, counts, history>>

Find(b, i) ==
    /\ Stage(b) = "find"
    /\ Active(i)
    /\ requests' = [requests EXCEPT ![b].challenge = i,
                      ![b].stage = IF Code(b) = i THEN After("code") ELSE "count"]
    /\ IF Code(b) = i
       THEN contested' = Met(i, {"password", "consume"}, contested) /\ UNCHANGED crowded
       ELSE crowded' = Met(i, {"count"}, crowded) /\ UNCHANGED contested
    /\ UNCHANGED <<rows, screens, counts, written, outcome, wrong>>

\* Seeded defects: the failure is not counted, or counted without end.
FailureForgotten(i) == challenges
FailureRecordedOn(i) == [challenges EXCEPT ![i].failedAttempts = @ + 1]

\* recordFailure: least(maximum, failed + 1).
FailureRecorded(i) ==
    [challenges EXCEPT ![i].failedAttempts = IF Exhausted(i) THEN MaximumAttempts ELSE @ + 1]

RecordFailure(b) ==
    LET i == Challenge(b)
    IN  /\ Stage(b) = "count"
        /\ challenges' = FailureRecorded(i)
        /\ wrong' = [wrong EXCEPT ![i] = @ + 1]
        /\ Reply(b, "failed")
        /\ UNCHANGED <<enabled, password, sessions, mailed, screens, counts,
                       written, contested, outcome, crowded>>

\* A write of a reset is done.
Proceed(b, stage) ==
    IF After(stage) = "end"
    THEN /\ Reply(b, "accepted")
         /\ outcome' = [outcome EXCEPT ![Password(b)] = "accepted"]
    ELSE /\ MoveOn(b, After(stage))
         /\ outcome' = [outcome EXCEPT ![Password(b)] = "running"]

\* updatePasswordHash compares nothing.
UpdatePassword(b) ==
    /\ Stage(b) = "password"
    /\ password' = Password(b)
    /\ written' = [written EXCEPT ![Challenge(b)] = @ \cup {Password(b)}]
    /\ Proceed(b, "password")
    /\ UNCHANGED <<enabled, challenges, sessions, mailed, screens, counts,
                   contested, wrong, crowded>>

\* The reset ends without its last writes.
Cut(b) ==
    /\ Reply(b, "failed")
    /\ outcome' = IF Password(b) \in written[Challenge(b)]
                  THEN [outcome EXCEPT ![Password(b)] = "cut"] ELSE outcome

\* The code may have been used, revoked or exhausted since it was found.
Consume(b) ==
    LET i == Challenge(b)
    IN  /\ Stage(b) = "consume"
        /\ IF Open(i) /\ ~Exhausted(i)
           THEN /\ challenges' = [challenges EXCEPT ![i].consumed = TRUE]
                /\ Proceed(b, "consume")
           ELSE /\ Cut(b)
                /\ UNCHANGED challenges
        /\ UNCHANGED <<enabled, password, sessions, mailed, screens, counts,
                       written, contested, wrong, crowded>>

\* revokeAllForAccount
RevokeSessions(b) ==
    /\ Stage(b) = "revoke"
    /\ sessions' = [s \in DOMAIN sessions |-> [sessions[s] EXCEPT !.revoked = TRUE]]
    /\ Proceed(b, "revoke")
    /\ UNCHANGED <<enabled, password, challenges, mailed, screens, counts,
                   written, contested, wrong, crowded>>

-----------------------------------------------------------------------------
(* loginWithPassword *)

\* The account is read once, its status and its password with it.
VerifyPassword(b) ==
    /\ Stage(b) = "account"
    /\ requests[b].kind = "login"
    /\ IF enabled /\ Password(b) = password THEN MoveOn(b, "create") ELSE Reply(b, "failed")
    /\ UNCHANGED <<rows, screens, counts, history>>

\* `late`: the password has been replaced since it was verified.
CreateSession(b) ==
    /\ Stage(b) = "create"
    /\ DOMAIN sessions # SessionIds
    /\ sessions' = [s \in DOMAIN sessions \cup {NewSession} |->
          IF s = NewSession
          THEN [password |-> Password(b), revoked |-> FALSE, late |-> Password(b) # password]
          ELSE sessions[s]]
    /\ Reply(b, "accepted")
    /\ UNCHANGED <<enabled, password, challenges, mailed, screens, counts, history>>

-----------------------------------------------------------------------------
(* Failures and everything else *)

\* A statement, the mail or the whole server fails.  Asking for a code is
\* answered the same whatever happens.
RequestFails(b) ==
    /\ Stage(b) \notin {"idle", "answered"}
    /\ IF requests[b].kind = "ask"
       THEN Reply(b, "accepted") /\ UNCHANGED outcome
       ELSE IF requests[b].kind = "reset" /\ Challenge(b) # None
            THEN Cut(b)
            ELSE Reply(b, "failed") /\ UNCHANGED outcome
    /\ contested' = IF Stage(b) \in {"consume", "revoke"}
                    THEN contested \cup {Challenge(b)} ELSE contested
    /\ UNCHANGED <<rows, screens, counts, written, wrong, crowded>>

Expire(i) ==
    /\ Open(i)
    /\ ~challenges[i].expired
    /\ challenges' = [challenges EXCEPT ![i].expired = TRUE]
    /\ UNCHANGED <<enabled, password, sessions, mailed, requests, screens, counts, history>>

\* An administrator disables or enables the account.
ChangeStatus ==
    /\ sent < MaxRequests
    /\ sent' = sent + 1
    /\ enabled' = ~enabled
    /\ UNCHANGED <<password, challenges, sessions, mailed, requests, screens, strays, history>>

-----------------------------------------------------------------------------
(* The screens *)

\* The login page opens the recovery with this address.
LoginEmail == ""

\* Seeded defect: an accepted code does not lead on.
TransitionIgnoringCode(s, event, code) ==
    CASE event = "ForgotRequested" -> [s EXCEPT !.screen = "forgot", !.email = LoginEmail]
      [] event = "CodeRequested" /\ s.screen = "forgot" -> [s EXCEPT !.screen = "code"]
      [] event = "BackToLogin" -> [s EXCEPT !.screen = "login"]
      [] OTHER -> s

\* transitionRecovery
Transition(s, event, code) ==
    CASE event = "ForgotRequested" ->
            [s EXCEPT !.screen = "forgot", !.email = LoginEmail, !.code = None]
      [] event = "CodeRequested" /\ s.screen = "forgot" -> [s EXCEPT !.screen = "code"]
      [] event = "CodeAccepted" /\ s.screen = "code" ->
            [s EXCEPT !.screen = "new-password", !.code = code]
      [] event = "PasswordReset" /\ s.screen = "new-password" ->
            [s EXCEPT !.screen = "done", !.code = None]
      [] event = "BackToLogin" -> [s EXCEPT !.screen = "login", !.code = None]
      [] OTHER -> s

Show(b, s) == screens' = [screens EXCEPT ![b] = s]

\* A command of the page sends a request; its button waits for the answer.
SendRequest(b, command, kind, code, p) ==
    /\ Stage(b) = "idle"
    /\ sent < MaxRequests
    /\ sent' = sent + 1
    /\ requests' = [requests EXCEPT ![b] =
                      [NoRequest EXCEPT !.stage = "account", !.kind = kind, !.code = code,
                                   !.password = p]]
    /\ Show(b, [screens[b] EXCEPT !.waiting = command])
    /\ UNCHANGED <<rows, strays, history>>

Free(b, route) == screens[b].route = route /\ screens[b].waiting = "no"

Login(b, p) ==
    /\ Free(b, "login")
    /\ outcome[p] # "unused"
    /\ SendRequest(b, "login", "login", None, p)

SubmitEmail(b) == Free(b, "recovery") /\ SendRequest(b, "submit", "ask", None, None)

\* Sends nothing for the empty address.
Resend(b) ==
    /\ Free(b, "code")
    /\ IF screens[b].email = "" THEN UNCHANGED recoveryVars
       ELSE SendRequest(b, "resend", "ask", None, None)

\* The answer, on the page that waited for it or after it was left.
Deliver(b) ==
    LET s == [screens[b] EXCEPT !.waiting = "no"]
        ok == requests[b].reply = "accepted"
    IN  /\ Stage(b) = "answered"
        /\ requests' = [requests EXCEPT ![b] = NoRequest]
        /\ Show(b, CASE screens[b].waiting = "no" \/ ~ok -> s
                     [] screens[b].waiting = "login" -> [s EXCEPT !.route = "app"]
                     [] screens[b].waiting = "submit" ->
                           [Transition(s, "CodeRequested", None) EXCEPT !.route = "code"]
                     [] screens[b].waiting = "resend" -> s
                     [] screens[b].waiting = "reset" ->
                           [Transition(s, "PasswordReset", None) EXCEPT !.route = "done"])
        /\ UNCHANGED <<rows, counts, history>>

\* Pages that send nothing.
Local(b, s) == Show(b, s) /\ UNCHANGED <<rows, requests, counts, history>>

\* The registry gives the initial state back.
Dropped(s) == [s EXCEPT !.screen = FirstScreen.screen, !.email = FirstScreen.email,
                        !.code = FirstScreen.code, !.dropped = TRUE]

\* A state that no page uses is dropped after a moment: only the pages of the
\* address and of the code do.
Drop(b) ==
    /\ screens[b].route \notin {"recovery", "code"}
    /\ screens[b].screen # FirstScreen.screen
    /\ Local(b, Dropped(screens[b]))

\* A command goes on when its page is left, unless it is interrupted soon enough.
Leave(s, waiting) ==
    [s EXCEPT !.waiting = waiting, !.strayed = waiting # "no", !.dropped = FALSE]

\* The login page does not use the state: it may be dropped on the way.
OpenRecovery(b) ==
    /\ screens[b].route = "login"
    /\ \E waiting \in {"no", screens[b].waiting} :
          LET s == [Leave(Transition(screens[b], "ForgotRequested", None), waiting)
                       EXCEPT !.route = "recovery"]
          IN  Local(b, s) \/ Local(b, Dropped(s))

SubmitCode(b, i) ==
    /\ Free(b, "code")
    /\ i \in mailed \cup {None}
    /\ Local(b, [Transition(screens[b], "CodeAccepted", i) EXCEPT !.route = "new-password"])

SendReset(b, command, i, p) ==
    /\ outcome[p] = "unused"
    /\ \A c \in Browsers : Password(c) # p
    /\ SendRequest(b, command, "reset", i, p)

\* Without the state of a recovery, never there or dropped, the command ends at
\* once, and well; the empty address is refused before anything is sent.
SubmitPassword(b, p) ==
    /\ Free(b, "new-password")
    /\ CASE screens[b].screen # "new-password" ->
               Local(b, [screens[b] EXCEPT !.route = "done"])
         [] screens[b].screen = "new-password" /\ screens[b].email = "" -> UNCHANGED recoveryVars
         [] OTHER -> SendReset(b, "reset", screens[b].code, p)

\* Another client of the API, without screens, resets the password with any
\* code it was mailed or a wrong one.
Reset(b, i, p) ==
    /\ screens[b] = FirstScreen
    /\ i \in mailed \cup {None}
    /\ SendReset(b, "no", i, p)

BackToLogin(b) ==
    /\ screens[b].route \notin {"login", "app"}
    /\ \E waiting \in {"no", screens[b].waiting} :
          Local(b, [Leave(Transition(screens[b], "BackToLogin", None), waiting)
                       EXCEPT !.route = "login"])

\* The browser's own buttons: another page of the recovery, or this one anew.
Stray(b, s) ==
    /\ strays < MaxStrays
    /\ strays' = strays + 1
    /\ screens[b].route # "app"
    /\ Show(b, [s EXCEPT !.strayed = TRUE])
    /\ UNCHANGED <<rows, requests, sent, history>>

GoBack(b, route) ==
    /\ route \in Routes \ {"app", screens[b].route}
    /\ \E waiting \in {"no", screens[b].waiting} :
          Stray(b, [screens[b] EXCEPT !.route = route, !.waiting = waiting])

Reload(b) == Stray(b, [FirstScreen EXCEPT !.route = screens[b].route])

-----------------------------------------------------------------------------

Serve(b) ==
    \/ AskAccount(b) \/ Issue(b) \/ Mail(b)
    \/ ResetAccount(b) \/ FindNothing(b) \/ (\E i \in Codes : Find(b, i))
    \/ RecordFailure(b) \/ UpdatePassword(b) \/ Consume(b) \/ RevokeSessions(b)
    \/ VerifyPassword(b) \/ CreateSession(b) \/ RequestFails(b)

Browse(b) ==
    \/ Deliver(b) \/ Drop(b) \/ OpenRecovery(b) \/ SubmitEmail(b) \/ Resend(b)
    \/ BackToLogin(b) \/ Reload(b)
    \/ \E p \in Passwords : Login(b, p) \/ SubmitPassword(b, p)
    \/ \E i \in Codes \cup {None} :
          SubmitCode(b, i) \/ \E p \in Passwords : Reset(b, i, p)
    \/ \E route \in Routes : GoBack(b, route)

RecoveryNext ==
    \/ ChangeStatus
    \/ \E i \in Codes : Expire(i)
    \/ \E b \in Browsers : Serve(b) \/ Browse(b)

RecoverySpec == RecoveryInit /\ [][RecoveryNext]_recoveryVars

-----------------------------------------------------------------------------

\* Rows, requests and screens are well formed.
RecoveryTypeOK ==
    /\ enabled \in BOOLEAN
    /\ password \in Passwords
    /\ DOMAIN challenges \subseteq Codes
    /\ \A i \in DOMAIN challenges : challenges[i] \in
          [failedAttempts : 0..MaximumAttempts, consumed : BOOLEAN, expired : BOOLEAN]
    /\ DOMAIN sessions \subseteq SessionIds
    /\ \A s \in DOMAIN sessions : sessions[s] \in
          [password : Passwords, revoked : BOOLEAN, late : BOOLEAN]
    /\ mailed \subseteq DOMAIN challenges
    /\ requests \in [Browsers ->
          [stage : Stages, kind : Kinds, code : Codes \cup {None},
           password : Passwords \cup {None}, challenge : Codes \cup {None},
           reply : {"accepted", "failed"}]]
    /\ \A b \in Browsers : screens[b].route \in Routes
    /\ outcome \in [Passwords -> Outcomes]
    /\ contested \cup crowded \subseteq Codes

\* Once every reset has been answered well, no session opened with a password
\* that has been replaced is alive, whatever logins, resets and requests for a
\* code run beside them: except one whose login had verified the old password
\* before it was replaced and inserted its session after.
OldSessionsEnd ==
    (\A p \in Passwords : outcome[p] \notin {"running", "cut"}) =>
        \A s \in DOMAIN sessions :
            sessions[s].password = password \/ sessions[s].revoked \/ sessions[s].late

\* A code replaces the password once, unless two resets presented it at the
\* same time or one of them ended before it consumed the code.
CodeUsedOnce ==
    \A i \in Codes \ contested : Cardinality(written[i]) <= 1

\* Wrong codes are answered as often as the policy allows; only requests that
\* had found the code together can be more.
GuessesLimited ==
    \A i \in Codes : wrong[i] > MaximumAttempts => i \in crowded

\* The page of each state of the recovery.
PageOf(screen) == IF screen = "forgot" THEN "recovery" ELSE screen

\* The page a browser shows is that of the recovery's state, although the one
\* is set by a navigation and the other by a dispatch, some of them after an
\* answer: while the state is there, and unless the browser's own buttons or a
\* command that goes on for a page that was left come between.
PagesFollowState ==
    \A b \in Browsers :
        ~screens[b].strayed /\ ~screens[b].dropped =>
            screens[b].route \in {PageOf(screens[b].screen), "app"}
=============================================================================
