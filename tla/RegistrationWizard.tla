-------------------------- MODULE RegistrationWizard --------------------------
(***************************************************************************)
(* The registration wizard of the web application: the state machine of    *)
(* frontend-core/src/registration/wizard.ts, the draft it keeps in the     *)
(* browser's local storage, the address that names a step, and the         *)
(* requests of apps/web/src/modules/registration/state.ts, in tabs of one  *)
(* browser that share the storage and register one person.                 *)
(*                                                                         *)
(* A state change and what follows it in the same turn of the event loop   *)
(* (the save or removal of the draft, the page's navigation to the step)   *)
(* is one step.  A draft is what the steps tell apart: how the question    *)
(* about the problem was answered, how far the study path goes, and        *)
(* whether the profile and the acquisition source are there.               *)
(***************************************************************************)
EXTENDS Integers

CONSTANTS Tabs,
          None,
          Subject,                 \* length of a path that ends at a subject
          Addresses,               \* steps an address is set to by hand
          MaxRequests,             \* bound: requests
          MaxStrays                \* bound: reloads, expiries and addresses set by hand

VARIABLES tabs,        \* what each tab holds, see TypeOK
          stored,      \* the draft in local storage, or None
          account,     \* the person's account at the server
          signedIn,    \* whether the browser holds a session
          sent,        \* requests so far
          strays,      \* reloads, expiries and addresses set by hand so far
          loose,       \* history: a sign-in the wizard could not end with
          missed       \* history: a registration whose answer it could not use

server == <<account, signedIn>>
counts == <<sent, strays>>
vars == <<tabs, stored, server, counts, loose, missed>>

Steps == {"start", "problem", "problem-other", "study", "profile", "discovery",
          "account", "verify", "confirm-google"}
Tags == {"ChoosingMethod", "ResolvingGoogle", "CollectingOnboarding", "ConfirmingGoogle",
         "EmailVerificationPending", "Completed", "AtGoogle"}

\* "stale" is a listed problem beside the text of another one.
Drafts == [provider : {"email", "google"}, problem : {"none", "plain", "other", "stale"},
           path : 0..Subject, profile : BOOLEAN, acquisition : BOOLEAN]
NewDraft(provider) == [provider |-> provider, problem |-> "none", path |-> 0,
                       profile |-> FALSE, acquisition |-> FALSE]

ASSUME WizardAssumption ==
    /\ Subject \in Nat \ {0}
    /\ Addresses \subseteq Steps
    /\ None \notin Drafts
    /\ {MaxRequests, MaxStrays} \subseteq Nat

Operations == {"none", "start", "callback", "submit", "verify", "confirm"}
Idle == [kind |-> "none", draft |-> None, reply |-> "waiting"]

\* `google` says that the state has the pending Google registration.  The others
\* are history: `strayed`, the address was set by hand or by the browser's history,
\* or it was of a step of this tab's when another tab's draft was loaded under it;
\* `resumed`, a draft was loaded under the address of the code's page.
Fresh == [tag |-> "ChoosingMethod", draft |-> None, step |-> "start", google |-> FALSE,
          url |-> "start", op |-> Idle, strayed |-> FALSE, resumed |-> FALSE]

Init ==
    /\ tabs = [t \in Tabs |-> Fresh]
    /\ stored = None
    /\ account = "none"
    /\ signedIn = FALSE
    /\ sent = 0
    /\ strays = 0
    /\ loose = FALSE
    /\ missed = FALSE

-----------------------------------------------------------------------------
(* wizard.ts *)

ProblemComplete(d) == d.problem \in {"plain", "other"}
Last(d) == IF d.provider = "google" THEN "confirm-google" ELSE "account"

FirstIncompleteStep(d) ==
    CASE ~ProblemComplete(d) -> "problem"
      [] ProblemComplete(d) /\ d.path # Subject -> "study"
      [] ProblemComplete(d) /\ d.path = Subject /\ ~d.profile -> "profile"
      [] ProblemComplete(d) /\ d.path = Subject /\ d.profile /\ ~d.acquisition -> "discovery"
      [] OTHER -> Last(d)

Order(step) ==
    CASE step = "start" -> 0
      [] step \in {"problem", "problem-other"} -> 1
      [] step = "study" -> 2
      [] step = "profile" -> 3
      [] step = "discovery" -> 4
      [] step \in {"account", "confirm-google"} -> 5
      [] step = "verify" -> 6

Misplaced(step, d) ==
    \/ step = "verify"
    \/ step = "account" /\ d.provider # "email"
    \/ step = "confirm-google" /\ d.provider # "google"
    \/ Order(step) > Order(FirstIncompleteStep(d))

GuardRegistrationStep(step, d) ==
    IF step # "start" /\ Misplaced(step, d) THEN FirstIncompleteStep(d) ELSE step

\* Seeded defect: an answer leads to the step that follows, complete or not.
Following(step, d) ==
    CASE step = "start" -> "problem"
      [] step \in {"problem", "problem-other"} -> "study"
      [] step = "study" -> "profile"
      [] step = "profile" -> "discovery"
      [] OTHER -> Last(d)
CollectingNext(s, d) ==
    [s EXCEPT !.tag = "CollectingOnboarding", !.draft = d, !.step = Following(s.step, d)]

\* collecting and restoredRegistrationState
Collecting(s, d) ==
    [s EXCEPT !.tag = "CollectingOnboarding", !.draft = d, !.step = FirstIncompleteStep(d)]

\* Seeded defect: the last answer of a Google draft is collected like the others.
AlwaysCollecting(s, d) == Collecting(s, d)

\* What ends a Google draft leads to its confirmation, if the state still has
\* the registration to confirm.
ConfirmingOrCollecting(s, d) ==
    IF FirstIncompleteStep(d) = "confirm-google" /\ s.google
    THEN [s EXCEPT !.tag = "ConfirmingGoogle", !.draft = d, !.step = "start"]
    ELSE Collecting(s, d)

\* The answer about the problem: the text of another one stays in the draft.
WithProblem(d, kind) ==
    [d EXCEPT !.problem = IF kind = "plain" /\ d.problem \in {"other", "stale"}
                          THEN "stale" ELSE kind]

Choosing(s) ==
    [s EXCEPT !.tag = "ChoosingMethod", !.draft = None, !.step = "start", !.google = FALSE]
Completed(s) == [Fresh EXCEPT !.tag = "Completed"]

\* Seeded defect: the answer counts only while the account step is shown.
SubmittableHere(s) == s.step = "account"

\* An accepted registration counts as long as the draft is a complete one of email.
Submittable(s) == FirstIncompleteStep(s.draft) = "account"

\* The events a state reacts to; it ignores every other one.
Handles(s, e) ==
    CASE s.tag = "ChoosingMethod" -> e.type \in {"EmailStarted", "GoogleStarted"}
      [] s.tag = "ResolvingGoogle" -> e.type \in {"Cancelled", "GoogleResolved"}
      [] s.tag = "CollectingOnboarding" ->
            \/ e.type \in {"Cancelled", "ProblemSelected", "StudyNodeSelected",
                           "StudyPathChanged", "StepEdited", "ProfileCompleted",
                           "AcquisitionSelected"}
            \/ e.type = "EmailSubmitted" /\ Submittable(s)
      [] s.tag = "ConfirmingGoogle" -> e.type \in {"GoogleConfirmed", "Cancelled"}
      [] s.tag = "EmailVerificationPending" -> e.type = "CodeVerified"
      [] OTHER -> FALSE

\* transitionRegistration, for an event the state reacts to.
TransitionRegistration(s, e) ==
    CASE e.type = "EmailStarted" -> Collecting(s, NewDraft("email"))
      [] e.type = "GoogleStarted" -> [s EXCEPT !.tag = "ResolvingGoogle"]
      [] e.type = "GoogleResolved" /\ e.value = "existing" -> Completed(s)
      [] e.type = "GoogleResolved" /\ e.value = "new" ->
            Collecting([s EXCEPT !.google = TRUE], NewDraft("google"))
      [] e.type = "Cancelled" /\ s.tag = "ConfirmingGoogle" -> Collecting(s, s.draft)
      [] e.type = "Cancelled" /\ s.tag # "ConfirmingGoogle" -> Choosing(s)
      [] e.type = "ProblemSelected" -> Collecting(s, WithProblem(s.draft, e.value))
      [] e.type = "StudyNodeSelected" -> Collecting(s, [s.draft EXCEPT !.path = @ + 1])
      [] e.type = "StudyPathChanged" ->
            [s EXCEPT !.draft.path = e.value, !.step = "study"]
      [] e.type = "StepEdited" -> [s EXCEPT !.step = GuardRegistrationStep(e.value, s.draft)]
      [] e.type = "ProfileCompleted" ->
            ConfirmingOrCollecting(s, [s.draft EXCEPT !.profile = TRUE])
      [] e.type = "AcquisitionSelected" ->
            ConfirmingOrCollecting(s, [s.draft EXCEPT !.acquisition = TRUE])
      [] e.type = "EmailSubmitted" ->
            [Choosing(s) EXCEPT !.tag = "EmailVerificationPending"]
      [] e.type \in {"GoogleConfirmed", "CodeVerified"} -> Completed(s)

Event(type) == [type |-> type, value |-> None]
EventOf(type, value) == [type |-> type, value |-> value]

-----------------------------------------------------------------------------
(* The page, its address and the storage *)

\* The step the page navigates to after a change of the state.
Destination(s) ==
    CASE s.tag = "CollectingOnboarding" -> s.step
      [] s.tag = "ConfirmingGoogle" -> "confirm-google"
      [] s.tag = "EmailVerificationPending" -> "verify"
      [] s.tag = "ChoosingMethod" -> "start"
      [] OTHER -> s.url

HasDraft(s) == s.tag \in {"CollectingOnboarding", "ConfirmingGoogle"}

\* The address decides which step is shown, and the state if it names none.
Page(s) ==
    CASE s.tag = "CollectingOnboarding" -> IF s.url = "start" THEN s.step ELSE s.url
      [] s.tag = "ConfirmingGoogle" -> "confirm-google"
      [] s.tag = "EmailVerificationPending" -> "verify"
      [] s.tag = "ChoosingMethod" -> "start"
      [] OTHER -> "none"

Blank(s) == s.tag = "CollectingOnboarding" /\ Page(s) \in {"verify", "confirm-google"}

\* Seeded defect: a registration that has ended stays in the storage.
StorageAfterKeeping(s) ==
    CASE HasDraft(s) -> [draft |-> s.draft, expired |-> FALSE]
      [] s.tag = "ChoosingMethod" -> None
      [] OTHER -> stored

\* dispatchAtom saves the draft, forgets it, or leaves it while Google answers
\* and while the code is awaited.
StorageAfter(s) ==
    CASE HasDraft(s) -> [draft |-> s.draft, expired |-> FALSE]
      [] s.tag \in {"Completed", "ChoosingMethod"} -> None
      [] OTHER -> stored

\* The tab, given as s, reacts to e.
Dispatched(s, e) ==
    IF Handles(s, e)
    THEN LET n == TransitionRegistration(s, e) IN [n EXCEPT !.url = Destination(n)]
    ELSE s

Dispatch(t, e) ==
    LET s == Dispatched(tabs[t], e)
    IN  /\ tabs' = [tabs EXCEPT ![t] = s]
        /\ stored' = StorageAfter(s)
        /\ loose' = (loose \/ (signedIn /\ HasDraft(s)))
        /\ UNCHANGED <<server, counts, missed>>

-----------------------------------------------------------------------------
(* The controls of the pages *)

Free(t) == tabs[t].op.kind = "none"
OnPage(t, step) == Page(tabs[t]) = step

BeginEmail(t) == OnPage(t, "start") /\ Free(t) /\ Dispatch(t, Event("EmailStarted"))

SelectProblem(t) == OnPage(t, "problem") /\ Dispatch(t, EventOf("ProblemSelected", "plain"))
OpenOtherProblem(t) ==
    OnPage(t, "problem") /\ Dispatch(t, EventOf("StepEdited", "problem-other"))
SubmitOtherProblem(t) ==
    OnPage(t, "problem-other") /\ Dispatch(t, EventOf("ProblemSelected", "other"))

\* A subject has no children to choose from.
SelectNode(t) ==
    /\ OnPage(t, "study")
    /\ tabs[t].draft.path < Subject
    /\ Dispatch(t, Event("StudyNodeSelected"))
CutPath(t, length) ==
    /\ OnPage(t, "study")
    /\ length < tabs[t].draft.path
    /\ Dispatch(t, EventOf("StudyPathChanged", length))

CompleteProfile(t) == OnPage(t, "profile") /\ Dispatch(t, Event("ProfileCompleted"))
SelectSource(t) == OnPage(t, "discovery") /\ Dispatch(t, Event("AcquisitionSelected"))

Previous(step) ==
    CASE step = "study" -> "problem"
      [] step = "problem-other" -> "problem"
      [] step = "discovery" -> "profile"
      [] step \in {"account", "confirm-google"} -> "discovery"

\* The back button of a step.  There is none where the step is not of the
\* draft's own sequence.
Back(t) ==
    LET page == Page(tabs[t])
        d == tabs[t].draft
    IN  /\ HasDraft(tabs[t])
        /\ \/ page = "problem" /\ Dispatch(t, Event("Cancelled"))
           \/ page = "profile" /\ Dispatch(t, EventOf("StudyPathChanged",
                                     IF d.path = 0 THEN 0 ELSE d.path - 1))
           \/ page = "study" /\ d.path = 0 /\ Dispatch(t, EventOf("StepEdited", "problem"))
           \/ /\ page \in {"problem-other", "discovery", Last(d)}
              /\ Dispatch(t, EventOf("StepEdited", Previous(page)))

-----------------------------------------------------------------------------
(* Requests *)

Request(kind, d) ==
    [kind |-> kind, draft |-> IF kind = "submit" THEN d ELSE None, reply |-> "waiting"]

Sent ==
    /\ sent < MaxRequests
    /\ sent' = sent + 1

Send(t, kind) ==
    /\ Free(t)
    /\ Sent
    /\ tabs' = [tabs EXCEPT ![t].op = Request(kind, tabs[t].draft)]
    /\ UNCHANGED <<stored, server, strays, loose, missed>>

\* onboardingOf: what a draft must have to be sent.  The account step shows
\* under its address whatever the draft.
Sendable(d) == d.problem # "none" /\ d.path = Subject /\ d.profile /\ d.acquisition

Submit(t) == OnPage(t, "account") /\ Sendable(tabs[t].draft) /\ Send(t, "submit")
Verify(t) == OnPage(t, "verify") /\ ~Blank(tabs[t]) /\ Send(t, "verify")
Confirm(t) == tabs[t].tag = "ConfirmingGoogle" /\ Send(t, "confirm")

\* The state changes before the authorization address is asked for.
BeginGoogle(t) ==
    LET s == Dispatched(tabs[t], Event("GoogleStarted"))
    IN  /\ OnPage(t, "start")
        /\ Free(t)
        /\ Sent
        /\ tabs' = [tabs EXCEPT ![t] = [s EXCEPT !.op = Request("start", None)]]
        /\ stored' = StorageAfter(s)
        /\ UNCHANGED <<server, strays, loose, missed>>

\* makeProblem
AcceptsProblem(d) == d.problem # "stale"

Reply(t, reply) == tabs' = [tabs EXCEPT ![t].op.reply = reply]
UnchangedBrowser == UNCHANGED <<stored, counts, loose, missed>>

\* The server answers: registration and verification as in Registration; Google
\* resolves to an active account, to a registration to confirm, or to an error.
\* An error of any kind leaves the state as it is.
Serve(t) ==
    LET op == tabs[t].op
    IN  /\ op.reply = "waiting"
        /\ \/ /\ op.kind = "start"
              /\ Reply(t, "ok")
              /\ UNCHANGED server
           \/ /\ op.kind = "submit"
              /\ account = "none" /\ AcceptsProblem(op.draft)
              /\ account' = "pending"
              /\ Reply(t, "ok")
              /\ UNCHANGED signedIn
           \/ /\ \/ op.kind = "verify" /\ account = "pending"
                 \/ op.kind = "confirm" /\ account = "none"
                 \/ op.kind = "callback" /\ account = "active"
              /\ account' = "active"
              /\ signedIn' = TRUE
              /\ Reply(t, IF op.kind = "callback" THEN "existing" ELSE "ok")
           \/ /\ op.kind = "callback" /\ account = "none"
              /\ Reply(t, "new")
              /\ UNCHANGED server
           \/ /\ op.kind # "none"
              /\ tabs' = [tabs EXCEPT ![t].op = Idle]
              /\ UNCHANGED server
        /\ UnchangedBrowser

SignsIn(op) == op.kind \in {"verify", "confirm", "callback"} /\ op.reply \in {"ok", "existing"}
Registers(op) == op.kind = "submit" /\ op.reply = "ok"

\* A tab stops waiting: its answer is lost, or the page that waits is left.
Dropped(op) ==
    /\ loose' = (loose \/ SignsIn(op))
    /\ missed' = (missed \/ Registers(op))

Lose(t) ==
    /\ ~Free(t)
    /\ tabs' = [tabs EXCEPT ![t].op = Idle]
    /\ Dropped(tabs[t].op)
    /\ UNCHANGED <<stored, server, counts>>

-----------------------------------------------------------------------------
(* Answers *)

Done(t) == [tabs[t] EXCEPT !.op = Idle]

\* The browser goes to Google with the whole document.
DeliverStart(t) ==
    /\ tabs[t].op.kind = "start" /\ tabs[t].op.reply = "ok"
    /\ tabs' = [tabs EXCEPT ![t] = [Fresh EXCEPT !.tag = "AtGoogle"]]
    /\ UNCHANGED <<stored, server, counts, loose, missed>>

\* The event an answer becomes.
AnswerEvent(op) ==
    CASE op.kind = "submit"  -> Event("EmailSubmitted")
      [] op.kind = "verify"  -> Event("CodeVerified")
      [] op.kind = "confirm" -> Event("GoogleConfirmed")

DeliverAnswer(t) ==
    LET op == tabs[t].op
        s == Dispatched(Done(t), AnswerEvent(op))
    IN  /\ op.kind \in {"submit", "verify", "confirm"} /\ op.reply = "ok"
        /\ tabs' = [tabs EXCEPT ![t] = s]
        /\ stored' = StorageAfter(s)
        /\ missed' = (missed \/ (Registers(op) /\ (\/ op.draft # tabs[t].draft
                                                  \/ op.draft.provider = "google")))
        /\ UNCHANGED <<server, counts, loose>>

\* resolveGoogleCallbackAction: a page without a state yet goes through
\* ResolvingGoogle; one that has restored a draft ignores the resolution.
DeliverCallback(t) ==
    LET op == tabs[t].op
        started == IF tabs[t].tag = "ChoosingMethod"
                   THEN Dispatched(Done(t), Event("GoogleStarted")) ELSE Done(t)
        s == Dispatched(started, EventOf("GoogleResolved", op.reply))
    IN  /\ op.kind = "callback" /\ op.reply \in {"existing", "new"}
        /\ \E url \in {"start", s.url} : tabs' = [tabs EXCEPT ![t] =
              IF op.reply = "existing" THEN Completed(s) ELSE [s EXCEPT !.url = url]]
        /\ stored' = StorageAfter(s)
        /\ loose' = (loose \/ (signedIn /\ HasDraft(s)))
        /\ UNCHANGED <<server, counts, missed>>

-----------------------------------------------------------------------------
(* Loading the page *)

Usable == stored # None /\ ~stored.expired

\* What a document holds after its load: the draft in the storage or nothing.
\* The draft may be restored before the first rendering or after it, when the
\* page then navigates to its step.  While the code is awaited the tab has no
\* draft and its own one stays stored.
Loaded(t, url, op, show) ==
    LET old == tabs[t]
        s == [Fresh EXCEPT !.url = url, !.op = op, !.strayed = old.strayed,
                           !.resumed = old.resumed]
        d == stored.draft
        ofCode == old.tag = "EmailVerificationPending"
    IN  IF Usable
        THEN [Collecting(s, d) EXCEPT
                !.url = IF show THEN FirstIncompleteStep(d) ELSE url,
                !.resumed = (@ \/ (~show /\ ofCode)),
                !.strayed = (@ \/ (~show /\ ~ofCode /\ url # "start" /\ old.draft # d))]
        ELSE s

LoadAs(t, url, op) ==
    /\ ~signedIn
    /\ \E show \in BOOLEAN : tabs' = [tabs EXCEPT ![t] = Loaded(t, url, op, show)]
    /\ stored' = IF Usable THEN stored ELSE None
    /\ loose' = (loose \/ SignsIn(tabs[t].op))
    /\ missed' = (missed \/ Registers(tabs[t].op)
                         \/ tabs[t].tag = "EmailVerificationPending")
    /\ UNCHANGED server

\* Leaving Google without an answer shows the start again.
Stray ==
    /\ strays < MaxStrays
    /\ strays' = strays + 1

Reload(t) ==
    /\ tabs[t].tag # "Completed"
    /\ Stray
    /\ UNCHANGED sent
    /\ LoadAs(t, tabs[t].url, Idle)
ReturnFromGoogle(t) ==
    /\ tabs[t].tag = "AtGoogle"
    /\ Sent
    /\ UNCHANGED strays
    /\ LoadAs(t, "start", Request("callback", None))

\* The browser's history, or an address typed or followed within the page.
Move(t, url) ==
    /\ tabs[t].tag \notin {"AtGoogle", "Completed"}
    /\ url # tabs[t].url
    /\ Stray
    /\ tabs' = [tabs EXCEPT ![t].url = url, ![t].strayed = TRUE]
    /\ UNCHANGED <<stored, server, sent, loose, missed>>

\* registrationDraftTtlMs passes.
Expire ==
    /\ Usable
    /\ Stray
    /\ stored' = [stored EXCEPT !.expired = TRUE]
    /\ UNCHANGED <<tabs, server, sent, loose, missed>>

-----------------------------------------------------------------------------

Controls(t) ==
    \/ BeginEmail(t) \/ BeginGoogle(t) \/ SelectProblem(t) \/ OpenOtherProblem(t)
    \/ SubmitOtherProblem(t) \/ SelectNode(t) \/ CompleteProfile(t) \/ SelectSource(t)
    \/ Back(t) \/ Submit(t) \/ Verify(t) \/ Confirm(t)
    \/ \E length \in 0..Subject : CutPath(t, length)

Answers(t) ==
    \/ Serve(t) \/ Lose(t) \/ DeliverStart(t) \/ DeliverAnswer(t) \/ DeliverCallback(t)

Browser(t) ==
    \/ Reload(t) \/ ReturnFromGoogle(t)
    \/ \E url \in Addresses : Move(t, url)

Next == Expire \/ \E t \in Tabs : Controls(t) \/ Answers(t) \/ Browser(t)

Spec == Init /\ [][Next]_vars

-----------------------------------------------------------------------------

\* Tabs, storage and account are well formed.
TypeOK ==
    /\ tabs \in [Tabs -> [tag : Tags, draft : Drafts \cup {None}, step : Steps,
                          google : BOOLEAN, url : Steps, strayed : BOOLEAN,
                          resumed : BOOLEAN,
                          op : [kind : Operations, draft : Drafts \cup {None},
                                reply : {"waiting", "ok", "existing", "new"}]]]
    /\ \A t \in Tabs : HasDraft(tabs[t]) => tabs[t].draft \in Drafts
    /\ stored \in [draft : Drafts, expired : BOOLEAN] \cup {None}
    /\ account \in {"none", "pending", "active"}
    /\ {signedIn, loose, missed} \subseteq BOOLEAN

\* The page of the code was loaded again, and the stored draft is shown under its
\* address.
UnderCode(s) == s.resumed /\ s.url = "verify"

\* A step is shown only when every earlier one is answered, and the last step
\* only to drafts of its provider, except in a tab whose address was set by hand
\* or names a step of another tab's draft, and at the page of the code when it was
\* loaded again while a draft was stored.
StepsInOrder ==
    \A t \in Tabs : LET s == tabs[t] IN
        HasDraft(s) /\ ~s.strayed /\ ~UnderCode(s) => ~Misplaced(Page(s), s.draft)

\* Where the address was neither set by hand nor names a step of another tab's
\* draft, the wizard shows an empty step in two cases only: the page of the code
\* was loaded again while a draft was stored, or a load has lost the Google
\* registration that is to be confirmed.
NoEmptyStep ==
    \A t \in Tabs : LET s == tabs[t] IN
        Blank(s) /\ ~s.strayed =>
            \/ UnderCode(s)
            \/ Page(s) = "confirm-google" /\ s.draft.provider = "google" /\ ~s.google

\* A registration the server has accepted is at the code's page in some tab, or
\* its answer is on the way, unless the answer was lost, the page was loaded
\* again, the draft was changed while the answer was awaited, or it was a Google
\* draft.
RegistrationReachesCode ==
    account = "pending" /\ ~missed =>
        \E t \in Tabs : \/ tabs[t].tag = "EmailVerificationPending"
                        \/ Registers(tabs[t].op)

\* Once a session has been opened no draft stays in the storage for the next
\* visitor, unless the answer was lost, Google answered a tab that had restored
\* a draft, or a tab went on with its own.
NothingLeftBehind ==
    signedIn /\ ~loose => stored = None \/ \E t \in Tabs : SignsIn(tabs[t].op)
=============================================================================
