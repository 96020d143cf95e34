---------------------- MODULE RegistrationWizardTheorems ----------------------
(***************************************************************************)
(* Proofs about RegistrationWizard, for any number of tabs, any length of  *)
(* the study path and any addresses set by hand.                           *)
(*                                                                         *)
(* A tab shows a step that the draft allows unless its address was set by  *)
(* hand, or kept while another draft was loaded (Sound).  Only one         *)
(* registration is ever accepted, and it is either on its way to a tab or  *)
(* has arrived at the code's page (OneRegistration).                       *)
(***************************************************************************)
EXTENDS RegistrationWizard, TLAPS

TabType == [tag : Tags, draft : Drafts \cup {None}, step : Steps,
            google : BOOLEAN, url : Steps, strayed : BOOLEAN, resumed : BOOLEAN,
            op : [kind : Operations, draft : Drafts \cup {None},
                  reply : {"waiting", "ok", "existing", "new"}]]

\* What a tab holds fits together.
Held(s) ==
    /\ IF HasDraft(s) THEN s.draft \in Drafts ELSE s.draft = None
    /\ s.tag = "CollectingOnboarding" => s.step # "start"
    /\ s.google => HasDraft(s) /\ s.draft.provider = "google"
    /\ s.tag = "ConfirmingGoogle" => FirstIncompleteStep(s.draft) = "confirm-google"

\* The step shown, and the step the state names, are ones the draft allows; a
\* draft of Google is confirmed as soon as its last question is answered.
Shown(s) ==
    ~s.strayed =>
        /\ s.tag = "ConfirmingGoogle" => s.url = "confirm-google"
        /\ s.tag = "EmailVerificationPending" => s.url = "verify"
        /\ s.tag = "CollectingOnboarding" =>
              /\ ~UnderCode(s) => ~Misplaced(Page(s), s.draft)
              /\ ~Misplaced(s.step, s.draft)
              /\ s.google => ~s.draft.acquisition

\* The state in which a tab waits for an answer.
Waits(s) ==
    /\ s.op.kind = "start" => s.tag = "ResolvingGoogle"
    /\ s.op.kind = "verify" => s.tag = "EmailVerificationPending"
    /\ s.op.kind = "confirm" => s.tag = "ConfirmingGoogle"
    /\ s.op.kind = "callback" =>
          /\ s.tag \in {"ChoosingMethod", "CollectingOnboarding"}
          /\ ~s.google
    /\ s.op.kind = "submit" => s.op.draft \in Drafts /\ Sendable(s.op.draft)
    /\ Registers(s.op) => AcceptsProblem(s.op.draft)

Sound(s) == s \in TabType /\ Held(s) /\ Shown(s) /\ Waits(s)

\* One registration is accepted; while its answer is awaited nobody is at the
\* code's page, and nobody is signed in.
OneRegistration ==
    /\ signedIn => account = "active"
    /\ \A t \in Tabs :
          /\ SignsIn(tabs[t].op) => account = "active" /\ signedIn
          /\ tabs[t].tag = "EmailVerificationPending" => account # "none"
          /\ Registers(tabs[t].op) =>
                /\ account = "pending"
                /\ \A u \in Tabs : /\ tabs[u].tag # "EmailVerificationPending"
                                   /\ Registers(tabs[u].op) => u = t

IInv ==
    /\ TypeOK
    /\ \A t \in Tabs : Sound(tabs[t])
    /\ OneRegistration
    /\ RegistrationReachesCode
    /\ NothingLeftBehind

-----------------------------------------------------------------------------
(* Drafts and steps                                                        *)

\* The first incomplete step of a draft, by what the draft lacks.
LEMMA FirstStep ==
    ASSUME NEW d \in Drafts
    PROVE  /\ ~ProblemComplete(d) => FirstIncompleteStep(d) = "problem"
           /\ ProblemComplete(d) /\ d.path # Subject => FirstIncompleteStep(d) = "study"
           /\ ProblemComplete(d) /\ d.path = Subject /\ ~d.profile
                 => FirstIncompleteStep(d) = "profile"
           /\ ProblemComplete(d) /\ d.path = Subject /\ d.profile /\ ~d.acquisition
                 => FirstIncompleteStep(d) = "discovery"
           /\ ProblemComplete(d) /\ d.path = Subject /\ d.profile /\ d.acquisition
                 => FirstIncompleteStep(d) = Last(d)
BY DEF FirstIncompleteStep, Drafts

\* The place of the first incomplete step.
LEMMA FirstOrder ==
    ASSUME NEW d \in Drafts
    PROVE  /\ ~ProblemComplete(d) => Order(FirstIncompleteStep(d)) = 1
           /\ ProblemComplete(d) /\ d.path # Subject => Order(FirstIncompleteStep(d)) = 2
           /\ ProblemComplete(d) /\ d.path = Subject /\ ~d.profile
                 => Order(FirstIncompleteStep(d)) = 3
           /\ ProblemComplete(d) /\ d.path = Subject /\ d.profile /\ ~d.acquisition
                 => Order(FirstIncompleteStep(d)) = 4
           /\ ProblemComplete(d) /\ d.path = Subject /\ d.profile /\ d.acquisition
                 => Order(FirstIncompleteStep(d)) = 5
BY FirstStep DEF Order, Last

\* The first incomplete step is always one the draft allows.
LEMMA FirstFits ==
    ASSUME NEW d \in Drafts
    PROVE  /\ FirstIncompleteStep(d) \in Steps \ {"start", "verify"}
           /\ ~Misplaced(FirstIncompleteStep(d), d)
           /\ FirstIncompleteStep(d) = "confirm-google" => d.provider = "google" /\ d.acquisition
           /\ FirstIncompleteStep(d) = "account" => d.provider = "email"
<1>1. /\ FirstIncompleteStep(d) \in {"problem", "study", "profile", "discovery", Last(d)}
      /\ FirstIncompleteStep(d) = Last(d) => d.acquisition
  BY FirstStep DEF Last, Drafts
<1>2. d.provider \in {"email", "google"}
  BY DEF Drafts
<1>3. Order(FirstIncompleteStep(d)) \in 1..5
  BY FirstOrder DEF Drafts
<1> QED
  BY <1>1, <1>2, <1>3 DEF Misplaced, Last, Steps

\* What a draft has when a step is one it allows.
LEMMA Placed ==
    ASSUME NEW d \in Drafts, NEW step \in Steps, ~Misplaced(step, d)
    PROVE  /\ step = "study" => ProblemComplete(d)
           /\ step = "profile" => ProblemComplete(d) /\ d.path = Subject
           /\ step = "discovery" => ProblemComplete(d) /\ d.path = Subject /\ d.profile
           /\ step = "confirm-google" =>
                 d.provider = "google" /\ d.acquisition
                 /\ FirstIncompleteStep(d) = "confirm-google"
           /\ step # "verify"
<1>1. Order(step) <= Order(FirstIncompleteStep(d))
  <2>1. Order(step) \in 0..6
    BY DEF Order, Steps
  <2>2. Order(FirstIncompleteStep(d)) \in 1..5
    BY FirstOrder DEF Drafts
  <2> QED
    BY <2>1, <2>2 DEF Misplaced
<1>2. step = "study" => Order(step) = 2
  BY DEF Order
<1>3. step = "profile" => Order(step) = 3
  BY DEF Order
<1>4. step = "discovery" => Order(step) = 4
  BY DEF Order
<1>5. step = "confirm-google" => Order(step) = 5 /\ d.provider = "google"
  BY DEF Order, Misplaced, Drafts
<1> QED
  BY <1>1, <1>2, <1>3, <1>4, <1>5, FirstOrder, FirstStep DEF Misplaced, Last, Drafts

\* A step the draft allows, once guarded.
LEMMA Guarded ==
    ASSUME NEW d \in Drafts, NEW step \in Steps \ {"start"}
    PROVE  /\ GuardRegistrationStep(step, d) \in Steps \ {"start"}
           /\ ~Misplaced(GuardRegistrationStep(step, d), d)
BY FirstFits DEF GuardRegistrationStep

\* The study step is allowed to a draft whose problem is complete and whose
\* path is cut.
LEMMA StudyFits ==
    ASSUME NEW d \in Drafts, ProblemComplete(d), d.path # Subject
    PROVE  ~Misplaced("study", d)
<1>1. Order("study") = 2 /\ Order(FirstIncompleteStep(d)) = 2
  BY FirstOrder DEF Order
<1> QED
  BY <1>1 DEF Misplaced

-----------------------------------------------------------------------------
(* What one tab becomes                                                    *)

\* n comes after s by a control of a page: no answer arrives.
Follows(s, n) ==
    /\ Sound(n)
    /\ n.op = s.op
    /\ n.tag = "EmailVerificationPending" <=> s.tag = "EmailVerificationPending"

\* A page that shows a step of the draft.
LEMMA StepPage ==
    ASSUME NEW s, Sound(s), Page(s) \in {"problem", "problem-other", "study", "profile",
                                         "discovery", "account"}
    PROVE  /\ s.tag = "CollectingOnboarding" /\ s.draft \in Drafts
           /\ ~s.strayed => ~Misplaced(Page(s), s.draft)
           /\ s.google => s.draft.provider = "google" /\ (~s.strayed => ~s.draft.acquisition)
<1>1. s.tag = "CollectingOnboarding"
  BY DEF Sound, TabType, Tags, Page
<1>2. ~UnderCode(s)
  BY <1>1 DEF UnderCode, Page
<1> QED
  BY <1>1, <1>2 DEF Sound, Held, Shown, HasDraft

\* A draft collected at a step it allows.
LEMMA Collected ==
    ASSUME NEW s, Sound(s), s.tag \in {"ChoosingMethod", "CollectingOnboarding"},
           s.tag = "ChoosingMethod" => s.op.kind = "none",
           NEW d \in Drafts, NEW step \in Steps \ {"start"},
           ~s.strayed => ~Misplaced(step, d),
           s.google => d.provider = "google" /\ (~s.strayed => ~d.acquisition),
           NEW n, n = [s EXCEPT !.tag = "CollectingOnboarding", !.draft = d,
                                !.step = step, !.url = step]
    PROVE  Follows(s, n)
<1>1. s \in TabType
  BY DEF Sound
<1>2. /\ n \in TabType /\ n.tag = "CollectingOnboarding" /\ n.draft = d /\ n.step = step
      /\ n.url = step /\ n.op = s.op /\ n.google = s.google /\ n.strayed = s.strayed
  BY <1>1 DEF TabType, Tags
<1>3. Held(n)
  BY <1>2 DEF Held, HasDraft
<1>4. Shown(n)
  BY <1>2 DEF Shown, Page
<1>5. Waits(n)
  BY <1>2 DEF Sound, Waits
<1> QED
  BY <1>2, <1>3, <1>4, <1>5 DEF Sound, Follows

\* An event that collects a draft leads to its first incomplete step.
LEMMA CollectedFirst ==
    ASSUME NEW s, Sound(s), s.tag \in {"ChoosingMethod", "CollectingOnboarding"},
           s.tag = "ChoosingMethod" => s.op.kind = "none",
           NEW d \in Drafts,
           s.google => d.provider = "google" /\ (~s.strayed => ~d.acquisition),
           NEW e, Handles(s, e), TransitionRegistration(s, e) = Collecting(s, d),
           NEW n, n = Dispatched(s, e)
    PROVE  Follows(s, n)
<1> DEFINE step == FirstIncompleteStep(d)
           c == Collecting(s, d)
<1>1. s \in TabType
  BY DEF Sound
<1>2. step \in Steps \ {"start"} /\ ~Misplaced(step, d)
  BY FirstFits
<1>3. c = [s EXCEPT !.tag = "CollectingOnboarding", !.draft = d, !.step = step]
  BY DEF Collecting
<1> HIDE DEF step, c
<1>4. c.tag = "CollectingOnboarding" /\ c.step = step
  BY <1>1, <1>3 DEF TabType
<1>5. n = [c EXCEPT !.url = step]
  BY <1>4 DEF Dispatched, Destination, c
<1>6. n = [s EXCEPT !.tag = "CollectingOnboarding", !.draft = d, !.step = step, !.url = step]
  BY <1>1, <1>3, <1>5 DEF TabType
<1> QED
  BY <1>2, <1>6, Collected

\* What the pages' events become.
LEMMA Transitions ==
    ASSUME NEW s
    PROVE  /\ TransitionRegistration(s, Event("EmailStarted")) = Collecting(s, NewDraft("email"))
           /\ TransitionRegistration(s, Event("GoogleStarted")) = [s EXCEPT !.tag = "ResolvingGoogle"]
           /\ \A v : TransitionRegistration(s, EventOf("ProblemSelected", v))
                        = Collecting(s, WithProblem(s.draft, v))
           /\ TransitionRegistration(s, Event("StudyNodeSelected"))
                 = Collecting(s, [s.draft EXCEPT !.path = @ + 1])
           /\ \A v : TransitionRegistration(s, EventOf("StudyPathChanged", v))
                        = [s EXCEPT !.draft.path = v, !.step = "study"]
           /\ \A v : TransitionRegistration(s, EventOf("StepEdited", v))
                        = [s EXCEPT !.step = GuardRegistrationStep(v, s.draft)]
           /\ TransitionRegistration(s, Event("ProfileCompleted"))
                 = ConfirmingOrCollecting(s, [s.draft EXCEPT !.profile = TRUE])
           /\ TransitionRegistration(s, Event("AcquisitionSelected"))
                 = ConfirmingOrCollecting(s, [s.draft EXCEPT !.acquisition = TRUE])
           /\ s.tag # "ConfirmingGoogle" =>
                 TransitionRegistration(s, Event("Cancelled")) = Choosing(s)
           /\ TransitionRegistration(s, Event("EmailSubmitted"))
                 = [Choosing(s) EXCEPT !.tag = "EmailVerificationPending"]
           /\ TransitionRegistration(s, Event("CodeVerified")) = Completed(s)
           /\ TransitionRegistration(s, Event("GoogleConfirmed")) = Completed(s)
           /\ TransitionRegistration(s, EventOf("GoogleResolved", "existing")) = Completed(s)
           /\ TransitionRegistration(s, EventOf("GoogleResolved", "new"))
                 = Collecting([s EXCEPT !.google = TRUE], NewDraft("google"))
BY DEF TransitionRegistration, Event, EventOf

\* What the event of a step page does to its draft.
LEMMA DraftKept ==
    ASSUME NEW d \in Drafts
    PROVE  /\ \A v \in {"plain", "other"} :
                 /\ WithProblem(d, v) \in Drafts
                 /\ WithProblem(d, v).provider = d.provider
                 /\ WithProblem(d, v).acquisition = d.acquisition
           /\ \A v \in 0..Subject :
                 /\ [d EXCEPT !.path = v] \in Drafts
                 /\ [d EXCEPT !.path = v].path = v
                 /\ [d EXCEPT !.path = v].problem = d.problem
                 /\ [d EXCEPT !.path = v].provider = d.provider
                 /\ [d EXCEPT !.path = v].acquisition = d.acquisition
           /\ /\ [d EXCEPT !.profile = TRUE] \in Drafts
              /\ [d EXCEPT !.profile = TRUE].provider = d.provider
              /\ [d EXCEPT !.profile = TRUE].acquisition = d.acquisition
           /\ /\ [d EXCEPT !.acquisition = TRUE] \in Drafts
              /\ [d EXCEPT !.acquisition = TRUE].provider = d.provider
              /\ [d EXCEPT !.acquisition = TRUE].path = d.path
              /\ [d EXCEPT !.acquisition = TRUE].profile = d.profile
              /\ [d EXCEPT !.acquisition = TRUE].problem = d.problem
              /\ [d EXCEPT !.acquisition = TRUE].acquisition = TRUE
<1>1. ASSUME NEW v \in {"plain", "other"}
      PROVE  /\ WithProblem(d, v) \in Drafts
             /\ WithProblem(d, v).provider = d.provider
             /\ WithProblem(d, v).acquisition = d.acquisition
  <2>1. PICK p : p = IF v = "plain" /\ d.problem \in {"other", "stale"} THEN "stale" ELSE v
    OBVIOUS
  <2>2. p \in {"none", "plain", "other", "stale"}
    BY <2>1
  <2>3. WithProblem(d, v) = [d EXCEPT !.problem = p]
    BY <2>1 DEF WithProblem
  <2> QED
    BY <2>2, <2>3 DEF Drafts
<1>2. ASSUME NEW v \in 0..Subject
      PROVE  /\ [d EXCEPT !.path = v] \in Drafts
             /\ [d EXCEPT !.path = v].path = v
             /\ [d EXCEPT !.path = v].problem = d.problem
             /\ [d EXCEPT !.path = v].provider = d.provider
             /\ [d EXCEPT !.path = v].acquisition = d.acquisition
  BY DEF Drafts
<1>3. /\ [d EXCEPT !.profile = TRUE] \in Drafts
      /\ [d EXCEPT !.profile = TRUE].provider = d.provider
      /\ [d EXCEPT !.profile = TRUE].acquisition = d.acquisition
  BY DEF Drafts
<1>4. /\ [d EXCEPT !.acquisition = TRUE] \in Drafts
      /\ [d EXCEPT !.acquisition = TRUE].provider = d.provider
      /\ [d EXCEPT !.acquisition = TRUE].path = d.path
      /\ [d EXCEPT !.acquisition = TRUE].profile = d.profile
      /\ [d EXCEPT !.acquisition = TRUE].problem = d.problem
      /\ [d EXCEPT !.acquisition = TRUE].acquisition = TRUE
  BY DEF Drafts
<1> QED
  BY <1>1, <1>2, <1>3, <1>4

LEMMA EmailFollows ==
    ASSUME NEW s, Sound(s), Page(s) = "start", s.op.kind = "none",
           NEW n, n = Dispatched(s, Event("EmailStarted"))
    PROVE  Follows(s, n)
<1>1. s.tag = "ChoosingMethod"
  BY DEF Sound, Held, TabType, Tags, Page
<1>2. ~s.google
  BY <1>1 DEF Sound, Held, HasDraft
<1>3. Handles(s, Event("EmailStarted"))
  BY <1>1 DEF Handles, Event
<1>4. NewDraft("email") \in Drafts
  BY WizardAssumption DEF NewDraft, Drafts
<1> QED
  BY <1>1, <1>2, <1>3, <1>4, Transitions, CollectedFirst

LEMMA ProblemFollows ==
    ASSUME NEW s, Sound(s), Page(s) \in {"problem", "problem-other"}, NEW v \in {"plain", "other"},
           NEW n, n = Dispatched(s, EventOf("ProblemSelected", v))
    PROVE  Follows(s, n)
<1>1. Handles(s, EventOf("ProblemSelected", v))
  BY StepPage DEF Handles, EventOf
<1>2. s.draft \in Drafts
  BY StepPage
<1>3. PICK d : d = WithProblem(s.draft, v)
  OBVIOUS
<1>4. d \in Drafts /\ d.provider = s.draft.provider /\ d.acquisition = s.draft.acquisition
  BY <1>2, <1>3, DraftKept
<1>5. TransitionRegistration(s, EventOf("ProblemSelected", v)) = Collecting(s, d)
  BY <1>3 DEF TransitionRegistration, EventOf
<1> QED
  BY <1>1, <1>4, <1>5, StepPage, CollectedFirst

LEMMA NodeFollows ==
    ASSUME NEW s, Sound(s), Page(s) = "study", s.draft.path < Subject,
           NEW n, n = Dispatched(s, Event("StudyNodeSelected"))
    PROVE  Follows(s, n)
<1>1. Handles(s, Event("StudyNodeSelected"))
  BY StepPage DEF Handles, Event
<1>2. s.draft.path + 1 \in 0..Subject
  BY StepPage, WizardAssumption DEF Drafts
<1>3. PICK d : d = [s.draft EXCEPT !.path = @ + 1]
  OBVIOUS
<1>4. d \in Drafts /\ d.provider = s.draft.provider /\ d.acquisition = s.draft.acquisition
  BY <1>2, <1>3, StepPage, DraftKept
<1>5. TransitionRegistration(s, Event("StudyNodeSelected")) = Collecting(s, d)
  BY <1>3, Transitions
<1> QED
  BY <1>1, <1>4, <1>5, StepPage, CollectedFirst

\* Two updates of a collecting tab written as one.
LEMMA UpdatesJoin ==
    ASSUME NEW s \in TabType, s.tag = "CollectingOnboarding", NEW d, NEW step, NEW url
    PROVE  [[s EXCEPT !.draft = d, !.step = step] EXCEPT !.url = url]
             = [s EXCEPT !.tag = "CollectingOnboarding", !.draft = d, !.step = step, !.url = url]
<1> DEFINE moved == [s EXCEPT !.draft = d, !.step = step, !.url = url]
<1>1. s = [s EXCEPT !.tag = "CollectingOnboarding"]
  BY DEF TabType
<1>2. [[s EXCEPT !.draft = d, !.step = step] EXCEPT !.url = url] = moved
  BY ONLY s \in TabType DEF TabType
<1>3. [s EXCEPT !.tag = "CollectingOnboarding", !.draft = d, !.step = step, !.url = url]
        = [[s EXCEPT !.tag = "CollectingOnboarding"] EXCEPT !.draft = d, !.step = step, !.url = url]
  BY ONLY s \in TabType DEF TabType
<1> QED
  BY ONLY <1>1, <1>2, <1>3, Zenon

\* A path cut shorter, on the study page or by the back button of the profile's.
LEMMA PathFollows ==
    ASSUME NEW s, Sound(s), Page(s) \in {"study", "profile"}, NEW v \in 0..Subject, v # Subject,
           NEW n, n = Dispatched(s, EventOf("StudyPathChanged", v))
    PROVE  Follows(s, n)
<1> DEFINE m == [s EXCEPT !.draft.path = v, !.step = "study"]
<1>0. PICK d : d = [s.draft EXCEPT !.path = v]
  OBVIOUS
<1>1. s \in TabType /\ s.tag = "CollectingOnboarding" /\ s.draft \in Drafts
  BY StepPage DEF Sound
<1>2. Handles(s, EventOf("StudyPathChanged", v))
  BY <1>1 DEF Handles, EventOf
<1>3. m.tag = "CollectingOnboarding" /\ m.step = "study" /\ m = [s EXCEPT !.draft = d, !.step = "study"]
  BY <1>0, <1>1 DEF TabType
<1>4. n = [m EXCEPT !.url = "study"]
  BY <1>2, <1>3, Transitions DEF Dispatched, Destination
<1>5. n = [s EXCEPT !.tag = "CollectingOnboarding", !.draft = d, !.step = "study", !.url = "study"]
  <2>1. PICK k : k = m
    OBVIOUS
  <2>2. k = [s EXCEPT !.draft = d, !.step = "study"] /\ n = [k EXCEPT !.url = "study"]
    BY <1>3, <1>4, <2>1
  <2>3. n = [[s EXCEPT !.draft = d, !.step = "study"] EXCEPT !.url = "study"]
    BY ONLY <2>2
  <2> QED
    BY ONLY <1>1, <2>3, UpdatesJoin
<1>6. /\ d \in Drafts /\ d.path # Subject /\ d.problem = s.draft.problem
      /\ d.provider = s.draft.provider /\ d.acquisition = s.draft.acquisition
  BY <1>0, <1>1, DraftKept
<1>7. ~s.strayed => ~Misplaced("study", d)
  <2>1. ~s.strayed => ProblemComplete(s.draft)
    BY <1>1, StepPage, Placed DEF Steps
  <2> QED
    BY <1>6, <2>1, StudyFits DEF ProblemComplete
<1>8. s.google => d.provider = "google" /\ (~s.strayed => ~d.acquisition)
  BY <1>6, StepPage
<1>9. "study" \in Steps \ {"start"}
  BY DEF Steps
<1> QED
  BY <1>1, <1>5, <1>6, <1>7, <1>8, <1>9, Collected

\* A step asked for by a button.
LEMMA EditFollows ==
    ASSUME NEW s, Sound(s), s.tag = "CollectingOnboarding", NEW v \in Steps \ {"start"},
           s.google => s.draft.provider = "google" /\ (~s.strayed => ~s.draft.acquisition),
           NEW n, n = Dispatched(s, EventOf("StepEdited", v))
    PROVE  Follows(s, n)
<1> DEFINE step == GuardRegistrationStep(v, s.draft)
           m == [s EXCEPT !.step = step]
<1>1. s \in TabType /\ s.draft \in Drafts
  BY DEF Sound, Held, HasDraft
<1>2. step \in Steps \ {"start"} /\ ~Misplaced(step, s.draft)
  BY <1>1, Guarded
<1>3. Handles(s, EventOf("StepEdited", v))
  BY DEF Handles, EventOf
<1>4. TransitionRegistration(s, EventOf("StepEdited", v)) = m
  BY Transitions
<1> HIDE DEF step
<1>5. m.tag = "CollectingOnboarding" /\ m.step = step
  BY <1>1 DEF TabType
<1>6. n = [m EXCEPT !.url = step]
  BY <1>3, <1>4, <1>5 DEF Dispatched, Destination
<1>7. n = [s EXCEPT !.tag = "CollectingOnboarding", !.draft = s.draft, !.step = step, !.url = step]
  BY <1>1, <1>6 DEF TabType
<1> QED
  BY <1>1, <1>2, <1>7, Collected

\* The events that may end the draft of a Google registration.
LEMMA EndFollows ==
    ASSUME NEW s, Sound(s), s.tag = "CollectingOnboarding", NEW d \in Drafts,
           s.google => d.provider = "google"
                       /\ (~s.strayed /\ d.acquisition => FirstIncompleteStep(d) = "confirm-google"),
           NEW e, Handles(s, e), TransitionRegistration(s, e) = ConfirmingOrCollecting(s, d),
           NEW n, n = Dispatched(s, e)
    PROVE  Follows(s, n)
<1>1. s \in TabType
  BY DEF Sound
<1>2. CASE FirstIncompleteStep(d) = "confirm-google" /\ s.google
  <2> DEFINE m == [s EXCEPT !.tag = "ConfirmingGoogle", !.draft = d, !.step = "start"]
  <2>1. TransitionRegistration(s, e) = m
    BY <1>2 DEF ConfirmingOrCollecting
  <2>2. m.tag = "ConfirmingGoogle"
    BY <1>1 DEF TabType
  <2>3. n = [m EXCEPT !.url = "confirm-google"]
    BY <2>1, <2>2 DEF Dispatched, Destination
  <2>4. /\ n \in TabType /\ n.tag = "ConfirmingGoogle" /\ n.draft = d /\ n.url = "confirm-google"
        /\ n.google = s.google /\ n.op = s.op /\ n.strayed = s.strayed
    BY <1>1, <2>3 DEF TabType, Tags, Steps
  <2>5. Held(n) /\ Shown(n)
    BY <1>2, <2>4 DEF Held, Shown, HasDraft
  <2>6. Waits(n)
    BY <1>2, <2>4 DEF Sound, Waits
  <2> QED
    BY <2>4, <2>5, <2>6 DEF Sound, Follows
<1>3. CASE ~(FirstIncompleteStep(d) = "confirm-google" /\ s.google)
  <2>1. TransitionRegistration(s, e) = Collecting(s, d)
    BY <1>3 DEF ConfirmingOrCollecting
  <2>2. s.google => d.provider = "google" /\ (~s.strayed => ~d.acquisition)
    BY <1>3
  <2> QED
    BY <2>1, <2>2, CollectedFirst
<1> QED
  BY <1>2, <1>3

LEMMA ProfileFollows ==
    ASSUME NEW s, Sound(s), Page(s) = "profile",
           NEW n, n = Dispatched(s, Event("ProfileCompleted"))
    PROVE  Follows(s, n)
<1>1. Handles(s, Event("ProfileCompleted"))
  BY StepPage DEF Handles, Event
<1>2. PICK d : d = [s.draft EXCEPT !.profile = TRUE]
  OBVIOUS
<1>3. d \in Drafts /\ d.provider = s.draft.provider /\ d.acquisition = s.draft.acquisition
  BY <1>2, StepPage, DraftKept
<1>4. TransitionRegistration(s, Event("ProfileCompleted")) = ConfirmingOrCollecting(s, d)
  BY <1>2, Transitions
<1> QED
  BY <1>1, <1>3, <1>4, StepPage, EndFollows

LEMMA SourceFollows ==
    ASSUME NEW s, Sound(s), Page(s) = "discovery",
           NEW n, n = Dispatched(s, Event("AcquisitionSelected"))
    PROVE  Follows(s, n)
<1>0. PICK d : d = [s.draft EXCEPT !.acquisition = TRUE]
  OBVIOUS
<1>1. Handles(s, Event("AcquisitionSelected"))
  BY StepPage DEF Handles, Event
<1>2. s.draft \in Drafts
  BY StepPage
<1>3. d \in Drafts /\ d.provider = s.draft.provider
  BY <1>0, <1>2, DraftKept
<1>4. ~s.strayed /\ d.provider = "google" => FirstIncompleteStep(d) = "confirm-google"
  <2>1. ~s.strayed => ProblemComplete(s.draft) /\ s.draft.path = Subject /\ s.draft.profile
    BY <1>2, StepPage, Placed DEF Steps
  <2>2. ~s.strayed => ProblemComplete(d) /\ d.path = Subject /\ d.profile /\ d.acquisition
    BY <1>0, <1>2, <2>1, DraftKept DEF ProblemComplete
  <2> QED
    BY <1>3, <2>2, FirstStep DEF Last
<1>5. TransitionRegistration(s, Event("AcquisitionSelected")) = ConfirmingOrCollecting(s, d)
  BY <1>0, Transitions
<1> QED
  BY <1>1, <1>3, <1>4, <1>5, StepPage, EndFollows

LEMMA CancelFollows ==
    ASSUME NEW s, Sound(s), s.tag = "CollectingOnboarding",
           NEW n, n = Dispatched(s, Event("Cancelled"))
    PROVE  Follows(s, n)
<1>1. s \in TabType
  BY DEF Sound
<1>2. Handles(s, Event("Cancelled"))
  BY DEF Handles, Event
<1>3. TransitionRegistration(s, Event("Cancelled")) = Choosing(s)
  BY Transitions
<1>4. Choosing(s).tag = "ChoosingMethod"
  BY <1>1 DEF Choosing, TabType
<1>5. n = [Choosing(s) EXCEPT !.url = "start"]
  BY <1>2, <1>3, <1>4 DEF Dispatched, Destination
<1>6. /\ n \in TabType /\ n.tag = "ChoosingMethod" /\ n.draft = None /\ ~n.google
      /\ n.op = s.op /\ n.strayed = s.strayed
  BY <1>1, <1>5 DEF Choosing, TabType, Tags, Steps
<1> QED
  BY <1>6 DEF Sound, Held, Shown, Waits, HasDraft, Follows

\* The back button.
LEMMA BackFollows ==
    ASSUME IInv, NEW t \in Tabs, Back(t)
    PROVE  \E e : Dispatch(t, e) /\ Follows(tabs[t], Dispatched(tabs[t], e))
<1> DEFINE s == tabs[t]
           d == s.draft
<1>1. Sound(s) /\ HasDraft(s) /\ d \in Drafts
  BY DEF IInv, Back, Sound, Held
<1>2. CASE Page(s) = "problem" /\ Dispatch(t, Event("Cancelled"))
  BY <1>1, <1>2, StepPage, CancelFollows
<1>3. CASE Page(s) = "profile" /\ Dispatch(t, EventOf("StudyPathChanged",
                                     IF d.path = 0 THEN 0 ELSE d.path - 1))
  <2>1. d.path \in 0..Subject /\ Subject \in Nat \ {0}
    BY <1>1, WizardAssumption DEF Drafts
  <2>2. PICK v : v = IF d.path = 0 THEN 0 ELSE d.path - 1
    OBVIOUS
  <2>3. v \in 0..Subject /\ v # Subject
    BY <2>1, <2>2
  <2> QED
    BY <1>1, <1>3, <2>2, <2>3, PathFollows
<1>4. CASE Page(s) = "study" /\ Dispatch(t, EventOf("StepEdited", "problem"))
  <2>1. "problem" \in Steps \ {"start"}
    BY DEF Steps
  <2> QED
    BY <1>1, <1>4, <2>1, StepPage, EditFollows
<1>5. CASE Page(s) \in {"problem-other", "discovery", Last(d)}
           /\ Dispatch(t, EventOf("StepEdited", Previous(Page(s))))
  <2>1. Page(s) \in {"problem-other", "discovery", "account", "confirm-google"}
    BY <1>5 DEF Last
  <2>2. PICK v : v = Previous(Page(s))
    OBVIOUS
  <2>3. v \in {"problem", "profile", "discovery"}
    BY <2>1, <2>2 DEF Previous
  <2>4. v \in Steps \ {"start"}
    BY <2>3 DEF Steps
  <2>5. CASE s.tag = "CollectingOnboarding" /\ Page(s) # "confirm-google"
    BY <1>1, <1>5, <2>1, <2>2, <2>4, <2>5, StepPage, EditFollows
  <2>6. CASE s.tag = "CollectingOnboarding" /\ Page(s) = "confirm-google"
    <3>1. s.google => s.draft.provider = "google" /\ (~s.strayed => ~s.draft.acquisition)
      BY <1>1, <2>6 DEF Sound, Held, Shown
    <3> QED
      BY <1>1, <1>5, <2>2, <2>4, <2>6, <3>1, EditFollows
  <2>7. CASE s.tag = "ConfirmingGoogle"
    <3>1. ~Handles(s, EventOf("StepEdited", v))
      BY <2>7 DEF Handles, EventOf
    <3>2. Dispatched(s, EventOf("StepEdited", v)) = s
      BY <3>1 DEF Dispatched
    <3> QED
      BY <1>1, <1>5, <2>2, <3>2 DEF Follows
  <2> QED
    BY <1>1, <2>5, <2>6, <2>7 DEF HasDraft
<1> QED
  BY <1>2, <1>3, <1>4, <1>5 DEF Back

-----------------------------------------------------------------------------
(* What the tabs become                                                    *)

Stored == [draft : Drafts, expired : BOOLEAN] \cup {None}

\* A tab is replaced by a sound one.
LEMMA TabStep ==
    ASSUME IInv, NEW t \in Tabs, NEW n, Sound(n), tabs' = [tabs EXCEPT ![t] = n],
           stored' \in Stored, account' \in {"none", "pending", "active"},
           {signedIn, loose, missed}' \subseteq BOOLEAN
    PROVE  /\ TypeOK'
           /\ \A u \in Tabs : Sound(tabs[u])'
           /\ tabs'[t] = n
           /\ \A u \in Tabs \ {t} : tabs'[u] = tabs[u]
<1>1. tabs \in [Tabs -> TabType]
  BY DEF IInv, TypeOK, TabType
<1>2. n \in TabType
  BY DEF Sound
<1>3. /\ tabs' \in [Tabs -> TabType] /\ tabs'[t] = n
      /\ \A u \in Tabs \ {t} : tabs'[u] = tabs[u]
  BY <1>1, <1>2
<1>4. \A u \in Tabs : Sound(tabs'[u])
  BY <1>3 DEF IInv
<1>5. \A u \in Tabs : HasDraft(tabs'[u]) => tabs'[u].draft \in Drafts
  BY <1>4 DEF Sound, Held
<1>6. TypeOK'
  BY <1>3, <1>5 DEF TypeOK, TabType, Stored, HasDraft
<1>7. \A u \in Tabs : Sound(tabs[u])'
  BY <1>4 DEF Sound, Held, Shown, Waits, HasDraft, Page, UnderCode, Misplaced, Order, Registers,
     AcceptsProblem, Sendable, FirstIncompleteStep, ProblemComplete, Last
<1> QED
  BY <1>3, <1>6, <1>7

\* What the storage holds after a change of a tab.
LEMMA StorageTypes ==
    ASSUME IInv, NEW n, Sound(n)
    PROVE  /\ StorageAfter(n) \in Stored
           /\ ~HasDraft(n) => StorageAfter(n) \in {stored, None}
           /\ stored \in Stored
           /\ account \in {"none", "pending", "active"}
           /\ {signedIn, loose, missed} \subseteq BOOLEAN
<1>1. stored \in Stored
  BY DEF IInv, TypeOK, Stored
<1>2. HasDraft(n) => n.draft \in Drafts
  BY DEF Sound, Held
<1> QED
  BY <1>1, <1>2 DEF StorageAfter, Stored, IInv, TypeOK

\* A control of a page.
LEMMA DispatchStep ==
    ASSUME IInv, NEW t \in Tabs, NEW e, Dispatch(t, e),
           Follows(tabs[t], Dispatched(tabs[t], e))
    PROVE  IInv'
<1>1. PICK n : n = Dispatched(tabs[t], e)
  OBVIOUS
<1>2. /\ Sound(n) /\ n.op = tabs[t].op
      /\ n.tag = "EmailVerificationPending" <=> tabs[t].tag = "EmailVerificationPending"
      /\ tabs' = [tabs EXCEPT ![t] = n] /\ stored' = StorageAfter(n)
      /\ loose' = (loose \/ (signedIn /\ HasDraft(n)))
      /\ UNCHANGED <<account, signedIn, missed>>
  BY <1>1 DEF Dispatch, Follows, server
<1>3. /\ stored' \in Stored /\ account' \in {"none", "pending", "active"}
      /\ {signedIn, loose, missed}' \subseteq BOOLEAN
  BY <1>2, StorageTypes
<1>4. /\ TypeOK' /\ \A u \in Tabs : Sound(tabs[u])'
      /\ tabs'[t] = n /\ \A u \in Tabs \ {t} : tabs'[u] = tabs[u]
  BY <1>2, <1>3, TabStep
<1>5. \A u \in Tabs : /\ tabs'[u].op = tabs[u].op
                      /\ tabs'[u].tag = "EmailVerificationPending"
                            <=> tabs[u].tag = "EmailVerificationPending"
  BY <1>2, <1>4
<1>6. OneRegistration'
  BY <1>2, <1>5 DEF IInv, OneRegistration, SignsIn, Registers
<1>7. RegistrationReachesCode'
  BY <1>2, <1>5 DEF IInv, RegistrationReachesCode, Registers
<1>8. NothingLeftBehind'
  <2>1. signedIn' /\ ~loose' => signedIn /\ ~loose /\ ~HasDraft(n)
    BY <1>2, StorageTypes
  <2>2. signedIn' /\ ~loose' => stored' \in {stored, None}
    BY <1>2, <2>1, StorageTypes
  <2> QED
    BY <1>2, <1>5, <2>1, <2>2 DEF IInv, NothingLeftBehind, SignsIn
<1> QED
  BY <1>4, <1>6, <1>7, <1>8 DEF IInv

LEMMA ControlStep ==
    ASSUME IInv, NEW t \in Tabs,
           \/ BeginEmail(t) \/ SelectProblem(t) \/ OpenOtherProblem(t)
           \/ SubmitOtherProblem(t) \/ SelectNode(t) \/ CompleteProfile(t) \/ SelectSource(t)
           \/ Back(t) \/ \E length \in 0..Subject : CutPath(t, length)
    PROVE  IInv'
<1>1. Sound(tabs[t])
  BY DEF IInv
<1>2. CASE BeginEmail(t)
  BY <1>1, <1>2, EmailFollows, DispatchStep DEF BeginEmail, OnPage, Free
<1>3. CASE SelectProblem(t) \/ SubmitOtherProblem(t)
  BY <1>1, <1>3, ProblemFollows, DispatchStep DEF SelectProblem, SubmitOtherProblem, OnPage
<1>4. CASE OpenOtherProblem(t)
  <2>1. "problem-other" \in Steps \ {"start"}
    BY DEF Steps
  <2> QED
    BY <1>1, <1>4, <2>1, StepPage, EditFollows, DispatchStep DEF OpenOtherProblem, OnPage
<1>5. CASE SelectNode(t)
  BY <1>1, <1>5, NodeFollows, DispatchStep DEF SelectNode, OnPage
<1>6. CASE CompleteProfile(t)
  BY <1>1, <1>6, ProfileFollows, DispatchStep DEF CompleteProfile, OnPage
<1>7. CASE SelectSource(t)
  BY <1>1, <1>7, SourceFollows, DispatchStep DEF SelectSource, OnPage
<1>8. CASE Back(t)
  BY <1>8, BackFollows, DispatchStep
<1>9. ASSUME NEW length \in 0..Subject, CutPath(t, length) PROVE IInv'
  <2>1. length # Subject
    <3>1. tabs[t].draft.path \in 0..Subject
      BY <1>1, <1>9, StepPage DEF CutPath, OnPage, Drafts
    <3>2. length < tabs[t].draft.path
      BY <1>9 DEF CutPath
    <3> QED
      BY <3>1, <3>2, WizardAssumption
  <2> QED
    BY <1>1, <1>9, <2>1, PathFollows, DispatchStep DEF CutPath, OnPage
<1> QED
  BY <1>2, <1>3, <1>4, <1>5, <1>6, <1>7, <1>8, <1>9

-----------------------------------------------------------------------------
(* Requests and answers                                                    *)

\* A step of one tab that no account and no session comes from; what the tab
\* gives up is noted or over.
LEMMA OpStep ==
    ASSUME IInv, NEW t \in Tabs, NEW n, Sound(n), tabs' = [tabs EXCEPT ![t] = n],
           UNCHANGED server, stored' \in Stored, {loose, missed}' \subseteq BOOLEAN,
           loose => loose', missed => missed',
           ~Registers(n.op) \/ n.op = tabs[t].op,
           ~SignsIn(n.op) \/ n.op = tabs[t].op,
           Registers(tabs[t].op) => n.op = tabs[t].op \/ missed',
           SignsIn(tabs[t].op) => n.op = tabs[t].op \/ loose' \/ stored' = None,
           n.tag = "EmailVerificationPending" => tabs[t].tag = "EmailVerificationPending",
           tabs[t].tag = "EmailVerificationPending"
              => n.tag = "EmailVerificationPending" \/ missed' \/ account = "active",
           signedIn /\ ~loose' /\ stored = None => stored' = None
    PROVE  IInv'
<1>1. /\ account' = account /\ signedIn' = signedIn
      /\ account' \in {"none", "pending", "active"} /\ signedIn' \in BOOLEAN
  BY DEF server, IInv, TypeOK
<1>2. /\ TypeOK' /\ \A u \in Tabs : Sound(tabs[u])'
      /\ tabs'[t] = n /\ \A u \in Tabs \ {t} : tabs'[u] = tabs[u]
  BY <1>1, TabStep
<1>3. OneRegistration'
  BY <1>1, <1>2 DEF IInv, OneRegistration
<1>4. RegistrationReachesCode'
  BY <1>1, <1>2 DEF IInv, RegistrationReachesCode
<1>5. NothingLeftBehind'
  BY <1>1, <1>2 DEF IInv, NothingLeftBehind
<1> QED
  BY <1>2, <1>3, <1>4, <1>5 DEF IInv

\* A tab that stops waiting, or begins to wait.
LEMMA SoundWaiting ==
    ASSUME NEW s, Sound(s), NEW op, NEW n, n = [s EXCEPT !.op = op],
           op \in [kind : Operations, draft : Drafts \cup {None},
                   reply : {"waiting", "ok", "existing", "new"}],
           \/ op.kind = "none"
           \/ op.kind = "submit" /\ op.draft \in Drafts /\ Sendable(op.draft)
              /\ (Registers(op) => AcceptsProblem(op.draft))
           \/ op.kind = "verify" /\ s.tag = "EmailVerificationPending"
           \/ op.kind = "confirm" /\ s.tag = "ConfirmingGoogle"
           \/ op.kind = "start" /\ s.tag = "ResolvingGoogle"
           \/ op.kind = "callback" /\ s.op.kind = "callback"
    PROVE  Sound(n) /\ n.op = op /\ n.tag = s.tag /\ n.draft = s.draft
<1>1. s \in TabType
  BY DEF Sound
<1>2. /\ n \in TabType /\ n.op = op /\ n.tag = s.tag /\ n.draft = s.draft /\ n.step = s.step
      /\ n.google = s.google /\ n.url = s.url /\ n.strayed = s.strayed
      /\ n.resumed = s.resumed
  BY <1>1 DEF TabType
<1>3. Held(n) /\ Shown(n)
  BY <1>2 DEF Sound, Held, Shown, HasDraft, Page, UnderCode
<1>4. Waits(n)
  BY <1>2 DEF Sound, Waits, Registers
<1> QED
  BY <1>2, <1>3, <1>4 DEF Sound

\* A request, of a tab that waits for none.
LEMMA Requested ==
    ASSUME NEW kind \in Operations, NEW d \in Drafts \cup {None}
    PROVE  /\ Request(kind, d) \in [kind : Operations, draft : Drafts \cup {None},
                                    reply : {"waiting", "ok", "existing", "new"}]
           /\ Request(kind, d).kind = kind
           /\ kind = "submit" => Request(kind, d).draft = d
           /\ ~Registers(Request(kind, d)) /\ ~SignsIn(Request(kind, d))
           /\ Idle \in [kind : Operations, draft : Drafts \cup {None},
                        reply : {"waiting", "ok", "existing", "new"}]
           /\ Idle.kind = "none" /\ ~Registers(Idle) /\ ~SignsIn(Idle)
BY DEF Request, Registers, SignsIn, Idle, Operations

LEMMA SendStep ==
    ASSUME IInv, NEW t \in Tabs, Submit(t) \/ Verify(t) \/ Confirm(t)
    PROVE  IInv'
<1>1. Sound(tabs[t])
  BY DEF IInv
<1>2. PICK kind : /\ Send(t, kind)
                  /\ \/ kind = "submit" /\ OnPage(t, "account") /\ Sendable(tabs[t].draft)
                     \/ kind = "verify" /\ OnPage(t, "verify") /\ ~Blank(tabs[t])
                     \/ kind = "confirm" /\ tabs[t].tag = "ConfirmingGoogle"
  BY DEF Submit, Verify, Confirm
<1>3. PICK op : op = Request(kind, tabs[t].draft)
  OBVIOUS
<1>4. PICK n : n = [tabs[t] EXCEPT !.op = op]
  OBVIOUS
<1>5. kind \in Operations
  BY <1>2 DEF Operations
<1>6. tabs[t].draft \in Drafts \cup {None} /\ tabs \in [Tabs -> TabType]
  BY <1>1 DEF Sound, TabType, IInv, TypeOK
<1>7. /\ op \in [kind : Operations, draft : Drafts \cup {None},
                 reply : {"waiting", "ok", "existing", "new"}]
      /\ op.kind = kind /\ ~Registers(op) /\ ~SignsIn(op)
      /\ kind = "submit" => op.draft = tabs[t].draft
  BY <1>3, <1>5, <1>6, Requested
<1>8. kind = "submit" => tabs[t].draft \in Drafts
  BY <1>1, <1>2, StepPage DEF OnPage
<1>9. kind = "verify" => tabs[t].tag = "EmailVerificationPending"
  BY <1>1, <1>2 DEF OnPage, Blank, Page, Sound, TabType, Tags
<1>10. Sound(n) /\ n.op = op /\ n.tag = tabs[t].tag
  BY <1>1, <1>2, <1>4, <1>7, <1>8, <1>9, SoundWaiting
<1>11. /\ tabs[t].op.kind = "none" /\ UNCHANGED <<stored, server, loose, missed>>
       /\ tabs' = [tabs EXCEPT ![t].op = op]
  BY <1>2, <1>3 DEF Send, Free
<1>12. tabs' = [tabs EXCEPT ![t] = n]
  BY <1>4, <1>6, <1>11
<1>13. ~Registers(tabs[t].op) /\ ~SignsIn(tabs[t].op)
  BY <1>11 DEF Registers, SignsIn
<1>14. stored' \in Stored /\ {loose, missed}' \subseteq BOOLEAN
  BY <1>1, <1>11, StorageTypes
<1> QED
  BY <1>7, <1>10, <1>11, <1>12, <1>13, <1>14, OpStep

LEMMA BeginGoogleStep ==
    ASSUME IInv, NEW t \in Tabs, BeginGoogle(t) PROVE IInv'
<1>1. Sound(tabs[t]) /\ tabs[t] \in TabType /\ tabs \in [Tabs -> TabType]
  BY DEF IInv, Sound, TypeOK, TabType
<1>2. PICK s : s = Dispatched(tabs[t], Event("GoogleStarted"))
  OBVIOUS
<1>3. PICK op : op = Request("start", None)
  OBVIOUS
<1>4. PICK n : n = [s EXCEPT !.op = op]
  OBVIOUS
<1>5. /\ Page(tabs[t]) = "start" /\ tabs[t].op.kind = "none"
      /\ tabs' = [tabs EXCEPT ![t] = n] /\ stored' = StorageAfter(s)
      /\ UNCHANGED <<server, loose, missed>>
  BY <1>2, <1>3, <1>4 DEF BeginGoogle, OnPage, Free
<1>6. tabs[t].tag = "ChoosingMethod" /\ tabs[t].draft = None /\ ~tabs[t].google
  <2>1. tabs[t].tag = "ChoosingMethod"
    BY <1>1, <1>5 DEF Sound, Held, TabType, Tags, Page
  <2> QED
    BY <1>1, <2>1 DEF Sound, Held, HasDraft
<1>7. Handles(tabs[t], Event("GoogleStarted"))
  BY <1>6 DEF Handles, Event
<1>8. s = [[tabs[t] EXCEPT !.tag = "ResolvingGoogle"] EXCEPT !.url = tabs[t].url]
  <2>1. [tabs[t] EXCEPT !.tag = "ResolvingGoogle"].tag = "ResolvingGoogle"
        /\ [tabs[t] EXCEPT !.tag = "ResolvingGoogle"].url = tabs[t].url
    BY <1>1 DEF TabType
  <2> QED
    BY <1>2, <1>7, <2>1, Transitions DEF Dispatched, Destination
<1>9. /\ s \in TabType /\ s.tag = "ResolvingGoogle" /\ s.draft = None /\ ~s.google
      /\ s.op = tabs[t].op
  BY <1>1, <1>6, <1>8 DEF TabType, Tags
<1>10. Sound(s)
  BY <1>5, <1>9 DEF Sound, Held, Shown, Waits, HasDraft, Registers
<1>11. /\ op \in [kind : Operations, draft : Drafts \cup {None},
                  reply : {"waiting", "ok", "existing", "new"}]
       /\ op.kind = "start" /\ ~Registers(op) /\ ~SignsIn(op)
  BY <1>3, Requested DEF Operations
<1>12. Sound(n) /\ n.op = op /\ n.tag = "ResolvingGoogle"
  BY <1>4, <1>9, <1>10, <1>11, SoundWaiting
<1>13. stored' = stored /\ stored \in Stored /\ {loose, missed}' \subseteq BOOLEAN
  BY <1>5, <1>9, <1>10, StorageTypes DEF StorageAfter, HasDraft
<1>14. ~Registers(tabs[t].op) /\ ~SignsIn(tabs[t].op)
  BY <1>5 DEF Registers, SignsIn
<1> QED
  BY <1>5, <1>6, <1>11, <1>12, <1>13, <1>14, OpStep

LEMMA LoseStep ==
    ASSUME IInv, NEW t \in Tabs, Lose(t) PROVE IInv'
<1>1. Sound(tabs[t]) /\ tabs \in [Tabs -> TabType]
  BY DEF IInv, TypeOK, TabType
<1>2. PICK n : n = [tabs[t] EXCEPT !.op = Idle]
  OBVIOUS
<1>3. Sound(n) /\ n.op = Idle /\ n.tag = tabs[t].tag
  BY <1>1, <1>2, SoundWaiting, Requested DEF Operations
<1>4. ~Registers(n.op) /\ ~SignsIn(n.op)
  BY <1>3, Requested DEF Operations
<1>5. /\ tabs' = [tabs EXCEPT ![t] = n] /\ UNCHANGED <<stored, server>>
      /\ loose' = (loose \/ SignsIn(tabs[t].op)) /\ missed' = (missed \/ Registers(tabs[t].op))
  BY <1>1, <1>2 DEF Lose, Dropped
<1>6. stored' \in Stored /\ {loose, missed}' \subseteq BOOLEAN
  BY <1>1, <1>5, StorageTypes DEF SignsIn, Registers
<1> QED
  BY <1>3, <1>4, <1>5, <1>6, OpStep

OpType == [kind : Operations, draft : Drafts \cup {None},
           reply : {"waiting", "ok", "existing", "new"}]

\* A request that is answered.
LEMMA SoundReply ==
    ASSUME NEW s, Sound(s), NEW op \in OpType, op.kind = s.op.kind, op.draft = s.op.draft,
           s.op.kind = "submit" => AcceptsProblem(op.draft),
           NEW n, n = [s EXCEPT !.op = op]
    PROVE  Sound(n) /\ n.op = op /\ n.tag = s.tag
<1>1. s \in TabType
  BY DEF Sound
<1>2. /\ n \in TabType /\ n.op = op /\ n.tag = s.tag /\ n.draft = s.draft /\ n.step = s.step
      /\ n.google = s.google /\ n.url = s.url /\ n.strayed = s.strayed
      /\ n.resumed = s.resumed
  BY <1>1 DEF TabType, OpType
<1>3. Held(n) /\ Shown(n)
  BY <1>2 DEF Sound, Held, Shown, HasDraft, Page, UnderCode
<1>4. Waits(n)
  BY <1>2 DEF Sound, Waits, Registers
<1> QED
  BY <1>2, <1>3, <1>4 DEF Sound

\* An answer at the tab, of a request that waited.
LEMMA Replied ==
    ASSUME IInv, NEW t \in Tabs, tabs[t].op.reply = "waiting",
           NEW reply \in {"ok", "existing", "new"}, Reply(t, reply),
           tabs[t].op.kind \in {"start", "submit", "verify", "confirm", "callback"},
           tabs[t].op.kind = "submit" => AcceptsProblem(tabs[t].op.draft)
    PROVE  \E n : /\ Sound(n) /\ n.tag = tabs[t].tag /\ tabs' = [tabs EXCEPT ![t] = n]
                  /\ n.op.kind = tabs[t].op.kind /\ n.op.reply = reply
                  /\ ~Registers(tabs[t].op) /\ ~SignsIn(tabs[t].op)
<1>1. Sound(tabs[t]) /\ tabs \in [Tabs -> TabType] /\ tabs[t] \in TabType
  BY DEF IInv, TypeOK, TabType
<1>2. PICK op : op = [tabs[t].op EXCEPT !.reply = reply]
  OBVIOUS
<1>3. op \in OpType /\ op.kind = tabs[t].op.kind /\ op.draft = tabs[t].op.draft /\ op.reply = reply
  BY <1>1, <1>2 DEF TabType, OpType
<1>4. PICK n : n = [tabs[t] EXCEPT !.op = op]
  OBVIOUS
<1>5. Sound(n) /\ n.op = op /\ n.tag = tabs[t].tag
  BY <1>1, <1>3, <1>4, SoundReply
<1>6. tabs' = [tabs EXCEPT ![t] = n]
  BY <1>1, <1>2, <1>4 DEF Reply
<1>7. ~Registers(tabs[t].op) /\ ~SignsIn(tabs[t].op)
  BY DEF Registers, SignsIn
<1> QED
  BY <1>3, <1>5, <1>6, <1>7

LEMMA ServeStep ==
    ASSUME IInv, NEW t \in Tabs, Serve(t) PROVE IInv'
<1> DEFINE op == tabs[t].op
<1>1. /\ op.reply = "waiting" /\ UNCHANGED <<stored, loose, missed>>
      /\ Sound(tabs[t]) /\ tabs \in [Tabs -> TabType]
  BY DEF Serve, UnchangedBrowser, IInv, TypeOK, TabType
<1>2. /\ stored' \in Stored /\ {loose, missed}' \subseteq BOOLEAN
      /\ account \in {"none", "pending", "active"} /\ {signedIn} \subseteq BOOLEAN
  BY <1>1, StorageTypes
<1>3. CASE op.kind = "start" /\ Reply(t, "ok") /\ UNCHANGED server
  <2>2. PICK n :
        /\ Sound(n) /\ n.tag = tabs[t].tag /\ tabs' = [tabs EXCEPT ![t] = n]
        /\ n.op.kind = "start" /\ ~Registers(op) /\ ~SignsIn(op)
    BY <1>1, <1>3, Replied
  <2>3. ~Registers(n.op) /\ ~SignsIn(n.op)
    BY <2>2 DEF Registers, SignsIn
  <2> QED
    BY <1>1, <1>2, <1>3, <2>2, <2>3, OpStep
<1>4. CASE op.kind = "callback" /\ Reply(t, "new") /\ UNCHANGED server
  <2>2. PICK n :
        /\ Sound(n) /\ n.tag = tabs[t].tag /\ tabs' = [tabs EXCEPT ![t] = n]
        /\ n.op.reply = "new" /\ ~Registers(op) /\ ~SignsIn(op)
    BY <1>1, <1>4, Replied
  <2>3. ~Registers(n.op) /\ ~SignsIn(n.op)
    BY <2>2 DEF Registers, SignsIn
  <2> QED
    BY <1>1, <1>2, <1>4, <2>2, <2>3, OpStep
<1>5. CASE op.kind # "none" /\ tabs' = [tabs EXCEPT ![t].op = Idle] /\ UNCHANGED server
  <2>1. PICK n : n = [tabs[t] EXCEPT !.op = Idle]
    OBVIOUS
  <2>2. Sound(n) /\ n.op = Idle /\ n.tag = tabs[t].tag
    BY <1>1, <2>1, SoundWaiting, Requested DEF Operations
  <2>3. ~Registers(n.op) /\ ~SignsIn(n.op) /\ ~Registers(op) /\ ~SignsIn(op)
    BY <1>1, <2>2, Requested DEF Operations, Registers, SignsIn
  <2>4. tabs' = [tabs EXCEPT ![t] = n]
    BY <1>1, <1>5, <2>1
  <2> QED
    BY <1>1, <1>2, <1>5, <2>2, <2>3, <2>4, OpStep
<1>6. CASE /\ op.kind = "submit" /\ account = "none" /\ AcceptsProblem(op.draft)
           /\ account' = "pending" /\ Reply(t, "ok") /\ UNCHANGED signedIn
  <2>2. PICK n :
        /\ Sound(n) /\ n.tag = tabs[t].tag /\ tabs' = [tabs EXCEPT ![t] = n]
        /\ n.op.kind = "submit" /\ n.op.reply = "ok"
    BY <1>1, <1>6, Replied
  <2>3. /\ TypeOK' /\ \A u \in Tabs : Sound(tabs[u])'
        /\ tabs'[t] = n /\ \A u \in Tabs \ {t} : tabs'[u] = tabs[u]
    BY <1>2, <1>6, <2>2, TabStep
  <2>4. /\ signedIn' = FALSE
        /\ \A u \in Tabs : /\ ~SignsIn(tabs[u].op) /\ ~Registers(tabs[u].op)
                           /\ tabs[u].tag # "EmailVerificationPending"
    BY <1>2, <1>6 DEF IInv, OneRegistration
  <2>5. Registers(n.op) /\ ~SignsIn(n.op)
    BY <2>2 DEF Registers, SignsIn
  <2>6. OneRegistration'
    BY <1>6, <2>2, <2>3, <2>4, <2>5 DEF OneRegistration
  <2>7. RegistrationReachesCode' /\ NothingLeftBehind'
    BY <2>3, <2>4, <2>5 DEF RegistrationReachesCode, NothingLeftBehind
  <2> QED
    BY <2>3, <2>6, <2>7 DEF IInv
<1>7. CASE /\ \/ op.kind = "verify" /\ account = "pending"
              \/ op.kind = "confirm" /\ account = "none"
              \/ op.kind = "callback" /\ account = "active"
           /\ account' = "active" /\ signedIn' = TRUE
           /\ Reply(t, IF op.kind = "callback" THEN "existing" ELSE "ok")
  <2>0. PICK reply : reply = IF op.kind = "callback" THEN "existing" ELSE "ok"
    OBVIOUS
  <2>2. PICK n :
        /\ Sound(n) /\ n.tag = tabs[t].tag /\ tabs' = [tabs EXCEPT ![t] = n]
        /\ n.op.kind = op.kind /\ n.op.reply = reply
    <3>1. reply \in {"ok", "existing", "new"}
      BY <2>0
    <3>2. Reply(t, reply)
      BY <1>7, <2>0
    <3>3. op.kind \in {"start", "submit", "verify", "confirm", "callback"} /\ op.kind # "submit"
      BY <1>7
    <3> QED
      BY <1>1, <3>1, <3>2, <3>3, Replied
  <2>3. /\ TypeOK' /\ \A u \in Tabs : Sound(tabs[u])'
        /\ tabs'[t] = n /\ \A u \in Tabs \ {t} : tabs'[u] = tabs[u]
    BY <1>2, <1>7, <2>2, TabStep
  <2>4. \A u \in Tabs : ~Registers(tabs[u].op)
    <3>1. op.kind = "verify" => tabs[t].tag = "EmailVerificationPending"
      BY <1>1 DEF Sound, Waits
    <3> QED
      BY <1>7, <3>1 DEF IInv, OneRegistration
  <2>5. SignsIn(n.op) /\ ~Registers(n.op)
    BY <1>7, <2>0, <2>2 DEF SignsIn, Registers
  <2>6. OneRegistration'
    BY <1>7, <2>3, <2>4, <2>5 DEF OneRegistration
  <2>7. RegistrationReachesCode' /\ NothingLeftBehind'
    BY <1>7, <2>3, <2>5 DEF RegistrationReachesCode, NothingLeftBehind
  <2> QED
    BY <2>3, <2>6, <2>7 DEF IInv
<1> QED
  BY <1>3, <1>4, <1>5, <1>6, <1>7 DEF Serve

\* Tabs without a draft.
LEMMA FreshSound ==
    /\ Sound(Fresh) /\ Sound([Fresh EXCEPT !.tag = "AtGoogle"])
    /\ Sound([Fresh EXCEPT !.tag = "Completed"])
    /\ ~Registers(Idle) /\ ~SignsIn(Idle)
<1>1. Fresh \in TabType /\ Idle.kind = "none"
  BY DEF Fresh, TabType, Tags, Steps, Idle, Operations
<1>2. /\ [Fresh EXCEPT !.tag = "AtGoogle"] \in TabType
      /\ [Fresh EXCEPT !.tag = "Completed"] \in TabType
  BY <1>1 DEF TabType, Tags
<1> QED
  BY <1>1, <1>2 DEF Fresh, Idle, Sound, Held, Shown, Waits, HasDraft, Registers, SignsIn

LEMMA DeliverStartStep ==
    ASSUME IInv, NEW t \in Tabs, DeliverStart(t) PROVE IInv'
<1>1. PICK n : n = [Fresh EXCEPT !.tag = "AtGoogle"]
  OBVIOUS
<1>2. /\ tabs[t].op.kind = "start" /\ tabs' = [tabs EXCEPT ![t] = n]
      /\ UNCHANGED <<stored, server, loose, missed>>
  BY <1>1 DEF DeliverStart
<1>3. Sound(n) /\ n.op = Idle /\ n.tag = "AtGoogle"
  BY <1>1, FreshSound DEF Fresh
<1>4. /\ ~Registers(n.op) /\ ~SignsIn(n.op)
      /\ ~Registers(tabs[t].op) /\ ~SignsIn(tabs[t].op)
  BY <1>2, <1>3, FreshSound DEF Registers, SignsIn
<1>5. tabs[t].tag = "ResolvingGoogle"
  BY <1>2 DEF IInv, Sound, Waits
<1>6. stored' \in Stored /\ {loose, missed}' \subseteq BOOLEAN
  BY <1>2, <1>3, StorageTypes
<1> QED
  BY <1>2, <1>3, <1>4, <1>5, <1>6, OpStep

\* A tab that has its answer.
LEMMA DoneSound ==
    ASSUME IInv, NEW t \in Tabs
    PROVE  /\ Sound(Done(t)) /\ Done(t).op = Idle /\ Done(t).tag = tabs[t].tag
           /\ Done(t).draft = tabs[t].draft /\ Done(t) \in TabType
<1>1. Sound(tabs[t])
  BY DEF IInv
<1> QED
  BY <1>1, SoundWaiting, Requested DEF Done, Operations, Sound

\* The registration was accepted: the page of the code, or the answer is missed.
LEMMA RegisteredStep ==
    ASSUME IInv, NEW t \in Tabs, DeliverAnswer(t), tabs[t].op.kind = "submit"
    PROVE  IInv'
<1> DEFINE op == tabs[t].op
<1>0. PICK d : d = Done(t)
  OBVIOUS
<1>1. PICK n : n = Dispatched(d, Event("EmailSubmitted"))
  OBVIOUS
<1>2. /\ op.reply = "ok" /\ tabs' = [tabs EXCEPT ![t] = n] /\ stored' = StorageAfter(n)
      /\ missed' = (missed \/ (Registers(op) /\ (\/ op.draft # tabs[t].draft
                                                \/ op.draft.provider = "google")))
      /\ UNCHANGED <<server, loose>>
  BY <1>0, <1>1 DEF DeliverAnswer, AnswerEvent
<1>3. /\ Sound(d) /\ d.op = Idle /\ d.tag = tabs[t].tag /\ d.draft = tabs[t].draft
      /\ d \in TabType
  BY <1>0, DoneSound
<1>4. /\ Registers(op) /\ account = "pending" /\ signedIn = FALSE
      /\ \A u \in Tabs : /\ tabs[u].tag # "EmailVerificationPending"
                         /\ Registers(tabs[u].op) => u = t
                         /\ ~SignsIn(tabs[u].op)
  <2>1. Registers(op)
    BY <1>2 DEF Registers
  <2>2. {signedIn} \subseteq BOOLEAN
    BY <1>3, StorageTypes
  <2> QED
    BY <2>1, <2>2 DEF IInv, OneRegistration
<1>5. CASE d.tag = "CollectingOnboarding" /\ Submittable(d)
  <2>1. n = [[Choosing(d) EXCEPT !.tag = "EmailVerificationPending"] EXCEPT !.url = "verify"]
    <3>1. Handles(d, Event("EmailSubmitted"))
      BY <1>5 DEF Handles, Event
    <3>2. [Choosing(d) EXCEPT !.tag = "EmailVerificationPending"].tag = "EmailVerificationPending"
      BY <1>3 DEF Choosing, TabType
    <3> QED
      BY <1>1, <3>1, <3>2, Transitions DEF Dispatched, Destination
  <2>2. /\ n \in TabType /\ n.tag = "EmailVerificationPending" /\ n.draft = None /\ ~n.google
        /\ n.op = Idle /\ n.url = "verify"
    BY <1>3, <2>1 DEF Choosing, TabType, Tags, Steps
  <2>3. Sound(n)
    BY <2>2, FreshSound DEF Sound, Held, Shown, Waits, HasDraft, Idle
  <2>4. stored' \in Stored /\ {loose, missed}' \subseteq BOOLEAN
        /\ account' \in {"none", "pending", "active"} /\ {signedIn}' \subseteq BOOLEAN
    BY <1>2, <2>3, StorageTypes DEF server
  <2>5. /\ TypeOK' /\ \A u \in Tabs : Sound(tabs[u])'
        /\ tabs'[t] = n /\ \A u \in Tabs \ {t} : tabs'[u] = tabs[u]
    BY <1>2, <2>3, <2>4, TabStep
  <2>6. ~Registers(n.op) /\ ~SignsIn(n.op)
    BY <2>2, FreshSound
  <2>7. OneRegistration'
    BY <1>2, <1>4, <2>5, <2>6 DEF OneRegistration, server
  <2>8. RegistrationReachesCode' /\ NothingLeftBehind'
    BY <1>2, <1>4, <2>2, <2>5 DEF RegistrationReachesCode, NothingLeftBehind, server
  <2> QED
    BY <2>5, <2>7, <2>8 DEF IInv
<1>6. CASE ~(d.tag = "CollectingOnboarding" /\ Submittable(d))
  <2>1. n = d
    <3>1. ~Handles(d, Event("EmailSubmitted"))
      BY <1>6 DEF Handles, Event
    <3> QED
      BY <1>1, <3>1 DEF Dispatched
  <2>2. missed'
    <3>1. SUFFICES ASSUME op.draft = tabs[t].draft, op.draft.provider # "google" PROVE FALSE
      BY <1>2, <1>4
    <3>2. op.draft \in Drafts /\ Sendable(op.draft) /\ AcceptsProblem(op.draft)
      BY <1>4 DEF IInv, Sound, Waits, Registers
    <3>3. FirstIncompleteStep(d.draft) = "account" /\ d.draft \in Drafts
      BY <1>3, <3>1, <3>2, FirstStep DEF Sendable, AcceptsProblem, ProblemComplete, Last, Drafts
    <3>4. HasDraft(d)
      BY <1>3, <3>3, WizardAssumption DEF Sound, Held
    <3>5. d.tag = "CollectingOnboarding"
      BY <1>3, <3>3, <3>4 DEF Sound, Held, HasDraft
    <3> QED
      BY <1>6, <3>3, <3>5 DEF Submittable
  <2>3. ~Registers(n.op) /\ ~SignsIn(n.op)
    BY <1>3, <2>1, FreshSound
  <2>4. stored' \in Stored /\ {loose, missed}' \subseteq BOOLEAN
    BY <1>2, <1>3, <2>1, StorageTypes DEF Registers
  <2> QED
    BY <1>2, <1>3, <1>4, <2>1, <2>2, <2>3, <2>4, OpStep
<1> QED
  BY <1>5, <1>6

\* The code was right, or the Google registration is confirmed: the wizard ends.
LEMMA EndedStep ==
    ASSUME IInv, NEW t \in Tabs, DeliverAnswer(t), tabs[t].op.kind \in {"verify", "confirm"}
    PROVE  IInv'
<1> DEFINE op == tabs[t].op
<1>0. PICK d : d = Done(t)
  OBVIOUS
<1>1. PICK e : e = AnswerEvent(op)
  OBVIOUS
<1>2. PICK n : n = Dispatched(d, e)
  OBVIOUS
<1>3. /\ op.reply = "ok" /\ tabs' = [tabs EXCEPT ![t] = n] /\ stored' = StorageAfter(n)
      /\ missed' = (missed \/ (Registers(op) /\ (\/ op.draft # tabs[t].draft
                                                \/ op.draft.provider = "google")))
      /\ UNCHANGED <<server, loose>>
  BY <1>0, <1>1, <1>2 DEF DeliverAnswer
<1>4. /\ d.tag = tabs[t].tag
      /\ \/ e = Event("CodeVerified") /\ d.tag = "EmailVerificationPending"
         \/ e = Event("GoogleConfirmed") /\ d.tag = "ConfirmingGoogle"
  <2>1. d.tag = tabs[t].tag
    BY <1>0, DoneSound
  <2>2. Waits(tabs[t])
    BY DEF IInv, Sound
  <2> QED
    BY <1>1, <2>1, <2>2 DEF AnswerEvent, Waits
<1>5. Handles(d, e) /\ TransitionRegistration(d, e) = Completed(d)
  <2>1. CASE e = Event("CodeVerified") /\ d.tag = "EmailVerificationPending"
    <3>1. Handles(d, e)
      BY <2>1 DEF Handles, Event
    <3> QED
      BY <2>1, <3>1, Transitions
  <2>2. CASE e = Event("GoogleConfirmed") /\ d.tag = "ConfirmingGoogle"
    <3>1. Handles(d, e)
      BY <2>2 DEF Handles, Event
    <3> QED
      BY <2>2, <3>1, Transitions
  <2> QED
    BY <1>4, <2>1, <2>2
<1>6. Completed(d) = [Fresh EXCEPT !.tag = "Completed"]
  BY DEF Completed
<1>7. n = [Completed(d) EXCEPT !.url = Destination(Completed(d))]
  BY <1>2, <1>5 DEF Dispatched
<1>8. n = [Fresh EXCEPT !.tag = "Completed"]
  BY <1>6, <1>7 DEF Destination, Fresh
<1>9. Sound(n) /\ n.op = Idle /\ n.tag = "Completed"
  BY <1>8, FreshSound DEF Fresh
<1>10. ~Registers(n.op) /\ ~SignsIn(n.op)
  BY <1>9, FreshSound
<1>11. ~Registers(op) /\ SignsIn(op)
  BY <1>3 DEF Registers, SignsIn
<1>12. account = "active"
  BY <1>11 DEF IInv, OneRegistration
<1>13. stored' = None
  BY <1>3, <1>9 DEF StorageAfter, HasDraft
<1>14. stored' \in Stored /\ {loose, missed}' \subseteq BOOLEAN
  BY <1>3, <1>9, <1>11, StorageTypes
<1> QED
  BY <1>3, <1>9, <1>10, <1>11, <1>12, <1>13, <1>14, OpStep

\* Google has answered with a registration to confirm, or with an account.
LEMMA CallbackStep ==
    ASSUME IInv, NEW t \in Tabs, DeliverCallback(t) PROVE IInv'
<1> DEFINE op == tabs[t].op
<1>1. PICK d : d = Done(t)
  OBVIOUS
<1>2. PICK started : started = IF tabs[t].tag = "ChoosingMethod"
                               THEN Dispatched(d, Event("GoogleStarted")) ELSE d
  OBVIOUS
<1>3. PICK reply : reply = op.reply
  OBVIOUS
<1>4. PICK s : s = Dispatched(started, EventOf("GoogleResolved", reply))
  OBVIOUS
<1>5. PICK url \in {"start", s.url} :
        tabs' = [tabs EXCEPT ![t] = IF reply = "existing" THEN Completed(s)
                                    ELSE [s EXCEPT !.url = url]]
  BY <1>1, <1>2, <1>3, <1>4 DEF DeliverCallback
<1>6. PICK n : n = IF reply = "existing" THEN Completed(s) ELSE [s EXCEPT !.url = url]
  OBVIOUS
<1>7. /\ op.kind = "callback" /\ reply \in {"existing", "new"} /\ stored' = StorageAfter(s)
      /\ tabs' = [tabs EXCEPT ![t] = n]
      /\ loose' = (loose \/ (signedIn /\ HasDraft(s)))
      /\ UNCHANGED <<server, missed>>
  BY <1>1, <1>2, <1>3, <1>4, <1>5, <1>6 DEF DeliverCallback
<1>8. /\ Sound(tabs[t]) /\ ~tabs[t].google
      /\ tabs[t].tag \in {"ChoosingMethod", "CollectingOnboarding"}
  BY <1>7 DEF IInv, Sound, Waits
<1>9. /\ Sound(d) /\ d.op = Idle /\ d.tag = tabs[t].tag /\ d.draft = tabs[t].draft
      /\ d \in TabType
  BY <1>1, DoneSound
<1>10. d.google = FALSE
  BY <1>1, <1>8 DEF Done, Sound, TabType
<1>11. CASE tabs[t].tag = "CollectingOnboarding"
  <2>1. s = d
    <3>1. ~Handles(d, EventOf("GoogleResolved", reply))
      BY <1>9, <1>11 DEF Handles, EventOf
    <3> QED
      BY <1>2, <1>4, <1>11, <3>1 DEF Dispatched
  <2>2. HasDraft(s) /\ s.draft \in Drafts
    BY <1>9, <1>11, <2>1 DEF HasDraft, Sound, Held
  <2>3. /\ Sound(n) /\ n.op = Idle /\ n.tag # "EmailVerificationPending"
    <3>1. CASE reply = "existing"
      <4>1. n = [Fresh EXCEPT !.tag = "Completed"]
        BY <1>6, <3>1 DEF Completed
      <4> QED
        BY <4>1, FreshSound DEF Fresh
    <3>2. CASE reply # "existing"
      <4>1. /\ n \in TabType /\ n.tag = d.tag /\ n.draft = d.draft /\ n.step = d.step
            /\ n.google = d.google /\ n.strayed = d.strayed /\ n.resumed = d.resumed
            /\ n.op = d.op /\ n.url \in {"start", d.url}
        BY <1>5, <1>6, <1>9, <2>1, <3>2 DEF TabType, Steps
      <4>2. Held(n)
        BY <1>9, <4>1 DEF Sound, Held, HasDraft
      <4>3. Shown(n)
        <5>1. n.url = d.url => Shown(n)
          BY <1>9, <4>1 DEF Sound, Shown, Page, UnderCode
        <5>2. n.url = "start" => Shown(n)
          BY <1>9, <1>10, <1>11, <4>1 DEF Sound, Shown, Page
        <5> QED
          BY <4>1, <5>1, <5>2
      <4>4. Waits(n)
        BY <1>9, <4>1, FreshSound DEF Waits, Idle
      <4> QED
        BY <1>9, <1>11, <4>1, <4>2, <4>3, <4>4 DEF Sound
    <3> QED
      BY <3>1, <3>2
  <2>4. ~Registers(n.op) /\ ~SignsIn(n.op) /\ ~Registers(op)
    BY <1>7, <2>3, FreshSound DEF Registers
  <2>5. stored' \in Stored /\ {loose, missed}' \subseteq BOOLEAN
    BY <1>7, <1>9, <2>1, StorageTypes
  <2>6. SignsIn(op) => loose'
    <3>1. SignsIn(op) => signedIn
      BY DEF IInv, OneRegistration
    <3> QED
      BY <1>7, <2>2, <3>1
  <2>7. signedIn /\ ~loose' => FALSE
    BY <1>7, <2>2
  <2> QED
    BY <1>7, <1>8, <1>11, <2>3, <2>4, <2>5, <2>6, <2>7, OpStep
<1>12. CASE tabs[t].tag = "ChoosingMethod"
  <2>1. /\ started \in TabType /\ started.tag = "ResolvingGoogle" /\ started.op = Idle
        /\ started.strayed = d.strayed
    <3>1. Handles(d, Event("GoogleStarted"))
      BY <1>9, <1>12 DEF Handles, Event
    <3>2. [d EXCEPT !.tag = "ResolvingGoogle"].tag = "ResolvingGoogle"
          /\ [d EXCEPT !.tag = "ResolvingGoogle"].url = d.url
      BY <1>9 DEF TabType
    <3>3. started = [[d EXCEPT !.tag = "ResolvingGoogle"] EXCEPT !.url = d.url]
      BY <1>2, <1>12, <3>1, <3>2, Transitions DEF Dispatched, Destination
    <3> QED
      BY <1>9, <3>3 DEF TabType, Tags
  <2>2. Handles(started, EventOf("GoogleResolved", reply))
    BY <2>1 DEF Handles, EventOf
  <2>3. CASE reply = "existing"
    <3>1. TransitionRegistration(started, EventOf("GoogleResolved", reply)) = Completed(started)
      BY <2>3, Transitions
    <3>2. s = [Completed(started) EXCEPT !.url = Destination(Completed(started))]
      BY <1>4, <2>2, <3>1 DEF Dispatched
    <3>3. s.tag = "Completed"
      BY <3>2 DEF Completed, Fresh
    <3>4. stored' = None /\ loose' = loose
      BY <1>7, <3>3, StorageTypes, <1>9 DEF StorageAfter, HasDraft
    <3>5. n = [Fresh EXCEPT !.tag = "Completed"]
      BY <1>6, <2>3 DEF Completed
    <3>6. Sound(n) /\ n.op = Idle /\ n.tag = "Completed"
      BY <3>5, FreshSound DEF Fresh
    <3>7. ~Registers(n.op) /\ ~SignsIn(n.op) /\ ~Registers(op)
      BY <1>7, <3>6, FreshSound DEF Registers
    <3>8. stored' \in Stored /\ {loose, missed}' \subseteq BOOLEAN
      BY <1>7, <1>9, <3>4, StorageTypes DEF Stored
    <3> QED
      BY <1>7, <1>12, <3>4, <3>6, <3>7, <3>8, OpStep
  <2>4. CASE reply = "new"
    <3>1. PICK g : g = [started EXCEPT !.google = TRUE]
      OBVIOUS
    <3>2. PICK new : new = NewDraft("google")
      OBVIOUS
    <3>3. /\ new \in Drafts /\ new.provider = "google" /\ ~new.acquisition
          /\ FirstIncompleteStep(new) = "problem"
      <4>1. new \in Drafts /\ new.provider = "google" /\ new.acquisition = FALSE
            /\ new.problem = "none"
        BY <3>2, WizardAssumption DEF NewDraft, Drafts
      <4> QED
        BY <4>1, FirstStep DEF ProblemComplete
    <3>4. TransitionRegistration(started, EventOf("GoogleResolved", reply)) = Collecting(g, new)
      BY <2>4, <3>1, <3>2, Transitions
    <3>5. Collecting(g, new) = [g EXCEPT !.tag = "CollectingOnboarding", !.draft = new,
                                         !.step = "problem"]
      BY <3>3 DEF Collecting
    <3>6. /\ Collecting(g, new).tag = "CollectingOnboarding"
          /\ Collecting(g, new).step = "problem"
      BY <2>1, <3>1, <3>5 DEF TabType
    <3>7. s = [Collecting(g, new) EXCEPT !.url = "problem"]
      BY <1>4, <2>2, <3>4, <3>6 DEF Dispatched, Destination
    <3>8. /\ s \in TabType /\ s.tag = "CollectingOnboarding" /\ s.draft = new
          /\ s.step = "problem" /\ s.url = "problem" /\ s.google = TRUE /\ s.op = Idle
          /\ s.strayed = started.strayed
      BY <2>1, <3>1, <3>3, <3>5, <3>7 DEF TabType, Tags, Steps
    <3>9. /\ n \in TabType /\ n.tag = "CollectingOnboarding" /\ n.draft = new
          /\ n.step = "problem" /\ n.url \in {"start", "problem"} /\ n.google = TRUE
          /\ n.op = Idle /\ n.strayed = started.strayed
      BY <1>5, <1>6, <2>4, <3>8 DEF TabType, Steps
    <3>10. Page(n) = "problem"
      BY <3>9 DEF Page
    <3>11. ~Misplaced("problem", new)
      BY <3>3, FirstFits
    <3>12. Held(n) /\ Shown(n)
      BY <3>3, <3>9, <3>10, <3>11 DEF Held, Shown, HasDraft
    <3>13. Waits(n)
      BY <3>9, FreshSound DEF Waits, Idle
    <3>14. Sound(n) /\ ~Registers(n.op) /\ ~SignsIn(n.op) /\ ~Registers(op) /\ ~SignsIn(op)
      BY <1>3, <1>7, <2>4, <3>9, <3>12, <3>13, FreshSound DEF Sound, Registers, SignsIn
    <3>15. HasDraft(s) /\ stored' = [draft |-> s.draft, expired |-> FALSE]
      BY <1>7, <3>8 DEF HasDraft, StorageAfter
    <3>16. stored' \in Stored /\ {loose, missed}' \subseteq BOOLEAN
      BY <1>7, <1>9, <3>3, <3>8, <3>15, StorageTypes DEF Stored
    <3>17. signedIn /\ ~loose' => FALSE
      BY <1>7, <3>15
    <3> QED
      BY <1>7, <1>12, <3>9, <3>14, <3>16, <3>17, OpStep
  <2> QED
    BY <1>7, <2>3, <2>4
<1> QED
  BY <1>8, <1>11, <1>12

\* What the document of a tab holds after its load.
LEMMA LoadedSound ==
    ASSUME IInv, NEW t \in Tabs, NEW url \in Steps, NEW show \in BOOLEAN, NEW op,
           \/ op = Idle /\ url = tabs[t].url
           \/ op = Request("callback", None) /\ url = "start" /\ tabs[t].tag = "AtGoogle",
           tabs[t].tag # "Completed",
           NEW n, n = Loaded(t, url, op, show)
    PROVE  /\ Sound(n) /\ n.op = op /\ n.tag \in {"ChoosingMethod", "CollectingOnboarding"}
           /\ ~Registers(op) /\ ~SignsIn(op)
<1>1. /\ Sound(tabs[t]) /\ stored \in Stored /\ {tabs[t].strayed, tabs[t].resumed} \subseteq BOOLEAN
  BY DEF IInv, TypeOK, Stored, Sound, TabType
<1>2. /\ op \in [kind : Operations, draft : Drafts \cup {None},
                 reply : {"waiting", "ok", "existing", "new"}]
      /\ ~Registers(op) /\ ~SignsIn(op) /\ op.kind \in {"none", "callback"}
      /\ op.kind = "callback" => url = "start" /\ tabs[t].tag = "AtGoogle"
  <2>1. {"none", "callback"} \subseteq Operations /\ None \in Drafts \cup {None}
    BY DEF Operations
  <2> QED
    BY <2>1, Requested
<1>3. PICK s : s = [Fresh EXCEPT !.url = url, !.op = op, !.strayed = tabs[t].strayed,
                                !.resumed = tabs[t].resumed]
  OBVIOUS
<1>4. /\ s \in TabType /\ s.tag = "ChoosingMethod" /\ s.draft = None /\ s.step = "start"
      /\ s.google = FALSE /\ s.url = url /\ s.op = op /\ s.strayed = tabs[t].strayed
      /\ s.resumed = tabs[t].resumed
  BY <1>1, <1>2, <1>3 DEF Fresh, TabType, Tags, Steps
<1>5. CASE ~Usable
  <2>1. n = s
    BY <1>3, <1>5 DEF Loaded
  <2> QED
    BY <1>2, <1>4, <2>1 DEF Sound, Held, Shown, Waits, HasDraft
<1>6. CASE Usable
  <2>1. PICK d : d = stored.draft
    OBVIOUS
  <2>2. d \in Drafts /\ d # None
    BY <1>1, <1>6, <2>1, WizardAssumption DEF Usable, Stored
  <2>3. PICK first : first = FirstIncompleteStep(d)
    OBVIOUS
  <2>4. first \in Steps \ {"start"} /\ ~Misplaced(first, d)
    BY <2>2, <2>3, FirstFits
  <2>5. PICK c : c = [s EXCEPT !.tag = "CollectingOnboarding", !.draft = d, !.step = first]
    OBVIOUS
  <2>6. c = Collecting(s, d)
    BY <2>3, <2>5 DEF Collecting
  <2>7. /\ c \in TabType /\ c.tag = "CollectingOnboarding" /\ c.draft = d /\ c.step = first
        /\ c.google = FALSE /\ c.op = op /\ c.strayed = tabs[t].strayed
        /\ c.resumed = tabs[t].resumed
    BY <1>4, <2>2, <2>4, <2>5 DEF TabType, Tags
  <2>8. PICK to : to = IF show THEN first ELSE url
    OBVIOUS
  <2>9. PICK ofCode : ofCode = (tabs[t].tag = "EmailVerificationPending")
    OBVIOUS
  <2>10. PICK strayed : strayed = (tabs[t].strayed \/
           (~show /\ ~ofCode /\ url # "start" /\ tabs[t].draft # d))
    OBVIOUS
  <2>11. PICK resumed : resumed = (tabs[t].resumed \/ (~show /\ ofCode))
    OBVIOUS
  <2>12. n = [c EXCEPT !.url = to, !.resumed = resumed, !.strayed = strayed]
    <3>1. n = [Collecting(s, d) EXCEPT
                 !.url = IF show THEN FirstIncompleteStep(d) ELSE url,
                 !.resumed = (@ \/ (~show /\ ofCode)),
                 !.strayed = (@ \/ (~show /\ ~ofCode /\ url # "start" /\ tabs[t].draft # d))]
      BY <1>3, <1>6, <2>1, <2>9 DEF Loaded
    <3> QED
      BY <2>3, <2>6, <2>7, <2>8, <2>10, <2>11, <3>1
  <2>13. /\ n \in TabType /\ n.tag = "CollectingOnboarding" /\ n.draft = d /\ n.step = first
         /\ n.google = FALSE /\ n.op = op /\ n.url = to /\ n.strayed = strayed
         /\ n.resumed = resumed
    BY <1>1, <2>4, <2>7, <2>8, <2>9, <2>10, <2>11, <2>12 DEF TabType
  <2>14. Held(n)
    BY <2>2, <2>4, <2>13 DEF Held, HasDraft
  <2>15. ~strayed /\ ~UnderCode(n) => ~Misplaced(Page(n), d)
    <3>1. CASE show \/ url = "start"
      <4>1. Page(n) = first
        BY <2>4, <2>8, <2>13, <3>1 DEF Page
      <4> QED
        BY <2>4, <4>1
    <3>2. ASSUME ~show, url # "start", ~strayed, ~UnderCode(n)
          PROVE  ~Misplaced(Page(n), d)
      <4>1. to = url /\ n.url = url /\ Page(n) = url /\ tabs[t].url = url /\ ~tabs[t].strayed
        BY <2>8, <2>10, <2>13, <3>2 DEF Page
      <4>2. ~ofCode
        <5>1. ofCode => url = "verify"
          BY <1>1, <2>9, <4>1 DEF Sound, Shown
        <5>2. ofCode => n.resumed
          BY <2>11, <2>13, <3>2
        <5> QED
          BY <3>2, <4>1, <5>1, <5>2 DEF UnderCode
      <4>3. tabs[t].draft = d /\ HasDraft(tabs[t])
        BY <1>1, <2>2, <2>10, <3>2, <4>2 DEF Sound, Held
      <4>4. CASE tabs[t].tag = "CollectingOnboarding"
        <5>1. Page(tabs[t]) = url
          BY <3>2, <4>1, <4>4 DEF Page
        <5>2. ~UnderCode(tabs[t])
          BY <2>11, <2>13, <3>2, <4>1 DEF UnderCode
        <5> QED
          BY <1>1, <4>1, <4>3, <4>4, <5>1, <5>2 DEF Sound, Shown
      <4>5. CASE tabs[t].tag = "ConfirmingGoogle"
        <5>1. url = "confirm-google" /\ FirstIncompleteStep(d) = "confirm-google"
          BY <1>1, <4>1, <4>3, <4>5 DEF Sound, Shown, Held
        <5> QED
          BY <2>2, <4>1, <5>1, FirstFits
      <4> QED
        BY <4>3, <4>4, <4>5 DEF HasDraft
    <3> QED
      BY <3>1, <3>2
  <2>16. Shown(n)
    BY <2>4, <2>13, <2>15 DEF Shown
  <2>17. Waits(n)
    BY <1>2, <2>13 DEF Waits
  <2> QED
    BY <1>2, <2>13, <2>14, <2>16, <2>17 DEF Sound
<1> QED
  BY <1>5, <1>6

LEMMA LoadStep ==
    ASSUME IInv, NEW t \in Tabs, Reload(t) \/ ReturnFromGoogle(t) PROVE IInv'
<1>1. /\ Sound(tabs[t]) /\ tabs[t] \in TabType /\ stored \in Stored
      /\ {signedIn, loose, missed} \subseteq BOOLEAN
  BY DEF IInv, TypeOK, Stored, Sound
<1>0. PICK url \in Steps : \E op :
        /\ \/ op = Idle /\ url = tabs[t].url
           \/ op = Request("callback", None) /\ url = "start" /\ tabs[t].tag = "AtGoogle"
        /\ LoadAs(t, url, op) /\ tabs[t].tag # "Completed"
  <2>1. tabs[t].url \in Steps /\ "start" \in Steps
    BY <1>1 DEF TabType, Steps
  <2> QED
    BY <2>1 DEF Reload, ReturnFromGoogle
<1>2. PICK op :
        /\ \/ op = Idle /\ url = tabs[t].url
           \/ op = Request("callback", None) /\ url = "start" /\ tabs[t].tag = "AtGoogle"
        /\ LoadAs(t, url, op) /\ tabs[t].tag # "Completed"
  BY <1>0
<1>3. PICK show \in BOOLEAN : tabs' = [tabs EXCEPT ![t] = Loaded(t, url, op, show)]
  BY <1>2 DEF LoadAs
<1>4. PICK n : n = Loaded(t, url, op, show)
  OBVIOUS
<1>5. /\ Sound(n) /\ n.op = op /\ n.tag \in {"ChoosingMethod", "CollectingOnboarding"}
      /\ ~Registers(op) /\ ~SignsIn(op)
  BY <1>2, <1>4, LoadedSound
<1>6. /\ ~signedIn /\ tabs' = [tabs EXCEPT ![t] = n]
      /\ stored' = IF Usable THEN stored ELSE None
      /\ loose' = (loose \/ SignsIn(tabs[t].op))
      /\ missed' = (missed \/ Registers(tabs[t].op)
                           \/ tabs[t].tag = "EmailVerificationPending")
      /\ UNCHANGED server
  BY <1>2, <1>3, <1>4 DEF LoadAs
<1>7. stored' \in Stored
  BY <1>1, <1>6 DEF Stored
<1>8. {loose, missed}' \subseteq BOOLEAN
  BY <1>1, <1>6 DEF SignsIn, Registers
<1> QED
  BY <1>5, <1>6, <1>7, <1>8, OpStep

LEMMA MoveStep ==
    ASSUME IInv, NEW t \in Tabs, NEW url \in Addresses, Move(t, url) PROVE IInv'
<1>1. Sound(tabs[t]) /\ tabs[t] \in TabType /\ tabs \in [Tabs -> TabType] /\ url \in Steps
  BY WizardAssumption DEF IInv, TypeOK, TabType, Sound
<1>2. PICK n : n = [tabs[t] EXCEPT !.url = url, !.strayed = TRUE]
  OBVIOUS
<1>3. tabs' = [tabs EXCEPT ![t] = n] /\ UNCHANGED <<stored, server, loose, missed>>
  BY <1>1, <1>2 DEF Move
<1>4. /\ n \in TabType /\ n.tag = tabs[t].tag /\ n.draft = tabs[t].draft
      /\ n.step = tabs[t].step /\ n.google = tabs[t].google /\ n.op = tabs[t].op
      /\ n.strayed
  BY <1>1, <1>2 DEF TabType
<1>5. Held(n) /\ Shown(n) /\ Waits(n)
  BY <1>1, <1>4 DEF Sound, Held, Shown, Waits, HasDraft
<1>6. stored' \in Stored /\ {loose, missed}' \subseteq BOOLEAN
  BY <1>1, <1>3, StorageTypes
<1> QED
  BY <1>3, <1>4, <1>5, <1>6, OpStep DEF Sound

\* The draft is too old to be restored.
LEMMA ExpireStep ==
    ASSUME IInv, Expire PROVE IInv'
<1>1. /\ Usable /\ stored' = [stored EXCEPT !.expired = TRUE]
      /\ UNCHANGED <<tabs, account, signedIn, loose, missed>>
  BY DEF Expire, server
<1>2. stored' \in Stored
  BY <1>1 DEF IInv, TypeOK, Stored, Usable
<1>3. TypeOK'
  BY <1>1, <1>2 DEF IInv, TypeOK, Stored, HasDraft
<1>4. (\A t \in Tabs : Sound(tabs[t]))' /\ OneRegistration' /\ RegistrationReachesCode'
  BY <1>1 DEF IInv, OneRegistration, RegistrationReachesCode, Sound, Held, Shown, Waits,
     HasDraft, Page, UnderCode, SignsIn, Registers
<1>5. NothingLeftBehind'
  BY <1>1 DEF IInv, NothingLeftBehind, SignsIn, Usable
<1> QED
  BY <1>3, <1>4, <1>5 DEF IInv

-----------------------------------------------------------------------------
(* The invariant                                                           *)

LEMMA Initially ==
    ASSUME Init PROVE IInv
<1>1. \A t \in Tabs : tabs[t] = Fresh
  BY DEF Init
<1>2. Sound(Fresh) /\ Fresh.tag = "ChoosingMethod" /\ Fresh.op = Idle
  BY FreshSound DEF Fresh
<1>3. tabs \in [Tabs -> TabType]
  BY <1>2 DEF Init, Sound
<1>4. TypeOK
  BY <1>1, <1>2, <1>3 DEF Init, TypeOK, TabType, HasDraft
<1>5. OneRegistration /\ RegistrationReachesCode /\ NothingLeftBehind
  BY <1>1, <1>2, FreshSound DEF Init, OneRegistration, RegistrationReachesCode, NothingLeftBehind
<1> QED
  BY <1>1, <1>2, <1>4, <1>5 DEF IInv

LEMMA Stuttering ==
    ASSUME IInv, UNCHANGED vars PROVE IInv'
BY DEF vars, server, IInv, TypeOK, OneRegistration, RegistrationReachesCode, NothingLeftBehind,
   Sound, Held, Shown, Waits, HasDraft, Page, UnderCode, SignsIn, Registers

LEMMA Inductive ==
    IInv /\ [Next]_vars => IInv'
<1> SUFFICES ASSUME IInv, [Next]_vars PROVE IInv'
  OBVIOUS
<1>1. CASE UNCHANGED vars
  BY <1>1, Stuttering
<1>2. CASE Expire
  BY <1>2, ExpireStep
<1>3. ASSUME NEW t \in Tabs, Controls(t) PROVE IInv'
  BY <1>3, ControlStep, BeginGoogleStep, SendStep DEF Controls
<1>4. ASSUME NEW t \in Tabs, Answers(t) PROVE IInv'
  <2>1. CASE DeliverAnswer(t)
    <3>1. tabs[t].op.kind \in {"submit", "verify", "confirm"}
      BY <2>1 DEF DeliverAnswer
    <3> QED
      BY <2>1, <3>1, RegisteredStep, EndedStep
  <2> QED
    BY <1>4, <2>1, ServeStep, LoseStep, DeliverStartStep, CallbackStep DEF Answers
<1>5. ASSUME NEW t \in Tabs, Browser(t) PROVE IInv'
  BY <1>5, LoadStep, MoveStep DEF Browser
<1> QED
  BY <1>1, <1>2, <1>3, <1>4, <1>5 DEF Next

LEMMA Invariant == Spec => []IInv
BY Initially, Inductive, PTL DEF Spec

\* The tabs, the storage and the account are well formed, whatever the answers
\* of the server and the addresses set by hand.
THEOREM TypeCorrect == Spec => []TypeOK
<1>1. IInv => TypeOK
  BY DEF IInv
<1> QED
  BY <1>1, Invariant, PTL

\* The page shown is one the draft allows, whatever the answers, the reloads and
\* the other tabs do, except under an address set by hand or one that names a step
\* of another tab's draft, and at the page of the code loaded again.
THEOREM StepsShown == Spec => []StepsInOrder
<1>1. IInv => StepsInOrder
  <2> SUFFICES ASSUME IInv, NEW t \in Tabs, HasDraft(tabs[t]), ~tabs[t].strayed,
                      ~UnderCode(tabs[t])
               PROVE  ~Misplaced(Page(tabs[t]), tabs[t].draft)
    BY DEF StepsInOrder
  <2>1. Held(tabs[t]) /\ Shown(tabs[t])
    BY DEF IInv, Sound
  <2>2. CASE tabs[t].tag = "CollectingOnboarding"
    BY <2>1, <2>2 DEF Shown
  <2>3. CASE tabs[t].tag = "ConfirmingGoogle"
    <3>1. Page(tabs[t]) = "confirm-google"
      BY <2>3 DEF Page
    <3> QED
      BY <2>1, <2>3, <3>1, FirstFits DEF Held
  <2> QED
    BY <2>2, <2>3 DEF HasDraft
<1> QED
  BY <1>1, Invariant, PTL

\* An empty page is shown only at the page of the code loaded again, or for a
\* Google draft whose registration was lost with the document, unless the address
\* was set by hand or names a step of another tab's draft.
THEOREM NoEmpty == Spec => []NoEmptyStep
<1>1. IInv => NoEmptyStep
  <2> SUFFICES ASSUME IInv, NEW t \in Tabs, Blank(tabs[t]), ~tabs[t].strayed,
                      ~UnderCode(tabs[t])
               PROVE  /\ Page(tabs[t]) = "confirm-google"
                      /\ tabs[t].draft.provider = "google" /\ ~tabs[t].google
    BY DEF NoEmptyStep
  <2>1. /\ tabs[t].tag = "CollectingOnboarding"
        /\ Page(tabs[t]) \in {"verify", "confirm-google"}
    BY DEF Blank
  <2>2. Held(tabs[t]) /\ Shown(tabs[t])
    BY DEF IInv, Sound
  <2>3. /\ tabs[t].draft \in Drafts /\ ~Misplaced(Page(tabs[t]), tabs[t].draft)
        /\ tabs[t].google => ~tabs[t].draft.acquisition
    BY <2>1, <2>2 DEF Held, Shown, HasDraft
  <2>4. Page(tabs[t]) \in Steps
    BY <2>1 DEF Steps
  <2> QED
    BY <2>1, <2>3, <2>4, Placed
<1> QED
  BY <1>1, Invariant, PTL

\* A registration the server has accepted has its code asked for in some tab, or
\* its answer is on the way, unless it was missed.
THEOREM RegistrationArrives == Spec => []RegistrationReachesCode
<1>1. IInv => RegistrationReachesCode
  BY DEF IInv
<1> QED
  BY <1>1, Invariant, PTL

\* Nothing of a person's draft is left for the next visitor once a session is
\* open, unless a sign-in was left loose.
THEOREM NothingLeft == Spec => []NothingLeftBehind
<1>1. IInv => NothingLeftBehind
  BY DEF IInv
<1> QED
  BY <1>1, Invariant, PTL
==============================================================================
