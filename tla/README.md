# Verification of the Proxus platform

TLA+ models of the parts of Proxus in which several actors compete for the same state, the
TLC runs that check them on small instances, and the theorems about them that TLAPS proves
for every instance. Paths are relative to the repository; `repository.drizzle.ts:391` names
a line.

Contents: [the system](#1-the-system) · [how to run](#2-how-to-run) ·
[the modules](#3-the-modules) · [runs and bounds](#4-runs-and-bounds) ·
[fairness](#5-fairness) · [divergences found](#6-divergences-found) ·
[proofs](#7-proofs) · [abstractions](#8-abstractions-and-assumptions) ·
[not modelled](#9-what-is-not-modelled) · [plan](#10-plan)

## 1. The system

Proxus is a pnpm monorepo in TypeScript on Effect: React applications (`apps/web`,
`apps/admin`), an Astro site, a public and an administrative server over PostgreSQL
(`apps/server`, `apps/admin-server`; PGlite in development), and packages for contracts
(`shared`), use cases (`backend-domain`), persistence (`backend-infra`), the two transports
and the state of the frontends (`frontend-core`).

Two facts shape every module. The servers are many fibers over one database at READ
COMMITTED, so what happens between two statements of a request is anybody's; and only some
operations are transactions (`transactions.drizzle.ts`, `db.transaction`), the others are
statements in a row.

| Component | State | Operations | What is hard | What makes it correct |
| --- | --- | --- | --- | --- |
| Study catalog, edges (`study-catalog/repository.drizzle.ts`) | `study_nodes`, `study_edges` with a position per edge | `createEdge`, `updateEdge`, `removeEdge` | row locks taken after a read without locks, foreign-key locks, retries without a limit, renumbering in several statements | each operation atomic, edges fit their nodes, changed groups numbered 0, 1, 2… |
| Sessions (`auth/sessions.ts`, `session.repository.drizzle.ts`) | `auth_sessions`: current and previous token hash, grace, expiry | `create`, `resolve` with rotation, `revoke`, `revokeAllForAccount` | requests of one browser that all rotate, answers out of order or lost, revocation in between | one successor per token, revocation final, nobody signed out early, the browser ends with the current token |
| Session middleware (`auth/http.ts`, `session.ts`) | the cookie | authorization of each request, login, logout | a 401 for any failure, a cookie set after the rotation | as above |
| Access control (`access-control/service.ts`) | `role_assignments` | `grantRole`, `revokeRole`, `require`, `requireAdministrator` | authorize, count and write are separate statements | what is done was authorized; an administrator is left |
| Account administration (`auth/admin-users.ts`) | `users.status` | `updateStatus` | the account's requests are in flight | no effect without authorization |
| Registration (`auth/registration.live.ts`, `repositories.drizzle.ts`) | `users`, `auth_challenges` | `registerWithEmail`, `resendVerification`, `verifyEmail`, `completeGoogle` | transactions with mail inside, cooldown read before the lock, locks in two orders, counters rolled back | one open code, mailed, the newest; activation once, by it; limits on attempts and resends |
| Google flow (`google.live.ts`) | signed tokens, `users.google_subject` (unique) | `start`, `callback`, `complete`, `link` | an external provider; find, link and create a session are separate statements | an account keeps to one identity, an identity to one account |
| Password reset (`authentication.live.ts`, `frontend-core/src/auth/recovery.ts`) | challenges, password, sessions; the screens' state | `requestPasswordReset`, `resetPassword`, `loginWithPassword`; the recovery's pages | statements without a transaction, concurrent resets and logins, pages left or reloaded | old sessions end, a code resets once, guesses are limited, pages follow the state |
| Registration wizard (`frontend-core/src/registration`, `web/src/modules/registration`) | state, address, stored draft | transitions, restore, submit, verify, confirm | late and lost answers, steps from the address, tabs over one storage | steps in order, none empty, an accepted registration reaches its code, no draft stays behind |
| Study catalog screen (`admin/src/modules/study-catalog`) | atoms of the queries, selection, tab, filter | six mutations with the refreshes they cause | answers in any order, a refresh forgotten, requests made of what is shown | a screen at rest shows what is stored |
| Object storage (`server/src/infrastructure/object-storage`) | directories, metadata and bodies | `put`, `get`, `remove` and their routes | every call of the file system may fail or be the last before a crash | an object appears whole and once, stays until removed, and is read whole |
| Product analytics (`product-analytics/service.live.ts`) | bounded queue, batch in flight, semaphore | `recordBatch`, the worker's flush, bounded shutdown | interruption at every effect, partial failures, retries, deadline | nothing accepted is lost, nothing settled is repeated, budget and deadline hold |
| Feature flags (`feature-flags/*`) | `feature_flag_snapshots`, HTTP cache, atoms of each tab | publish, read, poll, expose | publishers at once, stale and late answers, polling through failures | readers see the last revision whole, tabs never go back, milestones name what is shown |
| Browser session atoms, retryable commands (`frontend-core/src/auth/atoms.ts`, `navigation`) | atoms | restore, login, logout, retry | answers in any order | planned |
| Servers, transports, migrations, other screens, design system, tooling | — | composition, encoding, rendering | — | — |

How they meet: every request passes the session middleware, which asks Sessions for the
account and refuses disabled ones; the administrative transport then asks access control,
which decides about catalog edits, roles and account status. The wizard talks
to registration and to Google's sign-in, the recovery screens to the password reset, and each
of the three ends in a session. The catalog screen sends what edges and nodes then do.
The web application polls feature flags, shows the landing they choose and reports its
milestones to product analytics. `PROJECT.json` lists every component with its sources and
the hazards of the code with their lines.

## 2. How to run

```
tlc -workers 2 -config MCStudyEdges.cfg MCStudyEdges     # a run: the cfg names the properties
tlapm CatalogTheorems.tla                                # the proofs of a module
```

Definitions called `…OffByOne`, `…Unneeded` and so on, each under a comment `Seeded defect:`, are
versions of an operator with a plausible error. No specification uses them; putting one in
the place of the definition it varies makes TLC report the property it is listed with in
`PROJECT.json`.

## 3. The modules

### Study catalog: `EdgeOrder`, `AtomicCatalog`, `StudyEdges`

`EdgeOrder` has the arithmetic of the repository without its concurrency: kinds of edges and
the nodes they join, sibling groups, insertion at a clamped index, the two renumbering passes
of a move and the closing of a gap. A table is a function from edge ids to rows; renumbering
is a map over a group. `AtomicCatalog` is the abstract specification: the table changes by
one creation, one move or one removal at a time. `StudyEdges` is the repository: clients send
requests, and an action is a statement, or a run of statements under the same locks.

| Action | Code |
| --- | --- |
| `Observe`, `ObserveMissing` | the read without a lock (391–400) |
| `LockNode` | sources `FOR UPDATE` in the order of their ids (`lockNodes`, 409) |
| `RecheckMissing`, `Retry`, `LockEdge` | the second read of the edge; when its source moved the attempt ends empty and starts again (548) |
| `Validate`, `Reject` | endpoints, kinds and the triple |
| `ReadSiblings`, `Write` | sibling reads, renumbering and the write with its commit; `Write` waits for the foreign-key locks of its rows |
| `Fail`, `BreakDeadlock` | any statement fails; PostgreSQL picks a victim: everything is rolled back |

`AtomicOperations` is the refinement: with the same `edges`, every behaviour of `StudyEdges`
is one of `AtomicCatalog`.

### Study catalog screen: `CatalogScreen`

Screens of administrators over a server that takes one mutation at a time: its edges change by
the steps of `AtomicCatalog`, which is what `StudyEdges` implements, so the concurrency of the
statements need not be repeated. An atom is the answer a query showed last and the parts it is
waiting for (a list of relations is two queries, edges and nodes).

| Action | Code |
| --- | --- |
| `CreateNode`, `RenameNode`, `SelectStatus`, `ConnectNodes`, `EditRelation`, `Reorder`, `Disconnect` | the buttons and dialogs of `study-catalog-screen.tsx`, with the request made of what is shown |
| `Execute`, `Refuse` | the server's effect, or a refusal |
| `Read`, `FailRead` | a query evaluated and answered, or failed |
| `Hear`, `LoseAnswer` | the answer of a mutation with the refreshes of `mutations.ts`, or its loss |
| `SelectNode`, `SwitchTab`, `SetFilter` | navigation, which mounts and drops atoms; the tabs start again with a detail that failed (`ShownTab`) |

`foreign` is history: the atoms changed by what a screen cannot know of, that is, by another
administrator, by a mutation whose answer was lost, or by one of the two refreshes that
`mutations.ts` does not ask for (`Unforeseen`, [section 6](#6-divergences-found)).

### Sessions: `Sessions`

A browser has one cookie and a request per slot. `Send`, `Receive`, `Find`, `Rotate`,
`RotateLoses`, `Reread`, `CheckUser`, `Revoke` are the statements of `resolve` and `revoke`
in order; `VerifyPassword` and `CreateSession` those of login; `RevokeAll` a password reset;
`SetStatus` the administrator's switch. `Fail`, `ViewFails` and `Lose` are a failed
statement, a failed account view after the rotation, and an answer that never arrives;
`Deliver` puts the answer's cookie into the browser in any order. A request reads the clock
once (`Receive`), as the code does, and uses it in all its statements. `disturbed` remembers
the sessions with a failed statement or a token that never reached the browser: for those the
code promises nothing, and two properties leave them out.

### Access control: `AccessControl`

Requests are data: an operation, who asks, and what about. A slot walks through
`Authenticate`, `Load` (the resource), `Authorize`, for the revocation of an administrator
`Count`, and one of `Grant`, `Revoke`, `SetStatus`, `Edit`: separate statements, no
transaction, exactly as `service.ts` and `admin-users.ts` run them. `Remember` keeps, for
every request, the assignments and active accounts there have been since it arrived.

### Registration: `Registration`

A request is a transaction that reads the clock and then walks through the statements of
`registration.live.ts`: `InsertAccount`/`Conflict`, `ReadAccount`/`NotPending`,
`CheckCooldown`/`TooSoon`, `LockAccount`, `Snapshot`, `RevokeAndInsert`, `SendEmail`, or
`FindLatest`, `CountFailure`, `Consume`, `Activate`, and `Commit`. What it writes becomes
visible at `Commit`; a failure undoes it (`RollBack`), a mail that left stays (`mailed`).
`Snapshot` is apart from `RevokeAndInsert` because at READ COMMITTED the update revokes the
rows its own statement saw. `wrong` and `overlapped` are history variables.

A login with Google (`FindSubject`, `FindEmail`, `LinkGoogle`, `IssueSession`) is not a
transaction: it finds the account by identity, else by email, links it with an update that
demands that no identity is there, and creates the session, each statement committed by itself.
`pending` and `signedIn` are what it leaves: a pending registration for `completeGoogle`, or a
session. Signed tokens stand as what they say; one that is refused is a failure of the request.

### Password reset: `PasswordRecovery`

The statements of `authentication.live.ts` over one account (`AskAccount`, `Issue`, `Mail`;
`ResetAccount`, `Find`, `RecordFailure`, `UpdatePassword`, `Consume`, `RevokeSessions`;
`VerifyPassword`, `CreateSession`), each of which may fail (`RequestFails`), under the screens of
`recovery.ts` and `actions.ts`: `Transition` is their state machine, `OpenRecovery`,
`SubmitEmail`, `SubmitCode`, `SubmitPassword`, `Deliver`, `Resend` and `BackToLogin` their
controls, `GoBack` and `Reload` what a visitor may do beside them. `Drop` is the registry, which
gives the initial state back when no page uses the atom of the state: only the pages of the
address and of the code do. `strayed` and `dropped` say which browsers have met either. `Reset` is
a client of the API without screens. `written`, `contested`, `outcome`, `wrong` and `crowded` are
history.

### Registration wizard: `RegistrationWizard`

`TransitionRegistration` is the machine of `wizard.ts` as a function of state and event;
`Dispatch` is an event with what follows in the same turn, the save or removal of the draft and
the navigation to the step. The controls of the pages (`SelectProblem` … `BeginGoogle`) dispatch
or send a request; `Serve` answers it, `DeliverStart`, `DeliverAnswer` and `DeliverCallback`
bring the answer to the tab, `Lose` loses it. `Reload`, `ReturnFromGoogle`, `Move` (an address
set by hand) and `Expire` (the draft's 15 minutes) are the browser. Tabs share the stored draft
and the session. `strayed` marks a tab whose address was set by hand, or names a step of its own
draft when another tab's was loaded under it; `resumed` one whose page of the code was loaded
again, which shows the stored draft under `verify`.

### Object storage: `ObjectStore`, `ObjectStorage`

`ObjectStore` is the promise: a key is free or holds one whole upload, and goes from one to the
other only. `ObjectStorage` is the file system, a call at a time: `AlreadyExists`, `MakeParent`,
`MakeTemporary`, `OpenBody`, `StreamChunk`, `EndBody`, `WriteMetadata`, `Rename`, `Fail` and
`Release` for an upload; `GiveUp` when it ends before it has a directory, `LoseTemporary` when it
is interrupted between the directory and its release, `RefuseRemoval` when a removal is refused;
`Find` and `RemoveEntry` for a removal, which takes a directory apart entry by entry; `Download`
and `Downloaded` for a read; `Crash` at any moment. `CreateOnly` is the refinement, with an object
taken to be there once both its files are. Nothing but a request under way holds a lock.

### Product analytics: `ProductAnalytics`

Two kinds of fibers over one queue: requests (`Invalid`, `Admit`, `Check`, `Offer`) and the
two that flush, the worker and the finalizer that closes the service (`Take`, `NextChunk`,
`Written`, `Resume`, `Settle`; `BeginClose`, `StopAccepting`, `StopWorker`, `ShutDown`,
`TimeOut`). Effect fibers can be interrupted or descheduled at every effect, so an action is
what runs between two. `Written` takes any answer: for every row of the chunk, stored,
refused or to be retried; `Hang` is the repository that never answers again.

### Feature flags: `FeatureFlags`

Publishers run the transaction of `publish`: `Lock` (the table lock), `Deactivate`,
`Insert`, `Commit` or `Abort`; what they write is visible from `Commit` on. The server
answers with `Active`. Between it and the tabs is the browser's HTTP cache, which obeys
`max-age=300, stale-while-revalidate=300`: fresh answers are used, stale ones are used while
`Revalidate`/`Revalidated` fetch another in the background. A tab opens the page, refreshes
when its interval is over (`Refresh` interrupts a request under way), gets answers or
failures, leaves and comes back, and `Expose` is the exposure stream reading the assignment.
`Expose` comes in a step of its own: the stream runs after the atom has changed.

## 4. Runs and bounds

| Run | Instance | Distinct states | What it shows |
| --- | --- | --- | --- |
| `edges` | 2 clients, 4 of 7 requests, 6 nodes and a missing one, 3 edges at the start | 41,348 | locks make operations atomic (`AtomicOperations`, `ReadsStillCurrent`), the catalog stays consistent, changed groups become dense, circles of waiting need a misplaced move |
| `sessions` | 1 browser with 2 slots, 3 requests, ttl 5, renewal window 2, grace 3, round trip 1, time 6 | 1,132,760 | one rotation, final revocations, no early 401, the cookie ends up current |
| `roles` | 3 accounts (2 administrators, 1 editor), 11 requests, 2 at a time, any number in a row | 849,878 | authorized since it arrived; the last administrator lost only by overlap |
| `registration` | 1 email, 2 Google identities, 2 clients, 3 requests, 3 codes, ttl 2, cooldown 1, 2 attempts, time 2 | 112,007 | one open code, mailed, newest; activation only by it; one identity per account |
| `verification_attempts` | the same with 1 identity, 1 attempt, ttl 3, cooldown 2, time 1 | violation | wrong codes are never counted |
| `recovery` | 2 browsers, 2 codes, 2 new passwords, 2 sessions, 1 attempt, 3 requests, 1 page left or reloaded | 2,819,777 | old sessions end, a code resets once, guesses are limited, pages follow the state |
| `wizard` | 2 tabs, paths of length 1, 2 addresses, 3 requests, 1 reload, expiry or address set by hand | 1,030,280 | steps in order, none empty but where [section 6](#6-divergences-found) says, registrations reach their code, no draft stays behind |
| `screen` | 2 administrators, 5 nodes at most, 2 mutations, 2 moves or faults | 595,742 | a screen at rest shows what is stored |
| `screen_order` | 1 administrator | violation | a dialog saved unchanged reorders a country's relations |
| `objects` | 2 keys, one below the other, 2 uploads, 2 requests at a time, 4 in all, 1 crash, lengths 1–2, limit 1 | 1,941,843 | whole objects, once, until removed; temporaries swept once their release is in place; `CreateOnly` |
| `analytics` | batches {1} and {2, 3}, queue for 1, chunks of 2, 1 retry | 166,884 | nothing lost, nothing repeated, budget and deadline |
| `flags` | 2 publishers, 2 revisions, 1 tab, all periods 1 tick | 194,894 | the last revision whole, no way back, right milestones, polling gets through |

The type invariants of all components but `recovery` (whose run has it) and `screen` (which has
none) are proved and not run, as is `CatalogConsistent`.

Why the bounds are enough.

- *edges.* Two clients are the least for an interleaving and for a circle of waiting; a third
  can only wait in line for the same locks. Each request is a different way two operations
  meet: the same triple made by a creation and by a move, a move out of a group that another
  renumbers, a move that finds its edge moved (a retry), a removal of what is being moved,
  a misplaced move whose source lock crosses a foreign-key lock, a position beyond the end.
  Four requests let an operation meet the results of two others. Node ids are numbered so
  that a type sorts before its country: only then can the two kinds of locks cross.
- *sessions.* Three requests in two slots: one that rotates, one that races with it and one
  that comes with the old token. Over six ticks with a renewed life of five a session can be
  rotated twice, and a token can outlive its grace. Grace 3 is more than two round trips of
  1; with 2 the run fails `RefusedOnlyWhenOver`, which is why the proportion is an assumption,
  `GraceAssumption` (10 seconds against the duration of a request, and a life of 30 days
  against a renewal window of 7: `layers/auth.ts:28`).
- *roles.* Two administrators who can revoke, disable and be granted again, and somebody with
  a narrower role. Requests are not counted: the state space is finite. Slots are
  interchangeable, which is the symmetry used.
- *registration.* Two requests at once is what the cooldown, the locks and the deadlock are
  about; three requests are a registration and two more, so that a code can be replaced while
  it is used, or a second identity finds the account the first one is linked to. Accounts of
  different emails meet only in the identities they are linked to; the theorem `Apart` covers
  that for any number of emails. Ttl, cooldown and time are chosen so that codes expire and
  cooldowns pass.
- *recovery.* Two resets, or a reset and a login, are what can race; a third request is the
  login that shows what came of it. One attempt has a first wrong code and none left. Two
  sessions are an old one and one made while a reset is under way.
- *wizard.* A third tab could only do to the storage what the second does. Three requests are
  Google's start, its callback and a confirmation, or a registration, its code and one more.
  A path of length 1 has a beginning and an end; longer ones only repeat `SelectNode`. The two
  addresses are the last steps of the two providers, each of which the other's drafts have not.
- *screen.* Two mutations are the least for one to be made of what the other left behind, or to
  have its refresh overtaken; the second administrator is the other source of change. Two moves
  leave a node and come back while queries are under way.
- *objects.* Two requests of one key race; the key below it shares directories with it. Four
  requests are an upload, its removal, another upload, and a download across them. A body of two
  chunks over a limit of one is the upload that is too long. The slots of requests are
  interchangeable, which is the symmetry used.
- *analytics.* A batch of two events and one of one over a queue with a single place: the
  second can be refused; a chunk can be partly stored, refused and postponed; the closing can
  come before, between and after. One retry has a first, a last and no attempt left.
- *flags.* Two publishers may choose the same revision or different ones, in either order.
  Other tabs reach a tab only through the shared cache, and the background request does to
  the cache all that they do (the server is read, and the answer is stored later), so one tab
  is enough for TLC; the theorems cover any number. One tick per period makes fresh, stale
  and expired entries, and refreshes before and after each.

Deadlock is checked wherever a bounded behaviour can be told from a stuck one (`Quiet` is the
state with nothing left to do in `StudyEdges` and `Registration`). It is not checked in
`sessions`, where the clock stops at `MaxTime`, nor in `analytics`, where the service ends
closed, nor in `recovery`, `wizard`, `objects` and `screen`, whose behaviours stop when their
requests are used up.

## 5. Fairness

- *Effect's scheduler and clock* (`ProductAnalytics`): fibers that can run do, and the
  deadline is reached (`WF`). Nothing says that the repository answers or that the service is
  ever closed.
- *The browser* (`FeatureFlags`): time goes on and a due refresh runs (`WF`); the server
  reads and answers requests that are sent again and again (`SF`), that is, the network does
  not fail for ever. Nothing says that somebody publishes or that a tab stays open.
- The other specifications state safety only and assume nothing. That every request over the
  database is answered is not claimed: `updateEdge` and `removeEdge` start again without a limit
  while the edge keeps moving (`repository.drizzle.ts:548`), and the end of a circle of waiting is
  PostgreSQL's promise, not this code's.

## 6. Divergences found

Two are runs in which TLC finds the violation; `PROJECT.json` quotes the sentences they refute.

| Finding | Where | What |
| --- | --- | --- |
| A dialog saved unchanged reorders relations (`screen_order`) | `study-catalog/repository.drizzle.ts:519` | The second pass of a move compares with positions read before the first pass wrote. Saving the dialog of a relation, which says that it does not change the order, leaves two rows at one position, and ties are shown by id. The trace opens it from the children's tab; it is the same component in both. |
| Wrong codes are not counted (`verification_attempts`) | `registration.live.ts:112` | The count is written in the transaction that the answer to the wrong code rolls back, so the documented five attempts do not limit anything. |

Others were met while modelling. The passing runs state what does hold around them:

- *Density.* The same two passes leave gaps and duplicates after a move down inside a group of
  three; the repository's test (`repository.drizzle.test.ts:449`) only moves an edge up.
  `ChangedGroupsAreDense` is about groups that gain or lose an edge.
- *The last administrator.* Count and delete are two statements (`service.ts:101`): two
  administrators who revoke each other both count two, although
  `docs/architecture/access-control.md:39` says that the last one cannot be revoked. He can
  also be disabled, which nothing forbids. `LostOnlyByOverlap` says that nothing else loses
  him.
- *Two codes inside the cooldown.* `registration.live.ts:51–55` checks the cooldown before the
  account's row is locked; `docs/architecture/identity-and-authentication.md:31` has a cooldown
  of 60 seconds. `SpacedUnlessOverlapped` and `NewestCodeIsOpen` say what is left.
- *The recovery has no address.* `login.tsx:52` opens the recovery with the email `""` and the
  address typed is never put there (`LoginEmail`), so no reset of the screens can be accepted;
  `flow.e2e.test.ts:23` dispatches an address itself.
- *Success without a request.* The page of the new password does not use `recoveryStateAtom`
  (`recovery-atoms.ts:6`), which is not kept alive: 400 ms after the page of the code is left the
  state is the initial one, `submitNewPasswordAction` ends well without a request (`actions.ts:38`)
  and the page says that the password was updated (`new-password.tsx:30`). A reload or Back ends
  the same way. So no property says that success is true. `PagesFollowState` says that page and
  state agree while the state is there (`dropped`) and no button of the browser, nor a command of a
  page that was left, came between (`strayed`).
- *The limits of a reset.* Identity documentation lines 29 and 31 say that a reset revokes all
  sessions, that codes are used once and five attempts are the maximum. A login that verified
  the old password before the reset wrote the new one creates its session after the revocation;
  two resets that overlap both use a code; guesses that overlap are compared with a count that
  is read before it is written. `late`, `contested` and `crowded` mark the overlaps, and
  nothing else is exempt. A reset whose code cannot be consumed has changed the password and
  answers 500.
- *The wizard.* `wizard.ts:94` says that a step of the address is guarded; the requested step
  of a restored draft is shown as it is. A reload of the page of the code restores the tab's own
  stored draft under `verify`, where a draft has no page: it is blank (`onboarding-flow.tsx:44`,
  63–65). A restored Google draft has lost its pending
  registration and confirms into nothing; an email draft at the address of another provider's
  step is a blank page without Back. Google's answer is ignored where a draft was restored. After
  a reload of the page of the code, registering again conflicts (`missed`). A
  problem written as text keeps its text when a listed one is chosen afterwards, and the server
  refuses it. A failed start of Google leaves its spinner. `StepsInOrder` and `NoEmptyStep`
  exempt tabs in which the address was set by hand or names a step of another tab's draft
  (`strayed`), and the page of the code that was loaded again (`UnderCode`); `NoEmptyStep` also
  the Google draft that lost its registration; `NothingLeftBehind` sign-ins the wizard could not
  end with (`loose`).
- *Two refreshes the catalog screen forgets.* A rename refreshes only the list of the current
  filter (`mutations.ts:56`); a change of status sent before the detail was refreshed uses the
  status it had before (`mutations.ts:74`). `Unforeseen` exempts both from `ShownIsCurrent`. A
  click on a reorder button between the answer of a move and the refreshed list still sends the
  edge's former parent, and moves it back.
- *Object storage.* Its routes are "isolated; not provided to the active server"
  (`object-storage.local.http.ts:73`). A removal is not atomic, and keys below one another share
  directories: a rename onto a directory that is not empty answers 500 and not 409, a download
  overlapped by a removal and an upload mixes two objects under an immutable cache header, an
  upload answered 201 can be lost to an overlapping removal, and a temporary directory stays for
  ever after a crash, after a removal the file system refuses (its error is ignored,
  `object-storage.local.ts:171`), and, with no crash, after an interruption while it is made or
  before `acquireUseRelease` has it (148–152). `exposed`, `disturbed` and `orphaned` exempt
  exactly these.

Not divergences, but worth knowing: a lost answer after a rotation signs the browser out when
the grace ends; a database error during authorization answers 401 and expires the cookie. No
document says otherwise; they are among the hazards.

## 7. Proofs

Every theorem holds for all values of the constants that satisfy the assumptions named in its
module (`CatalogAssumption`, `EdgesAssumption`, `PolicyAssumption`, `GraceAssumption`,
`AccessAssumption`, `RecoveryAssumption`, `AnalyticsAssumption`, `FlagsAssumption`,
`RegistrationAssumption`, `CooldownAssumption`, `WizardAssumption`, `ObjectStorageAssumption`,
`ScreenAssumption`), and TLC evaluates those assumptions in the runs. Four of them say more
than types: the nodes of a catalog are finitely many (the rows of a table), the edges a
screen's catalog starts with fit their kinds and join nodes that exist (`createEdge` and
`updateEdge` check it, and foreign keys keep it), the grace and the life of a session exceed
two round trips (`GraceAssumption`), and a code does not expire before the cooldown is over
(`CooldownAssumption`: 60 seconds of 15 minutes, `layers/auth.ts:29`). The shape is always the
same: an inductive invariant (`IInv`, `RecoveryInv`, `ScreenInv`), checked with TLC first, with
`Init => IInv` and `IInv /\ [Next]_vars => IInv'` proved action by action, and theorems that
follow from it.

**`CatalogTheorems`** — about `StudyEdges`: `TypeCorrect`, `ReadsCurrent`, `Consistency`,
`Refinement`, `GroupsDense`, `DeadlocksMisplaced`; about `CatalogScreen`: `ScreensRemember`,
`ScreensShowCatalog`. The first properties are not inductive: that a check still holds when the
rows are written depends on the locks. `IInv` adds, for each client: the locks it should have
are its own (`LocksHeld`), the edge is where the attempt saw it (`TargetKept`), a new id is
nobody else's (`FreshId`), checks passed under the locks still pass (`ChecksHold`), siblings
read are the committed ones (`SiblingsHold`). The heart is that a write changes only rows whose
source its client has locked, so it leaves alone everything another client relies on.
`Refinement` maps `Write` to a step of `AtomicCatalog` and everything else to a stutter. The
module begins with lemmas about the operators of `EdgeOrder`: what an index is bounded by, and
that insertions, moves and removals keep the shape of a table and every row outside the group.
`GroupsDense` adds that the index of a row is one to one from a group onto 0, 1, 2…, so that
the closing of a gap and the opening of one leave no hole whatever the positions were before.
`DeadlocksMisplaced` needs which statement each client can be waiting at and for what
(`WaitInv`): the sources are locked in the order of their ids, edges after sources, and the key
locks of an insert reach one level down the catalog. Without a misplaced move every wait goes
to a later phase, a lower level or a higher id, and a finite circle of such waits is
impossible.

That a screen at rest shows the catalog (`ScreensShowCatalog`) says nothing of a screen that is
not at rest, so its invariant (`ScreenInv`) does: each atom is `Remembered`, that is, it is
`Fresh` (what it shows, or what has been answered so far, is what the server would answer now),
or it is in `foreign`, or the answer of an executed mutation is on its way and has it asked
again. A mutation of another screen, or of a component that is gone, puts what it changes into
`foreign`. For the others the proof shows, operation by operation, that an atom of the screen
whose answers change is among those `mutations.ts` refreshes or cannot be foreseen
(`OwnForeseen`). It needs that a component that is there has sent its mutation about what the
screen still shows (`CallFits`), because only the relations of one node are in use at a time, and
that every edge fits its kind, because renaming a node would otherwise change its own list of
relations. When the value of an atom has not changed, none of the answers it is made of has
(`CurrentDetermines`): so half-answered lists of relations are covered too.

**`SessionsTheorems`** — `TypeCorrect`, `OneSuccessor`, `RevocationIsFinal`, `HeldHolds`,
`BrowserHoldsCurrent`, `RefusedWhenOver`. A token has one
successor because the row of a session always holds the token that has none (`Latest`), and
the compare-and-set demands that token. What is about time needs an invariant about clocks
(`HeldInv`): a request reads its clock after it was sent and ends within a round trip, a token is
replaced at a moment some answer under way remembers, and whoever still presents the former
token does so before the grace is over. `RefusedWhenOver` follows statement by statement: at
each of them the only way to a refusal is a session that is over.

**`AccountTheorems`** — about `AccessControl`: `TypeCorrect`, `AdministratorKept`, `AloneKept`,
`Authorization`; about `PasswordRecovery`: `RecoveryTypesHold`, `OldSessionsAreEnded`,
`CodesAreUsedOnce`, `GuessesAreLimited`, `PagesAgree`. Without an overlap a revocation that has
counted still has two administrators before it (`SomeLeft`); what a request was allowed when it
read its roles is in its history ever after (`CallInv`). In the recovery (`RecoveryInv`) a code
with which a password was written is held by the reset that wrote, about to consume it, or is
spent (`UsesCounted`); the row of a challenge counts its wrong codes up to the maximum, and a
request that is about to count had room (`GuessesCounted`); the current password is one whose
reset was accepted only after it had revoked every session but those of that password and those
inserted late (`PasswordsEnd`); and in a browser that did not stray and has its state, the page is
the state's, and a command waits on the page that sent it (`ScreenSound`).

**`ProductAnalyticsTheorems`** — `TypeCorrect`, `Kept`, `WithinBudget`, `SentOnce`. The
invariant says which fiber may hold what: the two fibers never flush at the same time
(`Turns`, `Handover`), nothing joins the queue once the closing drains it (`Admission`), a
fiber's batch has been sent as often as it counts (`Counted`), and what the closing takes
over is what the worker had in flight (`TakenOver`, `Waiting`).

**`FeatureFlagsTheorems`** — `TypeCorrect`, `OneActive`, `Conflicts`, `Monotone`,
`MilestonesAreRight`. On the server, the lock makes a publication turn off exactly what is
active (`PublisherInv`), so the order of publication never repeats a revision (`Order`). In
the browser, nothing a tab has met is newer than what the cache holds or than an answer on
its way to it (`Consistent`): a request interrupted by the next one is why. The exposure
recorded last is the newest of those recorded, which is why skipping a revision that was
exposed before is harmless.

**`RegistrationTheorems`** — `TypeCorrect`, `OneCode`, `Mailed`, `Apart`, `Activation`,
`CodesApart`, `NewestOpen`. What a
transaction will write at its commit is in nobody's sight until then, so `IInv` says for each
client what protects it: the row of the account is locked from the statement that takes it to
the commit (`AccountInv`), a new code is nobody else's (`NewCodeInv`), the codes a resend will
revoke are all that are open, since only the holder of the account adds to them (`RevokeInv`), a
code that is being used stays open for whoever locked it (`ConsumeInv`), and an identity that is
being inserted has no account yet (`IdentityInv`). `Frame` names what a step leaves to the other
clients; one lemma per action proves that and its own client's part. The last two theorems add
`SpacingInv`: a request that passed the cooldown read a clock past it, and the codes of an
account come in the order of their moments, unless `overlapped` says that two were issuing.

**`ObjectStorageTheorems`** — `TypeCorrect`, `Implements`, `Stored`, `OneObject`, `Swept`.
A temporary directory is the request's own until it is renamed, and a rename finds nothing in
its way but an empty directory: so an object appears whole, and only a removal takes it apart.
`Swept` is about directories whose release is in place: a crash, an interruption before that and a
refused removal put a directory into `orphaned`. The removal's mark on
the uploads of its key comes before its first call that removes a file. `Implements` is the
refinement of `ObjectStore`.

**`RegistrationWizardTheorems`** — `TypeCorrect`, `StepsShown`, `NoEmpty`, `RegistrationArrives`,
`NothingLeft`. A tab is sound (`Sound`) when its step has what it needs (`Held`), the page is the
step's unless strayed or the code's page loaded again (`Shown`), and the request under way was
sent by the state it is in (`Waits`). With it, one registration at most is under way or accepted
(`OneRegistration`).

Only model-checked: liveness (`ClosingEnds`, `AcceptedIsSettled`,
`Distributed`), which the prover cannot reach. Every invariant and every action property that a
run checks is stated by a theorem.

## 8. Abstractions and assumptions

- UUIDs, tokens and codes are values that are never minted twice; which one comes next does
  not matter, so `CHOOSE` takes one where no order is involved. Where ids are compared
  (locks in the order of node ids, challenges of one moment) they are numbers.
- Hashing is a bijection (`HashOf`). Passwords are right or the login fails.
- PostgreSQL at READ COMMITTED: a statement sees what is committed, an update waits for the
  row's lock and sees its newest version, a transaction that fails leaves nothing. A run of
  statements of one transaction is one action only where nobody else can write the rows it
  touches.
- A request of a browser lasts at most `RoundTrip`, and two of them are shorter than the
  grace. A browser drops its cookie at the cookie's own expiry.
- In `AccessControl` accounts have verified emails; the catalog is the set of resources there
  are, and an edit is counted, not performed.
- In `Registration` one unique key, the email, stands for the three of the table; the two
  kinds of registration differ in whether a code is issued.
- In `ProductAnalytics` batches and chunks are sets (the order of rows does not matter to
  what is promised), validation is a nondeterministic refusal, and a request is not
  interrupted while it offers. A repository that dies with a defect is left out.
- In `FeatureFlags` the contents of a revision are left out, since a trigger of the schema
  refuses to change them; 0 is the empty snapshot served before the first publication. The
  cache never replaces an answer by one the server gave earlier, and due refreshes run before
  time goes on. Consent and the transport of exposure events are not in it.
- In a login with Google, the provider and the signed tokens are a pair of identity and email
  that the client has; a refusal is a failure at any moment. The semaphore of `createLock` is
  left out: it lives in one process and only delays inserts that the unique keys decide.
- In `PasswordRecovery` one account stands for all, since a request names one email; a code is
  the challenge it was made for; time is a code expiring at any moment.
- In `RegistrationWizard` a draft is what the steps tell apart. One listed problem stands for
  all, and the availability of a username, the summary and the analytics of steps are left out.
- In `CatalogScreen` a query is evaluated and answered in one step, an atom nobody uses is
  dropped at once (the idle time of 400 ms would only keep it longer), the mutation of a
  component that is gone may be heard or not, a dialog offers every node of the kind (the lists that
  dialogs hold, `study-catalog-screen.tsx:171` and `273`, are not among the atoms in use), and text
  fields, the search and the tag filter, which are local to their components, are left out.
- In `ObjectStorage` a file is the upload that wrote it and a length is a number of chunks;
  tokens and their expiry only decide whether a request comes in. A call that is interrupted has
  happened or not by the time its release begins.
- `MaxRequests`, `MaxTime`, `ChallengeIds`, `SessionIds` and `Tokens` bound behaviours in
  TLC; in the proofs they are any value.

## 9. What is not modelled

- *Reads that change nothing*: the published catalog, the list of users, the images of nodes.
- *Flag evaluation*: a hash of two strings and a walk over weights.
- *Adapters without state*: hashing, codes, the translation of BigQuery's errors, handlers
  that decode, call and encode.
- *Start-up and tooling*: composition, migrations, seeds, previews, lint rules.
- *Rendering*: the other screens, the design system, the Astro site, Storybook.
- *Planned, not there yet*: the browser's session atoms and retryable commands.

The modules translate about half of the lines of the components they model and a sixth of the
repository's. The rest of the repository is for the greater part of the kinds above:
components that draw, schemas, generated routes, lint rules, seeds and build scripts, in which
nothing is shared, nothing waits and nothing is remembered, so a model would have nothing to say
that the code does not.

## 10. Plan

Done, in this order, the most important first: `EdgeOrder`, `AtomicCatalog`, `StudyEdges`;
`Sessions`; `AccessControl`; `Registration` with Google's login; `ProductAnalytics`;
`FeatureFlags`; `ObjectStore`, `ObjectStorage`; `PasswordRecovery`; `RegistrationWizard`;
`CatalogScreen`; theorems for all of them.

Left:

The browser's session atoms (`auth/atoms.ts`, `navigation/commands.ts`, `layouts.tsx`):
restore, login, verification and logout write one atom as their answers arrive. Composed with
`Sessions`, the property is that the atom at rest agrees with the cookie.
