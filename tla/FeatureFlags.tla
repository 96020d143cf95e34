------------------------------ MODULE FeatureFlags ------------------------------
(***************************************************************************)
(* Publication and distribution of feature flags.  Publishers store a      *)
(* revision and make it the active one in a transaction                    *)
(* (backend-infra/src/modules/feature-flags/repository.drizzle.ts), the    *)
(* public server answers with the active revision and lets browsers keep   *)
(* it for a while (backend-transport/src/modules/feature-flags/http.ts),   *)
(* and the tabs of a browser ask again and again, show the landing page of *)
(* the revision they have and note which one the visitor has been exposed  *)
(* to (frontend-core/src/feature-flags).                                   *)
(*                                                                         *)
(* A stored revision never changes (a trigger of the schema refuses it),   *)
(* so the model keeps revisions and leaves their contents out.  The HTTP   *)
(* cache of the browser is external: it obeys the Cache-Control header.    *)
(***************************************************************************)
EXTENDS Integers, Sequences

CONSTANTS Publishers,   \* runs of the publishing command
          Tabs,         \* of one browser
          Revisions,    \* that may be published
          None,         \* no publisher, no revision
          MaxAge,       \* max-age of an answer, in ticks
          Window,       \* stale-while-revalidate
          Interval      \* defaultFeatureFlagSnapshotRefreshInterval

ASSUME FlagsAssumption ==
    /\ Revisions \subseteq Nat \ {0}
    /\ None \notin Publishers
    /\ None \notin Nat
    /\ MaxAge \in Nat /\ MaxAge > 0
    /\ Interval \in Nat /\ Interval > 0
    /\ Window \in Nat

VARIABLES rows,      \* revisions stored
          active,    \* those stored as active
          history,   \* history: revisions that were active, in order
          lock,      \* publisher holding the SHARE ROW EXCLUSIVE lock
          pub,       \* the publishers
          cache,     \* the browser's entry for the snapshot
          tab        \* the tabs

vars == <<rows, active, history, lock, pub, cache, tab>>

Phases == {"idle", "waiting", "locked", "deactivated", "inserted",
           "published", "conflict", "aborted"}
\* Revision 0 stands for the empty snapshot served while nothing is published.
Known == Revisions \cup {0}

Publisher == [phase: Phases, revision: Revisions \cup {None}, off: SUBSET Revisions]

\* A request nobody has answered yet, or whose answer is under way.
Requests == [at: {"none", "sent"}, answer: {None}] \cup [at: {"read"}, answer: Known]
NoRequest == [at |-> "none", answer |-> None]
Sent == [at |-> "sent", answer |-> None]

Cache == [revision: Known \cup {None}, age: 0 .. MaxAge + Window, revalidation: Requests]

Tab == [page: {"away", "landing", "steps"},
        status: {"initial", "success", "failure"},   \* of the snapshot atom
        shown: Known \cup {None},                    \* its last success
        request: Requests,
        slept: 0 .. Interval,                        \* since the last refresh
        news: BOOLEAN,                               \* the exposure stream has something to read
        exposed: SUBSET Known,                       \* exposedAssignmentsAtom
        last: Known \cup {None}]                     \* lastExposedAssignmentAtom

Init ==
    /\ rows = {}
    /\ active = {}
    /\ history = <<0>>
    /\ lock = None
    /\ pub = [p \in Publishers |-> [phase |-> "idle", revision |-> None, off |-> {}]]
    /\ cache = [revision |-> None, age |-> 0, revalidation |-> NoRequest]
    /\ tab = [t \in Tabs |->
                [page |-> "away", status |-> "initial", shown |-> None,
                 request |-> NoRequest, slept |-> 0, news |-> FALSE,
                 exposed |-> {}, last |-> None]]

-----------------------------------------------------------------------------
(* Publication *)

server == <<rows, active, history>>
browser == <<cache, tab>>

Publish(p, r) ==
    /\ pub[p].phase = "idle"
    /\ pub' = [pub EXCEPT ![p].phase = "waiting", ![p].revision = r]
    /\ UNCHANGED <<server, lock, browser>>

Lock(p) ==
    /\ pub[p].phase = "waiting"
    /\ lock = None
    /\ lock' = p
    /\ pub' = [pub EXCEPT ![p].phase = "locked"]
    /\ UNCHANGED <<server, browser>>

\* Seeded defect: no transaction around the statements.
DeactivateAtOnce(p) ==
    /\ pub[p].phase = "locked"
    /\ pub' = [pub EXCEPT ![p].phase = "deactivated", ![p].off = active]
    /\ active' = {}
    /\ UNCHANGED <<rows, history, lock, browser>>

\* The update sees what is committed; nobody sees it before the commit.
Deactivate(p) ==
    /\ pub[p].phase = "locked"
    /\ pub' = [pub EXCEPT ![p].phase = "deactivated", ![p].off = active]
    /\ UNCHANGED <<server, lock, browser>>

Released(p) == IF lock = p THEN None ELSE lock

\* The primary key refuses a revision stored before, the unique index a second active row.
Insert(p) ==
    /\ pub[p].phase = "deactivated"
    /\ IF pub[p].revision \in rows \/ active \ pub[p].off # {}
       THEN /\ pub' = [pub EXCEPT ![p].phase = "conflict", ![p].off = {}]
            /\ lock' = Released(p)
       ELSE /\ pub' = [pub EXCEPT ![p].phase = "inserted"]
            /\ UNCHANGED lock
    /\ UNCHANGED <<server, browser>>

Commit(p) ==
    /\ pub[p].phase = "inserted"
    /\ rows' = rows \cup {pub[p].revision}
    /\ active' = (active \ pub[p].off) \cup {pub[p].revision}
    /\ history' = Append(history, pub[p].revision)
    /\ pub' = [pub EXCEPT ![p].phase = "published", ![p].off = {}]
    /\ lock' = Released(p)
    /\ UNCHANGED browser

\* The connection is lost, or a statement fails: the transaction is rolled back.
Abort(p) ==
    /\ pub[p].phase \in {"waiting", "locked", "deactivated", "inserted"}
    /\ pub' = [pub EXCEPT ![p].phase = "aborted", ![p].off = {}]
    /\ lock' = Released(p)
    /\ UNCHANGED <<server, browser>>

\* readActive: the active row of the highest revision, in one statement; the service
\* answers with the empty snapshot when there is none.
Active == IF active = {} THEN 0 ELSE CHOOSE r \in active : \A s \in active : s <= r

-----------------------------------------------------------------------------
(* The browser's cache *)

\* Place of a revision in the order of publication.
PlaceIn(order, r) == CHOOSE i \in 1 .. Len(order) : order[i] = r
Place(r) == PlaceIn(history, r)

Fresh == cache.revision # None /\ cache.age < MaxAge
Usable == cache.revision # None /\ cache.age < MaxAge + Window

\* The cache keeps the answer the server gave last.  An answer `not modified' is one
\* that repeats the revision the cache has.
Kept(r) ==
    IF cache.revision # None /\ Place(r) < Place(cache.revision)
    THEN cache
    ELSE [cache EXCEPT !.revision = r, !.age = 0]

Revalidate ==
    /\ cache.revalidation.at = "sent"
    /\ cache' = [cache EXCEPT !.revalidation = [at |-> "read", answer |-> Active]]
    /\ UNCHANGED <<server, lock, pub, tab>>

Revalidated ==
    /\ cache.revalidation.at = "read"
    /\ cache' = [Kept(cache.revalidation.answer) EXCEPT !.revalidation = NoRequest]
    /\ UNCHANGED <<server, lock, pub, tab>>

RevalidationFails ==
    /\ cache.revalidation.at # "none"
    /\ cache' = [cache EXCEPT !.revalidation = NoRequest]
    /\ UNCHANGED <<server, lock, pub, tab>>

-----------------------------------------------------------------------------
(* The tabs *)

Delivered(state, r) ==
    [state EXCEPT !.status = "success", !.shown = r, !.request = NoRequest,
                  !.news = state.page = "landing"]

\* Seeded defect: a request before it goes on.
AskAgain(t, state) ==
    \/ /\ Usable
       /\ tab' = [tab EXCEPT ![t] = [Delivered(state, cache.revision) EXCEPT !.request = state.request]]
       /\ cache' = IF Fresh \/ cache.revalidation.at # "none"
                   THEN cache
                   ELSE [cache EXCEPT !.revalidation = Sent]
    \/ /\ ~Fresh
       /\ tab' = [tab EXCEPT ![t] = [state EXCEPT !.request = Sent]]
       /\ UNCHANGED cache

\* getActiveSnapshot of a tab in this state; a request before it is interrupted.
Ask(t, state) ==
    \/ /\ Usable
       /\ tab' = [tab EXCEPT ![t] = Delivered(state, cache.revision)]
       /\ cache' = IF Fresh \/ cache.revalidation.at # "none"
                   THEN cache
                   ELSE [cache EXCEPT !.revalidation = Sent]
    \/ /\ ~Fresh
       /\ tab' = [tab EXCEPT ![t] = [state EXCEPT !.request = Sent]]
       /\ UNCHANGED cache

\* The page mounts the lifecycle, with the landing or with a restored draft.
Open(t) ==
    /\ tab[t].page = "away"
    /\ \E page \in {"landing", "steps"} :
          Ask(t, [tab[t] EXCEPT !.page = page, !.slept = 0])
    /\ UNCHANGED <<server, lock, pub>>

\* Seeded defect: a failure ends the polling.
RefreshSuccess(t) ==
    /\ tab[t].page # "away"
    /\ tab[t].slept = Interval
    /\ tab[t].status # "failure"
    /\ Ask(t, [tab[t] EXCEPT !.slept = 0])
    /\ UNCHANGED <<server, lock, pub>>

Refresh(t) ==
    /\ tab[t].page # "away"
    /\ tab[t].slept = Interval
    /\ Ask(t, [tab[t] EXCEPT !.slept = 0])
    /\ UNCHANGED <<server, lock, pub>>

Read(t) ==
    /\ tab[t].request.at = "sent"
    /\ tab' = [tab EXCEPT ![t].request = [at |-> "read", answer |-> Active]]
    /\ UNCHANGED <<server, lock, pub, cache>>

Answer(t) ==
    /\ tab[t].request.at = "read"
    /\ tab' = [tab EXCEPT ![t] = Delivered(tab[t], tab[t].request.answer)]
    /\ cache' = Kept(tab[t].request.answer)
    /\ UNCHANGED <<server, lock, pub>>

\* The atom becomes a Failure with its previous success.
RequestFails(t) ==
    /\ tab[t].request.at # "none"
    /\ tab' = [tab EXCEPT ![t].request = NoRequest, ![t].status = "failure", ![t].news = FALSE]
    /\ UNCHANGED <<server, lock, pub, cache>>

\* Seeded defect: the first exposure of a page stays the one milestones carry.
ExposeFirst(t) ==
    /\ tab[t].news
    /\ tab' = [tab EXCEPT ![t] =
                IF tab[t].exposed # {}
                THEN [tab[t] EXCEPT !.news = FALSE]
                ELSE [tab[t] EXCEPT !.news = FALSE, !.last = tab[t].shown,
                                    !.exposed = tab[t].exposed \cup {tab[t].shown}]]
    /\ UNCHANGED <<server, lock, pub, cache>>

\* exposureLifecycleAtom reads the assignment while the landing is on the screen.
Expose(t) ==
    /\ tab[t].news
    /\ tab' = [tab EXCEPT ![t] =
                IF tab[t].shown \in tab[t].exposed
                THEN [tab[t] EXCEPT !.news = FALSE]
                ELSE [tab[t] EXCEPT !.news = FALSE, !.last = tab[t].shown,
                                    !.exposed = tab[t].exposed \cup {tab[t].shown}]]
    /\ UNCHANGED <<server, lock, pub, cache>>

\* The visitor starts to register, or cancels.
Turn(t) ==
    /\ tab[t].page # "away"
    /\ tab' = [tab EXCEPT ![t].page = IF tab[t].page = "landing" THEN "steps" ELSE "landing",
                          ![t].news = tab[t].page = "steps" /\ tab[t].status = "success"]
    /\ UNCHANGED <<server, lock, pub, cache>>

\* Another page of the application: what is kept alive stays, the polling ends.
Leave(t) ==
    /\ tab[t].page # "away"
    /\ tab' = [tab EXCEPT ![t] =
                [tab[t] EXCEPT !.page = "away", !.status = "initial", !.shown = None,
                               !.request = NoRequest, !.slept = 0, !.news = FALSE]]
    /\ UNCHANGED <<server, lock, pub, cache>>

\* The document is loaded again.
Reload(t) ==
    /\ tab[t].page = "away"
    /\ tab[t].exposed # {}
    /\ tab' = [tab EXCEPT ![t].exposed = {}, ![t].last = None]
    /\ UNCHANGED <<server, lock, pub, cache>>

\* Tabs refresh when they are due, before time goes on.
Tick ==
    /\ \A t \in Tabs : tab[t].slept < Interval
    /\ tab' = [t \in Tabs |-> IF tab[t].page = "away" THEN tab[t]
                              ELSE [tab[t] EXCEPT !.slept = @ + 1]]
    /\ cache' = IF Usable THEN [cache EXCEPT !.age = @ + 1] ELSE cache
    /\ UNCHANGED <<server, lock, pub>>

Publication(p) ==
    \/ \E r \in Revisions : Publish(p, r)
    \/ Lock(p) \/ Deactivate(p) \/ Insert(p) \/ Commit(p) \/ Abort(p)

Browsing(t) ==
    \/ Open(t) \/ Refresh(t) \/ Read(t) \/ Answer(t) \/ RequestFails(t)
    \/ Expose(t) \/ Turn(t) \/ Leave(t) \/ Reload(t)

Next ==
    \/ \E p \in Publishers : Publication(p)
    \/ Revalidate \/ Revalidated \/ RevalidationFails
    \/ \E t \in Tabs : Browsing(t)
    \/ Tick

Spec == Init /\ [][Next]_vars

\* Time goes on, the server answers, and requests do not fail for ever.
FairSpec ==
    /\ Spec
    /\ WF_vars(Tick)
    /\ SF_vars(Revalidate) /\ SF_vars(Revalidated)
    /\ \A t \in Tabs : WF_vars(Refresh(t)) /\ SF_vars(Read(t)) /\ SF_vars(Answer(t))

-----------------------------------------------------------------------------
(* Properties *)

TypeOK ==
    /\ rows \subseteq Revisions
    /\ active \subseteq Revisions
    /\ history \in Seq(Known)
    /\ lock \in Publishers \cup {None}
    /\ pub \in [Publishers -> Publisher]
    /\ cache \in Cache
    /\ tab \in [Tabs -> Tab]

\* What a reader finds: the revision published last, whole, at every moment between the
\* statements of a publication and after one that failed (repository.drizzle.ts:61-62).
LastPublishedIsActive == active = {history[Len(history)]} \ {0}

\* A publication is refused only because its revision was stored before, never because
\* another one runs at the same time.
OnlyUsedRevisionsConflict ==
    [][\A p \in Publishers :
          pub'[p].phase = "conflict" /\ pub[p].phase # "conflict" => pub[p].revision \in rows]_vars

\* A tab never goes back to a revision older than the one it shows, whatever answers are
\* late and whatever the other tabs store in the cache.
NeverOlder ==
    [][\A t \in Tabs :
          tab[t].shown # None /\ tab'[t].shown # None => Place(tab[t].shown) <= Place(tab'[t].shown)]_vars

\* The milestones of a registration carry the assignment exposed last: once the exposure
\* stream has read everything, that is the one on the screen.
MilestonesNameWhatIsShown ==
    \A t \in Tabs :
        tab[t].page = "landing" /\ tab[t].status = "success" /\ ~tab[t].news
            => tab[t].last = tab[t].shown

\* A tab that stays open shows the active revision in the end, although publishers cannot
\* tell it anything.
Distributed ==
    \A t \in Tabs : <>[](tab[t].page # "away") => <>[](tab[t].shown = Active)
=============================================================================
