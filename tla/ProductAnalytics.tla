---------------------------- MODULE ProductAnalytics ----------------------------
(***************************************************************************)
(* The ingestion of product analytics:                                     *)
(* backend-domain/src/modules/product-analytics/service.live.ts over a     *)
(* repository that may fail in part, answer late or never answer.          *)
(*                                                                         *)
(* Requests offer batches to a bounded queue.  A worker fiber empties it   *)
(* now and then and writes what it took in chunks, with retries.  Closing  *)
(* the service stops the admission, interrupts the worker and writes what  *)
(* is left, within one deadline.  Fibers take turns at every effect, so    *)
(* each action is what happens between two of them.  The order of events   *)
(* is left out: batches, chunks and the queue are sets.                    *)
(***************************************************************************)
EXTENDS Integers, FiniteSets

CONSTANTS Batches,                 \* each sent by a request of its own
          Events, EventsOf,        \* the events of each batch
          Free,                    \* holder of a permit nobody holds
          QueueCapacity, BatchSize, MaxRetries   \* ProductAnalyticsOptions

ASSUME AnalyticsAssumption ==
    /\ Free \notin Batches
    /\ IsFiniteSet(Events)
    /\ IsFiniteSet(Batches)
    /\ EventsOf \in [Batches -> (SUBSET Events) \ {{}}]
    /\ \A b, c \in Batches : b # c => EventsOf[b] \cap EventsOf[c] = {}
    /\ {QueueCapacity, BatchSize} \subseteq Nat \ {0}
    /\ MaxRetries \in Nat

VARIABLES accepting,   \* the service admits batches
          permit,      \* holder of the lifecycle semaphore
          recording,   \* where each request is
          queue,       \* batches queued
          shut,        \* the queue is shut down
          inFlight,    \* events taken from the queue and not yet settled
          fiber,       \* the worker, and the finalizer that closes the service
          stored,      \* events the repository has confirmed
          dropped,     \* events given up: rejected for good or out of retries
          hung,        \* the repository does not answer any more
          accepted,    \* history: batches answered as accepted
          tries,       \* history: answers of the repository, by fiber and event
          settled,     \* history: events each fiber saw stored or refused for good
          interrupted, \* history: events in flight when the worker was stopped
          timedOut     \* history: the deadline of the closing passed

vars == <<accepting, permit, recording, queue, shut, inFlight, fiber, stored,
          dropped, hung, accepted, tries, settled, interrupted, timedOut>>

Fibers == {"worker", "closer"}
Steps == {"new", "check", "offer", "accepted", "rejected"}
Phases == {"sleep", "stopped", "open", "close", "interrupt", "flush", "chunk",
           "write", "backoff", "shutdown", "closed"}

\* `rest` has still to be written, `batch` is being written.
Fiber == [phase: Phases, rest: SUBSET Events, batch: SUBSET Events, attempt: Nat]
At(phase) == [phase |-> phase, rest |-> {}, batch |-> {}, attempt |-> 0]

Init ==
    /\ accepting = TRUE
    /\ permit = Free
    /\ recording = [b \in Batches |-> "new"]
    /\ queue = {}
    /\ shut = FALSE
    /\ inFlight = {}
    /\ fiber = [f \in Fibers |-> IF f = "worker" THEN At("sleep") ELSE At("open")]
    /\ stored = {}
    /\ dropped = {}
    /\ hung = FALSE
    /\ accepted = {}
    /\ tries = [f \in Fibers |-> [e \in Events |-> 0]]
    /\ settled = [f \in Fibers |-> {}]
    /\ interrupted = {}
    /\ timedOut = FALSE

history == <<accepted, tries, settled, interrupted, timedOut>>
repository == <<stored, dropped, hung>>

Phase(f) == fiber[f].phase
Chunking(rest) == [phase |-> "chunk", rest |-> rest, batch |-> {}, attempt |-> 0]
Goto(f, phase) == fiber' = [fiber EXCEPT ![f] = At(phase)]

-----------------------------------------------------------------------------
(* Recording a batch                                                       *)

Answer(b, step) == recording' = [recording EXCEPT ![b] = step]

\* Without consent, or with one invalid event, the whole batch is rejected.
Invalid(b) ==
    /\ recording[b] = "new"
    /\ Answer(b, "rejected")
    /\ UNCHANGED <<accepting, permit, queue, shut, inFlight, fiber, repository, history>>

\* Seeded defect: the offer does not take the lifecycle permit.
PermitUnneeded == TRUE

PermitFree == permit = Free

Admit(b) ==
    /\ recording[b] = "new"
    /\ PermitFree
    /\ permit' = b
    /\ Answer(b, "check")
    /\ UNCHANGED <<accepting, queue, shut, inFlight, fiber, repository, history>>

Check(b) ==
    /\ recording[b] = "check"
    /\ Answer(b, IF accepting THEN "offer" ELSE "rejected")
    /\ permit' = IF accepting THEN permit ELSE Free
    /\ UNCHANGED <<accepting, queue, shut, inFlight, fiber, repository, history>>

HasRoom == ~shut /\ Cardinality(queue) < QueueCapacity

Offer(b) ==
    /\ recording[b] = "offer"
    /\ \/ /\ HasRoom
          /\ queue' = queue \cup {b}
          /\ accepted' = accepted \cup {b}
          /\ Answer(b, "accepted")
       \/ /\ ~HasRoom
          /\ Answer(b, "rejected")
          /\ UNCHANGED <<queue, accepted>>
    /\ permit' = Free
    /\ UNCHANGED <<accepting, shut, inFlight, fiber, repository,
                   tries, settled, interrupted, timedOut>>

-----------------------------------------------------------------------------
(* Flushing, by either fiber                                               *)

Queued == UNION {EventsOf[b] : b \in queue}

Taken == inFlight \cup Queued

\* Emptying the queue and noting what was taken cannot be interrupted.
Take(f) ==
    /\ \/ Phase(f) = "sleep" /\ Taken # {}
       \/ Phase(f) = "flush"
    /\ queue' = {}
    /\ inFlight' = Taken
    /\ fiber' = [fiber EXCEPT ![f] = Chunking(Taken)]
    /\ UNCHANGED <<accepting, permit, recording, shut, repository, history>>

Chunks(s) ==
    {c \in SUBSET s : /\ c # {}
                      /\ \/ Cardinality(c) = BatchSize
                         \/ Cardinality(c) < BatchSize /\ c = s}

NextChunk(f) ==
    /\ Phase(f) = "chunk"
    /\ \E c \in Chunks(fiber[f].rest) :
          fiber' = [fiber EXCEPT ![f] = [phase |-> "write", rest |-> @.rest \ c,
                                         batch |-> c, attempt |-> 0]]
    /\ UNCHANGED <<accepting, permit, recording, queue, shut, inFlight, repository, history>>

OutOfRetries(f) == fiber[f].attempt >= MaxRetries

\* Seeded defect: rows the repository has taken or refused are sent again.
ToRetryAll(f, failed, retryable) ==
    IF OutOfRetries(f) \/ retryable = {} THEN {} ELSE fiber[f].batch

ToRetry(f, failed, retryable) == IF OutOfRetries(f) THEN {} ELSE retryable

\* The rows the repository does not report are stored; of the ones it does,
\* some are worth another try.
Outcome(f, failed, retryable) ==
    LET again == ToRetry(f, failed, retryable)
    IN  /\ stored' = stored \cup (fiber[f].batch \ failed)
        /\ dropped' = dropped \cup (failed \ again)
        /\ settled' = [settled EXCEPT ![f] = @ \cup (fiber[f].batch \ retryable)]
        /\ fiber' = [fiber EXCEPT ![f] =
                       IF again = {} THEN Chunking(fiber[f].rest)
                       ELSE [phase |-> "backoff", rest |-> @.rest, batch |-> again,
                             attempt |-> @.attempt + 1]]

\* The repository answers.
Written(f) ==
    /\ Phase(f) = "write"
    /\ ~hung
    /\ \E failed \in SUBSET fiber[f].batch : \E retryable \in SUBSET failed :
          Outcome(f, failed, retryable)
    /\ tries' = [tries EXCEPT ![f] = [e \in Events |->
                    IF e \in fiber[f].batch THEN @[e] + 1 ELSE @[e]]]
    /\ UNCHANGED <<accepting, permit, recording, queue, shut, inFlight, hung,
                   accepted, interrupted, timedOut>>

\* The delay of a retry is over.
Resume(f) ==
    /\ Phase(f) = "backoff"
    /\ fiber' = [fiber EXCEPT ![f].phase = "write"]
    /\ UNCHANGED <<accepting, permit, recording, queue, shut, inFlight, repository, history>>

\* Seeded defect: the worker flushes once.
AfterFlushStopped(f) == IF f = "worker" THEN "stopped" ELSE "shutdown"

AfterFlush(f) == IF f = "worker" THEN "sleep" ELSE "shutdown"

Settle(f) ==
    /\ Phase(f) = "chunk"
    /\ fiber[f].rest = {}
    /\ inFlight' = {}
    /\ Goto(f, AfterFlush(f))
    /\ UNCHANGED <<accepting, permit, recording, queue, shut, repository, history>>

Hang ==
    /\ ~hung
    /\ hung' = TRUE
    /\ UNCHANGED <<accepting, permit, recording, queue, shut, inFlight, fiber,
                   stored, dropped, history>>

-----------------------------------------------------------------------------
(* Closing                                                                 *)

BeginClose ==
    /\ Phase("closer") = "open"
    /\ Goto("closer", "close")
    /\ UNCHANGED <<accepting, permit, recording, queue, shut, inFlight, repository, history>>

StopAccepting ==
    /\ Phase("closer") = "close"
    /\ permit = Free
    /\ accepting' = FALSE
    /\ Goto("closer", "interrupt")
    /\ UNCHANGED <<permit, recording, queue, shut, inFlight, repository, history>>

\* Whether a write that is interrupted has happened is not known.
StopWorker ==
    /\ Phase("closer") = "interrupt"
    /\ interrupted' = inFlight
    /\ fiber' = [fiber EXCEPT !["worker"] = At("stopped"), !["closer"] = At("flush")]
    /\ UNCHANGED <<accepting, permit, recording, queue, shut, inFlight, repository,
                   accepted, tries, settled, timedOut>>

\* Seeded defect: a write cannot be interrupted by the deadline.
TimedPhasesButWrite == {"close", "interrupt", "flush", "chunk", "backoff"}

TimedPhases == {"close", "interrupt", "flush", "chunk", "write", "backoff"}

TimeOut ==
    /\ Phase("closer") \in TimedPhases
    /\ timedOut' = TRUE
    /\ Goto("closer", "shutdown")
    /\ UNCHANGED <<accepting, permit, recording, queue, shut, inFlight, repository,
                   accepted, tries, settled, interrupted>>

\* The scope then stops a worker that is still running.
ShutDown ==
    /\ Phase("closer") = "shutdown"
    /\ shut' = TRUE
    /\ queue' = {}
    /\ fiber' = [f \in Fibers |-> IF f = "worker" THEN At("stopped") ELSE At("closed")]
    /\ UNCHANGED <<accepting, permit, recording, inFlight, repository, history>>

-----------------------------------------------------------------------------

Record(b) == Invalid(b) \/ Admit(b) \/ Check(b) \/ Offer(b)
Flush(f) == Take(f) \/ NextChunk(f) \/ Written(f) \/ Resume(f) \/ Settle(f)
Close == StopAccepting \/ StopWorker \/ ShutDown

Next ==
    \/ \E b \in Batches : Record(b)
    \/ \E f \in Fibers : Flush(f)
    \/ BeginClose \/ Close \/ TimeOut \/ Hang

Spec == Init /\ [][Next]_vars

\* Fibers run when they can, and the clock reaches the deadline.  Nothing says
\* that the repository answers: it may hang.
Fairness ==
    /\ \A b \in Batches : WF_vars(Check(b) \/ Offer(b))
    /\ \A f \in Fibers : WF_vars(Flush(f))
    /\ WF_vars(Close)
    /\ WF_vars(TimeOut)

FairSpec == Spec /\ Fairness

-----------------------------------------------------------------------------
(* Properties                                                              *)

\* Type invariant: every variable of the model has its shape, and the queue
\* holds no more batches than its capacity.
TypeOK ==
    /\ accepting \in BOOLEAN
    /\ permit \in Batches \cup {Free}
    /\ recording \in [Batches -> Steps]
    /\ queue \subseteq Batches
    /\ Cardinality(queue) <= QueueCapacity
    /\ shut \in BOOLEAN
    /\ inFlight \subseteq Events
    /\ fiber \in [Fibers -> Fiber]
    /\ stored \subseteq Events
    /\ dropped \subseteq Events
    /\ hung \in BOOLEAN
    /\ accepted \subseteq Batches
    /\ tries \in [Fibers -> [Events -> Nat]]
    /\ settled \in [Fibers -> SUBSET Events]
    /\ interrupted \subseteq Events
    /\ timedOut \in BOOLEAN

\* No accepted batch disappears: until its events are stored or given up it is
\* in the queue or in flight, also when the service closes at any moment of an
\* offer or a flush, unless the deadline of the closing passes
\* (service.live.ts:148, 170, 221).
NothingLost ==
    timedOut \/ \A b \in accepted :
        b \in queue \/ EventsOf[b] \subseteq inFlight \cup stored \cup dropped

\* A row the repository took or refused for good is not sent again: by the
\* worker never, by the closing only when it interrupted the worker's flush,
\* whose writes it cannot know (service.live.ts:100).
NeverSentAgain ==
    \A f \in Fibers :
        LET batch == fiber[f].batch
        IN  /\ batch \cap settled[f] = {}
            /\ f = "closer" => batch \cap settled["worker"] \subseteq interrupted

\* The retry budget holds for every row, whatever the repository answers for
\* its neighbours: one fiber sends a row at most 1 + MaxRetries times.
BudgetKept ==
    \A f \in Fibers, e \in Events : tries[f][e] <= MaxRetries + 1

\* Closing the service ends even if the repository never answers: "repository
\* bloqueado y backoff de retries tambien consumen ese presupuesto".
ClosingEnds == Phase("closer") # "open" ~> Phase("closer") = "closed"

\* Every accepted event is stored or given up in the end, as long as the
\* repository answers and the closing has time.
AcceptedIsSettled ==
    \A b \in Batches :
        b \in accepted ~> EventsOf[b] \subseteq stored \cup dropped \/ hung \/ timedOut
=============================================================================
