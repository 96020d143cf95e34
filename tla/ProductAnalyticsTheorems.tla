------------------------ MODULE ProductAnalyticsTheorems ------------------------
(***************************************************************************)
(* Proofs about ProductAnalytics, for any batches, events and options.     *)
(*                                                                         *)
(* Nothing is lost because only one fiber flushes at a time, and what is   *)
(* in flight while it does is held by it or settled (Handover), and        *)
(* because nothing joins the queue once the closing has begun to drain it  *)
(* (Admission).  The budget holds because a row reaches a fiber once and   *)
(* untouched (Untouched, Counted).                                         *)
(***************************************************************************)
EXTENDS ProductAnalytics, FiniteSetTheorems, TLAPS

Writing == {"chunk", "write", "backoff"}
Draining == Writing \cup {"flush"}
Over == {"shutdown", "closed"}

Held(f) == fiber[f].rest \cup fiber[f].batch

\* Fiber f has neither sent event e nor seen the end of it.
Fresh(f, e) == tries[f][e] = 0 /\ e \notin settled[f]

\* What a fiber holds, it holds while it writes, and has sent `attempt` times.
Counted(f) ==
    /\ Phase(f) \notin Writing => Held(f) = {}
    /\ Phase(f) = "chunk" => fiber[f].batch = {}
    /\ fiber[f].rest \cap fiber[f].batch = {}
    /\ fiber[f].attempt <= MaxRetries
    /\ \A e \in fiber[f].rest : Fresh(f, e)
    /\ \A e \in fiber[f].batch : tries[f][e] = fiber[f].attempt /\ e \notin settled[f]
    /\ \A e \in Events : tries[f][e] <= MaxRetries + 1

\* The closing drains after the worker has stopped.
Turns ==
    /\ Phase("worker") \in Writing \cup {"sleep", "stopped"}
    /\ Phase("closer") \in Draining \cup Over \cup {"open", "close", "interrupt"}
    /\ Phase("closer") \in Draining => Phase("worker") = "stopped"

\* What is in flight is held by the fiber that flushes, or settled.
Handover ==
    /\ Phase("worker") = "sleep" => inFlight = {}
    /\ \A f \in Fibers :
          Phase(f) \in Writing => inFlight \subseteq Held(f) \cup stored \cup dropped

\* Nothing is offered once the closing has stopped the admission, and the
\* queue is empty once it has been drained.
Admission ==
    /\ \A b \in Batches : recording[b] \in {"check", "offer"} => permit = b
    /\ ~accepting => \A b \in Batches : recording[b] # "offer"
    /\ Phase("closer") \in Draining \cup {"interrupt"} => ~accepting
    /\ Phase("closer") \in Over => timedOut \/ ~accepting
    /\ Phase("closer") \in Writing => queue = {}
    /\ Phase("closer") \in Over => timedOut \/ queue = {}

\* No fiber has met the events of a batch before it is taken from the queue.
Untouched(e) == e \notin inFlight /\ \A f \in Fibers : Fresh(f, e) /\ e \notin Held(f)

Waiting ==
    /\ \A b \in queue : recording[b] = "accepted"
    /\ \A b \in Batches :
          recording[b] \in {"new", "check", "offer"} \/ b \in queue =>
              \A e \in EventsOf[b] : Untouched(e)

\* The closing sends again only what it took over from the worker.
TakenOver ==
    /\ Phase("closer") \in {"open", "close", "interrupt", "flush"} =>
          \A e \in Events : Fresh("closer", e)
    /\ Phase("closer") = "flush" => inFlight \subseteq interrupted
    /\ Held("closer") \cap settled["worker"] \subseteq interrupted

IInv ==
    /\ TypeOK
    /\ NothingLost
    /\ \A f \in Fibers : Counted(f)
    /\ Turns
    /\ Handover
    /\ Admission
    /\ Waiting
    /\ TakenOver

-----------------------------------------------------------------------------
(* Types                                                                   *)

\* A fiber that starts a phase with nothing in its hands is a fiber.
LEMMA AtIsFiber ==
    ASSUME NEW phase \in Phases
    PROVE  /\ At(phase) \in Fiber
           /\ At(phase).phase = phase
           /\ At(phase).rest = {} /\ At(phase).batch = {} /\ At(phase).attempt = 0
BY DEF At, Fiber

\* The queue stays a finite set within its capacity when a batch is offered.
LEMMA QueueGrows ==
    ASSUME queue \subseteq Batches, HasRoom, NEW b \in Batches
    PROVE  Cardinality(queue \cup {b}) <= QueueCapacity
<1>1. IsFiniteSet(queue)
    BY AnalyticsAssumption, FS_Subset
<1>2. /\ Cardinality(queue) \in Nat
      /\ Cardinality(queue \cup {b}) = IF b \in queue THEN Cardinality(queue)
                                       ELSE Cardinality(queue) + 1
    BY <1>1, FS_AddElement, FS_CardinalityType
<1> QED
    BY <1>2, AnalyticsAssumption DEF HasRoom

LEMMA InitType == Init => TypeOK
<1> SUFFICES ASSUME Init PROVE TypeOK
    OBVIOUS
<1>1. Cardinality(queue) = 0 /\ 0 <= QueueCapacity
    BY FS_EmptySet, AnalyticsAssumption DEF Init
<1>2. fiber \in [Fibers -> Fiber]
    BY AtIsFiber DEF Init, Fibers, Phases
<1> QED
    BY <1>1, <1>2 DEF Init, TypeOK, Steps

\* A flush keeps the shape of the variables.
LEMMA FlushType ==
    ASSUME TypeOK, NEW f \in Fibers, Flush(f)
    PROVE  TypeOK'
<1> USE DEF TypeOK
<1>0. fiber[f] \in Fiber /\ Taken \subseteq Events
    BY AnalyticsAssumption DEF Taken, Queued
<1>1. CASE Take(f)
    <2>1. Chunking(Taken) \in Fiber
        BY <1>0 DEF Fiber, Phases, Chunking
    <2>2. Cardinality(queue') <= QueueCapacity
        BY <1>1, FS_EmptySet, AnalyticsAssumption DEF Take
    <2> QED
        BY <1>0, <1>1, <2>1, <2>2 DEF Take, repository, history
<1>2. CASE NextChunk(f)
    <2>1. PICK c \in Chunks(fiber[f].rest) :
              fiber' = [fiber EXCEPT ![f] = [phase |-> "write", rest |-> fiber[f].rest \ c,
                                             batch |-> c, attempt |-> 0]]
        BY <1>2 DEF NextChunk
    <2>2. [phase |-> "write", rest |-> fiber[f].rest \ c, batch |-> c, attempt |-> 0] \in Fiber
        BY <1>0, <2>1 DEF Chunks, Fiber, Phases
    <2> QED
        BY <1>2, <2>1, <2>2 DEF NextChunk, repository, history
<1>3. CASE Written(f)
    <2>1. PICK failed \in SUBSET fiber[f].batch : \E retryable \in SUBSET failed :
              Outcome(f, failed, retryable)
        BY <1>3 DEF Written
    <2>2. PICK retryable \in SUBSET failed : Outcome(f, failed, retryable)
        BY <2>1
    <2> DEFINE again == ToRetry(f, failed, retryable)
    <2>3. fiber[f].batch \subseteq Events /\ again \subseteq Events
        BY <1>0 DEF ToRetry, Fiber
    <2>4. fiber' \in [Fibers -> Fiber]
        <3>1. Chunking(fiber[f].rest) \in Fiber
            BY <1>0 DEF Fiber, Phases, Chunking
        <3>2. [phase |-> "backoff", rest |-> fiber[f].rest, batch |-> again,
               attempt |-> fiber[f].attempt + 1] \in Fiber
            BY <1>0, <2>3 DEF Fiber, Phases
        <3> QED
            BY <2>2, <3>1, <3>2 DEF Outcome
    <2>5. stored' \subseteq Events /\ dropped' \subseteq Events
        BY <2>2, <2>3 DEF Outcome
    <2>6. settled' \in [Fibers -> SUBSET Events]
        BY <2>2, <2>3 DEF Outcome
    <2>7. tries' \in [Fibers -> [Events -> Nat]]
        BY <1>3 DEF Written
    <2> QED
        BY <1>3, <2>4, <2>5, <2>6, <2>7 DEF Written
<1>4. CASE Resume(f)
    BY <1>0, <1>4 DEF Resume, repository, history, Fiber, Phases
<1>5. CASE Settle(f)
    BY <1>0, <1>5, AtIsFiber DEF Settle, Goto, AfterFlush, Phases, repository, history
<1> QED
    BY <1>1, <1>2, <1>3, <1>4, <1>5 DEF Flush

\* Every step keeps the shape of the variables.
LEMMA NextType ==
    ASSUME TypeOK, [Next]_vars
    PROVE  TypeOK'
<1> USE DEF TypeOK, repository, history
<1>1. ASSUME NEW b \in Batches, Record(b) PROVE TypeOK'
    <2>1. CASE Invalid(b)
        BY <2>1 DEF Invalid, Answer, Steps
    <2>2. CASE Admit(b)
        BY <2>2 DEF Admit, Answer, Steps
    <2>3. CASE Check(b)
        BY <2>3 DEF Check, Answer, Steps
    <2>4. CASE Offer(b)
        <3>1. Cardinality(queue') <= QueueCapacity /\ queue' \subseteq Batches
            BY <2>4, QueueGrows DEF Offer
        <3> QED
            BY <2>4, <3>1 DEF Offer, Answer, Steps
    <2> QED
        BY <1>1, <2>1, <2>2, <2>3, <2>4 DEF Record
<1>2. ASSUME NEW f \in Fibers, Flush(f) PROVE TypeOK'
    BY <1>2, FlushType
<1>3. CASE BeginClose
    BY <1>3, AtIsFiber DEF BeginClose, Goto, Phases
<1>4. CASE StopAccepting
    BY <1>4, AtIsFiber DEF StopAccepting, Goto, Phases
<1>5. CASE StopWorker
    BY <1>5, AtIsFiber DEF StopWorker, Phases
<1>6. CASE ShutDown
    <2>1. Cardinality(queue') <= QueueCapacity
        BY <1>6, FS_EmptySet, AnalyticsAssumption DEF ShutDown
    <2>2. fiber' \in [Fibers -> Fiber]
        BY <1>6, AtIsFiber DEF ShutDown, Phases
    <2> QED
        BY <1>6, <2>1, <2>2 DEF ShutDown
<1>7. CASE TimeOut
    BY <1>7, AtIsFiber DEF TimeOut, Goto, Phases
<1>8. CASE Hang
    BY <1>8 DEF Hang
<1>9. CASE UNCHANGED vars
    BY <1>9 DEF vars
<1> QED
    BY <1>1, <1>2, <1>3, <1>4, <1>5, <1>6, <1>7, <1>8, <1>9 DEF Next, Close

\* The type invariant holds in every state: the variables of the ingestion
\* keep their shape and the queue its capacity, for any options.
THEOREM TypeCorrect == Spec => []TypeOK
BY InitType, NextType, PTL DEF Spec

-----------------------------------------------------------------------------
(* Steps of the fibers                                                     *)

\* What a write leaves in the fiber's hands.
LEMMA WrittenOutcome ==
    ASSUME TypeOK, NEW f \in Fibers, Written(f)
    PROVE  \E failed \in SUBSET fiber[f].batch : \E retryable \in SUBSET failed :
              /\ Outcome(f, failed, retryable)
              /\ ToRetry(f, failed, retryable) \subseteq retryable
              /\ \/ fiber'[f] = Chunking(fiber[f].rest)
                 \/ /\ ~OutOfRetries(f)
                    /\ fiber'[f] = [phase |-> "backoff", rest |-> fiber[f].rest,
                                    batch |-> ToRetry(f, failed, retryable),
                                    attempt |-> fiber[f].attempt + 1]
              /\ \A g \in Fibers \ {f} : fiber'[g] = fiber[g]
<1>1. PICK failed \in SUBSET fiber[f].batch : \E retryable \in SUBSET failed :
          Outcome(f, failed, retryable)
    BY DEF Written
<1>2. PICK retryable \in SUBSET failed : Outcome(f, failed, retryable)
    BY <1>1
<1> DEFINE again == ToRetry(f, failed, retryable)
<1>3. again \subseteq retryable /\ (OutOfRetries(f) => again = {})
    BY DEF ToRetry
<1>4. /\ \A g \in Fibers \ {f} : fiber'[g] = fiber[g]
      /\ fiber'[f] = IF again = {} THEN Chunking(fiber[f].rest)
                     ELSE [phase |-> "backoff", rest |-> fiber[f].rest, batch |-> again,
                           attempt |-> fiber[f].attempt + 1]
    BY <1>2 DEF Outcome, TypeOK
<1> HIDE DEF again
<1>5. \/ fiber'[f] = Chunking(fiber[f].rest)
      \/ /\ ~OutOfRetries(f)
         /\ fiber'[f] = [phase |-> "backoff", rest |-> fiber[f].rest,
                         batch |-> again, attempt |-> fiber[f].attempt + 1]
    BY <1>3, <1>4
<1> QED
    BY <1>2, <1>3, <1>4, <1>5 DEF again

\* A flush goes from writing to writing until its fiber is done, and leaves
\* the other fiber and the admission alone.
LEMMA FlushPhases ==
    ASSUME TypeOK, NEW f \in Fibers, Flush(f)
    PROVE  /\ fiber[f].phase \in Writing \cup {"sleep", "flush"}
           /\ fiber'[f].phase \in Writing \cup {AfterFlush(f)}
           /\ fiber'[f].phase \in Writing \/ Settle(f)
           /\ \A g \in Fibers \ {f} : fiber'[g] = fiber[g]
           /\ UNCHANGED <<accepting, permit, recording, shut, accepted, interrupted, timedOut>>
<1> USE DEF Writing, Phase, repository, history
<1>0. fiber \in [Fibers -> Fiber]
    BY DEF TypeOK
<1>1. CASE Take(f)
    BY <1>0, <1>1 DEF Take, Chunking
<1>2. CASE NextChunk(f)
    BY <1>0, <1>2 DEF NextChunk
<1>3. CASE Written(f)
    <2>1. fiber'[f].phase \in Writing /\ \A g \in Fibers \ {f} : fiber'[g] = fiber[g]
        <3>1. PICK failed \in SUBSET fiber[f].batch : \E retryable \in SUBSET failed :
                  /\ \/ fiber'[f] = Chunking(fiber[f].rest)
                     \/ fiber'[f] = [phase |-> "backoff", rest |-> fiber[f].rest,
                                     batch |-> ToRetry(f, failed, retryable),
                                     attempt |-> fiber[f].attempt + 1]
                  /\ \A g \in Fibers \ {f} : fiber'[g] = fiber[g]
            BY <1>3, WrittenOutcome
        <3> QED
            BY <3>1 DEF Chunking
    <2> QED
        BY <1>3, <2>1 DEF Written
<1>4. CASE Resume(f)
    BY <1>0, <1>4 DEF Resume, Fiber
<1>5. CASE Settle(f)
    BY <1>0, <1>5 DEF Settle, Goto, At
<1> QED
    BY <1>1, <1>2, <1>3, <1>4, <1>5 DEF Flush

\* The worker does not flush once it has been stopped, so the closing drains
\* alone.
LEMMA TurnsKept ==
    ASSUME TypeOK, Turns, [Next]_vars
    PROVE  Turns'
<1> USE DEF Turns, Phase, Writing, Draining, Over, Fibers
<1>0. fiber \in [Fibers -> Fiber]
    BY DEF TypeOK
<1>1. ASSUME NEW b \in Batches, Record(b) PROVE Turns'
    BY <1>1 DEF Record, Invalid, Admit, Check, Offer
<1>2. ASSUME NEW f \in Fibers, Flush(f) PROVE Turns'
    <2>1. /\ fiber[f].phase \in Writing \cup {"sleep", "flush"}
          /\ fiber'[f].phase \in Writing \cup {AfterFlush(f)}
          /\ \A g \in Fibers \ {f} : fiber'[g] = fiber[g]
        BY <1>2, FlushPhases
    <2> QED
        BY <2>1 DEF AfterFlush
<1>3. CASE BeginClose \/ StopAccepting \/ TimeOut
    BY <1>0, <1>3 DEF BeginClose, StopAccepting, TimeOut, Goto, At
<1>4. CASE StopWorker \/ ShutDown
    BY <1>0, <1>4 DEF StopWorker, ShutDown, At
<1>5. CASE Hang \/ UNCHANGED vars
    BY <1>5 DEF Hang, vars
<1> QED
    BY <1>1, <1>2, <1>3, <1>4, <1>5 DEF Next, Close

\* Only a request that holds the permit offers, and it has seen the service
\* admit since the closing waits for the permit.
LEMMA AdmissionKept ==
    ASSUME TypeOK, Turns, Admission, [Next]_vars
    PROVE  Admission'
<1> USE DEF Admission, Phase, Writing, Draining, Over
<1>0. /\ fiber \in [Fibers -> Fiber]
      /\ recording \in [Batches -> Steps]
      /\ Free \notin Batches
    BY AnalyticsAssumption DEF TypeOK
<1>1. ASSUME NEW b \in Batches, Record(b) PROVE Admission'
    <2>1. CASE Invalid(b)
        BY <1>0, <2>1 DEF Invalid, Answer, history
    <2>2. CASE Admit(b)
        BY <1>0, <2>2 DEF Admit, Answer, PermitFree, history
    <2>3. CASE Check(b)
        BY <1>0, <2>3 DEF Check, Answer, history
    <2>4. CASE Offer(b)
        <3>1. accepting /\ permit = b
            BY <1>0, <2>4 DEF Offer
        <3> QED
            BY <1>0, <2>4, <3>1 DEF Offer, Answer
    <2> QED
        BY <1>1, <2>1, <2>2, <2>3, <2>4 DEF Record
<1>2. ASSUME NEW f \in Fibers, Flush(f) PROVE Admission'
    <2>1. queue' = {} \/ queue' = queue
        BY <1>2 DEF Flush, Take, NextChunk, Written, Resume, Settle
    <2>2. CASE f = "worker"
        BY <1>0, <1>2, <2>1, <2>2, FlushPhases DEF Fibers
    <2>3. CASE f = "closer"
        <3>1. fiber[f].phase \in Draining
            BY <1>2, <2>3, FlushPhases DEF Turns
        <3>2. fiber'[f].phase \in Writing \cup {"shutdown"}
            BY <1>2, <2>3, FlushPhases DEF AfterFlush
        <3>3. queue' = {}
            BY <1>2, <2>3, <3>1 DEF Flush, Take, NextChunk, Written, Resume, Settle
        <3> QED
            BY <1>0, <1>2, <2>3, <3>1, <3>2, <3>3, FlushPhases
    <2> QED
        BY <2>2, <2>3 DEF Fibers
<1>3. CASE BeginClose
    BY <1>0, <1>3 DEF BeginClose, Goto, At, Fibers, history
<1>4. CASE StopAccepting
    BY <1>0, <1>4 DEF StopAccepting, Goto, At, Fibers, history
<1>5. CASE StopWorker
    BY <1>0, <1>5 DEF StopWorker, At, Fibers
<1>6. CASE TimeOut
    BY <1>0, <1>6 DEF TimeOut, Goto, At, Fibers
<1>7. CASE ShutDown
    BY <1>0, <1>7 DEF ShutDown, At, Fibers, history
<1>8. CASE Hang \/ UNCHANGED vars
    BY <1>8 DEF Hang, vars, history
<1> QED
    BY <1>1, <1>2, <1>3, <1>4, <1>5, <1>6, <1>7, <1>8 DEF Next, Close

\* What a flush sends are the rows in its fiber's batch, on its own account.
LEMMA FlushSends ==
    ASSUME TypeOK, NEW f \in Fibers, Flush(f)
    PROVE  /\ \A g \in Fibers \ {f} : tries'[g] = tries[g] /\ settled'[g] = settled[g]
           /\ \A e \in Events : e \notin fiber[f].batch /\ Fresh(f, e) => Fresh(f, e)'
           /\ \A e \in Events \ fiber[f].batch : tries'[f][e] = tries[f][e]
<1> USE DEF Fresh, repository, history
<1>0. tries \in [Fibers -> [Events -> Nat]] /\ settled \in [Fibers -> SUBSET Events]
    BY DEF TypeOK
<1>1. CASE Take(f) \/ NextChunk(f) \/ Resume(f) \/ Settle(f)
    BY <1>1 DEF Take, NextChunk, Resume, Settle
<1>2. CASE Written(f)
    <2>1. PICK failed \in SUBSET fiber[f].batch : \E retryable \in SUBSET failed :
              Outcome(f, failed, retryable)
        BY <1>2, WrittenOutcome
    <2>2. PICK retryable \in SUBSET failed : Outcome(f, failed, retryable)
        BY <2>1
    <2>3. settled' = [settled EXCEPT ![f] = @ \cup (fiber[f].batch \ retryable)]
        BY <2>2 DEF Outcome
    <2>4. tries' = [tries EXCEPT ![f] = [e \in Events |->
              IF e \in fiber[f].batch THEN tries[f][e] + 1 ELSE tries[f][e]]]
        BY <1>2 DEF Written
    <2> QED
        BY <1>0, <2>3, <2>4
<1> QED
    BY <1>1, <1>2 DEF Flush

\* A fiber gets what it holds from the queue and from what was in flight.
LEMMA FlushHolds ==
    ASSUME TypeOK, NEW f \in Fibers, Flush(f)
    PROVE  \/ /\ Take(f)
              /\ Held(f)' = Taken
              /\ inFlight' = Taken
              /\ queue' = {}
           \/ /\ ~Take(f)
              /\ Held(f)' \subseteq Held(f)
              /\ inFlight' \subseteq inFlight
              /\ queue' = queue
<1> USE DEF Held, repository, history
<1>0. fiber \in [Fibers -> Fiber] /\ fiber[f] \in Fiber
    BY DEF TypeOK
<1>1. CASE Take(f)
    BY <1>0, <1>1 DEF Take, Chunking
<1>2. CASE NextChunk(f)
    <2>1. PICK c \in Chunks(fiber[f].rest) :
              fiber' = [fiber EXCEPT ![f] = [phase |-> "write", rest |-> fiber[f].rest \ c,
                                             batch |-> c, attempt |-> 0]]
        BY <1>2 DEF NextChunk
    <2>2. Held(f)' \subseteq Held(f)
        BY <1>0, <2>1 DEF Chunks
    <2> QED
        BY <1>2, <2>2 DEF NextChunk, Take, Phase
<1>3. CASE Written(f)
    <2>1. PICK failed \in SUBSET fiber[f].batch : \E retryable \in SUBSET failed :
              /\ ToRetry(f, failed, retryable) \subseteq retryable
              /\ \/ fiber'[f] = Chunking(fiber[f].rest)
                 \/ fiber'[f] = [phase |-> "backoff", rest |-> fiber[f].rest,
                                 batch |-> ToRetry(f, failed, retryable),
                                 attempt |-> fiber[f].attempt + 1]
        BY <1>3, WrittenOutcome
    <2>2. Held(f)' \subseteq Held(f)
        BY <2>1 DEF Chunking
    <2> QED
        BY <1>3, <2>2 DEF Written, Take, Phase
<1>4. CASE Resume(f)
    BY <1>0, <1>4 DEF Resume, Fiber, Take, Phase
<1>5. CASE Settle(f)
    BY <1>0, <1>5 DEF Settle, Goto, At, Take, Phase
<1> QED
    BY <1>1, <1>2, <1>3, <1>4, <1>5 DEF Flush

\* Steps that are not of a flush send nothing and empty hands at most.
LEMMA OtherSteps ==
    ASSUME TypeOK, NEW f \in Fibers,
           \/ \E b \in Batches : Record(b)
           \/ BeginClose \/ Close \/ TimeOut \/ Hang \/ UNCHANGED vars
    PROVE  /\ UNCHANGED <<inFlight, stored, dropped, tries, settled>>
           /\ \/ fiber'[f] = fiber[f]
              \/ \E phase \in Phases \ Writing : fiber'[f] = At(phase)
<1> USE DEF repository, history
<1>0. fiber \in [Fibers -> Fiber]
    BY DEF TypeOK
<1>1. ASSUME NEW b \in Batches, Record(b)
      PROVE  UNCHANGED <<inFlight, stored, dropped, tries, settled, fiber>>
    BY <1>1 DEF Record, Invalid, Admit, Check, Offer
<1>2. CASE BeginClose
    BY <1>0, <1>2 DEF BeginClose, Goto, Phases, Writing
<1>3. CASE StopAccepting
    BY <1>0, <1>3 DEF StopAccepting, Goto, Phases, Writing
<1>4. CASE StopWorker
    BY <1>0, <1>4 DEF StopWorker, Phases, Writing, Fibers
<1>5. CASE ShutDown
    BY <1>0, <1>5 DEF ShutDown, Phases, Writing, Fibers
<1>6. CASE TimeOut
    BY <1>0, <1>6 DEF TimeOut, Goto, Phases, Writing
<1>7. CASE Hang \/ UNCHANGED vars
    BY <1>7 DEF Hang, vars
<1> QED
    BY <1>1, <1>2, <1>3, <1>4, <1>5, <1>6, <1>7 DEF Close

-----------------------------------------------------------------------------
(* Nothing is lost                                                         *)

LEMMA HandoverKept ==
    ASSUME TypeOK, Turns, \A f \in Fibers : Counted(f), Handover, [Next]_vars
    PROVE  Handover'
<1> USE DEF Handover
<1>1. ASSUME NEW f \in Fibers, Flush(f) PROVE Handover'
    <2>0. fiber \in [Fibers -> Fiber] /\ fiber[f] \in Fiber
        BY DEF TypeOK
    <2>1. \A g \in Fibers \ {f} : Phase(g) \notin Writing /\ fiber'[g] = fiber[g]
        <3>1. /\ Phase(f) \in Writing \cup {"sleep", "flush"}
              /\ \A g \in Fibers \ {f} : fiber'[g] = fiber[g]
            BY <1>1, FlushPhases DEF Phase
        <3> QED
            BY <3>1 DEF Turns, Writing, Draining, Over, Fibers
    <2>2. Phase(f)' \in Writing => inFlight' \subseteq Held(f)' \cup stored' \cup dropped'
        <3>1. CASE Take(f)
            BY <1>1, <3>1, FlushHolds
        <3>2. CASE NextChunk(f)
            <4>1. PICK c \in Chunks(fiber[f].rest) :
                      fiber' = [fiber EXCEPT ![f] = [phase |-> "write",
                          rest |-> fiber[f].rest \ c, batch |-> c, attempt |-> 0]]
                BY <3>2 DEF NextChunk
            <4>2. Held(f)' = fiber[f].rest /\ Held(f) = fiber[f].rest
                BY <2>0, <3>2, <4>1 DEF Held, Chunks, NextChunk, Counted
            <4>3. Phase(f) \in Writing
                BY <3>2 DEF NextChunk, Writing
            <4> QED
                BY <3>2, <4>2, <4>3 DEF NextChunk, repository
        <3>3. CASE Written(f)
            <4>1. PICK failed \in SUBSET fiber[f].batch : \E retryable \in SUBSET failed :
                      /\ Outcome(f, failed, retryable)
                      /\ \/ fiber'[f] = Chunking(fiber[f].rest)
                         \/ fiber'[f] = [phase |-> "backoff", rest |-> fiber[f].rest,
                                         batch |-> ToRetry(f, failed, retryable),
                                         attempt |-> fiber[f].attempt + 1]
                BY <3>3, WrittenOutcome
            <4>2. PICK retryable \in SUBSET failed :
                      /\ Outcome(f, failed, retryable)
                      /\ \/ fiber'[f] = Chunking(fiber[f].rest)
                         \/ fiber'[f] = [phase |-> "backoff", rest |-> fiber[f].rest,
                                         batch |-> ToRetry(f, failed, retryable),
                                         attempt |-> fiber[f].attempt + 1]
                BY <4>1
            <4> DEFINE again == ToRetry(f, failed, retryable)
            <4>3. /\ stored' = stored \cup (fiber[f].batch \ failed)
                  /\ dropped' = dropped \cup (failed \ again)
                  /\ fiber'[f] = IF again = {} THEN Chunking(fiber[f].rest)
                                 ELSE [phase |-> "backoff", rest |-> fiber[f].rest,
                                       batch |-> again, attempt |-> fiber[f].attempt + 1]
                BY <2>0, <4>2 DEF Outcome
            <4> HIDE DEF again
            <4>4. Held(f)' = fiber[f].rest \cup again
                BY <4>3 DEF Held, Chunking
            <4>5. inFlight' = inFlight /\ Phase(f) \in Writing
                BY <3>3 DEF Written, Writing
            <4> QED
                BY <4>3, <4>4, <4>5 DEF Held
        <3>4. CASE Resume(f)
            <4>1. Held(f)' = Held(f) /\ Phase(f) \in Writing
                BY <2>0, <3>4 DEF Resume, Held, Fiber, Writing
            <4> QED
                BY <3>4, <4>1 DEF Resume, repository
        <3>5. CASE Settle(f)
            BY <3>5 DEF Settle
        <3> QED
            BY <1>1, <3>1, <3>2, <3>3, <3>4, <3>5 DEF Flush
    <2>3. Phase("worker")' = "sleep" => inFlight' = {}
        <3>1. CASE f = "worker"
            <4>1. Phase(f)' = "sleep" => Settle(f)
                BY <1>1, FlushPhases DEF Phase, Writing
            <4> QED
                BY <3>1, <4>1 DEF Settle
        <3>2. CASE f = "closer"
            <4>1. Phase("worker") = "stopped" /\ fiber'["worker"] = fiber["worker"]
                BY <1>1, <3>2, FlushPhases DEF Turns, Draining, Writing, Over, Phase, Fibers
            <4> QED
                BY <4>1 DEF Phase
        <3> QED
            BY <3>1, <3>2 DEF Fibers
    <2> QED
        BY <2>1, <2>2, <2>3 DEF Phase
<1>2. ASSUME \/ \E b \in Batches : Record(b)
             \/ BeginClose \/ Close \/ TimeOut \/ Hang \/ UNCHANGED vars
      PROVE  Handover'
    <2>1. \A f \in Fibers : Phase(f)' \in Writing => fiber'[f] = fiber[f]
        <3> SUFFICES ASSUME NEW f \in Fibers PROVE Phase(f)' \in Writing => fiber'[f] = fiber[f]
            OBVIOUS
        <3>1. fiber'[f] = fiber[f] \/ \E phase \in Phases \ Writing : fiber'[f] = At(phase)
            BY <1>2, OtherSteps
        <3>2. ASSUME NEW phase \in Phases \ Writing, fiber'[f] = At(phase)
              PROVE  Phase(f)' \notin Writing
            BY <3>2 DEF At, Phase
        <3> QED
            BY <3>1, <3>2
    <2>2. Phase("worker")' = "sleep" => fiber'["worker"] = fiber["worker"]
        <3>0. fiber \in [Fibers -> Fiber]
            BY DEF TypeOK
        <3>1. ASSUME NEW b \in Batches, Record(b) PROVE UNCHANGED fiber
            BY <3>1 DEF Record, Invalid, Admit, Check, Offer
        <3>2. CASE BeginClose \/ StopAccepting \/ TimeOut
            BY <3>0, <3>2 DEF BeginClose, StopAccepting, TimeOut, Goto, Fibers
        <3>3. CASE StopWorker \/ ShutDown
            BY <3>0, <3>3 DEF StopWorker, ShutDown, At, Phase, Fibers
        <3>4. CASE Hang \/ UNCHANGED vars
            BY <3>4 DEF Hang, vars
        <3> QED
            BY <1>2, <3>1, <3>2, <3>3, <3>4 DEF Close
    <2>3. UNCHANGED <<inFlight, stored, dropped>>
        BY <1>2, OtherSteps DEF Fibers
    <2> QED
        BY <2>1, <2>2, <2>3 DEF Phase, Held
<1> QED
    BY <1>1, <1>2 DEF Next

LEMMA NothingLostKept ==
    ASSUME TypeOK, Turns, \A f \in Fibers : Counted(f), Handover, Admission, NothingLost,
           [Next]_vars
    PROVE  NothingLost'
<1> USE DEF NothingLost
<1>1. ASSUME NEW b \in Batches, Record(b) PROVE NothingLost'
    BY <1>1 DEF Record, Invalid, Admit, Check, Offer, repository, history
<1>2. ASSUME NEW f \in Fibers, Flush(f) PROVE NothingLost'
    <2>0. UNCHANGED <<accepted, timedOut>>
        BY <1>2, FlushPhases
    <2>1. CASE Take(f)
        <3>1. \A b \in queue : EventsOf[b] \subseteq Taken
            BY DEF Taken, Queued
        <3> QED
            BY <2>0, <2>1, <3>1 DEF Take, Taken, repository
    <2>2. CASE NextChunk(f) \/ Resume(f)
        BY <2>0, <2>2 DEF NextChunk, Resume, repository
    <2>3. CASE Written(f)
        <3>1. PICK failed \in SUBSET fiber[f].batch : \E retryable \in SUBSET failed :
                  Outcome(f, failed, retryable)
            BY <2>3, WrittenOutcome
        <3>2. stored \subseteq stored' /\ dropped \subseteq dropped'
            BY <3>1 DEF Outcome
        <3> QED
            BY <2>0, <2>3, <3>2 DEF Written
    <2>4. CASE Settle(f)
        <3>1. Held(f) = {} /\ Phase(f) \in Writing
            BY <2>4 DEF Settle, Held, Counted, Writing
        <3>2. inFlight \subseteq stored \cup dropped
            BY <3>1 DEF Handover
        <3> QED
            BY <2>0, <2>4, <3>2 DEF Settle, repository
    <2> QED
        BY <1>2, <2>1, <2>2, <2>3, <2>4 DEF Flush
<1>3. CASE BeginClose \/ StopAccepting \/ StopWorker
    BY <1>3 DEF BeginClose, StopAccepting, StopWorker, repository, history
<1>4. CASE TimeOut
    BY <1>4 DEF TimeOut
<1>5. CASE ShutDown
    BY <1>5 DEF ShutDown, Admission, Over, repository, history
<1>6. CASE Hang \/ UNCHANGED vars
    BY <1>6 DEF Hang, vars, history
<1> QED
    BY <1>1, <1>2, <1>3, <1>4, <1>5, <1>6 DEF Next, Close

-----------------------------------------------------------------------------
(* Rows are sent once and their retries                                    *)

LEMMA CountedKept ==
    ASSUME TypeOK, Turns, Handover, Waiting, TakenOver, \A g \in Fibers : Counted(g),
           [Next]_vars, NEW f \in Fibers
    PROVE  Counted(f)'
<1>0. /\ fiber \in [Fibers -> Fiber] /\ fiber[f] \in Fiber
      /\ fiber[f].batch \subseteq Events /\ fiber[f].rest \subseteq Events
      /\ fiber[f].attempt \in Nat
      /\ MaxRetries \in Nat
      /\ tries \in [Fibers -> [Events -> Nat]] /\ settled \in [Fibers -> SUBSET Events]
    BY AnalyticsAssumption DEF TypeOK, Fiber
<1>1. Counted(f)
    OBVIOUS
<1>2. CASE /\ UNCHANGED <<tries, settled>>
           /\ fiber'[f] = fiber[f] \/ \E phase \in Phases \ Writing : fiber'[f] = At(phase)
    <2>1. CASE fiber'[f] = fiber[f]
        BY <1>1, <1>2, <2>1 DEF Counted, Phase, Held, Fresh
    <2>2. ASSUME NEW phase \in Phases \ Writing, fiber'[f] = At(phase) PROVE Counted(f)'
        BY <1>0, <1>1, <1>2, <2>2 DEF Counted, Phase, Held, Fresh, At, Writing
    <2> QED
        BY <1>2, <2>1, <2>2
<1>3. ASSUME NEW g \in Fibers \ {f}, Flush(g) PROVE Counted(f)'
    <2>1. fiber'[f] = fiber[f] /\ tries'[f] = tries[f] /\ settled'[f] = settled[f]
        BY <1>3, FlushPhases, FlushSends
    <2> QED
        BY <1>1, <2>1 DEF Counted, Phase, Held, Fresh
<1>4. CASE Take(f)
    <2>1. \A e \in Taken : Fresh(f, e)
        <3>1. \A e \in Queued : Fresh(f, e)
            BY DEF Queued, Waiting, Untouched, TypeOK
        <3>2. CASE Phase(f) = "sleep"
            <4>1. f = "worker"
                BY <3>2 DEF Turns, Writing, Draining, Over, Fibers
            <4> QED
                BY <3>1, <3>2, <4>1 DEF Handover, Taken
        <3>3. CASE Phase(f) = "flush"
            <4>1. f = "closer"
                BY <3>3 DEF Turns, Writing, Fibers
            <4> QED
                BY <3>1, <3>3, <4>1 DEF TakenOver, Taken, TypeOK
        <3> QED
            BY <1>4, <3>2, <3>3 DEF Take
    <2>2. fiber'[f] = Chunking(Taken) /\ UNCHANGED <<tries, settled>>
        BY <1>0, <1>4 DEF Take, history
    <2> QED
        BY <1>0, <1>1, <2>1, <2>2 DEF Counted, Phase, Held, Fresh, Chunking, Writing
<1>5. CASE NextChunk(f)
    <2>1. PICK c \in Chunks(fiber[f].rest) :
              fiber' = [fiber EXCEPT ![f] = [phase |-> "write", rest |-> fiber[f].rest \ c,
                                             batch |-> c, attempt |-> 0]]
        BY <1>5 DEF NextChunk
    <2>2. fiber'[f] = [phase |-> "write", rest |-> fiber[f].rest \ c, batch |-> c, attempt |-> 0]
        BY <1>0, <2>1
    <2>3. c \subseteq fiber[f].rest /\ UNCHANGED <<tries, settled>>
        BY <1>5, <2>1 DEF Chunks, NextChunk, history
    <2> QED
        BY <1>0, <1>1, <2>2, <2>3 DEF Counted, Phase, Held, Fresh, Writing
<1>6. CASE Written(f)
    <2>1. PICK failed \in SUBSET fiber[f].batch : \E retryable \in SUBSET failed :
              /\ Outcome(f, failed, retryable)
              /\ ToRetry(f, failed, retryable) \subseteq retryable
              /\ \/ fiber'[f] = Chunking(fiber[f].rest)
                 \/ /\ ~OutOfRetries(f)
                    /\ fiber'[f] = [phase |-> "backoff", rest |-> fiber[f].rest,
                                    batch |-> ToRetry(f, failed, retryable),
                                    attempt |-> fiber[f].attempt + 1]
        BY <1>6, WrittenOutcome
    <2>2. PICK retryable \in SUBSET failed :
              /\ Outcome(f, failed, retryable)
              /\ ToRetry(f, failed, retryable) \subseteq retryable
              /\ \/ fiber'[f] = Chunking(fiber[f].rest)
                 \/ /\ ~OutOfRetries(f)
                    /\ fiber'[f] = [phase |-> "backoff", rest |-> fiber[f].rest,
                                    batch |-> ToRetry(f, failed, retryable),
                                    attempt |-> fiber[f].attempt + 1]
        BY <2>1
    <2> DEFINE again == ToRetry(f, failed, retryable)
    <2>3. settled'[f] = settled[f] \cup (fiber[f].batch \ retryable)
        BY <1>0, <2>2 DEF Outcome
    <2>4. \A e \in Events :
              tries'[f][e] = IF e \in fiber[f].batch THEN tries[f][e] + 1 ELSE tries[f][e]
        BY <1>0, <1>6 DEF Written
    <2>5. \A e \in fiber[f].batch : tries[f][e] = fiber[f].attempt /\ e \notin settled[f]
        BY <1>1 DEF Counted
    <2>6. \A e \in Events : tries'[f][e] <= MaxRetries + 1
        BY <1>0, <1>1, <2>4, <2>5 DEF Counted
    <2>7. \A e \in fiber[f].rest : Fresh(f, e)'
        BY <1>0, <1>1, <2>3, <2>4 DEF Counted, Fresh
    <2>8. again \subseteq retryable /\ again \subseteq fiber[f].batch
        BY <2>2
    <2>9. \A e \in again : tries'[f][e] = fiber[f].attempt + 1 /\ e \notin settled'[f]
        BY <1>0, <2>3, <2>4, <2>5, <2>8
    <2> HIDE DEF again
    <2>10. CASE fiber'[f] = Chunking(fiber[f].rest)
        BY <1>0, <2>6, <2>7, <2>10 DEF Counted, Phase, Held, Chunking, Writing
    <2>11. CASE /\ ~OutOfRetries(f)
                /\ fiber'[f] = [phase |-> "backoff", rest |-> fiber[f].rest, batch |-> again,
                                attempt |-> fiber[f].attempt + 1]
        <3>1. fiber[f].attempt + 1 <= MaxRetries
            BY <1>0, <2>11 DEF OutOfRetries
        <3>2. fiber[f].rest \cap again = {}
            BY <1>1, <2>8 DEF Counted
        <3> QED
            BY <2>6, <2>7, <2>9, <2>11, <3>1, <3>2 DEF Counted, Phase, Held, Writing
    <2> QED
        BY <2>2, <2>10, <2>11 DEF again
<1>7. CASE Resume(f)
    <2>1. /\ fiber'[f] = [fiber[f] EXCEPT !.phase = "write"]
          /\ Phase(f) = "backoff"
          /\ UNCHANGED <<tries, settled>>
        BY <1>0, <1>7 DEF Resume, history
    <2>2. fiber'[f] = [phase |-> "write", rest |-> fiber[f].rest, batch |-> fiber[f].batch,
                       attempt |-> fiber[f].attempt]
        BY <1>0, <2>1 DEF Fiber
    <2> QED
        BY <1>1, <2>1, <2>2 DEF Counted, Phase, Held, Fresh, Writing
<1>8. CASE Settle(f)
    <2>1. fiber'[f] = At(AfterFlush(f)) /\ UNCHANGED <<tries, settled>>
        BY <1>0, <1>8 DEF Settle, Goto, history
    <2> QED
        BY <1>2, <2>1 DEF AfterFlush, Phases, Writing
<1>9. ASSUME \/ \E b \in Batches : Record(b)
             \/ BeginClose \/ Close \/ TimeOut \/ Hang \/ UNCHANGED vars
      PROVE  Counted(f)'
    BY <1>2, <1>9, OtherSteps
<1> QED
    BY <1>3, <1>4, <1>5, <1>6, <1>7, <1>8, <1>9 DEF Next, Flush

\* What a fiber holds it had, took from the queue or took from what was in
\* flight, and it takes nothing whose batch is not in the queue.
LEMMA UntouchedKept ==
    ASSUME TypeOK, NEW f \in Fibers, Flush(f), NEW e \in Events \ Queued, Untouched(e)
    PROVE  Untouched(e)'
<1>1. e \notin inFlight' /\ e \notin Held(f)'
    BY FlushHolds DEF Untouched, Taken
<1>2. \A g \in Fibers \ {f} : Fresh(g, e)' /\ e \notin Held(g)'
    BY FlushPhases, FlushSends DEF Untouched, Fresh, Held
<1>3. Fresh(f, e)'
    BY FlushSends DEF Untouched, Held
<1> QED
    BY <1>1, <1>2, <1>3 DEF Untouched

LEMMA WaitingKept ==
    ASSUME TypeOK, Waiting, [Next]_vars
    PROVE  Waiting'
<1> USE DEF Waiting
<1>0. /\ recording \in [Batches -> Steps] /\ queue \subseteq Batches
      /\ EventsOf \in [Batches -> SUBSET Events]
      /\ \A b, c \in Batches : b # c => EventsOf[b] \cap EventsOf[c] = {}
    BY AnalyticsAssumption DEF TypeOK
<1>1. ASSUME NEW f \in Fibers, Flush(f) PROVE Waiting'
    <2>1. recording' = recording
        BY <1>1, FlushPhases
    <2>2. queue' = queue \/ queue' = {}
        BY <1>1, FlushHolds
    <2>3. ASSUME NEW b \in Batches,
                 recording[b] \in {"new", "check", "offer"} \/ b \in queue',
                 NEW e \in EventsOf[b]
          PROVE  Untouched(e)'
        <3>1. Untouched(e) /\ e \in Events
            BY <1>0, <2>2, <2>3
        <3>2. CASE b \notin queue
            <4>1. e \notin Queued
                BY <1>0, <2>3, <3>2 DEF Queued
            <4> QED
                BY <1>1, <3>1, <4>1, UntouchedKept
        <3>3. CASE b \in queue
            <4>1. ~Take(f) /\ Held(f)' \subseteq Held(f) /\ inFlight' \subseteq inFlight
                BY <1>0, <1>1, <2>3, <3>3, FlushHolds
            <4>2. \A g \in Fibers \ {f} : Fresh(g, e)' /\ e \notin Held(g)'
                BY <1>1, <3>1, FlushPhases, FlushSends DEF Untouched, Fresh, Held
            <4>3. Fresh(f, e)'
                BY <1>1, <3>1, FlushSends DEF Untouched, Held
            <4> QED
                BY <3>1, <4>1, <4>2, <4>3 DEF Untouched
        <3> QED
            BY <3>2, <3>3
    <2> QED
        BY <2>1, <2>2, <2>3
<1>2. ASSUME \/ \E b \in Batches : Record(b)
             \/ BeginClose \/ Close \/ TimeOut \/ Hang \/ UNCHANGED vars
      PROVE  Waiting'
    <2>1. ASSUME NEW e, Untouched(e) PROVE Untouched(e)'
        <3>1. \A f \in Fibers : Held(f)' \subseteq Held(f)
            <4> SUFFICES ASSUME NEW f \in Fibers PROVE Held(f)' \subseteq Held(f)
                OBVIOUS
            <4>1. fiber'[f] = fiber[f] \/ \E phase \in Phases \ Writing : fiber'[f] = At(phase)
                BY <1>2, OtherSteps
            <4>2. ASSUME NEW phase, fiber'[f] = At(phase) PROVE Held(f)' = {}
                BY <4>2 DEF At, Held
            <4> QED
                BY <4>1, <4>2 DEF Held
        <3>2. UNCHANGED <<inFlight, tries, settled>>
            BY <1>2, OtherSteps DEF Fibers
        <3> QED
            BY <2>1, <3>1, <3>2 DEF Untouched, Fresh
    <2>2. ASSUME NEW b \in Batches, Record(b)
          PROVE  /\ \A c \in queue' : recording'[c] = "accepted"
                 /\ \A c \in Batches :
                       recording'[c] \in {"new", "check", "offer"} \/ c \in queue' =>
                           recording[c] \in {"new", "check", "offer"} \/ c \in queue
        <3>1. CASE Invalid(b)
            BY <1>0, <3>1 DEF Invalid, Answer
        <3>2. CASE Admit(b)
            BY <1>0, <3>2 DEF Admit, Answer
        <3>3. CASE Check(b)
            BY <1>0, <3>3 DEF Check, Answer
        <3>4. CASE Offer(b)
            BY <1>0, <3>4 DEF Offer, Answer
        <3> QED
            BY <2>2, <3>1, <3>2, <3>3, <3>4 DEF Record
    <2>3. CASE BeginClose \/ Close \/ TimeOut \/ Hang \/ UNCHANGED vars
        <3>1. recording' = recording /\ queue' \subseteq queue
            BY <2>3 DEF BeginClose, Close, StopAccepting, StopWorker, ShutDown, TimeOut, Hang, vars
        <3> QED
            BY <2>1, <3>1
    <2> QED
        BY <1>2, <2>1, <2>2, <2>3
<1> QED
    BY <1>1, <1>2 DEF Next

LEMMA TakenOverKept ==
    ASSUME TypeOK, Turns, \A f \in Fibers : Counted(f), Waiting, TakenOver, [Next]_vars
    PROVE  TakenOver'
<1> USE DEF TakenOver
<1>0. fiber \in [Fibers -> Fiber]
    BY DEF TypeOK
<1>1. ASSUME Flush("worker") PROVE TakenOver'
    <2>1. Phase("closer") \notin Draining /\ fiber'["closer"] = fiber["closer"]
        BY <1>1, FlushPhases DEF Turns, Draining, Writing, Over, Phase, Fibers
    <2>2. Held("closer") = {} /\ Held("closer")' = {}
        BY <2>1 DEF Counted, Fibers, Draining, Held
    <2>3. tries'["closer"] = tries["closer"] /\ settled'["closer"] = settled["closer"]
        BY <1>1, FlushSends DEF Fibers
    <2> QED
        BY <2>1, <2>2, <2>3 DEF Fresh, Phase, Draining
<1>2. ASSUME Flush("closer") PROVE TakenOver'
    <2>1. Phase("closer")' \in Writing \cup {"shutdown"}
        BY <1>2, FlushPhases DEF AfterFlush, Phase, Fibers
    <2>2. settled'["worker"] = settled["worker"] /\ interrupted' = interrupted
        BY <1>2, FlushPhases, FlushSends DEF Fibers
    <2>3. Held("closer")' \cap settled["worker"] \subseteq interrupted
        <3>1. CASE Take("closer")
            <4>1. Phase("closer") = "flush"
                BY <3>1 DEF Take, Turns, Draining, Writing, Over
            <4>2. inFlight \subseteq interrupted
                BY <4>1
            <4>3. \A e \in Queued : e \notin settled["worker"]
                BY DEF Queued, Waiting, Untouched, Fresh, Fibers, TypeOK
            <4>4. Held("closer")' = Taken
                BY <1>2, <3>1, FlushHolds DEF Fibers
            <4> QED
                BY <4>2, <4>3, <4>4 DEF Taken
        <3>2. CASE ~Take("closer")
            <4>1. Held("closer")' \subseteq Held("closer")
                BY <1>2, <3>2, FlushHolds DEF Fibers
            <4> QED
                BY <4>1
        <3> QED
            BY <3>1, <3>2
    <2> QED
        BY <2>1, <2>2, <2>3 DEF Writing
<1>3. ASSUME NEW b \in Batches, Record(b) PROVE TakenOver'
    <2>1. UNCHANGED <<fiber, inFlight, tries, settled, interrupted>>
        BY <1>3 DEF Record, Invalid, Admit, Check, Offer, history
    <2> QED
        BY <2>1 DEF Phase, Fresh, Held
<1>4. CASE BeginClose
    BY <1>0, <1>4 DEF BeginClose, Goto, At, Phase, Fresh, Held, Fibers, history
<1>5. CASE StopAccepting
    BY <1>0, <1>5 DEF StopAccepting, Goto, At, Phase, Fresh, Held, Fibers, history
<1>6. CASE StopWorker
    BY <1>0, <1>6 DEF StopWorker, At, Phase, Fresh, Held, Fibers
<1>7. CASE ShutDown
    BY <1>0, <1>7 DEF ShutDown, At, Phase, Fresh, Held, Fibers, history
<1>8. CASE TimeOut
    BY <1>0, <1>8 DEF TimeOut, Goto, At, Phase, Fresh, Held, Fibers
<1>9. CASE Hang \/ UNCHANGED vars
    BY <1>9 DEF Hang, vars, Phase, Fresh, Held, history
<1> QED
    BY <1>1, <1>2, <1>3, <1>4, <1>5, <1>6, <1>7, <1>8, <1>9 DEF Next, Close, Fibers

-----------------------------------------------------------------------------
(* The theorems                                                            *)

LEMMA InitInv == Init => IInv
<1> SUFFICES ASSUME Init PROVE IInv
    OBVIOUS
<1>1. TypeOK
    BY InitType
<1>2. /\ fiber["worker"] = At("sleep") /\ fiber["closer"] = At("open")
      /\ \A f \in Fibers : \A e \in Events : Fresh(f, e)
    BY DEF Init, Fresh, Fibers
<1>3. \A f \in Fibers : Held(f) = {} /\ fiber[f].attempt = 0
    BY <1>2 DEF Held, At, Fibers
<1>4. Phase("worker") = "sleep" /\ Phase("closer") = "open"
    BY <1>2 DEF Phase, At
<1>5. \A f \in Fibers : Phase(f) \notin Writing
    BY <1>4 DEF Fibers, Writing
<1>6. \A f \in Fibers : Counted(f)
    BY <1>2, <1>3, <1>5, AnalyticsAssumption DEF Counted, Held, Fresh, Writing
<1>7. Turns /\ Handover
    BY <1>4, <1>5 DEF Turns, Handover, Draining, Writing, Over, Init
<1>8. Admission /\ NothingLost
    BY <1>4 DEF Admission, NothingLost, Draining, Writing, Over, Init
<1>9. Waiting /\ TakenOver
    BY <1>2, <1>3, <1>4, AnalyticsAssumption DEF Waiting, TakenOver, Untouched, Init, Fibers
<1> QED
    BY <1>1, <1>6, <1>7, <1>8, <1>9 DEF IInv

LEMMA NextInv == IInv /\ [Next]_vars => IInv'
BY NextType, TurnsKept, AdmissionKept, HandoverKept, NothingLostKept, CountedKept,
   WaitingKept, TakenOverKept DEF IInv

\* The inductive invariant holds in every state: the fibers flush one at a
\* time, hold what is in flight and have sent it as often as they count, and
\* nothing joins the queue once the closing drains it.
THEOREM InvariantHolds == Spec => []IInv
BY InitInv, NextInv, PTL DEF Spec

\* Whatever the batches, the options and the moment the service closes, an
\* accepted batch is in the queue, in flight, stored or given up, unless the
\* deadline of the closing has passed.
THEOREM Kept == Spec => []NothingLost
BY InvariantHolds, PTL DEF IInv

\* A fiber sends a row at most 1 + MaxRetries times, for any MaxRetries and
\* any answers of the repository.
THEOREM WithinBudget == Spec => []BudgetKept
<1>1. IInv => BudgetKept
    BY DEF IInv, Counted, BudgetKept
<1> QED
    BY <1>1, InvariantHolds, PTL

\* No fiber sends a row again that it saw stored or refused for good, and the
\* closing repeats only rows of the flush it interrupted.
THEOREM SentOnce == Spec => []NeverSentAgain
<1>1. IInv => NeverSentAgain
    BY DEF IInv, Counted, TakenOver, NeverSentAgain, Held, Fibers
<1> QED
    BY <1>1, InvariantHolds, PTL
=============================================================================
