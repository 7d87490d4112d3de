------------------------------ MODULE Publisher ------------------------------
(***************************************************************************)
(* LatestEventWinsPublisher: the queue-size-one HTTP publisher that hands  *)
(* live DeepStream observations to the streaming service.                  *)
(*                                                                         *)
(* Every "with self._condition" block of the code is one atomic step; the  *)
(* HTTP call and the back-off sleep happen between steps, outside the      *)
(* lock.  Condition.wait puts a thread in waitSet, notify_all empties it.  *)
(* The service behind the HTTP call is external: it may accept a request   *)
(* whose caller has already timed out, answer an error, or never see it.   *)
(***************************************************************************)
EXTENDS Integers, Sequences, FiniteSets

CONSTANTS
    MaxEvents,         \* bound on submit() calls that are accepted
    MaxRetries,        \* policy.max_retries
    InitialBackoffMs,  \* policy.initial_backoff_ms
    Multiplier,        \* policy.multiplier
    MaxBackoffMs,      \* policy.max_backoff_ms
    Closers,           \* threads that call close()
    Waiters,           \* threads that call wait_until_idle()
    Worker             \* the delivery thread

ASSUME PublisherAssumption ==
    /\ MaxEvents \in Nat
    /\ MaxRetries \in Nat
    /\ InitialBackoffMs \in Nat
    /\ Multiplier \in Nat \ {0}
    /\ MaxBackoffMs \in Nat
    /\ Worker \notin Waiters

Power(k) == Multiplier ^ k

\* Arithmetic, for the proofs: the provers have no exponentiation of their own.
ASSUME PowerLaws ==
    /\ Power(0) = 1
    /\ \A k \in 0 .. MaxRetries : Power(k) \in Nat /\ Power(k + 1) = Power(k) * Multiplier

VARIABLES
    pending,           \* _pending: an event, or None
    deliveryActive,    \* _delivery_active
    stopping,          \* _stopping
    closed,            \* _closed
    worker,            \* _thread and its program counter ("none": not started)
    inflight,          \* the worker's local payload, None when it holds none
    attempt,           \* the worker's retry loop variable
    backoffMs,         \* the worker's local backoff_ms
    generatedTotal, deliveredTotal, droppedTotal, errorsTotal, retriesTotal,
    bridgeUp,          \* _bridge_up
    waitSet,           \* threads asleep in self._condition.wait
    closer,            \* program counter of each close() caller
    waiter,            \* program counter of each wait_until_idle() caller
    requests,          \* POSTs the service has neither processed nor lost
    acknowledged,      \* the POST the worker waits for was answered 202
    accepted,          \* the service: events it answered 202, in order
    fate               \* history: what became of each event

queueVars   == <<pending, deliveryActive, stopping, closed>>
workerVars  == <<worker, inflight, attempt, backoffMs>>
metricVars  == <<generatedTotal, deliveredTotal, droppedTotal, errorsTotal,
                 retriesTotal, bridgeUp>>
serviceVars == <<requests, acknowledged, accepted>>
vars == <<queueVars, workerVars, metricVars, waitSet, closer, waiter, serviceVars, fate>>

None == 0
Events == 1 .. MaxEvents

Fates == {"unseen", "pending", "inflight", "delivered", "overwritten", "exhausted", "abandoned"}

\* One POST of the retry loop.
Request == [event : Events, attempt : 0 .. MaxRetries]
CurrentRequest == [event |-> inflight, attempt |-> attempt]

WorkerPcs == {"none", "check", "post", "await", "failed", "sleep", "settled", "done"}

\* The worker owns an event that is neither delivered nor dropped yet.
Undecided == worker \in {"post", "await", "failed", "sleep"}

Idle == pending = None /\ ~deliveryActive

\* Mutant: the notify_all is forgotten.
NotifyNobody == UNCHANGED waitSet

NotifyAll == waitSet' = {}

-----------------------------------------------------------------------------

Init ==
    /\ pending = None
    /\ deliveryActive = FALSE
    /\ stopping = FALSE
    /\ closed = FALSE
    /\ worker = "none"
    /\ inflight = None
    /\ attempt = 0
    /\ backoffMs = 0
    /\ generatedTotal = 0
    /\ deliveredTotal = 0
    /\ droppedTotal = 0
    /\ errorsTotal = 0
    /\ retriesTotal = 0
    /\ bridgeUp = 0
    /\ waitSet = {}
    /\ closer = [c \in Closers |-> "out"]
    /\ waiter = [w \in Waiters |-> "out"]
    /\ requests = {}
    /\ acknowledged = FALSE
    /\ accepted = <<>>
    /\ fate = [e \in Events |-> "unseen"]

-----------------------------------------------------------------------------
(* The producer and the owner of the publisher.                            *)

\* start(): a second call finds the thread and returns, a call after close
\* raises; only _closed is tested, not _stopping.
Start ==
    /\ ~closed
    /\ worker = "none"
    /\ worker' = "check"
    /\ UNCHANGED <<queueVars, inflight, attempt, backoffMs, metricVars, waitSet,
                   closer, waiter, serviceVars, fate>>

\* Mutant: an overwritten event is not counted.
OverwriteUncounted == droppedTotal

CountOverwrite == IF pending # None THEN droppedTotal + 1 ELSE droppedTotal

\* submit(): the newest event replaces the pending one, which is dropped.
Submit ==
    /\ ~closed /\ ~stopping
    /\ generatedTotal < MaxEvents
    /\ LET new == generatedTotal + 1 IN
         /\ generatedTotal' = new
         /\ pending' = new
         /\ fate' = [e \in Events |-> IF e = new THEN "pending"
                                      ELSE IF e = pending THEN "overwritten"
                                      ELSE fate[e]]
    /\ droppedTotal' = CountOverwrite
    /\ NotifyAll
    /\ UNCHANGED <<deliveryActive, stopping, closed, workerVars, deliveredTotal,
                   errorsTotal, retriesTotal, bridgeUp, closer, waiter, serviceVars>>

\* close(), first critical section: ask the worker to stop and remember
\* whether there is a thread to join.
CloseBegin(c) ==
    /\ closer[c] = "out"
    /\ ~closed
    /\ stopping' = TRUE
    /\ NotifyAll
    /\ closer' = [closer EXCEPT ![c] = IF worker = "none" THEN "threadless" ELSE "joining"]
    /\ UNCHANGED <<pending, deliveryActive, closed, workerVars, metricVars, waiter,
                   serviceVars, fate>>

\* thread.join returns because the worker ended ...
CloseJoined(c) ==
    /\ closer[c] = "joining"
    /\ worker = "done"
    /\ closer' = [closer EXCEPT ![c] = "joined"]
    /\ UNCHANGED <<queueVars, workerVars, metricVars, waitSet, waiter, serviceVars, fate>>

\* ... or at its timeout: TimeoutError, and close() may be called again.
CloseTimeout(c) ==
    /\ closer[c] = "joining"
    /\ worker # "done"
    /\ closer' = [closer EXCEPT ![c] = "out"]
    /\ UNCHANGED <<queueVars, workerVars, metricVars, waitSet, waiter, serviceVars, fate>>

\* Mutant: the pending event is left to a worker that was never started.
NothingToAbandon(c) == FALSE

LeftPending(c) == closer[c] = "threadless" /\ pending # None

\* close(), last critical section.
CloseFinish(c) ==
    /\ closer[c] \in {"joined", "threadless"}
    /\ IF LeftPending(c)
         THEN /\ droppedTotal' = droppedTotal + 1
              /\ pending' = None
              /\ fate' = [fate EXCEPT ![pending] = "abandoned"]
         ELSE UNCHANGED <<droppedTotal, pending, fate>>
    /\ closed' = TRUE
    /\ NotifyAll
    /\ closer' = [closer EXCEPT ![c] = "out"]
    /\ UNCHANGED <<deliveryActive, stopping, workerVars, generatedTotal, deliveredTotal,
                   errorsTotal, retriesTotal, bridgeUp, waiter, serviceVars>>

\* wait_until_idle(): sleep while an event is pending or being delivered.
IdleWait(w) ==
    /\ waiter[w] = "out" \/ w \notin waitSet
    /\ ~Idle
    /\ waiter' = [waiter EXCEPT ![w] = "waiting"]
    /\ waitSet' = waitSet \union {w}
    /\ UNCHANGED <<queueVars, workerVars, metricVars, closer, serviceVars, fate>>

\* It returns True once it wakes up and finds the publisher idle, False at
\* its deadline; the caller may stop waiting at any moment.
IdleReturn(w) ==
    /\ waiter[w] = "waiting"
    /\ waiter' = [waiter EXCEPT ![w] = "out"]
    /\ waitSet' = waitSet \ {w}
    /\ UNCHANGED <<queueVars, workerVars, metricVars, closer, serviceVars, fate>>

-----------------------------------------------------------------------------
(* The worker thread: _worker_loop and _deliver_with_retries.              *)

\* Mutant: the worker looks at _closed, which close() sets after the join.
ToldWhenClosed == closed

ToldToStop == stopping

WorkerWait ==
    /\ worker = "check" /\ Worker \notin waitSet
    /\ pending = None /\ ~ToldToStop
    /\ waitSet' = waitSet \union {Worker}
    /\ UNCHANGED <<queueVars, workerVars, metricVars, closer, waiter, serviceVars, fate>>

WorkerExit ==
    /\ worker = "check" /\ Worker \notin waitSet
    /\ pending = None /\ ToldToStop
    /\ worker' = "done"
    /\ UNCHANGED <<queueVars, inflight, attempt, backoffMs, metricVars, waitSet, closer,
                   waiter, serviceVars, fate>>

WorkerTake ==
    /\ worker = "check" /\ Worker \notin waitSet
    /\ pending # None
    /\ worker' = "post"
    /\ inflight' = pending
    /\ attempt' = 0
    /\ backoffMs' = InitialBackoffMs
    /\ pending' = None
    /\ deliveryActive' = TRUE
    /\ fate' = [fate EXCEPT ![pending] = "inflight"]
    /\ NotifyAll
    /\ UNCHANGED <<stopping, closed, metricVars, closer, waiter, serviceVars>>

Post ==
    /\ worker = "post"
    /\ worker' = "await"
    /\ requests' = requests \union {CurrentRequest}
    /\ acknowledged' = FALSE
    /\ UNCHANGED <<queueVars, inflight, attempt, backoffMs, metricVars, waitSet, closer,
                   waiter, accepted, fate>>

\* Mutant: the status of the answer is not looked at.
AnyAnswer == TRUE

Answered202 == acknowledged

PostAccepted ==
    /\ worker = "await"
    /\ Answered202
    /\ deliveredTotal' = deliveredTotal + 1
    /\ bridgeUp' = 1
    /\ worker' = "settled"
    /\ fate' = [fate EXCEPT ![inflight] = "delivered"]
    /\ UNCHANGED <<queueVars, inflight, attempt, backoffMs, generatedTotal, droppedTotal,
                   errorsTotal, retriesTotal, waitSet, closer, waiter, serviceVars>>

\* Another status, a refused or broken connection, or the request timeout.
\* The service may still be about to process the request, or never see it.
PostFailed ==
    /\ worker = "await"
    /\ errorsTotal' = errorsTotal + 1
    /\ bridgeUp' = 0
    /\ worker' = "failed"
    /\ requests' \in {requests, requests \ {CurrentRequest}}
    /\ UNCHANGED <<queueVars, inflight, attempt, backoffMs, generatedTotal, deliveredTotal,
                   droppedTotal, retriesTotal, waitSet, closer, waiter, acknowledged, accepted, fate>>

\* Mutant: one retry too many.
BudgetExceeded == attempt > MaxRetries

BudgetUsedUp == attempt >= MaxRetries

GiveUp ==
    /\ worker = "failed"
    /\ BudgetUsedUp
    /\ droppedTotal' = droppedTotal + 1
    /\ worker' = "settled"
    /\ fate' = [fate EXCEPT ![inflight] = "exhausted"]
    /\ UNCHANGED <<queueVars, inflight, attempt, backoffMs, generatedTotal, deliveredTotal,
                   errorsTotal, retriesTotal, bridgeUp, waitSet, closer, waiter, serviceVars>>

CountRetry ==
    /\ worker = "failed"
    /\ ~BudgetUsedUp
    /\ retriesTotal' = retriesTotal + 1
    /\ worker' = "sleep"
    /\ UNCHANGED <<queueVars, inflight, attempt, backoffMs, generatedTotal, deliveredTotal,
                   droppedTotal, errorsTotal, bridgeUp, waitSet, closer, waiter, serviceVars,
                   fate>>

\* Mutant: the cap is forgotten.
UncappedBackoff(ms) == ms * Multiplier

CappedBackoff(ms) == IF ms * Multiplier <= MaxBackoffMs THEN ms * Multiplier ELSE MaxBackoffMs

\* The sleep ends: the next attempt gets the grown, capped back-off.
SleepEnds ==
    /\ worker = "sleep"
    /\ backoffMs' = CappedBackoff(backoffMs)
    /\ attempt' = attempt + 1
    /\ worker' = "post"
    /\ UNCHANGED <<queueVars, inflight, metricVars, waitSet, closer, waiter, serviceVars, fate>>

DeliveryDone ==
    /\ worker = "settled"
    /\ deliveryActive' = FALSE
    /\ worker' = "check"
    /\ inflight' = None
    /\ NotifyAll
    /\ UNCHANGED <<pending, stopping, closed, attempt, backoffMs, metricVars, closer, waiter,
                   serviceVars, fate>>

-----------------------------------------------------------------------------
(* The streaming service, as the worker's POST sees it (external).         *)

\* ingest_streaming_known_defect answers 202 to a request; the answer reaches
\* the worker only if it still waits for that very request.
ServiceAccept(r) ==
    /\ r \in requests
    /\ requests' = requests \ {r}
    /\ accepted' = Append(accepted, r.event)
    /\ acknowledged' = (acknowledged \/ (worker = "await" /\ r = CurrentRequest))
    /\ UNCHANGED <<queueVars, workerVars, metricVars, waitSet, closer, waiter, fate>>

-----------------------------------------------------------------------------

WorkerStep ==
    \/ WorkerWait \/ WorkerExit \/ WorkerTake
    \/ Post \/ PostAccepted \/ PostFailed
    \/ GiveUp \/ CountRetry \/ SleepEnds \/ DeliveryDone

CloserStep(c) == CloseBegin(c) \/ CloseJoined(c) \/ CloseTimeout(c) \/ CloseFinish(c)

Next ==
    \/ Start
    \/ Submit
    \/ \E c \in Closers : CloserStep(c)
    \/ \E w \in Waiters : IdleWait(w) \/ IdleReturn(w)
    \/ WorkerStep
    \/ \E r \in requests : ServiceAccept(r)

Spec == Init /\ [][Next]_vars

\* The operating system runs a runnable thread, post_json returns within its
\* timeout and the sleep ends: the worker is weakly fair.  Nothing is assumed
\* about the callers of submit, start and close, nor about the service.
FairSpec == Spec /\ WF_vars(WorkerStep)

-----------------------------------------------------------------------------
(* Safety.                                                                 *)

Truth(b) == IF b THEN 1 ELSE 0

FlagTypes ==
    /\ deliveryActive \in BOOLEAN
    /\ stopping \in BOOLEAN
    /\ closed \in BOOLEAN
    /\ acknowledged \in BOOLEAN

DataTypes ==
    /\ pending \in Events \union {None}
    /\ worker \in WorkerPcs
    /\ inflight \in Events \union {None}
    /\ attempt \in 0 .. MaxRetries
    /\ backoffMs \in Nat
    /\ generatedTotal \in 0 .. MaxEvents
    /\ deliveredTotal \in Nat
    /\ droppedTotal \in Nat
    /\ errorsTotal \in Nat
    /\ retriesTotal \in Nat
    /\ bridgeUp \in {0, 1}
    /\ waitSet \subseteq Waiters \union {Worker}
    /\ closer \in [Closers -> {"out", "joining", "joined", "threadless"}]
    /\ waiter \in [Waiters -> {"out", "waiting"}]
    /\ requests \subseteq Request
    /\ accepted \in Seq(Events)
    /\ fate \in [Events -> Fates]

TypeOK == FlagTypes /\ DataTypes

\* Every metrics_snapshot(), whenever it takes the lock, adds up: a generated
\* event is delivered, dropped, pending, or the one the worker still decides.
Conservation ==
    generatedTotal = deliveredTotal + droppedTotal + Truth(pending # None) + Truth(Undecided)

\* The counters are the true numbers of events that met each fate, and an
\* error is followed by exactly one retry or one exhausted event.
CountersTellFates ==
    LET Number(F) == Cardinality({e \in Events : fate[e] \in F}) IN
      /\ deliveredTotal = Number({"delivered"})
      /\ droppedTotal = Number({"overwritten", "exhausted", "abandoned"})
      /\ errorsTotal = retriesTotal + Number({"exhausted"}) + Truth(worker = "failed")

\* No thread sleeps on the condition while what it waits for holds: each
\* change of the predicate is followed by a notify_all under the same lock.
NoLostWakeup ==
    /\ Worker \in waitSet => pending = None /\ ~stopping
    /\ \A w \in Waiters : w \in waitSet => ~Idle

\* Once close() has returned to anyone, no event is left in the slot: each was
\* taken by the worker or counted as dropped, in every interleaving of
\* start, submit and several close calls.
NothingStranded == closed => pending = None

\* The policy's wait after k failed attempts, 0 the first.
Delay(k) ==
    LET uncapped == InitialBackoffMs * Power(k)
    IN  IF k = 0 \/ uncapped <= MaxBackoffMs THEN uncapped ELSE MaxBackoffMs

\* Before attempt k + 1 the worker sleeps the capped power of the policy.
BackoffPolicy == worker = "sleep" => backoffMs = Delay(attempt)

-----------------------------------------------------------------------------
(* The inductive invariant behind the safety properties.                   *)

\* What the worker's program counter says about its locals and its flag.
WorkerShape ==
    /\ deliveryActive <=> worker \in {"post", "await", "failed", "sleep", "settled"}
    /\ deliveryActive <=> inflight # None
    /\ worker = "sleep" => attempt < MaxRetries
    /\ Worker \in waitSet => worker = "check"

\* How far each close() got, and what it may rely on from there.
CloseShape ==
    /\ closed => stopping
    /\ worker = "done" => stopping /\ pending = None
    /\ \A c \in Closers :
          /\ closer[c] # "out" => stopping
          /\ closer[c] = "joined" => worker = "done"

IInv ==
    /\ TypeOK
    /\ WorkerShape
    /\ CloseShape
    /\ Conservation
    /\ NoLostWakeup
    /\ NothingStranded

-----------------------------------------------------------------------------
(* Liveness, under FairSpec.                                               *)

\* With a started worker every submitted event is eventually delivered or
\* dropped, whatever the service answers and however submit and close race.
EventsSettle ==
    \A e \in Events :
        worker # "none" /\ fate[e] \in {"pending", "inflight"}
            ~> fate[e] \in {"delivered", "overwritten", "exhausted", "abandoned"}

\* Once close() was called a started worker ends, even if join timed out.
WorkerEnds == stopping /\ worker # "none" ~> worker = "done"

-----------------------------------------------------------------------------
(* The publisher implements its promise.                                   *)

Promise == INSTANCE PublisherPromise

\* Latest event wins, one delivery at a time, delivered only if accepted, and
\* at most one accepted copy per attempt.
ImplementsPromise == Promise!Spec

=============================================================================
