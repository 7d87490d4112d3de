------------------------------ MODULE QueuedLine ------------------------------
(***************************************************************************)
(* simulate_queued_inspection_line: the main thread captures events on its *)
(* cadence into a bounded queue, one non-daemon worker posts them to the   *)
(* prediction API.  Every operation of the queue and of stop_event is one  *)
(* step; both threads poll with a timeout, which is a step that changes    *)
(* nothing but the program counter.                                        *)
(*                                                                         *)
(* The prediction API is external: a request is answered, or it fails      *)
(* (transport, status, schema, a duplicate inspection_id).  The producer   *)
(* may fail of its own accord where it sleeps or reads the clock.  Times,  *)
(* queue depth and wait statistics are left out, and with them the clock   *)
(* reads of the summary.                                                   *)
(***************************************************************************)
EXTENDS Integers, Sequences

CONSTANTS
    NumEvents,   \* len(events)
    QueueSize,   \* queue_size
    Interrupts   \* TRUE: Ctrl-C may raise KeyboardInterrupt in the main thread

ASSUME QueuedLineAssumption ==
    /\ NumEvents \in Nat \ {0}
    /\ QueueSize \in Nat \ {0}
    /\ Interrupts \in BOOLEAN

VARIABLES
    workQueue,        \* work_queue: events by number, or StopWorker
    unfinishedTasks,  \* work_queue.unfinished_tasks
    stopEvent,        \* stop_event.is_set()
    main,             \* program counter of the main thread
    enqueuedEvents,   \* producer_state.enqueued_events
    producerFailure,  \* producer_failure: "none", the producer's "own", or that it was "stopped"
    ready,            \* events whose enqueue_ready is set
    worker,           \* program counter of the worker thread
    entry,            \* the worker's dequeued entry, None between two entries
    results,          \* worker_state.results
    failure           \* worker_state.failure is not None

queueVars  == <<workQueue, unfinishedTasks, stopEvent>>
mainVars   == <<main, enqueuedEvents, producerFailure, ready>>
workerVars == <<worker, entry, results, failure>>
vars == <<queueVars, mainVars, workerVars>>

LineEvents == 1 .. NumEvents
StopWorker == NumEvents + 1
None == 0

MainPcs == {"deadline", "check", "poll", "put", "publish", "stopPoll", "stopPut", "joining",
            "discard", "report", "returned", "raised", "inconsistent", "interrupted"}
WorkerPcs == {"check", "get", "ready", "request", "write", "failed", "signal", "taskDone",
              "last", "done"}

\* The event the producer works on.
Current == enqueuedEvents + 1

Init ==
    /\ workQueue = <<>>
    /\ unfinishedTasks = 0
    /\ stopEvent = FALSE
    /\ main = "deadline"
    /\ enqueuedEvents = 0
    /\ producerFailure = "none"
    /\ ready = {}
    /\ worker = "check"
    /\ entry = None
    /\ results = <<>>
    /\ failure = FALSE

-----------------------------------------------------------------------------
(* The main thread: _produce_events, _enqueue_event, _enqueue_stop_signal. *)

GoTo(pc) ==
    /\ main' = pc
    /\ UNCHANGED <<queueVars, enqueuedEvents, producerFailure, ready, workerVars>>

\* The except clause around the producer.
ProducerRaises(error) ==
    /\ producerFailure' = error
    /\ stopEvent' = TRUE
    /\ main' = "joining"
    /\ UNCHANGED <<workQueue, unfinishedTasks, enqueuedEvents, ready, workerVars>>

\* The time to sleep is more than time.sleep takes, or a sleeper or a clock of the
\* caller raises: at the deadline, between the looks at stop_event, or after the put,
\* which leaves the entry in the queue without its timestamp.
ProducerFails ==
    /\ Current \in LineEvents
    /\ \/ main \in {"deadline", "publish"}
       \/ main = "check" /\ ~stopEvent
    /\ ProducerRaises("own")

\* _wait_for_capture_deadline looks at stop_event only when it has to sleep.
WaitForCaptureDeadline ==
    /\ main = "deadline"
    /\ Current \in LineEvents
    /\ GoTo("check") \/ (stopEvent /\ ProducerRaises("stopped"))

AllProduced ==
    /\ main = "deadline"
    /\ Current \notin LineEvents
    /\ GoTo("stopPoll")

\* Mutant: once it waits for room in the queue the producer never looks again.
LookOnlyBeforeCapture ==
    \/ main = "check" /\ IF stopEvent THEN ProducerRaises("stopped") ELSE GoTo("poll")
    \/ main = "poll" /\ GoTo("put")
    \/ main = "stopPoll" /\ GoTo("stopPut")

\* The test after the deadline and the one at the head of each put attempt.
LookAtStopEvent ==
    /\ main \in {"check", "poll", "stopPoll"}
    /\ IF stopEvent
         THEN ProducerRaises("stopped")
         ELSE GoTo(CASE main = "check" -> "poll"
                     [] main = "poll" -> "put"
                     [] main = "stopPoll" -> "stopPut")

QueueFull == Len(workQueue) >= QueueSize

\* Mutant: an event that finds the queue full is given up as if it were queued.
DropWhenFull ==
    /\ main \in {"put", "stopPut"}
    /\ QueueFull
    /\ GoTo(IF main = "put" THEN "publish" ELSE "stopPoll")

PutTimesOut ==
    /\ main \in {"put", "stopPut"}
    /\ QueueFull
    /\ GoTo(IF main = "put" THEN "poll" ELSE "stopPoll")

Put ==
    /\ main \in {"put", "stopPut"}
    /\ ~QueueFull
    /\ workQueue' = Append(workQueue, IF main = "put" THEN Current ELSE StopWorker)
    /\ unfinishedTasks' = unfinishedTasks + 1
    /\ main' = IF main = "put" THEN "publish" ELSE "joining"
    /\ UNCHANGED <<stopEvent, enqueuedEvents, producerFailure, ready, workerVars>>

\* The entry is in the queue before its timestamp is: enqueue_ready tells the
\* worker when it may be used.
Publish ==
    /\ main = "publish"
    /\ ready' = ready \union {Current}
    /\ enqueuedEvents' = enqueuedEvents + 1
    /\ main' = "deadline"
    /\ UNCHANGED <<queueVars, producerFailure, workerVars>>

\* Mutant: the join has a timeout.
JoinTimesOut == main = "joining" /\ GoTo("discard")

JoinWorker ==
    /\ main = "joining"
    /\ worker = "done"
    /\ GoTo("discard")

DiscardRemaining ==
    /\ main = "discard"
    /\ workQueue' = <<>>
    /\ unfinishedTasks' = unfinishedTasks - Len(workQueue)
    /\ main' = "report"
    /\ UNCHANGED <<stopEvent, enqueuedEvents, producerFailure, ready, workerVars>>

Report ==
    /\ main = "report"
    /\ GoTo(IF failure \/ producerFailure # "none" THEN "raised"
            ELSE IF enqueuedEvents # NumEvents \/ Len(results) # NumEvents THEN "inconsistent"
            ELSE "returned")

\* KeyboardInterrupt is no Exception: it leaves the function from wherever the
\* main thread is, past the except clause.
Interrupt ==
    /\ Interrupts
    /\ main \notin {"returned", "raised", "inconsistent", "interrupted"}
    /\ GoTo("interrupted")

-----------------------------------------------------------------------------
(* The worker thread: _run_worker.                                         *)

WorkerGoesTo(pc) ==
    /\ worker' = pc
    /\ UNCHANGED <<queueVars, mainVars, entry, results, failure>>

WorkerChecks ==
    /\ worker = "check"
    /\ WorkerGoesTo(IF stopEvent THEN "done" ELSE "get")

GetTimesOut ==
    /\ worker = "get"
    /\ workQueue = <<>>
    /\ WorkerGoesTo("check")

Get ==
    /\ worker = "get"
    /\ workQueue # <<>>
    /\ entry' = Head(workQueue)
    /\ workQueue' = Tail(workQueue)
    /\ worker' = IF Head(workQueue) = StopWorker THEN "last" ELSE "ready"
    /\ UNCHANGED <<unfinishedTasks, stopEvent, mainVars, results, failure>>

EnqueueReady ==
    /\ worker = "ready"
    /\ entry \in ready
    /\ WorkerGoesTo("request")

RequestSucceeds ==
    /\ worker = "request"
    /\ results' = Append(results, entry)
    /\ worker' = "write"
    /\ UNCHANGED <<queueVars, mainVars, entry, failure>>

RequestFails ==
    /\ worker = "request"
    /\ WorkerGoesTo("failed")

\* event_writer prints the result; it may raise after the result was recorded.
WriteEvent ==
    /\ worker = "write"
    /\ WorkerGoesTo("taskDone") \/ WorkerGoesTo("failed")

\* Mutant: the root cause is lost.
ForgetRootCause == worker = "failed" /\ WorkerGoesTo("signal")

\* Mutant: the worker reports the failed event and goes on to the next one.
RecordAndContinue ==
    /\ worker = "failed"
    /\ failure' = TRUE
    /\ worker' = "taskDone"
    /\ UNCHANGED <<queueVars, mainVars, entry, results>>

RecordFailure ==
    /\ worker = "failed"
    /\ failure' = TRUE
    /\ worker' = "signal"
    /\ UNCHANGED <<queueVars, mainVars, entry, results>>

\* Whether or not the failure line can be printed, the worker then leaves.
SignalStop ==
    /\ worker = "signal"
    /\ stopEvent' = TRUE
    /\ worker' = "last"
    /\ UNCHANGED <<workQueue, unfinishedTasks, mainVars, entry, results, failure>>

\* Mutant: no task_done for the stop signal and for the failed entry.
TaskDoneInLoopOnly ==
    /\ worker \in {"taskDone", "last"}
    /\ unfinishedTasks' = IF worker = "taskDone" THEN unfinishedTasks - 1 ELSE unfinishedTasks
    /\ entry' = None
    /\ worker' = IF worker = "taskDone" THEN "check" ELSE "done"
    /\ UNCHANGED <<workQueue, stopEvent, mainVars, results, failure>>

\* The finally clause, on the way to the next entry or out of the thread.
TaskDone ==
    /\ worker \in {"taskDone", "last"}
    /\ unfinishedTasks' = unfinishedTasks - 1
    /\ entry' = None
    /\ worker' = IF worker = "taskDone" THEN "check" ELSE "done"
    /\ UNCHANGED <<workQueue, stopEvent, mainVars, results, failure>>

-----------------------------------------------------------------------------

MainStep ==
    \/ WaitForCaptureDeadline \/ AllProduced \/ LookAtStopEvent \/ PutTimesOut \/ Put \/ Publish
    \/ ProducerFails \/ JoinWorker \/ DiscardRemaining \/ Report

WorkerStep ==
    \/ WorkerChecks \/ GetTimesOut \/ Get \/ EnqueueReady \/ RequestSucceeds \/ RequestFails
    \/ WriteEvent \/ RecordFailure \/ SignalStop \/ TaskDone

Next == MainStep \/ WorkerStep \/ Interrupt

Spec == Init /\ [][Next]_vars

\* Both threads are scheduled, every wait on the queue has a timeout, and a
\* request ends at request_timeout_seconds.  Nothing forces an interrupt.
FairSpec == Spec /\ WF_vars(MainStep) /\ WF_vars(WorkerStep)

-----------------------------------------------------------------------------
(* Safety.                                                                 *)

TypeOK ==
    /\ workQueue \in Seq(LineEvents \union {StopWorker})
    /\ Len(workQueue) <= QueueSize
    /\ unfinishedTasks \in Nat
    /\ stopEvent \in BOOLEAN
    /\ main \in MainPcs
    /\ enqueuedEvents \in 0 .. NumEvents
    /\ producerFailure \in {"none", "own", "stopped"}
    /\ ready \subseteq LineEvents
    /\ worker \in WorkerPcs
    /\ entry \in LineEvents \union {StopWorker, None}
    /\ results \in Seq(LineEvents)
    /\ failure \in BOOLEAN

\* The entry the worker took last; the stop signal counts as entry NumEvents + 1.
Taken == IF entry = None THEN Len(results) ELSE entry

\* The entry the producer put last, until it stops producing.
Producing == {"deadline", "check", "poll", "put", "publish", "stopPoll", "stopPut"}
LastPut == IF main = "publish" THEN Current ELSE enqueuedEvents

\* No event is dropped, duplicated or overtaken between producer and results: the
\* results are the oldest events, the worker holds the next one, the queue continues
\* where the worker is and ends where the producer is.
NoDropInOrder ==
    /\ \A i \in DOMAIN results : results[i] = i
    /\ worker # "done" => /\ Taken - Len(results) \in {0, 1}
                          /\ \A i \in DOMAIN workQueue : workQueue[i] = Taken + i
                          /\ main \in Producing => Taken + Len(workQueue) = LastPut
    /\ main \in Producing =>
         \A i \in DOMAIN workQueue : workQueue[i] = LastPut - Len(workQueue) + i

\* queue.Queue's unfinished-task count is exact at every moment: task_done is
\* never called once too often, and a joined run leaves none.
BookkeepingExact ==
    unfinishedTasks = Len(workQueue) + (IF entry = None THEN 0 ELSE 1)

\* The caller is told of a failure that one of the threads had itself, however they
\* race: the producer's complaint that the worker stopped never stands without the
\* recorded failure of the worker, and the counts compared at the end disagree in no
\* run that got there without a failure ("inconsistent event counts" is defensive).
\* If both threads fail the worker's failure is told, also when the producer's came
\* first.
NoConsequenceReported ==
    /\ producerFailure = "stopped" => failure
    /\ main # "inconsistent"

\* A failed run counts one failed event, the last one it took from the queue: even
\* when only its result line could not be printed, so that it counts as successful
\* too, nothing is taken or inspected after it.
FailedEventIsLast == [][failure => results' = results /\ entry' \in {entry, None}]_vars

-----------------------------------------------------------------------------
(* Liveness.                                                               *)

Ended == main \in {"returned", "raised"}

\* The clock failed between the put of an entry and its timestamp: the worker waits
\* for an enqueue_ready that nobody sets, the main thread for the worker.
Stranded == main = "joining" /\ producerFailure = "own" /\ worker = "ready" /\ entry \notin ready

\* No deadlock of a full queue, a failed worker and a blocked producer: a run
\* that nobody interrupts ends, with the worker joined, unless it is stranded.
RunEnds == <>(main = "interrupted" \/ (Ended /\ worker = "done") \/ Stranded)

\* A run that ends in whatever way does not leave the worker thread behind.
WorkerNeverLeftBehind == (Ended \/ main = "interrupted") ~> worker = "done"

-----------------------------------------------------------------------------

Promise == INSTANCE LinePromise WITH
    inspected <- results,
    outcome <- CASE main = "returned" -> "passed"
                 [] main \in {"raised", "inconsistent"} -> "failed"
                 [] OTHER -> "running"

\* One inspection at a time in schedule order; nothing is inspected once the
\* caller knows the outcome; a passed run inspected everything.
ImplementsPromise == Promise!Spec

=============================================================================
