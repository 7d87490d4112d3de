--------------------------- MODULE QueuedLineProofs ---------------------------
(***************************************************************************)
(* The queued line, for any number of events, any queue size and an        *)
(* interrupt at any step.                                                  *)
(*                                                                         *)
(* The argument: entries leave the queue in the order of their numbers,    *)
(* the stop signal being the last, and the worker's program counter says   *)
(* whether the entry it took has its result.  stop_event is set only for a *)
(* failure of the worker, already recorded, or for one of the producer's   *)
(* own.  So if neither failed, the worker ends at the stop signal, with a  *)
(* result for each event before it, and the producer has put all of them;  *)
(* and a producer that is stopped finds the worker's failure recorded.     *)
(***************************************************************************)
EXTENDS QueuedLine, TLAPS

\* What the worker's program counter says of the entry it took.
WorkerShape ==
    /\ entry = None <=> worker \in {"check", "get", "done"}
    /\ worker \in {"ready", "request"} => entry = Len(results) + 1
    /\ worker \in {"write", "taskDone"} => entry = Len(results)
    /\ worker \in {"ready", "request", "write", "failed", "signal"} => entry \in LineEvents
    /\ worker = "signal" => failure
    /\ worker = "last" /\ ~failure => entry = StopWorker /\ Len(results) = NumEvents
    /\ worker = "done" /\ ~failure => Len(results) = NumEvents \/ producerFailure = "own"

\* A stop has its reason: a recorded failure, whose worker is on its way out, or a
\* failure of the producer itself, which then produces no more.
FailureShape ==
    /\ failure => worker \in {"signal", "last", "done"}
    /\ stopEvent => failure \/ producerFailure = "own"
    /\ producerFailure = "stopped" => failure
    /\ main \in Producing => producerFailure = "none"

Joined == {"discard", "report", "returned", "raised", "inconsistent"}

\* What the main thread's program counter says of the events it put and of the worker.
MainShape ==
    /\ main \in {"check", "poll", "put", "publish"} => Current \in LineEvents
    /\ main \in {"stopPoll", "stopPut"} => enqueuedEvents = NumEvents
    /\ main \in {"joining"} \cup Joined /\ producerFailure = "none" => enqueuedEvents = NumEvents
    /\ main \in Joined => worker = "done"
    /\ main = "returned" => ~failure /\ producerFailure = "none"
    /\ main # "inconsistent"

LineInv ==
    /\ TypeOK
    /\ WorkerShape
    /\ FailureShape
    /\ MainShape
    /\ NoDropInOrder
    /\ BookkeepingExact

-----------------------------------------------------------------------------
\* Appending to a sequence, and taking its head, as the two ends of the queue do.
LEMMA AppendEntry ==
    ASSUME NEW S, NEW s \in Seq(S), NEW e \in S
    PROVE  /\ Append(s, e) \in Seq(S)
           /\ Len(Append(s, e)) = Len(s) + 1
           /\ DOMAIN Append(s, e) = 1 .. Len(s) + 1
           /\ DOMAIN s = 1 .. Len(s)
           /\ \A i \in 1 .. Len(s) : Append(s, e)[i] = s[i]
           /\ Append(s, e)[Len(s) + 1] = e
OBVIOUS

LEMMA HeadEntry ==
    ASSUME NEW S, NEW s \in Seq(S), s # <<>>
    PROVE  /\ Head(s) = s[1] /\ Head(s) \in S
           /\ Tail(s) \in Seq(S)
           /\ Len(Tail(s)) = Len(s) - 1
           /\ Len(s) \in Nat \ {0}
           /\ DOMAIN Tail(s) = 1 .. Len(s) - 1
           /\ DOMAIN s = 1 .. Len(s)
           /\ \A i \in 1 .. Len(s) - 1 : Tail(s)[i] = s[i + 1]
OBVIOUS

\* Every step keeps the types, for any number of events and any queue size
\* (work_queue, both threads' states and the results of _run_worker).
LEMMA TypeStep == ASSUME LineInv, [Next]_vars PROVE TypeOK'
<1> DEFINE Entries == LineEvents \cup {StopWorker}
<1> USE QueuedLineAssumption DEF LineInv, TypeOK, MainPcs, WorkerPcs, GoTo, WorkerGoesTo,
                               queueVars, mainVars, workerVars
<1>1. CASE WaitForCaptureDeadline \/ AllProduced \/ LookAtStopEvent \/ PutTimesOut \/ ProducerFails
  BY <1>1 DEF WaitForCaptureDeadline, AllProduced, LookAtStopEvent, PutTimesOut, ProducerFails,
              ProducerRaises
<1>2. CASE Put
  <2>1. Current \in LineEvents \/ main # "put"
    BY DEF MainShape
  <2>2. workQueue' \in Seq(Entries) /\ Len(workQueue') = Len(workQueue) + 1
    BY <1>2, <2>1, AppendEntry DEF Put
  <2>3. Len(workQueue) < QueueSize
    BY <1>2 DEF Put, QueueFull
  <2> QED  BY <1>2, <2>2, <2>3 DEF Put
<1>3. CASE Publish
  BY <1>3 DEF Publish, MainShape, Current, LineEvents
<1>4. CASE JoinWorker \/ Report \/ Interrupt
  BY <1>4 DEF JoinWorker, Report, Interrupt
<1>5. CASE DiscardRemaining
  <2>1. unfinishedTasks' \in Nat
    BY <1>5 DEF DiscardRemaining, BookkeepingExact
  <2>2. workQueue' \in Seq(Entries) /\ Len(workQueue') <= QueueSize
    BY <1>5 DEF DiscardRemaining
  <2> QED  BY <1>5, <2>1, <2>2 DEF DiscardRemaining
<1>6. CASE WorkerChecks \/ GetTimesOut \/ EnqueueReady \/ RequestFails \/ WriteEvent
  BY <1>6 DEF WorkerChecks, GetTimesOut, EnqueueReady, RequestFails, WriteEvent
<1>7. CASE Get
  <2>1. Head(workQueue) \in Entries /\ workQueue' \in Seq(Entries)
        /\ Len(workQueue') = Len(workQueue) - 1
    BY <1>7, HeadEntry DEF Get
  <2> QED  BY <1>7, <2>1 DEF Get
<1>8. CASE RequestSucceeds
  <2>1. entry \in LineEvents
    BY <1>8 DEF RequestSucceeds, WorkerShape
  <2>2. results' \in Seq(LineEvents)
    BY <1>8, <2>1, AppendEntry DEF RequestSucceeds
  <2> QED  BY <1>8, <2>2 DEF RequestSucceeds
<1>9. CASE RecordFailure \/ SignalStop
  BY <1>9 DEF RecordFailure, SignalStop
<1>10. CASE TaskDone
  <2>1. unfinishedTasks' \in Nat
    BY <1>10 DEF TaskDone, BookkeepingExact, WorkerShape
  <2> QED  BY <1>10, <2>1 DEF TaskDone
<1>11. CASE UNCHANGED vars
  BY <1>11 DEF vars
<1> QED
  BY <1>1, <1>2, <1>3, <1>4, <1>5, <1>6, <1>7, <1>8, <1>9, <1>10, <1>11
     DEF Next, MainStep, WorkerStep

\* task_done is called once for each entry (the finally clause of _run_worker and
\* _discard_remaining_entries).
LEMMA BookkeepingStep == ASSUME LineInv, [Next]_vars PROVE BookkeepingExact'
<1> USE QueuedLineAssumption
        DEF LineInv, TypeOK, BookkeepingExact, WorkerShape, GoTo, WorkerGoesTo, queueVars,
            mainVars, workerVars, None
<1>1. CASE Put
  <2>1. Current \in LineEvents \/ main # "put"
    BY DEF MainShape
  <2>2. Len(workQueue') = Len(workQueue) + 1
    BY <1>1, <2>1, AppendEntry DEF Put
  <2> QED  BY <1>1, <2>2 DEF Put
<1>2. CASE Get
  <2>1. /\ Len(workQueue') = Len(workQueue) - 1
        /\ Head(workQueue) \in LineEvents \cup {StopWorker}
    BY <1>2, HeadEntry DEF Get
  <2>2. entry = None /\ entry' # None
    BY <1>2, <2>1 DEF Get, LineEvents, StopWorker
  <2> QED  BY <1>2, <2>1, <2>2 DEF Get
<1>3. CASE DiscardRemaining
  <2>1. worker = "done"
    BY <1>3 DEF DiscardRemaining, MainShape, Joined
  <2> QED  BY <1>3, <2>1 DEF DiscardRemaining
<1>4. CASE TaskDone
  BY <1>4 DEF TaskDone
<1>5. CASE UNCHANGED <<workQueue, unfinishedTasks, entry>>
  BY <1>5
<1> QED
  BY <1>1, <1>2, <1>3, <1>4, <1>5
     DEF Next, MainStep, WorkerStep, WaitForCaptureDeadline, AllProduced, LookAtStopEvent,
         PutTimesOut, ProducerFails, ProducerRaises, Publish, JoinWorker, Report, Interrupt, WorkerChecks,
         GetTimesOut, EnqueueReady, RequestSucceeds, RequestFails, WriteEvent, RecordFailure,
         SignalStop, vars

\* Both program counters keep telling the truth: in particular a worker without
\* failure leaves at the stop signal only, when each event has its result.
LEMMA ShapeStep == ASSUME LineInv, [Next]_vars PROVE WorkerShape' /\ FailureShape' /\ MainShape'
<1> USE QueuedLineAssumption
        DEF LineInv, WorkerShape, FailureShape, MainShape, Joined, Producing, GoTo, WorkerGoesTo, queueVars,
            mainVars, workerVars, None, LineEvents, StopWorker, Current
<1>t. enqueuedEvents \in 0 .. NumEvents /\ Len(results) \in Nat
  BY DEF TypeOK
<1>1. CASE WaitForCaptureDeadline \/ AllProduced \/ ProducerFails
  <2>1. UNCHANGED <<enqueuedEvents, worker, entry, results, failure>>
    BY <1>1 DEF WaitForCaptureDeadline, AllProduced, ProducerFails, ProducerRaises
  <2>2. /\ producerFailure = "none" /\ main \in Producing
        /\ \/ UNCHANGED <<stopEvent, producerFailure>>
           \/ stopEvent' /\ main' = "joining" /\ producerFailure' = "own"
           \/ stopEvent' /\ main' = "joining" /\ producerFailure' = "stopped" /\ stopEvent
    BY <1>1 DEF WaitForCaptureDeadline, AllProduced, ProducerFails, ProducerRaises
  <2>3. WorkerShape'
    BY <2>1, <2>2
  <2>4. FailureShape'
    BY <1>1, <2>1, <2>2 DEF WaitForCaptureDeadline, AllProduced, ProducerFails, ProducerRaises
  <2>5. MainShape'
    BY <1>1, <1>t, <2>1, <2>2 DEF WaitForCaptureDeadline, AllProduced, ProducerFails, ProducerRaises
  <2> QED  BY <2>3, <2>4, <2>5
<1>2. CASE LookAtStopEvent \/ PutTimesOut \/ Put
  <2>1. UNCHANGED <<enqueuedEvents, worker, entry, results, failure>>
    BY <1>2 DEF LookAtStopEvent, ProducerRaises, PutTimesOut, Put
  <2>2. WorkerShape'
    <3>1. producerFailure = "none" /\ producerFailure' \in {"none", "stopped"}
      BY <1>2 DEF LookAtStopEvent, ProducerRaises, PutTimesOut, Put
    <3> QED  BY <2>1, <3>1
  <2>3. FailureShape'
    BY <1>2, <2>1 DEF LookAtStopEvent, ProducerRaises, PutTimesOut, Put
  <2>4. MainShape'
    BY <1>2, <2>1 DEF LookAtStopEvent, ProducerRaises, PutTimesOut, Put
  <2> QED  BY <2>2, <2>3, <2>4
<1>2a. CASE Publish
  BY <1>2a, <1>t DEF Publish
<1>3. CASE JoinWorker \/ DiscardRemaining \/ Report \/ Interrupt
  BY <1>3 DEF JoinWorker, DiscardRemaining, Report, Interrupt
<1>4. CASE WorkerChecks \/ GetTimesOut \/ EnqueueReady \/ RequestFails \/ WriteEvent
  <2>1. UNCHANGED <<stopEvent, enqueuedEvents, producerFailure, main, entry, results, failure>>
    BY <1>4 DEF WorkerChecks, GetTimesOut, EnqueueReady, RequestFails, WriteEvent
  <2>2. entry = None \/ entry \in LineEvents
    BY <1>4 DEF WorkerChecks, GetTimesOut, EnqueueReady, RequestFails, WriteEvent, TypeOK
  <2>3. CASE WorkerChecks \/ GetTimesOut
    BY <2>1, <2>3 DEF WorkerChecks, GetTimesOut
  <2>4. CASE EnqueueReady \/ RequestFails
    BY <2>1, <2>4 DEF EnqueueReady, RequestFails
  <2>5. CASE WriteEvent
    BY <1>t, <2>1, <2>2, <2>5 DEF WriteEvent
  <2> QED  BY <1>4, <2>3, <2>4, <2>5
<1>5. CASE Get
  <2>1. /\ Head(workQueue) = workQueue[1] /\ 1 \in DOMAIN workQueue
        /\ Head(workQueue) \in LineEvents \cup {StopWorker}
    BY <1>5, HeadEntry DEF Get, TypeOK
  <2>2. Head(workQueue) = Len(results) + 1 /\ entry = None /\ ~failure
    BY <1>5, <2>1 DEF Get, NoDropInOrder, Taken
  <2>3. Len(results) \in Nat
    BY DEF TypeOK
  <2> QED  BY <1>5, <2>1, <2>2, <2>3 DEF Get
<1>6. CASE RequestSucceeds
  <2>1. Len(results') = Len(results) + 1
    BY <1>6, AppendEntry DEF RequestSucceeds, TypeOK
  <2> QED  BY <1>6, <2>1 DEF RequestSucceeds
<1>7. CASE RecordFailure \/ SignalStop \/ TaskDone
  BY <1>7 DEF RecordFailure, SignalStop, TaskDone
<1>8. CASE UNCHANGED vars
  BY <1>8 DEF vars
<1> QED
  BY <1>1, <1>2, <1>2a, <1>3, <1>4, <1>5, <1>6, <1>7, <1>8 DEF Next, MainStep, WorkerStep

\* The queue stays a run of consecutive entries from the worker to the producer.
LEMMA OrderStep == ASSUME LineInv, [Next]_vars PROVE NoDropInOrder'
<1> USE QueuedLineAssumption
        DEF LineInv, NoDropInOrder, Taken, LastPut, Producing, Current, GoTo, WorkerGoesTo,
            queueVars, mainVars, workerVars, None
<1>t. /\ Len(workQueue) \in Nat /\ DOMAIN workQueue = 1 .. Len(workQueue)
      /\ Len(results) \in Nat /\ DOMAIN results = 1 .. Len(results)
      /\ enqueuedEvents \in Nat /\ entry \in Nat
  BY DEF TypeOK, LineEvents, StopWorker
<1>1. CASE WaitForCaptureDeadline \/ AllProduced \/ LookAtStopEvent \/ PutTimesOut \/ ProducerFails
  BY <1>1 DEF WaitForCaptureDeadline, AllProduced, LookAtStopEvent, PutTimesOut, ProducerFails,
              ProducerRaises
<1>2. CASE Put
  <2> DEFINE e == IF main = "put" THEN Current ELSE StopWorker
  <2>1. e = enqueuedEvents + 1 /\ e \in LineEvents \cup {StopWorker}
    BY <1>2, <1>t DEF Put, MainShape, StopWorker, LineEvents
  <2> HIDE DEF e
  <2>2. workQueue' = Append(workQueue, e)
    BY <1>2 DEF Put, e
  <2>3. /\ Len(workQueue') = Len(workQueue) + 1
        /\ DOMAIN workQueue' = 1 .. Len(workQueue) + 1
        /\ \A i \in 1 .. Len(workQueue) : workQueue'[i] = workQueue[i]
        /\ workQueue'[Len(workQueue) + 1] = e
    BY <2>1, <2>2, AppendEntry DEF TypeOK
  <2>4. /\ main \in {"put", "stopPut"} /\ main' \in {"publish", "joining"}
        /\ main' = "publish" <=> main = "put"
        /\ UNCHANGED <<enqueuedEvents, worker, entry, results>>
    BY <1>2 DEF Put
  <2>5. /\ Taken \in Nat
        /\ worker # "done" => /\ \A i \in 1 .. Len(workQueue) : workQueue[i] = Taken + i
                              /\ Taken + Len(workQueue) = enqueuedEvents
        /\ \A i \in 1 .. Len(workQueue) : workQueue[i] = enqueuedEvents - Len(workQueue) + i
    BY <1>t, <2>4
  <2>6. LastPut' = IF main = "put" THEN enqueuedEvents + 1 ELSE enqueuedEvents
    BY <2>4
  <2>7. main' \in Producing => main = "put"
    BY <2>4
  <2>8. UNCHANGED Taken
    BY <2>4
  <2> HIDE DEF NoDropInOrder, LineInv, Taken, LastPut, Producing
  <2>9. worker # "done" => \A i \in 1 .. Len(workQueue) + 1 : workQueue'[i] = Taken + i
    BY <1>t, <2>1, <2>3, <2>5
  <2>10. \A i \in 1 .. Len(workQueue) + 1 :
           workQueue'[i] = (enqueuedEvents + 1) - (Len(workQueue) + 1) + i
    BY <1>t, <2>1, <2>3, <2>5
  <2>11. worker # "done" => Taken + (Len(workQueue) + 1) = enqueuedEvents + 1
    BY <1>t, <2>5
  <2>12. worker' # "done" => /\ Taken' - Len(results') \in {0, 1}
                             /\ \A i \in DOMAIN workQueue' : workQueue'[i] = Taken' + i
    BY <2>3, <2>4, <2>8, <2>9 DEF NoDropInOrder, LineInv
  <2>13. worker' # "done" /\ main' \in Producing => Taken' + Len(workQueue') = LastPut'
    BY <2>3, <2>4, <2>6, <2>7, <2>8, <2>11
  <2>14. main' \in Producing =>
           \A i \in DOMAIN workQueue' : workQueue'[i] = LastPut' - Len(workQueue') + i
    BY <2>3, <2>6, <2>7, <2>10
  <2>15. \A i \in DOMAIN results' : results'[i] = i
    BY <2>4 DEF NoDropInOrder, LineInv
  <2> QED  BY <2>12, <2>13, <2>14, <2>15 DEF NoDropInOrder
<1>3. CASE Publish
  BY <1>3, <1>t DEF Publish
<1>4. CASE JoinWorker \/ Report \/ Interrupt
  BY <1>4 DEF JoinWorker, Report, Interrupt
<1>5. CASE DiscardRemaining
  BY <1>5 DEF DiscardRemaining, MainShape, Joined
<1>6. CASE WorkerChecks \/ GetTimesOut \/ EnqueueReady \/ RequestFails \/ WriteEvent
  BY <1>6 DEF WorkerChecks, GetTimesOut, EnqueueReady, RequestFails, WriteEvent, FailureShape
<1>7. CASE Get
  <2>1. /\ Head(workQueue) = workQueue[1] /\ 1 \in DOMAIN workQueue
        /\ Head(workQueue) \in LineEvents \cup {StopWorker}
        /\ Len(workQueue') = Len(workQueue) - 1
        /\ DOMAIN workQueue' = 1 .. Len(workQueue) - 1
        /\ \A i \in 1 .. Len(workQueue) - 1 : workQueue'[i] = workQueue[i + 1]
    BY <1>7, HeadEntry DEF Get, TypeOK
  <2>2. entry = None /\ worker # "done" /\ entry' = Len(results) + 1
    BY <1>7, <2>1 DEF Get, WorkerShape
  <2>3. UNCHANGED <<main, enqueuedEvents, results>>
    BY <1>7 DEF Get
  <2>4. /\ \A i \in 1 .. Len(workQueue) : workQueue[i] = Len(results) + i
        /\ main \in Producing => Len(results) + Len(workQueue) = LastPut
    BY <1>t, <2>2
  <2>5. Taken' = Len(results) + 1 /\ LastPut' = LastPut /\ main' = main /\ results' = results
    BY <1>t, <2>2, <2>3
  <2>7. \A i \in DOMAIN results : results[i] = i
    OBVIOUS
  <2> HIDE DEF NoDropInOrder, LineInv, Taken, LastPut, Producing
  <2>6. LastPut \in Nat
    BY <1>t DEF LastPut, Current
  <2>8. \A i \in DOMAIN workQueue' : workQueue'[i] = Len(results) + 1 + i
    BY <1>t, <2>1, <2>4
  <2>9. main \in Producing => (Len(results) + 1) + Len(workQueue') = LastPut
    BY <1>t, <2>1, <2>4
  <2>10. main \in Producing =>
           \A i \in DOMAIN workQueue' : workQueue'[i] = LastPut - Len(workQueue') + i
    BY <1>t, <2>1, <2>6, <2>8, <2>9
  <2>11. (Len(results) + 1) - Len(results) \in {0, 1}
    BY <1>t
  <2> QED  BY <2>5, <2>7, <2>8, <2>9, <2>10, <2>11 DEF NoDropInOrder
<1>8. CASE RequestSucceeds
  <2>1. entry = Len(results) + 1 /\ entry \in LineEvents /\ worker # "done"
    BY <1>8 DEF RequestSucceeds, WorkerShape
  <2>2. /\ Len(results') = Len(results) + 1
        /\ DOMAIN results' = 1 .. Len(results) + 1
        /\ \A i \in 1 .. Len(results) : results'[i] = results[i]
        /\ results'[Len(results) + 1] = entry
    BY <1>8, <2>1, AppendEntry DEF RequestSucceeds, TypeOK
  <2>3. UNCHANGED <<workQueue, main, enqueuedEvents, entry>> /\ worker' # "done"
    BY <1>8 DEF RequestSucceeds
  <2>4. \A i \in DOMAIN results' : results'[i] = i
    BY <1>t, <2>1, <2>2
  <2> QED  BY <1>t, <2>1, <2>2, <2>3, <2>4
<1>9. CASE RecordFailure \/ SignalStop
  BY <1>9 DEF RecordFailure, SignalStop
<1>10. CASE TaskDone
  BY <1>10, <1>t DEF TaskDone, WorkerShape
<1>11. CASE UNCHANGED vars
  BY <1>11 DEF vars
<1> QED
  BY <1>1, <1>2, <1>3, <1>4, <1>5, <1>6, <1>7, <1>8, <1>9, <1>10, <1>11
     DEF Next, MainStep, WorkerStep

LEMMA InitLine == Init => LineInv
<1> USE QueuedLineAssumption DEF Init
<1>0. /\ <<>> \in Seq(LineEvents \cup {StopWorker}) /\ <<>> \in Seq(LineEvents)
      /\ Len(<<>>) = 0
  OBVIOUS
<1>1. Init => TypeOK
  <2> SUFFICES ASSUME Init PROVE TypeOK
    OBVIOUS
  <2>1. workQueue \in Seq(LineEvents \cup {StopWorker}) /\ Len(workQueue) <= QueueSize
    BY <1>0
  <2>2. results \in Seq(LineEvents)
    BY <1>0
  <2>3. unfinishedTasks \in Nat /\ enqueuedEvents \in 0 .. NumEvents
    OBVIOUS
  <2>4. ready \subseteq LineEvents
    OBVIOUS
  <2>5. entry \in LineEvents \cup {StopWorker, None}
    OBVIOUS
  <2>6. stopEvent \in BOOLEAN /\ producerFailure \in {"none", "own", "stopped"} /\ failure \in BOOLEAN
    OBVIOUS
  <2>7. main \in MainPcs /\ worker \in WorkerPcs
    BY DEF MainPcs, WorkerPcs
  <2> QED  BY <2>1, <2>2, <2>3, <2>4, <2>5, <2>6, <2>7 DEF TypeOK
<1>2. Init => WorkerShape /\ FailureShape /\ MainShape /\ BookkeepingExact
  BY DEF WorkerShape, FailureShape, MainShape, Joined, BookkeepingExact, None
<1>3. Init => NoDropInOrder
  BY DEF NoDropInOrder, Taken, Producing, LastPut, None
<1> QED  BY <1>1, <1>2, <1>3 DEF LineInv

\* The inductive invariant of both threads of simulate_queued_inspection_line.
THEOREM LineInvariant == Spec => []LineInv
<1>1. LineInv /\ [Next]_vars => LineInv'
  BY TypeStep, BookkeepingStep, ShapeStep, OrderStep DEF LineInv
<1> QED  BY <1>1, InitLine, PTL DEF Spec

\* Every state is well typed; the queue never exceeds its size.
THEOREM LineTypes == Spec => []TypeOK
BY LineInvariant, PTL DEF LineInv

\* No event is dropped, duplicated or overtaken, however the two threads race.
THEOREM LineKeepsOrder == Spec => []NoDropInOrder
BY LineInvariant, PTL DEF LineInv

\* The unfinished-task count is exact at every moment.
THEOREM LineBookkeeping == Spec => []BookkeepingExact
BY LineInvariant, PTL DEF LineInv

\* A producer that was stopped was stopped by a recorded failure, which is what the
\* caller is told, and the error "inconsistent event counts" of the simulator cannot
\* occur: for any number of events and queue size, also when the producer fails itself.
THEOREM LineReportsNoConsequence == Spec => []NoConsequenceReported
BY LineInvariant, PTL DEF LineInv, FailureShape, MainShape, NoConsequenceReported

\* After a recorded failure the worker takes and inspects nothing more.
THEOREM LineStopsAtFailure == Spec => FailedEventIsLast
<1>1. LineInv /\ [Next]_vars => [failure => results' = results /\ entry' \in {entry, None}]_vars
  <2> SUFFICES ASSUME LineInv, [Next]_vars, failure
               PROVE  results' = results /\ entry' \in {entry, None}
    OBVIOUS
  <2> QED
    BY DEF LineInv, FailureShape, Next, MainStep, WorkerStep, GoTo, WorkerGoesTo, queueVars,
           mainVars, workerVars, WaitForCaptureDeadline, AllProduced, LookAtStopEvent,
           PutTimesOut, ProducerFails, ProducerRaises, Put, Publish, JoinWorker, DiscardRemaining, Report,
           Interrupt, WorkerChecks, GetTimesOut, Get, EnqueueReady, RequestSucceeds,
           RequestFails, WriteEvent, RecordFailure, SignalStop, TaskDone, vars
<1> QED  BY <1>1, LineInvariant, PTL DEF Spec, FailedEventIsLast

\* What the promise shows of a run.
Outcome == CASE main = "returned" -> "passed"
             [] main \in {"raised", "inconsistent"} -> "failed"
             [] OTHER -> "running"

\* Queue and threads implement the promise: a response is an inspection, the report
\* is the outcome, and every other step is invisible.
LEMMA PromiseStep ==
    ASSUME LineInv, [Next]_vars PROVE [Promise!Next]_<<results, Outcome>>
<1>1. CASE RequestSucceeds
  <2>1. entry = Len(results) + 1 /\ entry \in LineEvents
    BY <1>1 DEF RequestSucceeds, LineInv, WorkerShape
  <2>2. Len(results) < NumEvents /\ results' = Append(results, Len(results) + 1)
    <3>1. Len(results) \in Nat
      BY DEF LineInv, TypeOK
    <3> QED  BY <1>1, <2>1, <3>1, QueuedLineAssumption DEF RequestSucceeds, LineEvents
  <2>3. main \notin Joined /\ main' = main
    BY <1>1 DEF RequestSucceeds, LineInv, MainShape, mainVars
  <2>4. Outcome = "running" /\ Outcome' = Outcome
    BY <2>3 DEF Outcome, Joined
  <2> QED  BY <2>2, <2>4 DEF Promise!Next, Promise!Inspect, Outcome
<1>2. CASE Report
  <2>1. main = "report" /\ UNCHANGED results
    BY <1>2 DEF Report, GoTo, workerVars
  <2>2. CASE main' = "raised"
    BY <2>1, <2>2 DEF Promise!Next, Promise!Fail, Outcome
  <2>3. CASE main' = "inconsistent"
    BY <2>1, <2>3 DEF Promise!Next, Promise!Fail, Outcome
  <2>4. CASE main' = "returned" /\ Len(results) = NumEvents
    BY <2>1, <2>4 DEF Promise!Next, Promise!Pass, Outcome
  <2> QED  BY <1>2, <2>2, <2>3, <2>4 DEF Report, GoTo
<1>3. CASE Interrupt
  BY <1>3 DEF Interrupt, GoTo, Outcome, workerVars
<1>4. CASE MainStep /\ ~Report
  <2>1. UNCHANGED results
    BY <1>4 DEF MainStep, GoTo, workerVars, WaitForCaptureDeadline, AllProduced,
                LookAtStopEvent, PutTimesOut, ProducerFails, ProducerRaises, Put, Publish, JoinWorker,
                DiscardRemaining
  <2>2. /\ main \notin {"returned", "raised", "inconsistent"}
        /\ main' \notin {"returned", "raised", "inconsistent"}
    BY <1>4 DEF MainStep, GoTo, WaitForCaptureDeadline, AllProduced, LookAtStopEvent,
                PutTimesOut, ProducerFails, ProducerRaises, Put, Publish, JoinWorker, DiscardRemaining
  <2> QED  BY <2>1, <2>2 DEF Outcome
<1>5. CASE WorkerStep /\ ~RequestSucceeds
  <2>1. UNCHANGED <<results, main>>
    BY <1>5 DEF WorkerStep, WorkerGoesTo, queueVars, mainVars, WorkerChecks, GetTimesOut, Get,
                EnqueueReady, RequestFails, WriteEvent, RecordFailure, SignalStop, TaskDone
  <2> QED  BY <2>1 DEF Outcome
<1>6. CASE UNCHANGED vars
  BY <1>6 DEF vars, mainVars, workerVars, Outcome
<1> QED  BY <1>1, <1>2, <1>3, <1>4, <1>5, <1>6 DEF Next

\* A line run refines inspection in schedule order, for any queue size and any failure.
THEOREM LineRefinesPromise == Spec => ImplementsPromise
<1>1. Init => Promise!Init
  BY DEF Init, Promise!Init
<1>2. LineInv /\ [Next]_vars =>
        [Promise!Next]_<<results, CASE main = "returned" -> "passed"
                                    [] main \in {"raised", "inconsistent"} -> "failed"
                                    [] OTHER -> "running">>
  BY PromiseStep DEF Outcome
<1> QED  BY LineInvariant, <1>1, <1>2, PTL DEF Spec, ImplementsPromise, Promise!Spec

-----------------------------------------------------------------------------
(* What the threads wait for.  Neither wait has an end of its own: join    *)
(* has no timeout, and the worker waits for enqueue_ready without looking  *)
(* at stop_event.                                                          *)

\* The timestamps that are there, the reason of every stop, and the stop signal
\* behind the last event.
WaitShape ==
    /\ ready = 1 .. enqueuedEvents
    /\ producerFailure # "none" => stopEvent
    /\ worker = "last" /\ ~stopEvent => entry = StopWorker
    /\ main = "joining" /\ producerFailure = "none" /\ worker # "done" =>
          Taken + Len(workQueue) = StopWorker
    /\ main = "joining" /\ producerFailure = "own" /\ worker # "done" =>
          Taken + Len(workQueue) <= Current
    /\ worker = "done" /\ ~stopEvent => main \in {"joining", "interrupted"} \cup Joined

\* A worker that waits for the timestamp of its entry waits for a producer that is
\* about to publish it, or whose clock failed at just this entry; a main thread that
\* joins waits for a worker that has met a failure, is told to stop or has the stop
\* signal before it; and a producer that finds the queue full of a worker that is gone
\* sees stop_event at its next attempt.
WaitsHaveAnEnd ==
    /\ worker = "ready" => \/ entry \in ready
                           \/ main = "publish" /\ entry = Current
                           \/ producerFailure = "own" /\ entry = Current
                           \/ main = "interrupted"
    /\ main = "joining" /\ worker # "done" =>
          \/ stopEvent \/ worker \in {"failed", "signal"}
          \/ entry = StopWorker
          \/ workQueue # <<>> /\ workQueue[Len(workQueue)] = StopWorker
    /\ main \in {"put", "stopPut"} /\ worker = "done" => stopEvent

LEMMA WaitStep == ASSUME LineInv, WaitShape, [Next]_vars PROVE WaitShape'
<1> USE QueuedLineAssumption
        DEF LineInv, WaitShape, Current, GoTo, WorkerGoesTo, queueVars, mainVars, workerVars
<1>t. /\ enqueuedEvents \in 0 .. NumEvents /\ Len(workQueue) \in Nat /\ Len(results) \in Nat
      /\ entry \in Nat /\ Taken \in Nat /\ None = 0 /\ StopWorker = NumEvents + 1
  BY DEF TypeOK, LineEvents, StopWorker, None, Taken
<1>f. main \in Producing => producerFailure = "none"
  BY DEF FailureShape
<1>p. main \in {"stopPoll", "stopPut"} => enqueuedEvents = NumEvents
  BY DEF MainShape
<1>1. CASE WaitForCaptureDeadline \/ AllProduced \/ PutTimesOut \/ JoinWorker \/ Report \/ Interrupt
  <2>1. UNCHANGED <<ready, enqueuedEvents, worker, entry, results, workQueue, Taken>>
    BY <1>1 DEF WaitForCaptureDeadline, AllProduced, ProducerRaises, PutTimesOut, JoinWorker,
                Report, Interrupt, Taken
  <2> QED
    BY <1>1, <2>1 DEF WaitForCaptureDeadline, AllProduced, ProducerRaises, PutTimesOut,
                      JoinWorker, Report, Interrupt, Joined
<1>1a. CASE ProducerFails
  <2>1. UNCHANGED <<ready, enqueuedEvents, worker, entry, results, workQueue, Taken>>
        /\ stopEvent' /\ main' = "joining" /\ producerFailure' = "own" /\ main \in Producing
    BY <1>1a DEF ProducerFails, ProducerRaises, Taken, Producing
  <2>2. worker # "done" => Taken + Len(workQueue) <= Current
    BY <1>t, <2>1 DEF NoDropInOrder, LastPut
  <2> QED  BY <2>1, <2>2
<1>2. CASE LookAtStopEvent
  <2>1. UNCHANGED <<ready, enqueuedEvents, worker, entry, results, workQueue, Taken>>
    BY <1>2 DEF LookAtStopEvent, ProducerRaises, Taken
  <2> QED  BY <1>2, <2>1 DEF LookAtStopEvent, ProducerRaises, Joined
<1>3. CASE Put
  <2> DEFINE e == IF main = "put" THEN Current ELSE StopWorker
  <2>1. e \in LineEvents \cup {StopWorker} /\ workQueue' = Append(workQueue, e)
    BY <1>3 DEF Put, MainShape
  <2> HIDE DEF e
  <2>2. Len(workQueue') = Len(workQueue) + 1
    BY <2>1, AppendEntry DEF TypeOK
  <2>3. UNCHANGED <<ready, enqueuedEvents, worker, entry, results, stopEvent, producerFailure>>
        /\ Taken' = Taken
    BY <1>3 DEF Put, Taken
  <2>4. main' = "joining" => main = "stopPut"
    BY <1>3 DEF Put
  <2>5. main = "stopPut" /\ worker # "done" => Taken + Len(workQueue) = enqueuedEvents
    BY DEF NoDropInOrder, Producing, LastPut
  <2>6. main' = "joining" /\ worker # "done" => Taken + Len(workQueue) + 1 = StopWorker
    BY <1>t, <1>p, <2>4, <2>5
  <2>7. worker = "done" => stopEvent
    BY <1>3 DEF Put, Joined
  <2>8. producerFailure = "none"
    BY <1>3, <1>f DEF Put, Producing
  <2> QED  BY <1>t, <2>2, <2>3, <2>6, <2>7, <2>8
<1>4. CASE Publish
  <2>1. UNCHANGED <<worker, entry, stopEvent, producerFailure>> /\ main = "publish" /\ main' = "deadline"
    BY <1>4 DEF Publish
  <2>2. ready' = 1 .. enqueuedEvents'
    BY <1>4, <1>t DEF Publish, Current
  <2> QED  BY <2>1, <2>2 DEF Joined
<1>5. CASE DiscardRemaining
  BY <1>5 DEF DiscardRemaining, Joined
<1>6. CASE WorkerChecks \/ GetTimesOut \/ EnqueueReady \/ RequestFails \/ WriteEvent \/ RecordFailure
  <2>1. UNCHANGED <<ready, enqueuedEvents, main, entry, results, workQueue, stopEvent,
                    producerFailure, Taken>>
    BY <1>6 DEF WorkerChecks, GetTimesOut, EnqueueReady, RequestFails, WriteEvent, RecordFailure,
                Taken
  <2>2. worker' # "last" /\ worker # "done" /\ (worker' = "done" => stopEvent)
    BY <1>6 DEF WorkerChecks, GetTimesOut, EnqueueReady, RequestFails, WriteEvent, RecordFailure
  <2> QED  BY <2>1, <2>2
<1>7. CASE Get
  <2>1. /\ Head(workQueue) \in LineEvents \cup {StopWorker}
        /\ Len(workQueue') = Len(workQueue) - 1
        /\ Head(workQueue) = workQueue[1] /\ 1 \in DOMAIN workQueue
    BY <1>7, HeadEntry DEF Get, TypeOK
  <2>2. entry' = Taken + 1 /\ worker # "done"
    BY <1>7, <2>1 DEF Get, NoDropInOrder
  <2>3. Taken' = Taken + 1
    BY <1>t, <2>2 DEF Taken, None
  <2>4. worker' # "done" /\ (worker' = "last" => entry' = StopWorker)
    BY <1>7 DEF Get
  <2>5. UNCHANGED <<ready, enqueuedEvents, main, stopEvent, producerFailure>>
    BY <1>7 DEF Get
  <2> QED  BY <1>t, <2>1, <2>2, <2>3, <2>4, <2>5
<1>8. CASE RequestSucceeds
  <2>1. UNCHANGED <<ready, enqueuedEvents, main, entry, workQueue, stopEvent, producerFailure>>
        /\ worker # "done" /\ worker' = "write" /\ entry # None
    BY <1>8 DEF RequestSucceeds, WorkerShape
  <2>2. Taken' = Taken
    BY <2>1 DEF Taken
  <2> QED  BY <2>1, <2>2
<1>9. CASE SignalStop
  <2>1. UNCHANGED <<ready, enqueuedEvents, main, entry, results, workQueue, producerFailure, Taken>>
        /\ stopEvent' /\ worker' = "last" /\ worker # "done"
    BY <1>9 DEF SignalStop, Taken
  <2> QED  BY <2>1
<1>10. CASE TaskDone
  <2>1. UNCHANGED <<ready, enqueuedEvents, main, results, workQueue, stopEvent, producerFailure>>
        /\ worker \in {"taskDone", "last"} /\ worker' \in {"check", "done"} /\ entry' = None
        /\ (worker' = "done" <=> worker = "last")
    BY <1>10 DEF TaskDone
  <2>2. worker' # "done" => Taken' = Taken
    BY <1>t, <2>1 DEF WorkerShape, Taken
  <2>3. worker' = "done" /\ ~stopEvent => main \in {"joining", "interrupted"} \cup Joined
    <3> SUFFICES ASSUME worker = "last", ~stopEvent, main \in Producing PROVE FALSE
      BY <2>1 DEF TypeOK, MainPcs, Producing, Joined
    <3>1. Taken = StopWorker
      BY <1>t DEF Taken
    <3>2. Taken + Len(workQueue) = LastPut /\ LastPut <= NumEvents
      BY <1>t DEF NoDropInOrder, LastPut, MainShape, Current, LineEvents
    <3> QED  BY <1>t, <3>1, <3>2
  <2> QED  BY <2>1, <2>2, <2>3
<1>11. CASE UNCHANGED vars
  <2>1. Taken' = Taken
    BY <1>11 DEF vars, Taken
  <2> QED  BY <1>11, <2>1 DEF vars
<1> QED
  BY <1>1, <1>1a, <1>2, <1>3, <1>4, <1>5, <1>6, <1>7, <1>8, <1>9, <1>10, <1>11
     DEF Next, MainStep, WorkerStep

LEMMA WaitShapeIsEnough == LineInv /\ WaitShape => WaitsHaveAnEnd
<1> SUFFICES ASSUME LineInv, WaitShape PROVE WaitsHaveAnEnd
  OBVIOUS
<1> USE QueuedLineAssumption
<1>t. /\ enqueuedEvents \in 0 .. NumEvents /\ Len(workQueue) \in Nat /\ Len(results) \in Nat
      /\ DOMAIN workQueue = 1 .. Len(workQueue) /\ DOMAIN results = 1 .. Len(results)
      /\ entry \in Nat /\ Taken \in Nat /\ None = 0 /\ StopWorker = NumEvents + 1
  BY DEF LineInv, TypeOK, LineEvents, StopWorker, None, Taken
<1>1. ASSUME worker = "ready"
      PROVE  \/ entry \in ready
             \/ main = "publish" /\ entry = Current
             \/ producerFailure = "own" /\ entry = Current
             \/ main = "interrupted"
  <2>1. entry \in LineEvents /\ entry # None /\ Taken = entry /\ ~failure
    BY <1>1, <1>t DEF LineInv, WorkerShape, FailureShape, Taken, LineEvents
  <2>2. CASE main \in Producing
    <3>1. entry + Len(workQueue) = LastPut
      BY <1>1, <2>1, <2>2 DEF LineInv, NoDropInOrder
    <3>2. entry \in ready \/ (main = "publish" /\ entry = Current)
      BY <1>t, <2>1, <3>1 DEF LastPut, Current, WaitShape, LineEvents
    <3> QED  BY <3>2
  <2>3. CASE main = "joining"
    <3>1. CASE producerFailure = "none"
      BY <2>1, <2>3, <3>1 DEF LineInv, MainShape, WaitShape, LineEvents
    <3>2. CASE producerFailure = "own"
      <4>1. entry <= Current /\ ready = 1 .. enqueuedEvents
        BY <1>1, <1>t, <2>1, <2>3, <3>2 DEF WaitShape, Current
      <4> QED  BY <1>t, <2>1, <3>2, <4>1 DEF Current, LineEvents
    <3>3. CASE producerFailure = "stopped"
      BY <2>1, <3>3 DEF LineInv, FailureShape
    <3> QED  BY <3>1, <3>2, <3>3 DEF LineInv, TypeOK
  <2>4. CASE main \in Joined
    BY <1>1, <2>4 DEF LineInv, MainShape
  <2> QED
    BY <2>2, <2>3, <2>4 DEF LineInv, TypeOK, MainPcs, Producing, Joined
<1>2. ASSUME main = "joining", worker # "done", ~stopEvent
      PROVE  \/ entry = StopWorker
             \/ workQueue # <<>> /\ workQueue[Len(workQueue)] = StopWorker
  <2>1. Taken + Len(workQueue) = StopWorker
    BY <1>2 DEF WaitShape
  <2>2. \A i \in DOMAIN workQueue : workQueue[i] = Taken + i
    BY <1>2 DEF LineInv, NoDropInOrder
  <2>3. CASE Len(workQueue) = 0
    <3>1. Taken = StopWorker
      BY <1>t, <2>1, <2>3
    <3>2. Len(results) # StopWorker
      <4> SUFFICES ASSUME Len(results) = StopWorker PROVE FALSE
        OBVIOUS
      <4>1. StopWorker \in DOMAIN results
        BY <1>t
      <4>2. results[StopWorker] \in LineEvents
        BY <4>1 DEF LineInv, TypeOK
      <4>3. results[StopWorker] = StopWorker
        BY <4>1 DEF LineInv, NoDropInOrder
      <4> QED  BY <1>t, <4>2, <4>3 DEF LineEvents
    <3> QED  BY <3>1, <3>2 DEF Taken
  <2>4. CASE Len(workQueue) # 0
    <3>1. Len(workQueue) \in DOMAIN workQueue
      BY <1>t, <2>4
    <3>2. workQueue # <<>>
      BY <2>4
    <3> QED  BY <2>1, <2>2, <3>1, <3>2
  <2> QED  BY <2>3, <2>4
<1>3. main \in {"put", "stopPut"} /\ worker = "done" => stopEvent
  BY DEF WaitShape, Joined
<1> QED  BY <1>1, <1>2, <1>3 DEF WaitsHaveAnEnd

\* No wait of the two threads is for something that cannot come any more, unless an
\* interrupt has taken the main thread away or its clock failed between the put of an
\* entry and its timestamp: for any number of events and queue size.
THEOREM LineWaitsHaveAnEnd == Spec => []WaitsHaveAnEnd
<1>1. Init => WaitShape
  BY QueuedLineAssumption DEF Init, WaitShape
<1>2. LineInv /\ WaitShape /\ [Next]_vars => WaitShape'
  BY WaitStep
<1> QED  BY <1>1, <1>2, WaitShapeIsEnough, LineInvariant, PTL DEF Spec

\* Without an interrupt the worker thread has ended before the caller learns the
\* outcome: what the interrupted run refutes is due to the interrupt alone.
THEOREM LineLeavesNoWorker == ASSUME ~Interrupts PROVE Spec => WorkerNeverLeftBehind
<1> DEFINE Uninterrupted == main # "interrupted"
<1>1. Init => Uninterrupted
  BY DEF Init
<1>2. Uninterrupted /\ [Next]_vars => Uninterrupted'
  <2> SUFFICES ASSUME Uninterrupted, [Next]_vars PROVE Uninterrupted'
    OBVIOUS
  <2> QED
    BY DEF Next, MainStep, WorkerStep, GoTo, WorkerGoesTo, mainVars, WaitForCaptureDeadline,
           AllProduced, LookAtStopEvent, PutTimesOut, ProducerFails, ProducerRaises, Put, Publish, JoinWorker,
           DiscardRemaining, Report, Interrupt, WorkerChecks, GetTimesOut, Get, EnqueueReady,
           RequestSucceeds, RequestFails, WriteEvent, RecordFailure, SignalStop, TaskDone, vars
<1>3. LineInv /\ Uninterrupted => (Ended \/ main = "interrupted" => worker = "done")
  BY DEF LineInv, MainShape, Joined, Ended
<1> QED
  BY <1>1, <1>2, <1>3, LineInvariant, PTL DEF Spec, WorkerNeverLeftBehind

=============================================================================
