--------------------------- MODULE PublisherProofs ---------------------------
(***************************************************************************)
(* Safety of LatestEventWinsPublisher for any number of events, retries,   *)
(* close() callers and idle waiters.  IInv (module Publisher) is           *)
(* inductive: one lemma per action shows that it is preserved, and the     *)
(* safety properties are conjuncts of it.  The flags are typed in a leaf   *)
(* of their own because the provers treat Boolean variables and            *)
(* arithmetic separately.                                                  *)
(***************************************************************************)
EXTENDS Publisher, TLAPS

USE DEF None, Truth, Undecided, NotifyAll, Idle, CountOverwrite, LeftPending, ToldToStop,
        Answered202, BudgetUsedUp,
        queueVars, workerVars, metricVars, serviceVars

LEMMA InitIInv == Init => IInv
<1> SUFFICES ASSUME Init PROVE IInv
  OBVIOUS
<1>1. FlagTypes
  BY Zenon DEF Init, FlagTypes
<1>2. DataTypes
  BY PublisherAssumption DEF Init, DataTypes, WorkerPcs, Fates
<1>3. WorkerShape /\ CloseShape
  BY DEF Init, WorkerShape, CloseShape
<1>4. Conservation
  BY DEF Init, Conservation
<1>5. NoLostWakeup /\ NothingStranded
  BY DEF Init, NoLostWakeup, NothingStranded
<1>6. QED
  BY <1>1, <1>2, <1>3, <1>4, <1>5 DEF IInv, TypeOK

-----------------------------------------------------------------------------
(* The producer and the owner of the publisher.                            *)

LEMMA StartKeeps == ASSUME IInv, Start PROVE IInv'
<1>1. FlagTypes'
  BY Zenon DEF Start, IInv, TypeOK, FlagTypes
<1>2. DataTypes'
  BY PublisherAssumption
     DEF Start, IInv, TypeOK, DataTypes, WorkerShape, WorkerPcs, Fates, Events, Request
<1>3. WorkerShape' /\ CloseShape'
  BY PublisherAssumption
     DEF Start, IInv, TypeOK, DataTypes, WorkerShape, CloseShape, NoLostWakeup, Events
<1>4. Conservation'
  BY DEF Start, IInv, TypeOK, DataTypes, Conservation, WorkerPcs, Events
<1>5. NoLostWakeup' /\ NothingStranded'
  BY PublisherAssumption
     DEF Start, IInv, TypeOK, DataTypes, WorkerShape, CloseShape, NoLostWakeup, NothingStranded, Events
<1>6. QED
  BY <1>1, <1>2, <1>3, <1>4, <1>5 DEF IInv, TypeOK

LEMMA SubmitKeeps == ASSUME IInv, Submit PROVE IInv'
<1>1. FlagTypes'
  BY Zenon DEF Submit, IInv, TypeOK, FlagTypes
<1>2. DataTypes'
  BY PublisherAssumption
     DEF Submit, IInv, TypeOK, DataTypes, WorkerShape, WorkerPcs, Fates, Events, Request
<1>3. WorkerShape' /\ CloseShape'
  BY PublisherAssumption
     DEF Submit, IInv, TypeOK, DataTypes, WorkerShape, CloseShape, NoLostWakeup, Events
<1>4. Conservation'
  BY DEF Submit, IInv, TypeOK, DataTypes, Conservation, WorkerPcs, Events
<1>5. NoLostWakeup' /\ NothingStranded'
  BY PublisherAssumption
     DEF Submit, IInv, TypeOK, DataTypes, WorkerShape, CloseShape, NoLostWakeup, NothingStranded, Events
<1>6. QED
  BY <1>1, <1>2, <1>3, <1>4, <1>5 DEF IInv, TypeOK

LEMMA CloseBeginKeeps == ASSUME IInv, NEW c \in Closers, CloseBegin(c) PROVE IInv'
<1>1. FlagTypes'
  BY Zenon DEF CloseBegin, IInv, TypeOK, FlagTypes
<1>2. DataTypes'
  BY PublisherAssumption
     DEF CloseBegin, IInv, TypeOK, DataTypes, WorkerShape, WorkerPcs, Fates, Events, Request
<1>3. WorkerShape' /\ CloseShape'
  BY PublisherAssumption
     DEF CloseBegin, IInv, TypeOK, DataTypes, WorkerShape, CloseShape, NoLostWakeup, Events
<1>4. Conservation'
  BY DEF CloseBegin, IInv, TypeOK, DataTypes, Conservation, WorkerPcs, Events
<1>5. NoLostWakeup' /\ NothingStranded'
  BY PublisherAssumption
     DEF CloseBegin, IInv, TypeOK, DataTypes, WorkerShape, CloseShape, NoLostWakeup, NothingStranded, Events
<1>6. QED
  BY <1>1, <1>2, <1>3, <1>4, <1>5 DEF IInv, TypeOK

LEMMA CloseJoinedKeeps == ASSUME IInv, NEW c \in Closers, CloseJoined(c) PROVE IInv'
<1>1. FlagTypes'
  BY Zenon DEF CloseJoined, IInv, TypeOK, FlagTypes
<1>2. DataTypes'
  BY PublisherAssumption
     DEF CloseJoined, IInv, TypeOK, DataTypes, WorkerShape, WorkerPcs, Fates, Events, Request
<1>3. WorkerShape' /\ CloseShape'
  BY PublisherAssumption
     DEF CloseJoined, IInv, TypeOK, DataTypes, WorkerShape, CloseShape, NoLostWakeup, Events
<1>4. Conservation'
  BY DEF CloseJoined, IInv, TypeOK, DataTypes, Conservation, WorkerPcs, Events
<1>5. NoLostWakeup' /\ NothingStranded'
  BY PublisherAssumption
     DEF CloseJoined, IInv, TypeOK, DataTypes, WorkerShape, CloseShape, NoLostWakeup, NothingStranded, Events
<1>6. QED
  BY <1>1, <1>2, <1>3, <1>4, <1>5 DEF IInv, TypeOK

LEMMA CloseTimeoutKeeps == ASSUME IInv, NEW c \in Closers, CloseTimeout(c) PROVE IInv'
<1>1. FlagTypes'
  BY Zenon DEF CloseTimeout, IInv, TypeOK, FlagTypes
<1>2. DataTypes'
  BY PublisherAssumption
     DEF CloseTimeout, IInv, TypeOK, DataTypes, WorkerShape, WorkerPcs, Fates, Events, Request
<1>3. WorkerShape' /\ CloseShape'
  BY PublisherAssumption
     DEF CloseTimeout, IInv, TypeOK, DataTypes, WorkerShape, CloseShape, NoLostWakeup, Events
<1>4. Conservation'
  BY DEF CloseTimeout, IInv, TypeOK, DataTypes, Conservation, WorkerPcs, Events
<1>5. NoLostWakeup' /\ NothingStranded'
  BY PublisherAssumption
     DEF CloseTimeout, IInv, TypeOK, DataTypes, WorkerShape, CloseShape, NoLostWakeup, NothingStranded, Events
<1>6. QED
  BY <1>1, <1>2, <1>3, <1>4, <1>5 DEF IInv, TypeOK

LEMMA CloseFinishKeeps == ASSUME IInv, NEW c \in Closers, CloseFinish(c) PROVE IInv'
<1>1. FlagTypes'
  BY Zenon DEF CloseFinish, IInv, TypeOK, FlagTypes
<1>2. DataTypes'
  BY PublisherAssumption
     DEF CloseFinish, IInv, TypeOK, DataTypes, WorkerShape, WorkerPcs, Fates, Events, Request
<1>3. WorkerShape' /\ CloseShape'
  BY PublisherAssumption
     DEF CloseFinish, IInv, TypeOK, DataTypes, WorkerShape, CloseShape, NoLostWakeup, Events
<1>4. Conservation'
  BY DEF CloseFinish, IInv, TypeOK, DataTypes, Conservation, WorkerPcs, Events
<1>5. NoLostWakeup' /\ NothingStranded'
  BY PublisherAssumption
     DEF CloseFinish, IInv, TypeOK, DataTypes, WorkerShape, CloseShape, NoLostWakeup, NothingStranded, Events
<1>6. QED
  BY <1>1, <1>2, <1>3, <1>4, <1>5 DEF IInv, TypeOK

LEMMA IdleWaitKeeps == ASSUME IInv, NEW w \in Waiters, IdleWait(w) PROVE IInv'
<1>1. FlagTypes'
  BY Zenon DEF IdleWait, IInv, TypeOK, FlagTypes
<1>2. DataTypes'
  BY PublisherAssumption
     DEF IdleWait, IInv, TypeOK, DataTypes, WorkerShape, WorkerPcs, Fates, Events, Request
<1>3. WorkerShape' /\ CloseShape'
  BY PublisherAssumption
     DEF IdleWait, IInv, TypeOK, DataTypes, WorkerShape, CloseShape, NoLostWakeup, Events
<1>4. Conservation'
  BY DEF IdleWait, IInv, TypeOK, DataTypes, Conservation, WorkerPcs, Events
<1>5. NoLostWakeup' /\ NothingStranded'
  BY PublisherAssumption
     DEF IdleWait, IInv, TypeOK, DataTypes, WorkerShape, CloseShape, NoLostWakeup, NothingStranded, Events
<1>6. QED
  BY <1>1, <1>2, <1>3, <1>4, <1>5 DEF IInv, TypeOK

LEMMA IdleReturnKeeps == ASSUME IInv, NEW w \in Waiters, IdleReturn(w) PROVE IInv'
<1>1. FlagTypes'
  BY Zenon DEF IdleReturn, IInv, TypeOK, FlagTypes
<1>2. DataTypes'
  BY PublisherAssumption
     DEF IdleReturn, IInv, TypeOK, DataTypes, WorkerShape, WorkerPcs, Fates, Events, Request
<1>3. WorkerShape' /\ CloseShape'
  BY PublisherAssumption
     DEF IdleReturn, IInv, TypeOK, DataTypes, WorkerShape, CloseShape, NoLostWakeup, Events
<1>4. Conservation'
  BY DEF IdleReturn, IInv, TypeOK, DataTypes, Conservation, WorkerPcs, Events
<1>5. NoLostWakeup' /\ NothingStranded'
  BY PublisherAssumption
     DEF IdleReturn, IInv, TypeOK, DataTypes, WorkerShape, CloseShape, NoLostWakeup, NothingStranded, Events
<1>6. QED
  BY <1>1, <1>2, <1>3, <1>4, <1>5 DEF IInv, TypeOK

-----------------------------------------------------------------------------
(* The worker thread.                                                      *)

LEMMA WorkerWaitKeeps == ASSUME IInv, WorkerWait PROVE IInv'
<1>1. FlagTypes'
  BY Zenon DEF WorkerWait, IInv, TypeOK, FlagTypes
<1>2. DataTypes'
  BY PublisherAssumption
     DEF WorkerWait, IInv, TypeOK, DataTypes, WorkerShape, WorkerPcs, Fates, Events, Request
<1>3. WorkerShape' /\ CloseShape'
  BY PublisherAssumption
     DEF WorkerWait, IInv, TypeOK, DataTypes, WorkerShape, CloseShape, NoLostWakeup, Events
<1>4. Conservation'
  BY DEF WorkerWait, IInv, TypeOK, DataTypes, Conservation, WorkerPcs, Events
<1>5. NoLostWakeup' /\ NothingStranded'
  BY PublisherAssumption
     DEF WorkerWait, IInv, TypeOK, DataTypes, WorkerShape, CloseShape, NoLostWakeup, NothingStranded, Events
<1>6. QED
  BY <1>1, <1>2, <1>3, <1>4, <1>5 DEF IInv, TypeOK

LEMMA WorkerExitKeeps == ASSUME IInv, WorkerExit PROVE IInv'
<1>1. FlagTypes'
  BY Zenon DEF WorkerExit, IInv, TypeOK, FlagTypes
<1>2. DataTypes'
  BY PublisherAssumption
     DEF WorkerExit, IInv, TypeOK, DataTypes, WorkerShape, WorkerPcs, Fates, Events, Request
<1>3. WorkerShape' /\ CloseShape'
  BY PublisherAssumption
     DEF WorkerExit, IInv, TypeOK, DataTypes, WorkerShape, CloseShape, NoLostWakeup, Events
<1>4. Conservation'
  BY DEF WorkerExit, IInv, TypeOK, DataTypes, Conservation, WorkerPcs, Events
<1>5. NoLostWakeup' /\ NothingStranded'
  BY PublisherAssumption
     DEF WorkerExit, IInv, TypeOK, DataTypes, WorkerShape, CloseShape, NoLostWakeup, NothingStranded, Events
<1>6. QED
  BY <1>1, <1>2, <1>3, <1>4, <1>5 DEF IInv, TypeOK

LEMMA WorkerTakeKeeps == ASSUME IInv, WorkerTake PROVE IInv'
<1>1. FlagTypes'
  BY Zenon DEF WorkerTake, IInv, TypeOK, FlagTypes
<1>2. DataTypes'
  BY PublisherAssumption
     DEF WorkerTake, IInv, TypeOK, DataTypes, WorkerShape, WorkerPcs, Fates, Events, Request
<1>3. WorkerShape' /\ CloseShape'
  BY PublisherAssumption
     DEF WorkerTake, IInv, TypeOK, DataTypes, WorkerShape, CloseShape, NoLostWakeup, Events
<1>4. Conservation'
  BY DEF WorkerTake, IInv, TypeOK, DataTypes, Conservation, WorkerPcs, Events
<1>5. NoLostWakeup' /\ NothingStranded'
  BY PublisherAssumption
     DEF WorkerTake, IInv, TypeOK, DataTypes, WorkerShape, CloseShape, NoLostWakeup, NothingStranded, Events
<1>6. QED
  BY <1>1, <1>2, <1>3, <1>4, <1>5 DEF IInv, TypeOK

LEMMA PostKeeps == ASSUME IInv, Post PROVE IInv'
<1>1. FlagTypes'
  BY Zenon DEF Post, IInv, TypeOK, FlagTypes
<1>2. DataTypes'
  BY PublisherAssumption
     DEF Post, IInv, TypeOK, DataTypes, WorkerShape, WorkerPcs, Fates, Events, Request, CurrentRequest
<1>3. WorkerShape' /\ CloseShape'
  BY PublisherAssumption
     DEF Post, IInv, TypeOK, DataTypes, WorkerShape, CloseShape, NoLostWakeup, Events
<1>4. Conservation'
  BY DEF Post, IInv, TypeOK, DataTypes, Conservation, WorkerPcs, Events
<1>5. NoLostWakeup' /\ NothingStranded'
  BY PublisherAssumption
     DEF Post, IInv, TypeOK, DataTypes, WorkerShape, CloseShape, NoLostWakeup, NothingStranded, Events
<1>6. QED
  BY <1>1, <1>2, <1>3, <1>4, <1>5 DEF IInv, TypeOK

LEMMA PostAcceptedKeeps == ASSUME IInv, PostAccepted PROVE IInv'
<1>1. FlagTypes'
  BY Zenon DEF PostAccepted, IInv, TypeOK, FlagTypes
<1>2. DataTypes'
  BY PublisherAssumption
     DEF PostAccepted, IInv, TypeOK, DataTypes, WorkerShape, WorkerPcs, Fates, Events, Request
<1>3. WorkerShape' /\ CloseShape'
  BY PublisherAssumption
     DEF PostAccepted, IInv, TypeOK, DataTypes, WorkerShape, CloseShape, NoLostWakeup, Events
<1>4. Conservation'
  BY DEF PostAccepted, IInv, TypeOK, DataTypes, Conservation, WorkerPcs, Events
<1>5. NoLostWakeup' /\ NothingStranded'
  BY PublisherAssumption
     DEF PostAccepted, IInv, TypeOK, DataTypes, WorkerShape, CloseShape, NoLostWakeup, NothingStranded, Events
<1>6. QED
  BY <1>1, <1>2, <1>3, <1>4, <1>5 DEF IInv, TypeOK

LEMMA PostFailedKeeps == ASSUME IInv, PostFailed PROVE IInv'
<1>1. FlagTypes'
  BY Zenon DEF PostFailed, IInv, TypeOK, FlagTypes
<1>2. DataTypes'
  BY PublisherAssumption
     DEF PostFailed, IInv, TypeOK, DataTypes, WorkerShape, WorkerPcs, Fates, Events, Request
<1>3. WorkerShape' /\ CloseShape'
  BY PublisherAssumption
     DEF PostFailed, IInv, TypeOK, DataTypes, WorkerShape, CloseShape, NoLostWakeup, Events
<1>4. Conservation'
  BY DEF PostFailed, IInv, TypeOK, DataTypes, Conservation, WorkerPcs, Events
<1>5. NoLostWakeup' /\ NothingStranded'
  BY PublisherAssumption
     DEF PostFailed, IInv, TypeOK, DataTypes, WorkerShape, CloseShape, NoLostWakeup, NothingStranded, Events
<1>6. QED
  BY <1>1, <1>2, <1>3, <1>4, <1>5 DEF IInv, TypeOK

LEMMA GiveUpKeeps == ASSUME IInv, GiveUp PROVE IInv'
<1>1. FlagTypes'
  BY Zenon DEF GiveUp, IInv, TypeOK, FlagTypes
<1>2. DataTypes'
  BY PublisherAssumption
     DEF GiveUp, IInv, TypeOK, DataTypes, WorkerShape, WorkerPcs, Fates, Events, Request
<1>3. WorkerShape' /\ CloseShape'
  BY PublisherAssumption
     DEF GiveUp, IInv, TypeOK, DataTypes, WorkerShape, CloseShape, NoLostWakeup, Events
<1>4. Conservation'
  BY DEF GiveUp, IInv, TypeOK, DataTypes, Conservation, WorkerPcs, Events
<1>5. NoLostWakeup' /\ NothingStranded'
  BY PublisherAssumption
     DEF GiveUp, IInv, TypeOK, DataTypes, WorkerShape, CloseShape, NoLostWakeup, NothingStranded, Events
<1>6. QED
  BY <1>1, <1>2, <1>3, <1>4, <1>5 DEF IInv, TypeOK

LEMMA CountRetryKeeps == ASSUME IInv, CountRetry PROVE IInv'
<1>1. FlagTypes'
  BY Zenon DEF CountRetry, IInv, TypeOK, FlagTypes
<1>2. DataTypes'
  BY PublisherAssumption
     DEF CountRetry, IInv, TypeOK, DataTypes, WorkerShape, WorkerPcs, Fates, Events, Request
<1>3. WorkerShape' /\ CloseShape'
  BY PublisherAssumption
     DEF CountRetry, IInv, TypeOK, DataTypes, WorkerShape, CloseShape, NoLostWakeup, Events
<1>4. Conservation'
  BY DEF CountRetry, IInv, TypeOK, DataTypes, Conservation, WorkerPcs, Events
<1>5. NoLostWakeup' /\ NothingStranded'
  BY PublisherAssumption
     DEF CountRetry, IInv, TypeOK, DataTypes, WorkerShape, CloseShape, NoLostWakeup, NothingStranded, Events
<1>6. QED
  BY <1>1, <1>2, <1>3, <1>4, <1>5 DEF IInv, TypeOK

LEMMA SleepEndsKeeps == ASSUME IInv, SleepEnds PROVE IInv'
<1>1. FlagTypes'
  BY Zenon DEF SleepEnds, IInv, TypeOK, FlagTypes
<1>2. DataTypes'
  BY PublisherAssumption
     DEF SleepEnds, IInv, TypeOK, DataTypes, WorkerShape, WorkerPcs, Fates, Events, Request, CappedBackoff
<1>3. WorkerShape' /\ CloseShape'
  BY PublisherAssumption
     DEF SleepEnds, IInv, TypeOK, DataTypes, WorkerShape, CloseShape, NoLostWakeup, Events
<1>4. Conservation'
  BY DEF SleepEnds, IInv, TypeOK, DataTypes, Conservation, WorkerPcs, Events
<1>5. NoLostWakeup' /\ NothingStranded'
  BY PublisherAssumption
     DEF SleepEnds, IInv, TypeOK, DataTypes, WorkerShape, CloseShape, NoLostWakeup, NothingStranded, Events
<1>6. QED
  BY <1>1, <1>2, <1>3, <1>4, <1>5 DEF IInv, TypeOK

LEMMA DeliveryDoneKeeps == ASSUME IInv, DeliveryDone PROVE IInv'
<1>1. FlagTypes'
  BY Zenon DEF DeliveryDone, IInv, TypeOK, FlagTypes
<1>2. DataTypes'
  BY PublisherAssumption
     DEF DeliveryDone, IInv, TypeOK, DataTypes, WorkerShape, WorkerPcs, Fates, Events, Request
<1>3. WorkerShape' /\ CloseShape'
  BY PublisherAssumption
     DEF DeliveryDone, IInv, TypeOK, DataTypes, WorkerShape, CloseShape, NoLostWakeup, Events
<1>4. Conservation'
  BY DEF DeliveryDone, IInv, TypeOK, DataTypes, Conservation, WorkerPcs, Events
<1>5. NoLostWakeup' /\ NothingStranded'
  BY PublisherAssumption
     DEF DeliveryDone, IInv, TypeOK, DataTypes, WorkerShape, CloseShape, NoLostWakeup, NothingStranded, Events
<1>6. QED
  BY <1>1, <1>2, <1>3, <1>4, <1>5 DEF IInv, TypeOK

-----------------------------------------------------------------------------
(* The streaming service.                                                  *)

LEMMA ServiceAcceptKeeps == ASSUME IInv, NEW r \in requests, ServiceAccept(r) PROVE IInv'
<1>1. FlagTypes'
  BY Zenon DEF ServiceAccept, IInv, TypeOK, FlagTypes
<1>2. DataTypes'
  BY PublisherAssumption
     DEF ServiceAccept, IInv, TypeOK, DataTypes, WorkerShape, WorkerPcs, Fates, Events, Request
<1>3. WorkerShape' /\ CloseShape'
  BY PublisherAssumption
     DEF ServiceAccept, IInv, TypeOK, DataTypes, WorkerShape, CloseShape, NoLostWakeup, Events
<1>4. Conservation'
  BY DEF ServiceAccept, IInv, TypeOK, DataTypes, Conservation, WorkerPcs, Events
<1>5. NoLostWakeup' /\ NothingStranded'
  BY PublisherAssumption
     DEF ServiceAccept, IInv, TypeOK, DataTypes, WorkerShape, CloseShape, NoLostWakeup, NothingStranded, Events
<1>6. QED
  BY <1>1, <1>2, <1>3, <1>4, <1>5 DEF IInv, TypeOK

-----------------------------------------------------------------------------

LEMMA StutterKeeps == ASSUME IInv, UNCHANGED vars PROVE IInv'
BY DEF vars, IInv, TypeOK, FlagTypes, DataTypes, WorkerShape, CloseShape, Conservation,
       NoLostWakeup, NothingStranded

LEMMA NextKeeps == IInv /\ [Next]_vars => IInv'
<1> SUFFICES ASSUME IInv, [Next]_vars PROVE IInv'
  OBVIOUS
<1>1. CASE Start
  BY <1>1, StartKeeps
<1>2. CASE Submit
  BY <1>2, SubmitKeeps
<1>3. ASSUME NEW c \in Closers, CloserStep(c) PROVE IInv'
  BY <1>3, CloseBeginKeeps, CloseJoinedKeeps, CloseTimeoutKeeps, CloseFinishKeeps DEF CloserStep
<1>4. ASSUME NEW w \in Waiters, IdleWait(w) \/ IdleReturn(w) PROVE IInv'
  BY <1>4, IdleWaitKeeps, IdleReturnKeeps
<1>5. CASE WorkerStep
  BY <1>5, WorkerWaitKeeps, WorkerExitKeeps, WorkerTakeKeeps, PostKeeps, PostAcceptedKeeps,
     PostFailedKeeps, GiveUpKeeps, CountRetryKeeps, SleepEndsKeeps, DeliveryDoneKeeps
     DEF WorkerStep
<1>6. ASSUME NEW r \in requests, ServiceAccept(r) PROVE IInv'
  BY <1>6, ServiceAcceptKeeps
<1>7. CASE UNCHANGED vars
  BY <1>7, StutterKeeps
<1>8. QED
  BY <1>1, <1>2, <1>3, <1>4, <1>5, <1>6, <1>7 DEF Next

\* The inductive invariant holds in every reachable state of the publisher.
THEOREM PublisherInvariant == Spec => []IInv
<1>1. Init => IInv
  BY InitIInv
<1>2. IInv /\ [Next]_vars => IInv'
  BY NextKeeps
<1>3. QED
  BY <1>1, <1>2, PTL DEF Spec

\* Every variable of the publisher keeps its type.
THEOREM PublisherTypes == Spec => []TypeOK
<1>1. IInv => TypeOK
  BY DEF IInv
<1>2. QED
  BY <1>1, PublisherInvariant, PTL

\* generated = delivered + dropped + pending + undecided at every snapshot of
\* the metrics, for any policy and any number of threads that close.
THEOREM PublisherConserves == Spec => []Conservation
<1>1. IInv => Conservation
  BY DEF IInv
<1>2. QED
  BY <1>1, PublisherInvariant, PTL

\* No thread sleeps on self._condition while its wait predicate holds.
THEOREM PublisherWakesEveryone == Spec => []NoLostWakeup
<1>1. IInv => NoLostWakeup
  BY DEF IInv
<1>2. QED
  BY <1>1, PublisherInvariant, PTL

\* A closed publisher has no event left in its slot.
THEOREM PublisherStrandsNothing == Spec => []NothingStranded
<1>1. IInv => NothingStranded
  BY DEF IInv
<1>2. QED
  BY <1>1, PublisherInvariant, PTL

-----------------------------------------------------------------------------
(* The back-off schedule.  While an event is undecided, the local variable *)
(* backoff_ms is the policy's wait after the attempt that is being made.   *)

Scheduled == Undecided => backoffMs = Delay(attempt)

\* Growing and capping the wait of one attempt gives the wait of the next: a capped
\* wait stays capped, because the multiplier is at least one.
LEMMA DelayGrows ==
    ASSUME NEW k \in 0 .. MaxRetries
    PROVE  CappedBackoff(Delay(k)) = Delay(k + 1)
<1> DEFINE grown == InitialBackoffMs * Power(k)
           next == InitialBackoffMs * Power(k + 1)
<1>1. grown \in Nat /\ next = grown * Multiplier /\ next >= grown
  <2>1. Power(k) \in Nat /\ Power(k + 1) = Power(k) * Multiplier
    BY PowerLaws
  <2>2. InitialBackoffMs \in Nat /\ Multiplier \in Nat /\ Multiplier >= 1
    BY PublisherAssumption
  <2> HIDE DEF grown, next
  <2>3. grown = InitialBackoffMs * Power(k) /\ next = InitialBackoffMs * Power(k + 1)
    BY DEF grown, next
  <2>4. QED
    BY ONLY <2>1, <2>2, <2>3, SMTT(30)
<1>2. MaxBackoffMs \in Nat /\ Multiplier \in Nat /\ Multiplier >= 1
  BY PublisherAssumption
<1>3. Delay(k) = IF k = 0 \/ grown <= MaxBackoffMs THEN grown ELSE MaxBackoffMs
  BY DEF Delay
<1>4. Delay(k + 1) = IF next <= MaxBackoffMs THEN next ELSE MaxBackoffMs
  BY DEF Delay
<1> HIDE DEF grown, next
<1>5. CASE k = 0 \/ grown <= MaxBackoffMs
  BY <1>1, <1>3, <1>4, <1>5 DEF CappedBackoff
<1>6. CASE ~(k = 0 \/ grown <= MaxBackoffMs)
  <2>1. Delay(k) = MaxBackoffMs /\ Delay(k + 1) = MaxBackoffMs
    BY <1>1, <1>2, <1>3, <1>4, <1>6
  <2>2. MaxBackoffMs * Multiplier >= MaxBackoffMs
    BY ONLY <1>2, SMTT(30)
  <2>3. MaxBackoffMs * Multiplier \in Nat
    BY ONLY <1>2, SMTT(30)
  <2>4. QED
    BY <2>1, <2>2, <2>3, <1>2 DEF CappedBackoff
<1>7. QED
  BY <1>5, <1>6

LEMMA ScheduledStep == ASSUME IInv, Scheduled, [Next]_vars PROVE Scheduled'
<1>1. CASE WorkerTake
  <2>1. backoffMs' = InitialBackoffMs /\ attempt' = 0
    BY <1>1 DEF WorkerTake
  <2>2. Delay(0) = InitialBackoffMs
    BY PowerLaws, PublisherAssumption DEF Delay
  <2>3. QED
    BY <2>1, <2>2 DEF Scheduled
<1>2. CASE SleepEnds
  <2>1. backoffMs = Delay(attempt) /\ attempt \in 0 .. MaxRetries
    BY <1>2 DEF SleepEnds, Scheduled, IInv, TypeOK, DataTypes
  <2>2. backoffMs' = CappedBackoff(Delay(attempt)) /\ attempt' = attempt + 1
    BY <1>2, <2>1 DEF SleepEnds
  <2>3. QED
    BY <2>1, <2>2, DelayGrows DEF Scheduled
<1>3. ASSUME Undecided' => Undecided, backoffMs' = backoffMs, attempt' = attempt
      PROVE  Scheduled'
  BY <1>3 DEF Scheduled
<1>4. CASE Start \/ Submit
  BY <1>3, <1>4 DEF Start, Submit
<1>5. ASSUME NEW c \in Closers, CloserStep(c) PROVE Scheduled'
  BY <1>3, <1>5 DEF CloserStep, CloseBegin, CloseJoined, CloseTimeout, CloseFinish
<1>6. ASSUME NEW w \in Waiters, IdleWait(w) \/ IdleReturn(w) PROVE Scheduled'
  BY <1>3, <1>6 DEF IdleWait, IdleReturn
<1>7. CASE WorkerWait \/ WorkerExit \/ DeliveryDone
  BY <1>3, <1>7 DEF WorkerWait, WorkerExit, DeliveryDone
<1>8. CASE Post \/ PostAccepted \/ PostFailed \/ GiveUp \/ CountRetry
  BY <1>3, <1>8 DEF Post, PostAccepted, PostFailed, GiveUp, CountRetry
<1>9. ASSUME NEW r \in requests, ServiceAccept(r) PROVE Scheduled'
  BY <1>3, <1>9 DEF ServiceAccept
<1>10. CASE UNCHANGED vars
  BY <1>3, <1>10 DEF vars
<1>11. QED
  BY <1>1, <1>2, <1>4, <1>5, <1>6, <1>7, <1>8, <1>9, <1>10 DEF Next, WorkerStep

\* The worker sleeps the capped powers of the delivery policy, for any number of
\* retries, any multiplier and any cap, a cap below the first wait included.
THEOREM PublisherBacksOff == Spec => []BackoffPolicy
<1>1. Init => Scheduled
  BY DEF Init, Scheduled
<1>2. IInv /\ Scheduled /\ [Next]_vars => Scheduled'
  BY ScheduledStep
<1>3. Scheduled => BackoffPolicy
  BY DEF Scheduled, BackoffPolicy
<1>4. QED
  BY <1>1, <1>2, <1>3, PublisherInvariant, PTL DEF Spec

-----------------------------------------------------------------------------
(* A delivery ends: the steps the worker has left with the event it took   *)
(* are a number that each of its steps lowers, whoever submits, closes and *)
(* waits meanwhile, and whatever the service answers.                      *)

\* At program counter pc in attempt a: four steps for each further attempt.
DeliverySteps(pc, a) ==
    LET further == 4 * (MaxRetries - a)
    IN  CASE pc = "post" -> further + 4
          [] pc = "await" -> further + 3
          [] pc = "failed" -> further + 2
          [] pc = "sleep" -> further + 1
          [] pc = "settled" -> 1
          [] OTHER -> 0

StepsLeft == DeliverySteps(worker, attempt)

NumberedSteps == StepsLeft \in 0 .. 4 * MaxRetries + 4

Approaches ==
    deliveryActive => /\ StepsLeft' <= StepsLeft
                      /\ WorkerStep => StepsLeft' < StepsLeft

DeliveriesEnd == []NumberedSteps /\ [][Approaches]_vars

LEMMA DeliveryStepsAre ==
    ASSUME NEW pc, NEW a
    PROVE  /\ pc = "post" => DeliverySteps(pc, a) = 4 * (MaxRetries - a) + 4
           /\ pc = "await" => DeliverySteps(pc, a) = 4 * (MaxRetries - a) + 3
           /\ pc = "failed" => DeliverySteps(pc, a) = 4 * (MaxRetries - a) + 2
           /\ pc = "sleep" => DeliverySteps(pc, a) = 4 * (MaxRetries - a) + 1
           /\ pc = "settled" => DeliverySteps(pc, a) = 1
           /\ pc \notin {"post", "await", "failed", "sleep", "settled"} => DeliverySteps(pc, a) = 0
BY Zenon DEF DeliverySteps

LEMMA StepsLeftIsBounded == IInv => StepsLeft \in 0 .. 4 * MaxRetries + 4
<1> SUFFICES ASSUME IInv PROVE StepsLeft \in 0 .. 4 * MaxRetries + 4
  OBVIOUS
<1> DEFINE further == 4 * (MaxRetries - attempt)
<1>1. further \in 0 .. 4 * MaxRetries /\ MaxRetries \in Nat
  BY PublisherAssumption DEF IInv, TypeOK, DataTypes
<1> HIDE DEF further
<1>2. /\ worker = "post" => StepsLeft = further + 4
      /\ worker = "await" => StepsLeft = further + 3
      /\ worker = "failed" => StepsLeft = further + 2
      /\ worker = "sleep" => StepsLeft = further + 1
      /\ worker = "settled" => StepsLeft = 1
      /\ worker \notin {"post", "await", "failed", "sleep", "settled"} => StepsLeft = 0
  BY DeliveryStepsAre DEF StepsLeft, further
<1>3. QED
  BY <1>1, <1>2

LEMMA DeliveryStep ==
    ASSUME IInv, [Next]_vars, deliveryActive
    PROVE  /\ StepsLeft' <= StepsLeft
           /\ WorkerStep => StepsLeft' < StepsLeft
<1> DEFINE now == 4 * (MaxRetries - attempt)
           next == 4 * (MaxRetries - attempt')
           Less == StepsLeft' < StepsLeft
           Same == StepsLeft' = StepsLeft
<1>1. StepsLeft = DeliverySteps(worker, attempt) /\ StepsLeft' = DeliverySteps(worker', attempt')
  BY DEF StepsLeft
<1>2. attempt \in 0 .. MaxRetries /\ MaxRetries \in Nat /\ StepsLeft \in Int
  BY PublisherAssumption, StepsLeftIsBounded DEF IInv, TypeOK, DataTypes
<1>3. worker \in {"post", "await", "failed", "sleep", "settled"}
  BY DEF IInv, WorkerShape
<1>4. ASSUME worker' = worker, attempt' = attempt PROVE Same
  BY <1>1, <1>4
<1>5. ASSUME Post \/ PostAccepted \/ PostFailed \/ GiveUp \/ CountRetry \/ DeliveryDone PROVE Less
  <2>1. /\ attempt' = attempt
        /\ \/ worker = "post" /\ worker' = "await"
           \/ worker = "await" /\ worker' \in {"settled", "failed"}
           \/ worker = "failed" /\ worker' \in {"settled", "sleep"}
           \/ worker = "settled" /\ worker' = "check"
    BY <1>5 DEF Post, PostAccepted, PostFailed, GiveUp, CountRetry, DeliveryDone
  <2>2. now \in Nat
    BY <1>2
  <2> HIDE DEF now
  <2>3. /\ worker = "post" => StepsLeft = now + 4
        /\ worker = "await" => StepsLeft = now + 3
        /\ worker = "failed" => StepsLeft = now + 2
        /\ worker = "settled" => StepsLeft = 1
    BY <1>1, DeliveryStepsAre DEF now
  <2>4. /\ worker' = "await" => StepsLeft' = now + 3
        /\ worker' = "failed" => StepsLeft' = now + 2
        /\ worker' = "sleep" => StepsLeft' = now + 1
        /\ worker' = "settled" => StepsLeft' = 1
        /\ worker' = "check" => StepsLeft' = 0
    BY <1>1, <2>1, DeliveryStepsAre DEF now
  <2>5. QED
    BY <2>1, <2>2, <2>3, <2>4
<1>6. ASSUME SleepEnds PROVE Less
  <2>1. worker = "sleep" /\ worker' = "post" /\ attempt' = attempt + 1
    BY <1>6 DEF SleepEnds
  <2>2. StepsLeft = 4 * (MaxRetries - attempt) + 1 /\ StepsLeft' = 4 * (MaxRetries - (attempt + 1)) + 4
    BY <1>1, <2>1, DeliveryStepsAre
  <2>3. QED
    BY <1>2, <2>2
<1>7. ASSUME WorkerStep PROVE Less
  <2>1. ~WorkerWait /\ ~WorkerExit /\ ~WorkerTake
    BY <1>3 DEF WorkerWait, WorkerExit, WorkerTake
  <2>2. QED
    BY <1>5, <1>6, <1>7, <2>1 DEF WorkerStep
<1>8. ASSUME Start \/ Submit \/ UNCHANGED vars PROVE Same
  BY <1>3, <1>4, <1>8 DEF Start, Submit, vars
<1>9. ASSUME NEW c \in Closers, CloserStep(c) PROVE Same
  BY <1>4, <1>9 DEF CloserStep, CloseBegin, CloseJoined, CloseTimeout, CloseFinish
<1>10. ASSUME NEW w \in Waiters, IdleWait(w) \/ IdleReturn(w) PROVE Same
  BY <1>4, <1>10 DEF IdleWait, IdleReturn
<1>11. ASSUME NEW r \in requests, ServiceAccept(r) PROVE Same
  BY <1>4, <1>11 DEF ServiceAccept
<1>12. Less \/ Same
  BY <1>7, <1>8, <1>9, <1>10, <1>11 DEF Next
<1>13. StepsLeft' \in Int
  <2>1. IInv'
    BY NextKeeps
  <2>2. attempt' \in Int /\ worker' \in WorkerPcs
    BY <2>1, PublisherAssumption DEF IInv, TypeOK, DataTypes
  <2>3. QED
    BY <1>1, <1>2, <2>2, DeliveryStepsAre DEF WorkerPcs
<1>14. QED
  BY <1>2, <1>7, <1>12, <1>13

\* With an event in hand the worker is back at its queue after at most 4 * MaxRetries + 4
\* steps: close() and wait_until_idle() wait for a bounded number of attempts only.
THEOREM PublisherDeliveriesEnd == Spec => DeliveriesEnd
<1>1. IInv => NumberedSteps
  BY StepsLeftIsBounded DEF NumberedSteps
<1>2. IInv /\ [Next]_vars => [Approaches]_vars
  BY DeliveryStep DEF Approaches
<1>3. QED
  BY <1>1, <1>2, PublisherInvariant, PTL DEF Spec, DeliveriesEnd

=============================================================================
