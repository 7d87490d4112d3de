---------------------- MODULE PublisherRefinementProofs ----------------------
(***************************************************************************)
(* LatestEventWinsPublisher keeps its promise to the producer and to the   *)
(* service, and its counters are the true numbers of events, for any       *)
(* number of events, retries and threads.                                  *)
(*                                                                         *)
(* The argument: the fate of an event is readable from the publisher's own *)
(* fields, so every step of a thread moves at most one event along the     *)
(* promise's diagram; and each attempt puts one request on the wire, so    *)
(* the copies the service accepted and those it may still accept never     *)
(* outnumber the attempts made.                                            *)
(***************************************************************************)
EXTENDS PublisherProofs, FiniteSetTheorems, SequenceTheorems

USE DEF None, Truth, Undecided, NotifyAll, CountOverwrite, LeftPending, Answered202, BudgetUsedUp,
        queueVars, workerVars, metricVars, serviceVars

\* Where the publisher keeps an event tells its fate.
FateShape ==
    /\ \A e \in Events : fate[e] = "unseen" <=> e > generatedTotal
    /\ \A e \in Events : fate[e] = "pending" <=> e = pending
    /\ \A e \in Events : fate[e] = "inflight" <=> Undecided /\ e = inflight
    /\ pending # None => pending = generatedTotal

Copies(e) == {i \in DOMAIN accepted : accepted[i] = e}
Outstanding(e) == {r \in requests : r.event = e}

\* A bound on the requests posted for an event so far.
Attempts(e) ==
    CASE fate[e] = "inflight" -> IF worker = "post" THEN attempt ELSE attempt + 1
      [] fate[e] \in {"delivered", "exhausted"} -> MaxRetries + 1
      [] OTHER -> 0

CopiesShape ==
    /\ IsFiniteSet(requests)
    /\ \A e \in Events : Cardinality(Copies(e)) + Cardinality(Outstanding(e)) <= Attempts(e)
    /\ worker = "await" /\ acknowledged => Copies(inflight) # {}

PromiseInv == IInv /\ FateShape /\ CopiesShape /\ CountersTellFates

-----------------------------------------------------------------------------
LEMMA EventsAreFinite == IsFiniteSet(Events) /\ Events \subseteq Nat \ {0} /\ 0 \notin Events
<1>1. MaxEvents \in Nat
  BY PublisherAssumption
<1> QED  BY <1>1, FS_Interval DEF Events

LEMMA FateTypes ==
    ASSUME IInv
    PROVE  /\ fate \in [Events -> Fates] /\ pending \in Events \union {None}
           /\ inflight \in Events \union {None} /\ generatedTotal \in 0 .. MaxEvents
           /\ attempt \in 0 .. MaxRetries /\ worker \in WorkerPcs
           /\ accepted \in Seq(Events) /\ requests \subseteq Request
           /\ Undecided => inflight # None
BY DEF IInv, TypeOK, DataTypes, WorkerShape

-----------------------------------------------------------------------------
LEMMA FateStep == ASSUME IInv, FateShape, [Next]_vars PROVE FateShape'
<1>t. /\ fate \in [Events -> Fates] /\ pending \in Events \union {None}
      /\ inflight \in Events \union {None} /\ generatedTotal \in 0 .. MaxEvents
      /\ MaxEvents \in Nat /\ Events = 1 .. MaxEvents
      /\ Undecided => inflight # None
  BY FateTypes, PublisherAssumption DEF Events
<1>1. CASE Submit
  <2>1. /\ generatedTotal < MaxEvents /\ generatedTotal' = generatedTotal + 1
        /\ pending' = generatedTotal + 1 /\ UNCHANGED <<worker, inflight>>
        /\ fate' = [e \in Events |-> IF e = generatedTotal + 1 THEN "pending"
                                     ELSE IF e = pending THEN "overwritten" ELSE fate[e]]
    BY <1>1 DEF Submit
  <2> QED  BY <2>1, <1>t DEF FateShape
<1>2. CASE WorkerTake
  <2>1. /\ worker = "check" /\ worker' = "post" /\ inflight' = pending /\ pending' = None
        /\ pending # None /\ UNCHANGED generatedTotal
        /\ fate' = [fate EXCEPT ![pending] = "inflight"]
    BY <1>2 DEF WorkerTake
  <2> QED  BY <2>1, <1>t DEF FateShape
<1>3. CASE PostAccepted \/ GiveUp
  <2>1. /\ Undecided /\ worker' = "settled" /\ UNCHANGED <<pending, generatedTotal, inflight>>
        /\ \E f \in {"delivered", "exhausted"} : fate' = [fate EXCEPT ![inflight] = f]
    BY <1>3 DEF PostAccepted, GiveUp
  <2> QED  BY <2>1, <1>t DEF FateShape
<1>4. ASSUME NEW c \in Closers, CloseFinish(c), LeftPending(c) PROVE FateShape'
  <2>1. /\ pending' = None /\ fate' = [fate EXCEPT ![pending] = "abandoned"]
        /\ pending # None /\ UNCHANGED <<generatedTotal, worker, inflight>>
    BY <1>4 DEF CloseFinish
  <2> QED  BY <2>1, <1>t DEF FateShape
<1>5. ASSUME UNCHANGED <<fate, generatedTotal, pending>>, Undecided' = Undecided,
             Undecided => UNCHANGED inflight
      PROVE  FateShape'
  BY <1>5 DEF FateShape
<1>6. CASE \/ Start \/ WorkerWait \/ WorkerExit \/ Post \/ PostFailed \/ CountRetry \/ SleepEnds
           \/ DeliveryDone
  BY <1>6, <1>5 DEF Start, WorkerWait, WorkerExit, Post, PostFailed, CountRetry, SleepEnds, DeliveryDone
<1>7. ASSUME NEW c \in Closers,
             \/ CloseBegin(c) \/ CloseJoined(c) \/ CloseTimeout(c)
             \/ CloseFinish(c) /\ ~LeftPending(c)
      PROVE  FateShape'
  BY <1>7, <1>5 DEF CloseBegin, CloseJoined, CloseTimeout, CloseFinish
<1>8. CASE \/ \E w \in Waiters : IdleWait(w) \/ IdleReturn(w)
           \/ \E r \in requests : ServiceAccept(r)
           \/ UNCHANGED vars
  BY <1>8, <1>5 DEF IdleWait, IdleReturn, ServiceAccept, vars
<1> QED
  BY <1>1, <1>2, <1>3, <1>4, <1>6, <1>7, <1>8 DEF Next, CloserStep, WorkerStep

-----------------------------------------------------------------------------
(* The counters.                                                           *)

Having(F) == {e \in Events : fate[e] \in F}

LEMMA HavingIsFinite ==
    ASSUME NEW F
    PROVE  IsFiniteSet(Having(F)) /\ Cardinality(Having(F)) \in Nat
BY EventsAreFinite, FS_Subset, FS_CardinalityType DEF Having

\* One event reaches a fate of F, no event leaves one.
LEMMA OneMore ==
    ASSUME NEW F, NEW e \in Events, e \notin Having(F), Having(F)' = Having(F) \union {e}
    PROVE  Cardinality(Having(F)') = Cardinality(Having(F)) + 1
BY HavingIsFinite, FS_AddElement

\* Each counter moves in the critical section that decides the fate it counts.
LEMMA CountStep ==
    ASSUME IInv, FateShape, CountersTellFates, [Next]_vars PROVE CountersTellFates'
<1> DEFINE delivered == Having({"delivered"})
           dropped   == Having({"overwritten", "exhausted", "abandoned"})
           exhausted == Having({"exhausted"})
           Counts    == /\ deliveredTotal = Cardinality(delivered)
                        /\ droppedTotal = Cardinality(dropped)
                        /\ errorsTotal = retriesTotal + Cardinality(exhausted)
                                            + Truth(worker = "failed")
<1>d. (CountersTellFates <=> Counts) /\ (CountersTellFates' <=> Counts')
  BY DEF CountersTellFates, Having
<1>n. /\ Cardinality(delivered) \in Nat /\ Cardinality(dropped) \in Nat
      /\ Cardinality(exhausted) \in Nat
  BY HavingIsFinite
<1>t. /\ fate \in [Events -> Fates] /\ pending \in Events \union {None}
      /\ inflight \in Events \union {None} /\ generatedTotal \in 0 .. MaxEvents
      /\ MaxEvents \in Nat /\ Events = 1 .. MaxEvents
      /\ Undecided => inflight # None
      /\ errorsTotal \in Nat /\ retriesTotal \in Nat
  BY FateTypes, PublisherAssumption DEF Events, IInv, TypeOK, DataTypes
<1>0. ASSUME UNCHANGED <<fate, deliveredTotal, droppedTotal>>,
             errorsTotal' - retriesTotal' - Truth(worker = "failed")'
                = errorsTotal - retriesTotal - Truth(worker = "failed"),
             errorsTotal' \in Nat, retriesTotal' \in Nat
      PROVE  Counts'
  <2>1. delivered' = delivered /\ dropped' = dropped /\ exhausted' = exhausted
    BY <1>0 DEF Having
  <2>2. Counts
    BY <1>d
  <2> HIDE DEF delivered, dropped, exhausted
  <2>3. deliveredTotal' = Cardinality(delivered') /\ droppedTotal' = Cardinality(dropped')
    BY <1>0, <2>1, <2>2
  <2>4. errorsTotal' = retriesTotal' + Cardinality(exhausted') + Truth(worker = "failed")'
    <3>1. errorsTotal = retriesTotal + Cardinality(exhausted) + Truth(worker = "failed")
      BY <2>2
    <3>2. Truth(worker = "failed") \in Nat /\ Truth(worker = "failed")' \in Nat
      OBVIOUS
    <3>3. Cardinality(exhausted') = Cardinality(exhausted) /\ Cardinality(exhausted) \in Nat
      BY <2>1, <1>n
    <3>4. /\ errorsTotal \in Nat /\ retriesTotal \in Nat
          /\ errorsTotal' \in Nat /\ retriesTotal' \in Nat
          /\ errorsTotal' - retriesTotal' - Truth(worker = "failed")'
                = errorsTotal - retriesTotal - Truth(worker = "failed")
      BY <1>0, <1>t
    <3> HIDE DEF Truth
    <3> QED  BY <3>1, <3>2, <3>3, <3>4
  <2> QED  BY <2>3, <2>4
<1>1. CASE Submit
  <2>1. /\ generatedTotal < MaxEvents /\ UNCHANGED <<worker, deliveredTotal, errorsTotal, retriesTotal>>
        /\ fate' = [e \in Events |-> IF e = generatedTotal + 1 THEN "pending"
                                     ELSE IF e = pending THEN "overwritten" ELSE fate[e]]
        /\ droppedTotal' = IF pending # None THEN droppedTotal + 1 ELSE droppedTotal
    BY <1>1 DEF Submit
  <2>2. fate[generatedTotal + 1] = "unseen"
    BY <2>1, <1>t DEF FateShape
  <2>3. delivered' = delivered /\ exhausted' = exhausted
    BY <2>1, <2>2, <1>t DEF Having, FateShape
  <2>4. Cardinality(dropped)' = IF pending # None THEN Cardinality(dropped) + 1 ELSE Cardinality(dropped)
    <3>1. CASE pending = None
      <4>1. dropped' = dropped
        BY <3>1, <2>1, <2>2, <1>t DEF Having
      <4> QED  BY <3>1, <4>1
    <3>2. CASE pending # None
      <4>1. pending \in Events /\ fate[pending] = "pending" /\ pending # generatedTotal + 1
        BY <3>2, <2>2, <1>t DEF FateShape
      <4>2. pending \notin dropped /\ dropped' = dropped \union {pending}
        BY <4>1, <2>1, <2>2, <1>t DEF Having
      <4> QED  BY <3>2, <4>1, <4>2, OneMore
    <3> QED  BY <3>1, <3>2
  <2>5. Counts
    BY <1>d
  <2> HIDE DEF delivered, dropped, exhausted
  <2>6. Counts'
    BY <2>1, <2>3, <2>4, <2>5
  <2> QED  BY <2>6, <1>d
<1>2. CASE WorkerTake
  <2>1. /\ worker = "check" /\ worker' = "post" /\ pending # None
        /\ UNCHANGED <<deliveredTotal, droppedTotal, errorsTotal, retriesTotal>>
        /\ fate' = [fate EXCEPT ![pending] = "inflight"]
    BY <1>2 DEF WorkerTake
  <2>2. delivered' = delivered /\ dropped' = dropped /\ exhausted' = exhausted
    BY <2>1, <1>t DEF Having, FateShape
  <2>3. Counts
    BY <1>d
  <2> HIDE DEF delivered, dropped, exhausted
  <2>4. Counts'
    BY <2>1, <2>2, <2>3
  <2> QED  BY <2>4, <1>d
<1>3. CASE PostAccepted
  <2>1. /\ worker = "await" /\ worker' = "settled"
        /\ UNCHANGED <<droppedTotal, errorsTotal, retriesTotal>>
        /\ deliveredTotal' = deliveredTotal + 1
        /\ fate' = [fate EXCEPT ![inflight] = "delivered"]
    BY <1>3 DEF PostAccepted
  <2>2. inflight \in Events /\ fate[inflight] = "inflight"
    BY <2>1, <1>t DEF FateShape
  <2>3. dropped' = dropped /\ exhausted' = exhausted
        /\ inflight \notin delivered /\ delivered' = delivered \union {inflight}
    BY <2>1, <2>2, <1>t DEF Having
  <2>4. Cardinality(delivered)' = Cardinality(delivered) + 1
    BY <2>2, <2>3, OneMore
  <2>5. Counts
    BY <1>d
  <2> HIDE DEF delivered, dropped, exhausted
  <2>6. Counts'
    BY <2>1, <2>3, <2>4, <2>5
  <2> QED  BY <2>6, <1>d
<1>4. CASE GiveUp
  <2>1. /\ worker = "failed" /\ worker' = "settled"
        /\ UNCHANGED <<deliveredTotal, errorsTotal, retriesTotal>>
        /\ droppedTotal' = droppedTotal + 1
        /\ fate' = [fate EXCEPT ![inflight] = "exhausted"]
    BY <1>4 DEF GiveUp
  <2>2. inflight \in Events /\ fate[inflight] = "inflight"
    BY <2>1, <1>t DEF FateShape
  <2>3. /\ delivered' = delivered
        /\ inflight \notin dropped /\ dropped' = dropped \union {inflight}
        /\ inflight \notin exhausted /\ exhausted' = exhausted \union {inflight}
    BY <2>1, <2>2, <1>t DEF Having
  <2>4. /\ Cardinality(dropped)' = Cardinality(dropped) + 1
        /\ Cardinality(exhausted)' = Cardinality(exhausted) + 1
    BY <2>2, <2>3, OneMore
  <2>5. Counts
    BY <1>d
  <2> HIDE DEF delivered, dropped, exhausted
  <2>6. Counts'
    BY <2>1, <2>3, <2>4, <2>5, <1>n, <1>t
  <2> QED  BY <2>6, <1>d
<1>5. ASSUME NEW c \in Closers, CloseFinish(c), LeftPending(c) PROVE Counts'
  <2>1. /\ pending # None /\ UNCHANGED <<worker, deliveredTotal, errorsTotal, retriesTotal>>
        /\ droppedTotal' = droppedTotal + 1
        /\ fate' = [fate EXCEPT ![pending] = "abandoned"]
    BY <1>5 DEF CloseFinish
  <2>2. pending \in Events /\ fate[pending] = "pending"
    BY <2>1, <1>t DEF FateShape
  <2>3. delivered' = delivered /\ exhausted' = exhausted
        /\ pending \notin dropped /\ dropped' = dropped \union {pending}
    BY <2>1, <2>2, <1>t DEF Having
  <2>4. Cardinality(dropped)' = Cardinality(dropped) + 1
    BY <2>2, <2>3, OneMore
  <2>5. Counts
    BY <1>d
  <2> HIDE DEF delivered, dropped, exhausted
  <2> QED  BY <2>1, <2>3, <2>4, <2>5
<1>6. CASE PostFailed
  <2>1. /\ worker = "await" /\ worker' = "failed" /\ errorsTotal' = errorsTotal + 1
        /\ UNCHANGED <<fate, deliveredTotal, droppedTotal, retriesTotal>>
    BY <1>6 DEF PostFailed
  <2>2. Counts'
    BY <2>1, <1>0, <1>t
  <2> QED  BY <2>2, <1>d
<1>7. CASE CountRetry
  <2>1. /\ worker = "failed" /\ worker' = "sleep" /\ retriesTotal' = retriesTotal + 1
        /\ UNCHANGED <<fate, deliveredTotal, droppedTotal, errorsTotal>>
    BY <1>7 DEF CountRetry
  <2>2. Counts'
    BY <2>1, <1>0, <1>t
  <2> QED  BY <2>2, <1>d
<1>8. CASE Start \/ WorkerWait \/ WorkerExit \/ Post \/ SleepEnds \/ DeliveryDone
  <2>1. worker # "failed" /\ worker' # "failed"
        /\ UNCHANGED <<fate, deliveredTotal, droppedTotal, errorsTotal, retriesTotal>>
    BY <1>8 DEF Start, WorkerWait, WorkerExit, Post, SleepEnds, DeliveryDone
  <2>2. Counts'
    BY <2>1, <1>0, <1>t
  <2> QED  BY <2>2, <1>d
<1>9. ASSUME UNCHANGED <<worker, fate, metricVars>> PROVE Counts'
  BY <1>9, <1>0, <1>t
<1>10. ASSUME NEW c \in Closers,
              \/ CloseBegin(c) \/ CloseJoined(c) \/ CloseTimeout(c)
              \/ CloseFinish(c) /\ ~LeftPending(c)
       PROVE  Counts'
  BY <1>10, <1>9 DEF CloseBegin, CloseJoined, CloseTimeout, CloseFinish
<1>11. CASE \/ \E w \in Waiters : IdleWait(w) \/ IdleReturn(w)
            \/ \E r \in requests : ServiceAccept(r)
            \/ UNCHANGED vars
  <2>1. UNCHANGED <<worker, fate, metricVars>>
    BY <1>11 DEF IdleWait, IdleReturn, ServiceAccept, vars
  <2> QED  BY <2>1, <1>9, <1>d
<1> HIDE DEF Counts
<1> QED
  BY <1>d, <1>1, <1>2, <1>3, <1>4, <1>5, <1>6, <1>7, <1>8, <1>10, <1>11 DEF Next, CloserStep, WorkerStep

-----------------------------------------------------------------------------
(* The copies of an event.                                                 *)

LEMMA CopiesTypes ==
    ASSUME IInv, IsFiniteSet(requests), NEW e \in Events
    PROVE  /\ IsFiniteSet(Copies(e)) /\ Cardinality(Copies(e)) \in Nat
           /\ IsFiniteSet(Outstanding(e)) /\ Cardinality(Outstanding(e)) \in Nat
           /\ Attempts(e) \in 0 .. MaxRetries + 1
<1>1. Len(accepted) \in Nat /\ DOMAIN accepted = 1 .. Len(accepted)
  BY FateTypes, LenProperties
<1>2. IsFiniteSet(Copies(e)) /\ Cardinality(Copies(e)) \in Nat
  <2>1. IsFiniteSet(1 .. Len(accepted)) /\ Copies(e) \in SUBSET (1 .. Len(accepted))
    BY <1>1, FS_Interval DEF Copies
  <2> QED  BY <2>1, FS_Subset, FS_CardinalityType
<1>3. IsFiniteSet(Outstanding(e)) /\ Cardinality(Outstanding(e)) \in Nat
  BY FS_Subset, FS_CardinalityType DEF Outstanding
<1>4. Attempts(e) \in 0 .. MaxRetries + 1
  <2>1. attempt \in 0 .. MaxRetries /\ MaxRetries \in Nat
    BY FateTypes, PublisherAssumption
  <2> QED  BY <2>1 DEF Attempts
<1> QED  BY <1>2, <1>3, <1>4

\* The accepted log grows by the event of one outstanding request.
LEMMA AcceptMoves ==
    ASSUME IInv, CopiesShape, NEW r \in requests, ServiceAccept(r)
    PROVE  /\ r.event \in Events
           /\ Copies(r.event)' # {}
           /\ \A e \in Events : Copies(e) \subseteq Copies(e)'
           /\ \A e \in Events :
                 /\ Cardinality(Copies(e)') \in Nat /\ Cardinality(Outstanding(e)') \in Nat
                 /\ Cardinality(Copies(e)') + Cardinality(Outstanding(e)')
                      <= Cardinality(Copies(e)) + Cardinality(Outstanding(e))
<1>t. /\ accepted \in Seq(Events) /\ r.event \in Events /\ IsFiniteSet(requests)
      /\ Len(accepted) \in Nat /\ DOMAIN accepted = 1 .. Len(accepted)
  BY FateTypes, LenProperties DEF CopiesShape, Request
<1> DEFINE last == Len(accepted) + 1
<1>1. /\ accepted' = Append(accepted, r.event) /\ requests' = requests \ {r}
  BY DEF ServiceAccept
<1>2. /\ DOMAIN accepted' = 1 .. last /\ accepted'[last] = r.event
      /\ \A i \in 1 .. Len(accepted) : accepted'[i] = accepted[i]
  BY <1>1, <1>t, AppendProperties
<1>3. Copies(r.event)' = Copies(r.event) \union {last} /\ last \notin Copies(r.event)
  BY <1>2, <1>t DEF Copies
<1>4. \A e \in Events : e # r.event => Copies(e)' = Copies(e) /\ Outstanding(e)' = Outstanding(e)
  BY <1>1, <1>2, <1>t DEF Copies, Outstanding
<1>5. Outstanding(r.event)' = Outstanding(r.event) \ {r} /\ r \in Outstanding(r.event)
  BY <1>1 DEF Outstanding
<1>6. /\ IsFiniteSet(Copies(r.event)) /\ Cardinality(Copies(r.event)) \in Nat
      /\ IsFiniteSet(Outstanding(r.event)) /\ Cardinality(Outstanding(r.event)) \in Nat
  BY <1>t, CopiesTypes
<1>7. Cardinality(Copies(r.event)') = Cardinality(Copies(r.event)) + 1
  BY <1>3, <1>6, FS_AddElement
<1>8. /\ Cardinality(Outstanding(r.event)') = Cardinality(Outstanding(r.event)) - 1
      /\ Cardinality(Outstanding(r.event)') \in Nat
  <2>1. /\ IsFiniteSet(Outstanding(r.event) \ {r})
        /\ Cardinality(Outstanding(r.event) \ {r}) = Cardinality(Outstanding(r.event)) - 1
    BY <1>5, <1>6, FS_RemoveElement
  <2>2. Cardinality(Outstanding(r.event) \ {r}) \in Nat
    BY <2>1, FS_CardinalityType
  <2> QED  BY <1>5, <2>1, <2>2
<1>9. ASSUME NEW e \in Events
      PROVE  /\ Cardinality(Copies(e)') \in Nat /\ Cardinality(Outstanding(e)') \in Nat
             /\ Cardinality(Copies(e)') + Cardinality(Outstanding(e)')
                  <= Cardinality(Copies(e)) + Cardinality(Outstanding(e))
  <2>1. /\ Cardinality(Copies(e)) \in Nat /\ Cardinality(Outstanding(e)) \in Nat
    BY <1>t, CopiesTypes
  <2>2. CASE e = r.event
    BY <2>2, <1>6, <1>7, <1>8
  <2>3. CASE e # r.event
    BY <2>1, <2>3, <1>4
  <2> QED  BY <2>2, <2>3
<1> QED  BY <1>t, <1>3, <1>4, <1>9

\* Every attempt posts one request, the service takes each request once.
LEMMA CopiesStep ==
    ASSUME IInv, FateShape, CopiesShape, [Next]_vars PROVE CopiesShape'
<1>t. /\ fate \in [Events -> Fates] /\ pending \in Events \union {None}
      /\ inflight \in Events \union {None}
      /\ attempt \in 0 .. MaxRetries /\ MaxRetries \in Nat
      /\ Undecided => inflight # None
      /\ IsFiniteSet(requests)
  BY FateTypes, PublisherAssumption DEF CopiesShape
\* Steps that post nothing and accept nothing.
<1>0. ASSUME UNCHANGED accepted, requests' \subseteq requests,
             \A e \in Events : Attempts(e) <= Attempts(e)' /\ Attempts(e)' \in Nat,
             worker' = "await" /\ acknowledged' =>
                worker = "await" /\ acknowledged /\ UNCHANGED inflight
      PROVE  CopiesShape'
  <2>1. IsFiniteSet(requests')
    BY <1>0, <1>t, FS_Subset
  <2>2. ASSUME NEW e \in Events
        PROVE  Cardinality(Copies(e)') + Cardinality(Outstanding(e)') <= Attempts(e)'
    <3>1. Copies(e)' = Copies(e)
      BY <1>0 DEF Copies
    <3>2. Outstanding(e)' \in SUBSET Outstanding(e)
      BY <1>0 DEF Outstanding
    <3>3. /\ IsFiniteSet(Outstanding(e)) /\ Cardinality(Outstanding(e)) \in Nat
          /\ Cardinality(Copies(e)) \in Nat /\ Attempts(e) \in Nat
      BY <1>t, CopiesTypes
    <3>4. /\ Cardinality(Outstanding(e)') <= Cardinality(Outstanding(e))
          /\ Cardinality(Outstanding(e)') \in Nat
      BY <3>2, <3>3, FS_Subset, FS_CardinalityType
    <3>5. Cardinality(Copies(e)) + Cardinality(Outstanding(e)) <= Attempts(e)
      BY DEF CopiesShape
    <3>6. Attempts(e) <= Attempts(e)' /\ Attempts(e)' \in Nat
      BY <1>0
    <3> QED  BY <3>1, <3>3, <3>4, <3>5, <3>6
  <2>3. worker' = "await" /\ acknowledged' => Copies(inflight)' # {}
    BY <1>0 DEF CopiesShape, Copies
  <2> QED  BY <2>1, <2>2, <2>3 DEF CopiesShape
\* Of these, the ones that do not touch the worker ...
<1>1. ASSUME UNCHANGED <<serviceVars, worker, attempt, inflight>>,
             \A e \in Events : fate'[e] # fate[e] =>
                /\ fate[e] \in {"unseen", "pending"}
                /\ fate'[e] \in {"pending", "overwritten", "abandoned"}
      PROVE  CopiesShape'
  <2>1. \A e \in Events : Attempts(e)' = Attempts(e) /\ Attempts(e) \in Nat
    BY <1>1, <1>t DEF Attempts
  <2> QED  BY <1>1, <2>1, <1>0
<1>2. CASE Submit
  <2>1. fate' = [e \in Events |-> IF e = generatedTotal + 1 THEN "pending"
                                 ELSE IF e = pending THEN "overwritten" ELSE fate[e]]
        /\ UNCHANGED <<serviceVars, worker, attempt, inflight>>
    BY <1>2 DEF Submit
  <2>2. ASSUME NEW e \in Events, e = generatedTotal + 1 PROVE fate[e] = "unseen"
    BY <2>2, FateTypes DEF FateShape
  <2> QED  BY <2>1, <2>2, <1>1, <1>t DEF FateShape
<1>3. ASSUME NEW c \in Closers, CloserStep(c) PROVE CopiesShape'
  <2>1. UNCHANGED <<serviceVars, worker, attempt, inflight>>
        /\ \/ UNCHANGED fate
           \/ pending # None /\ fate' = [fate EXCEPT ![pending] = "abandoned"]
    BY <1>3 DEF CloserStep, CloseBegin, CloseJoined, CloseTimeout, CloseFinish
  <2> QED  BY <2>1, <1>1, <1>t DEF FateShape
<1>4. ASSUME NEW w \in Waiters, IdleWait(w) \/ IdleReturn(w) PROVE CopiesShape'
  BY <1>4, <1>1 DEF IdleWait, IdleReturn
<1>5. CASE WorkerWait \/ UNCHANGED vars
  BY <1>5, <1>1 DEF WorkerWait, vars
\* ... and the worker's own.
<1>6. CASE Start \/ WorkerExit \/ DeliveryDone
  <2>1. /\ ~Undecided /\ worker' \in {"check", "done"} /\ UNCHANGED <<serviceVars, fate, attempt>>
    BY <1>6 DEF Start, WorkerExit, DeliveryDone
  <2>2. \A e \in Events : Attempts(e)' = Attempts(e) /\ Attempts(e) \in Nat
    BY <2>1, <1>t DEF Attempts, FateShape
  <2> QED  BY <2>1, <2>2, <1>0
<1>7. CASE WorkerTake
  <2>1. /\ worker = "check" /\ worker' = "post" /\ attempt' = 0 /\ UNCHANGED serviceVars
        /\ pending # None /\ fate' = [fate EXCEPT ![pending] = "inflight"]
    BY <1>7 DEF WorkerTake
  <2>2. \A e \in Events : Attempts(e)' = Attempts(e) /\ Attempts(e) \in Nat
    BY <2>1, <1>t DEF Attempts, FateShape
  <2> QED  BY <2>1, <2>2, <1>0
<1>8. CASE PostAccepted \/ GiveUp
  <2>1. /\ worker \in {"await", "failed"} /\ worker' = "settled"
        /\ UNCHANGED <<serviceVars, inflight, attempt>>
        /\ \E f \in {"delivered", "exhausted"} : fate' = [fate EXCEPT ![inflight] = f]
    BY <1>8 DEF PostAccepted, GiveUp
  <2>2. \A e \in Events : Attempts(e) <= Attempts(e)' /\ Attempts(e)' \in Nat
    BY <2>1, <1>t DEF Attempts, FateShape
  <2> QED  BY <2>1, <2>2, <1>0
<1>9. CASE PostFailed \/ CountRetry \/ SleepEnds
  <2>1. /\ UNCHANGED <<accepted, fate>> /\ requests' \subseteq requests
        /\ \/ worker = "await" /\ worker' = "failed" /\ UNCHANGED attempt
           \/ worker = "failed" /\ worker' = "sleep" /\ UNCHANGED attempt
           \/ worker = "sleep" /\ worker' = "post" /\ attempt' = attempt + 1
    BY <1>9 DEF PostFailed, CountRetry, SleepEnds
  <2>2. \A e \in Events : Attempts(e)' = Attempts(e) /\ Attempts(e) \in Nat
    BY <2>1, <1>t DEF Attempts
  <2> QED  BY <2>1, <2>2, <1>0
<1>10. CASE Post
  <2>1. /\ worker = "post" /\ worker' = "await" /\ requests' = requests \union {CurrentRequest}
        /\ acknowledged' = FALSE /\ UNCHANGED <<accepted, fate, inflight, attempt>>
    BY <1>10 DEF Post
  <2>2. IsFiniteSet(requests')
    BY <2>1, <1>t, FS_AddElement
  <2>3. ASSUME NEW e \in Events
        PROVE  Cardinality(Copies(e)') + Cardinality(Outstanding(e)') <= Attempts(e)'
    <3>1. Copies(e)' = Copies(e)
      BY <2>1 DEF Copies
    <3>2. /\ IsFiniteSet(Outstanding(e)) /\ Cardinality(Outstanding(e)) \in Nat
          /\ Cardinality(Copies(e)) \in Nat /\ Attempts(e) \in Nat
          /\ Cardinality(Copies(e)) + Cardinality(Outstanding(e)) <= Attempts(e)
      BY <1>t, CopiesTypes DEF CopiesShape
    <3>3. CASE e = inflight
      <4>1. Outstanding(e)' = Outstanding(e) \union {CurrentRequest}
        BY <2>1, <3>3 DEF Outstanding, CurrentRequest
      <4>2. /\ Cardinality(Outstanding(e)') <= Cardinality(Outstanding(e)) + 1
            /\ Cardinality(Outstanding(e)') \in Nat
        BY <4>1, <3>2, FS_AddElement
      <4>3. Attempts(e)' = Attempts(e) + 1
        BY <2>1, <3>3, <1>t DEF Attempts, FateShape
      <4> QED  BY <3>1, <3>2, <4>2, <4>3
    <3>4. CASE e # inflight
      <4>1. Outstanding(e)' = Outstanding(e)
        BY <2>1, <3>4 DEF Outstanding, CurrentRequest
      <4>2. Attempts(e)' = Attempts(e)
        BY <2>1, <3>4, <1>t DEF Attempts, FateShape
      <4> QED  BY <3>1, <3>2, <4>1, <4>2
    <3> QED  BY <3>3, <3>4
  <2> QED  BY <2>1, <2>2, <2>3 DEF CopiesShape
<1>11. ASSUME NEW r \in requests, ServiceAccept(r) PROVE CopiesShape'
  <2>1. /\ requests' = requests \ {r} /\ UNCHANGED <<worker, inflight, attempt, fate>>
        /\ acknowledged' = (acknowledged \/ (worker = "await" /\ r = CurrentRequest))
    BY <1>11 DEF ServiceAccept
  <2>2. IsFiniteSet(requests')
    BY <2>1, <1>t, FS_RemoveElement
  <2>3. ASSUME NEW e \in Events
        PROVE  Cardinality(Copies(e)') + Cardinality(Outstanding(e)') <= Attempts(e)'
    <3>1. Attempts(e)' = Attempts(e)
      BY <2>1 DEF Attempts
    <3>2. Cardinality(Copies(e)') + Cardinality(Outstanding(e)')
          <= Cardinality(Copies(e)) + Cardinality(Outstanding(e))
      BY <1>11, AcceptMoves
    <3>3. /\ Cardinality(Copies(e)) + Cardinality(Outstanding(e)) <= Attempts(e)
          /\ Cardinality(Copies(e)) \in Nat /\ Cardinality(Outstanding(e)) \in Nat
          /\ Attempts(e) \in Nat
      BY <1>t, CopiesTypes DEF CopiesShape
    <3>4. /\ Cardinality(Copies(e)') \in Nat /\ Cardinality(Outstanding(e)') \in Nat
      BY <1>11, AcceptMoves
    <3> QED  BY <3>1, <3>2, <3>3, <3>4
  <2>4. ASSUME worker' = "await", acknowledged' PROVE Copies(inflight)' # {}
    <3>1. inflight \in Events
      BY <2>1, <2>4, <1>t
    <3>2. CASE acknowledged
      BY <3>1, <3>2, <2>1, <2>4, <1>11, AcceptMoves DEF CopiesShape
    <3>3. CASE r = CurrentRequest
      BY <3>3, <2>1, <1>11, AcceptMoves DEF CurrentRequest
    <3> QED  BY <2>1, <2>4, <3>2, <3>3
  <2> QED  BY <2>2, <2>3, <2>4 DEF CopiesShape
<1> QED
  BY <1>2, <1>3, <1>4, <1>5, <1>6, <1>7, <1>8, <1>9, <1>10, <1>11 DEF Next, WorkerStep

-----------------------------------------------------------------------------
(* The promise.                                                            *)

\* Each step of a thread or of the service is a step of the promise, or none.
LEMMA PromiseStep ==
    ASSUME IInv, FateShape, CopiesShape, [Next]_vars
    PROVE  [Promise!Next]_<<fate, accepted>>
<1>t. /\ fate \in [Events -> Fates] /\ pending \in Events \union {None}
      /\ inflight \in Events \union {None} /\ generatedTotal \in 0 .. MaxEvents
      /\ MaxEvents \in Nat /\ Events = 1 .. MaxEvents /\ Promise!Events = Events
      /\ Undecided => inflight # None
      /\ IsFiniteSet(requests) /\ MaxRetries \in Nat
  BY FateTypes, PublisherAssumption DEF Events, Promise!Events, CopiesShape
<1>c. \A e \in Events : Promise!AcceptedCopies(e) = Cardinality(Copies(e))
  BY DEF Promise!AcceptedCopies, Copies, Promise!Cardinality, Cardinality, Promise!IsFiniteSet, IsFiniteSet
<1>1. CASE Submit
  <2>1. /\ generatedTotal < MaxEvents /\ UNCHANGED accepted
        /\ fate' = [e \in Events |-> IF e = generatedTotal + 1 THEN "pending"
                                     ELSE IF e = pending THEN "overwritten" ELSE fate[e]]
    BY <1>1 DEF Submit
  <2> DEFINE new == generatedTotal + 1
  <2>2. new \in Events /\ fate[new] = "unseen" /\ \A d \in Events : d < new => fate[d] # "unseen"
    BY <2>1, <1>t DEF FateShape
  <2>3. fate' = [d \in Events |-> IF d = new THEN "pending"
                                 ELSE IF fate[d] = "pending" THEN "overwritten" ELSE fate[d]]
    BY <2>1, <1>t DEF FateShape
  <2>4. Promise!Generate(new)
    BY <2>1, <2>2, <2>3, <1>t DEF Promise!Generate
  <2> QED  BY <2>2, <2>4, <1>t DEF Promise!Next
<1>2. CASE WorkerTake
  <2>1. /\ worker = "check" /\ pending # None /\ UNCHANGED accepted
        /\ fate' = [fate EXCEPT ![pending] = "inflight"]
    BY <1>2 DEF WorkerTake
  <2>2. /\ pending \in Events /\ fate[pending] = "pending"
        /\ \A d \in Events : fate[d] # "inflight"
        /\ \A d \in Events : d > pending => fate[d] = "unseen"
    BY <2>1, <1>t DEF FateShape
  <2>3. Promise!Take(pending)
    BY <2>1, <2>2, <1>t DEF Promise!Take, Promise!Having
  <2> QED  BY <2>2, <2>3, <1>t DEF Promise!Next
<1>3. CASE PostAccepted
  <2>1. /\ worker = "await" /\ acknowledged /\ UNCHANGED accepted
        /\ fate' = [fate EXCEPT ![inflight] = "delivered"]
    BY <1>3 DEF PostAccepted
  <2>2. inflight \in Events /\ fate[inflight] = "inflight"
    BY <2>1, <1>t DEF FateShape
  <2>3. Promise!AcceptedCopies(inflight) > 0
    <3>1. Copies(inflight) # {}
      BY <2>1 DEF CopiesShape
    <3>2. IsFiniteSet(Copies(inflight)) /\ Cardinality(Copies(inflight)) \in Nat
      BY <2>2, <1>t, CopiesTypes
    <3>3. Cardinality(Copies(inflight)) # 0
      BY <3>1, <3>2, FS_EmptySet
    <3> QED  BY <3>2, <3>3, <2>2, <1>c
  <2>4. Promise!Deliver(inflight)
    BY <2>1, <2>2, <2>3 DEF Promise!Deliver
  <2> QED  BY <2>2, <2>4, <1>t DEF Promise!Next
<1>4. CASE GiveUp
  <2>1. /\ worker = "failed" /\ UNCHANGED accepted
        /\ fate' = [fate EXCEPT ![inflight] = "exhausted"]
    BY <1>4 DEF GiveUp
  <2>2. inflight \in Events /\ fate[inflight] = "inflight"
    BY <2>1, <1>t DEF FateShape
  <2> QED  BY <2>1, <2>2, <1>t DEF Promise!Next, Promise!Exhaust
<1>5. ASSUME NEW c \in Closers, CloserStep(c) PROVE [Promise!Next]_<<fate, accepted>>
  <2>1. /\ UNCHANGED accepted
        /\ \/ UNCHANGED fate
           \/ pending # None /\ fate' = [fate EXCEPT ![pending] = "abandoned"]
    BY <1>5 DEF CloserStep, CloseBegin, CloseJoined, CloseTimeout, CloseFinish
  <2>2. pending # None => pending \in Events /\ fate[pending] = "pending"
    BY <1>t DEF FateShape
  <2> QED  BY <2>1, <2>2, <1>t DEF Promise!Next, Promise!Abandon
<1>6. ASSUME NEW r \in requests, ServiceAccept(r) PROVE [Promise!Next]_<<fate, accepted>>
  <2>1. accepted' = Append(accepted, r.event) /\ UNCHANGED fate
    BY <1>6 DEF ServiceAccept
  <2> DEFINE e == r.event
  <2>2. e \in Events
    BY <1>6, AcceptMoves
  <2>3. /\ IsFiniteSet(Outstanding(e)) /\ Cardinality(Outstanding(e)) \in Nat
        /\ Cardinality(Copies(e)) \in Nat /\ Attempts(e) \in 0 .. MaxRetries + 1
    BY <2>2, <1>t, CopiesTypes
  <2>4. Cardinality(Outstanding(e)) # 0
    <3>1. Outstanding(e) # {}
      BY DEF Outstanding
    <3> QED  BY <3>1, <2>3, FS_EmptySet
  <2>5. Cardinality(Copies(e)) + Cardinality(Outstanding(e)) <= Attempts(e)
    BY <2>2 DEF CopiesShape
  <2>6. Cardinality(Copies(e)) <= MaxRetries /\ Attempts(e) # 0
    BY <2>3, <2>4, <2>5, <1>t
  <2>7. fate[e] \in {"inflight", "delivered", "exhausted"}
    BY <2>6 DEF Attempts
  <2> HIDE DEF e
  <2>8. Promise!Accept(e)
    BY <2>1, <2>2, <2>6, <2>7, <1>c DEF Promise!Accept, e
  <2> QED  BY <2>2, <2>8, <1>t DEF Promise!Next
<1>7. CASE \/ Start \/ \E w \in Waiters : IdleWait(w) \/ IdleReturn(w)
           \/ WorkerWait \/ WorkerExit \/ Post \/ PostFailed \/ CountRetry \/ SleepEnds
           \/ DeliveryDone \/ UNCHANGED vars
  BY <1>7 DEF Start, IdleWait, IdleReturn, WorkerWait, WorkerExit, Post, PostFailed, CountRetry,
              SleepEnds, DeliveryDone, vars
<1> QED
  BY <1>1, <1>2, <1>3, <1>4, <1>5, <1>6, <1>7 DEF Next, WorkerStep

-----------------------------------------------------------------------------
LEMMA InitPromiseInv == Init => PromiseInv
<1> SUFFICES ASSUME Init PROVE PromiseInv
  OBVIOUS
<1>1. IInv
  BY InitIInv
<1>2. FateShape
  BY EventsAreFinite DEF Init, FateShape
<1>3. CopiesShape
  <2>1. /\ requests = {} /\ accepted = <<>> /\ worker = "none"
        /\ \A e \in Events : fate[e] = "unseen"
    BY DEF Init
  <2>2. \A e \in Events : Copies(e) = {} /\ Outstanding(e) = {} /\ Attempts(e) = 0
    BY <2>1 DEF Copies, Outstanding, Attempts
  <2>3. IsFiniteSet({}) /\ Cardinality({}) = 0
    BY FS_EmptySet
  <2>4. \A e \in Events : Cardinality(Copies(e)) + Cardinality(Outstanding(e)) <= Attempts(e)
    BY <2>2, <2>3
  <2> QED  BY <2>1, <2>3, <2>4 DEF CopiesShape
<1>4. CountersTellFates
  <2>1. Having({"delivered"}) = {} /\ Having({"overwritten", "exhausted", "abandoned"}) = {}
        /\ Having({"exhausted"}) = {}
    BY DEF Init, Having
  <2>2. Cardinality({}) = 0
    BY FS_EmptySet
  <2>3. /\ deliveredTotal = 0 /\ droppedTotal = 0 /\ errorsTotal = 0 /\ retriesTotal = 0
        /\ worker = "none"
    BY DEF Init
  <2> QED  BY <2>1, <2>2, <2>3 DEF CountersTellFates, Having
<1> QED  BY <1>1, <1>2, <1>3, <1>4 DEF PromiseInv

\* The fields of the publisher tell the fate of every event, and the copies of an event
\* never outnumber its attempts.
THEOREM PublisherPromiseInvariant == Spec => []PromiseInv
<1>1. PromiseInv /\ [Next]_vars => PromiseInv'
  BY NextKeeps, FateStep, CopiesStep, CountStep DEF PromiseInv
<1> QED  BY <1>1, InitPromiseInv, PTL DEF Spec

\* The counters of metrics_snapshot are the true numbers of events, for any policy and
\* any interleaving of submit, close and the worker.
THEOREM PublisherCountsFates == Spec => []CountersTellFates
BY PublisherPromiseInvariant, PTL DEF PromiseInv

\* Latest event wins, one delivery at a time, delivered only if the service accepted the
\* event, at most one accepted copy per attempt.
THEOREM PublisherRefinesPromise == Spec => ImplementsPromise
<1>1. Init => Promise!Init
  BY DEF Init, Promise!Init, Events, Promise!Events
<1>2. PromiseInv /\ [Next]_vars => [Promise!Next]_<<fate, accepted>>
  BY PromiseStep DEF PromiseInv
<1> QED
  BY <1>1, <1>2, PublisherPromiseInvariant, PTL DEF Spec, ImplementsPromise, Promise!Spec

=============================================================================
