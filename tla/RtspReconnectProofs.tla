-------------------------- MODULE RtspReconnectProofs --------------------------
(***************************************************************************)
(* Both drills, for any number of frames, attempts and frames under way,   *)
(* any back-off policy and any interference on the port.                   *)
(*                                                                         *)
(* The argument: until the drill notices that its server is gone nothing   *)
(* is charged to the retry budget.  From then on the program counter tells *)
(* how many reconnects were begun, the budget is their number, and a       *)
(* healthy frame is one since the last of them.  Only the end of either    *)
(* loop leads to the evidence, past the teardown.                          *)
(*                                                                         *)
(* A last part counts the steps a drill has left.                          *)
(***************************************************************************)
EXTENDS RtspReconnect, TLAPS

\* Before the drill notices that its server is gone.
Early == {"start", "connect", "initial", "stop", "detect"}
Recovering == {"backoff", "restart", "reconnect", "recover"}
Exhausting == {"attempt", "offline"}

EarlyShape ==
    pc \in Early =>
        /\ tracker.reconnects = 0 /\ tracker.budget = 0
        /\ tracker.events = 0 /\ tracker.backoff = 0
        /\ tracker.connections = IF pc = "start" THEN 0 ELSE 1

RecoveringShape ==
    pc \in Recovering =>
        /\ drill = "recovery" /\ tracker.state = "RECONNECTING"
        /\ tracker.reconnects = 1 /\ tracker.budget = 1 /\ tracker.events = 1
        /\ tracker.connections = IF pc \in {"backoff", "restart"} THEN 1 ELSE 2
        /\ pc # "recover" => fresh = 0

ExhaustingShape ==
    pc \in Exhausting =>
        /\ drill = "exhaustion" /\ tracker.state = "RECONNECTING"
        /\ tracker.budget = tracker.reconnects
        /\ tracker.connections = 1 + tracker.reconnects
        /\ IF pc = "attempt" THEN tracker.events = 1 + tracker.reconnects
                             ELSE tracker.events = tracker.reconnects /\ tracker.reconnects > 0
        /\ tracker.reconnects > 0 => fresh = 0

\* How many frames were received, and how many may still come.
FramesShape ==
    /\ pc \in {"start", "connect"} => tracker.received = 0
    /\ pc \in {"initial", "stop"} => tracker.received + left = InitialFrames
    /\ pc = "detect" => tracker.received + buffered <= InitialFrames + MaxBuffered
    /\ pc \in Exhausting \cup {"backoff", "restart", "reconnect"} =>
          tracker.received <= InitialFrames + MaxBuffered
    /\ pc = "recover" =>
          /\ tracker.received + left <= InitialFrames + MaxBuffered + HealthyFrames
          /\ tracker.healthy + left = HealthyFrames
    /\ pc \in {"detect", "backoff", "restart"} => server = "none"

\* What a drill that did not fail knows when it leaves its try block.
Success ==
    IF drill = "recovery"
    THEN /\ tracker.state = "STREAMING" /\ tracker.budget = 0 /\ tracker.backoff = 0
         /\ tracker.events = 1 /\ fresh >= HealthyFrames
    ELSE /\ tracker.state = "FAILED" /\ tracker.budget = MaxAttempts /\ tracker.backoff = 0
         /\ tracker.events = 1 + MaxAttempts /\ fresh = 0

EndShape ==
    /\ pc \in {"finally", "verify"} /\ ~failed => Success
    /\ pc \in {"verify", "ended"} => server = "none" /\ client = "none"
    /\ failed => pc \in {"finally", "ended"}
    /\ orphan => failed
    /\ evidence # "none" =>
          /\ Success /\ pc = "ended" /\ ~failed
          /\ evidence = IF drill = "recovery" THEN "recovered" ELSE "exhausted"

GaugeShape == tracker.backoff = 0 \/ tracker.backoff = Backoff(tracker.reconnects)

RtspInv ==
    /\ TypeOK
    /\ EarlyShape
    /\ RecoveringShape
    /\ ExhaustingShape
    /\ FramesShape
    /\ EndShape
    /\ GaugeShape
    /\ BudgetTellsReconnects
    /\ GaugeTellsWait

-----------------------------------------------------------------------------
(* What the operations of StreamHealthTracker do to its fields.            *)

States      == {"DISCONNECTED", "CONNECTING", "STREAMING", "RECONNECTING", "FAILED"}
Connections == 0 .. MaxAttempts + 1
Attempts    == 0 .. MaxAttempts
Healthies   == 0 .. HealthyFrames
Receiveds   == 0 .. InitialFrames + MaxBuffered + HealthyFrames
Delays      == {0} \cup {Backoff(n) : n \in 1 .. MaxAttempts}

LEMMA TrackerTypes ==
    /\ Trackers = [state : States, connections : Connections, reconnects : Attempts,
                   budget : Attempts, healthy : Healthies, received : Receiveds,
                   events : Connections, backoff : Delays]
    /\ 0 \in Attempts /\ 0 \in Healthies /\ 0 \in Delays
BY RtspAssumption DEF Trackers, States, Connections, Attempts, Healthies, Receiveds, Delays

LEMMA TrackerFields ==
    ASSUME NEW t \in Trackers
    PROVE  /\ t.state \in States
           /\ t.connections \in Connections /\ t.reconnects \in Attempts
           /\ t.budget \in Attempts /\ t.healthy \in Healthies
           /\ t.received \in Receiveds /\ t.events \in Connections /\ t.backoff \in Delays
BY TrackerTypes

\* A frame counts as received, and as healthy once a reconnect is on the budget.
LEMMA FrameRecorded ==
    ASSUME NEW t \in Trackers
    PROVE  LET u == RecordFrame(t) IN
           /\ u.state = t.state /\ u.connections = t.connections
           /\ u.reconnects = t.reconnects /\ u.budget = t.budget
           /\ u.healthy = (IF t.budget > 0 THEN t.healthy + 1 ELSE t.healthy)
           /\ u.received = t.received + 1
           /\ u.events = t.events /\ u.backoff = t.backoff
           /\ u.healthy \in Healthies /\ u.received \in Receiveds => u \in Trackers
BY TrackerTypes DEF RecordFrame

\* A reconnect is charged to the budget and starts the count of healthy frames anew.
LEMMA ReconnectBegun ==
    ASSUME NEW t \in Trackers
    PROVE  LET u == BeginReconnect(t) IN
           /\ u.state = t.state /\ u.connections = t.connections
           /\ u.reconnects = t.reconnects + 1 /\ u.budget = t.budget + 1
           /\ u.healthy = 0 /\ u.received = t.received
           /\ u.events = t.events /\ u.backoff = t.backoff
           /\ u.reconnects \in Attempts /\ u.budget \in Attempts => u \in Trackers
BY TrackerTypes DEF BeginReconnect

\* The budget is given back whole.
LEMMA BudgetReset ==
    ASSUME NEW t \in Trackers
    PROVE  LET u == ResetBudget(t) IN
           /\ u.state = t.state /\ u.connections = t.connections
           /\ u.reconnects = t.reconnects /\ u.budget = 0
           /\ u.healthy = 0 /\ u.received = t.received
           /\ u.events = t.events /\ u.backoff = t.backoff
           /\ u \in Trackers
BY TrackerTypes DEF ResetBudget

-----------------------------------------------------------------------------
\* Every action keeps the invariant, whatever fails and whoever takes the port.
LEMMA RtspStep == ASSUME RtspInv, [Next]_vars PROVE RtspInv'
<1> USE DEF RtspInv, EarlyShape, RecoveringShape, ExhaustingShape, FramesShape, EndShape, Success,
            GaugeShape, BudgetTellsReconnects, GaugeTellsWait, Early, Recovering, Exhausting
<1>t. tracker \in Trackers
  BY DEF TypeOK
<1>f. /\ tracker.connections \in 0 .. MaxAttempts + 1 /\ tracker.reconnects \in 0 .. MaxAttempts
      /\ tracker.budget \in 0 .. MaxAttempts /\ tracker.healthy \in 0 .. HealthyFrames
      /\ tracker.received \in 0 .. InitialFrames + MaxBuffered + HealthyFrames
      /\ tracker.events \in 0 .. MaxAttempts + 1
  BY <1>t, TrackerFields DEF Connections, Attempts, Healthies, Receiveds
<1>o. fresh \in Nat /\ left \in 0 .. InitialFrames + HealthyFrames /\ buffered \in 0 .. MaxBuffered
  BY DEF TypeOK
<1>1. ASSUME NEW from, NEW to, StartServer(from, to),
             <<from, to>> \in {<<"start", "connect">>, <<"restart", "reconnect">>}
      PROVE  RtspInv'
  <2>1. tracker.connections + 1 \in Connections
    BY <1>1, <1>f, RtspAssumption DEF StartServer, Connections
  <2>2. /\ tracker' \in Trackers
        /\ tracker'.state = IF from = "start" THEN "CONNECTING" ELSE tracker.state
        /\ tracker'.connections = tracker.connections + 1
        /\ tracker'.reconnects = tracker.reconnects /\ tracker'.budget = tracker.budget
        /\ tracker'.healthy = tracker.healthy /\ tracker'.received = tracker.received
        /\ tracker'.events = tracker.events /\ tracker'.backoff = tracker.backoff
    BY <1>1, <2>1, <1>t, TrackerTypes, TrackerFields DEF StartServer, States
  <2>3. TypeOK'
    BY <1>1, <2>2 DEF StartServer, TypeOK, network
  <2> QED  BY <1>1, <1>f, <1>o, <2>2, <2>3 DEF StartServer, network
<1>2. ASSUME StopServer("detect") PROVE RtspInv'
  <2>1. TypeOK'
    BY <1>2 DEF StopServer, Go, TypeOK, network
  <2> QED  BY <1>2, <1>f, <1>o, <2>1, RtspAssumption DEF StopServer, Go
<1>3. ASSUME StopTimesOut \/ Raise PROVE RtspInv'
  <2>1. TypeOK'
    BY <1>3 DEF StopTimesOut, Raise, TypeOK, network, parts
  <2> QED  BY <1>3, <2>1 DEF StopTimesOut, Raise, network, parts
<1>4. ASSUME CreateClient("connect", "initial", InitialFrames) PROVE RtspInv'
  <2>1. TypeOK'
    BY <1>4, RtspAssumption DEF CreateClient, Go, TypeOK, network
  <2> QED  BY <1>4, <2>1, RtspAssumption DEF CreateClient, Go
<1>5. ASSUME CreateClient("reconnect", "recover", HealthyFrames) PROVE RtspInv'
  <2>1. TypeOK'
    BY <1>5, RtspAssumption DEF CreateClient, Go, TypeOK, network
  <2> QED  BY <1>5, <1>f, <2>1, RtspAssumption DEF CreateClient, Go
<1>6. ASSUME NEW at, PullFrame(at), at \in {"initial", "recover"} PROVE RtspInv'
  <2>1. /\ tracker.received + 1 \in Receiveds
        /\ (IF tracker.budget > 0 THEN tracker.healthy + 1 ELSE tracker.healthy) \in Healthies
    BY <1>6, <1>f, <1>o, RtspAssumption DEF PullFrame, Go, Receiveds, Healthies
  <2>2. /\ tracker' \in Trackers
        /\ tracker'.state = tracker.state /\ tracker'.connections = tracker.connections
        /\ tracker'.reconnects = tracker.reconnects /\ tracker'.budget = tracker.budget
        /\ tracker'.healthy = (IF tracker.budget > 0 THEN tracker.healthy + 1 ELSE tracker.healthy)
        /\ tracker'.received = tracker.received + 1
        /\ tracker'.events = tracker.events /\ tracker'.backoff = tracker.backoff
    <3> HIDE DEF RtspInv
    <3>1. tracker' = RecordFrame(tracker)
      BY <1>6 DEF PullFrame
    <3> QED  BY <2>1, <3>1, <1>t, FrameRecorded
  <2>3. TypeOK'
    <3>1. /\ fresh' \in Nat /\ left' \in 0 .. InitialFrames + HealthyFrames
          /\ buffered' \in 0 .. MaxBuffered
      BY <1>6, <1>o, RtspAssumption DEF PullFrame
    <3> QED  BY <1>6, <2>2, <3>1 DEF PullFrame, Go, TypeOK, network
  <2> QED  BY <1>6, <1>f, <1>o, <2>2, <2>3, RtspAssumption DEF PullFrame, Go
<1>7. ASSUME Streaming PROVE RtspInv'
  <2>1. /\ tracker' \in Trackers
        /\ tracker'.state = "STREAMING" /\ tracker'.connections = tracker.connections
        /\ tracker'.reconnects = tracker.reconnects /\ tracker'.budget = tracker.budget
        /\ tracker'.healthy = tracker.healthy /\ tracker'.received = tracker.received
        /\ tracker'.events = tracker.events /\ tracker'.backoff = tracker.backoff
    BY <1>7, <1>t, TrackerTypes DEF Streaming, States
  <2>2. TypeOK'
    BY <1>7, <2>1 DEF Streaming, Go, TypeOK, network, parts
  <2> QED  BY <1>7, <1>f, <1>o, <2>1, <2>2 DEF Streaming, Go, parts
<1>8. ASSUME LateFrame PROVE RtspInv'
  <2>1. tracker.received + 1 \in Receiveds /\ tracker.budget = 0 /\ tracker.healthy \in Healthies
    BY <1>8, <1>f, <1>o, RtspAssumption DEF LateFrame, Go, Receiveds, Healthies
  <2>2. /\ tracker' \in Trackers
        /\ tracker'.state = tracker.state /\ tracker'.connections = tracker.connections
        /\ tracker'.reconnects = tracker.reconnects /\ tracker'.budget = tracker.budget
        /\ tracker'.healthy = tracker.healthy /\ tracker'.received = tracker.received + 1
        /\ tracker'.events = tracker.events /\ tracker'.backoff = tracker.backoff
    <3> HIDE DEF RtspInv
    <3>1. tracker' = RecordFrame(tracker)
      BY <1>8 DEF LateFrame
    <3>2. ~(tracker.budget > 0)
      BY <2>1
    <3> QED  BY <2>1, <3>1, <3>2, <1>t, FrameRecorded
  <2>3. TypeOK'
    <3>1. fresh' \in Nat /\ buffered' \in 0 .. MaxBuffered
      BY <1>8, <1>o, RtspAssumption DEF LateFrame
    <3> QED  BY <1>8, <2>2, <3>1 DEF LateFrame, Go, TypeOK, network
  <2> QED  BY <1>8, <1>f, <1>o, <2>1, <2>2, <2>3 DEF LateFrame, Go
<1>9. ASSUME Detect PROVE RtspInv'
  <2> DEFINE noticed == [tracker EXCEPT !.events = @ + 1, !.state = "RECONNECTING"]
  <2>1. pc = "detect" /\ tracker.events + 1 \in Connections
    BY <1>9, <1>f, RtspAssumption DEF Detect, Go, Connections
  <2>e. /\ tracker.reconnects = 0 /\ tracker.budget = 0 /\ tracker.healthy = 0
        /\ tracker.events = 0 /\ tracker.backoff = 0 /\ tracker.connections = 1
        /\ tracker.received <= InitialFrames + MaxBuffered
        /\ drill \in {"recovery", "exhaustion"} /\ ~failed /\ evidence = "none" /\ server = "none"
        /\ ~orphan
    BY <2>1, <1>f, <1>o, RtspAssumption DEF TypeOK
  <2>n. /\ noticed \in Trackers
        /\ noticed.state = "RECONNECTING" /\ noticed.connections = tracker.connections
        /\ noticed.reconnects = tracker.reconnects /\ noticed.budget = tracker.budget
        /\ noticed.healthy = tracker.healthy /\ noticed.received = tracker.received
        /\ noticed.events = tracker.events + 1 /\ noticed.backoff = tracker.backoff
    <3> HIDE DEF RtspInv
    <3> QED  BY <2>1, <1>t, TrackerTypes DEF States
  <2>2. /\ noticed \in Trackers
        /\ noticed.state = "RECONNECTING" /\ noticed.connections = 1
        /\ noticed.reconnects = 0 /\ noticed.budget = 0
        /\ noticed.healthy = 0 /\ noticed.received = tracker.received
        /\ noticed.events = 1 /\ noticed.backoff = 0
    BY <2>n, <2>e
  <2>3. noticed.reconnects + 1 \in Attempts
    BY <2>2, RtspAssumption DEF Attempts
  <2>4. IF drill = "recovery"
        THEN tracker' = BeginReconnect(noticed) /\ fresh' = 0
        ELSE tracker' = noticed /\ UNCHANGED fresh
    BY <1>9 DEF Detect
  <2> HIDE DEF noticed
  <2>5. /\ tracker' \in Trackers
        /\ tracker'.state = "RECONNECTING" /\ tracker'.connections = 1
        /\ tracker'.reconnects = IF drill = "recovery" THEN 1 ELSE 0
        /\ tracker'.budget = IF drill = "recovery" THEN 1 ELSE 0
        /\ tracker'.healthy = 0 /\ tracker'.received = tracker.received
        /\ tracker'.events = 1 /\ tracker'.backoff = 0
    BY <2>2, <2>3, <2>4, ReconnectBegun
  <2>6. TypeOK'
    BY <1>9, <2>4, <2>5, RtspAssumption DEF Detect, Go, TypeOK, network
  <2>7. /\ pc' = IF drill = "recovery" THEN "backoff" ELSE "attempt"
        /\ UNCHANGED <<drill, failed, evidence, server, orphan>>
    BY <1>9 DEF Detect, Go
  <2>8. fresh' = IF drill = "recovery" THEN 0 ELSE fresh
    BY <2>4
  <2>9. EarlyShape' /\ FramesShape' /\ EndShape' /\ GaugeShape' /\ GaugeTellsWait'
    BY <2>e, <2>5, <2>7
  <2>10. RecoveringShape' /\ ExhaustingShape' /\ BudgetTellsReconnects'
    BY <2>e, <2>5, <2>7, <2>8
  <2> QED  BY <2>6, <2>9, <2>10
<1>10. ASSUME Sleep PROVE RtspInv'
  <2>1. Backoff(1) \in Delays
    BY RtspAssumption DEF Delays
  <2>2. /\ tracker' \in Trackers
        /\ tracker'.state = tracker.state /\ tracker'.connections = tracker.connections
        /\ tracker'.reconnects = tracker.reconnects /\ tracker'.budget = tracker.budget
        /\ tracker'.healthy = tracker.healthy /\ tracker'.received = tracker.received
        /\ tracker'.events = tracker.events /\ tracker'.backoff = Backoff(1)
    BY <1>10, <1>t, <2>1, TrackerTypes DEF Sleep
  <2>3. TypeOK'
    BY <1>10, <2>2 DEF Sleep, Go, TypeOK, network, parts
  <2> QED  BY <1>10, <2>2, <2>3 DEF Sleep, Go, parts
<1>11. ASSUME Recovered PROVE RtspInv'
  <2>1. ResetBudget(tracker) \in Trackers
    BY <1>t, BudgetReset
  <2>2. /\ tracker' \in Trackers
        /\ tracker'.state = "STREAMING" /\ tracker'.connections = tracker.connections
        /\ tracker'.reconnects = tracker.reconnects /\ tracker'.budget = 0
        /\ tracker'.healthy = 0 /\ tracker'.received = tracker.received
        /\ tracker'.events = tracker.events /\ tracker'.backoff = 0
    BY <1>11, <1>t, <2>1, BudgetReset, TrackerTypes DEF Recovered, States
  <2>3. TypeOK'
    BY <1>11, <2>2 DEF Recovered, Go, TypeOK, network, parts
  <2> QED  BY <1>11, <1>f, <2>2, <2>3 DEF Recovered, Go, parts
<1>12. ASSUME BeginAttempt PROVE RtspInv'
  <2>1. pc = "attempt" /\ tracker.reconnects < MaxAttempts
    BY <1>12 DEF BeginAttempt, Go
  <2>2. /\ tracker.reconnects + 1 \in Attempts /\ tracker.budget + 1 \in Attempts
        /\ tracker.connections + 1 \in Connections
        /\ Backoff(tracker.reconnects + 1) \in Delays
    BY <2>1, <1>f, RtspAssumption DEF Attempts, Connections, Delays
  <2> DEFINE begun == BeginReconnect(tracker)
  <2>3. /\ begun \in Trackers
        /\ begun.state = tracker.state /\ begun.connections = tracker.connections
        /\ begun.reconnects = tracker.reconnects + 1 /\ begun.budget = tracker.budget + 1
        /\ begun.healthy = 0 /\ begun.received = tracker.received
        /\ begun.events = tracker.events /\ begun.backoff = tracker.backoff
    BY <1>t, <2>2, ReconnectBegun
  <2>4. tracker' = [begun EXCEPT !.connections = @ + 1, !.backoff = Backoff(tracker.reconnects + 1)]
    BY <1>12 DEF BeginAttempt
  <2> HIDE DEF begun
  <2>5. /\ tracker' \in Trackers
        /\ tracker'.state = tracker.state /\ tracker'.connections = tracker.connections + 1
        /\ tracker'.reconnects = tracker.reconnects + 1 /\ tracker'.budget = tracker.budget + 1
        /\ tracker'.healthy = 0 /\ tracker'.received = tracker.received
        /\ tracker'.events = tracker.events /\ tracker'.backoff = Backoff(tracker.reconnects + 1)
    BY <2>2, <2>3, <2>4, TrackerTypes
  <2>6. TypeOK'
    BY <1>12, <2>5 DEF BeginAttempt, Go, TypeOK, network, parts
  <2> QED  BY <1>12, <1>f, <2>1, <2>5, <2>6 DEF BeginAttempt, Go, parts
<1>13. ASSUME AttemptFails PROVE RtspInv'
  <2>1. tracker.events + 1 \in Connections
    BY <1>13, <1>f DEF AttemptFails, Go, Connections
  <2>2. /\ tracker' \in Trackers
        /\ tracker'.state = tracker.state /\ tracker'.connections = tracker.connections
        /\ tracker'.reconnects = tracker.reconnects /\ tracker'.budget = tracker.budget
        /\ tracker'.healthy = tracker.healthy /\ tracker'.received = tracker.received
        /\ tracker'.events = tracker.events + 1 /\ tracker'.backoff = tracker.backoff
    BY <1>13, <1>t, <2>1, TrackerTypes DEF AttemptFails
  <2>3. TypeOK'
    BY <1>13, <2>2 DEF AttemptFails, Go, TypeOK, network, parts
  <2> QED  BY <1>13, <1>f, <2>2, <2>3 DEF AttemptFails, Go, parts
<1>14. ASSUME Exhausted PROVE RtspInv'
  <2>1. /\ tracker' \in Trackers
        /\ tracker'.state = "FAILED" /\ tracker'.connections = tracker.connections
        /\ tracker'.reconnects = tracker.reconnects /\ tracker'.budget = tracker.budget
        /\ tracker'.healthy = tracker.healthy /\ tracker'.received = tracker.received
        /\ tracker'.events = tracker.events /\ tracker'.backoff = 0
    BY <1>14, <1>t, TrackerTypes DEF Exhausted, States
  <2>2. TypeOK'
    BY <1>14, <2>1 DEF Exhausted, Go, TypeOK, network, parts
  <2> QED  BY <1>14, <1>f, <2>1, <2>2, RtspAssumption DEF Exhausted, Go, parts
<1>15. ASSUME Finally PROVE RtspInv'
  <2>1. TypeOK'
    BY <1>15, RtspAssumption DEF Finally, Go, TypeOK, network
  <2> QED  BY <1>15, <2>1 DEF Finally, Go
<1>16. ASSUME Publish PROVE RtspInv'
  <2>1. TypeOK'
    BY <1>16 DEF Publish, TypeOK, network, parts
  <2> QED  BY <1>16, <2>1 DEF Publish, parts
<1>17. ASSUME ServerCrashes \/ FrameArrives PROVE RtspInv'
  <2>1. TypeOK'
    <3>1. CASE ServerCrashes
      BY <3>1 DEF ServerCrashes, TypeOK, network
    <3>2. CASE FrameArrives
      <4>1. buffered' \in 0 .. MaxBuffered
        BY <3>2, <1>o, RtspAssumption DEF FrameArrives
      <4> QED  BY <3>2, <4>1 DEF FrameArrives, TypeOK, network
    <3> QED  BY <1>17, <3>1, <3>2
  <2> QED  BY <1>17, <2>1 DEF ServerCrashes, FrameArrives
<1>18. ASSUME StrangerComes \/ StrangerLeaves \/ UNCHANGED vars PROVE RtspInv'
  <2>1. TypeOK'
    <3>0. strangers \in 0 .. MaxStrangers /\ stranger \in BOOLEAN /\ MaxStrangers \in Nat
      BY RtspAssumption DEF TypeOK
    <3>1. strangers' \in 0 .. MaxStrangers
      BY <1>18, <3>0 DEF StrangerComes, StrangerLeaves, vars
    <3>2. stranger' \in BOOLEAN
      BY <1>18, <3>0 DEF StrangerComes, StrangerLeaves, vars
    <3> QED  BY <1>18, <3>1, <3>2 DEF StrangerComes, StrangerLeaves, TypeOK, parts, vars
  <2> QED  BY <1>18, <2>1 DEF StrangerComes, StrangerLeaves, parts, vars
<1> QED
  BY <1>1, <1>2, <1>3, <1>4, <1>5, <1>6, <1>7, <1>8, <1>9, <1>10, <1>11, <1>12, <1>13, <1>14,
     <1>15, <1>16, <1>17, <1>18
     DEF Next, DrillStep

LEMMA InitRtsp == Init => RtspInv
<1> SUFFICES ASSUME Init PROVE RtspInv
  OBVIOUS
<1>1. /\ tracker \in Trackers
      /\ tracker.state = "DISCONNECTED"
      /\ tracker.connections = 0 /\ tracker.reconnects = 0 /\ tracker.budget = 0
      /\ tracker.healthy = 0 /\ tracker.received = 0 /\ tracker.events = 0 /\ tracker.backoff = 0
  <2>1. "DISCONNECTED" \in States /\ 0 \in Connections /\ 0 \in Receiveds
    BY RtspAssumption DEF States, Connections, Receiveds
  <2> QED  BY <2>1, TrackerTypes DEF Init
<1>2. TypeOK
  <2>1. /\ left \in 0 .. InitialFrames + HealthyFrames /\ buffered \in 0 .. MaxBuffered
        /\ strangers \in 0 .. MaxStrangers /\ fresh \in Nat
    BY RtspAssumption DEF Init
  <2> QED  BY <1>1, <2>1 DEF Init, TypeOK
<1> QED
  BY <1>1, <1>2
     DEF Init, RtspInv, EarlyShape, RecoveringShape, ExhaustingShape, FramesShape, EndShape,
         GaugeShape, BudgetTellsReconnects, GaugeTellsWait, Early, Recovering, Exhausting

\* The inductive invariant of both drills.
THEOREM RtspInvariant == Spec => []RtspInv
BY InitRtsp, RtspStep, PTL DEF Spec

\* Every state is well typed; the attempts and the events stay within the policy.
THEOREM RtspTypes == Spec => []TypeOK
BY RtspInvariant, PTL DEF RtspInv

\* The budget counts the reconnects until HealthyFrames frames gave it back; the gauge
\* shows the back-off of the current reconnect, and nothing at the end.
THEOREM RtspMetrics == Spec => []MetricsTellTheTruth
BY RtspInvariant, PTL DEF RtspInv, MetricsTellTheTruth

\* Evidence of recovery and of exhaustion is written of such drills only.
THEOREM RtspEvidence == Spec => []EvidenceTellsTheTruth
<1>1. RtspInv => EvidenceTellsTheTruth
  BY DEF RtspInv, EndShape, Success, EvidenceTellsTheTruth, TypeOK
<1> QED  BY <1>1, RtspInvariant, PTL

\* No drill leaves a pipeline or a server it knows of behind.
THEOREM RtspCleansUp == Spec => []NothingLeftRunning
<1>1. RtspInv => NothingLeftRunning
  BY DEF RtspInv, EndShape, NothingLeftRunning
<1> QED  BY <1>1, RtspInvariant, PTL

-----------------------------------------------------------------------------
(* Termination, as far as safety goes: what either drill has left to do is *)
(* a number that each of its steps lowers and that nothing else raises.    *)

\* From the detected loss of the stream to the end.
AfterLoss(d) == IF d = "recovery" THEN 6 + HealthyFrames ELSE 3 + 2 * MaxAttempts

\* The steps left to drill d at program counter p, with l frames to pull, b frames
\* under way and n reconnects begun.
Steps(p, d, l, b, n) ==
    CASE p = "start" -> AfterLoss(d) + MaxBuffered + InitialFrames + 5
      [] p = "connect" -> AfterLoss(d) + MaxBuffered + InitialFrames + 4
      [] p = "initial" -> AfterLoss(d) + MaxBuffered + l + 3
      [] p = "stop" -> AfterLoss(d) + MaxBuffered + 2
      [] p = "detect" -> AfterLoss(d) + b + 1
      [] p = "backoff" -> 6 + HealthyFrames
      [] p = "restart" -> 5 + HealthyFrames
      [] p = "reconnect" -> 4 + HealthyFrames
      [] p = "recover" -> 3 + l
      [] p = "attempt" -> 3 + 2 * (MaxAttempts - n)
      [] p = "offline" -> 4 + 2 * (MaxAttempts - n)
      [] p = "finally" -> 2
      [] p = "verify" -> 1
      [] OTHER -> 0

Remaining == Steps(pc, drill, left, buffered, tracker.reconnects)

\* All of them.
MaxSteps == Steps("start", drill, 0, 0, 0)

Terminates ==
    /\ [](Remaining \in 0 .. MaxSteps)
    /\ [][Remaining' <= Remaining /\ (DrillStep => Remaining' < Remaining)]_vars

LEMMA StepsAre ==
    ASSUME NEW p, NEW d, NEW l, NEW b, NEW n
    PROVE  /\ p = "start" => Steps(p, d, l, b, n) = AfterLoss(d) + MaxBuffered + InitialFrames + 5
           /\ p = "connect" => Steps(p, d, l, b, n) = AfterLoss(d) + MaxBuffered + InitialFrames + 4
           /\ p = "initial" => Steps(p, d, l, b, n) = AfterLoss(d) + MaxBuffered + l + 3
           /\ p = "stop" => Steps(p, d, l, b, n) = AfterLoss(d) + MaxBuffered + 2
           /\ p = "detect" => Steps(p, d, l, b, n) = AfterLoss(d) + b + 1
           /\ p = "backoff" => Steps(p, d, l, b, n) = 6 + HealthyFrames
           /\ p = "restart" => Steps(p, d, l, b, n) = 5 + HealthyFrames
           /\ p = "reconnect" => Steps(p, d, l, b, n) = 4 + HealthyFrames
           /\ p = "recover" => Steps(p, d, l, b, n) = 3 + l
           /\ p = "attempt" => Steps(p, d, l, b, n) = 3 + 2 * (MaxAttempts - n)
           /\ p = "offline" => Steps(p, d, l, b, n) = 4 + 2 * (MaxAttempts - n)
           /\ p = "finally" => Steps(p, d, l, b, n) = 2
           /\ p = "verify" => Steps(p, d, l, b, n) = 1
           /\ p = "ended" => Steps(p, d, l, b, n) = 0
BY Zenon DEF Steps

LEMMA LossIs ==
    /\ \A d : AfterLoss(d) \in Nat /\ AfterLoss(d) > 2
    /\ AfterLoss("recovery") = 6 + HealthyFrames
    /\ AfterLoss("exhaustion") = 3 + 2 * MaxAttempts
BY RtspAssumption DEF AfterLoss

DrillPcs == {"start", "connect", "initial", "stop", "detect", "backoff", "restart", "reconnect",
             "recover", "attempt", "offline", "finally", "verify", "ended"}

LEMMA StepsAreInt ==
    ASSUME NEW p \in DrillPcs, NEW d, NEW l \in Int, NEW b \in Int, NEW n \in Int
    PROVE  Steps(p, d, l, b, n) \in Int
BY StepsAre, LossIs, RtspAssumption DEF DrillPcs

LEMMA RemainingIsBounded ==
    RtspInv => Remaining \in 0 .. MaxSteps
<1> SUFFICES ASSUME RtspInv PROVE Remaining \in 0 .. MaxSteps
  OBVIOUS
<1>1. tracker.reconnects \in 0 .. MaxAttempts
  BY TrackerFields DEF RtspInv, TypeOK, Attempts
<1>2. /\ left \in Nat /\ buffered \in 0 .. MaxBuffered
      /\ pc = "initial" => left <= InitialFrames
      /\ pc = "recover" => left <= HealthyFrames
  <2>1. /\ left \in 0 .. InitialFrames + HealthyFrames /\ buffered \in 0 .. MaxBuffered
        /\ tracker.received \in Nat /\ tracker.healthy \in Nat
    BY TrackerFields, RtspAssumption DEF RtspInv, TypeOK, Receiveds, Healthies
  <2>2. /\ pc = "initial" => tracker.received + left = InitialFrames
        /\ pc = "recover" => tracker.healthy + left = HealthyFrames
    BY DEF RtspInv, FramesShape
  <2> QED  BY <2>1, <2>2, RtspAssumption
<1>3. /\ pc \in Recovering => drill = "recovery"
      /\ pc \in Exhausting => drill = "exhaustion"
  BY DEF RtspInv, RecoveringShape, ExhaustingShape
<1>4. pc \in DrillPcs
  BY DEF RtspInv, TypeOK, DrillPcs
<1>5. MaxSteps = AfterLoss(drill) + MaxBuffered + InitialFrames + 5
  BY StepsAre DEF MaxSteps
<1>6. CASE pc \in {"start", "connect", "initial", "stop", "detect"}
  BY <1>2, <1>5, <1>6, LossIs, StepsAre, RtspAssumption DEF Remaining
<1>7. CASE pc \in Recovering
  BY <1>2, <1>3, <1>5, <1>7, LossIs, StepsAre, RtspAssumption DEF Remaining, Recovering
<1>8. CASE pc \in Exhausting
  <2>1. 2 * (MaxAttempts - tracker.reconnects) \in 0 .. 2 * MaxAttempts
    BY <1>1, RtspAssumption
  <2> QED
    BY <1>3, <1>5, <1>8, <2>1, LossIs, StepsAre, RtspAssumption DEF Remaining, Exhausting
<1>9. CASE pc \in {"finally", "verify", "ended"}
  BY <1>5, <1>9, LossIs, StepsAre, RtspAssumption DEF Remaining
<1> QED  BY <1>4, <1>6, <1>7, <1>8, <1>9 DEF DrillPcs, Recovering, Exhausting

LEMMA RemainingStep ==
    ASSUME RtspInv, [Next]_vars
    PROVE  Remaining' <= Remaining /\ (DrillStep => Remaining' < Remaining)
<1> DEFINE Less == Remaining' < Remaining
<1>t. tracker \in Trackers
  BY DEF RtspInv, TypeOK
<1>f. /\ tracker.reconnects \in 0 .. MaxAttempts /\ left \in Nat /\ buffered \in 0 .. MaxBuffered
      /\ drill \in {"recovery", "exhaustion"}
  BY <1>t, TrackerFields, RtspAssumption DEF RtspInv, TypeOK, Attempts
<1>i. RtspInv'
  BY RtspStep
<1>p. pc \in DrillPcs
  BY DEF RtspInv, TypeOK, DrillPcs
<1>n. Remaining \in Int /\ Remaining' \in Int
  <2>1. /\ tracker'.reconnects \in Int /\ left' \in Int /\ buffered' \in Int /\ pc' \in DrillPcs
    BY <1>i, TrackerFields, RtspAssumption DEF RtspInv, TypeOK, Attempts, DrillPcs
  <2> QED  BY <1>f, <1>p, <2>1, StepsAreInt, RtspAssumption DEF Remaining
<1>r. Remaining' = Steps(pc', drill', left', buffered', tracker'.reconnects)
  BY DEF Remaining
<1> USE RtspAssumption, StepsAre, LossIs, <1>r DEF Remaining, Go, parts, network
<1>1. ASSUME NEW from, NEW to, StartServer(from, to),
             <<from, to>> \in {<<"start", "connect">>, <<"restart", "reconnect">>}
      PROVE  Less
  BY <1>1, <1>f DEF StartServer
<1>2. ASSUME StopServer("detect") PROVE Less
  BY <1>2, <1>f DEF StopServer
<1>3. ASSUME StopTimesOut \/ Raise PROVE Less
  BY <1>3, <1>f DEF StopTimesOut, Raise, RtspInv, TypeOK
<1>4. ASSUME CreateClient("connect", "initial", InitialFrames) PROVE Less
  BY <1>4, <1>f DEF CreateClient
<1>5. ASSUME CreateClient("reconnect", "recover", HealthyFrames) PROVE Less
  BY <1>5, <1>f DEF CreateClient
<1>6. ASSUME NEW at, PullFrame(at), at \in {"initial", "recover"} PROVE Less
  BY <1>6, <1>f DEF PullFrame
<1>7. ASSUME Streaming \/ LateFrame PROVE Less
  BY <1>7, <1>f DEF Streaming, LateFrame
<1>8. ASSUME Detect PROVE Less
  <2>1. /\ pc = "detect" /\ drill' = drill
        /\ pc' = IF drill = "recovery" THEN "backoff" ELSE "attempt"
    BY <1>8 DEF Detect
  <2>2. tracker'.reconnects \in 0 .. MaxAttempts
    BY <1>i, TrackerFields DEF RtspInv, TypeOK, Attempts
  <2> QED  BY <2>1, <2>2, <1>f
<1>9. ASSUME Sleep \/ Recovered PROVE Less
  BY <1>9, <1>f DEF Sleep, Recovered
<1>10. ASSUME BeginAttempt PROVE Less
  <2>1. tracker'.reconnects = tracker.reconnects + 1
    BY <1>10, <1>t, ReconnectBegun, TrackerTypes DEF BeginAttempt, BeginReconnect
  <2> QED  BY <1>10, <2>1, <1>f DEF BeginAttempt
<1>11. ASSUME AttemptFails \/ Exhausted PROVE Less
  <2>1. tracker'.reconnects = tracker.reconnects
    BY <1>11, <1>t, TrackerTypes DEF AttemptFails, Exhausted
  <2> QED  BY <1>11, <2>1, <1>f DEF AttemptFails, Exhausted
<1>12. ASSUME Finally \/ Publish PROVE Less
  BY <1>12, <1>f DEF Finally, Publish
<1>13. DrillStep => Less
  BY <1>1, <1>2, <1>3, <1>4, <1>5, <1>6, <1>7, <1>8, <1>9, <1>10, <1>11, <1>12 DEF DrillStep
<1>14. ASSUME FrameArrives PROVE Remaining' = Remaining
  <2>1. pc # "detect" /\ UNCHANGED <<pc, drill, left, tracker>>
    BY <1>14 DEF FrameArrives, RtspInv, FramesShape
  <2> QED  BY <1>p, <2>1 DEF DrillPcs
<1>15. ASSUME ServerCrashes \/ StrangerComes \/ StrangerLeaves \/ UNCHANGED vars
       PROVE  Remaining' = Remaining
  <2>1. UNCHANGED <<pc, drill, left, buffered, tracker>>
    BY <1>15 DEF ServerCrashes, StrangerComes, StrangerLeaves, vars
  <2> QED  BY <2>1
<1> QED  BY <1>13, <1>14, <1>15, <1>n DEF Next

\* Whatever the network does a drill ends after at most 11 + InitialFrames + MaxBuffered
\* + HealthyFrames steps of its own (recovery), or 8 + InitialFrames + MaxBuffered +
\* 2 * MaxAttempts (exhaustion): no crash, stranger or late frame gives it a step back.
THEOREM RtspTerminates == Spec => Terminates
<1>1. RtspInv /\ [Next]_vars => [Remaining' <= Remaining /\ (DrillStep => Remaining' < Remaining)]_vars
  BY RemainingStep
<1>2. Spec => [](Remaining \in 0 .. MaxSteps)
  BY RtspInvariant, RemainingIsBounded, PTL
<1>3. Spec => [][Remaining' <= Remaining /\ (DrillStep => Remaining' < Remaining)]_vars
  BY <1>1, RtspInvariant, PTL DEF Spec
<1> QED  BY <1>2, <1>3 DEF Terminates

=============================================================================
