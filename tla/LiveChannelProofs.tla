-------------------------- MODULE LiveChannelProofs --------------------------
(***************************************************************************)
(* One durable channel, for any sockets, any rows, any window, and any     *)
(* number of faults and network changes.                                   *)
(*                                                                         *)
(* The argument: an announced row is on its way to every registered       *)
(* socket from its commit on, in the handler, as a scheduled broadcast, as *)
(* a send or on the wire; a send that fails marks the socket, and a marked *)
(* socket is unregistered.  The page requests its history on an open       *)
(* socket, so that what the history did not read arrives in the buffer.  A *)
(* row whose commit was not acknowledged never travels, until a history    *)
(* request reads it.  A row of the newest window of a set of rows is one   *)
(* of any smaller set.                                                     *)
(*                                                                         *)
(* Two more results rest on it.  A row leaves the list only for newer ones *)
(* (an argument about the highest members of finite sets).  And if no send *)
(* times out on a healthy connection, each announced row reaches every     *)
(* page that says LIVE, registered or not.                                 *)
(***************************************************************************)
EXTENDS LiveChannel, FiniteSetTheorems, SequenceTheorems, WellFoundedInduction, TLAPS

\* What travels is announced, and so committed.
Known ==
    /\ IsFiniteSet(committed)
    /\ unannounced \subseteq committed
    /\ answering \subseteq Announced
    /\ \A e \in Events : task[e] # "none" \/ targets[e] # {} => e \in Announced
    /\ \A s \in Sockets : wire[s] \subseteq Announced
    /\ history \subseteq Announced
    /\ buffered \subseteq Announced
    /\ inspections \subseteq Announced

\* The phases of a generation: connecting, synchronising, LIVE.
PageShape ==
    /\ browserEnd[socket] = "connecting" =>
          isSynchronizing /\ fetch = "none" /\ connectionState # "LIVE"
    /\ fetch # "none" => isSynchronizing /\ connectionState # "LIVE" /\ ~stopped
    /\ connectionState = "LIVE" => ~isSynchronizing

\* The current connection is registered and no send to it has failed.
Healthy ==
    /\ Connected
    /\ socket \in connections
    /\ \A e \in Events : socket \notin broken[e]

Covers(rows) == \A e \in Newest(Announced) : e \in rows \/ OnItsWay(e)

\* RegisteredMeansCurrent, with what it rests on while the page synchronises.
Current ==
    /\ Healthy /\ connectionState = "LIVE" => Covers(inspections)
    /\ Healthy /\ fetch = "answered" => Covers(history \union buffered)

\* The last event in the queue tells whether the browser is online.
QueueShape ==
    networkEvents # <<>> =>
        networkEvents[Len(networkEvents)] = IF onLine THEN "online" ELSE "offline"

ChannelInv ==
    /\ TypeOK
    /\ Known
    /\ PageShape
    /\ Current
    /\ QueueShape
    /\ ReconnectIsComing

-----------------------------------------------------------------------------
\* A row of the newest window is in the newest window of any part it belongs to.
LEMMA NewestOfPart ==
    ASSUME NEW S, IsFiniteSet(S), NEW T \in SUBSET S, NEW e \in T, e \in Newest(S)
    PROVE  e \in Newest(T)
<1> DEFINE above(R) == {d \in R : d > e}
<1>1. above(S) \in SUBSET S /\ above(T) \in SUBSET above(S)
  OBVIOUS
<1>2. IsFiniteSet(above(S)) /\ Cardinality(above(S)) \in Nat /\ Cardinality(above(S)) < Window
  BY <1>1, FS_Subset, FS_CardinalityType DEF Newest
<1>3. /\ IsFiniteSet(above(T)) /\ Cardinality(above(T)) <= Cardinality(above(S))
      /\ Cardinality(above(T)) \in Nat
  BY <1>1, <1>2, FS_Subset, FS_CardinalityType
<1> HIDE DEF above
<1>4. Cardinality(above(T)) < Window
  BY <1>2, <1>3, LiveMonitorAssumption
<1> QED  BY <1>4 DEF Newest, above

\* A row that was among the newest before the commit of another, or is that other.
LEMMA NewestAfterCommit ==
    ASSUME NEW S, IsFiniteSet(S), NEW e, NEW d \in Newest(S \union {e})
    PROVE  d \in Newest(S) \/ d = e
<1> SUFFICES ASSUME d # e PROVE d \in Newest(S)
  OBVIOUS
<1>1. d \in S
  BY DEF Newest
<1> QED  BY <1>1, FS_AddElement, NewestOfPart

LEMMA NewestIsPart == \A S : Newest(S) \subseteq S
BY DEF Newest

LEMMA ClosingEnds ==
    ASSUME TypeOK
    PROVE  /\ Closing(browserEnd, socket) \in [Sockets -> {"closed", "connecting", "open", "closing"}]
           /\ Closing(browserEnd, socket)[socket] \notin {"connecting", "open"}
           /\ Closing(browserEnd, socket)[socket] = "closed" => browserEnd[socket] = "closed"
           /\ \A s \in Sockets : s # socket => Closing(browserEnd, socket)[s] = browserEnd[s]
BY DEF TypeOK, MonitorTypeOK, Closing

-----------------------------------------------------------------------------
LEMMA BoundStep ==
    ASSUME TypeOK
    PROVE  /\ faults < MaxFaults => faults + 1 \in 0 .. MaxFaults
           /\ flips < MaxNetworkFlips => flips + 1 \in 0 .. MaxNetworkFlips
BY LiveChannelAssumption DEF TypeOK

LEMMA TypeStep == ASSUME TypeOK, [Next]_vars PROVE TypeOK'
<1> USE DEF rowVars, monitorVars, syncVars, reconnectVars, networkVars, apiVars, taskVars, broadcastVars
<1>1. ASSUME NEW e \in Events, Commit(e) \/ Announce(e) PROVE TypeOK'
  BY <1>1 DEF Commit, Announce, Schedule, TypeOK, MonitorTypeOK, BroadcasterTypeOK, TaskStates
<1>1a. ASSUME NEW e \in Events, CommitUnacknowledged(e) PROVE TypeOK'
  <2>1. faults' \in 0 .. MaxFaults
    BY <1>1a, BoundStep DEF CommitUnacknowledged
  <2> QED  BY <1>1a, <2>1 DEF CommitUnacknowledged, TypeOK, MonitorTypeOK, BroadcasterTypeOK
<1>2. ASSUME Broadcast PROVE TypeOK'
  <2>1. ASSUME NEW e \in Events,
               TakeSnapshot(e) \/ RemoveBroken(e)
               \/ \E s \in Sockets : SendOk(e, s) \/ SendFails(e, s)
        PROVE  BroadcasterTypeOK'
    BY <2>1 DEF TakeSnapshot, RemoveBroken, SendOk, SendFails, TypeOK, BroadcasterTypeOK, TaskStates
  <2>2. BroadcasterTypeOK'
    BY <1>2, <2>1 DEF Broadcast
  <2>3. UNCHANGED <<monitorVars, rowVars, up, faults, flips>>
    BY <1>2 DEF Broadcast
  <2> QED  BY <2>2, <2>3 DEF TypeOK, MonitorTypeOK
<1>3. ASSUME ServeHistory PROVE TypeOK'
  BY <1>3, NewestIsPart DEF ServeHistory, HistoryArrives, TypeOK, MonitorTypeOK, BroadcasterTypeOK
<1>4. ASSUME Crash PROVE TypeOK'
  <2>1. BroadcasterTypeOK' /\ answering' = {} /\ UNCHANGED <<monitorVars, committed, unannounced, flips>>
    BY <1>4 DEF Crash, LoseProcess, TypeOK, BroadcasterTypeOK, TaskStates
  <2>2. up' = FALSE /\ faults' \in 0 .. MaxFaults
    BY <1>4, BoundStep DEF Crash
  <2> QED  BY <2>1, <2>2 DEF TypeOK, MonitorTypeOK
<1>5. ASSUME Restart PROVE TypeOK'
  BY <1>5 DEF Restart, TypeOK, MonitorTypeOK, BroadcasterTypeOK
<1>6. ASSUME NEW s \in Sockets, Handshake(s) \/ RouteEnds(s) PROVE TypeOK'
  BY <1>6 DEF Handshake, RouteEnds, Connect, Disconnect, TypeOK, MonitorTypeOK, BroadcasterTypeOK
<1>7. ASSUME NEW s \in Sockets, Opened(s) PROVE TypeOK'
  BY <1>7 DEF Opened, OpenEvent, TypeOK, MonitorTypeOK, BroadcasterTypeOK
<1>8. ASSUME NEW s \in Sockets, Receive(s) PROVE TypeOK'
  <2>1. PICK e \in wire[s] : MessageEvent(s, e) /\ wire' = [wire EXCEPT ![s] = @ \ {e}]
    BY <1>8 DEF Receive
  <2>2. e \in Events
    BY <2>1 DEF TypeOK, BroadcasterTypeOK
  <2>3. MonitorTypeOK'
    BY <2>1, <2>2, NewestIsPart DEF MessageEvent, WithMessage, TypeOK, MonitorTypeOK
  <2> QED  BY <1>8, <2>1, <2>3 DEF Receive, TypeOK, BroadcasterTypeOK
<1>9. ASSUME NEW s \in Sockets, Closed(s) \/ ConnectionDrops(s) PROVE TypeOK'
  <2>1. CloseEvent(s) /\ WireLost(s)
    BY <1>9 DEF Closed, ConnectionDrops
  <2>2. MonitorTypeOK'
    <3>1. NextAttempt \in 0 .. AttemptCap
      BY LiveMonitorAssumption DEF NextAttempt, TypeOK, MonitorTypeOK
    <3>2. ScheduleReconnect =>
            /\ reconnectTimer' \in BOOLEAN
            /\ reconnectAttempt' \in 0 .. AttemptCap
            /\ connectionState' \in {"CONNECTING", "RECONNECTING", "LIVE", "OFFLINE"}
      BY <3>1 DEF ScheduleReconnect, TypeOK, MonitorTypeOK
    <3>3. /\ reconnectTimer' \in BOOLEAN
          /\ reconnectAttempt' \in 0 .. AttemptCap
          /\ connectionState' \in {"CONNECTING", "RECONNECTING", "LIVE", "OFFLINE"}
      BY <2>1, <3>2 DEF CloseEvent, TypeOK, MonitorTypeOK
    <3>4. browserEnd' \in [Sockets -> {"closed", "connecting", "open", "closing"}]
      BY <2>1 DEF CloseEvent, TypeOK, MonitorTypeOK
    <3>5. /\ fetch' \in {"none", "requested", "answered"} /\ history' \subseteq Events
          /\ isSynchronizing' \in BOOLEAN
      BY <2>1 DEF CloseEvent, TypeOK, MonitorTypeOK
    <3>6. UNCHANGED <<socket, buffered, inspections, stopped, networkVars>>
      BY <2>1 DEF CloseEvent
    <3> QED  BY <3>3, <3>4, <3>5, <3>6 DEF TypeOK, MonitorTypeOK
  <2>3. BroadcasterTypeOK'
    <3>1. wire' = [wire EXCEPT ![s] = {}] /\ UNCHANGED <<connections, serverEnd, taskVars>>
      BY <1>9 DEF Closed, ConnectionDrops, WireLost
    <3> QED  BY <3>1 DEF TypeOK, BroadcasterTypeOK
  <2>4. UNCHANGED <<rowVars, up, flips>> /\ faults' \in 0 .. MaxFaults
    <3>1. CASE Closed(s)
      BY <3>1 DEF Closed, TypeOK
    <3>2. CASE ConnectionDrops(s)
      BY <3>2, BoundStep DEF ConnectionDrops
    <3> QED  BY <1>9, <3>1, <3>2
  <2> QED  BY <2>2, <2>3, <2>4 DEF TypeOK
<1>10. ASSUME NEW s \in Sockets, Reconnect(s) PROVE TypeOK'
  <2>1. TimerFires(s) \/ OnlineEvent(s)
    BY <1>10 DEF Reconnect
  <2>2. MonitorTypeOK'
    <3>1. \A a \in 0 .. AttemptCap : ConnectAndSynchronize(s, a) =>
             /\ socket' \in Sockets
             /\ browserEnd' \in [Sockets -> {"closed", "connecting", "open", "closing"}]
             /\ isSynchronizing' \in BOOLEAN /\ buffered' \subseteq Events
             /\ inspections' \subseteq Events
             /\ fetch' \in {"none", "requested", "answered"} /\ history' \subseteq Events
             /\ reconnectAttempt' \in 0 .. AttemptCap
             /\ connectionState' \in {"CONNECTING", "RECONNECTING", "LIVE", "OFFLINE"}
             /\ stopped' \in BOOLEAN
      BY DEF ConnectAndSynchronize, TypeOK, MonitorTypeOK
    <3>2. 0 \in 0 .. AttemptCap /\ reconnectAttempt \in 0 .. AttemptCap
      BY LiveMonitorAssumption DEF TypeOK, MonitorTypeOK
    <3>3. CASE TimerFires(s)
      BY <3>1, <3>2, <3>3 DEF TimerFires, TypeOK, MonitorTypeOK
    <3>4. CASE OnlineEvent(s)
      <4>1. networkEvents' \in Seq({"offline", "online"})
        BY <3>4, HeadTailProperties DEF OnlineEvent, TypeOK, MonitorTypeOK
      <4> QED  BY <3>1, <3>2, <3>4, <4>1 DEF OnlineEvent, TypeOK, MonitorTypeOK
    <3> QED  BY <2>1, <3>3, <3>4
  <2>3. BroadcasterTypeOK' /\ UNCHANGED <<rowVars, up, faults, flips>>
    BY <1>10 DEF Reconnect, WireLost, TypeOK, BroadcasterTypeOK
  <2> QED  BY <2>2, <2>3 DEF TypeOK
<1>11. ASSUME RequestFails \/ RequestRefused PROVE TypeOK'
  <2>1. FetchFails
    BY <1>11 DEF RequestFails, RequestRefused
  <2>2. MonitorTypeOK'
    BY <2>1, ClosingEnds DEF FetchFails, TypeOK, MonitorTypeOK
  <2>3. UNCHANGED <<apiVars, rowVars, up, flips>>
    BY <1>11 DEF RequestFails, RequestRefused
  <2>4. faults' \in 0 .. MaxFaults
    BY <1>11, BoundStep DEF RequestFails, RequestRefused, TypeOK
  <2> QED  BY <2>2, <2>3, <2>4 DEF TypeOK, BroadcasterTypeOK
<1>12. ASSUME PageStep PROVE TypeOK'
  <2>1. ASSUME SyncComplete PROVE MonitorTypeOK'
    <3>1. Newest(Merged) \subseteq Events
      BY NewestIsPart DEF Merged, TypeOK, MonitorTypeOK
    <3>2. reconnectAttempt' \in 0 .. AttemptCap
      BY <2>1, LiveMonitorAssumption DEF SyncComplete
    <3>3. inspections' \subseteq Events
      BY <2>1, <3>1 DEF SyncComplete
    <3> QED  BY <2>1, <3>2, <3>3 DEF SyncComplete, TypeOK, MonitorTypeOK
  <2>2. ASSUME OfflineEvent \/ OnlineEventIgnored PROVE MonitorTypeOK'
    <3>1. networkEvents' \in Seq({"offline", "online"})
      BY <2>2, HeadTailProperties DEF OfflineEvent, OnlineEventIgnored, TypeOK, MonitorTypeOK
    <3> QED
      BY <2>2, <3>1, ClosingEnds DEF OfflineEvent, OnlineEventIgnored, TypeOK, MonitorTypeOK
  <2>3. UNCHANGED <<apiVars, rowVars, up, faults, flips>>
    BY <1>12 DEF PageStep
  <2> QED  BY <1>12, <2>1, <2>2, <2>3 DEF PageStep, TypeOK, BroadcasterTypeOK
<1>13. ASSUME Unload PROVE TypeOK'
  <2>1. MonitorTypeOK'
    BY <1>13, ClosingEnds DEF Unload, StopConnections, TypeOK, MonitorTypeOK
  <2> QED  BY <1>13, <2>1 DEF Unload, TypeOK, BroadcasterTypeOK
<1>14. ASSUME NetworkFlips PROVE TypeOK'
  <2>1. MonitorTypeOK'
    <3>1. networkEvents' \in Seq({"offline", "online"})
      BY <1>14, AppendProperties DEF NetworkFlips, NetworkChanges, TypeOK, MonitorTypeOK
    <3> QED  BY <1>14, <3>1 DEF NetworkFlips, NetworkChanges, TypeOK, MonitorTypeOK
  <2>2. flips' \in 0 .. MaxNetworkFlips
    BY <1>14, BoundStep DEF NetworkFlips
  <2> QED  BY <1>14, <2>1, <2>2 DEF NetworkFlips, TypeOK, BroadcasterTypeOK
<1>15. ASSUME UNCHANGED vars PROVE TypeOK'
  BY <1>15 DEF vars, TypeOK, MonitorTypeOK, BroadcasterTypeOK
<1> QED
  BY <1>1, <1>1a, <1>2, <1>3, <1>4, <1>5, <1>6, <1>7, <1>8, <1>9, <1>10, <1>11, <1>12, <1>13,
     <1>14, <1>15 DEF Next

-----------------------------------------------------------------------------
\* Whatever reaches the page was committed before: the broadcast is scheduled by the
\* request that saw its row committed, and the history is read from the database.
LEMMA KnownStep == ASSUME TypeOK, Known, [Next]_vars PROVE Known'
<1> USE DEF rowVars, Announced, monitorVars, syncVars, reconnectVars, networkVars, apiVars, taskVars, broadcastVars
<1>t. /\ task \in [Events -> TaskStates] /\ targets \in [Events -> SUBSET Sockets]
      /\ wire \in [Sockets -> SUBSET Events]
  BY DEF TypeOK, BroadcasterTypeOK
<1>1. ASSUME NEW e \in Events, Commit(e) \/ CommitUnacknowledged(e) PROVE Known'
  <2>1. committed' = committed \union {e} /\ IsFiniteSet(committed')
    BY <1>1, FS_AddElement DEF Commit, CommitUnacknowledged, Known
  <2>2. e \notin committed /\ unannounced' \in {unannounced, unannounced \union {e}}
        /\ (answering' = answering \/ (answering' = answering \union {e} /\ UNCHANGED unannounced))
        /\ UNCHANGED <<monitorVars, apiVars>>
    BY <1>1 DEF Commit, CommitUnacknowledged
  <2>3. Announced \subseteq Announced' /\ answering' \subseteq Announced'
    BY <2>1, <2>2 DEF Known
  <2> QED  BY <2>1, <2>2, <2>3 DEF Known
<1>1a. ASSUME NEW e \in Events, Announce(e) PROVE Known'
  BY <1>1a, <1>t DEF Announce, Schedule, Known
<1>2. ASSUME Broadcast PROVE Known'
  <2>1. UNCHANGED <<rowVars, history, buffered, inspections>>
    BY <1>2 DEF Broadcast
  <2>2. ASSUME NEW e \in Events, TakeSnapshot(e) \/ RemoveBroken(e) PROVE Known'
    BY <2>1, <2>2, <1>t DEF TakeSnapshot, RemoveBroken, Known
  <2>3. ASSUME NEW e \in Events, NEW s \in Sockets, SendOk(e, s) \/ SendFails(e, s) PROVE Known'
    <3>1. e \in Announced
      BY <2>3 DEF SendOk, SendFails, Known
    <3>2. /\ targets' = [targets EXCEPT ![e] = @ \ {s}] /\ UNCHANGED task
          /\ wire' \in {wire, [wire EXCEPT ![s] = @ \union {e}]}
      BY <2>3 DEF SendOk, SendFails
    <3>3. \A q \in Sockets : wire'[q] \subseteq Announced
      BY <3>1, <3>2, <1>t DEF Known
    <3>4. \A d \in Events : task'[d] # "none" \/ targets'[d] # {} => d \in Announced
      BY <3>1, <3>2, <1>t DEF Known
    <3> QED  BY <2>1, <3>3, <3>4 DEF Known
  <2> QED  BY <1>2, <2>2, <2>3 DEF Broadcast
<1>3. ASSUME ServeHistory PROVE Known'
  <2>1. Announced \subseteq Announced' /\ history' \subseteq Announced'
    BY <1>3, NewestIsPart DEF ServeHistory, HistoryArrives
  <2> QED  BY <1>3, <2>1 DEF ServeHistory, HistoryArrives, Known
<1>4. ASSUME Crash PROVE Known'
  BY <1>4, <1>t DEF Crash, LoseProcess, Known
<1>5. ASSUME NEW s \in Sockets, Handshake(s) \/ RouteEnds(s) PROVE Known'
  BY <1>5 DEF Handshake, RouteEnds, Connect, Disconnect, Known
<1>6. ASSUME NEW s \in Sockets, Opened(s) PROVE Known'
  BY <1>6 DEF Opened, OpenEvent, Known
<1>7. ASSUME NEW s \in Sockets, Receive(s) PROVE Known'
  <2>1. PICK e \in wire[s] : MessageEvent(s, e) /\ wire' = [wire EXCEPT ![s] = @ \ {e}]
    BY <1>7 DEF Receive
  <2>2. e \in Announced /\ UNCHANGED <<rowVars, task, targets, history>>
    BY <1>7, <2>1 DEF Receive, MessageEvent, Known
  <2>3. buffered' \subseteq Announced /\ inspections' \subseteq Announced
    BY <2>1, <2>2, NewestIsPart DEF MessageEvent, WithMessage, Known
  <2>4. \A q \in Sockets : wire'[q] \subseteq Announced
    BY <2>1, <1>t DEF Known
  <2> QED  BY <2>2, <2>3, <2>4 DEF Known
<1>8. ASSUME NEW s \in Sockets, Closed(s) \/ ConnectionDrops(s) \/ Reconnect(s) PROVE Known'
  <2>1. wire' = [wire EXCEPT ![s] = {}] /\ UNCHANGED <<rowVars, task, targets>>
    BY <1>8 DEF Closed, ConnectionDrops, Reconnect, WireLost
  <2>2. history' \in {{}, history} /\ buffered' \in {{}, buffered} /\ UNCHANGED inspections
    BY <1>8 DEF Closed, ConnectionDrops, Reconnect, CloseEvent, TimerFires, OnlineEvent,
                ConnectAndSynchronize
  <2> QED  BY <2>1, <2>2, <1>t DEF Known
<1>9. ASSUME PageStep PROVE Known'
  <2>1. UNCHANGED <<apiVars, rowVars>>
    BY <1>9 DEF PageStep
  <2>2. CASE SyncComplete
    <3>1. Newest(Merged) \subseteq Announced
      BY NewestIsPart DEF Merged, Known
    <3> QED  BY <2>1, <2>2, <3>1 DEF SyncComplete, Known
  <2>3. CASE OfflineEvent \/ OnlineEventIgnored
    BY <2>1, <2>3 DEF OfflineEvent, OnlineEventIgnored, Known
  <2> QED  BY <1>9, <2>2, <2>3 DEF PageStep
<1>10. ASSUME RequestFails \/ RequestRefused \/ Unload \/ NetworkFlips PROVE Known'
  BY <1>10 DEF RequestFails, RequestRefused, FetchFails, Unload, StopConnections, NetworkFlips,
               NetworkChanges, Known
<1>11. ASSUME Restart \/ UNCHANGED vars PROVE Known'
  BY <1>11 DEF Restart, vars, Known
<1> QED
  BY <1>1, <1>1a, <1>2, <1>3, <1>4, <1>5, <1>6, <1>7, <1>8, <1>9, <1>10, <1>11 DEF Next

\* A generation connects, requests its history and turns LIVE, in this order.
LEMMA PageShapeStep == ASSUME TypeOK, PageShape, [Next]_vars PROVE PageShape'
<1> USE DEF monitorVars, syncVars, reconnectVars, networkVars
<1>t. browserEnd \in [Sockets -> {"closed", "connecting", "open", "closing"}] /\ socket \in Sockets
  BY DEF TypeOK, MonitorTypeOK
<1>1. ASSUME UNCHANGED monitorVars PROVE PageShape'
  BY <1>1 DEF PageShape
<1>2. ASSUME NEW s \in Sockets, Opened(s) PROVE PageShape'
  BY <1>2, <1>t DEF Opened, OpenEvent, Active, PageShape
<1>3. ASSUME ServeHistory PROVE PageShape'
  BY <1>3 DEF ServeHistory, HistoryArrives, PageShape
<1>4. ASSUME NEW s \in Sockets, Receive(s) PROVE PageShape'
  BY <1>4 DEF Receive, MessageEvent, PageShape
<1>5. ASSUME NEW s \in Sockets, Closed(s) \/ ConnectionDrops(s) PROVE PageShape'
  <2>1. CloseEvent(s)
    BY <1>5 DEF Closed, ConnectionDrops
  <2>2. connectionState' \in {connectionState, "OFFLINE", "RECONNECTING"} /\ UNCHANGED <<socket, stopped>>
    BY <2>1 DEF CloseEvent, ScheduleReconnect
  <2>3. CASE Active(s)
    <3>1. browserEnd'[socket] = "closed" /\ fetch' = "none" /\ isSynchronizing' = FALSE
      BY <2>1, <2>3, <1>t DEF CloseEvent, Active
    <3> QED  BY <2>2, <3>1 DEF PageShape
  <2>4. CASE ~Active(s)
    <3>1. UNCHANGED <<fetch, isSynchronizing, connectionState>>
      BY <2>1, <2>4 DEF CloseEvent
    <3>2. browserEnd'[socket] \in {"closed", browserEnd[socket]}
      BY <2>1, <1>t DEF CloseEvent
    <3> QED  BY <2>2, <3>1, <3>2 DEF PageShape
  <2> QED  BY <2>3, <2>4
<1>6. ASSUME NEW s \in Sockets, Reconnect(s) PROVE PageShape'
  BY <1>6 DEF Reconnect, TimerFires, OnlineEvent, ConnectAndSynchronize, PageShape
<1>7. ASSUME RequestFails \/ RequestRefused \/ Unload PROVE PageShape'
  <2>1. /\ browserEnd' = Closing(browserEnd, socket) /\ fetch' = "none"
        /\ UNCHANGED <<socket, isSynchronizing, connectionState>>
    BY <1>7 DEF RequestFails, RequestRefused, FetchFails, Unload, StopConnections
  <2> QED  BY <2>1, ClosingEnds DEF PageShape
<1>8. ASSUME PageStep PROVE PageShape'
  <2>1. CASE SyncComplete
    BY <2>1 DEF SyncComplete, PageShape
  <2>2. CASE OfflineEvent
    <3>1. /\ browserEnd' = Closing(browserEnd, socket) /\ connectionState' = "OFFLINE"
          /\ UNCHANGED <<socket, isSynchronizing, fetch, stopped>>
      BY <2>2 DEF OfflineEvent
    <3> QED  BY <3>1, ClosingEnds DEF PageShape
  <2>3. CASE OnlineEventIgnored
    BY <2>3 DEF OnlineEventIgnored, PageShape
  <2> QED  BY <1>8, <2>1, <2>2, <2>3 DEF PageStep
<1>9. ASSUME NetworkFlips PROVE PageShape'
  BY <1>9 DEF NetworkFlips, NetworkChanges, PageShape
<1> QED
  BY <1>1, <1>2, <1>3, <1>4, <1>5, <1>6, <1>7, <1>8, <1>9
     DEF Next, Commit, Announce, CommitUnacknowledged, Broadcast, Crash, Restart, Handshake, RouteEnds, vars

-----------------------------------------------------------------------------
\* While a connection is healthy no step forgets a row it owes the page.
LEMMA CurrentStep ==
    ASSUME TypeOK, Known, PageShape, Current, [Next]_vars PROVE Current'
<1> USE DEF rowVars, monitorVars, syncVars, reconnectVars, networkVars, apiVars, taskVars, broadcastVars
<1>t. /\ browserEnd \in [Sockets -> {"closed", "connecting", "open", "closing"}]
      /\ socket \in Sockets /\ serverEnd \in [Sockets -> {"none", "open"}]
      /\ task \in [Events -> TaskStates] /\ targets \in [Events -> SUBSET Sockets]
      /\ broken \in [Events -> SUBSET Sockets] /\ wire \in [Sockets -> SUBSET Events]
      /\ committed \subseteq Events
  BY DEF TypeOK, MonitorTypeOK, BroadcasterTypeOK
<1>n. Newest(Announced) \subseteq Events
  BY <1>t, NewestIsPart DEF Announced
\* Steps that end the connection, begin a new one or leave nothing to show.
<1>0. ~Healthy' => Current'
  BY DEF Current
<1>c. ~Connected' => Current'
  BY <1>0 DEF Healthy
\* Steps that change neither the page nor the database.
<1>1. ASSUME UNCHANGED <<monitorVars, committed, unannounced>>, Healthy' => Healthy,
             \A e \in Events : Healthy' /\ OnItsWay(e) => OnItsWay(e)'
      PROVE  Current'
  BY <1>1, <1>n DEF Current, Covers, Newest, Announced
<1>2. ASSUME NEW e \in Events, Commit(e) PROVE Current'
  <2>1. /\ UNCHANGED <<monitorVars, apiVars, unannounced>>
        /\ answering' = answering \union {e}
        /\ committed' = committed \union {e}
    BY <1>2 DEF Commit
  <2>2. Healthy' = Healthy
    BY <2>1 DEF Healthy, Connected
  <2>3. OnItsWay(e)' /\ \A d \in Events : OnItsWay(d) => OnItsWay(d)'
    BY <2>1, <1>t DEF OnItsWay
  <2>4. \A d \in Newest(Announced)' : d \in Newest(Announced) \/ d = e
    <3>1. IsFiniteSet(Announced)
      BY FS_Subset DEF Known, Announced
    <3>2. \A d \in Newest(Announced \union {e}) : d \in Newest(Announced) \/ d = e
      BY <3>1, NewestAfterCommit
    <3>3. Announced' \in {Announced, Announced \union {e}}
      BY <2>1 DEF Announced
    <3> QED  BY <3>2, <3>3 DEF Newest
  <2> QED  BY <2>1, <2>2, <2>3, <2>4, <1>n DEF Current, Covers
<1>2a. ASSUME NEW e \in Events, Announce(e) PROVE Current'
  <2>1. /\ UNCHANGED <<monitorVars, committed, unannounced>>
        /\ UNCHANGED <<connections, serverEnd, wire, targets, broken>>
        /\ answering' = answering \ {e}
        /\ task' = [task EXCEPT ![e] = "scheduled"]
    BY <1>2a DEF Announce, Schedule
  <2>2. Healthy' = Healthy
    BY <2>1 DEF Healthy, Connected
  <2>3. \A d \in Events : OnItsWay(d) => OnItsWay(d)'
    BY <2>1, <1>t DEF OnItsWay
  <2> QED  BY <2>1, <2>2, <2>3, <1>1
<1>2b. ASSUME NEW e \in Events, CommitUnacknowledged(e) PROVE Current'
  <2>1. /\ UNCHANGED <<monitorVars, apiVars, answering>> /\ e \notin committed
        /\ committed' = committed \union {e}
        /\ unannounced' = unannounced \union {e}
    BY <1>2b DEF CommitUnacknowledged
  <2>2. Announced' = Announced
    BY <2>1 DEF Announced
  <2>3. Healthy' = Healthy /\ \A d \in Events : OnItsWay(d)' = OnItsWay(d)
    BY <2>1 DEF Healthy, Connected, OnItsWay
  <2> QED  BY <2>1, <2>2, <2>3, <1>n DEF Current, Covers, Newest
<1>3. ASSUME NEW e \in Events, TakeSnapshot(e), UNCHANGED <<monitorVars, rowVars>>
      PROVE  Current'
  <2>1. /\ UNCHANGED <<connections, serverEnd, wire, broken>>
        /\ task' = [task EXCEPT ![e] = IF connections = {} THEN "done" ELSE "sending"]
        /\ targets' = [targets EXCEPT ![e] = connections]
    BY <1>3 DEF TakeSnapshot
  <2>2. Healthy' => Healthy /\ socket \in connections
    BY <1>3, <2>1 DEF Healthy, Connected
  <2>3. \A d \in Events : Healthy' /\ OnItsWay(d) => OnItsWay(d)'
    BY <1>3, <2>1, <2>2, <1>t DEF OnItsWay
  <2> QED  BY <1>3, <2>2, <2>3, <1>1
<1>4. ASSUME NEW e \in Events, RemoveBroken(e), UNCHANGED <<monitorVars, rowVars>>
      PROVE  Current'
  <2>1. /\ UNCHANGED <<serverEnd, wire, targets>> /\ task[e] = "sending"
        /\ task' = [task EXCEPT ![e] = "done"]
        /\ connections' = connections \ broken[e]
        /\ broken' = [broken EXCEPT ![e] = {}]
    BY <1>4 DEF RemoveBroken
  <2>2. Healthy' => Healthy
    BY <1>4, <2>1, <1>t DEF Healthy, Connected
  <2>3. \A d \in Events : OnItsWay(d) => OnItsWay(d)'
    BY <1>4, <2>1, <1>t DEF OnItsWay
  <2> QED  BY <1>4, <2>2, <2>3, <1>1
<1>5. ASSUME NEW e \in Events, NEW s \in Sockets, SendOk(e, s), UNCHANGED <<monitorVars, rowVars>>
      PROVE  Current'
  <2>1. /\ UNCHANGED <<connections, serverEnd, task, broken>>
        /\ wire' = [wire EXCEPT ![s] = @ \union {e}]
        /\ targets' = [targets EXCEPT ![e] = @ \ {s}]
    BY <1>5 DEF SendOk
  <2>2. Healthy' => Healthy
    BY <1>5, <2>1 DEF Healthy, Connected
  <2>3. \A d \in Events : OnItsWay(d) => OnItsWay(d)'
    BY <1>5, <2>1, <1>t DEF OnItsWay
  <2> QED  BY <1>5, <2>2, <2>3, <1>1
<1>6. ASSUME NEW e \in Events, NEW s \in Sockets, SendFails(e, s), UNCHANGED <<monitorVars, rowVars>>
      PROVE  Current'
  <2>1. /\ UNCHANGED <<connections, serverEnd, task>>
        /\ wire' \in {wire, [wire EXCEPT ![s] = @ \union {e}]}
        /\ targets' = [targets EXCEPT ![e] = @ \ {s}]
        /\ broken' = [broken EXCEPT ![e] = @ \union {s}]
    BY <1>6 DEF SendFails
  <2>2. Healthy' => Healthy /\ socket # s
    BY <1>6, <2>1, <1>t DEF Healthy, Connected
  <2>3. \A d \in Events : Healthy' /\ OnItsWay(d) => OnItsWay(d)'
    BY <1>6, <2>1, <2>2, <1>t DEF OnItsWay
  <2> QED  BY <1>6, <2>2, <2>3, <1>1
<1>7. ASSUME Broadcast PROVE Current'
  BY <1>7, <1>3, <1>4, <1>5, <1>6 DEF Broadcast
<1>8. ASSUME ServeHistory PROVE Current'
  <2>1. /\ history' = Newest(committed) /\ fetch = "requested" /\ unannounced' = {}
        /\ UNCHANGED <<committed, connectionState, buffered>>
    BY <1>8 DEF ServeHistory, HistoryArrives
  <2>2. connectionState # "LIVE"
    BY <2>1 DEF PageShape
  <2>3. Covers(history \union buffered)'
    BY <2>1 DEF Covers, Newest, Announced
  <2> QED  BY <2>1, <2>2, <2>3 DEF Current
<1>9. ASSUME Crash PROVE Current'
  <2>1. serverEnd' = [s \in Sockets |-> "none"] /\ UNCHANGED socket
    BY <1>9 DEF Crash, LoseProcess
  <2>2. ~Connected'
    BY <2>1, <1>t DEF Connected
  <2> QED  BY <2>2, <1>c
<1>10. ASSUME NEW s \in Sockets, Handshake(s) PROVE Current'
  <2>1. /\ UNCHANGED <<monitorVars, rowVars, wire, task, targets, broken>>
        /\ serverEnd' = [serverEnd EXCEPT ![s] = "open"]
        /\ connections' = connections \union {s}
        /\ browserEnd[s] = "connecting"
    BY <1>10 DEF Handshake, Connect
  <2>2. Healthy' => Healthy
    BY <2>1, <1>t DEF Healthy, Connected
  <2>3. \A d \in Events : OnItsWay(d) => OnItsWay(d)'
    BY <2>1 DEF OnItsWay
  <2> QED  BY <2>1, <2>2, <2>3, <1>1
<1>11. ASSUME NEW s \in Sockets, RouteEnds(s) PROVE Current'
  <2>1. /\ UNCHANGED <<monitorVars, rowVars, wire, task, targets, broken>>
        /\ serverEnd' = [serverEnd EXCEPT ![s] = "none"]
        /\ connections' = connections \ {s}
    BY <1>11 DEF RouteEnds, Disconnect
  <2>2. Healthy' => Healthy
    BY <2>1, <1>t DEF Healthy, Connected
  <2>3. \A d \in Events : OnItsWay(d) => OnItsWay(d)'
    BY <2>1 DEF OnItsWay
  <2> QED  BY <2>1, <2>2, <2>3, <1>1
<1>12. ASSUME NEW s \in Sockets, Opened(s) PROVE Current'
  <2>1. /\ UNCHANGED <<apiVars, rowVars, socket, buffered, inspections, history, connectionState>>
        /\ browserEnd[s] = "connecting"
    BY <1>12 DEF Opened, OpenEvent
  <2>2. CASE s = socket
    <3>1. connectionState # "LIVE" /\ fetch = "none"
      BY <2>1, <2>2 DEF PageShape
    <3>2. fetch' # "answered"
      BY <1>12, <3>1 DEF Opened, OpenEvent
    <3> QED  BY <2>1, <3>1, <3>2 DEF Current
  <2>3. CASE s # socket
    <3>1. fetch' = fetch /\ browserEnd'[socket] = browserEnd[socket]
      BY <1>12, <2>3, <1>t DEF Opened, OpenEvent, Active
    <3>2. Healthy' = Healthy /\ \A d \in Events : OnItsWay(d)' = OnItsWay(d)
      BY <2>1, <3>1 DEF Healthy, Connected, OnItsWay
    <3> QED  BY <2>1, <3>1, <3>2, <1>n DEF Current, Covers, Newest, Announced
  <2> QED  BY <2>2, <2>3
<1>13. ASSUME NEW s \in Sockets, Receive(s) PROVE Current'
  <2>1. PICK e \in wire[s] : MessageEvent(s, e) /\ wire' = [wire EXCEPT ![s] = @ \ {e}]
    BY <1>13 DEF Receive
  <2>2. UNCHANGED <<connections, serverEnd, task, targets, broken, rowVars, socket, browserEnd,
                    connectionState, fetch, history>>
    BY <1>13, <2>1 DEF Receive, MessageEvent
  <2>3. Healthy' = Healthy
    BY <2>2 DEF Healthy, Connected
  <2>4. \A d \in Events : OnItsWay(d) => OnItsWay(d)' \/ d = e
    BY <2>1, <2>2, <1>t DEF OnItsWay
  <2>5. CASE isSynchronizing
    <3>1. buffered' = buffered \union {e} /\ connectionState # "LIVE"
      BY <2>1, <2>5 DEF MessageEvent, PageShape
    <3> QED  BY <2>2, <2>3, <2>4, <3>1, <1>n DEF Current, Covers, Newest, Announced
  <2>6. CASE ~isSynchronizing
    <3>1. inspections' = Newest(inspections \union {e}) /\ fetch # "answered"
      BY <2>1, <2>6 DEF MessageEvent, WithMessage, PageShape
    <3>2. inspections \union {e} \in SUBSET Announced /\ IsFiniteSet(Announced)
      BY <2>1, FS_Subset DEF Known, Announced
    <3>3. \A d \in Newest(Announced) : d \in inspections \union {e} => d \in inspections'
      BY <3>1, <3>2, NewestOfPart
    <3> QED  BY <2>2, <2>3, <2>4, <3>1, <3>3, <1>n DEF Current, Covers, Newest, Announced
  <2> QED  BY <2>5, <2>6
<1>14. ASSUME NEW s \in Sockets, Closed(s) \/ ConnectionDrops(s) PROVE Current'
  <2>1. CloseEvent(s) /\ WireLost(s) /\ UNCHANGED <<connections, serverEnd, taskVars, rowVars>>
    BY <1>14 DEF Closed, ConnectionDrops
  <2>2. CASE s = socket
    <3>1. browserEnd'[socket'] = "closed"
      BY <2>1, <2>2, <1>t DEF CloseEvent
    <3> QED  BY <3>1, <1>c DEF Connected
  <2>3. CASE s # socket
    <3>1. /\ UNCHANGED <<socket, fetch, history, buffered, inspections, connectionState>>
          /\ browserEnd'[socket] = browserEnd[socket] /\ wire'[socket] = wire[socket]
      BY <2>1, <2>3, <1>t DEF CloseEvent, WireLost, Active
    <3>2. Healthy' = Healthy /\ \A d \in Events : OnItsWay(d)' = OnItsWay(d)
      BY <2>1, <3>1 DEF Healthy, Connected, OnItsWay
    <3> QED  BY <2>1, <3>1, <3>2, <1>n DEF Current, Covers, Newest, Announced
  <2> QED  BY <2>2, <2>3
<1>15. ASSUME NEW s \in Sockets, Reconnect(s) PROVE Current'
  <2>1. socket' = s /\ browserEnd' = [browserEnd EXCEPT ![s] = "connecting"]
    BY <1>15 DEF Reconnect, TimerFires, OnlineEvent, ConnectAndSynchronize
  <2> QED  BY <2>1, <1>t, <1>c DEF Connected
<1>16. ASSUME RequestFails \/ RequestRefused \/ Unload PROVE Current'
  <2>1. browserEnd' = Closing(browserEnd, socket) /\ UNCHANGED socket
    BY <1>16 DEF RequestFails, RequestRefused, FetchFails, Unload, StopConnections
  <2> QED  BY <2>1, ClosingEnds, <1>c DEF Connected
<1>17. ASSUME PageStep PROVE Current'
  <2>1. UNCHANGED <<apiVars, rowVars>>
    BY <1>17 DEF PageStep
  <2>2. CASE SyncComplete
    <3>1. /\ fetch = "answered" /\ fetch' = "none" /\ inspections' = Newest(Merged)
          /\ UNCHANGED <<socket, browserEnd>>
      BY <2>2 DEF SyncComplete
    <3>2. /\ Merged \in SUBSET Announced /\ history \union buffered \subseteq Merged
          /\ IsFiniteSet(Announced)
      BY FS_Subset DEF Merged, Known, Announced
    <3>3. \A d \in Newest(Announced) : d \in history \union buffered => d \in inspections'
      BY <3>1, <3>2, NewestOfPart
    <3>4. Healthy' = Healthy /\ \A d \in Events : OnItsWay(d)' = OnItsWay(d)
      BY <2>1, <3>1 DEF Healthy, Connected, OnItsWay
    <3> QED  BY <2>1, <3>1, <3>3, <3>4, <1>n DEF Current, Covers, Newest, Announced
  <2>3. CASE OfflineEvent
    <3>1. browserEnd' = Closing(browserEnd, socket) /\ UNCHANGED socket
      BY <2>3 DEF OfflineEvent
    <3> QED  BY <3>1, ClosingEnds, <1>c DEF Connected
  <2>4. CASE OnlineEventIgnored
    <3>1. UNCHANGED <<socket, browserEnd, syncVars, reconnectVars>>
      BY <2>4 DEF OnlineEventIgnored
    <3>2. Healthy' = Healthy /\ \A d \in Events : OnItsWay(d)' = OnItsWay(d)
      BY <2>1, <3>1 DEF Healthy, Connected, OnItsWay
    <3> QED  BY <2>1, <3>1, <3>2, <1>n DEF Current, Covers, Newest, Announced
  <2> QED  BY <1>17, <2>2, <2>3, <2>4 DEF PageStep
<1>18. ASSUME NetworkFlips \/ Restart \/ UNCHANGED vars PROVE Current'
  <2>1. UNCHANGED <<apiVars, rowVars, socket, browserEnd, syncVars, reconnectVars>>
    BY <1>18 DEF NetworkFlips, NetworkChanges, Restart, vars
  <2>2. Healthy' = Healthy /\ \A d \in Events : OnItsWay(d)' = OnItsWay(d)
    BY <2>1 DEF Healthy, Connected, OnItsWay
  <2> QED  BY <2>1, <2>2, <1>n DEF Current, Covers, Newest, Announced
<1> QED
  BY <1>2, <1>2a, <1>2b, <1>7, <1>8, <1>9, <1>10, <1>11, <1>12, <1>13, <1>14, <1>15, <1>16, <1>17, <1>18 DEF Next

-----------------------------------------------------------------------------
LEMMA LastOfTail ==
    ASSUME NEW q \in Seq({"offline", "online"}), q # <<>>, Tail(q) # <<>>
    PROVE  /\ Tail(q)[Len(Tail(q))] = q[Len(q)]
           /\ Len(Tail(q)) \in DOMAIN Tail(q)
<1>1. Len(q) \in Nat \ {0}
  BY EmptySeq
<1>2. Tail(q) \in Seq({"offline", "online"}) /\ Len(Tail(q)) = Len(q) - 1
      /\ \A i \in 1 .. Len(Tail(q)) : Tail(q)[i] = q[i + 1]
  BY HeadTailProperties
<1>3. Len(Tail(q)) \in Nat \ {0}
  BY <1>2, EmptySeq
<1> QED  BY <1>1, <1>2, <1>3

LEMMA QueueStep ==
    ASSUME TypeOK, QueueShape, [Next]_vars PROVE QueueShape'
<1> USE DEF monitorVars, networkVars
<1>t. networkEvents \in Seq({"offline", "online"}) /\ onLine \in BOOLEAN
  BY DEF TypeOK, MonitorTypeOK
<1>1. ASSUME UNCHANGED networkVars PROVE QueueShape'
  BY <1>1 DEF QueueShape
<1>2. ASSUME networkEvents # <<>>, networkEvents' = Tail(networkEvents), UNCHANGED onLine
      PROVE  QueueShape'
  BY <1>2, <1>t, LastOfTail DEF QueueShape
<1>3. ASSUME NEW s \in Sockets, Closed(s) \/ ConnectionDrops(s) PROVE QueueShape'
  BY <1>3, <1>1 DEF Closed, ConnectionDrops, CloseEvent
<1>4. ASSUME NEW s \in Sockets, Reconnect(s) PROVE QueueShape'
  BY <1>4, <1>1, <1>2 DEF Reconnect, TimerFires, OnlineEvent
<1>5. ASSUME RequestFails \/ RequestRefused \/ Unload PROVE QueueShape'
  BY <1>5, <1>1 DEF RequestFails, RequestRefused, FetchFails, Unload, StopConnections
<1>6. ASSUME PageStep PROVE QueueShape'
  BY <1>6, <1>1, <1>2 DEF PageStep, SyncComplete, OfflineEvent, OnlineEventIgnored
<1>7. ASSUME NetworkFlips PROVE QueueShape'
  <2>1. /\ onLine' = ~onLine
        /\ networkEvents' = Append(networkEvents, IF onLine THEN "offline" ELSE "online")
    BY <1>7 DEF NetworkFlips, NetworkChanges
  <2>2. networkEvents'[Len(networkEvents')] = IF onLine THEN "offline" ELSE "online"
    BY <2>1, <1>t, AppendProperties
  <2> QED  BY <2>1, <2>2, <1>t DEF QueueShape
<1>8. ASSUME NEW s \in Sockets, Opened(s) \/ Receive(s) PROVE QueueShape'
  BY <1>8, <1>1 DEF Opened, OpenEvent, Receive, MessageEvent
<1> QED
  BY <1>1, <1>3, <1>4, <1>5, <1>6, <1>7, <1>8
     DEF Next, Commit, Announce, CommitUnacknowledged, Broadcast, ServeHistory, HistoryArrives,
         Crash, Restart, Handshake, RouteEnds, vars

\* The close event of the current socket sets the timer unless the browser is offline;
\* while it is offline the event that ends this is queued or still to come.
LEMMA ReconnectStep ==
    ASSUME TypeOK, QueueShape, ReconnectIsComing, [Next]_vars PROVE ReconnectIsComing'
<1> USE DEF monitorVars, reconnectVars, networkVars
<1>t. /\ browserEnd \in [Sockets -> {"closed", "connecting", "open", "closing"}]
      /\ socket \in Sockets /\ onLine \in BOOLEAN
      /\ networkEvents \in Seq({"offline", "online"})
  BY DEF TypeOK, MonitorTypeOK
<1>1. ASSUME UNCHANGED <<socket, reconnectTimer, networkVars>>,
             stopped => stopped', browserEnd'[socket] = "closed" => browserEnd[socket] = "closed"
      PROVE  ReconnectIsComing'
  BY <1>1 DEF ReconnectIsComing
<1>2. ASSUME UNCHANGED <<socket, browserEnd, reconnectTimer, stopped, networkVars>>
      PROVE  ReconnectIsComing'
  BY <1>2 DEF ReconnectIsComing
<1>3. ASSUME NEW s \in Sockets, Opened(s) PROVE ReconnectIsComing'
  BY <1>3, <1>1, <1>t DEF Opened, OpenEvent
<1>4. ASSUME NEW s \in Sockets, Closed(s) \/ ConnectionDrops(s) PROVE ReconnectIsComing'
  <2>1. CloseEvent(s)
    BY <1>4 DEF Closed, ConnectionDrops
  <2>2. CASE Active(s)
    <3>1. UNCHANGED networkVars /\ (reconnectTimer' \/ ~onLine)
      BY <2>1, <2>2 DEF CloseEvent, ScheduleReconnect
    <3> QED  BY <3>1 DEF ReconnectIsComing
  <2>3. CASE ~Active(s) /\ ~stopped
    <3>1. UNCHANGED <<socket, reconnectTimer, stopped, networkVars>>
      BY <2>1, <2>3 DEF CloseEvent
    <3>2. browserEnd'[socket] = browserEnd[socket]
      BY <2>1, <2>3, <1>t DEF CloseEvent, Active
    <3> QED  BY <3>1, <3>2, <1>1
  <2>4. CASE stopped
    BY <2>1, <2>4 DEF CloseEvent, ReconnectIsComing
  <2> QED  BY <2>2, <2>3, <2>4
<1>5. ASSUME NEW s \in Sockets, Reconnect(s) PROVE ReconnectIsComing'
  <2>1. socket' = s /\ browserEnd' = [browserEnd EXCEPT ![s] = "connecting"]
    BY <1>5 DEF Reconnect, TimerFires, OnlineEvent, ConnectAndSynchronize
  <2> QED  BY <2>1, <1>t DEF ReconnectIsComing
<1>6. ASSUME RequestFails \/ RequestRefused PROVE ReconnectIsComing'
  <2>1. /\ browserEnd' = Closing(browserEnd, socket)
        /\ UNCHANGED <<socket, reconnectTimer, stopped, networkVars>>
    BY <1>6 DEF RequestFails, RequestRefused, FetchFails
  <2> QED  BY <2>1, <1>1, ClosingEnds
<1>7. ASSUME Unload PROVE ReconnectIsComing'
  BY <1>7 DEF Unload, StopConnections, ReconnectIsComing
<1>8. ASSUME PageStep PROVE ReconnectIsComing'
  <2>1. CASE SyncComplete
    BY <2>1, <1>2 DEF SyncComplete
  <2>2. CASE OfflineEvent
    <3>1. /\ networkEvents # <<>> /\ networkEvents[1] = "offline"
          /\ networkEvents' = Tail(networkEvents) /\ UNCHANGED onLine
      BY <2>2 DEF OfflineEvent
    <3>2. ASSUME onLine PROVE "online" \in Range(networkEvents')
      <4>1. networkEvents[Len(networkEvents)] = "online"
        BY <3>1, <3>2 DEF QueueShape
      <4>2. Tail(networkEvents) # <<>>
        <5>1. Len(networkEvents) # 1
          BY <3>1, <4>1
        <5>2. Len(networkEvents) \in Nat \ {0} /\ Len(Tail(networkEvents)) = Len(networkEvents) - 1
          BY <3>1, <1>t, HeadTailProperties, EmptySeq
        <5>3. Len(Tail(networkEvents)) # 0
          BY <5>1, <5>2
        <5> QED  BY <5>3, EmptySeq
      <4> QED  BY <3>1, <4>1, <4>2, <1>t, LastOfTail DEF Range
    <3> QED  BY <3>1, <3>2, <1>t DEF ReconnectIsComing
  <2>3. CASE OnlineEventIgnored
    BY <2>3 DEF OnlineEventIgnored, ReconnectIsComing
  <2> QED  BY <1>8, <2>1, <2>2, <2>3 DEF PageStep
<1>9. ASSUME NetworkFlips PROVE ReconnectIsComing'
  <2>1. /\ onLine' = ~onLine
        /\ networkEvents' = Append(networkEvents, IF onLine THEN "offline" ELSE "online")
    BY <1>9 DEF NetworkFlips, NetworkChanges
  <2>2. ASSUME ~onLine PROVE "online" \in Range(networkEvents')
    <3>1. /\ Len(networkEvents') \in DOMAIN networkEvents'
          /\ networkEvents'[Len(networkEvents')] = "online"
      BY <2>1, <2>2, <1>t, AppendProperties
    <3> QED  BY <3>1 DEF Range
  <2> QED  BY <2>1, <2>2, <1>t DEF ReconnectIsComing
<1>10. ASSUME NEW s \in Sockets, Receive(s) PROVE ReconnectIsComing'
  BY <1>10, <1>2 DEF Receive, MessageEvent
<1> QED
  BY <1>2, <1>3, <1>4, <1>5, <1>6, <1>7, <1>8, <1>9, <1>10
     DEF Next, Commit, Announce, CommitUnacknowledged, Broadcast, ServeHistory, HistoryArrives,
         Crash, Restart, Handshake, RouteEnds, vars

-----------------------------------------------------------------------------
\* The inductive invariant of the channel, in every reachable state.
THEOREM ChannelInvariant == Spec => []ChannelInv
<1>1. Init => ChannelInv
  <2> SUFFICES ASSUME Init PROVE ChannelInv
    OBVIOUS
  <2>1. TypeOK
    <3>1. MonitorTypeOK
      <4>1. 0 \in 0 .. AttemptCap
        BY LiveMonitorAssumption
      <4>2. networkEvents \in Seq({"offline", "online"})
        BY EmptySeq DEF Init, MonitorInit
      <4> QED  BY <4>1, <4>2 DEF Init, MonitorInit, MonitorTypeOK
    <3>2. BroadcasterTypeOK
      BY DEF Init, BroadcasterInit, BroadcasterTypeOK, TaskStates
    <3>3. committed \subseteq Events /\ answering \subseteq Events /\ unannounced \subseteq Events
          /\ up \in BOOLEAN
      BY DEF Init
    <3>4. faults \in 0 .. MaxFaults /\ flips \in 0 .. MaxNetworkFlips
      BY LiveChannelAssumption DEF Init
    <3> QED  BY <3>1, <3>2, <3>3, <3>4 DEF TypeOK
  <2>2. Known
    BY FS_EmptySet DEF Init, MonitorInit, BroadcasterInit, Known, Announced
  <2>3. PageShape /\ Current /\ QueueShape /\ ReconnectIsComing
    BY DEF Init, MonitorInit, PageShape, Current, QueueShape, ReconnectIsComing
  <2> QED  BY <2>1, <2>2, <2>3 DEF ChannelInv
<1>2. ChannelInv /\ [Next]_vars => ChannelInv'
  BY TypeStep, KnownStep, PageShapeStep, CurrentStep, QueueStep, ReconnectStep DEF ChannelInv
<1> QED  BY <1>1, <1>2, PTL DEF Spec

\* Every variable of the channel keeps its type, the two bounds included.
THEOREM ChannelTypes == Spec => []TypeOK
BY ChannelInvariant, PTL DEF ChannelInv

\* For any number of sockets, rows, faults and reconnects: none of the newest rows is
\* missing from a LIVE page on a registered connection unless it is on its way, or its
\* request was refused after the commit and the page has not asked for history since.
THEOREM ChannelIsCurrent == Spec => []RegisteredMeansCurrent
<1>1. ChannelInv => RegisteredMeansCurrent
  BY DEF ChannelInv, Current, Healthy, Covers, RegisteredMeansCurrent, Shows
<1> QED  BY <1>1, ChannelInvariant, PTL

\* scheduleReconnect and the online handler never leave a closed page without a
\* reconnect to come, in whatever order close, offline and online are dispatched.
THEOREM ChannelReconnects == Spec => []ReconnectIsComing
BY ChannelInvariant, PTL DEF ChannelInv

-----------------------------------------------------------------------------
(* The window never takes a row back.                                      *)

Above(S, e) == {d \in S : d > e}

\* A finite set of rows that is not empty has a newest one.
LEMMA HighestMember ==
    ASSUME NEW S \in SUBSET Nat, IsFiniteSet(S), NEW T \in SUBSET S, T # {}
    PROVE  \E x \in T : \A y \in T : y <= x
<1> DEFINE F == {Above(S, x) : x \in T}
<1>1. F \subseteq FiniteSubsetsOf(S) /\ F # {}
  <2>1. \A x \in T : Above(S, x) \in SUBSET S
    BY DEF Above
  <2>2. \A x \in T : Above(S, x) \in FiniteSubsetsOf(S)
    BY <2>1, FS_Subset DEF FiniteSubsetsOf
  <2> QED BY <2>2
<1>2. PICK A \in F : \A B \in F : ~ (<<B, A>> \in StrictSubsetOrdering(S))
  BY <1>1, FS_StrictSubsetOrderingWellFounded, WFMin
<1>3. PICK x \in T : A = Above(S, x)
  OBVIOUS
<1>4. ASSUME NEW y \in T, y > x PROVE FALSE
  <2>1. Above(S, y) \in SUBSET S /\ Above(S, x) \in SUBSET S
    BY DEF Above
  <2>2. Above(S, y) \subseteq Above(S, x) /\ y \in Above(S, x) /\ y \notin Above(S, y)
    <3>1. x \in Nat /\ y \in Nat /\ x \in S /\ y \in S
      OBVIOUS
    <3>2. ASSUME NEW d \in S, d > y PROVE d > x
      <4>1. d \in Nat
        OBVIOUS
      <4> QED BY <1>4, <3>1, <3>2, <4>1
    <3>3. ~(y > y)
      BY <3>1
    <3> QED BY <1>4, <3>1, <3>2, <3>3 DEF Above
  <2>3. <<Above(S, y), A>> \in StrictSubsetOrdering(S)
    BY <1>3, <2>1, <2>2 DEF StrictSubsetOrdering
  <2> QED BY <1>2, <2>3
<1>5. \A y \in T : y <= x
  BY <1>4
<1> QED BY <1>5

\* If a window's worth of rows lies above e, then a window's worth of the newest does.
LEMMA NewestAbove ==
    ASSUME NEW S \in SUBSET Nat, IsFiniteSet(S), NEW e \in Nat,
           Cardinality({d \in S : d > e}) >= Window
    PROVE  Cardinality({d \in Newest(S) : d > e}) >= Window
<1> DEFINE N == {d \in Newest(S) : d > e}
           Hidden == {d \in S : d > e /\ d \notin Newest(S)}
<1>1. IsFiniteSet(N) /\ Cardinality(N) \in Nat /\ N \in SUBSET S
  <2>1. N \in SUBSET S
    BY DEF Newest
  <2> HIDE DEF N
  <2> QED BY <2>1, FS_Subset, FS_CardinalityType
<1>2. CASE Hidden = {}
  <2>1. N = {d \in S : d > e}
    BY <1>2 DEF Newest
  <2> QED BY <2>1
<1>3. CASE Hidden # {}
  <2>1. PICK x \in Hidden : \A y \in Hidden : y <= x
    BY <1>3, HighestMember
  <2> DEFINE A == {d \in S : d > x}
  <2>2. A \in SUBSET N
    <3> SUFFICES ASSUME NEW y \in S, y > x PROVE y \in N
      OBVIOUS
    <3>1. x \in Nat /\ y \in Nat /\ x > e
      OBVIOUS
    <3>2. y > e /\ ~(y <= x)
      BY <3>1
    <3> QED BY <2>1, <3>2
  <2>3. Cardinality(A) <= Cardinality(N) /\ Cardinality(A) \in Nat
    <3> HIDE DEF A, N
    <3> QED BY <1>1, <2>2, FS_Subset, FS_CardinalityType
  <2>4. ~(Cardinality(A) < Window)
    BY <2>1 DEF Newest
  <2> HIDE DEF A
  <2> QED BY <1>1, <2>3, <2>4, LiveMonitorAssumption
<1> QED BY <1>2, <1>3
\* More rows, more of them above e.
LEMMA AboveGrows ==
    ASSUME NEW S, IsFiniteSet(S), NEW T \in SUBSET S, NEW e,
           Cardinality({d \in T : d > e}) >= Window
    PROVE  Cardinality({d \in S : d > e}) >= Window
<1> DEFINE A == {d \in S : d > e}
           B == {d \in T : d > e}
<1>1. A \in SUBSET S /\ B \in SUBSET A
  OBVIOUS
<1> HIDE DEF A
<1>2. IsFiniteSet(A) /\ Cardinality(A) \in Nat
  BY <1>1, FS_Subset, FS_CardinalityType
<1> HIDE DEF B
<1>3. Cardinality(B) <= Cardinality(A) /\ Cardinality(B) \in Nat
  BY <1>1, <1>2, FS_Subset, FS_CardinalityType
<1>4. Cardinality(B) >= Window
  BY DEF B
<1>5. Cardinality(A) >= Window
  BY <1>2, <1>3, <1>4, LiveMonitorAssumption
<1> QED BY <1>5 DEF A

\* What the merge of a set leaves out has a window's worth of rows above it.
LEMMA LeftOut ==
    ASSUME NEW S \in SUBSET Events, IsFiniteSet(S), NEW e \in S, e \notin Newest(S)
    PROVE  Cardinality({d \in Newest(S) : d > e}) >= Window
<1>1. S \in SUBSET Nat /\ e \in Nat
  BY LiveMonitorAssumption
<1> DEFINE A == {d \in S : d > e}
<1>2. ~(Cardinality(A) < Window)
  BY DEF Newest
<1>3. Cardinality(A) \in Nat
  <2>1. A \in SUBSET S
    OBVIOUS
  <2> HIDE DEF A
  <2> QED BY <2>1, FS_Subset, FS_CardinalityType
<1>4. Cardinality(A) >= Window
  <2> HIDE DEF A
  <2> QED BY <1>2, <1>3, LiveMonitorAssumption
<1> QED BY <1>1, <1>4, NewestAbove

\* The history that was read for a page replaces every row the page shows.
HistoryIsFull ==
    fetch = "answered" =>
        \A e \in inspections : e \in history \/ Cardinality({d \in history : d > e}) >= Window

LEMMA HistoryStep ==
    ASSUME TypeOK, Known, PageShape, HistoryIsFull, [Next]_vars PROVE HistoryIsFull'
<1> USE DEF monitorVars, syncVars, reconnectVars, networkVars
<1>1. ASSUME UNCHANGED <<fetch, history, inspections>> PROVE HistoryIsFull'
  BY <1>1 DEF HistoryIsFull
<1>2. ASSUME fetch' # "answered" PROVE HistoryIsFull'
  BY <1>2 DEF HistoryIsFull
<1>3. ASSUME ServeHistory PROVE HistoryIsFull'
  <2>1. history' = Newest(committed) /\ inspections' = inspections
    BY <1>3 DEF ServeHistory, HistoryArrives
  <2>2. \A e \in inspections :
           e \in Newest(committed) \/ Cardinality({d \in Newest(committed) : d > e}) >= Window
    <3>1. committed \in SUBSET Events /\ IsFiniteSet(committed) /\ inspections \subseteq committed
      BY DEF Known, TypeOK, Announced
    <3> QED BY <3>1, LeftOut
  <2> QED BY <2>1, <2>2 DEF HistoryIsFull
<1>4. ASSUME NEW s \in Sockets, Opened(s) PROVE HistoryIsFull'
  BY <1>1, <1>2, <1>4 DEF Opened, OpenEvent
<1>5. ASSUME NEW s \in Sockets, Receive(s) PROVE HistoryIsFull'
  <2>1. CASE fetch = "answered"
    <3>1. isSynchronizing
      BY <2>1 DEF PageShape
    <3> QED BY <1>1, <1>5, <3>1 DEF Receive, MessageEvent
  <2>2. CASE fetch # "answered"
    BY <1>2, <1>5, <2>2 DEF Receive, MessageEvent
  <2> QED BY <2>1, <2>2
<1>6. ASSUME NEW s \in Sockets, Closed(s) \/ ConnectionDrops(s) PROVE HistoryIsFull'
  BY <1>1, <1>2, <1>6 DEF Closed, ConnectionDrops, CloseEvent
<1>7. ASSUME NEW s \in Sockets, Reconnect(s) PROVE HistoryIsFull'
  BY <1>2, <1>7 DEF Reconnect, TimerFires, OnlineEvent, ConnectAndSynchronize
<1>8. ASSUME RequestFails \/ RequestRefused \/ Unload PROVE HistoryIsFull'
  BY <1>2, <1>8 DEF RequestFails, RequestRefused, FetchFails, Unload, StopConnections
<1>9. ASSUME PageStep PROVE HistoryIsFull'
  BY <1>1, <1>2, <1>9 DEF PageStep, SyncComplete, OfflineEvent, OnlineEventIgnored
<1>10. ASSUME NetworkFlips PROVE HistoryIsFull'
  BY <1>1, <1>10 DEF NetworkFlips, NetworkChanges
<1> QED
  BY <1>1, <1>3, <1>4, <1>5, <1>6, <1>7, <1>8, <1>9, <1>10
     DEF Next, Commit, Announce, CommitUnacknowledged, Broadcast, Crash, Restart, Handshake,
         RouteEnds, vars

\* A row leaves the window of a page only for a window's worth of newer rows.
LEMMA WindowStep ==
    ASSUME TypeOK, Known, HistoryIsFull, [Next]_vars, NEW e \in inspections \ inspections'
    PROVE  Cardinality({d \in inspections' : d > e}) >= Window
<1> USE DEF monitorVars, syncVars, reconnectVars, networkVars
<1>1. (\E s \in Sockets : Receive(s)) \/ SyncComplete
  BY DEF Next, Commit, Announce, CommitUnacknowledged, Broadcast, Crash, Restart, Handshake,
         RouteEnds, vars, ServeHistory, HistoryArrives, Opened, OpenEvent, Closed, ConnectionDrops, CloseEvent, Reconnect,
         TimerFires, OnlineEvent, ConnectAndSynchronize, RequestFails, RequestRefused,
         FetchFails, Unload, StopConnections, PageStep, OfflineEvent, OnlineEventIgnored,
         NetworkFlips, NetworkChanges
<1>2. /\ IsFiniteSet(committed) /\ committed \in SUBSET Events /\ inspections \subseteq committed
      /\ history \subseteq committed /\ buffered \subseteq committed
  BY DEF Known, TypeOK, Announced
<1>3. ASSUME NEW s \in Sockets, Receive(s)
      PROVE  Cardinality({d \in inspections' : d > e}) >= Window
  <2>1. PICK x \in wire[s] : MessageEvent(s, x)
    BY <1>3 DEF Receive
  <2> DEFINE S == inspections \union {x}
  <2>2. inspections' = Newest(S)
    BY <2>1 DEF MessageEvent, WithMessage
  <2>3. S \in SUBSET committed
    BY <1>2, <2>1 DEF Known, Announced
  <2>4. S \in SUBSET Events /\ IsFiniteSet(S) /\ e \in S
    BY <1>2, <2>3, FS_Subset
  <2> HIDE DEF S
  <2>5. e \notin Newest(S)
    BY <2>2
  <2>6. Cardinality({d \in Newest(S) : d > e}) >= Window
    BY <2>4, <2>5, LeftOut
  <2> QED BY <2>2, <2>6
<1>4. CASE SyncComplete
  <2>1. inspections' = Newest(Merged) /\ fetch = "answered"
    BY <1>4 DEF SyncComplete
  <2>2. Merged \in SUBSET Events /\ IsFiniteSet(Merged) /\ history \in SUBSET Merged
    <3>1. Merged \in SUBSET committed /\ history \in SUBSET Merged
      BY <1>2 DEF Merged
    <3> QED BY <1>2, <3>1, FS_Subset
  <2>3. CASE e \in Merged
    BY <2>1, <2>2, <2>3, LeftOut
  <2>4. CASE e \notin Merged
    <3>1. Cardinality({d \in history : d > e}) >= Window
      BY <2>1, <2>2, <2>4 DEF HistoryIsFull
    <3>2. Cardinality({d \in Merged : d > e}) >= Window
      BY <2>2, <3>1, AboveGrows
    <3>3. e \in Nat /\ Merged \in SUBSET Nat
      BY <1>2, <2>2, LiveMonitorAssumption
    <3>4. Cardinality({d \in Newest(Merged) : d > e}) >= Window
      BY <2>2, <3>2, <3>3, NewestAbove
    <3> QED BY <2>1, <3>4
  <2> QED BY <2>3, <2>4
<1> QED BY <1>1, <1>3, <1>4

\* No reconnect, no late message and no synchronisation takes a row from a page, unless a
\* window's worth of newer rows is there instead: for any window, with or without the
\* merge that keeps the visible rows.
THEOREM ChannelKeepsRows == Spec => NothingVanishes
<1> DEFINE Inv == ChannelInv /\ HistoryIsFull
<1>1. Spec => []HistoryIsFull
  <2>1. Init => HistoryIsFull
    BY DEF Init, MonitorInit, HistoryIsFull
  <2>2. ChannelInv /\ HistoryIsFull /\ [Next]_vars => HistoryIsFull'
    BY HistoryStep DEF ChannelInv
  <2> QED BY <2>1, <2>2, ChannelInvariant, PTL DEF Spec
<1>2. ChannelInv /\ HistoryIsFull /\ [Next]_vars
      => [\A e \in inspections \ inspections' :
             Cardinality({d \in inspections' : d > e}) >= Window]_vars
  BY WindowStep DEF ChannelInv
<1> QED BY <1>1, <1>2, ChannelInvariant, PTL DEF Spec, NothingVanishes

-----------------------------------------------------------------------------
(* Without slow clients no connection is given up.                         *)

Registered == \A s \in connections : serverEnd[s] = "open"

\* A socket between its handshake and its close has lost no send; before its handshake
\* no broadcast knows it.
Unmarked ==
    \A s \in Sockets : browserEnd[s] \in {"connecting", "open"} =>
        /\ serverEnd[s] = "open" => s \in connections /\ \A e \in Events : s \notin broken[e]
        /\ serverEnd[s] = "none" /\ browserEnd[s] = "connecting" =>
               \A e \in Events : s \notin targets[e] /\ s \notin broken[e]

LEMMA RegisteredStep == ASSUME TypeOK, Registered, [Next]_vars PROVE Registered'
<1> USE DEF apiVars
<1>1. ASSUME UNCHANGED <<connections, serverEnd>> PROVE Registered'
  BY <1>1 DEF Registered
<1>2. ASSUME Broadcast PROVE Registered'
  BY <1>2 DEF Broadcast, TakeSnapshot, RemoveBroken, SendOk, SendFails, Registered
<1>3. ASSUME Crash PROVE Registered'
  BY <1>3 DEF Crash, LoseProcess, Registered
<1>4. ASSUME NEW s \in Sockets, Handshake(s) \/ RouteEnds(s) PROVE Registered'
  <2>1. connections \subseteq Sockets /\ serverEnd \in [Sockets -> {"none", "open"}]
    BY DEF TypeOK, BroadcasterTypeOK
  <2> QED BY <1>4, <2>1 DEF Handshake, RouteEnds, Connect, Disconnect, Registered
<1> QED
  BY <1>1, <1>2, <1>3, <1>4
     DEF Next, Commit, Announce, CommitUnacknowledged, Schedule, ServeHistory, Restart, vars, Opened, Receive, Closed,
         ConnectionDrops, Reconnect, RequestFails, RequestRefused, PageStep, Unload, NetworkFlips

LEMMA UnmarkedStep ==
    ASSUME ~SlowClients, TypeOK, Registered, Unmarked, [Next]_vars PROVE Unmarked'
<1> USE DEF monitorVars, syncVars, reconnectVars, networkVars, apiVars, taskVars, broadcastVars
<1>t. /\ browserEnd \in [Sockets -> {"closed", "connecting", "open", "closing"}]
      /\ socket \in Sockets /\ serverEnd \in [Sockets -> {"none", "open"}]
      /\ targets \in [Events -> SUBSET Sockets] /\ broken \in [Events -> SUBSET Sockets]
      /\ connections \subseteq Sockets
  BY DEF TypeOK, MonitorTypeOK, BroadcasterTypeOK
\* The page moves its ends of the sockets on, never back to the handshake.
<1>1. ASSUME UNCHANGED <<connections, serverEnd, targets, broken>>,
             \A s \in Sockets : browserEnd'[s] \in {"connecting", "open"} =>
                 /\ browserEnd[s] \in {"connecting", "open"}
                 /\ browserEnd'[s] = "connecting" => browserEnd[s] = "connecting"
      PROVE  Unmarked'
  BY <1>1 DEF Unmarked
<1>2. ASSUME UNCHANGED <<connections, serverEnd, targets, broken, browserEnd>> PROVE Unmarked'
  BY <1>2 DEF Unmarked
<1>3. ASSUME NEW e \in Events, TakeSnapshot(e), UNCHANGED browserEnd PROVE Unmarked'
  <2>1. /\ targets' = [targets EXCEPT ![e] = connections]
        /\ UNCHANGED <<connections, serverEnd, broken>>
    BY <1>3 DEF TakeSnapshot
  <2> QED BY <1>3, <2>1, <1>t DEF Unmarked, Registered
<1>4. ASSUME NEW e \in Events, RemoveBroken(e), UNCHANGED browserEnd PROVE Unmarked'
  <2>1. /\ connections' = connections \ broken[e] /\ broken' = [broken EXCEPT ![e] = {}]
        /\ UNCHANGED <<serverEnd, targets>>
    BY <1>4 DEF RemoveBroken
  <2> QED BY <1>4, <2>1, <1>t DEF Unmarked
<1>5. ASSUME NEW e \in Events, NEW s \in Sockets, SendOk(e, s), UNCHANGED browserEnd
      PROVE  Unmarked'
  <2>1. /\ targets' = [targets EXCEPT ![e] = @ \ {s}]
        /\ UNCHANGED <<connections, serverEnd, broken>>
    BY <1>5 DEF SendOk
  <2> QED BY <1>5, <2>1, <1>t DEF Unmarked
<1>6. ASSUME NEW e \in Events, NEW s \in Sockets, SendFails(e, s), UNCHANGED browserEnd,
             serverEnd[s] = "none" \/ browserEnd[s] \in {"closing", "closed"}
      PROVE  Unmarked'
  <2>1. /\ s \in targets[e]
        /\ targets' = [targets EXCEPT ![e] = @ \ {s}]
        /\ broken' = [broken EXCEPT ![e] = @ \union {s}]
        /\ UNCHANGED <<connections, serverEnd>>
    BY <1>6 DEF SendFails
  <2>2. browserEnd[s] # "connecting"
    BY <1>6, <2>1 DEF Unmarked
  <2> QED BY <1>6, <2>1, <2>2, <1>t DEF Unmarked
<1>7. ASSUME Broadcast PROVE Unmarked'
  BY <1>3, <1>4, <1>5, <1>6, <1>7 DEF Broadcast
<1>8. ASSUME Crash PROVE Unmarked'
  BY <1>8 DEF Crash, LoseProcess, Unmarked
<1>9. ASSUME NEW s \in Sockets, Handshake(s) PROVE Unmarked'
  <2>1. /\ browserEnd[s] = "connecting" /\ serverEnd[s] = "none"
        /\ serverEnd' = [serverEnd EXCEPT ![s] = "open"]
        /\ connections' = connections \union {s}
        /\ UNCHANGED <<browserEnd, targets, broken>>
    BY <1>9 DEF Handshake, Connect
  <2> QED BY <2>1, <1>t DEF Unmarked
<1>10. ASSUME NEW s \in Sockets, RouteEnds(s) PROVE Unmarked'
  <2>1. /\ browserEnd[s] \in {"closing", "closed"}
        /\ serverEnd' = [serverEnd EXCEPT ![s] = "none"]
        /\ connections' = connections \ {s}
        /\ UNCHANGED <<browserEnd, targets, broken>>
    BY <1>10 DEF RouteEnds, Disconnect
  <2> QED BY <2>1, <1>t DEF Unmarked
<1>11. ASSUME NEW s \in Sockets, Opened(s) PROVE Unmarked'
  <2>1. /\ browserEnd' \in {[browserEnd EXCEPT ![s] = "open"], [browserEnd EXCEPT ![s] = "closing"]}
        /\ browserEnd[s] = "connecting"
        /\ UNCHANGED <<connections, serverEnd, targets, broken>>
    BY <1>11 DEF Opened, OpenEvent
  <2> QED BY <2>1, <1>1, <1>t
<1>12. ASSUME NEW s \in Sockets, Closed(s) \/ ConnectionDrops(s) PROVE Unmarked'
  <2>1. /\ browserEnd' = [browserEnd EXCEPT ![s] = "closed"]
        /\ UNCHANGED <<connections, serverEnd, targets, broken>>
    BY <1>12 DEF Closed, ConnectionDrops, CloseEvent
  <2> QED BY <2>1, <1>1, <1>t
<1>13. ASSUME NEW s \in Sockets, Reconnect(s) PROVE Unmarked'
  <2>1. /\ browserEnd' = [browserEnd EXCEPT ![s] = "connecting"]
        /\ serverEnd[s] = "none" /\ \A e \in Events : s \notin targets[e] \union broken[e]
        /\ UNCHANGED <<connections, serverEnd, targets, broken>>
    BY <1>13 DEF Reconnect, Free, TimerFires, OnlineEvent, ConnectAndSynchronize
  <2> QED BY <2>1, <1>t DEF Unmarked
<1>14. ASSUME RequestFails \/ RequestRefused \/ Unload PROVE Unmarked'
  <2>1. /\ browserEnd' = Closing(browserEnd, socket)
        /\ UNCHANGED <<connections, serverEnd, targets, broken>>
    BY <1>14 DEF RequestFails, RequestRefused, FetchFails, Unload, StopConnections
  <2> QED BY <2>1, <1>1, <1>t, ClosingEnds
<1>15. ASSUME PageStep PROVE Unmarked'
  <2>1. /\ browserEnd' \in {browserEnd, Closing(browserEnd, socket)}
        /\ UNCHANGED <<connections, serverEnd, targets, broken>>
    BY <1>15 DEF PageStep, SyncComplete, OfflineEvent, OnlineEventIgnored
  <2> QED BY <2>1, <1>1, <1>2, <1>t, ClosingEnds
<1>16. ASSUME NEW s \in Sockets, Receive(s) PROVE Unmarked'
  BY <1>2, <1>16 DEF Receive, MessageEvent
<1> QED
  BY <1>2, <1>7, <1>8, <1>9, <1>10, <1>11, <1>12, <1>13, <1>14, <1>15, <1>16
     DEF Next, Commit, Announce, CommitUnacknowledged, Schedule, ServeHistory, HistoryArrives, Restart, NetworkFlips,
         NetworkChanges, vars

\* Every LIVE page on an open connection has the announced rows, or has them coming.
LiveMeansAnnounced == connectionState = "LIVE" /\ Connected => Shows(Announced)

\* If no send to a healthy connection times out, every LIVE page on an open connection
\* shows the newest announced rows or has them coming, and all of the newest rows unless
\* the commit of one was not acknowledged since the page asked for its history: the two
\* ways there are to lose a row.
THEOREM FastClientsAreCurrent ==
    ASSUME ~SlowClients
    PROVE  Spec => [](LiveMeansAnnounced /\ (unannounced = {} => LiveMeansCurrent))
<1>1. Init => Registered /\ Unmarked
  BY DEF Init, MonitorInit, BroadcasterInit, Registered, Unmarked
<1>2. ChannelInv /\ Registered /\ Unmarked /\ [Next]_vars => (Registered /\ Unmarked)'
  BY RegisteredStep, UnmarkedStep DEF ChannelInv
<1>3. ChannelInv /\ Unmarked => LiveMeansAnnounced
  <2> SUFFICES ASSUME ChannelInv, Unmarked, connectionState = "LIVE", Connected
               PROVE  Shows(Announced)
    BY DEF LiveMeansAnnounced
  <2>1. socket \in connections /\ \A e \in Events : socket \notin broken[e]
    BY DEF Connected, Unmarked, ChannelInv, TypeOK, MonitorTypeOK
  <2> QED BY <2>1 DEF ChannelInv, Current, Healthy, Covers, Shows
<1>4. LiveMeansAnnounced /\ unannounced = {} => LiveMeansCurrent
  <2> SUFFICES ASSUME LiveMeansAnnounced, unannounced = {} PROVE LiveMeansCurrent
    OBVIOUS
  <2>1. Announced = committed
    BY DEF Announced
  <2> QED BY <2>1 DEF LiveMeansAnnounced, LiveMeansCurrent
<1> QED BY <1>1, <1>2, <1>3, <1>4, ChannelInvariant, PTL DEF Spec

=============================================================================
