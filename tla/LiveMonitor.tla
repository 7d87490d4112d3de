----------------------------- MODULE LiveMonitor -----------------------------
(***************************************************************************)
(* The browser side of one durable channel of the Live Monitor (app.js):   *)
(* WebSocket first, REST snapshot second, buffered events merged last.     *)
(*                                                                         *)
(* JavaScript runs one task at a time, so each event listener up to its    *)
(* next await is one step.  The code tells a stale listener by comparing   *)
(* generation numbers; every generation has exactly one WebSocket, so here *)
(* the newest socket stands for the current generation.                    *)
(***************************************************************************)
EXTENDS Naturals, Sequences, FiniteSets

CONSTANTS
    Sockets,      \* WebSocket objects of the page
    Events,       \* durable inspections, numbered in the order of their created_at
    Window,       \* MAX_VISIBLE_INSPECTIONS
    KeepWindow,   \* TRUE: the merge keeps the visible rows (YOLO, combined channels)
    AttemptCap    \* bound: the reconnect counter saturates where the delay does

ASSUME LiveMonitorAssumption ==
    /\ Events \subseteq Nat
    /\ Window \in Nat \ {0}
    /\ KeepWindow \in BOOLEAN
    /\ AttemptCap \in Nat \ {0}

VARIABLES
    socket,            \* the newest WebSocket
    browserEnd,        \* readyState of each WebSocket
    isSynchronizing,
    buffered,          \* bufferedInspections
    inspections,       \* the visible window
    fetch,             \* the history request of the current generation
    history,           \* its parsed response
    reconnectTimer,    \* a reconnect timer is set
    reconnectAttempt,
    connectionState,   \* the indicator shown to the operator
    stopped,
    onLine,            \* navigator.onLine
    networkEvents      \* offline/online events queued and not yet dispatched

syncVars == <<isSynchronizing, buffered, inspections, fetch, history>>
reconnectVars == <<reconnectTimer, reconnectAttempt, connectionState>>
networkVars == <<onLine, networkEvents>>
monitorVars == <<socket, browserEnd, syncVars, reconnectVars, stopped, networkVars>>

MonitorTypeOK ==
    /\ socket \in Sockets
    /\ browserEnd \in [Sockets -> {"closed", "connecting", "open", "closing"}]
    /\ isSynchronizing \in BOOLEAN
    /\ buffered \subseteq Events
    /\ inspections \subseteq Events
    /\ fetch \in {"none", "requested", "answered"}
    /\ history \subseteq Events
    /\ reconnectTimer \in BOOLEAN
    /\ reconnectAttempt \in 0 .. AttemptCap
    /\ connectionState \in {"CONNECTING", "RECONNECTING", "LIVE", "OFFLINE"}
    /\ stopped \in BOOLEAN
    /\ onLine \in BOOLEAN
    /\ networkEvents \in Seq({"offline", "online"})

\* mergeInspections: deduplicated, newest first, cut to the window.
Newest(S) == {e \in S : Cardinality({d \in S : d > e}) < Window}

Active(s) == s = socket /\ ~stopped

\* connection.close() on a socket that is still connecting or open.
Closing(ends, s) ==
    IF ends[s] \in {"connecting", "open"} THEN [ends EXCEPT ![s] = "closing"] ELSE ends

\* The page has just run connectAndSynchronize for the first time.
MonitorInit ==
    /\ socket \in Sockets
    /\ browserEnd = [s \in Sockets |-> IF s = socket THEN "connecting" ELSE "closed"]
    /\ isSynchronizing = TRUE
    /\ buffered = {}
    /\ inspections = {}
    /\ fetch = "none"
    /\ history = {}
    /\ reconnectTimer = FALSE
    /\ reconnectAttempt = 0
    /\ connectionState = "CONNECTING"
    /\ stopped = FALSE
    /\ onLine = TRUE
    /\ networkEvents = <<>>

\* connectAndSynchronize() with a fresh socket, after attempt was set: a new
\* generation begins, the old history request is aborted, the buffer emptied.
\* The old socket is not closed here.
ConnectAndSynchronize(s, attempt) ==
    /\ ~stopped
    /\ socket' = s
    /\ browserEnd' = [browserEnd EXCEPT ![s] = "connecting"]
    /\ isSynchronizing' = TRUE
    /\ buffered' = {}
    /\ fetch' = "none"
    /\ history' = {}
    /\ reconnectAttempt' = attempt
    /\ connectionState' = IF attempt = 0 THEN "CONNECTING" ELSE "RECONNECTING"
    /\ UNCHANGED <<inspections, stopped>>

\* The reconnect timer fires.
TimerFires(s) ==
    /\ reconnectTimer
    /\ reconnectTimer' = FALSE
    /\ ConnectAndSynchronize(s, reconnectAttempt)
    /\ UNCHANGED networkVars

\* The open event: only the current generation goes on to request history.
OpenEvent(s) ==
    /\ browserEnd[s] = "connecting"
    /\ IF Active(s)
         THEN /\ browserEnd' = [browserEnd EXCEPT ![s] = "open"]
              /\ fetch' = "requested"
         ELSE /\ browserEnd' = [browserEnd EXCEPT ![s] = "closing"]
              /\ UNCHANGED fetch
    /\ UNCHANGED <<socket, isSynchronizing, buffered, inspections, history, reconnectVars,
                   stopped, networkVars>>

\* The response arrives with what the history endpoint read.
HistoryArrives(rows) ==
    /\ fetch = "requested"
    /\ fetch' = "answered"
    /\ history' = rows
    /\ UNCHANGED <<socket, browserEnd, isSynchronizing, buffered, inspections, reconnectVars,
                   stopped, networkVars>>

\* Mutant: the messages buffered during the synchronisation are forgotten.
HistoryOnly == history

Merged == history \union buffered \union (IF KeepWindow THEN inspections ELSE {})

\* History and buffer are merged and the channel turns LIVE.
SyncComplete ==
    /\ fetch = "answered"
    /\ inspections' = Newest(Merged)
    /\ buffered' = {}
    /\ isSynchronizing' = FALSE
    /\ fetch' = "none"
    /\ history' = {}
    /\ reconnectAttempt' = 0
    /\ connectionState' = "LIVE"
    /\ UNCHANGED <<socket, browserEnd, reconnectTimer, stopped, networkVars>>

\* The request fails, is not ok or is malformed: the socket is closed and the
\* close event will schedule the reconnect.
FetchFails ==
    /\ fetch # "none"
    /\ fetch' = "none"
    /\ history' = {}
    /\ browserEnd' = Closing(browserEnd, socket)
    /\ UNCHANGED <<socket, isSynchronizing, buffered, inspections, reconnectVars, stopped,
                   networkVars>>

\* Mutant: the message that arrives replaces the window instead of joining it.
OnlyThis(e) == {e}

WithMessage(e) == Newest(inspections \union {e})

\* acceptLiveMessage, whatever generation the socket belongs to.
MessageEvent(s, e) ==
    /\ browserEnd[s] = "open"
    /\ IF isSynchronizing
         THEN /\ buffered' = buffered \union {e}
              /\ UNCHANGED inspections
         ELSE /\ inspections' = WithMessage(e)
              /\ UNCHANGED buffered
    /\ UNCHANGED <<socket, browserEnd, isSynchronizing, fetch, history, reconnectVars, stopped,
                   networkVars>>

NextAttempt == IF reconnectAttempt < AttemptCap THEN reconnectAttempt + 1 ELSE reconnectAttempt

\* Mutant: only a connection that was LIVE is replaced.
ScheduleReconnectFromLive ==
    IF connectionState = "LIVE"
      THEN /\ connectionState' = "RECONNECTING"
           /\ reconnectTimer' = TRUE
           /\ reconnectAttempt' = NextAttempt
      ELSE UNCHANGED reconnectVars

\* scheduleReconnect: one timer at a time, none while the browser is offline.
ScheduleReconnect ==
    IF reconnectTimer
      THEN UNCHANGED reconnectVars
      ELSE IF ~onLine
        THEN /\ connectionState' = "OFFLINE"
             /\ UNCHANGED <<reconnectTimer, reconnectAttempt>>
        ELSE /\ connectionState' = "RECONNECTING"
             /\ reconnectTimer' = TRUE
             /\ reconnectAttempt' = NextAttempt

\* The close event: only the current generation aborts its request and
\* schedules a reconnect.
CloseEvent(s) ==
    /\ browserEnd[s] # "closed"
    /\ browserEnd' = [browserEnd EXCEPT ![s] = "closed"]
    /\ IF Active(s)
         THEN /\ fetch' = "none"
              /\ history' = {}
              /\ isSynchronizing' = FALSE
              /\ ScheduleReconnect
         ELSE UNCHANGED <<fetch, history, isSynchronizing, reconnectVars>>
    /\ UNCHANGED <<socket, buffered, inspections, stopped, networkVars>>

\* The network goes away or comes back: navigator.onLine changes at once, the
\* event is queued behind the tasks already waiting.
NetworkChanges ==
    /\ onLine' = ~onLine
    /\ networkEvents' = Append(networkEvents, IF onLine THEN "offline" ELSE "online")
    /\ UNCHANGED <<socket, browserEnd, syncVars, reconnectVars, stopped>>

OfflineEvent ==
    /\ networkEvents # <<>> /\ Head(networkEvents) = "offline"
    /\ networkEvents' = Tail(networkEvents)
    /\ reconnectTimer' = FALSE
    /\ connectionState' = "OFFLINE"
    /\ browserEnd' = Closing(browserEnd, socket)
    /\ UNCHANGED <<socket, syncVars, reconnectAttempt, stopped, onLine>>

\* The online handler reconnects at once; a timer that is set stays set.
OnlineEvent(s) ==
    /\ networkEvents # <<>> /\ Head(networkEvents) = "online"
    /\ networkEvents' = Tail(networkEvents)
    /\ ConnectAndSynchronize(s, 0)
    /\ UNCHANGED <<reconnectTimer, onLine>>

\* After stopConnections the online handler does nothing.
OnlineEventIgnored ==
    /\ stopped
    /\ networkEvents # <<>> /\ Head(networkEvents) = "online"
    /\ networkEvents' = Tail(networkEvents)
    /\ UNCHANGED <<socket, browserEnd, syncVars, reconnectVars, stopped, onLine>>

\* stopConnections, on beforeunload.
StopConnections ==
    /\ ~stopped
    /\ stopped' = TRUE
    /\ fetch' = "none"
    /\ history' = {}
    /\ reconnectTimer' = FALSE
    /\ browserEnd' = Closing(browserEnd, socket)
    /\ UNCHANGED <<socket, isSynchronizing, buffered, inspections, reconnectAttempt,
                   connectionState, networkVars>>

=============================================================================
