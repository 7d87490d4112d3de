----------------------------- MODULE LiveChannel -----------------------------
(***************************************************************************)
(* One durable Live Monitor channel end to end: requests that commit an    *)
(* inspection and schedule its broadcast, the broadcaster, the REST        *)
(* history endpoint, the WebSocket between the two ends, and a browser     *)
(* page, with lost connections, failed history requests, slow clients, API *)
(* restarts and a network that goes away.                                  *)
(***************************************************************************)
EXTENDS LiveMonitor, Functions

CONSTANTS
    SlowClients,      \* TRUE: a healthy connection's send may time out
    MaxFaults,        \* bound on dropped connections, failed requests, lost
                      \* commit acknowledgements, crashes
    MaxNetworkFlips   \* bound on changes of navigator.onLine

ASSUME LiveChannelAssumption ==
    /\ SlowClients \in BOOLEAN
    /\ MaxFaults \in Nat
    /\ MaxNetworkFlips \in Nat

VARIABLES
    connections, serverEnd, wire, task, targets, broken,  \* see EventBroadcaster
    committed,        \* rows in PostgreSQL
    answering,        \* rows whose create() has not yet returned to its handler
    unannounced,      \* rows whose create() raised after the commit, and that the
                      \* page's last history request did not read either
    up,               \* the API process runs
    faults, flips     \* how much of each bound is used

INSTANCE EventBroadcaster

taskVars == <<task, targets, broken>>
apiVars == <<connections, serverEnd, wire, taskVars>>
rowVars == <<committed, answering, unannounced>>
vars == <<monitorVars, apiVars, rowVars, up, faults, flips>>

TypeOK ==
    /\ MonitorTypeOK
    /\ BroadcasterTypeOK
    /\ committed \subseteq Events
    /\ answering \subseteq Events
    /\ unannounced \subseteq Events
    /\ up \in BOOLEAN
    /\ faults \in 0 .. MaxFaults
    /\ flips \in 0 .. MaxNetworkFlips

Init ==
    /\ MonitorInit
    /\ BroadcasterInit
    /\ committed = {}
    /\ answering = {}
    /\ unannounced = {}
    /\ up = TRUE
    /\ faults = 0
    /\ flips = 0

\* A WebSocket object nobody remembers any more.
Free(s) ==
    /\ browserEnd[s] = "closed"
    /\ serverEnd[s] = "none"
    /\ \A e \in Events : s \notin targets[e] \union broken[e]

-----------------------------------------------------------------------------
(* The API process.                                                        *)

\* The pool thread of a create request commits its row.  created_at was taken
\* earlier, so rows may be committed in another order.
Commit(e) ==
    /\ up
    /\ e \notin committed
    /\ committed' = committed \union {e}
    /\ answering' = answering \union {e}
    /\ UNCHANGED <<monitorVars, apiVars, unannounced, up, faults, flips>>

\* Back on the loop, the handler answers and leaves broadcast(e) as a
\* background task.
Announce(e) ==
    /\ e \in answering
    /\ answering' = answering \ {e}
    /\ Schedule(e)
    /\ UNCHANGED <<monitorVars, committed, unannounced, up, faults, flips>>

\* The row becomes durable, the acknowledgement of the commit is lost: create()
\* raises PersistenceError, which leaves the handler before it adds the task.
CommitUnacknowledged(e) ==
    /\ up /\ faults < MaxFaults
    /\ e \notin committed
    /\ faults' = faults + 1
    /\ committed' = committed \union {e}
    /\ unannounced' = unannounced \union {e}
    /\ UNCHANGED <<monitorVars, apiVars, answering, up, flips>>

Handshake(s) ==
    /\ up
    /\ browserEnd[s] = "connecting"
    /\ Connect(s)
    /\ UNCHANGED <<monitorVars, rowVars, up, faults, flips>>

\* The route learns that the browser closed or lost the connection.
RouteEnds(s) ==
    /\ browserEnd[s] \in {"closing", "closed"}
    /\ Disconnect(s)
    /\ UNCHANGED <<monitorVars, rowVars, up, faults, flips>>

Broadcast ==
    /\ \E e \in Events :
          \/ TakeSnapshot(e)
          \/ RemoveBroken(e)
          \/ \E s \in Sockets : SendOk(e, s)
          \/ \E s \in Sockets : /\ SlowClients \/ serverEnd[s] = "none" \/ browserEnd[s] \in {"closing", "closed"}
                                /\ SendFails(e, s)
    /\ UNCHANGED <<monitorVars, rowVars, up, faults, flips>>

\* GET /v1/inspections?limit=100: the newest rows of the database.
ServeHistory ==
    /\ up
    /\ HistoryArrives(Newest(committed))
    /\ unannounced' = {}
    /\ UNCHANGED <<apiVars, committed, answering, up, faults, flips>>

Crash ==
    /\ up /\ faults < MaxFaults
    /\ up' = FALSE
    /\ faults' = faults + 1
    /\ answering' = {}
    /\ LoseProcess
    /\ UNCHANGED <<monitorVars, committed, unannounced, flips>>

Restart ==
    /\ ~up
    /\ up' = TRUE
    /\ UNCHANGED <<monitorVars, apiVars, rowVars, faults, flips>>

-----------------------------------------------------------------------------
(* The browser.                                                            *)

Opened(s) ==
    /\ serverEnd[s] = "open"
    /\ OpenEvent(s)
    /\ UNCHANGED <<apiVars, rowVars, up, faults, flips>>

Receive(s) ==
    /\ \E e \in wire[s] :
          /\ MessageEvent(s, e)
          /\ wire' = [wire EXCEPT ![s] = @ \ {e}]
    /\ UNCHANGED <<connections, serverEnd, taskVars, rowVars, up, faults, flips>>

\* The close event is due: the page closed the socket, the process that held
\* the other end is gone, or nothing answers the handshake.
CloseIsDue(s) ==
    \/ browserEnd[s] = "closing"
    \/ browserEnd[s] = "open" /\ serverEnd[s] = "none"
    \/ browserEnd[s] = "connecting" /\ ~up

\* What was on the wire of a socket is lost with it.
WireLost(s) == wire' = [wire EXCEPT ![s] = {}]

Closed(s) ==
    /\ CloseIsDue(s)
    /\ CloseEvent(s)
    /\ WireLost(s)
    /\ UNCHANGED <<connections, serverEnd, taskVars, rowVars, up, faults, flips>>

ConnectionDrops(s) ==
    /\ faults < MaxFaults
    /\ browserEnd[s] \in {"connecting", "open"}
    /\ faults' = faults + 1
    /\ CloseEvent(s)
    /\ WireLost(s)
    /\ UNCHANGED <<connections, serverEnd, taskVars, rowVars, up, flips>>

RequestFails ==
    /\ faults < MaxFaults
    /\ faults' = faults + 1
    /\ FetchFails
    /\ UNCHANGED <<apiVars, rowVars, up, flips>>

\* While the API is down a request fails without using the bound.
RequestRefused ==
    /\ ~up
    /\ FetchFails
    /\ UNCHANGED <<apiVars, rowVars, up, faults, flips>>

Reconnect(s) ==
    /\ Free(s)
    /\ TimerFires(s) \/ OnlineEvent(s)
    /\ WireLost(s)
    /\ UNCHANGED <<connections, serverEnd, taskVars, rowVars, up, faults, flips>>

PageStep ==
    /\ SyncComplete \/ OfflineEvent \/ OnlineEventIgnored
    /\ UNCHANGED <<apiVars, rowVars, up, faults, flips>>

Unload ==
    /\ StopConnections
    /\ UNCHANGED <<apiVars, rowVars, up, faults, flips>>

NetworkFlips ==
    /\ flips < MaxNetworkFlips
    /\ flips' = flips + 1
    /\ NetworkChanges
    /\ UNCHANGED <<apiVars, rowVars, up, faults>>

-----------------------------------------------------------------------------

Next ==
    \/ \E e \in Events : Commit(e) \/ Announce(e) \/ CommitUnacknowledged(e)
    \/ Broadcast \/ ServeHistory \/ Crash \/ Restart
    \/ \E s \in Sockets : \/ Handshake(s) \/ RouteEnds(s)
                          \/ Opened(s) \/ Receive(s) \/ Closed(s) \/ ConnectionDrops(s)
                          \/ Reconnect(s)
    \/ RequestFails \/ RequestRefused \/ PageStep \/ Unload \/ NetworkFlips

Spec == Init /\ [][Next]_vars

-----------------------------------------------------------------------------
(* Safety.                                                                 *)

\* Event e is still on its way to the page's newest socket.
OnItsWay(e) ==
    \/ e \in answering
    \/ task[e] = "scheduled"
    \/ socket \in targets[e]
    \/ e \in wire[socket]

Shows(rows) == \A e \in Newest(rows) : e \in inspections \/ OnItsWay(e)

\* The rows the API has announced or the page has asked for since.
Announced == committed \ unannounced

Connected == browserEnd[socket] = "open" /\ serverEnd[socket] = "open"

\* What the WebSocket-first synchronisation gives: while LIVE on a registered
\* connection, each of the newest rows is visible or on its way, whatever was
\* committed before, during and after the synchronisation; a row whose commit
\* was not acknowledged only from the page's next history request on.
RegisteredMeansCurrent ==
    /\ connectionState = "LIVE"
    /\ Connected
    /\ socket \in connections
    /\ \A e \in Events : socket \notin broken[e]
    => Shows(Announced)

\* The contract as it is documented: every open connection, also one the
\* broadcaster gave up, and every committed row.
LiveMeansCurrent == connectionState = "LIVE" /\ Connected => Shows(committed)

\* A visible row disappears only when newer rows fill the window: no reconnect
\* and no late message takes a row back.
NothingVanishes ==
    [][\A e \in inspections \ inspections' :
          Cardinality({d \in inspections' : d > e}) >= Window]_vars

\* A page without a connection always has a reconnect coming: its timer, or
\* the online event.
ReconnectIsComing ==
    ~stopped /\ browserEnd[socket] = "closed"
        => reconnectTimer \/ ~onLine \/ "online" \in Range(networkEvents)

-----------------------------------------------------------------------------
(* Liveness.                                                               *)

\* The asyncio loop and the browser's event loop run what is ready, the API
\* is restarted, a network that went away comes back.  Faults, commits and
\* unload are never forced.
Fairness ==
    /\ WF_vars(Broadcast) /\ WF_vars(ServeHistory) /\ WF_vars(Restart)
    /\ WF_vars(RequestRefused) /\ WF_vars(PageStep)
    /\ WF_vars(~onLine /\ NetworkFlips)
    /\ \A e \in Events : WF_vars(Announce(e))
    /\ \A s \in Sockets :
          /\ WF_vars(Handshake(s)) /\ WF_vars(RouteEnds(s)) /\ WF_vars(Opened(s))
          /\ WF_vars(Receive(s)) /\ WF_vars(Closed(s)) /\ WF_vars(Reconnect(s))

FairSpec == Spec /\ Fairness

\* After the last fault the page ends up LIVE with the newest rows for good; a
\* row that was never announced is among them once a history request read it.
Recovers ==
    <>[](stopped \/ (connectionState = "LIVE" /\ inspections = Newest(Announced)))

=============================================================================
