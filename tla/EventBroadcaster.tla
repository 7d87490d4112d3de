-------------------------- MODULE EventBroadcaster --------------------------
(***************************************************************************)
(* EventBroadcaster and the WebSocket route that owns each connection: one *)
(* process-local notification channel of the Vision API.                   *)
(*                                                                         *)
(* The broadcaster runs on one asyncio loop.  _lock is held only across    *)
(* statements without an await, so each locked block is one step; the      *)
(* awaits of broadcast (the gathered sends) let everything else interleave. *)
(***************************************************************************)
EXTENDS Naturals, FiniteSets

CONSTANTS
    Sockets,   \* WebSocket connections; an identity is reused once both ends forgot it
    Events     \* notifications, numbered in the order of their created_at

VARIABLES
    connections,  \* _connections: the registered sockets
    serverEnd,    \* "open" while the route's receive loop runs, else "none"
    wire,         \* events written to each socket and not yet received
    task,         \* the background broadcast of each event
    targets,      \* the snapshot's sockets whose _send has not returned
    broken        \* the snapshot's sockets whose _send returned False

broadcastVars == <<task, targets, broken>>

TaskStates == {"none", "scheduled", "sending", "done", "lost"}

BroadcasterTypeOK ==
    /\ connections \subseteq Sockets
    /\ serverEnd \in [Sockets -> {"none", "open"}]
    /\ wire \in [Sockets -> SUBSET Events]
    /\ task \in [Events -> TaskStates]
    /\ targets \in [Events -> SUBSET Sockets]
    /\ broken \in [Events -> SUBSET Sockets]

BroadcasterInit ==
    /\ connections = {}
    /\ serverEnd = [s \in Sockets |-> "none"]
    /\ wire = [s \in Sockets |-> {}]
    /\ task = [e \in Events |-> "none"]
    /\ targets = [e \in Events |-> {}]
    /\ broken = [e \in Events |-> {}]

\* connect(): the handshake is accepted and the socket registered before the
\* loop runs anything else (the lock is never contended).
Connect(s) ==
    /\ serverEnd[s] = "none"
    /\ serverEnd' = [serverEnd EXCEPT ![s] = "open"]
    /\ connections' = connections \union {s}
    /\ UNCHANGED <<wire, broadcastVars>>

\* The receive loop sees websocket.disconnect, its finally block unregisters.
Disconnect(s) ==
    /\ serverEnd[s] = "open"
    /\ serverEnd' = [serverEnd EXCEPT ![s] = "none"]
    /\ connections' = connections \ {s}
    /\ UNCHANGED <<wire, broadcastVars>>

\* A request handler adds broadcast(e) to its background tasks.
Schedule(e) ==
    /\ task[e] = "none"
    /\ task' = [task EXCEPT ![e] = "scheduled"]
    /\ UNCHANGED <<connections, serverEnd, wire, targets, broken>>

\* broadcast() copies the registered sockets under the lock.
TakeSnapshot(e) ==
    /\ task[e] = "scheduled"
    /\ task' = [task EXCEPT ![e] = IF connections = {} THEN "done" ELSE "sending"]
    /\ targets' = [targets EXCEPT ![e] = connections]
    /\ UNCHANGED <<connections, serverEnd, wire, broken>>

\* One gathered _send returns True ...
SendOk(e, s) ==
    /\ s \in targets[e]
    /\ serverEnd[s] = "open"
    /\ wire' = [wire EXCEPT ![s] = @ \union {e}]
    /\ targets' = [targets EXCEPT ![e] = @ \ {s}]
    /\ UNCHANGED <<connections, serverEnd, task, broken>>

\* ... or False, on an exception or at send_timeout_seconds.  A send that was
\* cancelled at its timeout may still have put the event on the wire.
SendFails(e, s) ==
    /\ s \in targets[e]
    /\ targets' = [targets EXCEPT ![e] = @ \ {s}]
    /\ broken' = [broken EXCEPT ![e] = @ \union {s}]
    /\ wire' \in {wire, [wire EXCEPT ![s] = @ \union {e}]}
    /\ UNCHANGED <<connections, serverEnd, task>>

\* All sends returned: the broken sockets are unregistered, not closed.
RemoveBroken(e) ==
    /\ task[e] = "sending"
    /\ targets[e] = {}
    /\ task' = [task EXCEPT ![e] = "done"]
    /\ connections' = connections \ broken[e]
    /\ broken' = [broken EXCEPT ![e] = {}]
    /\ UNCHANGED <<serverEnd, wire, targets>>

\* The process ends: every connection and every unfinished broadcast is lost.
LoseProcess ==
    /\ connections' = {}
    /\ serverEnd' = [s \in Sockets |-> "none"]
    /\ task' = [e \in Events |-> IF task[e] \in {"scheduled", "sending"} THEN "lost" ELSE task[e]]
    /\ targets' = [e \in Events |-> {}]
    /\ broken' = [e \in Events |-> {}]
    /\ UNCHANGED wire

=============================================================================
