--------------------------- MODULE RtspReconnect ---------------------------
(***************************************************************************)
(* The two RTSP reliability drills.  Both start a fixture server as a      *)
(* child process, stream from it, stop it and wait for the client to       *)
(* notice.  The recovery drill then reconnects once and needs              *)
(* HealthyFrames frames to get its retry budget back; the exhaustion drill *)
(* keeps the server away and must fail closed after MaxAttempts attempts.  *)
(* Either may fail at any step and tears down in a finally block.  Another *)
(* program may take the port, which was only free when it was looked up.   *)
(*                                                                         *)
(* SIGKILL ends the fixture server.  Durations are left out, except the    *)
(* back-off; a wait may time out.                                          *)
(***************************************************************************)
EXTENDS Integers

CONSTANTS
    InitialFrames,  \* frames of the healthy phase
    HealthyFrames,  \* reset_after_healthy_frames
    MaxAttempts,    \* max_reconnect_attempts
    InitialBackoff, \* milliseconds
    MaxBackoff,     \* milliseconds
    MaxBuffered,    \* bound: frames the stopped client still holds
    MaxStrangers    \* bound: how often another program takes the port

ASSUME RtspAssumption ==
    /\ {InitialFrames, HealthyFrames, MaxAttempts, InitialBackoff} \subseteq Nat \ {0}
    /\ {MaxBackoff, MaxBuffered, MaxStrangers} \subseteq Nat

VARIABLES
    drill,      \* recovery or exhaustion
    pc,
    failed,     \* an exception is on its way out
    tracker,    \* StreamHealthTracker
    left,       \* frames _receive_frames still has to pull
    server,     \* the fixture process: none, up or dead
    orphan,     \* a fixture process nobody refers to any more
    client,     \* the pipeline: none or playing
    buffered,   \* frames in the client's queue and appsink
    stranger,   \* another program listens on the port
    strangers,  \* how often one came
    evidence,   \* what smoke.json says, or none
    fresh       \* history: frames since the last reconnect began

vars == <<drill, pc, failed, tracker, left, server, orphan, client, buffered,
          stranger, strangers, evidence, fresh>>

network == <<stranger, strangers>>
parts   == <<server, orphan, client, buffered>>

Init ==
    /\ drill \in {"recovery", "exhaustion"}
    /\ pc = "start"
    /\ failed = FALSE
    /\ tracker = [state |-> "DISCONNECTED", connections |-> 0, reconnects |-> 0, budget |-> 0,
                  healthy |-> 0, received |-> 0, events |-> 0, backoff |-> 0]
    /\ left = 0
    /\ server = "none" /\ orphan = FALSE /\ client = "none" /\ buffered = 0
    /\ stranger = FALSE /\ strangers = 0
    /\ evidence = "none"
    /\ fresh = 0

PortOpen == server = "up" \/ orphan \/ stranger

Go(from, to) == pc = from /\ pc' = to /\ UNCHANGED <<drill, failed, network, evidence>>

\* Mutant: a pull waits for ever.
RaisePatient ==
    /\ pc \notin {"initial", "recover", "finally", "verify", "ended"}
    /\ pc' = "finally"
    /\ failed' = TRUE
    /\ UNCHANGED <<drill, tracker, left, parts, network, evidence, fresh>>

\* Any step up to the end of the try block may raise.
Raise ==
    /\ pc \notin {"finally", "verify", "ended"}
    /\ pc' = "finally"
    /\ failed' = TRUE
    /\ UNCHANGED <<drill, tracker, left, parts, network, evidence, fresh>>

-----------------------------------------------------------------------------
(* StreamHealthTracker                                                     *)

\* Mutant: frames count as healthy before any reconnect.
RecordAlways(t) == [t EXCEPT !.received = @ + 1, !.healthy = @ + 1]

RecordFrame(t) ==
    [t EXCEPT !.received = @ + 1, !.healthy = IF t.budget > 0 THEN @ + 1 ELSE @]

BeginReconnect(t) == [t EXCEPT !.reconnects = @ + 1, !.budget = @ + 1, !.healthy = 0]

\* Mutant: the attempts stay spent.
ResetHealthy(t) == [t EXCEPT !.healthy = 0]

ResetBudget(t) == [t EXCEPT !.budget = 0, !.healthy = 0]

\* reconnect_backoff_schedule_ms with multiplier 2.
Backoff(attempt) ==
    LET delay == InitialBackoff * 2 ^ (attempt - 1)
    IN IF delay > MaxBackoff THEN MaxBackoff ELSE delay

-----------------------------------------------------------------------------
(* Server and client                                                       *)

\* Ready is whatever listens on the port.  A server that does not get ready is
\* terminated; when it does not end in time, or Ctrl-C comes, nobody refers to it.
StartServer(from, to) ==
    /\ pc = from
    /\ tracker' = [tracker EXCEPT !.state = IF from = "start" THEN "CONNECTING" ELSE @,
                                  !.connections = @ + 1]
    /\ \/ /\ server' = (IF PortOpen THEN "dead" ELSE "up")
          /\ pc' = to
          /\ UNCHANGED <<failed, orphan>>
       \/ /\ ~PortOpen
          /\ orphan' \in BOOLEAN
          /\ pc' = "finally"
          /\ failed' = TRUE
          /\ UNCHANGED server
    /\ UNCHANGED <<drill, left, client, buffered, network, evidence, fresh>>

\* terminate, kill, and wait until nothing listens on the port.
StopServer(to) ==
    /\ Go("stop", to)
    /\ server' = "none"
    /\ ~stranger
    /\ UNCHANGED <<tracker, left, orphan, client, buffered, fresh>>

StopTimesOut ==
    /\ pc = "stop"
    /\ server' = "dead"
    /\ pc' = "finally"
    /\ failed' = TRUE
    /\ UNCHANGED <<drill, tracker, left, orphan, client, buffered, network, evidence, fresh>>

CreateClient(from, to, frames) ==
    /\ Go(from, to)
    /\ client' = "playing"
    /\ buffered' = 0
    /\ left' = frames
    /\ UNCHANGED <<tracker, server, orphan, fresh>>

ServerCrashes ==
    /\ server = "up"
    /\ server' = "dead"
    /\ UNCHANGED <<drill, pc, failed, tracker, left, orphan, client, buffered, network,
                   evidence, fresh>>

FrameArrives ==
    /\ server = "up" /\ client = "playing"
    /\ buffered < MaxBuffered
    /\ buffered' = buffered + 1
    /\ UNCHANGED <<drill, pc, failed, tracker, left, server, orphan, client, network,
                   evidence, fresh>>

\* One iteration of _receive_frames; no sample in time raises.
PullFrame(at) ==
    /\ Go(at, at)
    /\ left > 0 /\ buffered > 0
    /\ buffered' = buffered - 1
    /\ left' = left - 1
    /\ tracker' = RecordFrame(tracker)
    /\ fresh' = fresh + 1
    /\ UNCHANGED <<server, orphan, client>>

-----------------------------------------------------------------------------
(* What both drills do                                                     *)

Streaming ==
    /\ left = 0
    /\ Go("initial", "stop")
    /\ tracker' = [tracker EXCEPT !.state = "STREAMING"]
    /\ UNCHANGED <<left, parts, fresh>>

\* A frame that was under way when the server stopped.
LateFrame ==
    /\ Go("detect", "detect")
    /\ buffered > 0
    /\ buffered' = buffered - 1
    /\ tracker' = RecordFrame(tracker)
    /\ fresh' = fresh + 1
    /\ UNCHANGED <<left, server, orphan, client>>

\* An error or end of stream on the bus, or no frame for frame_stale_after_ms; in
\* the exhaustion drill the pipeline ends before the transition.
Detect ==
    /\ Go("detect", IF drill = "recovery" THEN "backoff" ELSE "attempt")
    /\ client' = "none"
    /\ buffered' = 0
    /\ LET noticed == [tracker EXCEPT !.events = @ + 1, !.state = "RECONNECTING"]
       IN IF drill = "recovery"
          THEN tracker' = BeginReconnect(noticed) /\ fresh' = 0
          ELSE tracker' = noticed /\ UNCHANGED fresh
    /\ UNCHANGED <<left, server, orphan>>

-----------------------------------------------------------------------------
(* Recovery                                                                *)

Sleep ==
    /\ Go("backoff", "restart")
    /\ tracker' = [tracker EXCEPT !.backoff = Backoff(1)]
    /\ UNCHANGED <<left, parts, fresh>>

Recovered ==
    /\ left = 0
    /\ tracker.healthy >= HealthyFrames
    /\ Go("recover", "finally")
    /\ tracker' = [ResetBudget(tracker) EXCEPT !.state = "STREAMING", !.backoff = 0]
    /\ UNCHANGED <<left, parts, fresh>>

-----------------------------------------------------------------------------
(* Exhaustion                                                              *)

\* Mutant: one attempt too many.
BeginOneMore ==
    /\ tracker.reconnects <= MaxAttempts
    /\ ~PortOpen
    /\ Go("attempt", "offline")
    /\ tracker' = [BeginReconnect(tracker) EXCEPT
                      !.connections = @ + 1, !.backoff = Backoff(tracker.reconnects + 1)]
    /\ fresh' = 0
    /\ UNCHANGED <<left, parts>>

\* The port is looked at, then the attempt begins and sleeps its back-off.
BeginAttempt ==
    /\ tracker.reconnects < MaxAttempts
    /\ ~PortOpen
    /\ Go("attempt", "offline")
    /\ tracker' = [BeginReconnect(tracker) EXCEPT
                      !.connections = @ + 1, !.backoff = Backoff(tracker.reconnects + 1)]
    /\ fresh' = 0
    /\ UNCHANGED <<left, parts>>

\* The pipeline fails with a bus error or end of stream; no message in time raises.
AttemptFails ==
    /\ Go("offline", "attempt")
    /\ tracker' = [tracker EXCEPT !.events = @ + 1]
    /\ UNCHANGED <<left, parts, fresh>>

Exhausted ==
    /\ tracker.reconnects = MaxAttempts
    /\ Go("attempt", "finally")
    /\ tracker' = [tracker EXCEPT !.state = "FAILED", !.backoff = 0]
    /\ UNCHANGED <<left, parts, fresh>>

-----------------------------------------------------------------------------
(* Teardown and evidence                                                   *)

\* Mutant: teardown forgets the pipeline.
FinallyServer ==
    /\ Go("finally", IF failed THEN "ended" ELSE "verify")
    /\ server' = "none"
    /\ UNCHANGED <<tracker, left, orphan, client, buffered, fresh>>

Finally ==
    /\ Go("finally", IF failed THEN "ended" ELSE "verify")
    /\ server' = "none" /\ client' = "none" /\ buffered' = 0
    /\ UNCHANGED <<tracker, left, orphan, fresh>>

Verified ==
    IF drill = "recovery"
    THEN tracker.state = "STREAMING" /\ tracker.connections = 2 /\ tracker.reconnects = 1
    ELSE /\ tracker.state = "FAILED"
         /\ tracker.connections = 1 + MaxAttempts /\ tracker.reconnects = MaxAttempts
         /\ tracker.healthy = 0 /\ tracker.budget = MaxAttempts
         /\ tracker.received >= InitialFrames
         /\ ~PortOpen

\* Checks that fail and writes that fail end the drill without evidence.
Publish ==
    /\ pc = "verify"
    /\ pc' = "ended"
    /\ \/ /\ Verified
          /\ evidence' = IF drill = "recovery" THEN "recovered" ELSE "exhausted"
          /\ UNCHANGED failed
       \/ /\ failed' = TRUE
          /\ UNCHANGED evidence
    /\ UNCHANGED <<drill, tracker, left, parts, network, fresh>>

DrillStep ==
    \/ StartServer("start", "connect") \/ CreateClient("connect", "initial", InitialFrames)
    \/ PullFrame("initial") \/ Streaming
    \/ StopServer("detect") \/ StopTimesOut \/ LateFrame \/ Detect
    \/ Sleep \/ StartServer("restart", "reconnect")
    \/ CreateClient("reconnect", "recover", HealthyFrames) \/ PullFrame("recover") \/ Recovered
    \/ BeginAttempt \/ AttemptFails \/ Exhausted
    \/ Raise \/ Finally \/ Publish

StrangerComes ==
    /\ ~PortOpen
    /\ strangers < MaxStrangers
    /\ stranger' = TRUE
    /\ strangers' = strangers + 1
    /\ UNCHANGED <<drill, pc, failed, tracker, left, parts, evidence, fresh>>

StrangerLeaves ==
    /\ stranger
    /\ stranger' = FALSE
    /\ UNCHANGED <<drill, pc, failed, tracker, left, parts, strangers, evidence, fresh>>

Next == DrillStep \/ ServerCrashes \/ FrameArrives \/ StrangerComes \/ StrangerLeaves

Spec == Init /\ [][Next]_vars

\* Every wait of a drill has a timeout.
FairSpec == Spec /\ WF_vars(DrillStep)

-----------------------------------------------------------------------------
Trackers ==
    [state : {"DISCONNECTED", "CONNECTING", "STREAMING", "RECONNECTING", "FAILED"},
     connections : 0 .. MaxAttempts + 1, reconnects : 0 .. MaxAttempts,
     budget : 0 .. MaxAttempts, healthy : 0 .. HealthyFrames,
     received : 0 .. InitialFrames + MaxBuffered + HealthyFrames,
     events : 0 .. MaxAttempts + 1,
     backoff : {0} \cup {Backoff(n) : n \in 1 .. MaxAttempts}]

\* Types of the state.
TypeOK ==
    /\ drill \in {"recovery", "exhaustion"}
    /\ pc \in {"start", "connect", "initial", "stop", "detect", "backoff", "restart",
              "reconnect", "recover", "attempt", "offline", "finally", "verify", "ended"}
    /\ failed \in BOOLEAN
    /\ tracker \in Trackers
    /\ left \in 0 .. InitialFrames + HealthyFrames
    /\ server \in {"none", "up", "dead"}
    /\ orphan \in BOOLEAN
    /\ client \in {"none", "playing"}
    /\ buffered \in 0 .. MaxBuffered
    /\ stranger \in BOOLEAN
    /\ strangers \in 0 .. MaxStrangers
    /\ evidence \in {"none", "recovered", "exhausted"}
    /\ fresh \in Nat

\* The retry budget counts the reconnects since it was last given back, and it is
\* given back only after HealthyFrames frames since the last reconnect: frames of
\* the healthy phase, or under way when the server stopped, do not help.
BudgetTellsReconnects ==
    /\ tracker.healthy = IF tracker.budget > 0 THEN fresh ELSE 0
    /\ \/ tracker.budget = tracker.reconnects
       \/ tracker.budget = 0 /\ fresh >= HealthyFrames

\* The back-off gauge shows the wait of the current reconnect, and nothing once the
\* stream is up again or given up.
GaugeTellsWait ==
    /\ tracker.state \in {"STREAMING", "FAILED"} => tracker.backoff = 0
    /\ tracker.backoff > 0 => tracker.backoff = Backoff(tracker.reconnects)

\* The two metrics the operator watches during a drill.
MetricsTellTheTruth == BudgetTellsReconnects /\ GaugeTellsWait

\* Evidence of recovery means one interruption, one reconnect and a stream that
\* earned its budget back.  Evidence of exhaustion means the whole budget was spent
\* without a frame, and that the drill left nothing that could reconnect.
EvidenceTellsTheTruth ==
    /\ evidence = "recovered" =>
        /\ tracker.state = "STREAMING" /\ tracker.budget = 0 /\ tracker.backoff = 0
        /\ tracker.events = 1 /\ fresh >= HealthyFrames
    /\ evidence = "exhausted" =>
        /\ tracker.state = "FAILED" /\ tracker.budget = MaxAttempts
        /\ tracker.events = 1 + MaxAttempts /\ fresh = 0
        /\ server = "none" /\ client = "none" /\ ~orphan

\* However a drill ends, its pipeline is stopped and its server is gone, unless the
\* server outlived a start that failed; then there is no evidence.
NothingLeftRunning ==
    pc = "ended" => server = "none" /\ client = "none" /\ (orphan => evidence = "none")

\* A drill ends whatever the network does.
DrillEnds == <>(pc = "ended")

=============================================================================
