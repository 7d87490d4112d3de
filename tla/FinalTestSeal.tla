---------------------------- MODULE FinalTestSeal ----------------------------
(***************************************************************************)
(* The YOLO final test: an evaluation of the frozen candidate on the       *)
(* sealed test split that may happen once.  The only lock is a directory:  *)
(* a run reserves the canonical namespace by an atomic rename, tells in    *)
(* run_state.json how far it has come, and publishes its evidence by a     *)
(* second rename.  Runs race with each other, crash at any step, meet a    *)
(* disk that refuses a write and trust anchors that change meanwhile; an   *)
(* operator removes a namespace whose marker permits it.                   *)
(*                                                                         *)
(* A write of run_state.json is one step: _write_atomic replaces the file. *)
(***************************************************************************)
EXTENDS Integers, FiniteSets

CONSTANTS
    Runs,           \* executions of the command, each a process of its own
    MaxDrift,       \* bound: how often a trust anchor changes
    OperatorWaits,  \* the operator removes a namespace only when no run is alive
    None            \* an absent directory, an absent evidence

ASSUME SealAssumption ==
    /\ MaxDrift \in Nat
    /\ OperatorWaits \in BOOLEAN

VARIABLES
    anchors,    \* version of manifest, package, configs, dataset manifest and Git commit
    out,        \* the canonical namespace directory, or None
    starting,   \* the hidden .starting directory, or None
    pc,         \* where each run is
    planned,    \* the anchors each run's preflight recorded
    opened,     \* history: runs whose evaluator was called
    seen        \* history: the anchors and artifact each evaluator worked with

vars == <<anchors, out, starting, pc, planned, opened, seen>>

Versions  == 0 .. MaxDrift
Evidence  == [run : Runs, anchors : Versions]
Cleanable == {"READY", "PREPARATION_FAILED"}                 \* cleanup_permitted
Marked    == Cleanable \cup {"RUNNING", "FINAL_TEST_FAILED", "FINAL_TEST_COMPLETED"}
Artifacts == {"absent", "intact", "changed"}
Directory == [state : Marked \cup {"unmarked"}, artifact : Artifacts,
              staging : BOOLEAN, completed : Evidence \cup {None}]

ASSUME NoneAssumption == None \notin Evidence /\ None \notin Directory

Active == {"prepared", "reserving", "mkdir", "marking", "renaming", "materializing",
           "unlocking", "unprepared", "authorizing", "calling", "evaluating", "checking",
           "staging", "publishing", "completing", "failing"}
Pcs    == Active \cup {"idle", "ended", "crashed"}

EmptyDirectory ==
    [state |-> "unmarked", artifact |-> "absent", staging |-> FALSE, completed |-> None]

\* mkdir(parents=True, exist_ok=True): a removed directory comes back, empty.
Existing(dir) == IF dir = None THEN EmptyDirectory ELSE dir

Init ==
    /\ anchors = 0
    /\ out = None
    /\ starting = None
    /\ pc = [r \in Runs |-> "idle"]
    /\ planned = [r \in Runs |-> 0]
    /\ opened = {}
    /\ seen = [r \in Runs |-> {}]

Files    == <<out, starting>>
History  == <<opened, seen>>

Go(r, from, to) ==
    /\ pc[r] = from
    /\ pc' = [pc EXCEPT ![r] = to]

\* A step that only decides where the run continues.
Decide(r, from, to) == Go(r, from, to) /\ UNCHANGED <<anchors, Files, planned, History>>

\* A step of run r on the canonical namespace.
OnNamespace(r, from, to) == Go(r, from, to) /\ UNCHANGED <<anchors, starting, planned, History>>

\* _write_run_state on the canonical namespace.
WriteState(r, from, to, marker) ==
    /\ OnNamespace(r, from, to)
    /\ out' = [Existing(out) EXCEPT !.state = marker]

-----------------------------------------------------------------------------
(* Preflight and reservation                                               *)

Unclaimed == out = None /\ starting = None

\* All anchors are hashed against their frozen identity and recorded.
Prepare(r) ==
    /\ Go(r, "idle", IF Unclaimed THEN "prepared" ELSE "ended")
    /\ planned' = [planned EXCEPT ![r] = anchors]
    /\ UNCHANGED <<anchors, Files, History>>

\* Without --confirm-final-test the command stops after the preflight.
NotConfirmed(r) == Decide(r, "prepared", "ended")

Valid(r) == anchors = planned[r]

Confirmed(r) == Decide(r, "prepared", IF Valid(r) THEN "reserving" ELSE "ended")

CheckUnclaimed(r) == Decide(r, "reserving", IF Unclaimed THEN "mkdir" ELSE "ended")

MakeStarting(r) ==
    /\ Go(r, "mkdir", IF starting = None THEN "marking" ELSE "ended")
    /\ starting' = IF starting = None THEN EmptyDirectory ELSE starting
    /\ UNCHANGED <<anchors, out, planned, History>>

\* A failed write leaves the reservation behind: it is outside the try block.
MarkReady(r) ==
    \/ Decide(r, "marking", "ended")
    \/ /\ Go(r, "marking", "renaming")
       /\ starting' = [Existing(starting) EXCEPT !.state = "READY"]
       /\ UNCHANGED <<anchors, out, planned, History>>

\* Mutant: the rename replaces a namespace that is already there.
ReserveOver(r) ==
    /\ Go(r, "renaming", "materializing")
    /\ starting # None
    /\ out' = starting
    /\ starting' = None
    /\ UNCHANGED <<anchors, planned, History>>

\* rename() refuses a target that is not empty, and a namespace never is.
Reserve(r) ==
    /\ Go(r, "renaming", "materializing")
    /\ starting # None
    /\ out = None
    /\ out' = starting
    /\ starting' = None
    /\ UNCHANGED <<anchors, planned, History>>

ReserveFails(r) ==
    /\ Go(r, "renaming", "ended")
    /\ starting' = None
    /\ UNCHANGED <<anchors, out, planned, History>>

-----------------------------------------------------------------------------
(* READY: the artifact is unpacked and verified; the test split is sealed  *)

Materialize(r) ==
    \/ Decide(r, "materializing", "unprepared")
    \/ /\ Existing(out).artifact = "absent"
       /\ OnNamespace(r, "materializing", "unlocking")
       /\ out' = [Existing(out) EXCEPT !.artifact = "intact"]

ArtifactIntact == out # None /\ out.artifact = "intact"

Unlock(r) ==
    Decide(r, "unlocking", IF ArtifactIntact /\ Valid(r) THEN "authorizing" ELSE "unprepared")

MarkPreparationFailed(r) ==
    \/ Decide(r, "unprepared", "ended")
    \/ WriteState(r, "unprepared", "ended", "PREPARATION_FAILED")

\* Mutant: the evaluator is called under the READY marker.
MarkNothing(r) == Decide(r, "authorizing", "calling")

\* The marker is on disk before the evaluator is called.
MarkRunning(r) ==
    \/ Decide(r, "authorizing", "ended")
    \/ WriteState(r, "authorizing", "calling", "RUNNING")

-----------------------------------------------------------------------------
(* RUNNING: the evaluator reads the test split                             *)

\* What the evaluator finds when it opens the dataset and the model.
Sight == [anchors |-> anchors, artifact |-> Existing(out).artifact]

CallEvaluator(r) ==
    /\ Go(r, "calling", "evaluating")
    /\ opened' = opened \cup {r}
    /\ seen' = [seen EXCEPT ![r] = @ \cup {Sight}]
    /\ UNCHANGED <<anchors, Files, planned>>

EvaluatorReturns(r) ==
    /\ Go(r, "evaluating", "checking")
    /\ seen' = [seen EXCEPT ![r] = @ \cup {Sight}]
    /\ UNCHANGED <<anchors, Files, planned, opened>>

EvaluatorRaises(r) == Decide(r, "evaluating", "failing")

\* Mutant: after the evaluator only the artifact is verified again.
RecheckArtifact(r) ==
    Decide(r, "checking", IF ArtifactIntact THEN "staging" ELSE "failing")

Recheck(r) ==
    Decide(r, "checking", IF ArtifactIntact /\ Valid(r) THEN "staging" ELSE "failing")

MakeCompletionStaging(r) ==
    \/ Decide(r, "staging", "failing")
    \/ /\ out # None
       /\ ~out.staging
       /\ OnNamespace(r, "staging", "publishing")
       /\ out' = [out EXCEPT !.staging = TRUE]

\* Result and ZIP are written in the staging directory, then it is renamed.
PublishCompleted(r) ==
    \/ Decide(r, "publishing", "failing")
    \/ /\ out # None
       /\ out.staging
       /\ out.completed = None
       /\ OnNamespace(r, "publishing", "completing")
       /\ out' = [out EXCEPT !.staging = FALSE,
                             !.completed = [run |-> r, anchors |-> planned[r]]]

MarkCompleted(r) ==
    \/ Decide(r, "completing", "failing")
    \/ WriteState(r, "completing", "ended", "FINAL_TEST_COMPLETED")

\* The except block: published evidence wins over the error.
Fail(r) ==
    \/ /\ ~Existing(out).staging
       /\ Decide(r, "failing", "ended")
    \/ /\ OnNamespace(r, "failing", "ended")
       /\ out' = IF Existing(out).completed # None
                 THEN [out EXCEPT !.state = "FINAL_TEST_COMPLETED"]
                 ELSE [Existing(out) EXCEPT !.staging = FALSE, !.state = "FINAL_TEST_FAILED"]
    \/ /\ out # None
       /\ out.completed = None
       /\ OnNamespace(r, "failing", "ended")
       /\ out' = [out EXCEPT !.staging = FALSE]

-----------------------------------------------------------------------------
(* The world around the runs                                               *)

Crash(r) == pc[r] \in Active /\ Decide(r, pc[r], "crashed")

\* An anchor file is edited, or another commit is checked out, for good.
Drift ==
    /\ anchors < MaxDrift
    /\ anchors' = anchors + 1
    /\ UNCHANGED <<Files, pc, planned, History>>

ArtifactChanges ==
    /\ ArtifactIntact
    /\ out' = [out EXCEPT !.artifact = "changed"]
    /\ UNCHANGED <<anchors, starting, pc, planned, History>>

OperatorMayAct == OperatorWaits => \A r \in Runs : pc[r] \notin Active

RemoveNamespace ==
    /\ OperatorMayAct
    /\ out # None
    /\ out.state \in Cleanable
    /\ out.completed = None
    /\ out' = None
    /\ UNCHANGED <<anchors, starting, pc, planned, History>>

RemoveReservation ==
    /\ OperatorMayAct
    /\ starting # None
    /\ starting.state = "READY"
    /\ starting' = None
    /\ UNCHANGED <<anchors, out, pc, planned, History>>

RunStep(r) ==
    \/ Prepare(r) \/ NotConfirmed(r) \/ Confirmed(r)
    \/ CheckUnclaimed(r) \/ MakeStarting(r) \/ MarkReady(r) \/ Reserve(r) \/ ReserveFails(r)
    \/ Materialize(r) \/ Unlock(r) \/ MarkPreparationFailed(r) \/ MarkRunning(r)
    \/ CallEvaluator(r) \/ EvaluatorReturns(r) \/ EvaluatorRaises(r) \/ Recheck(r)
    \/ MakeCompletionStaging(r) \/ PublishCompleted(r) \/ MarkCompleted(r) \/ Fail(r)
    \/ Crash(r)

Next == \/ \E r \in Runs : RunStep(r)
        \/ Drift \/ ArtifactChanges \/ RemoveNamespace \/ RemoveReservation

Spec == Init /\ [][Next]_vars

-----------------------------------------------------------------------------
\* Types of the state.
TypeOK ==
    /\ anchors \in Versions
    /\ out \in Directory \cup {None}
    /\ starting \in Directory \cup {None}
    /\ pc \in [Runs -> Pcs]
    /\ planned \in [Runs -> Versions]
    /\ opened \in SUBSET Runs
    /\ seen \in [Runs -> SUBSET [anchors : Versions, artifact : Artifacts]]

\* The evaluator is called by one run at most, whatever races, crashes and
\* permitted removals there were (the purpose of _reserve_output_namespace).
OneTimeAccess == \A r, s \in opened : r = s

\* The lifecycle flags of run_state.json tell the truth: a marker that permits
\* cleanup means nobody has seen the test split, a failed run left no evidence,
\* COMPLETED means the evidence is there, and once the split has been opened
\* the namespace stays, so that no later run starts.
FlagsTellTheTruth ==
    /\ opened # {} => out # None /\ out.state \notin Cleanable
    /\ starting # None => starting.completed = None /\ starting.state \in {"unmarked", "READY"}
    /\ out # None =>
        /\ out.state = "FINAL_TEST_COMPLETED" => out.completed # None
        /\ out.state = "FINAL_TEST_FAILED" => out.completed = None /\ opened # {}
        /\ out.completed # None => out.state \in {"RUNNING", "FINAL_TEST_COMPLETED"}

\* Published evidence names the anchors its evaluator worked with, from its
\* first read to its last, and the verified artifact.
EvidenceTellsTheTruth ==
    (out # None /\ out.completed # None) =>
        LET e == out.completed IN
        seen[e.run] = {[anchors |-> e.anchors, artifact |-> "intact"]}

Promise == INSTANCE SealPromise
    WITH Anchors <- Versions, evidence <- Existing(out).completed

\* Files, markers and renames implement the one-way seal: at most one opening,
\* at most one evidence, by that run, never replaced and never removed.
ImplementsPromise == Promise!Spec

=============================================================================
