------------------------- MODULE FinalTestSealProofs -------------------------
(***************************************************************************)
(* The seal of the final test, for any number of runs, any drift of the    *)
(* anchors and any crashes: the test split is opened for one run at most,  *)
(* provided the operator removes a namespace only while no run is alive.   *)
(*                                                                         *)
(* The argument: from its rename on a run holds the namespace.  There is   *)
(* one holder at most, because a rename needs an absent namespace, and a   *)
(* holder's namespace is there, because removal waits for the holder.      *)
(* While the holder has not called its evaluator nobody has; afterwards    *)
(* the marker forbids removal, so the namespace is there for ever and no   *)
(* later rename succeeds.                                                  *)
(*                                                                         *)
(* The evidence: the anchors only move on and a changed artifact does not  *)
(* heal, so a run that finds both as planned after its evaluator knows     *)
(* what the evaluator saw.                                                 *)
(***************************************************************************)
EXTENDS FinalTestSeal, TLAPS

\* Where a run holds the namespace, before and after its evaluator is called.
Sealed  == {"materializing", "unlocking", "unprepared", "authorizing", "calling"}
Beyond  == {"evaluating", "checking", "staging", "publishing", "completing", "failing"}
Holding == Sealed \cup Beyond

OneHolder == \A r, s \in Runs : pc[r] \in Holding /\ pc[s] \in Holding => r = s

HolderHasNamespace == \A r \in Runs : pc[r] \in Holding => out # None

SealedMeansUnopened == \A r \in Runs : pc[r] \in Sealed => opened = {}

BeyondMeansOpened == \A r \in Runs : pc[r] \in Beyond => opened = {r}

\* From the announcement to the last marker the namespace says RUNNING.
RunningIsAnnounced ==
    \A r \in Runs : pc[r] \in {"calling"} \cup Beyond => out.state = "RUNNING"

\* The evidence appears with the rename, neither sooner nor later.
EvidenceIsLate ==
    \A r \in Runs :
        /\ pc[r] \in Sealed \cup {"evaluating", "checking", "staging", "publishing"}
              => out.completed = None
        /\ pc[r] = "completing" => out.completed # None

EvidenceHasAuthor == out # None /\ out.completed # None => out.completed.run \in opened

SealInv ==
    /\ TypeOK
    /\ OneHolder
    /\ HolderHasNamespace
    /\ SealedMeansUnopened
    /\ BeyondMeansOpened
    /\ RunningIsAnnounced
    /\ EvidenceIsLate
    /\ EvidenceHasAuthor
    /\ FlagsTellTheTruth
    /\ OneTimeAccess

-----------------------------------------------------------------------------
\* A directory with some of its fields replaced is a directory.
LEMMA DirectoryUpdates ==
    ASSUME NEW d \in Directory
    PROVE  /\ [d EXCEPT !.staging = FALSE] \in Directory
           /\ \A m \in Marked : /\ [d EXCEPT !.state = m] \in Directory
                               /\ [d EXCEPT !.staging = FALSE, !.state = m] \in Directory
           /\ \A c \in Evidence :
                [d EXCEPT !.staging = FALSE, !.completed = c] \in Directory
BY DEF Directory

LEMMA ExistingIsDirectory ==
    ASSUME out \in Directory \cup {None} PROVE Existing(out) \in Directory
BY DEF Existing, EmptyDirectory, Directory, Artifacts

\* Every action keeps the state in its types, for any number of runs and any drift
\* (the flags, markers and directories execute_yolo_final_test works with).
LEMMA TypeStep == ASSUME TypeOK, [Next]_vars PROVE TypeOK'
<1> USE SealAssumption, NoneAssumption
         DEF TypeOK, Pcs, Active, Directory, Evidence, Versions, Marked, Cleanable, Artifacts,
             Files, History
<1>1. ASSUME NEW r \in Runs, Prepare(r) PROVE TypeOK'
  BY <1>1 DEF Prepare, Go, Unclaimed
<1>2. ASSUME NEW r \in Runs, NotConfirmed(r) PROVE TypeOK'
  BY <1>2 DEF NotConfirmed, Decide, Go
<1>3. ASSUME NEW r \in Runs, Confirmed(r) PROVE TypeOK'
  BY <1>3 DEF Confirmed, Decide, Go
<1>4. ASSUME NEW r \in Runs, CheckUnclaimed(r) PROVE TypeOK'
  BY <1>4 DEF CheckUnclaimed, Decide, Go
<1>5. ASSUME NEW r \in Runs, MakeStarting(r) PROVE TypeOK'
  BY <1>5 DEF MakeStarting, Go, EmptyDirectory
<1>6. ASSUME NEW r \in Runs, MarkReady(r) PROVE TypeOK'
  BY <1>6 DEF MarkReady, Decide, Go, Existing, EmptyDirectory
<1>7. ASSUME NEW r \in Runs, Reserve(r) PROVE TypeOK'
  BY <1>7 DEF Reserve, Go
<1>8. ASSUME NEW r \in Runs, ReserveFails(r) PROVE TypeOK'
  BY <1>8 DEF ReserveFails, Go
<1>9. ASSUME NEW r \in Runs, Materialize(r) PROVE TypeOK'
  BY <1>9 DEF Materialize, Decide, OnNamespace, Go, Existing, EmptyDirectory
<1>10. ASSUME NEW r \in Runs, Unlock(r) PROVE TypeOK'
  BY <1>10 DEF Unlock, Decide, Go
<1>11. ASSUME NEW r \in Runs, MarkPreparationFailed(r) PROVE TypeOK'
  BY <1>11 DEF MarkPreparationFailed, Decide, WriteState, OnNamespace, Go, Existing, EmptyDirectory
<1>12. ASSUME NEW r \in Runs, MarkRunning(r) PROVE TypeOK'
  BY <1>12 DEF MarkRunning, Decide, WriteState, OnNamespace, Go, Existing, EmptyDirectory
<1>13. ASSUME NEW r \in Runs, CallEvaluator(r) PROVE TypeOK'
  BY <1>13 DEF CallEvaluator, Go, Sight, Existing, EmptyDirectory
<1>14. ASSUME NEW r \in Runs, EvaluatorReturns(r) PROVE TypeOK'
  BY <1>14 DEF EvaluatorReturns, Go, Sight, Existing, EmptyDirectory
<1>15. ASSUME NEW r \in Runs, EvaluatorRaises(r) PROVE TypeOK'
  BY <1>15 DEF EvaluatorRaises, Decide, Go
<1>16. ASSUME NEW r \in Runs, Recheck(r) PROVE TypeOK'
  BY <1>16 DEF Recheck, Decide, Go
<1>17. ASSUME NEW r \in Runs, MakeCompletionStaging(r) PROVE TypeOK'
  BY <1>17 DEF MakeCompletionStaging, Decide, OnNamespace, Go
<1>18. ASSUME NEW r \in Runs, PublishCompleted(r) PROVE TypeOK'
  <2>1. CASE Decide(r, "publishing", "failing")
    BY <2>1 DEF Decide, Go
  <2>2. CASE /\ out # None
             /\ OnNamespace(r, "publishing", "completing")
             /\ out' = [out EXCEPT !.staging = FALSE,
                                   !.completed = [run |-> r, anchors |-> planned[r]]]
    <3> HIDE DEF Directory, Evidence
    <3>1. [run |-> r, anchors |-> planned[r]] \in Evidence
      BY DEF Evidence
    <3>2. out' \in Directory
      BY <2>2, <3>1, DirectoryUpdates
    <3>3. UNCHANGED <<anchors, starting, planned, opened, seen>> /\ pc' \in [Runs -> Pcs]
      BY <2>2 DEF OnNamespace, Go
    <3> QED  BY <3>2, <3>3
  <2> QED  BY <1>18, <2>1, <2>2 DEF PublishCompleted
<1>19. ASSUME NEW r \in Runs, MarkCompleted(r) PROVE TypeOK'
  BY <1>19 DEF MarkCompleted, Decide, WriteState, OnNamespace, Go, Existing, EmptyDirectory
<1>20. ASSUME NEW r \in Runs, Fail(r) PROVE TypeOK'
  <2>1. CASE Decide(r, "failing", "ended")
    BY <2>1 DEF Decide, Go
  <2>2. CASE /\ OnNamespace(r, "failing", "ended")
             /\ \/ out' = [out EXCEPT !.state = "FINAL_TEST_COMPLETED"] /\ out # None
                \/ out' = [Existing(out) EXCEPT !.staging = FALSE, !.state = "FINAL_TEST_FAILED"]
                \/ out' = [out EXCEPT !.staging = FALSE] /\ out # None
    <3> HIDE DEF Directory, Marked
    <3>1. "FINAL_TEST_COMPLETED" \in Marked /\ "FINAL_TEST_FAILED" \in Marked
      BY DEF Marked
    <3>2. Existing(out) \in Directory
      BY ExistingIsDirectory
    <3>3. [Existing(out) EXCEPT !.staging = FALSE, !.state = "FINAL_TEST_FAILED"] \in Directory
      BY <3>1, <3>2, DirectoryUpdates
    <3>4. out # None => /\ [out EXCEPT !.state = "FINAL_TEST_COMPLETED"] \in Directory
                        /\ [out EXCEPT !.staging = FALSE] \in Directory
      BY <3>1, DirectoryUpdates
    <3>5. out' \in Directory
      BY <2>2, <3>3, <3>4
    <3>6. UNCHANGED <<anchors, starting, planned, opened, seen>> /\ pc' \in [Runs -> Pcs]
      BY <2>2 DEF OnNamespace, Go
    <3> QED  BY <3>5, <3>6
  <2>3. Existing(out).completed # None => out # None
    BY DEF Existing, EmptyDirectory
  <2> QED  BY <1>20, <2>1, <2>2, <2>3 DEF Fail
<1>21. ASSUME NEW r \in Runs, Crash(r) PROVE TypeOK'
  BY <1>21 DEF Crash, Decide, Go
<1>22. ASSUME Drift PROVE TypeOK'
  BY <1>22 DEF Drift
<1>23. ASSUME ArtifactChanges PROVE TypeOK'
  BY <1>23 DEF ArtifactChanges, ArtifactIntact
<1>24. ASSUME RemoveNamespace PROVE TypeOK'
  BY <1>24 DEF RemoveNamespace
<1>25. ASSUME RemoveReservation PROVE TypeOK'
  BY <1>25 DEF RemoveReservation
<1>26. ASSUME UNCHANGED vars PROVE TypeOK'
  BY <1>26 DEF vars
<1> QED
  BY <1>1, <1>2, <1>3, <1>4, <1>5, <1>6, <1>7, <1>8, <1>9, <1>10, <1>11, <1>12, <1>13, <1>14, <1>15, <1>16, <1>17, <1>18, <1>19, <1>20, <1>21, <1>22, <1>23, <1>24, <1>25, <1>26 DEF Next, RunStep

\* Which fields a directory made anew has.
LEMMA ExistingFields ==
    /\ Existing(out).completed = IF out = None THEN None ELSE out.completed
    /\ Existing(out).state = IF out = None THEN "unmarked" ELSE out.state
BY DEF Existing, EmptyDirectory

\* The seal is inductive, if the operator waits for live runs: what reserving by rename,
\* announcing RUNNING and refusing cleanup achieve together.
LEMMA SealStep == ASSUME SealInv, [Next]_vars, OperatorWaits PROVE SealInv'
<1> USE NoneAssumption
         DEF SealInv, OneHolder, HolderHasNamespace, SealedMeansUnopened, BeyondMeansOpened,
             RunningIsAnnounced, EvidenceIsLate, EvidenceHasAuthor, FlagsTellTheTruth,
             OneTimeAccess, Holding, Sealed, Beyond, Cleanable, Files, History
<1>t. TypeOK'
  BY TypeStep DEF SealInv
<1>p. pc \in [Runs -> Pcs] /\ opened \in SUBSET Runs
  BY DEF TypeOK
<1>e. Existing(out) \in Directory
  BY ExistingIsDirectory DEF TypeOK
<1>v. planned \in [Runs -> Versions]
  BY DEF TypeOK
<1>d. /\ out # None => out \in Directory
      /\ starting # None => starting \in Directory
      /\ Directory \cap {None} = {}
  BY DEF TypeOK
<1>1. ASSUME NEW r \in Runs, Prepare(r) PROVE SealInv'
  BY <1>1, <1>t, <1>p, <1>d DEF Prepare, Go, Unclaimed, Directory
<1>2. ASSUME NEW r \in Runs, NotConfirmed(r) PROVE SealInv'
  BY <1>2, <1>t, <1>p, <1>d DEF NotConfirmed, Decide, Go, Directory
<1>3. ASSUME NEW r \in Runs, Confirmed(r) PROVE SealInv'
  BY <1>3, <1>t, <1>p, <1>d DEF Confirmed, Decide, Go, Directory
<1>4. ASSUME NEW r \in Runs, CheckUnclaimed(r) PROVE SealInv'
  BY <1>4, <1>t, <1>p, <1>d DEF CheckUnclaimed, Decide, Go, Directory
<1>5. ASSUME NEW r \in Runs, MakeStarting(r) PROVE SealInv'
  BY <1>5, <1>t, <1>p, <1>d DEF MakeStarting, Go, EmptyDirectory, Directory
<1>6. ASSUME NEW r \in Runs, MarkReady(r) PROVE SealInv'
  BY <1>6, <1>t, <1>p, <1>d DEF MarkReady, Decide, Go, Existing, EmptyDirectory, Directory
<1>7. ASSUME NEW r \in Runs, Reserve(r) PROVE SealInv'
  BY <1>7, <1>t, <1>p, <1>d DEF Reserve, Go, Directory
<1>8. ASSUME NEW r \in Runs, ReserveFails(r) PROVE SealInv'
  BY <1>8, <1>t, <1>p, <1>d DEF ReserveFails, Go, Directory
<1>9. ASSUME NEW r \in Runs, Materialize(r) PROVE SealInv'
  <2>1. CASE Decide(r, "materializing", "unprepared")
    BY <1>9, <2>1, <1>t, <1>p DEF Decide, Go
  <2>2. CASE OnNamespace(r, "materializing", "unlocking") /\ out' = [Existing(out) EXCEPT !.artifact = "intact"]
    <3>1. out' # None /\ out'.completed = Existing(out).completed /\ out'.state = Existing(out).state
      BY <2>2, <1>e, <1>d, <1>v DEF Directory, Marked, Artifacts, Evidence
    <3> QED  BY <2>2, <3>1, <1>t, <1>p, ExistingFields DEF SealInv, OnNamespace, Go
  <2> QED  BY <1>9, <2>1, <2>2 DEF Materialize
<1>10. ASSUME NEW r \in Runs, Unlock(r) PROVE SealInv'
  BY <1>10, <1>t, <1>p, <1>d DEF Unlock, Decide, Go, Directory
<1>11. ASSUME NEW r \in Runs, MarkPreparationFailed(r) PROVE SealInv'
  BY <1>11, <1>t, <1>p, <1>d DEF MarkPreparationFailed, Decide, WriteState, OnNamespace, Go, Existing, EmptyDirectory, Directory
<1>12. ASSUME NEW r \in Runs, MarkRunning(r) PROVE SealInv'
  <2>1. CASE Decide(r, "authorizing", "ended")
    BY <1>12, <2>1, <1>t, <1>p DEF Decide, Go
  <2>2. CASE OnNamespace(r, "authorizing", "calling") /\ out' = [Existing(out) EXCEPT !.state = "RUNNING"]
    <3>1. out' # None /\ out'.completed = Existing(out).completed /\ out'.state = "RUNNING"
      BY <2>2, <1>e, <1>d, <1>v DEF Directory, Marked, Artifacts, Evidence
    <3> QED  BY <2>2, <3>1, <1>t, <1>p, ExistingFields DEF SealInv, OnNamespace, Go
  <2> QED  BY <1>12, <2>1, <2>2 DEF MarkRunning, WriteState
<1>13. ASSUME NEW r \in Runs, CallEvaluator(r) PROVE SealInv'
  BY <1>13, <1>t, <1>p, <1>d DEF CallEvaluator, Go, Sight, Existing, EmptyDirectory, Directory
<1>14. ASSUME NEW r \in Runs, EvaluatorReturns(r) PROVE SealInv'
  BY <1>14, <1>t, <1>p, <1>d DEF EvaluatorReturns, Go, Sight, Existing, EmptyDirectory, Directory
<1>15. ASSUME NEW r \in Runs, EvaluatorRaises(r) PROVE SealInv'
  BY <1>15, <1>t, <1>p, <1>d DEF EvaluatorRaises, Decide, Go, Directory
<1>16. ASSUME NEW r \in Runs, Recheck(r) PROVE SealInv'
  BY <1>16, <1>t, <1>p, <1>d DEF Recheck, Decide, Go, Directory
<1>17. ASSUME NEW r \in Runs, MakeCompletionStaging(r) PROVE SealInv'
  <2>1. CASE Decide(r, "staging", "failing")
    BY <1>17, <2>1, <1>t, <1>p DEF Decide, Go
  <2>2. CASE OnNamespace(r, "staging", "publishing") /\ out # None /\ out' = [out EXCEPT !.staging = TRUE]
    <3>1. out' # None /\ out'.completed = out.completed /\ out'.state = out.state
      BY <2>2, <1>d DEF Directory
    <3> QED  BY <2>2, <3>1, <1>t, <1>p, ExistingFields DEF SealInv, OnNamespace, Go
  <2> QED  BY <1>17, <2>1, <2>2 DEF MakeCompletionStaging
<1>18. ASSUME NEW r \in Runs, PublishCompleted(r) PROVE SealInv'
  <2>1. CASE Decide(r, "publishing", "failing")
    BY <1>18, <2>1, <1>t, <1>p DEF Decide, Go
  <2>2. CASE /\ out # None
             /\ OnNamespace(r, "publishing", "completing")
             /\ out' = [out EXCEPT !.staging = FALSE,
                                   !.completed = [run |-> r, anchors |-> planned[r]]]
    <3> HIDE DEF SealInv
    <3> DEFINE e == [run |-> r, anchors |-> planned[r]]
    <3>1. e \in Evidence /\ e.run = r
      BY <1>v DEF Evidence
    <3> HIDE DEF e
    <3>2. out' = [out EXCEPT !.staging = FALSE, !.completed = e]
      BY <2>2 DEF e
    <3>3. out' # None /\ out'.completed = e /\ out'.state = out.state
      BY <2>2, <3>1, <3>2, <1>d DEF Directory
    <3> QED  BY <2>2, <3>1, <3>3, <1>t, <1>p DEF SealInv, OnNamespace, Go
  <2> QED  BY <1>18, <2>1, <2>2 DEF PublishCompleted
<1>19. ASSUME NEW r \in Runs, MarkCompleted(r) PROVE SealInv'
  <2>1. CASE Decide(r, "completing", "failing")
    BY <1>19, <2>1, <1>t, <1>p DEF Decide, Go
  <2>2. CASE OnNamespace(r, "completing", "ended") /\ out' = [Existing(out) EXCEPT !.state = "FINAL_TEST_COMPLETED"]
    <3>1. out' # None /\ out'.completed = Existing(out).completed /\ out'.state = "FINAL_TEST_COMPLETED"
      BY <2>2, <1>e, <1>d, <1>v DEF Directory, Marked, Artifacts, Evidence
    <3> QED  BY <2>2, <3>1, <1>t, <1>p, ExistingFields DEF SealInv, OnNamespace, Go
  <2> QED  BY <1>19, <2>1, <2>2 DEF MarkCompleted, WriteState
<1>20. ASSUME NEW r \in Runs, Fail(r) PROVE SealInv'
  <2>1. CASE Decide(r, "failing", "ended")
    BY <1>20, <2>1, <1>t, <1>p DEF Decide, Go
  <2>2. CASE OnNamespace(r, "failing", "ended") /\ ~Decide(r, "failing", "ended")
    <3>1. out # None /\ out \in Directory
      BY <2>2, <1>p, <1>d DEF OnNamespace, Go
    <3>2. Existing(out) = out
      BY <3>1 DEF Existing
    <3> HIDE DEF SealInv
    <3>3. /\ out' # None
          /\ out'.completed = out.completed
          /\ \/ out'.state = out.state
             \/ out'.state = "FINAL_TEST_COMPLETED" /\ out.completed # None
             \/ out'.state = "FINAL_TEST_FAILED" /\ out.completed = None
      <4>1. CASE /\ out.completed # None
                 /\ out' = [out EXCEPT !.state = "FINAL_TEST_COMPLETED"]
        BY <4>1, <3>1 DEF Directory, Marked
      <4>2. CASE /\ out.completed = None
                 /\ out' = [out EXCEPT !.staging = FALSE, !.state = "FINAL_TEST_FAILED"]
        BY <4>2, <3>1 DEF Directory, Marked
      <4>3. CASE out' = [out EXCEPT !.staging = FALSE]
        BY <4>3, <3>1 DEF Directory
      <4> QED  BY <1>20, <2>2, <3>2, <4>1, <4>2, <4>3 DEF Fail
    <3> QED  BY <2>2, <3>1, <3>3, <1>t, <1>p DEF SealInv, OnNamespace, Go
  <2> QED  BY <1>20, <2>1, <2>2 DEF Fail
<1>21. ASSUME NEW r \in Runs, Crash(r) PROVE SealInv'
  BY <1>21, <1>t, <1>p, <1>d DEF Crash, Decide, Go, Active, Directory
<1>22. ASSUME Drift PROVE SealInv'
  BY <1>22, <1>t, <1>p, <1>d DEF Drift, Directory
<1>23. ASSUME ArtifactChanges PROVE SealInv'
  <2>1. out # None /\ out' = [out EXCEPT !.artifact = "changed"]
    BY <1>23 DEF ArtifactChanges, ArtifactIntact
  <2> HIDE DEF SealInv
  <2>2. out' # None /\ out'.completed = out.completed /\ out'.state = out.state
    BY <2>1, <1>d DEF Directory, Artifacts
  <2> QED  BY <1>23, <2>1, <2>2, <1>t, <1>p DEF SealInv, ArtifactChanges
<1>24. ASSUME RemoveNamespace PROVE SealInv'
  BY <1>24, <1>t, <1>p, <1>d DEF RemoveNamespace, OperatorMayAct, Active, Directory
<1>25. ASSUME RemoveReservation PROVE SealInv'
  BY <1>25, <1>t, <1>p, <1>d DEF RemoveReservation, OperatorMayAct, Active, Directory
<1>26. ASSUME UNCHANGED vars PROVE SealInv'
  BY <1>26, <1>t DEF vars
<1> QED
  BY <1>1, <1>2, <1>3, <1>4, <1>5, <1>6, <1>7, <1>8, <1>9, <1>10, <1>11, <1>12, <1>13, <1>14, <1>15, <1>16, <1>17, <1>18, <1>19, <1>20, <1>21, <1>22, <1>23, <1>24, <1>25, <1>26 DEF Next, RunStep

-----------------------------------------------------------------------------
LEMMA SealInitially == Init => SealInv
BY SealAssumption
   DEF Init, SealInv, TypeOK, OneHolder, HolderHasNamespace, SealedMeansUnopened,
       BeyondMeansOpened, RunningIsAnnounced, EvidenceIsLate, EvidenceHasAuthor,
       FlagsTellTheTruth, OneTimeAccess, Holding, Sealed, Beyond, Pcs, Active, Versions

LEMMA SealAlways == ASSUME OperatorWaits PROVE Spec => []SealInv
<1>1. SealInv /\ [Next]_vars => SealInv'
  BY SealStep
<1> QED  BY SealInitially, <1>1, PTL DEF Spec

\* State, markers and directories stay well formed in every execution of
\* execute_yolo_final_test, whatever the operator does.
THEOREM SealTypes == Spec => []TypeOK
<1>1. Init => TypeOK
  BY SealInitially DEF SealInv
<1>2. TypeOK /\ [Next]_vars => TypeOK'
  BY TypeStep
<1> QED  BY <1>1, <1>2, PTL DEF Spec

\* Any number of runs that race, crash and meet failing writes call the evaluator of
\* the sealed test split once at most.
THEOREM SealHolds == ASSUME OperatorWaits PROVE Spec => []OneTimeAccess
<1>1. SealInv => OneTimeAccess
  BY DEF SealInv
<1> QED  BY SealAlways, <1>1, PTL

\* run_state.json never permits a cleanup after the test split was opened, and its
\* FAILED and COMPLETED markers agree with the published evidence.
THEOREM FlagsAreTrue == ASSUME OperatorWaits PROVE Spec => []FlagsTellTheTruth
<1>1. SealInv => FlagsTellTheTruth
  BY DEF SealInv
<1> QED  BY SealAlways, <1>1, PTL

-----------------------------------------------------------------------------
(* The evidence: what the evaluator saw from its first read to its last.   *)

\* Where a run has not called its evaluator yet.
Unopened == {"idle", "prepared", "reserving", "mkdir", "marking", "renaming"} \cup Sealed

\* From the second look at the anchors to the last marker.
Rechecked == {"staging", "publishing", "completing"}

NothingSeenYet == \A r \in Runs : pc[r] \in Unopened => seen[r] = {}

\* The anchors only move on, from the preflight over each sight to now.
SightsInOrder ==
    \A r \in Runs :
        /\ planned[r] <= anchors
        /\ \A s \in seen[r] : planned[r] <= s.anchors /\ s.anchors <= anchors

\* The holder unpacks its artifact once: from then on it never heals.
ArtifactStays ==
    \A r \in Runs :
        /\ pc[r] \in {"authorizing", "calling"} \cup Beyond => out.artifact # "absent"
        /\ pc[r] \in Beyond /\ out.artifact = "intact" =>
               seen[r] # {} /\ \A s \in seen[r] : s.artifact = "intact"

\* What the second look established stays true of the sights.
RecheckHolds ==
    \A r \in Runs :
        pc[r] \in Rechecked => seen[r] = {[anchors |-> planned[r], artifact |-> "intact"]}

\* The author of the evidence is past its evaluator.
AuthorIsPast ==
    out # None /\ out.completed # None =>
        pc[out.completed.run] \in {"completing", "failing", "ended", "crashed"}

EvidenceInv ==
    /\ NothingSeenYet
    /\ SightsInOrder
    /\ ArtifactStays
    /\ RecheckHolds
    /\ AuthorIsPast
    /\ EvidenceTellsTheTruth

\* Writes that leave the artifact and the evidence of the namespace alone.
SameDirectory ==
    \/ out' = out
    \/ /\ out # None /\ out' # None
       /\ out'.artifact = out.artifact
       /\ out'.completed = out.completed

\* The field a write replaces is the only one it touches.
LEMMA WritesTouchOneField ==
    ASSUME NEW d \in Directory
    PROVE  /\ \A m \in Marked : LET e == [d EXCEPT !.state = m] IN
                e # None /\ e.artifact = d.artifact /\ e.completed = d.completed
           /\ \A m \in Artifacts : LET e == [d EXCEPT !.artifact = m] IN
                e # None /\ e.artifact = m /\ e.completed = d.completed
           /\ \A m \in BOOLEAN : LET e == [d EXCEPT !.staging = m] IN
                e # None /\ e.artifact = d.artifact /\ e.completed = d.completed
           /\ \A m \in Marked : LET e == [d EXCEPT !.staging = FALSE, !.state = m] IN
                e # None /\ e.artifact = d.artifact /\ e.completed = d.completed
           /\ \A c \in Evidence : LET e == [d EXCEPT !.staging = FALSE, !.completed = c] IN
                e # None /\ e.artifact = d.artifact /\ e.completed = c
<1> USE NoneAssumption DEF Directory
<1>1. ASSUME NEW m \in Marked, NEW e, e = [d EXCEPT !.state = m]
      PROVE  e # None /\ e.artifact = d.artifact /\ e.completed = d.completed
  BY <1>1
<1>2. ASSUME NEW m \in Artifacts, NEW e, e = [d EXCEPT !.artifact = m]
      PROVE  e # None /\ e.artifact = m /\ e.completed = d.completed
  BY <1>2
<1>3. ASSUME NEW m \in BOOLEAN, NEW e, e = [d EXCEPT !.staging = m]
      PROVE  e # None /\ e.artifact = d.artifact /\ e.completed = d.completed
  BY <1>3
<1>4. ASSUME NEW m \in Marked, NEW e, e = [d EXCEPT !.staging = FALSE, !.state = m]
      PROVE  e # None /\ e.artifact = d.artifact /\ e.completed = d.completed
  BY <1>4
<1>5. ASSUME NEW c \in Evidence, NEW e, e = [d EXCEPT !.staging = FALSE, !.completed = c]
      PROVE  e # None /\ e.artifact = d.artifact /\ e.completed = c
  BY <1>5
<1> QED  BY <1>1, <1>2, <1>3, <1>4, <1>5, Zenon

\* A run may move on without looking at the sources: what it needs to know where it arrives.
LEMMA MovingOn ==
    ASSUME SealInv, EvidenceInv, SameDirectory, UNCHANGED <<anchors, planned, seen>>,
           NEW r \in Runs, NEW to, pc' = [pc EXCEPT ![r] = to],
           to \in Unopened => pc[r] \in Unopened,
           to \in Beyond => pc[r] \in Beyond,
           to \in {"authorizing", "calling"} =>
               out.artifact # "absent",
           to \in Rechecked =>
               seen[r] = {[anchors |-> planned[r], artifact |-> "intact"]},
           pc[r] \in {"completing", "failing", "ended", "crashed"} =>
               to \in {"completing", "failing", "ended", "crashed"}
    PROVE  EvidenceInv'
<1>p. pc \in [Runs -> Pcs] /\ seen' = seen /\ planned' = planned /\ anchors' = anchors
  BY DEF SealInv, TypeOK
<1>h. \A s \in Runs : pc[s] \in {"authorizing", "calling"} \cup Beyond => out # None
  BY DEF SealInv, HolderHasNamespace, Holding, Sealed, Beyond
<1>1. NothingSeenYet'
  BY <1>p DEF EvidenceInv, NothingSeenYet
<1>2. SightsInOrder'
  BY <1>p DEF EvidenceInv, SightsInOrder
<1>3. ArtifactStays'
  <2>1. \A s \in Runs : pc[s] \in {"authorizing", "calling"} \cup Beyond =>
            out'.artifact = out.artifact
    BY <1>h DEF SameDirectory
  <2>2. to \in {"authorizing", "calling"} \cup Beyond => out'.artifact # "absent"
    BY <2>1 DEF EvidenceInv, ArtifactStays, SameDirectory
  <2> QED  BY <1>p, <2>1, <2>2 DEF EvidenceInv, ArtifactStays
<1>4. RecheckHolds'
  BY <1>p DEF EvidenceInv, RecheckHolds
<1>5. out' # None /\ out'.completed # None =>
          out # None /\ out.completed # None /\ out'.completed = out.completed
  BY DEF SameDirectory
<1>6. AuthorIsPast'
  BY <1>p, <1>5 DEF EvidenceInv, AuthorIsPast
<1>7. EvidenceTellsTheTruth'
  BY <1>p, <1>5 DEF EvidenceInv, EvidenceTellsTheTruth
<1> QED  BY <1>1, <1>2, <1>3, <1>4, <1>6, <1>7 DEF EvidenceInv

\* The sights of the evaluator and the evidence agree after every step, if the operator
\* waits for live runs: two looks at the anchors around the evaluator, at an artifact
\* that is unpacked once.
LEMMA EvidenceStep ==
    ASSUME SealInv, EvidenceInv, [Next]_vars, OperatorWaits PROVE EvidenceInv'
<1>p. /\ pc \in [Runs -> Pcs] /\ planned \in [Runs -> Versions] /\ anchors \in Versions
      /\ seen \in [Runs -> SUBSET [anchors : Versions, artifact : Artifacts]]
      /\ Versions \subseteq Int
  BY SealAssumption DEF SealInv, TypeOK, Versions
<1>h. \A r \in Runs : pc[r] \in Holding => out \in Directory /\ Existing(out) = out /\ out # None
  BY DEF SealInv, TypeOK, HolderHasNamespace, Existing
<1>a. "intact" \in Artifacts /\ "changed" \in Artifacts
  BY DEF Artifacts
<1>m. /\ "PREPARATION_FAILED" \in Marked /\ "RUNNING" \in Marked
      /\ "FINAL_TEST_COMPLETED" \in Marked /\ "FINAL_TEST_FAILED" \in Marked
  BY DEF Marked, Cleanable
<1>b. TRUE \in BOOLEAN /\ FALSE \in BOOLEAN
  OBVIOUS
<1>1. ASSUME NEW r \in Runs, Prepare(r) PROVE EvidenceInv'
  <2> DEFINE to == IF Unclaimed THEN "prepared" ELSE "ended"
  <2>1. /\ pc[r] = "idle" /\ pc' = [pc EXCEPT ![r] = to] /\ to \in {"prepared", "ended"}
        /\ planned' = [planned EXCEPT ![r] = anchors] /\ out' = out
        /\ UNCHANGED <<anchors, seen>>
    BY <1>1 DEF Prepare, Go, Files, History
  <2> HIDE DEF to
  <2>2. seen[r] = {}
    BY <2>1 DEF EvidenceInv, NothingSeenYet, Unopened
  <2>3. NothingSeenYet' /\ AuthorIsPast'
    BY <2>1, <2>2, <1>p DEF EvidenceInv, NothingSeenYet, AuthorIsPast, Unopened, Sealed
  <2>4. SightsInOrder'
    BY <2>1, <2>2, <1>p DEF EvidenceInv, SightsInOrder
  <2>5. ArtifactStays' /\ RecheckHolds' /\ EvidenceTellsTheTruth'
    BY <2>1, <1>p DEF EvidenceInv, ArtifactStays, RecheckHolds, Beyond, Rechecked, EvidenceTellsTheTruth
  <2> QED  BY <2>3, <2>4, <2>5 DEF EvidenceInv
<1>2. ASSUME NEW r \in Runs,
             \/ NotConfirmed(r) \/ Confirmed(r) \/ CheckUnclaimed(r) \/ MakeStarting(r)
             \/ MarkReady(r) \/ ReserveFails(r) \/ Crash(r)
      PROVE  EvidenceInv'
  <2>1. /\ UNCHANGED <<out, anchors, planned, seen>>
        /\ \E to : /\ pc' = [pc EXCEPT ![r] = to]
                   /\ \/ /\ pc[r] \in {"prepared", "reserving", "mkdir", "marking", "renaming"}
                         /\ to \in {"reserving", "mkdir", "marking", "renaming", "ended"}
                      \/ to = "crashed"
    BY <1>2 DEF NotConfirmed, Confirmed, CheckUnclaimed, MakeStarting, MarkReady, ReserveFails,
                Crash, Decide, Go, Files, History
  <2>2. SameDirectory
    BY <2>1 DEF SameDirectory
  <2> QED  BY <2>1, <2>2, MovingOn DEF Unopened, Sealed, Beyond, Rechecked
<1>3. ASSUME NEW r \in Runs, Reserve(r) PROVE EvidenceInv'
  <2>1. /\ out = None /\ out' # None /\ out'.completed = None
        /\ pc[r] = "renaming" /\ pc' = [pc EXCEPT ![r] = "materializing"]
        /\ UNCHANGED <<anchors, planned, seen>>
    BY <1>3 DEF Reserve, Go, History, SealInv, FlagsTellTheTruth
  <2>2. \A s \in Runs : pc'[s] \notin {"authorizing", "calling"} \cup Beyond
    BY <2>1, <1>p, <1>h DEF Holding, Sealed, Beyond
  <2>3. seen[r] = {}
    BY <2>1 DEF EvidenceInv, NothingSeenYet, Unopened
  <2> QED  BY <2>1, <2>2, <2>3, <1>p
           DEF EvidenceInv, NothingSeenYet, SightsInOrder, ArtifactStays, RecheckHolds, Rechecked,
               Beyond, AuthorIsPast, EvidenceTellsTheTruth
<1>4. ASSUME NEW r \in Runs, Materialize(r) PROVE EvidenceInv'
  <2>0. pc[r] = "materializing"
    BY <1>4 DEF Materialize, Decide, OnNamespace, Go
  <2>1. CASE Decide(r, "materializing", "unprepared")
    BY <2>1, MovingOn
       DEF Decide, Go, Files, History, SameDirectory, Unopened, Sealed, Beyond, Rechecked
  <2>2. CASE /\ OnNamespace(r, "materializing", "unlocking")
             /\ out' = [Existing(out) EXCEPT !.artifact = "intact"]
    <3>1. out \in Directory /\ Existing(out) = out /\ out # None
      BY <2>0, <1>h DEF Holding, Sealed
    <3>w. out' = [out EXCEPT !.artifact = "intact"]
      BY <2>2, <3>1
    <3>d. out \in Directory
      BY <3>1
    <3>2. out' # None /\ out'.completed = out.completed
      BY <3>d, <3>w, <1>a, WritesTouchOneField, Zenon
    <3>3. /\ pc' = [pc EXCEPT ![r] = "unlocking"]
          /\ UNCHANGED <<anchors, planned, seen>>
      BY <2>2 DEF OnNamespace, Go, History
    <3>4. \A s \in Runs : pc'[s] \notin {"authorizing", "calling"} \cup Beyond
      BY <2>0, <3>3, <1>p DEF SealInv, OneHolder, Holding, Sealed, Beyond
    <3>5. seen[r] = {}
      BY <2>0 DEF EvidenceInv, NothingSeenYet, Unopened, Sealed
    <3> QED  BY <2>0, <3>1, <3>2, <3>3, <3>4, <3>5, <1>p
             DEF EvidenceInv, NothingSeenYet, SightsInOrder, ArtifactStays, RecheckHolds, Rechecked,
                 Beyond, AuthorIsPast, EvidenceTellsTheTruth
  <2> QED  BY <1>4, <2>1, <2>2 DEF Materialize
<1>5. ASSUME NEW r \in Runs, Unlock(r) PROVE EvidenceInv'
  <2>1. /\ pc[r] = "unlocking" /\ UNCHANGED <<out, anchors, planned, seen>>
        /\ \E to \in {"authorizing", "unprepared"} :
              /\ pc' = [pc EXCEPT ![r] = to]
              /\ to = "authorizing" => out.artifact = "intact"
    BY <1>5 DEF Unlock, Decide, Go, Files, History, ArtifactIntact
  <2> QED  BY <2>1, MovingOn DEF SameDirectory, Unopened, Sealed, Beyond, Rechecked
<1>6. ASSUME NEW r \in Runs, MarkPreparationFailed(r) \/ MarkRunning(r) PROVE EvidenceInv'
  <2>1. /\ pc[r] \in {"unprepared", "authorizing"} /\ UNCHANGED <<anchors, planned, seen>>
        /\ \E to : /\ pc' = [pc EXCEPT ![r] = to]
                   /\ to = "ended" \/ (pc[r] = "authorizing" /\ to = "calling")
        /\ \/ out' = out
           \/ out' = [Existing(out) EXCEPT !.state = "PREPARATION_FAILED"]
           \/ out' = [Existing(out) EXCEPT !.state = "RUNNING"]
    BY <1>6 DEF MarkPreparationFailed, MarkRunning, WriteState, OnNamespace, Decide, Go, Files, History
  <2>2. out \in Directory /\ Existing(out) = out /\ out # None
    BY <2>1, <1>h DEF Holding, Sealed
  <2>d. out \in Directory
    BY <2>2
  <2>n. out # None
    BY <2>2
  <2>3. SameDirectory
    <3>1. CASE out' = [out EXCEPT !.state = "PREPARATION_FAILED"]
      <4>1. "PREPARATION_FAILED" \in Marked
        BY <1>m
      <4>2. out' # None /\ out'.artifact = out.artifact /\ out'.completed = out.completed
        BY <3>1, <4>1, <2>d, WritesTouchOneField, Zenon
      <4> QED  BY <4>2, <2>n DEF SameDirectory
    <3>2. CASE out' = [out EXCEPT !.state = "RUNNING"]
      <4>1. "RUNNING" \in Marked
        BY <1>m
      <4>2. out' # None /\ out'.artifact = out.artifact /\ out'.completed = out.completed
        BY <3>2, <4>1, <2>d, WritesTouchOneField, Zenon
      <4> QED  BY <4>2, <2>n DEF SameDirectory
    <3> QED  BY <2>1, <2>2, <3>1, <3>2 DEF SameDirectory
  <2>4. pc[r] = "authorizing" => out.artifact # "absent"
    BY DEF EvidenceInv, ArtifactStays
  <2> QED  BY <2>1, <2>3, <2>4, MovingOn DEF Unopened, Sealed, Beyond, Rechecked
<1>7. ASSUME NEW r \in Runs, CallEvaluator(r) PROVE EvidenceInv'
  <2>1. /\ pc[r] = "calling" /\ pc' = [pc EXCEPT ![r] = "evaluating"]
        /\ seen' = [seen EXCEPT ![r] = @ \cup {Sight}]
        /\ UNCHANGED <<anchors, planned, out>>
    BY <1>7 DEF CallEvaluator, Go, Files
  <2>2. seen[r] = {} /\ out # None /\ Existing(out) = out
    BY <2>1, <1>h DEF EvidenceInv, NothingSeenYet, Unopened, Holding, Sealed
  <2>3. seen'[r] = {Sight} /\ Sight.anchors = anchors /\ Sight.artifact = out.artifact
    BY <2>1, <2>2, <1>p DEF Sight
  <2>4. out.completed = None
    BY <2>1 DEF SealInv, EvidenceIsLate, Sealed
  <2>5. NothingSeenYet' /\ RecheckHolds' /\ AuthorIsPast' /\ EvidenceTellsTheTruth'
    BY <2>1, <2>4, <1>p
       DEF EvidenceInv, NothingSeenYet, Unopened, Sealed, RecheckHolds, Rechecked, AuthorIsPast,
           EvidenceTellsTheTruth
  <2>6. SightsInOrder'
    BY <2>1, <2>3, <1>p DEF EvidenceInv, SightsInOrder
  <2>7. ArtifactStays'
    BY <2>1, <2>3, <1>p DEF EvidenceInv, ArtifactStays, Beyond
  <2> QED  BY <2>5, <2>6, <2>7 DEF EvidenceInv
<1>8. ASSUME NEW r \in Runs, EvaluatorReturns(r) PROVE EvidenceInv'
  <2>1. /\ pc[r] = "evaluating" /\ pc' = [pc EXCEPT ![r] = "checking"]
        /\ seen' = [seen EXCEPT ![r] = @ \cup {Sight}]
        /\ UNCHANGED <<anchors, planned, out>>
    BY <1>8 DEF EvaluatorReturns, Go, Files
  <2>2. out # None /\ Existing(out) = out
    BY <2>1, <1>h DEF Holding, Beyond
  <2>3. seen'[r] = seen[r] \cup {Sight} /\ Sight.anchors = anchors /\ Sight.artifact = out.artifact
    BY <2>1, <2>2, <1>p DEF Sight
  <2>4. out.completed = None
    BY <2>1 DEF SealInv, EvidenceIsLate, Sealed
  <2>5. NothingSeenYet' /\ RecheckHolds' /\ AuthorIsPast' /\ EvidenceTellsTheTruth'
    BY <2>1, <2>4, <1>p
       DEF EvidenceInv, NothingSeenYet, Unopened, Sealed, RecheckHolds, Rechecked, AuthorIsPast,
           EvidenceTellsTheTruth
  <2>6. SightsInOrder'
    BY <2>1, <2>3, <1>p DEF EvidenceInv, SightsInOrder
  <2>7. ArtifactStays'
    BY <2>1, <2>3, <1>p DEF EvidenceInv, ArtifactStays, Beyond
  <2> QED  BY <2>5, <2>6, <2>7 DEF EvidenceInv
<1>9. ASSUME NEW r \in Runs, EvaluatorRaises(r) PROVE EvidenceInv'
  BY <1>9, MovingOn
     DEF EvaluatorRaises, Decide, Go, Files, History, SameDirectory, Unopened, Sealed, Beyond, Rechecked
<1>10. ASSUME NEW r \in Runs, Recheck(r) PROVE EvidenceInv'
  <2>1. /\ pc[r] = "checking" /\ UNCHANGED <<out, anchors, planned, seen>>
        /\ \E to \in {"staging", "failing"} :
              /\ pc' = [pc EXCEPT ![r] = to]
              /\ to = "staging" => out.artifact = "intact" /\ anchors = planned[r]
    BY <1>10 DEF Recheck, Decide, Go, Files, History, ArtifactIntact, Valid
  <2>2. ASSUME out.artifact = "intact", anchors = planned[r]
        PROVE  seen[r] = {[anchors |-> planned[r], artifact |-> "intact"]}
    <3>1. seen[r] # {}
      BY <2>1, <2>2 DEF EvidenceInv, ArtifactStays, Beyond
    <3>2. ASSUME NEW s \in seen[r] PROVE s = [anchors |-> planned[r], artifact |-> "intact"]
      <4>1. s \in [anchors : Versions, artifact : Artifacts]
        BY <1>p
      <4>2. s.artifact = "intact"
        BY <2>1, <2>2 DEF EvidenceInv, ArtifactStays, Beyond
      <4>3. s.anchors = planned[r]
        <5>1. s.anchors \in Int /\ planned[r] \in Int
          BY <4>1, <1>p
        <5>2. planned[r] <= s.anchors /\ s.anchors <= anchors
          BY DEF EvidenceInv, SightsInOrder
        <5> QED  BY <2>2, <5>1, <5>2
      <4> QED  BY <4>1, <4>2, <4>3
    <3> QED  BY <3>1, <3>2
  <2> QED  BY <2>1, <2>2, MovingOn DEF SameDirectory, Unopened, Sealed, Beyond, Rechecked
<1>11. ASSUME NEW r \in Runs, MakeCompletionStaging(r) \/ MarkCompleted(r) \/ Fail(r)
       PROVE  EvidenceInv'
  <2>1. /\ pc[r] \in {"staging", "completing", "failing"}
        /\ UNCHANGED <<anchors, planned, seen>>
        /\ \E to : /\ pc' = [pc EXCEPT ![r] = to]
                   /\ to \in {"failing", "ended"} \/ (pc[r] = "staging" /\ to = "publishing")
        /\ \/ out' = out
           \/ out' = [out EXCEPT !.staging = TRUE]
           \/ out' = [out EXCEPT !.staging = FALSE]
           \/ out' = [Existing(out) EXCEPT !.state = "FINAL_TEST_COMPLETED"]
           \/ out' = [out EXCEPT !.state = "FINAL_TEST_COMPLETED"]
           \/ out' = [Existing(out) EXCEPT !.staging = FALSE, !.state = "FINAL_TEST_FAILED"]
    BY <1>11 DEF MakeCompletionStaging, MarkCompleted, Fail, WriteState, OnNamespace, Decide, Go,
                 Files, History
  <2>2. out \in Directory /\ Existing(out) = out /\ out # None
    BY <2>1, <1>h DEF Holding, Beyond
  <2>d. out \in Directory
    BY <2>2
  <2>n. out # None
    BY <2>2
  <2>3. SameDirectory
    <3>1. CASE out' = [out EXCEPT !.staging = TRUE] \/ out' = [out EXCEPT !.staging = FALSE]
      BY <3>1, <2>d, <2>n, <1>b, WritesTouchOneField, Zenon DEF SameDirectory
    <3>2. CASE out' = [out EXCEPT !.state = "FINAL_TEST_COMPLETED"]
      <4>1. "FINAL_TEST_COMPLETED" \in Marked
        BY <1>m
      <4>2. out' # None /\ out'.artifact = out.artifact /\ out'.completed = out.completed
        BY <3>2, <4>1, <2>d, WritesTouchOneField, Zenon
      <4> QED  BY <4>2, <2>n DEF SameDirectory
    <3>3. CASE out' = [out EXCEPT !.staging = FALSE, !.state = "FINAL_TEST_FAILED"]
      <4>1. "FINAL_TEST_FAILED" \in Marked
        BY <1>m
      <4>2. out' # None /\ out'.artifact = out.artifact /\ out'.completed = out.completed
        BY <3>3, <4>1, <2>d, WritesTouchOneField, Zenon
      <4> QED  BY <4>2, <2>n DEF SameDirectory
    <3> QED  BY <2>1, <2>2, <3>1, <3>2, <3>3 DEF SameDirectory
  <2>4. pc[r] = "staging" =>
            seen[r] = {[anchors |-> planned[r], artifact |-> "intact"]}
    BY DEF EvidenceInv, RecheckHolds, Rechecked
  <2> QED  BY <2>1, <2>3, <2>4, MovingOn DEF Unopened, Sealed, Beyond, Rechecked
<1>12. ASSUME NEW r \in Runs, PublishCompleted(r) PROVE EvidenceInv'
  <2>1. CASE Decide(r, "publishing", "failing")
    BY <2>1, MovingOn
       DEF Decide, Go, Files, History, SameDirectory, Unopened, Sealed, Beyond, Rechecked
  <2>2. CASE /\ OnNamespace(r, "publishing", "completing")
             /\ out' = [out EXCEPT !.staging = FALSE,
                                   !.completed = [run |-> r, anchors |-> planned[r]]]
    <3> DEFINE e == [run |-> r, anchors |-> planned[r]]
    <3>1. e \in Evidence /\ e.run = r /\ e.anchors = planned[r]
      BY <1>p DEF Evidence
    <3> HIDE DEF e
    <3>2. out' = [out EXCEPT !.staging = FALSE, !.completed = e]
      BY <2>2 DEF e
    <3>3. /\ pc[r] = "publishing" /\ pc' = [pc EXCEPT ![r] = "completing"]
          /\ UNCHANGED <<anchors, planned, seen>>
      BY <2>2 DEF OnNamespace, Go, History
    <3>4. out \in Directory
      BY <3>3, <1>h DEF Holding, Beyond
    <3>5. out' # None /\ out'.artifact = out.artifact /\ out'.completed = e
      BY <3>1, <3>2, <3>4, WritesTouchOneField, Zenon
    <3>6. seen[r] = {[anchors |-> planned[r], artifact |-> "intact"]}
      BY <3>3 DEF EvidenceInv, RecheckHolds, Rechecked
    <3>7. NothingSeenYet' /\ SightsInOrder' /\ RecheckHolds'
      BY <3>3, <3>6, <1>p
         DEF EvidenceInv, NothingSeenYet, Unopened, Sealed, SightsInOrder, RecheckHolds, Rechecked
    <3>8. ArtifactStays'
      BY <3>3, <3>5, <1>p DEF EvidenceInv, ArtifactStays, Beyond
    <3>9. AuthorIsPast' /\ EvidenceTellsTheTruth'
      BY <3>1, <3>3, <3>5, <3>6, <1>p DEF AuthorIsPast, EvidenceTellsTheTruth
    <3> QED  BY <3>7, <3>8, <3>9 DEF EvidenceInv
  <2> QED  BY <1>12, <2>1, <2>2 DEF PublishCompleted
<1>13. ASSUME Drift PROVE EvidenceInv'
  <2>1. anchors' = anchors + 1 /\ UNCHANGED <<out, pc, planned, seen>>
    BY <1>13 DEF Drift, Files, History
  <2>2. SightsInOrder'
    <3>1. ASSUME NEW r \in Runs PROVE planned[r] <= anchors'
      <4>1. planned[r] \in Int /\ anchors \in Int
        BY <1>p
      <4>2. planned[r] <= anchors
        BY DEF EvidenceInv, SightsInOrder
      <4> QED  BY <2>1, <4>1, <4>2
    <3>2. ASSUME NEW r \in Runs, NEW s \in seen[r]
          PROVE  planned[r] <= s.anchors /\ s.anchors <= anchors'
      <4>0. s \in [anchors : Versions, artifact : Artifacts]
        BY <1>p
      <4>1. s.anchors \in Int /\ anchors \in Int
        BY <4>0, <1>p
      <4>2. planned[r] <= s.anchors /\ s.anchors <= anchors
        BY DEF EvidenceInv, SightsInOrder
      <4> QED  BY <2>1, <4>1, <4>2
    <3> QED  BY <2>1, <3>1, <3>2 DEF SightsInOrder
  <2> QED  BY <2>1, <2>2
           DEF EvidenceInv, NothingSeenYet, ArtifactStays, RecheckHolds, AuthorIsPast,
               EvidenceTellsTheTruth
<1>14. ASSUME ArtifactChanges PROVE EvidenceInv'
  <2>1. /\ out \in Directory /\ out # None /\ out' = [out EXCEPT !.artifact = "changed"]
        /\ UNCHANGED <<anchors, pc, planned, seen>>
    BY <1>14 DEF ArtifactChanges, ArtifactIntact, History, SealInv, TypeOK
  <2>2. out' # None /\ out'.artifact = "changed" /\ out'.completed = out.completed
    BY <2>1, <1>a, WritesTouchOneField, Zenon
  <2> QED  BY <2>1, <2>2
           DEF EvidenceInv, NothingSeenYet, SightsInOrder, ArtifactStays, RecheckHolds, AuthorIsPast,
               EvidenceTellsTheTruth
<1>15. ASSUME RemoveNamespace PROVE EvidenceInv'
  <2>1. out' = None /\ UNCHANGED <<anchors, pc, planned, seen>>
    BY <1>15 DEF RemoveNamespace, History
  <2>2. \A r \in Runs : pc[r] \notin Active
    BY <1>15 DEF RemoveNamespace, OperatorMayAct
  <2> QED  BY <2>1, <2>2
           DEF EvidenceInv, NothingSeenYet, SightsInOrder, ArtifactStays, RecheckHolds, AuthorIsPast,
               EvidenceTellsTheTruth, Active, Beyond
<1>16. ASSUME RemoveReservation \/ UNCHANGED vars PROVE EvidenceInv'
  BY <1>16
     DEF RemoveReservation, vars, History, EvidenceInv, NothingSeenYet, SightsInOrder,
         ArtifactStays, RecheckHolds, AuthorIsPast, EvidenceTellsTheTruth
<1> QED
  BY <1>1, <1>2, <1>3, <1>4, <1>5, <1>6, <1>7, <1>8, <1>9, <1>10, <1>11, <1>12, <1>13, <1>14,
     <1>15, <1>16 DEF Next, RunStep

LEMMA EvidenceInitially == Init => EvidenceInv
BY SealAssumption
   DEF Init, EvidenceInv, NothingSeenYet, SightsInOrder, ArtifactStays, RecheckHolds, AuthorIsPast,
       EvidenceTellsTheTruth, Beyond, Rechecked

LEMMA EvidenceAlways == ASSUME OperatorWaits PROVE Spec => [](SealInv /\ EvidenceInv)
<1>1. (SealInv /\ EvidenceInv) /\ [Next]_vars => (SealInv /\ EvidenceInv)'
  BY SealStep, EvidenceStep
<1> QED  BY SealInitially, EvidenceInitially, <1>1, PTL DEF Spec

\* The evidence in completed/ names the anchors the evaluator worked with from its first
\* read to its last, and an artifact that was verified all the while, although anchors and
\* artifact may change at any moment between the looks of execute_yolo_final_test.
THEOREM EvidenceIsTrue == ASSUME OperatorWaits PROVE Spec => []EvidenceTellsTheTruth
<1>1. SealInv /\ EvidenceInv => EvidenceTellsTheTruth
  BY DEF EvidenceInv
<1> QED  BY EvidenceAlways, <1>1, PTL

-----------------------------------------------------------------------------
(* The refinement: the abstract evidence is the one in the namespace.      *)

EvidenceShown == Existing(out).completed

\* Only the rename to completed/ changes what the namespace shows as evidence.
LEMMA EvidenceSteps ==
    ASSUME SealInv, [Next]_vars, \A r \in Runs : ~PublishCompleted(r)
    PROVE  EvidenceShown' = EvidenceShown
<1> DEFINE Same == EvidenceShown' = EvidenceShown
<1>e. Existing(out) \in Directory
  BY ExistingIsDirectory DEF SealInv, TypeOK
<1>n. Existing(None).completed = None
  BY DEF Existing, EmptyDirectory
<1>s. /\ UNCHANGED out => Same
      /\ out' # None /\ out'.completed = EvidenceShown => Same
  BY DEF EvidenceShown, Existing
<1>1. ASSUME NEW r \in Runs,
             \/ Prepare(r) \/ NotConfirmed(r) \/ Confirmed(r) \/ CheckUnclaimed(r)
             \/ MakeStarting(r) \/ MarkReady(r) \/ ReserveFails(r) \/ Unlock(r)
             \/ CallEvaluator(r) \/ EvaluatorReturns(r) \/ EvaluatorRaises(r)
             \/ Recheck(r) \/ Crash(r)
      PROVE  Same
  BY <1>1, <1>s
     DEF Prepare, NotConfirmed, Confirmed, CheckUnclaimed, MakeStarting, MarkReady, ReserveFails,
         Unlock, CallEvaluator, EvaluatorReturns, EvaluatorRaises, Recheck, Crash, Decide, Files
<1>2. ASSUME NEW r \in Runs, Reserve(r) PROVE Same
  <2>1. out = None /\ out' # None /\ out'.completed = None
    BY <1>2 DEF Reserve, SealInv, FlagsTellTheTruth
  <2> QED  BY <2>1, <1>s DEF EvidenceShown, Existing, EmptyDirectory
<1>3. ASSUME NEW r \in Runs, Materialize(r) PROVE Same
  <2>1. CASE UNCHANGED out
    BY <2>1, <1>s
  <2>2. CASE out' = [Existing(out) EXCEPT !.artifact = "intact"]
    <3>1. "intact" \in Artifacts
      BY DEF Marked, Artifacts
    <3>2. out' # None /\ out'.completed = EvidenceShown
      BY <2>2, <3>1, <1>e, WritesTouchOneField, Zenon DEF EvidenceShown
    <3> QED  BY <3>2, <1>s
  <2> QED  BY <1>3, <2>1, <2>2 DEF Materialize, Decide, OnNamespace, Files
<1>4. ASSUME NEW r \in Runs, MarkPreparationFailed(r) PROVE Same
  <2>1. CASE UNCHANGED out
    BY <2>1, <1>s
  <2>2. CASE out' = [Existing(out) EXCEPT !.state = "PREPARATION_FAILED"]
    <3>1. "PREPARATION_FAILED" \in Marked
      BY DEF Marked, Cleanable, Artifacts
    <3>2. out' # None /\ out'.completed = EvidenceShown
      BY <2>2, <3>1, <1>e, WritesTouchOneField, Zenon DEF EvidenceShown
    <3> QED  BY <3>2, <1>s
  <2> QED  BY <1>4, <2>1, <2>2 DEF MarkPreparationFailed, Decide, OnNamespace, Files, WriteState
<1>5. ASSUME NEW r \in Runs, MarkRunning(r) PROVE Same
  <2>1. CASE UNCHANGED out
    BY <2>1, <1>s
  <2>2. CASE out' = [Existing(out) EXCEPT !.state = "RUNNING"]
    <3>1. "RUNNING" \in Marked
      BY DEF Marked, Artifacts
    <3>2. out' # None /\ out'.completed = EvidenceShown
      BY <2>2, <3>1, <1>e, WritesTouchOneField, Zenon DEF EvidenceShown
    <3> QED  BY <3>2, <1>s
  <2> QED  BY <1>5, <2>1, <2>2 DEF MarkRunning, Decide, OnNamespace, Files, WriteState
<1>6. ASSUME NEW r \in Runs, MarkCompleted(r) PROVE Same
  <2>1. CASE UNCHANGED out
    BY <2>1, <1>s
  <2>2. CASE out' = [Existing(out) EXCEPT !.state = "FINAL_TEST_COMPLETED"]
    <3>1. "FINAL_TEST_COMPLETED" \in Marked
      BY DEF Marked, Artifacts
    <3>2. out' # None /\ out'.completed = EvidenceShown
      BY <2>2, <3>1, <1>e, WritesTouchOneField, Zenon DEF EvidenceShown
    <3> QED  BY <3>2, <1>s
  <2> QED  BY <1>6, <2>1, <2>2 DEF MarkCompleted, Decide, OnNamespace, Files, WriteState
<1>7. ASSUME NEW r \in Runs, MakeCompletionStaging(r) PROVE Same
  <2>1. CASE UNCHANGED out
    BY <2>1, <1>s
  <2>2. CASE out # None /\ out' = [out EXCEPT !.staging = TRUE]
    <3>1. Existing(out) = out /\ TRUE \in BOOLEAN
      BY <2>2 DEF Existing
    <3>2. out' # None /\ out'.completed = EvidenceShown
      BY <2>2, <3>1, <1>e, WritesTouchOneField, Zenon DEF EvidenceShown
    <3> QED  BY <3>2, <1>s
  <2> QED  BY <1>7, <2>1, <2>2 DEF MakeCompletionStaging, Decide, OnNamespace, Files
<1>8. ASSUME NEW r \in Runs, Fail(r) PROVE Same
  <2>1. CASE UNCHANGED out
    BY <2>1, <1>s
  <2>2. CASE out' = [Existing(out) EXCEPT !.staging = FALSE, !.state = "FINAL_TEST_FAILED"]
    <3>1. "FINAL_TEST_FAILED" \in Marked
      BY DEF Marked
    <3>2. out' # None /\ out'.completed = EvidenceShown
      BY <2>2, <3>1, <1>e, WritesTouchOneField, Zenon DEF EvidenceShown
    <3> QED  BY <3>2, <1>s
  <2>3. CASE out # None /\ out' = [out EXCEPT !.state = "FINAL_TEST_COMPLETED"]
    <3>0. Existing(out) = out
      BY <2>3 DEF Existing
    <3>1. out \in Directory
      BY <3>0, <1>e
    <3>2. "FINAL_TEST_COMPLETED" \in Marked
      BY DEF Marked
    <3>3. out' # None /\ out'.artifact = out.artifact /\ out'.completed = out.completed
      BY <2>3, <3>1, <3>2, WritesTouchOneField, Zenon
    <3> QED  BY <3>0, <3>3, <1>s DEF EvidenceShown
  <2>4. CASE out # None /\ out' = [out EXCEPT !.staging = FALSE]
    <3>1. Existing(out) = out /\ FALSE \in BOOLEAN
      BY <2>4 DEF Existing
    <3>2. out' # None /\ out'.completed = EvidenceShown
      BY <2>4, <3>1, <1>e, WritesTouchOneField, Zenon DEF EvidenceShown
    <3> QED  BY <3>2, <1>s
  <2>5. Existing(out).completed # None => out # None
    BY <1>n
  <2> QED  BY <1>8, <2>1, <2>2, <2>3, <2>4, <2>5 DEF Fail, Decide, OnNamespace, Files
<1>9. ASSUME ArtifactChanges PROVE Same
  <2>1. out # None /\ out' = [out EXCEPT !.artifact = "changed"]
    BY <1>9 DEF ArtifactChanges, ArtifactIntact
  <2>0. Existing(out) = out
    BY <2>1 DEF Existing
  <2>2. out \in Directory
    BY <2>0, <1>e
  <2>3. "changed" \in Artifacts
    BY DEF Artifacts
  <2>4. out' # None /\ out'.artifact = "changed" /\ out'.completed = out.completed
    BY <2>1, <2>2, <2>3, WritesTouchOneField, Zenon
  <2> QED  BY <2>0, <2>4, <1>s DEF EvidenceShown
<1>10. ASSUME RemoveNamespace PROVE Same
  BY <1>10 DEF RemoveNamespace, EvidenceShown, Existing, EmptyDirectory
<1>11. ASSUME Drift \/ RemoveReservation \/ UNCHANGED vars PROVE Same
  BY <1>11, <1>s DEF Drift, RemoveReservation, vars, Files
<1> QED
  BY <1>1, <1>2, <1>3, <1>4, <1>5, <1>6, <1>7, <1>8, <1>9, <1>10, <1>11 DEF Next, RunStep

\* The rename that publishes is the abstract Publish.
LEMMA PublishStep ==
    ASSUME SealInv, NEW r \in Runs, PublishCompleted(r)
    PROVE  [Promise!Next]_<<opened, EvidenceShown>>
<1>1. CASE Decide(r, "publishing", "failing")
  BY <1>1 DEF Decide, Files, History, EvidenceShown, Existing
<1>2. CASE /\ out # None
           /\ out.completed = None
           /\ OnNamespace(r, "publishing", "completing")
           /\ out' = [out EXCEPT !.staging = FALSE,
                                 !.completed = [run |-> r, anchors |-> planned[r]]]
  <2> DEFINE e == [run |-> r, anchors |-> planned[r]]
  <2>1. e \in Evidence /\ e.run = r
    BY DEF SealInv, TypeOK, Evidence
  <2> HIDE DEF e
  <2>2. out' = [out EXCEPT !.staging = FALSE, !.completed = e]
    BY <1>2 DEF e
  <2>3. out' # None /\ out'.completed = e
    <3>1. out \in Directory
      BY <1>2 DEF SealInv, TypeOK
    <3> HIDE DEF SealInv
    <3>2. out'.completed = e
      BY <2>2, <3>1 DEF Directory
    <3>3. out' \in Directory
      BY <2>1, <2>2, <3>1 DEF Directory
    <3> QED  BY <3>2, <3>3, NoneAssumption
  <2>4. EvidenceShown = None /\ EvidenceShown' = e
    BY <1>2, <2>3 DEF EvidenceShown, Existing
  <2>5. e.run \in opened /\ UNCHANGED opened
    BY <1>2, <2>1 DEF SealInv, BeyondMeansOpened, Beyond, OnNamespace, Go, History
  <2>6. Promise!Publish(e) /\ e \in Promise!Evidence
    BY <2>1, <2>4, <2>5 DEF Promise!Publish, Promise!Evidence, EvidenceShown, Evidence
  <2> QED  BY <2>6 DEF Promise!Next
<1> QED  BY <1>1, <1>2 DEF PublishCompleted

LEMMA PromiseStep ==
    ASSUME SealInv, [Next]_vars PROVE [Promise!Next]_<<opened, EvidenceShown>>
<1>1. CASE \E r \in Runs : PublishCompleted(r)
  BY <1>1, PublishStep
<1>2. CASE \E r \in Runs : CallEvaluator(r)
  <2>1. PICK r \in Runs : CallEvaluator(r)
    BY <1>2
  <2>2. opened = {} /\ opened' = {r} /\ UNCHANGED out
    BY <2>1 DEF CallEvaluator, Go, SealInv, SealedMeansUnopened, Sealed, Files
  <2>3. Promise!Open(r)
    BY <2>2 DEF Promise!Open, Existing
  <2> QED  BY <2>3 DEF Promise!Next
<1>3. CASE \A r \in Runs : ~PublishCompleted(r) /\ ~CallEvaluator(r)
  <2>1. UNCHANGED opened
    BY <1>3
       DEF Next, RunStep, Prepare, NotConfirmed, Confirmed, CheckUnclaimed, MakeStarting,
           MarkReady, Reserve, ReserveFails, Materialize, Unlock, MarkPreparationFailed,
           MarkRunning, EvaluatorReturns, EvaluatorRaises, Recheck, MakeCompletionStaging,
           MarkCompleted, Fail, Crash, Drift, ArtifactChanges, RemoveNamespace,
           RemoveReservation, Decide, OnNamespace, WriteState, History, vars
  <2>2. UNCHANGED EvidenceShown
    BY <1>3, EvidenceSteps
  <2> QED  BY <2>1, <2>2
<1> QED  BY <1>1, <1>2, <1>3

\* Files, markers and renames implement the one-way seal: one opening, one evidence by
\* the run that was let in, never replaced and never removed.
THEOREM SealRefinesPromise == ASSUME OperatorWaits PROVE Spec => ImplementsPromise
<1>1. Init => Promise!Init
  BY DEF Init, Promise!Init, Existing, EmptyDirectory
<1>2. SealInv /\ [Next]_vars => [Promise!Next]_<<opened, Existing(out).completed>>
  BY PromiseStep DEF EvidenceShown
<1> QED  BY SealAlways, <1>1, <1>2, PTL DEF Spec, ImplementsPromise, Promise!Spec

=============================================================================
