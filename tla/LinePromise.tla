----------------------------- MODULE LinePromise -----------------------------
(***************************************************************************)
(* What the queued inspection line promises, without queue, threads and    *)
(* signals: events are inspected one at a time in schedule order, and the  *)
(* run passes only when all of them were.                                  *)
(***************************************************************************)
EXTENDS Naturals, Sequences

CONSTANT NumEvents

VARIABLES
    inspected,  \* the successful inspections, in the order of their responses
    outcome     \* what the caller learns: "running", "passed" or "failed"

Init ==
    /\ inspected = <<>>
    /\ outcome = "running"

Inspect ==
    /\ outcome = "running"
    /\ Len(inspected) < NumEvents
    /\ inspected' = Append(inspected, Len(inspected) + 1)
    /\ UNCHANGED outcome

Pass ==
    /\ outcome = "running"
    /\ Len(inspected) = NumEvents
    /\ outcome' = "passed"
    /\ UNCHANGED inspected

Fail ==
    /\ outcome = "running"
    /\ outcome' = "failed"
    /\ UNCHANGED inspected

Next == Inspect \/ Pass \/ Fail

Spec == Init /\ [][Next]_<<inspected, outcome>>

=============================================================================
