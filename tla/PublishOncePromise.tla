------------------------- MODULE PublishOncePromise -------------------------
(***************************************************************************)
(* What an immutable artifact ID promises: at most one builder's artifact  *)
(* ever appears under it, complete, and it never changes or goes away; a   *)
(* builder reports success only for its own artifact.  No directories,     *)
(* staging, cleanup or crashes.                                            *)
(***************************************************************************)
CONSTANTS
    Builders,   \* executions of the building command
    Versions,   \* versions of the sources
    None        \* nothing published

VARIABLES
    artifact,   \* the published artifact, or None
    outcome     \* what each builder reported

Artifact == [by : Builders, from : Versions, names : Versions]

Init ==
    /\ artifact = None
    /\ outcome = [b \in Builders |-> "working"]

Publish(a) ==
    /\ artifact = None
    /\ outcome[a.by] = "working"
    /\ artifact' = a
    /\ UNCHANGED outcome

Report(b, result) ==
    /\ outcome[b] = "working"
    /\ outcome' = [outcome EXCEPT ![b] = result]
    /\ UNCHANGED artifact

Win(b) == artifact # None /\ artifact.by = b /\ Report(b, "won")

\* Also a builder that failed or died after its artifact appeared.
Lose(b) == Report(b, "lost")

Next == \/ \E a \in Artifact : Publish(a)
        \/ \E b \in Builders : Win(b) \/ Lose(b)

Spec == Init /\ [][Next]_<<artifact, outcome>>

=============================================================================
