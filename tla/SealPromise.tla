----------------------------- MODULE SealPromise -----------------------------
(***************************************************************************)
(* What the one-time final test promises: the sealed test split is opened  *)
(* for at most one run, ever, and at most one evidence is published, by    *)
(* that run; nothing takes either back.  No files, markers or crashes.     *)
(***************************************************************************)
CONSTANTS
    Runs,      \* executions of the final test
    Anchors,   \* versions of what the evidence vouches for
    None       \* no evidence

VARIABLES
    opened,    \* runs that were let at the test split
    evidence   \* the published evidence, or None

Evidence == [run : Runs, anchors : Anchors]

Init == opened = {} /\ evidence = None

Open(r) ==
    /\ opened = {}
    /\ opened' = {r}
    /\ UNCHANGED evidence

Publish(e) ==
    /\ evidence = None
    /\ e.run \in opened
    /\ evidence' = e
    /\ UNCHANGED opened

Next == \/ \E r \in Runs : Open(r)
        \/ \E e \in Evidence : Publish(e)

Spec == Init /\ [][Next]_<<opened, evidence>>

=============================================================================
