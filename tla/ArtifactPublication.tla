------------------------ MODULE ArtifactPublication ------------------------
(***************************************************************************)
(* How the platform publishes an artifact under an immutable ID.  Every    *)
(* exporter, parity check, acceptance, trainer and report follows one      *)
(* pattern with its own order of steps: look for the ID, read the sources, *)
(* claim a directory with mkdir(exist_ok=False), write, rename.  A program *)
(* below is that order; this module runs several executions of one program *)
(* against each other, with steps that raise, cleanups in the except       *)
(* block, processes that die, and sources that change meanwhile.           *)
(*                                                                         *)
(* Version 0 of the sources is the frozen identity a program verifies;     *)
(* versions do not come back.  An rmtree(ignore_errors=True) succeeds.     *)
(* KeyboardInterrupt is no Exception: it is a crash.                       *)
(***************************************************************************)
EXTENDS Integers, Sequences

CONSTANTS
    Builders,   \* executions of the command, each a process of its own
    Programs,   \* the programs to run
    MaxDrift,   \* bound: how often the sources change
    None        \* an absent directory

Steps == {"verify", "look", "lookStaging", "lookPackage", "hash", "build", "recheck",
          "claim", "data", "meta", "both", "handle", "load", "publish", "create",
          "overwrite", "audit", "package"}

\* steps: in order.  guarded: the steps inside the try block.  place: what claim
\* creates.  cleans: what the except block removes.  names: the version of the
\* sources the metadata names.
Program == [steps : Seq(Steps), guarded : SUBSET Nat,
            place : {"staging", "private", "final"},
            cleans : SUBSET {"place", "claimed", "final"},
            names : {"frozen", "hashed", "built"}]

ASSUME ArtifactAssumption ==
    /\ MaxDrift \in Nat
    /\ Programs \subseteq Program
    /\ Builders \cap {"staging", "final", "package"} = {}

VARIABLES
    program,    \* the program all builders run, never changed
    source,     \* version of the sources
    dir,        \* the directories and files at the places builders share or own
    pc,         \* index of each builder's next step
    status,     \* running, failing (except block), won, failed or crashed
    hashed,     \* version each builder hashed
    built       \* version each builder worked with

vars == <<program, source, dir, pc, status, hashed, built>>

Versions  == 0 .. MaxDrift
Places    == {"staging", "final", "package"} \cup Builders
Parts     == {"absent", "partial", "whole"}
Directory == [by : Builders, from : Versions, names : Versions, data : Parts, meta : Parts]

\* What a reader learns from a published artifact.
Edition == [by : Builders, from : Versions, names : Versions]

ASSUME NoneAssumption == None \notin Directory \cup Edition

Init ==
    /\ program \in Programs
    /\ source = 0
    /\ dir = [p \in Places |-> None]
    /\ pc = [b \in Builders |-> 1]
    /\ status = [b \in Builders |-> "running"]
    /\ hashed = [b \in Builders |-> 0]
    /\ built = [b \in Builders |-> 0]

Place(b) == IF program.place = "private" THEN b ELSE program.place
Has(s)   == \E i \in 1 .. Len(program.steps) : program.steps[i] = s
Done(b, s) == \E i \in 1 .. Len(program.steps) : i < pc[b] /\ program.steps[i] = s
Mine(b, p) == dir[p] # None /\ dir[p].by = b
Alive(b)   == status[b] = "failing" \/ (status[b] = "running" /\ pc[b] > 1)

At(b, s) ==
    /\ status[b] = "running"
    /\ pc[b] <= Len(program.steps)
    /\ program.steps[pc[b]] = s

Advance(b) == pc' = [pc EXCEPT ![b] = @ + 1]

\* A step that changes directories only, and its builder goes on.
Puts(b, p, content) ==
    /\ Advance(b)
    /\ dir' = [dir EXCEPT ![p] = content]
    /\ UNCHANGED <<program, source, status, hashed, built>>

-----------------------------------------------------------------------------
(* Reading                                                                 *)

\* A check that holds; one that does not is one of the steps that raise.
Passes(b, s, holds) ==
    /\ At(b, s)
    /\ holds
    /\ Advance(b)
    /\ UNCHANGED <<program, source, dir, status, hashed, built>>

Whole(d) == d.data = "whole" /\ d.meta = "whole"

\* Mutant: the sources are hashed again, but the hashes are not compared.
CheckLoosely(b) ==
    \/ Passes(b, "verify", source = 0)
    \/ Passes(b, "recheck", TRUE)
    \/ Passes(b, "look", dir["final"] = None)
    \/ Passes(b, "lookStaging", dir["staging"] = None)

Check(b) ==
    \/ Passes(b, "verify", source = 0)
    \/ Passes(b, "recheck", source = hashed[b])
    \/ Passes(b, "look", dir["final"] = None)
    \/ Passes(b, "lookStaging", dir["staging"] = None)
    \/ Passes(b, "lookPackage", dir["package"] = None)
    \/ Passes(b, "load", dir[Place(b)] # None /\ Whole(dir[Place(b)]))
    \/ Passes(b, "audit", dir["final"] # None /\ dir["final"].names = source)

Hash(b) ==
    /\ At(b, "hash")
    /\ hashed' = [hashed EXCEPT ![b] = source]
    /\ Advance(b)
    /\ UNCHANGED <<program, source, dir, status, built>>

\* Quantization, engine build, inference, evaluation: the sources are read.
Build(b) ==
    /\ At(b, "build")
    /\ built' = [built EXCEPT ![b] = source]
    /\ Advance(b)
    /\ UNCHANGED <<program, source, dir, status, hashed>>

-----------------------------------------------------------------------------
(* Writing                                                                 *)

Fresh(b, part) == [by |-> b, from |-> 0, names |-> 0, data |-> part, meta |-> part]

Named(b) == CASE program.names = "frozen" -> 0
              [] program.names = "hashed" -> hashed[b]
              [] OTHER -> built[b]

Finished(b, d) ==
    [d EXCEPT !.data = "whole", !.meta = "whole", !.from = built[b], !.names = Named(b)]

\* Mutant: mkdir(exist_ok=True).
ClaimAnyway(b) ==
    /\ At(b, "claim")
    /\ Puts(b, Place(b), IF dir[Place(b)] = None THEN Fresh(b, "absent") ELSE dir[Place(b)])

\* mkdir(exist_ok=False), mkdtemp or open("xb").
Claim(b) ==
    /\ At(b, "claim")
    /\ dir[Place(b)] = None
    /\ Puts(b, Place(b), Fresh(b, "absent"))

\* A file written through its path is seen half written before it is whole.
Begin(b, content) ==
    /\ dir' = [dir EXCEPT ![Place(b)] = content]
    /\ UNCHANGED <<program, source, pc, status, hashed, built>>

WriteData(b) ==
    LET d == dir[Place(b)] IN
    /\ At(b, "data")
    /\ d # None
    /\ IF d.data # "partial"
       THEN Begin(b, [d EXCEPT !.data = "partial"])
       ELSE Puts(b, Place(b), [d EXCEPT !.data = "whole", !.from = built[b]])

WriteMeta(b) ==
    LET d == dir[Place(b)] IN
    /\ At(b, "meta")
    /\ d # None
    /\ IF d.meta # "partial"
       THEN Begin(b, [d EXCEPT !.meta = "partial"])
       ELSE Puts(b, Place(b), [d EXCEPT !.meta = "whole", !.names = Named(b)])

\* One file that is data and metadata.
WriteBoth(b) ==
    LET d == dir[Place(b)] IN
    /\ At(b, "both")
    /\ d # None
    /\ IF d.data # "partial"
       THEN Begin(b, [d EXCEPT !.data = "partial", !.meta = "partial"])
       ELSE Puts(b, Place(b), Finished(b, d))

\* A write to the file opened by "claim" goes nowhere once it was unlinked.
WriteHandle(b) ==
    LET p == Place(b) IN
    /\ At(b, "handle")
    /\ Puts(b, p, IF Mine(b, p) THEN Finished(b, dir[p]) ELSE dir[p])

\* Mutant: the rename replaces what is there.
PublishOver(b) ==
    LET p == Place(b) IN
    /\ At(b, "publish")
    /\ dir[p] # None
    /\ dir' = [dir EXCEPT !["final"] = dir[p], ![p] = None]
    /\ Advance(b)
    /\ UNCHANGED <<program, source, status, hashed, built>>

\* rename() refuses a directory that is there: it is never empty.
Publish(b) ==
    LET p == Place(b) IN
    /\ At(b, "publish")
    /\ dir[p] # None
    /\ dir["final"] = None
    /\ dir' = [dir EXCEPT !["final"] = dir[p], ![p] = None]
    /\ Advance(b)
    /\ UNCHANGED <<program, source, status, hashed, built>>

\* open("xb") and write of a file next to the claimed directory.
Create(b) ==
    /\ At(b, "create")
    /\ dir["final"] = None
    /\ Puts(b, "final", Finished(b, Fresh(b, "absent")))

\* write_text without a claim: an older look said that nothing was there.
Overwrite(b) ==
    /\ At(b, "overwrite")
    /\ Puts(b, "final", Finished(b, Fresh(b, "absent")))

\* The ZIP of the published dataset.
Package(b) ==
    LET d == dir["final"] IN
    /\ At(b, "package")
    /\ d # None
    /\ IF dir["package"] = None
       THEN /\ dir' = [dir EXCEPT !["package"] =
                          [d EXCEPT !.by = b, !.data = "partial", !.meta = "partial"]]
            /\ UNCHANGED <<program, source, pc, status, hashed, built>>
       ELSE /\ dir["package"].data = "partial"
            /\ Puts(b, "package", [d EXCEPT !.by = b])

-----------------------------------------------------------------------------
(* Ending                                                                  *)

Ends(b, from, to) ==
    /\ status[b] = from
    /\ status' = [status EXCEPT ![b] = to]
    /\ UNCHANGED <<program, source, pc, hashed, built>>

Return(b) == pc[b] > Len(program.steps) /\ Ends(b, "running", "won") /\ UNCHANGED dir

\* Mutant: the try block begins before the claim.
RaiseInside(b) ==
    /\ pc[b] <= Len(program.steps)
    /\ Ends(b, "running", IF program.guarded # {} THEN "failing" ELSE "failed")
    /\ UNCHANGED dir

\* Any step may raise; inside the try block the except block comes next.
Raise(b) ==
    /\ pc[b] <= Len(program.steps)
    /\ Ends(b, "running", IF pc[b] \in program.guarded THEN "failing" ELSE "failed")
    /\ UNCHANGED dir

Removes(b) ==
    {p \in Places :
        \/ p = Place(b) /\ "place" \in program.cleans
        \/ p = Place(b) /\ "claimed" \in program.cleans /\ Done(b, "claim")
        \/ p = "final" /\ "final" \in program.cleans}

\* Mutant: the except block leaves the directory for inspection.
CleanNothing(b) == Ends(b, "failing", "failed") /\ UNCHANGED dir

Clean(b) ==
    /\ Ends(b, "failing", "failed")
    /\ dir' = [p \in Places |-> IF p \in Removes(b) THEN None ELSE dir[p]]

Crash(b) ==
    /\ Alive(b)
    /\ Ends(b, status[b], "crashed")
    /\ UNCHANGED dir

-----------------------------------------------------------------------------
(* The world around the builders                                           *)

\* A source is replaced or edited.
Drift ==
    /\ source < MaxDrift
    /\ source' = source + 1
    /\ UNCHANGED <<program, dir, pc, status, hashed, built>>

\* Somebody removes by hand what a dead builder left, or "remove it explicitly".
RemoveLeftover(p) ==
    /\ \A b \in Builders : ~Alive(b)
    /\ dir[p] # None
    /\ p \in {"final", "package"} => ~Whole(dir[p])
    /\ dir' = [dir EXCEPT ![p] = None]
    /\ UNCHANGED <<program, source, pc, status, hashed, built>>

Step(b) ==
    \/ Check(b) \/ Hash(b) \/ Build(b)
    \/ Claim(b) \/ WriteData(b) \/ WriteMeta(b) \/ WriteBoth(b) \/ WriteHandle(b)
    \/ Publish(b) \/ Create(b) \/ Overwrite(b) \/ Package(b)
    \/ Return(b) \/ Raise(b) \/ Clean(b) \/ Crash(b)

Next == \/ \E b \in Builders : Step(b)
        \/ \E p \in Places : RemoveLeftover(p)
        \/ Drift

Spec == Init /\ [][Next]_vars

-----------------------------------------------------------------------------
(* Properties                                                              *)

Writes(part) == {part, "both", "handle"}

\* Step i of program p comes after a step of one of these kinds.
After(p, i, kinds) == \E j \in 1 .. i - 1 : p.steps[j] \in kinds

Before(p, s, t) == \E i \in 1 .. Len(p.steps) : p.steps[i] = t /\ After(p, i, {s})

\* Programs that take their place before they write, publish or can get into their
\* except block, write each part once, and end with the artifact complete.
CarefulPrograms ==
    {p \in Programs :
        /\ p.cleans \subseteq {"place"}
        /\ \A i \in 1 .. Len(p.steps) :
            LET s == p.steps[i] IN
            /\ s \notin {"create", "overwrite"}
            /\ i \in p.guarded \/ s \in {"data", "meta", "both", "handle", "publish"} =>
                   After(p, i, {"claim"}) /\ ~After(p, i, {"publish"})
            /\ s \in Writes("data") => ~After(p, i, Writes("data"))
            /\ s \in Writes("meta") => ~After(p, i, Writes("meta"))
            /\ s = "publish" => /\ p.place # "final"
                               /\ After(p, i, Writes("data")) /\ After(p, i, Writes("meta"))
            /\ i \in p.guarded /\ p.place = "final" =>
                   ~After(p, i, Writes("data")) \/ ~After(p, i, Writes("meta"))
        /\ IF p.place = "final"
           THEN /\ After(p, Len(p.steps) + 1, Writes("data"))
                /\ After(p, Len(p.steps) + 1, Writes("meta"))
           ELSE After(p, Len(p.steps) + 1, {"publish"})}

\* Programs whose except block covers all that happens between claim and rename, and
\* that neither claim again nor package before they have published.
TidyPrograms ==
    {p \in Programs :
        \A i \in 1 .. Len(p.steps) :
            LET s == p.steps[i] IN
            /\ After(p, i, {"claim"}) /\ ~After(p, i, {"publish"}) => i \in p.guarded
            /\ s = "claim" => ~After(p, i, {"publish"})
            /\ s = "package" => After(p, i, {"publish"})}

\* The artifact is complete before step i.
Complete(p, i) ==
    \/ After(p, i, {"publish"})
    \/ /\ p.place = "final"
       /\ After(p, i, Writes("data")) /\ After(p, i, Writes("meta"))

\* Programs that read once, before they write what they read, and that do their checks
\* before the artifact is complete.
SettledPrograms ==
    {p \in Programs :
        \A i \in 1 .. Len(p.steps) :
            LET s == p.steps[i] IN
            /\ s = "build" => ~After(p, i, {"build"} \cup Writes("data") \cup Writes("meta"))
            /\ s = "hash" => ~After(p, i, {"hash"} \cup Writes("meta"))
            /\ s \in {"verify", "recheck"} => ~Complete(p, i)}

Careful == program \in CarefulPrograms

\* Types of the state.
TypeOK ==
    /\ program \in Programs
    /\ source \in Versions
    /\ dir \in [Places -> Directory \cup {None}]
    /\ pc \in [Builders -> Nat \ {0}]
    /\ status \in [Builders -> {"running", "failing", "won", "failed", "crashed"}]
    /\ hashed \in [Builders -> Versions]
    /\ built \in [Builders -> Versions]

Holds(b) == status[b] \in {"running", "failing"} /\ Done(b, "claim") /\ ~Done(b, "publish")

\* Whoever passed mkdir(exist_ok=False) works in a directory of its own until it
\* renames it: nobody else's cleanup, rename or hand takes it away.
ClaimsHold == Careful => \A b \in Builders : Holds(b) => Mine(b, Place(b))

\* An artifact that is renamed into place is seen whole or not at all
\* ("partial success" is never exposed, services/rag/index.py:72).
VisibleIsWhole ==
    Careful /\ Has("publish") /\ dir["final"] # None => Whole(dir["final"])

\* A builder whose command failed, but did not die, leaves nothing that stops the
\* next one, if its program cleans up at all: only what it had published remains.
CleanFailure ==
    Careful /\ program.cleans # {} =>
        \A b \in Builders : status[b] = "failed" =>
            \A p \in Places : Mine(b, p) => p \in {"final", "package"} /\ Done(b, "publish")

\* Programs that compare the sources with the hash after the work.
RecheckedPrograms ==
    {p \in Programs : Before(p, "hash", "build") /\ Before(p, "build", "recheck")}

\* Programs that read their sources, and read them again to hash them.
RereadPrograms == {p \in Programs : p.names = "hashed" /\ Before(p, "build", "hash")}

\* Programs that hash what they keep, or check the identity after the work, or hash
\* before the identity check and compare with that hash after the work.
AnchoredPrograms ==
    {p \in Programs :
        \/ p.names = "built"
        \/ p.names = "hashed" /\ p \in RecheckedPrograms
        \/ p.names = "frozen" /\ Before(p, "build", "verify")
        \/ p.names = "frozen" /\ Before(p, "hash", "verify") /\ p \in RecheckedPrograms}

\* Whatever the sources do meanwhile, a published artifact was made from what its
\* metadata names, or from what its builder had hashed before; where the sources are
\* hashed only after the work, it may name a later version, but never an earlier one.
LineageTrue ==
    Careful /\ dir["final"] # None /\ Whole(dir["final"]) =>
        LET a == dir["final"] IN
        /\ program \in AnchoredPrograms => a.names = a.from
        /\ program \in RecheckedPrograms => a.from = hashed[a.by]
        /\ program \in RereadPrograms => a.from <= a.names

Artifact ==
    IF Careful /\ dir["final"] # None /\ Whole(dir["final"])
    THEN LET a == dir["final"] IN [by |-> a.by, from |-> a.from, names |-> a.names]
    ELSE None

Outcome ==
    [b \in Builders |->
        IF ~Careful \/ status[b] \in {"running", "failing"} THEN "working"
        ELSE IF status[b] = "won" THEN "won" ELSE "lost"]

Promise == INSTANCE PublishOncePromise WITH artifact <- Artifact, outcome <- Outcome

\* Careful programs implement an immutable ID: one artifact at most, never
\* replaced and never removed, and success is only reported by its builder.
ImplementsPromise == Promise!Spec

\* What the FileExistsErrors say of every program: an artifact or evidence that
\* exists is not overwritten, and not removed either.
PublishedStays ==
    [][dir["final"] # None /\ Whole(dir["final"]) => dir'["final"] = dir["final"]]_vars

=============================================================================
