---------------------- MODULE ArtifactPublicationProofs ----------------------
(***************************************************************************)
(* Publication under an immutable ID, for any number of builders, any      *)
(* programs and any drift of the sources.                                  *)
(*                                                                         *)
(* The argument for careful programs: from its mkdir to its rename a       *)
(* builder owns its place, because mkdir needs the place absent, every     *)
(* write, rename and cleanup comes after a mkdir of one's own, and nothing *)
(* is removed by hand while a builder is alive.  What an owner has written *)
(* is whole, so a rename makes a whole artifact appear; a whole artifact   *)
(* is out of reach of every later write and cleanup.                       *)
(*                                                                         *)
(* Two more properties need more of the programs than being careful, and   *)
(* their theorems say what: a failed command leaves nothing behind if its  *)
(* except block covers all from the claim to the rename, and an artifact   *)
(* was made from what its metadata names if sources are read once and the  *)
(* checks come before the artifact is complete.  The instance that TLC     *)
(* runs confirms both of the platform's programs.                          *)
(***************************************************************************)
EXTENDS ArtifactPublication, TLAPS

\* Builder b has passed a step of one of these kinds.
Past(b, kinds) == After(program, pc[b], kinds)

PcInProgram ==
    \A b \in Builders :
        /\ pc[b] <= Len(program.steps) + 1
        /\ status[b] = "failing" => pc[b] \in program.guarded /\ pc[b] <= Len(program.steps)

Owner(b) == status[b] \in {"running", "failing"} /\ Past(b, {"claim"}) /\ ~Past(b, {"publish"})

\* What an owner has claimed is its own, and what it has written is whole.
OwnerHasPlace ==
    \A b \in Builders : Owner(b) =>
        /\ Mine(b, Place(b))
        /\ Past(b, Writes("data")) => dir[Place(b)].data = "whole"
        /\ Past(b, Writes("meta")) => dir[Place(b)].meta = "whole"

PublisherHasFinal == \A b \in Builders : Past(b, {"publish"}) => Mine(b, "final")

RenamedIsWhole == program.place # "final" /\ dir["final"] # None => Whole(dir["final"])

\* In a final directory written in place, what is whole was written by its maker.
WholeIsWritten ==
    program.place = "final" /\ dir["final"] # None =>
        /\ dir["final"].data = "whole" => Past(dir["final"].by, Writes("data"))
        /\ dir["final"].meta = "whole" => Past(dir["final"].by, Writes("meta"))

CarefulInv == OwnerHasPlace /\ PublisherHasFinal /\ RenamedIsWhole /\ WholeIsWritten

PublicationInv == TypeOK /\ PcInProgram /\ (Careful => CarefulInv)

-----------------------------------------------------------------------------
\* A directory with parts replaced is a directory.
LEMMA DirectoryUpdates ==
    ASSUME NEW d \in Directory, NEW v \in Versions, NEW w \in Versions, NEW b \in Builders
    PROVE  /\ [d EXCEPT !.data = "partial"] \in Directory
           /\ [d EXCEPT !.meta = "partial"] \in Directory
           /\ [d EXCEPT !.data = "partial", !.meta = "partial"] \in Directory
           /\ [d EXCEPT !.data = "whole", !.from = v] \in Directory
           /\ [d EXCEPT !.meta = "whole", !.names = w] \in Directory
           /\ [d EXCEPT !.data = "whole", !.meta = "whole", !.from = v, !.names = w] \in Directory
           /\ [d EXCEPT !.by = b] \in Directory
           /\ [d EXCEPT !.by = b, !.data = "partial", !.meta = "partial"] \in Directory
BY DEF Directory, Parts

LEMMA FreshDirectory ==
    ASSUME NEW b \in Builders PROVE Fresh(b, "absent") \in Directory
BY ArtifactAssumption DEF Fresh, Directory, Parts, Versions

LEMMA NamedVersion ==
    ASSUME TypeOK, NEW b \in Builders PROVE Named(b) \in Versions
BY ArtifactAssumption DEF TypeOK, Named, Versions

LEMMA FinishedDirectory ==
    ASSUME TypeOK, NEW b \in Builders, NEW d \in Directory
    PROVE  Finished(b, d) \in Directory
BY NamedVersion, DirectoryUpdates DEF TypeOK, Finished

LEMMA PlaceIsPlace ==
    ASSUME TypeOK, NEW b \in Builders PROVE Place(b) \in Places
BY ArtifactAssumption DEF TypeOK, Place, Places, Program

\* One place gets a directory, or nothing.
LEMMA DirUpdate ==
    ASSUME TypeOK, NEW p \in Places, NEW d \in Directory \cup {None}
    PROVE  /\ [dir EXCEPT ![p] = d] \in [Places -> Directory \cup {None}]
           /\ [dir EXCEPT ![p] = d][p] = d
           /\ \A q \in Places \ {p} : [dir EXCEPT ![p] = d][q] = dir[q]
BY DEF TypeOK

-----------------------------------------------------------------------------
\* Every action keeps the state in its types.
LEMMA TypeStep == ASSUME TypeOK, [Next]_vars PROVE TypeOK'
<1> DEFINE Dirs == [Places -> Directory \cup {None}]
<1>1. ASSUME NEW b \in Builders, Check(b) PROVE TypeOK'
  BY <1>1 DEF Check, Passes, Advance, TypeOK
<1>2. ASSUME NEW b \in Builders, Hash(b) \/ Build(b) PROVE TypeOK'
  BY <1>2 DEF Hash, Build, Advance, TypeOK
<1>3. ASSUME NEW b \in Builders, NEW p \in Places, NEW d \in Directory \cup {None}, Puts(b, p, d)
      PROVE  TypeOK'
  <2>1. dir' \in Dirs
    BY <1>3, DirUpdate DEF Puts
  <2> QED BY <1>3, <2>1 DEF Puts, Advance, TypeOK
<1>4. ASSUME NEW b \in Builders, NEW d \in Directory, Begin(b, d) PROVE TypeOK'
  <2>1. dir' \in Dirs
    BY <1>4, DirUpdate, PlaceIsPlace DEF Begin
  <2> QED BY <1>4, <2>1 DEF Begin, TypeOK
<1>5. ASSUME NEW b \in Builders, Claim(b) PROVE TypeOK'
  BY <1>3, <1>5, FreshDirectory, PlaceIsPlace DEF Claim
<1>6. ASSUME NEW b \in Builders, WriteData(b) \/ WriteMeta(b) \/ WriteBoth(b) PROVE TypeOK'
  <2> DEFINE d == dir[Place(b)]
  <2>1. d \in Directory
    BY <1>6, PlaceIsPlace DEF WriteData, WriteMeta, WriteBoth, TypeOK
  <2>2. built[b] \in Versions
    BY DEF TypeOK
  <2>3. CASE WriteData(b)
    BY <1>3, <1>4, <2>1, <2>2, <2>3, DirectoryUpdates, PlaceIsPlace DEF WriteData
  <2>4. CASE WriteMeta(b)
    BY <1>3, <1>4, <2>1, <2>2, <2>4, NamedVersion, DirectoryUpdates, PlaceIsPlace DEF WriteMeta
  <2>5. CASE WriteBoth(b)
    BY <1>3, <1>4, <2>1, <2>2, <2>5, FinishedDirectory, DirectoryUpdates, PlaceIsPlace
       DEF WriteBoth
  <2> QED BY <1>6, <2>3, <2>4, <2>5
<1>7. ASSUME NEW b \in Builders, WriteHandle(b) PROVE TypeOK'
  <2>1. dir[Place(b)] \in Directory \cup {None}
    BY PlaceIsPlace DEF TypeOK
  <2> QED BY <1>3, <1>7, <2>1, FinishedDirectory, PlaceIsPlace DEF WriteHandle, Mine
<1>8. ASSUME NEW b \in Builders, Publish(b) PROVE TypeOK'
  <2>1. dir[Place(b)] \in Directory /\ "final" \in Places
    BY <1>8, PlaceIsPlace DEF Publish, TypeOK, Places
  <2>2. dir' \in Dirs
    BY <1>8, <2>1, PlaceIsPlace DEF Publish, TypeOK
  <2> QED BY <1>8, <2>2 DEF Publish, Advance, TypeOK
<1>9. ASSUME NEW b \in Builders, Create(b) \/ Overwrite(b) PROVE TypeOK'
  <2>1. "final" \in Places /\ Finished(b, Fresh(b, "absent")) \in Directory
    BY FreshDirectory, FinishedDirectory DEF Places
  <2> QED BY <1>3, <1>9, <2>1 DEF Create, Overwrite
<1>10. ASSUME NEW b \in Builders, Package(b) PROVE TypeOK'
  <2> DEFINE d == dir["final"]
             e == [d EXCEPT !.by = b, !.data = "partial", !.meta = "partial"]
  <2>1. d \in Directory /\ "package" \in Places
    BY <1>10 DEF Package, TypeOK, Places
  <2>2. [d EXCEPT !.by = b] \in Directory /\ e \in Directory
    <3>1. 0 \in Versions
      BY ArtifactAssumption DEF Versions
    <3> HIDE DEF d, e
    <3> QED BY <2>1, <3>1, DirectoryUpdates DEF e
  <2>3. CASE Puts(b, "package", [d EXCEPT !.by = b])
    BY <1>3, <2>1, <2>2, <2>3
  <2>4. CASE dir' = [dir EXCEPT !["package"] = e]
             /\ UNCHANGED <<program, source, pc, status, hashed, built>>
    <3> HIDE DEF e
    <3>1. dir' \in Dirs
      BY <2>1, <2>2, <2>4, DirUpdate
    <3> QED BY <2>4, <3>1 DEF TypeOK
  <2> QED BY <1>10, <2>3, <2>4 DEF Package
<1>11. ASSUME NEW b \in Builders, Return(b) \/ Raise(b) \/ Clean(b) \/ Crash(b) PROVE TypeOK'
  <2>1. status' \in [Builders -> {"running", "failing", "won", "failed", "crashed"}]
    BY <1>11 DEF Return, Raise, Clean, Crash, Ends, TypeOK
  <2>2. dir' \in Dirs
    BY <1>11 DEF Return, Raise, Clean, Crash, TypeOK
  <2> QED BY <1>11, <2>1, <2>2 DEF Return, Raise, Clean, Crash, Ends, TypeOK
<1>12. CASE Drift
  BY <1>12, ArtifactAssumption DEF Drift, TypeOK, Versions
<1>13. ASSUME NEW p \in Places, RemoveLeftover(p) PROVE TypeOK'
  BY <1>13 DEF RemoveLeftover, TypeOK
<1>14. CASE UNCHANGED vars
  BY <1>14 DEF vars, TypeOK
<1> QED BY <1>1, <1>2, <1>5, <1>6, <1>7, <1>8, <1>9, <1>10, <1>11, <1>12, <1>13, <1>14
        DEF Next, Step

LEMMA TypeInit == ASSUME Init PROVE TypeOK
BY ArtifactAssumption DEF Init, TypeOK, Versions

\* Every variable keeps its type, whatever the builders run.
THEOREM PublicationTypes == Spec => []TypeOK
BY TypeInit, TypeStep, PTL DEF Spec

-----------------------------------------------------------------------------
(* What careful programs and their steps are like.                         *)

LEMMA AfterNext ==
    ASSUME NEW p, NEW i \in Nat \ {0}, NEW kinds
    PROVE  After(p, i + 1, kinds) <=> After(p, i, kinds) \/ p.steps[i] \in kinds
BY DEF After

LEMMA PastNext ==
    ASSUME TypeOK, NEW b \in Builders, Advance(b), program' = program, NEW kinds
    PROVE  /\ Past(b, kinds)' <=> Past(b, kinds) \/ program.steps[pc[b]] \in kinds
           /\ \A c \in Builders \ {b} : Past(c, kinds)' <=> Past(c, kinds)
<1>1. pc[b] \in Nat \ {0} /\ pc'[b] = pc[b] + 1 /\ \A c \in Builders \ {b} : pc'[c] = pc[c]
  BY DEF TypeOK, Advance
<1> QED BY <1>1, AfterNext DEF Past

LEMMA LengthIsNat == ASSUME TypeOK PROVE Len(program.steps) \in Nat
BY ArtifactAssumption DEF TypeOK, Program

\* What is past has an index in the program.
LEMMA PastIndex ==
    ASSUME TypeOK, PcInProgram, NEW b \in Builders, NEW kinds, Past(b, kinds)
    PROVE  \E i \in 1 .. Len(program.steps) : i < pc[b] /\ program.steps[i] \in kinds
<1>1. pc[b] \in Nat /\ pc[b] <= Len(program.steps) + 1 /\ Len(program.steps) \in Nat
  BY LengthIsNat DEF TypeOK, PcInProgram
<1> QED BY <1>1 DEF Past, After

LEMMA CarefulStep ==
    ASSUME TypeOK, Careful, NEW i \in 1 .. Len(program.steps), NEW s, s = program.steps[i]
    PROVE  /\ s \notin {"create", "overwrite"}
           /\ i \in program.guarded \/ s \in {"data", "meta", "both", "handle", "publish"} =>
                  After(program, i, {"claim"}) /\ ~After(program, i, {"publish"})
           /\ s \in Writes("data") => ~After(program, i, Writes("data"))
           /\ s \in Writes("meta") => ~After(program, i, Writes("meta"))
           /\ s = "publish" => /\ program.place # "final"
                              /\ After(program, i, Writes("data"))
                              /\ After(program, i, Writes("meta"))
           /\ i \in program.guarded /\ program.place = "final" =>
                  ~After(program, i, Writes("data")) \/ ~After(program, i, Writes("meta"))
BY DEF Careful, CarefulPrograms

\* The same of the step a running builder takes.
LEMMA CarefulAt ==
    ASSUME TypeOK, Careful, NEW b \in Builders, NEW s, At(b, s)
    PROVE  /\ s \notin {"create", "overwrite"}
           /\ s \in {"data", "meta", "both", "handle", "publish"} => Owner(b)
           /\ s \in Writes("data") => ~Past(b, Writes("data"))
           /\ s \in Writes("meta") => ~Past(b, Writes("meta"))
           /\ s = "publish" => /\ program.place # "final"
                              /\ Past(b, Writes("data")) /\ Past(b, Writes("meta"))
<1>1. pc[b] \in 1 .. Len(program.steps) /\ s = program.steps[pc[b]] /\ status[b] = "running"
  BY LengthIsNat DEF At, TypeOK
<1> QED BY <1>1, CarefulStep DEF Owner, Past

\* Nothing is written before it is claimed, and only other places are renamed.
LEMMA CarefulPast ==
    ASSUME TypeOK, PcInProgram, Careful, NEW b \in Builders
    PROVE  /\ Past(b, Writes("data")) \/ Past(b, Writes("meta")) => Past(b, {"claim"})
           /\ Past(b, {"publish"}) => program.place # "final"
<1>1. ASSUME NEW kinds \in {Writes("data"), Writes("meta")}, Past(b, kinds)
      PROVE  Past(b, {"claim"})
  <2>1. PICK i \in 1 .. Len(program.steps) : i < pc[b] /\ program.steps[i] \in kinds
    BY <1>1, PastIndex
  <2>2. program.steps[i] \in {"data", "meta", "both", "handle"}
    BY <1>1, <2>1 DEF Writes
  <2>3. After(program, i, {"claim"})
    BY <2>2, CarefulStep
  <2>4. pc[b] \in Nat
    BY DEF TypeOK
  <2> QED BY <2>1, <2>3, <2>4 DEF After, Past
<1>2. ASSUME Past(b, {"publish"}) PROVE program.place # "final"
  <2>1. PICK i \in 1 .. Len(program.steps) : i < pc[b] /\ program.steps[i] \in {"publish"}
    BY <1>2, PastIndex
  <2> QED BY <2>1, CarefulStep
<1> QED BY <1>1, <1>2

\* A builder in its except block owns its place and has not completed it.
LEMMA CarefulFailing ==
    ASSUME TypeOK, PcInProgram, Careful, NEW b \in Builders, status[b] = "failing"
    PROVE  /\ Owner(b)
           /\ program.place = "final" => ~Past(b, Writes("data")) \/ ~Past(b, Writes("meta"))
           /\ Removes(b) \subseteq {Place(b)}
<1>1. pc[b] \in program.guarded /\ pc[b] \in 1 .. Len(program.steps)
  BY LengthIsNat DEF PcInProgram, TypeOK
<1>2. /\ Past(b, {"claim"}) /\ ~Past(b, {"publish"})
      /\ program.place = "final" => ~Past(b, Writes("data")) \/ ~Past(b, Writes("meta"))
  BY <1>1, CarefulStep DEF Past
<1>3. program.cleans \subseteq {"place"}
  BY DEF Careful, CarefulPrograms
<1>4. "claimed" \notin program.cleans /\ "final" \notin program.cleans
  BY <1>3
<1>5. Removes(b) \subseteq {Place(b)}
  BY <1>4 DEF Removes
<1> QED BY <1>2, <1>5 DEF Owner

\* Places of different kinds are different.
LEMMA PlaceIsFinal ==
    ASSUME TypeOK, NEW b \in Builders
    PROVE  /\ Place(b) \in Places /\ Place(b) # "package" /\ "final" \in Places
           /\ Place(b) = "final" <=> program.place = "final"
BY ArtifactAssumption DEF TypeOK, Place, Places, Program

\* A builder that owns its place owns it alone.
LEMMA OneOwner ==
    ASSUME OwnerHasPlace, NEW b \in Builders, NEW c \in Builders, Owner(b), Owner(c),
           Place(b) = Place(c)
    PROVE  b = c
BY DEF OwnerHasPlace, Mine

-----------------------------------------------------------------------------
(* What the actions do to the one place they change.                       *)

\* Nothing happens outside place p.
OnlyAt(p) == \A q \in Places \ {p} : dir'[q] = dir[q]

\* The parts that step s writes become part, the other ones stay.
PartsBecome(d, e, s, part) ==
    /\ e.data = IF s \in Writes("data") THEN part ELSE d.data
    /\ e.meta = IF s \in Writes("meta") THEN part ELSE d.meta

\* The data that step s writes are made from v, the metadata name w.
VersionsBecome(d, e, s, v, w) ==
    /\ e.from = IF s \in Writes("data") THEN v ELSE d.from
    /\ e.names = IF s \in Writes("meta") THEN w ELSE d.names

\* A step that writes in the place a builder has, or that begins to.
WritesInPlace(b, s) ==
    LET d == dir[Place(b)]
        e == dir'[Place(b)]
    IN  /\ At(b, s) /\ s \in {"data", "meta", "both", "handle"}
        /\ UNCHANGED <<program, status, source, hashed, built>>
        /\ OnlyAt(Place(b))
        /\ e # None /\ e.by = d.by
        /\ \/ /\ UNCHANGED pc /\ PartsBecome(d, e, s, "partial")
              /\ e.from = d.from /\ e.names = d.names
           \/ /\ Advance(b) /\ PartsBecome(d, e, s, "whole")
              /\ VersionsBecome(d, e, s, built[b], Named(b))

\* A directory of the same maker that holds the same versions.
Same(d, e) == e.by = d.by /\ e.from = d.from /\ e.names = d.names

LEMMA UpdatedFields ==
    ASSUME NEW d \in Directory, NEW v \in Versions, NEW w \in Versions
    PROVE  /\ LET e == [d EXCEPT !.data = "partial"]
              IN Same(d, e) /\ PartsBecome(d, e, "data", "partial")
           /\ LET e == [d EXCEPT !.meta = "partial"]
              IN Same(d, e) /\ PartsBecome(d, e, "meta", "partial")
           /\ LET e == [d EXCEPT !.data = "partial", !.meta = "partial"]
              IN Same(d, e) /\ PartsBecome(d, e, "both", "partial")
           /\ LET e == [d EXCEPT !.data = "whole", !.from = v]
              IN /\ e.by = d.by /\ PartsBecome(d, e, "data", "whole")
                 /\ VersionsBecome(d, e, "data", v, w)
           /\ LET e == [d EXCEPT !.meta = "whole", !.names = w]
              IN /\ e.by = d.by /\ PartsBecome(d, e, "meta", "whole")
                 /\ VersionsBecome(d, e, "meta", v, w)
BY DEF Directory, PartsBecome, VersionsBecome, Same, Writes

LEMMA FinishedFields ==
    ASSUME TypeOK, NEW b \in Builders, NEW d \in Directory
    PROVE  LET e == Finished(b, d)
           IN  /\ e.by = d.by
               /\ PartsBecome(d, e, "both", "whole") /\ PartsBecome(d, e, "handle", "whole")
               /\ VersionsBecome(d, e, "both", built[b], Named(b))
               /\ VersionsBecome(d, e, "handle", built[b], Named(b))
<1> DEFINE v == built[b]
           w == Named(b)
           e == [d EXCEPT !.data = "whole", !.meta = "whole", !.from = v, !.names = w]
<1>1. v \in Versions /\ w \in Versions /\ Finished(b, d) = e
  BY NamedVersion DEF TypeOK, Finished
<1>2. /\ e.by = d.by /\ PartsBecome(d, e, "both", "whole") /\ PartsBecome(d, e, "handle", "whole")
      /\ VersionsBecome(d, e, "both", v, w) /\ VersionsBecome(d, e, "handle", v, w)
  <2>1. v \in Versions /\ w \in Versions
    BY <1>1
  <2> HIDE DEF v, w
  <2> QED BY <2>1 DEF Directory, PartsBecome, VersionsBecome, Writes
<1> HIDE DEF e
<1> QED BY <1>1, <1>2

LEMMA WriteDataEffect ==
    ASSUME TypeOK, NEW b \in Builders, WriteData(b) PROVE WritesInPlace(b, "data")
<1> DEFINE p == Place(b)
           d == dir[p]
           e == [d EXCEPT !.data = "partial"]
           f == [d EXCEPT !.data = "whole", !.from = built[b]]
<1>1. d \in Directory /\ p \in Places /\ built[b] \in Versions /\ Named(b) \in Versions
  BY PlaceIsPlace, NamedVersion DEF WriteData, TypeOK
<1>2. /\ e \in Directory /\ Same(d, e) /\ PartsBecome(d, e, "data", "partial")
      /\ f \in Directory /\ f.by = d.by /\ PartsBecome(d, f, "data", "whole")
      /\ VersionsBecome(d, f, "data", built[b], Named(b))
  <2> HIDE DEF d
  <2> QED BY <1>1, DirectoryUpdates, UpdatedFields
<1>3. e # None /\ f # None
  BY <1>2, NoneAssumption
<1>4. At(b, "data") /\ UNCHANGED <<program, status, source, hashed, built>>
      /\ \/ UNCHANGED pc /\ dir' = [dir EXCEPT ![p] = e]
         \/ Advance(b) /\ dir' = [dir EXCEPT ![p] = f]
  BY DEF WriteData, Begin, Puts
<1> HIDE DEF e, f
<1> QED BY <1>1, <1>2, <1>3, <1>4, DirUpdate DEF WritesInPlace, OnlyAt, Same

LEMMA WriteMetaEffect ==
    ASSUME TypeOK, NEW b \in Builders, WriteMeta(b) PROVE WritesInPlace(b, "meta")
<1> DEFINE p == Place(b)
           d == dir[p]
           e == [d EXCEPT !.meta = "partial"]
           f == [d EXCEPT !.meta = "whole", !.names = Named(b)]
<1>1. d \in Directory /\ p \in Places /\ built[b] \in Versions /\ Named(b) \in Versions
  BY PlaceIsPlace, NamedVersion DEF WriteMeta, TypeOK
<1>2. /\ e \in Directory /\ Same(d, e) /\ PartsBecome(d, e, "meta", "partial")
      /\ f \in Directory /\ f.by = d.by /\ PartsBecome(d, f, "meta", "whole")
      /\ VersionsBecome(d, f, "meta", built[b], Named(b))
  <2> HIDE DEF d
  <2> QED BY <1>1, DirectoryUpdates, UpdatedFields
<1>3. e # None /\ f # None
  BY <1>2, NoneAssumption
<1>4. At(b, "meta") /\ UNCHANGED <<program, status, source, hashed, built>>
      /\ \/ UNCHANGED pc /\ dir' = [dir EXCEPT ![p] = e]
         \/ Advance(b) /\ dir' = [dir EXCEPT ![p] = f]
  BY DEF WriteMeta, Begin, Puts
<1> HIDE DEF e, f
<1> QED BY <1>1, <1>2, <1>3, <1>4, DirUpdate DEF WritesInPlace, OnlyAt, Same

LEMMA WriteBothEffect ==
    ASSUME TypeOK, NEW b \in Builders, WriteBoth(b) PROVE WritesInPlace(b, "both")
<1> DEFINE p == Place(b)
           d == dir[p]
           e == [d EXCEPT !.data = "partial", !.meta = "partial"]
           f == Finished(b, d)
<1>1. d \in Directory /\ p \in Places /\ 0 \in Versions
  BY PlaceIsPlace, ArtifactAssumption DEF WriteBoth, TypeOK, Versions
<1>2. /\ e \in Directory /\ Same(d, e) /\ PartsBecome(d, e, "both", "partial")
      /\ f \in Directory /\ f.by = d.by /\ PartsBecome(d, f, "both", "whole")
      /\ VersionsBecome(d, f, "both", built[b], Named(b))
  <2> HIDE DEF d
  <2> QED BY <1>1, DirectoryUpdates, UpdatedFields, FinishedDirectory, FinishedFields
<1>3. e # None /\ f # None
  BY <1>2, NoneAssumption
<1>4. At(b, "both") /\ UNCHANGED <<program, status, source, hashed, built>>
      /\ \/ UNCHANGED pc /\ dir' = [dir EXCEPT ![p] = e]
         \/ Advance(b) /\ dir' = [dir EXCEPT ![p] = f]
  BY DEF WriteBoth, Begin, Puts
<1> HIDE DEF e, f
<1> QED BY <1>1, <1>2, <1>3, <1>4, DirUpdate DEF WritesInPlace, OnlyAt, Same

LEMMA WriteHandleEffect ==
    ASSUME TypeOK, NEW b \in Builders, Mine(b, Place(b)), WriteHandle(b)
    PROVE  WritesInPlace(b, "handle")
<1> DEFINE p == Place(b)
           d == dir[p]
           f == Finished(b, d)
<1>1. d \in Directory /\ p \in Places
  BY PlaceIsPlace DEF Mine, TypeOK
<1>2. /\ f \in Directory /\ f.by = d.by /\ PartsBecome(d, f, "handle", "whole")
      /\ VersionsBecome(d, f, "handle", built[b], Named(b))
  <2> HIDE DEF d
  <2> QED BY <1>1, FinishedDirectory, FinishedFields
<1>3. f # None
  BY <1>2, NoneAssumption
<1>4. At(b, "handle") /\ UNCHANGED <<program, status, source, hashed, built>>
      /\ Advance(b) /\ dir' = [dir EXCEPT ![p] = f]
  BY DEF WriteHandle, Puts
<1> HIDE DEF f
<1> QED BY <1>1, <1>2, <1>3, <1>4, DirUpdate DEF WritesInPlace, OnlyAt, Same

LEMMA ClaimEffect ==
    ASSUME TypeOK, NEW b \in Builders, Claim(b)
    PROVE  /\ At(b, "claim") /\ Advance(b) /\ UNCHANGED <<program, status>>
           /\ dir[Place(b)] = None
           /\ OnlyAt(Place(b))
           /\ Mine(b, Place(b))'
           /\ dir'[Place(b)].data = "absent" /\ dir'[Place(b)].meta = "absent"
<1> DEFINE f == Fresh(b, "absent")
<1>1. f \in Directory /\ f # None
  BY FreshDirectory, NoneAssumption
<1>2. f.by = b /\ f.data = "absent" /\ f.meta = "absent"
  BY DEF Fresh
<1>3. /\ At(b, "claim") /\ Advance(b) /\ UNCHANGED <<program, status>>
      /\ dir[Place(b)] = None /\ dir' = [dir EXCEPT ![Place(b)] = f]
  BY DEF Claim, Puts
<1>4. Place(b)' = Place(b)
  BY <1>3 DEF Place
<1> HIDE DEF f
<1> QED BY <1>1, <1>2, <1>3, <1>4, PlaceIsPlace, DirUpdate DEF OnlyAt, Mine

LEMMA PublishEffect ==
    ASSUME TypeOK, NEW b \in Builders, Publish(b), program.place # "final"
    PROVE  /\ At(b, "publish") /\ Advance(b) /\ UNCHANGED <<program, status>>
           /\ dir["final"] = None /\ dir[Place(b)] # None
           /\ dir'["final"] = dir[Place(b)]
           /\ \A q \in Places \ {"final", Place(b)} : dir'[q] = dir[q]
BY PlaceIsFinal DEF Publish, TypeOK

\* The place that is renamed is gone.
LEMMA PublishMoves ==
    ASSUME TypeOK, NEW b \in Builders, Publish(b), program.place # "final"
    PROVE  /\ At(b, "publish") /\ Advance(b) /\ UNCHANGED <<program, status>>
           /\ dir[Place(b)] # None
           /\ dir'["final"] = dir[Place(b)] /\ dir'[Place(b)] = None
           /\ \A q \in Places \ {"final", Place(b)} : dir'[q] = dir[q]
<1>1. Place(b) \in Places /\ Place(b) # "final" /\ dir \in [Places -> Directory \cup {None}]
  BY PlaceIsFinal DEF TypeOK
<1>2. dir'[Place(b)] = None
  BY <1>1 DEF Publish
<1> QED BY <1>2, PublishEffect

LEMMA PackageEffect ==
    ASSUME TypeOK, NEW b \in Builders, Package(b)
    PROVE  /\ At(b, "package") /\ UNCHANGED <<program, status>>
           /\ OnlyAt("package")
           /\ UNCHANGED pc \/ Advance(b)
<1> "package" \in Places
  BY DEF Places
<1> QED BY DEF Package, Puts, OnlyAt, TypeOK

\* The steps that only read, or only remember what they read.
LEMMA ReadEffect ==
    ASSUME NEW b \in Builders, Check(b) \/ Hash(b) \/ Build(b)
    PROVE  /\ \E s \in {"verify", "recheck", "look", "lookStaging", "lookPackage", "load",
                        "audit", "hash", "build"} : At(b, s)
           /\ Advance(b) /\ UNCHANGED <<program, status, dir>>
BY DEF Check, Passes, Hash, Build

-----------------------------------------------------------------------------
(* The invariant is inductive.                                             *)

LEMMA InvInit == ASSUME Init PROVE PublicationInv
<1>1. TypeOK
  BY TypeInit
<1>2. PcInProgram
  <2> DEFINE n == Len(program.steps)
  <2>1. n \in Nat
    BY <1>1, LengthIsNat
  <2>2. \A b \in Builders : pc[b] = 1 /\ status[b] # "failing"
    BY DEF Init
  <2>3. 1 <= n + 1
    BY <2>1
  <2> HIDE DEF n
  <2>4. \A b \in Builders : pc[b] <= n + 1
    BY <2>2, <2>3
  <2> QED BY <2>2, <2>4 DEF PcInProgram, n
<1>3. \A b \in Builders : \A kinds : ~Past(b, kinds)
  BY DEF Init, Past, After
<1>4. dir["final"] = None
  BY DEF Init, Places
<1>5. CarefulInv
  BY <1>3, <1>4 DEF CarefulInv, OwnerHasPlace, Owner, PublisherHasFinal, RenamedIsWhole,
                    WholeIsWritten
<1> QED BY <1>1, <1>2, <1>5 DEF PublicationInv

\* Program counters stay in the program, and only guarded steps lead to except blocks.
LEMMA PcStep == ASSUME TypeOK, PcInProgram, [Next]_vars PROVE PcInProgram'
<1>1. Len(program.steps) \in Nat /\ \A b \in Builders : pc[b] \in Nat
  BY LengthIsNat DEF TypeOK
<1>2. ASSUME NEW b \in Builders, status[b] = "running", pc[b] <= Len(program.steps), Advance(b),
             UNCHANGED <<program, status>>
      PROVE  PcInProgram'
  BY <1>1, <1>2 DEF PcInProgram, Advance, TypeOK
<1>3. ASSUME UNCHANGED <<program, pc, status>> PROVE PcInProgram'
  BY <1>3 DEF PcInProgram
<1>4. ASSUME NEW b \in Builders, Check(b) \/ Hash(b) \/ Build(b) PROVE PcInProgram'
  BY <1>2, <1>4 DEF Check, Passes, Hash, Build, At
<1>5. ASSUME NEW b \in Builders,
             Claim(b) \/ WriteHandle(b) \/ Publish(b) \/ Create(b) \/ Overwrite(b)
      PROVE  PcInProgram'
  BY <1>2, <1>5 DEF Claim, WriteHandle, Publish, Create, Overwrite, Puts, At
<1>6. ASSUME NEW b \in Builders, WriteData(b) \/ WriteMeta(b) \/ WriteBoth(b) \/ Package(b)
      PROVE  PcInProgram'
  BY <1>2, <1>3, <1>6 DEF WriteData, WriteMeta, WriteBoth, Package, Puts, Begin, At
<1>7. ASSUME NEW b \in Builders, Return(b) \/ Raise(b) \/ Clean(b) \/ Crash(b)
      PROVE  PcInProgram'
  BY <1>1, <1>7 DEF Return, Raise, Clean, Crash, Ends, PcInProgram, TypeOK
<1>8. CASE Drift \/ (\E p \in Places : RemoveLeftover(p)) \/ UNCHANGED vars
  BY <1>3, <1>8 DEF Drift, RemoveLeftover, vars
<1> QED BY <1>4, <1>5, <1>6, <1>7, <1>8 DEF Next, Step

\* Writing in one's own place.
LEMMA WritesStep ==
    ASSUME TypeOK, PcInProgram, Careful, CarefulInv, NEW b \in Builders, NEW s,
           WritesInPlace(b, s)
    PROVE  CarefulInv'
<1> DEFINE p == Place(b)
<1>1. /\ Owner(b) /\ Mine(b, p) /\ s \in {"data", "meta", "both", "handle"}
      /\ s = program.steps[pc[b]]
      /\ s \in Writes("data") => ~Past(b, Writes("data"))
      /\ s \in Writes("meta") => ~Past(b, Writes("meta"))
  BY CarefulAt DEF WritesInPlace, CarefulInv, OwnerHasPlace, At
<1>2. \A c \in Builders : Place(c)' = Place(c) /\ Place(c) \in Places
  BY PlaceIsPlace DEF WritesInPlace, Place
<1>3. /\ dir'[p] # None /\ dir'[p].by = b
      /\ \A q \in Places \ {p} : dir'[q] = dir[q]
  BY <1>1 DEF WritesInPlace, OnlyAt, Mine
<1>4. \A c \in Builders \ {b} : \A kinds : Past(c, kinds)' <=> Past(c, kinds)
  BY PastNext DEF WritesInPlace, Past
<1>5. \A kinds : Past(b, kinds)' <=> Past(b, kinds) \/ (Advance(b) /\ s \in kinds)
  BY <1>1, PastNext DEF WritesInPlace, Past
<1>6. OwnerHasPlace'
  <2> SUFFICES ASSUME NEW c \in Builders, Owner(c)'
               PROVE  /\ Mine(c, Place(c))'
                      /\ Past(c, Writes("data"))' => dir'[Place(c)'].data = "whole"
                      /\ Past(c, Writes("meta"))' => dir'[Place(c)'].meta = "whole"
    BY DEF OwnerHasPlace
  <2>1. CASE c # b
    <3>1. Owner(c)
      BY <1>4, <2>1 DEF Owner, WritesInPlace
    <3>2. Place(c) # p
      BY <1>1, <2>1, <3>1, OneOwner DEF CarefulInv
    <3>3. dir'[Place(c)] = dir[Place(c)]
      BY <1>2, <1>3, <3>2
    <3> QED BY <1>2, <1>4, <2>1, <3>1, <3>3 DEF CarefulInv, OwnerHasPlace, Mine
  <2>2. CASE c = b
    <3>1. Mine(b, p)'
      BY <1>2, <1>3 DEF Mine
    <3>2. /\ Past(b, Writes("data")) => dir[p].data = "whole"
          /\ Past(b, Writes("meta")) => dir[p].meta = "whole"
      BY <1>1 DEF CarefulInv, OwnerHasPlace
    <3>3. ~Advance(b) => PartsBecome(dir[p], dir'[p], s, "partial")
      BY DEF WritesInPlace
    <3>4. Advance(b) => PartsBecome(dir[p], dir'[p], s, "whole")
      BY DEF WritesInPlace, Advance, TypeOK
    <3> QED BY <1>1, <1>2, <1>5, <2>2, <3>1, <3>2, <3>3, <3>4 DEF PartsBecome
  <2> QED BY <2>1, <2>2
<1>7. PublisherHasFinal'
  <2> SUFFICES ASSUME NEW c \in Builders, Past(c, {"publish"})'
               PROVE  Mine(c, "final")'
    BY DEF PublisherHasFinal
  <2>1. Past(c, {"publish"})
    BY <1>1, <1>4, <1>5
  <2>2. Mine(c, "final")
    BY <2>1 DEF CarefulInv, PublisherHasFinal
  <2> QED BY <1>1, <1>3, <2>2, PlaceIsFinal DEF Mine
<1>8. RenamedIsWhole'
  <2>1. program.place # "final" => dir'["final"] = dir["final"]
    BY <1>3, PlaceIsFinal
  <2> QED BY <2>1 DEF RenamedIsWhole, CarefulInv, WritesInPlace, Whole
<1>9. WholeIsWritten'
  <2> SUFFICES ASSUME program.place = "final"
               PROVE  /\ dir'["final"].data = "whole" => Past(b, Writes("data"))'
                      /\ dir'["final"].meta = "whole" => Past(b, Writes("meta"))'
    BY <1>3, PlaceIsFinal DEF WholeIsWritten, WritesInPlace
  <2>1. p = "final" /\ dir["final"] # None /\ dir["final"].by = b
    BY <1>1, PlaceIsFinal DEF Mine
  <2>2. /\ dir["final"].data = "whole" => Past(b, Writes("data"))
        /\ dir["final"].meta = "whole" => Past(b, Writes("meta"))
    BY <2>1 DEF CarefulInv, WholeIsWritten
  <2>3. ~Advance(b) => PartsBecome(dir["final"], dir'["final"], s, "partial")
    BY <2>1 DEF WritesInPlace
  <2>4. Advance(b) => PartsBecome(dir["final"], dir'["final"], s, "whole")
    BY <2>1 DEF WritesInPlace, Advance, TypeOK
  <2> QED BY <1>5, <2>2, <2>3, <2>4 DEF PartsBecome
<1> QED BY <1>6, <1>7, <1>8, <1>9 DEF CarefulInv

\* A directory nobody has is claimed.
LEMMA ClaimStep ==
    ASSUME TypeOK, PcInProgram, Careful, CarefulInv, NEW b \in Builders, Claim(b)
    PROVE  CarefulInv'
<1> DEFINE p == Place(b)
<1>1. /\ At(b, "claim") /\ Advance(b) /\ UNCHANGED <<program, status>>
      /\ dir[p] = None /\ Mine(b, p)'
      /\ dir'[p].data = "absent" /\ dir'[p].meta = "absent"
      /\ \A q \in Places \ {p} : dir'[q] = dir[q]
  BY ClaimEffect DEF OnlyAt
<1>2. \A c \in Builders : Place(c)' = Place(c) /\ Place(c) \in Places
  BY <1>1, PlaceIsPlace DEF Place
<1>3. \A c \in Builders \ {b} : \A kinds : Past(c, kinds)' <=> Past(c, kinds)
  BY <1>1, PastNext
<1>4. \A kinds : "claim" \notin kinds => (Past(b, kinds)' <=> Past(b, kinds))
  BY <1>1, PastNext DEF At
<1>5. Owner(b)' => ~Past(b, Writes("data")) /\ ~Past(b, Writes("meta"))
  <2>1. ~Owner(b)
    BY <1>1 DEF CarefulInv, OwnerHasPlace, Mine
  <2>2. Past(b, {"claim"}) => Past(b, {"publish"})
    BY <1>1, <2>1 DEF At, Owner
  <2>3. Owner(b)' => ~Past(b, {"publish"})
    BY <1>4 DEF Owner
  <2> QED BY <2>2, <2>3, CarefulPast
<1>6. OwnerHasPlace'
  <2> SUFFICES ASSUME NEW c \in Builders, Owner(c)'
               PROVE  /\ Mine(c, Place(c))'
                      /\ Past(c, Writes("data"))' => dir'[Place(c)'].data = "whole"
                      /\ Past(c, Writes("meta"))' => dir'[Place(c)'].meta = "whole"
    BY DEF OwnerHasPlace
  <2>1. CASE c # b
    <3>1. Owner(c)
      BY <1>1, <1>3, <2>1 DEF Owner
    <3>2. Place(c) # p
      BY <1>1, <3>1 DEF CarefulInv, OwnerHasPlace, Mine
    <3>3. dir'[Place(c)] = dir[Place(c)]
      BY <1>1, <1>2, <3>2
    <3> QED BY <1>2, <1>3, <2>1, <3>1, <3>3 DEF CarefulInv, OwnerHasPlace, Mine
  <2>2. CASE c = b
    <3>1. "claim" \notin Writes("data") /\ "claim" \notin Writes("meta")
      BY DEF Writes
    <3> QED BY <1>1, <1>2, <1>4, <1>5, <2>2, <3>1
  <2> QED BY <2>1, <2>2
<1>7. PublisherHasFinal'
  <2> SUFFICES ASSUME NEW c \in Builders, Past(c, {"publish"})'
               PROVE  Mine(c, "final")'
    BY DEF PublisherHasFinal
  <2>1. Past(c, {"publish"})
    BY <1>3, <1>4
  <2>2. Mine(c, "final")
    BY <2>1 DEF CarefulInv, PublisherHasFinal
  <2> QED BY <1>1, <2>2, PlaceIsFinal DEF Mine
<1>8. RenamedIsWhole'
  <2>1. program.place # "final" => dir'["final"] = dir["final"]
    BY <1>1, PlaceIsFinal
  <2> QED BY <1>1, <2>1 DEF RenamedIsWhole, CarefulInv, Whole
<1>9. WholeIsWritten'
  BY <1>1, PlaceIsFinal DEF WholeIsWritten
<1> QED BY <1>6, <1>7, <1>8, <1>9 DEF CarefulInv

\* The rename of a whole directory.
LEMMA PublishStep ==
    ASSUME TypeOK, PcInProgram, Careful, CarefulInv, NEW b \in Builders, Publish(b)
    PROVE  CarefulInv'
<1> DEFINE p == Place(b)
<1>1. /\ program.place # "final" /\ Owner(b)
      /\ Past(b, Writes("data")) /\ Past(b, Writes("meta"))
  BY CarefulAt DEF Publish
<1>2. /\ At(b, "publish") /\ Advance(b) /\ UNCHANGED <<program, status>>
      /\ dir["final"] = None
      /\ dir'["final"] = dir[p]
      /\ \A q \in Places \ {"final", p} : dir'[q] = dir[q]
  BY <1>1, PublishEffect
<1>3. Mine(b, p) /\ Whole(dir[p])
  BY <1>1 DEF CarefulInv, OwnerHasPlace, Whole
<1>4. \A c \in Builders :
         Place(c)' = Place(c) /\ Place(c) \in Places /\ Place(c) # "final"
  BY <1>1, <1>2, PlaceIsFinal DEF Place
<1>5. \A c \in Builders \ {b} : \A kinds : Past(c, kinds)' <=> Past(c, kinds)
  BY <1>2, PastNext
<1>6. OwnerHasPlace'
  <2> SUFFICES ASSUME NEW c \in Builders, Owner(c)'
               PROVE  /\ Mine(c, Place(c))'
                      /\ Past(c, Writes("data"))' => dir'[Place(c)'].data = "whole"
                      /\ Past(c, Writes("meta"))' => dir'[Place(c)'].meta = "whole"
    BY DEF OwnerHasPlace
  <2>1. c # b
    BY <1>2, PastNext DEF Owner, At
  <2>2. Owner(c)
    BY <1>2, <1>5, <2>1 DEF Owner
  <2>3. Place(c) # p
    BY <1>1, <2>1, <2>2, OneOwner DEF CarefulInv
  <2>4. dir'[Place(c)] = dir[Place(c)]
    BY <1>2, <1>4, <2>3
  <2> QED BY <1>4, <1>5, <2>1, <2>2, <2>4 DEF CarefulInv, OwnerHasPlace, Mine
<1>7. PublisherHasFinal'
  <2> SUFFICES ASSUME NEW c \in Builders, Past(c, {"publish"})'
               PROVE  Mine(c, "final")'
    BY DEF PublisherHasFinal
  <2>1. c = b
    BY <1>2, <1>5 DEF CarefulInv, PublisherHasFinal, Mine
  <2> QED BY <1>2, <1>3, <2>1 DEF Mine
<1>8. RenamedIsWhole'
  BY <1>2, <1>3 DEF RenamedIsWhole, Whole
<1>9. WholeIsWritten'
  BY <1>1, <1>2 DEF WholeIsWritten
<1> QED BY <1>6, <1>7, <1>8, <1>9 DEF CarefulInv

\* A step that touches no place and nothing the invariant looks at.
LEMMA QuietStep ==
    ASSUME TypeOK, PcInProgram, CarefulInv, program' = program,
           \A q \in Places \ {"package"} : dir'[q] = dir[q],
           \A c \in Builders :
               /\ Owner(c)' => Owner(c)
               /\ \A kinds \in {Writes("data"), Writes("meta"), {"publish"}} :
                      Past(c, kinds)' <=> Past(c, kinds)
    PROVE  CarefulInv'
<1>1. \A c \in Builders :
         /\ Place(c)' = Place(c) /\ Place(c) \in Places \ {"package"}
         /\ Past(c, Writes("data"))' <=> Past(c, Writes("data"))
         /\ Past(c, Writes("meta"))' <=> Past(c, Writes("meta"))
         /\ Past(c, {"publish"})' <=> Past(c, {"publish"})
  BY PlaceIsFinal DEF Place
<1>2. dir'["final"] = dir["final"]
  BY DEF Places
<1>3. OwnerHasPlace'
  <2> SUFFICES ASSUME NEW c \in Builders, Owner(c)'
               PROVE  /\ Mine(c, Place(c))'
                      /\ Past(c, Writes("data"))' => dir'[Place(c)'].data = "whole"
                      /\ Past(c, Writes("meta"))' => dir'[Place(c)'].meta = "whole"
    BY DEF OwnerHasPlace
  <2>1. dir'[Place(c)] = dir[Place(c)]
    BY <1>1
  <2> QED BY <1>1, <2>1 DEF CarefulInv, OwnerHasPlace, Mine
<1>4. PublisherHasFinal'
  BY <1>1, <1>2 DEF CarefulInv, PublisherHasFinal, Mine
<1>5. RenamedIsWhole'
  BY <1>2 DEF CarefulInv, RenamedIsWhole, Whole
<1>6. WholeIsWritten'
  <2> SUFFICES ASSUME program.place = "final", dir["final"] # None
               PROVE  /\ dir["final"].data = "whole" => Past(dir["final"].by, Writes("data"))'
                      /\ dir["final"].meta = "whole" => Past(dir["final"].by, Writes("meta"))'
    BY <1>2 DEF WholeIsWritten
  <2>1. dir["final"].by \in Builders
    BY DEF TypeOK, Places, Directory
  <2> QED BY <1>1, <1>2, <2>1 DEF CarefulInv, WholeIsWritten
<1> QED BY <1>3, <1>4, <1>5, <1>6 DEF CarefulInv

LEMMA ReadStep ==
    ASSUME TypeOK, PcInProgram, CarefulInv, NEW b \in Builders,
           Check(b) \/ Hash(b) \/ Build(b) \/ Package(b)
    PROVE  CarefulInv'
<1>1. PICK s : /\ s \notin {"claim", "publish", "data", "meta", "both", "handle"}
               /\ At(b, s) /\ UNCHANGED <<program, status>>
               /\ \A q \in Places \ {"package"} : dir'[q] = dir[q]
               /\ UNCHANGED pc \/ Advance(b)
  <2>1. CASE Check(b) \/ Hash(b) \/ Build(b)
    BY <2>1, ReadEffect
  <2>2. CASE Package(b)
    BY <2>2, PackageEffect DEF OnlyAt
  <2> QED BY <2>1, <2>2
<1>2. \A c \in Builders : \A kinds :
         s \notin kinds => (Past(c, kinds)' <=> Past(c, kinds))
  <2>1. CASE UNCHANGED pc
    BY <1>1, <2>1 DEF Past
  <2>2. CASE Advance(b)
    BY <1>1, <2>2, PastNext DEF At
  <2> QED BY <1>1, <2>1, <2>2
<1>3. /\ s \notin {"claim"} /\ s \notin {"publish"}
      /\ s \notin Writes("data") /\ s \notin Writes("meta")
  BY <1>1 DEF Writes
<1> QED BY <1>1, <1>2, <1>3, QuietStep DEF Owner

\* A builder that ends without touching a directory.
LEMMA EndStep ==
    ASSUME TypeOK, PcInProgram, CarefulInv, NEW b \in Builders, Return(b) \/ Raise(b) \/ Crash(b)
    PROVE  CarefulInv'
<1>1. UNCHANGED <<program, dir, pc>>
  BY DEF Return, Raise, Crash, Ends
<1>2. \A c \in Builders :
         status'[c] \in {"running", "failing"} => status[c] \in {"running", "failing"}
  BY DEF Return, Raise, Crash, Ends, TypeOK
<1>3. \A c \in Builders : \A kinds : Past(c, kinds)' <=> Past(c, kinds)
  BY <1>1 DEF Past
<1> QED BY <1>1, <1>2, <1>3, QuietStep DEF Owner

\* The except block removes at most what its builder owns.
LEMMA CleanStep ==
    ASSUME TypeOK, PcInProgram, Careful, CarefulInv, NEW b \in Builders, Clean(b)
    PROVE  CarefulInv'
<1> DEFINE p == Place(b)
<1>1. /\ status[b] = "failing" /\ UNCHANGED <<program, pc>>
      /\ status' = [status EXCEPT ![b] = "failed"]
      /\ dir' = [q \in Places |-> IF q \in Removes(b) THEN None ELSE dir[q]]
  BY DEF Clean, Ends
<1>2. Owner(b) /\ Removes(b) \subseteq {p}
  BY <1>1, CarefulFailing
<1>3. /\ \A q \in Places \ {p} : dir'[q] = dir[q]
      /\ dir'[p] \in {dir[p], None}
  BY <1>1, <1>2, PlaceIsPlace
<1>4. /\ \A c \in Builders : Place(c)' = Place(c) /\ Place(c) \in Places
      /\ \A c \in Builders : \A kinds : Past(c, kinds)' <=> Past(c, kinds)
  BY <1>1, PlaceIsPlace DEF Place, Past
<1>5. OwnerHasPlace'
  <2> SUFFICES ASSUME NEW c \in Builders, Owner(c)'
               PROVE  /\ Mine(c, Place(c))'
                      /\ Past(c, Writes("data"))' => dir'[Place(c)'].data = "whole"
                      /\ Past(c, Writes("meta"))' => dir'[Place(c)'].meta = "whole"
    BY DEF OwnerHasPlace
  <2>1. c # b /\ Owner(c)
    BY <1>1, <1>4 DEF Owner, TypeOK
  <2>2. Place(c) # p
    BY <1>2, <2>1, OneOwner DEF CarefulInv
  <2>3. dir'[Place(c)] = dir[Place(c)]
    BY <1>3, <1>4, <2>2
  <2> QED BY <1>4, <2>1, <2>3 DEF CarefulInv, OwnerHasPlace, Mine
<1>6. PublisherHasFinal'
  <2> SUFFICES ASSUME NEW c \in Builders, Past(c, {"publish"})
               PROVE  Mine(c, "final")'
    BY <1>4 DEF PublisherHasFinal
  <2>1. p # "final"
    BY CarefulPast, PlaceIsFinal
  <2> QED BY <1>3, <2>1, PlaceIsFinal DEF CarefulInv, PublisherHasFinal, Mine
<1>7. RenamedIsWhole'
  <2>1. program.place # "final" => dir'["final"] = dir["final"]
    BY <1>3, PlaceIsFinal
  <2> QED BY <1>1, <2>1 DEF RenamedIsWhole, CarefulInv, Whole
<1>8. WholeIsWritten'
  <2>1. dir'["final"] \in {dir["final"], None}
    BY <1>3, PlaceIsFinal
  <2> SUFFICES ASSUME program.place = "final", dir["final"] # None,
                      dir'["final"] = dir["final"]
               PROVE  /\ dir["final"].data = "whole" => Past(dir["final"].by, Writes("data"))'
                      /\ dir["final"].meta = "whole" => Past(dir["final"].by, Writes("meta"))'
    BY <1>1, <2>1 DEF WholeIsWritten
  <2>2. dir["final"].by \in Builders
    BY DEF TypeOK, Places, Directory
  <2> QED BY <1>4, <2>2 DEF CarefulInv, WholeIsWritten
<1> QED BY <1>5, <1>6, <1>7, <1>8 DEF CarefulInv

\* While somebody removes a leftover nobody owns anything.
LEMMA RemoveStep ==
    ASSUME TypeOK, PcInProgram, Careful, CarefulInv, NEW p \in Places, RemoveLeftover(p)
    PROVE  CarefulInv'
<1>1. /\ UNCHANGED <<program, pc, status>>
      /\ dir' = [dir EXCEPT ![p] = None]
      /\ p = "final" => ~Whole(dir["final"])
      /\ \A c \in Builders : ~Alive(c)
  BY DEF RemoveLeftover
<1>2. \A c \in Builders : ~Owner(c)'
  <2> SUFFICES ASSUME NEW c \in Builders, Owner(c) PROVE FALSE
    BY <1>1 DEF Owner, Past
  <2>1. pc[c] > 1
    <3>1. PICK i \in 1 .. Len(program.steps) : i < pc[c]
      BY PastIndex DEF Owner
    <3>2. i \in Nat /\ i >= 1 /\ pc[c] \in Nat
      BY LengthIsNat DEF TypeOK
    <3> QED BY <3>1, <3>2
  <2> QED BY <1>1, <2>1 DEF Owner, Alive
<1>3. \A c \in Builders : \A kinds : Past(c, kinds)' <=> Past(c, kinds)
  BY <1>1 DEF Past
<1>4. dir'["final"] = IF p = "final" THEN None ELSE dir["final"]
  BY <1>1 DEF TypeOK, Places
<1>5. OwnerHasPlace'
  BY <1>2 DEF OwnerHasPlace
<1>6. PublisherHasFinal'
  <2> SUFFICES ASSUME NEW c \in Builders, Past(c, {"publish"})
               PROVE  Mine(c, "final")'
    BY <1>3 DEF PublisherHasFinal
  <2>1. Mine(c, "final") /\ Whole(dir["final"])
    BY CarefulPast DEF CarefulInv, PublisherHasFinal, RenamedIsWhole, Mine
  <2> QED BY <1>1, <1>4, <2>1 DEF Mine
<1>7. RenamedIsWhole'
  BY <1>1, <1>4 DEF RenamedIsWhole, CarefulInv, Whole
<1>8. WholeIsWritten'
  <2> SUFFICES ASSUME program.place = "final", dir["final"] # None,
                      dir'["final"] = dir["final"]
               PROVE  /\ dir["final"].data = "whole" => Past(dir["final"].by, Writes("data"))'
                      /\ dir["final"].meta = "whole" => Past(dir["final"].by, Writes("meta"))'
    BY <1>1, <1>4 DEF WholeIsWritten
  <2>1. dir["final"].by \in Builders
    BY DEF TypeOK, Places, Directory
  <2> QED BY <1>3, <2>1 DEF CarefulInv, WholeIsWritten
<1> QED BY <1>5, <1>6, <1>7, <1>8 DEF CarefulInv

LEMMA InvStep == ASSUME PublicationInv, [Next]_vars PROVE PublicationInv'
<1>1. TypeOK' /\ PcInProgram' /\ TypeOK /\ PcInProgram
  BY TypeStep, PcStep DEF PublicationInv
<1>2. program' = program
  BY DEF Next, Step, Check, Passes, Hash, Build, Claim, WriteData, WriteMeta, WriteBoth,
         WriteHandle, Publish, Create, Overwrite, Package, Puts, Begin, Return, Raise, Clean,
         Crash, Ends, RemoveLeftover, Drift, vars
<1> SUFFICES ASSUME Careful PROVE CarefulInv'
  BY <1>1, <1>2 DEF PublicationInv, Careful
<1>3. CarefulInv
  BY DEF PublicationInv
<1>4. ASSUME NEW b \in Builders, Check(b) \/ Hash(b) \/ Build(b) \/ Package(b)
      PROVE  CarefulInv'
  BY <1>1, <1>3, <1>4, ReadStep
<1>5. ASSUME NEW b \in Builders, Claim(b) PROVE CarefulInv'
  BY <1>1, <1>3, <1>5, ClaimStep
<1>6. ASSUME NEW b \in Builders, WriteData(b) \/ WriteMeta(b) \/ WriteBoth(b)
      PROVE  CarefulInv'
  BY <1>1, <1>3, <1>6, WriteDataEffect, WriteMetaEffect, WriteBothEffect, WritesStep
<1>7. ASSUME NEW b \in Builders, WriteHandle(b) PROVE CarefulInv'
  <2>1. Mine(b, Place(b))
    BY <1>1, <1>3, <1>7, CarefulAt DEF WriteHandle, CarefulInv, OwnerHasPlace
  <2> QED BY <1>1, <1>3, <1>7, <2>1, WriteHandleEffect, WritesStep
<1>8. ASSUME NEW b \in Builders, Publish(b) PROVE CarefulInv'
  BY <1>1, <1>3, <1>8, PublishStep
<1>9. ASSUME NEW b \in Builders, Create(b) \/ Overwrite(b) PROVE CarefulInv'
  BY <1>1, <1>9, CarefulAt DEF Create, Overwrite
<1>10. ASSUME NEW b \in Builders, Return(b) \/ Raise(b) \/ Crash(b) PROVE CarefulInv'
  BY <1>1, <1>3, <1>10, EndStep
<1>11. ASSUME NEW b \in Builders, Clean(b) PROVE CarefulInv'
  BY <1>1, <1>3, <1>11, CleanStep
<1>12. ASSUME NEW p \in Places, RemoveLeftover(p) PROVE CarefulInv'
  BY <1>1, <1>3, <1>12, RemoveStep
<1>13. CASE Drift \/ UNCHANGED vars
  BY <1>1, <1>3, <1>13, QuietStep DEF Drift, vars, Owner, Past
<1> QED BY <1>4, <1>5, <1>6, <1>7, <1>8, <1>9, <1>10, <1>11, <1>12, <1>13 DEF Next, Step

\* The inductive invariant holds for any builders and programs.
THEOREM PublicationInvariant == Spec => []PublicationInv
BY InvInit, InvStep, PTL DEF Spec

LEMMA DoneIsPast ==
    ASSUME TypeOK, PcInProgram, NEW b \in Builders, NEW s
    PROVE  Done(b, s) <=> Past(b, {s})
<1>1. Past(b, {s}) => Done(b, s)
  BY PastIndex DEF Done
<1>2. ASSUME Done(b, s) PROVE Past(b, {s})
  <2>1. PICK i \in 1 .. Len(program.steps) : i < pc[b] /\ program.steps[i] = s
    BY <1>2 DEF Done
  <2>2. i \in Nat /\ i >= 1 /\ pc[b] \in Nat
    BY LengthIsNat DEF TypeOK
  <2>3. i \in 1 .. pc[b] - 1
    BY <2>1, <2>2
  <2> QED BY <2>1, <2>3 DEF Past, After
<1> QED BY <1>1, <1>2

\* A directory made with mkdir(exist_ok=False) stays its maker's until the rename,
\* whatever the others do, raise or remove.
THEOREM ClaimsAreKept == Spec => []ClaimsHold
<1>1. PublicationInv => ClaimsHold
  BY DoneIsPast DEF PublicationInv, CarefulInv, OwnerHasPlace, Owner, ClaimsHold, Holds
<1> QED BY <1>1, PublicationInvariant, PTL

\* What is renamed into place is whole, so a reader never sees a half-written artifact.
THEOREM VisibleIsComplete == Spec => []VisibleIsWhole
<1>1. ASSUME PublicationInv PROVE VisibleIsWhole
  <2> SUFFICES ASSUME Careful, Has("publish"), dir["final"] # None PROVE Whole(dir["final"])
    BY DEF VisibleIsWhole
  <2>1. PICK i \in 1 .. Len(program.steps) : program.steps[i] = "publish"
    BY DEF Has
  <2>2. program.place # "final"
    BY <1>1, <2>1, CarefulStep DEF PublicationInv
  <2> QED BY <1>1, <2>2 DEF PublicationInv, CarefulInv, RenamedIsWhole
<1> QED BY <1>1, PublicationInvariant, PTL

-----------------------------------------------------------------------------
(* What a failed command leaves behind.                                    *)

LEMMA ProgramStays == ASSUME [Next]_vars PROVE program' = program
BY DEF Next, Step, Check, Passes, Hash, Build, Claim, WriteData, WriteMeta, WriteBoth,
       WriteHandle, Publish, Create, Overwrite, Package, Puts, Begin, Return, Raise, Clean,
       Crash, Ends, RemoveLeftover, Drift, vars

\* A builder has nothing but its claimed place, unless it is through with it or dead, and
\* what it has published.
LeftoverInv ==
    \A b \in Builders : \A p \in Places : Mine(b, p) =>
        \/ p = Place(b) /\ (Owner(b) \/ status[b] \in {"won", "crashed"})
        \/ p \in {"final", "package"} /\ Past(b, {"publish"})

LEMMA TidyAt ==
    ASSUME TypeOK, program \in TidyPrograms, NEW b \in Builders, status[b] = "running",
           pc[b] <= Len(program.steps)
    PROVE  /\ Owner(b) => pc[b] \in program.guarded
           /\ At(b, "claim") => ~Past(b, {"publish"})
           /\ At(b, "package") => Past(b, {"publish"})
<1>1. pc[b] \in 1 .. Len(program.steps)
  BY LengthIsNat DEF TypeOK
<1> QED BY <1>1 DEF TidyPrograms, Owner, Past, At

\* Ownership begins with a claim and ends with a rename.
LEMMA OwnershipStays ==
    ASSUME TypeOK, NEW b \in Builders, NEW s \in Steps \ {"claim", "publish"}, At(b, s),
           UNCHANGED <<program, status>>, UNCHANGED pc \/ Advance(b)
    PROVE  \A c \in Builders :
               /\ Owner(c)' <=> Owner(c)
               /\ Past(c, {"publish"})' <=> Past(c, {"publish"})
<1>1. CASE UNCHANGED pc
  BY <1>1 DEF Owner, Past
<1>2. CASE Advance(b)
  BY <1>2, PastNext DEF Owner, At
<1> QED BY <1>1, <1>2

\* A step that gives nobody a directory, and lets nobody fail who owns one.
LEMMA LeftoverFrame ==
    ASSUME TypeOK, LeftoverInv, program' = program,
           \A c \in Builders : \A q \in Places : Mine(c, q)' => Mine(c, q),
           \A c \in Builders :
               /\ Past(c, {"publish"}) => Past(c, {"publish"})'
               /\ Owner(c) => Owner(c)' \/ status'[c] \in {"won", "crashed"}
               /\ status[c] \in {"won", "crashed"} => status'[c] = status[c]
    PROVE  LeftoverInv'
<1> SUFFICES ASSUME NEW c \in Builders, NEW q \in Places, Mine(c, q)'
             PROVE  (\/ q = Place(c) /\ (Owner(c) \/ status[c] \in {"won", "crashed"})
                     \/ q \in {"final", "package"} /\ Past(c, {"publish"}))'
  BY DEF LeftoverInv
<1>1. Place(c)' = Place(c) /\ Mine(c, q)
  BY DEF Place
<1>2. \/ q = Place(c) /\ (Owner(c) \/ status[c] \in {"won", "crashed"})
      \/ q \in {"final", "package"} /\ Past(c, {"publish"})
  BY <1>1 DEF LeftoverInv
<1> QED BY <1>1, <1>2

LEMMA LeftoverClaim ==
    ASSUME TypeOK, PcInProgram, LeftoverInv, program \in TidyPrograms, NEW b \in Builders,
           Claim(b)
    PROVE  LeftoverInv'
<1>1. /\ At(b, "claim") /\ Advance(b) /\ UNCHANGED <<program, status>>
      /\ OnlyAt(Place(b)) /\ Mine(b, Place(b))'
  BY ClaimEffect
<1>2. Owner(b)'
  <2>1. status'[b] = "running" /\ ~Past(b, {"publish"}) /\ program.steps[pc[b]] = "claim"
    BY <1>1, TidyAt DEF At
  <2> QED BY <1>1, <2>1, PastNext DEF Owner
<1>3. \A c \in Builders \ {b} : Owner(c)' <=> Owner(c)
  BY <1>1, PastNext DEF Owner
<1>4. \A c \in Builders : Past(c, {"publish"}) => Past(c, {"publish"})'
  BY <1>1, PastNext
<1>5. \A c \in Builders : Place(c)' = Place(c) /\ Place(c) \in Places
  BY <1>1, PlaceIsPlace DEF Place
<1> SUFFICES ASSUME NEW c \in Builders, NEW q \in Places, Mine(c, q)'
             PROVE  (\/ q = Place(c) /\ (Owner(c) \/ status[c] \in {"won", "crashed"})
                     \/ q \in {"final", "package"} /\ Past(c, {"publish"}))'
  BY DEF LeftoverInv
<1>6. CASE q = Place(b)
  <2>1. c = b
    BY <1>1, <1>5, <1>6 DEF Mine
  <2> QED BY <1>2, <1>5, <1>6, <2>1
<1>7. CASE q # Place(b)
  <2>1. Mine(c, q)
    BY <1>1, <1>7 DEF Mine, OnlyAt
  <2>2. \/ q = Place(c) /\ (Owner(c) \/ status[c] \in {"won", "crashed"})
        \/ q \in {"final", "package"} /\ Past(c, {"publish"})
    BY <2>1 DEF LeftoverInv
  <2> QED BY <1>1, <1>2, <1>3, <1>4, <1>5, <2>2
<1> QED BY <1>6, <1>7

LEMMA LeftoverPublish ==
    ASSUME TypeOK, PcInProgram, Careful, CarefulInv, LeftoverInv, NEW b \in Builders, Publish(b)
    PROVE  LeftoverInv'
<1>1. program.place # "final" /\ Mine(b, Place(b))
  BY CarefulAt DEF Publish, CarefulInv, OwnerHasPlace
<1>2. /\ At(b, "publish") /\ Advance(b) /\ UNCHANGED <<program, status>>
      /\ dir'["final"] = dir[Place(b)] /\ dir'[Place(b)] = None
      /\ \A q \in Places \ {"final", Place(b)} : dir'[q] = dir[q]
  BY <1>1, PublishMoves
<1>3. Past(b, {"publish"})'
  BY <1>2, PastNext DEF At
<1>4. \A c \in Builders \ {b} : Owner(c)' <=> Owner(c)
  BY <1>2, PastNext DEF Owner
<1>5. \A c \in Builders : Past(c, {"publish"}) => Past(c, {"publish"})'
  BY <1>2, PastNext
<1>6. \A c \in Builders : Place(c)' = Place(c)
  BY <1>2 DEF Place
<1> SUFFICES ASSUME NEW c \in Builders, NEW q \in Places, Mine(c, q)'
             PROVE  (\/ q = Place(c) /\ (Owner(c) \/ status[c] \in {"won", "crashed"})
                     \/ q \in {"final", "package"} /\ Past(c, {"publish"}))'
  BY DEF LeftoverInv
<1>7. CASE q = "final"
  <2>1. c = b
    BY <1>1, <1>2, <1>7 DEF Mine
  <2> QED BY <1>3, <1>7, <2>1
<1>8. CASE q # "final"
  <2>1. Mine(c, q) /\ q # Place(b)
    BY <1>2, <1>8 DEF Mine
  <2>2. \/ q = Place(c) /\ (Owner(c) \/ status[c] \in {"won", "crashed"})
        \/ q \in {"final", "package"} /\ Past(c, {"publish"})
    BY <2>1 DEF LeftoverInv
  <2> QED BY <1>2, <1>4, <1>5, <1>6, <2>1, <2>2
<1> QED BY <1>7, <1>8

LEMMA LeftoverPackage ==
    ASSUME TypeOK, PcInProgram, LeftoverInv, program \in TidyPrograms, NEW b \in Builders,
           Package(b)
    PROVE  LeftoverInv'
<1>1. /\ At(b, "package") /\ UNCHANGED <<program, status>> /\ OnlyAt("package")
      /\ UNCHANGED pc \/ Advance(b)
  BY PackageEffect
<1>2. dir'["package"].by = b
  <2>1. dir["final"] \in Directory
    BY DEF Package, TypeOK, Places
  <2>2. \E e : e.by = b /\ dir' = [dir EXCEPT !["package"] = e]
    BY <2>1 DEF Package, Puts, Directory
  <2> QED BY <2>2 DEF TypeOK, Places
<1>3. Past(b, {"publish"})
  BY <1>1, TidyAt DEF At
<1>4. \A c \in Builders :
         /\ Owner(c)' <=> Owner(c)
         /\ Past(c, {"publish"})' <=> Past(c, {"publish"})
         /\ Place(c)' = Place(c)
  BY <1>1, OwnershipStays DEF Place, Steps
<1> SUFFICES ASSUME NEW c \in Builders, NEW q \in Places, Mine(c, q)'
             PROVE  (\/ q = Place(c) /\ (Owner(c) \/ status[c] \in {"won", "crashed"})
                     \/ q \in {"final", "package"} /\ Past(c, {"publish"}))'
  BY DEF LeftoverInv
<1>5. CASE q = "package"
  <2>1. c = b
    BY <1>2, <1>5 DEF Mine
  <2> QED BY <1>3, <1>4, <1>5, <2>1
<1>6. CASE q # "package"
  <2>1. Mine(c, q)
    BY <1>1, <1>6 DEF Mine, OnlyAt
  <2>2. \/ q = Place(c) /\ (Owner(c) \/ status[c] \in {"won", "crashed"})
        \/ q \in {"final", "package"} /\ Past(c, {"publish"})
    BY <2>1 DEF LeftoverInv
  <2> QED BY <1>1, <1>4, <2>2
<1> QED BY <1>5, <1>6

LEMMA LeftoverClean ==
    ASSUME TypeOK, PcInProgram, Careful, program.cleans # {}, LeftoverInv, NEW b \in Builders,
           Clean(b)
    PROVE  LeftoverInv'
<1>1. /\ status[b] = "failing" /\ UNCHANGED <<program, pc>>
      /\ status' = [status EXCEPT ![b] = "failed"]
      /\ dir' = [q \in Places |-> IF q \in Removes(b) THEN None ELSE dir[q]]
  BY DEF Clean, Ends
<1>2. Place(b) \in Removes(b)
  <2>1. program.cleans \subseteq {"place"}
    BY DEF Careful, CarefulPrograms
  <2>2. "place" \in program.cleans
    BY <2>1
  <2> QED BY <2>2, PlaceIsPlace DEF Removes
<1>3. \A c \in Builders : /\ Place(c)' = Place(c)
                          /\ Past(c, {"publish"})' <=> Past(c, {"publish"})
                          /\ c # b => (Owner(c)' <=> Owner(c)) /\ status'[c] = status[c]
  BY <1>1 DEF Place, Past, Owner, TypeOK
<1> SUFFICES ASSUME NEW c \in Builders, NEW q \in Places, Mine(c, q)'
             PROVE  (\/ q = Place(c) /\ (Owner(c) \/ status[c] \in {"won", "crashed"})
                     \/ q \in {"final", "package"} /\ Past(c, {"publish"}))'
  BY DEF LeftoverInv
<1>4. Mine(c, q) /\ q # Place(b)
  BY <1>1, <1>2 DEF Mine
<1>5. \/ q = Place(c) /\ (Owner(c) \/ status[c] \in {"won", "crashed"})
      \/ q \in {"final", "package"} /\ Past(c, {"publish"})
  BY <1>4 DEF LeftoverInv
<1> QED BY <1>3, <1>4, <1>5

LEMMA LeftoverStep ==
    ASSUME TypeOK, PcInProgram, Careful, CarefulInv, LeftoverInv, program.cleans # {},
           program \in TidyPrograms, [Next]_vars
    PROVE  LeftoverInv'
<1> DEFINE Frame == /\ \A c \in Builders : \A q \in Places : Mine(c, q)' => Mine(c, q)
                    /\ \A c \in Builders :
                         /\ Past(c, {"publish"}) => Past(c, {"publish"})'
                         /\ Owner(c) => Owner(c)' \/ status'[c] \in {"won", "crashed"}
                         /\ status[c] \in {"won", "crashed"} => status'[c] = status[c]
<1>1. Frame => LeftoverInv'
  BY ProgramStays, LeftoverFrame
<1>2. ASSUME NEW b \in Builders, Check(b) \/ Hash(b) \/ Build(b) PROVE Frame
  <2>1. PICK s \in Steps \ {"claim", "publish"} :
          At(b, s) /\ Advance(b) /\ UNCHANGED <<program, status, dir>>
    BY <1>2, ReadEffect DEF Steps
  <2> QED BY <2>1, OwnershipStays DEF Mine
<1>3. ASSUME NEW b \in Builders, NEW s, WritesInPlace(b, s) PROVE Frame
  <2>1. /\ At(b, s) /\ s \in Steps \ {"claim", "publish"} /\ UNCHANGED <<program, status>>
        /\ UNCHANGED pc \/ Advance(b)
    BY <1>3 DEF WritesInPlace, Steps
  <2>2. Mine(b, Place(b))
    BY <1>3, CarefulAt DEF WritesInPlace, CarefulInv, OwnerHasPlace
  <2>3. \A c \in Builders : \A q \in Places : Mine(c, q)' => Mine(c, q)
    BY <1>3, <2>2 DEF WritesInPlace, OnlyAt, Mine
  <2> QED BY <2>1, <2>3, OwnershipStays
<1>4. ASSUME NEW b \in Builders, WriteData(b) \/ WriteMeta(b) \/ WriteBoth(b) PROVE Frame
  BY <1>3, <1>4, WriteDataEffect, WriteMetaEffect, WriteBothEffect
<1>5. ASSUME NEW b \in Builders, WriteHandle(b) PROVE Frame
  <2>1. Mine(b, Place(b))
    BY <1>5, CarefulAt DEF WriteHandle, CarefulInv, OwnerHasPlace
  <2> QED BY <1>3, <1>5, <2>1, WriteHandleEffect
<1>6. ASSUME NEW b \in Builders, Create(b) \/ Overwrite(b) PROVE Frame
  BY <1>6, CarefulAt DEF Create, Overwrite
<1>7. ASSUME NEW b \in Builders, Return(b) \/ Crash(b) PROVE Frame
  <2>1. /\ UNCHANGED <<program, pc, dir>> /\ status[b] \in {"running", "failing"}
        /\ status'[b] \in {"won", "crashed"}
        /\ \A c \in Builders \ {b} : status'[c] = status[c]
    BY <1>7 DEF Return, Crash, Alive, Ends, TypeOK
  <2> QED BY <2>1 DEF Mine, Owner, Past
<1>8. ASSUME NEW b \in Builders, Raise(b) PROVE Frame
  <2>1. /\ UNCHANGED <<program, pc, dir>> /\ status[b] = "running"
        /\ pc[b] <= Len(program.steps)
        /\ status'[b] = IF pc[b] \in program.guarded THEN "failing" ELSE "failed"
        /\ \A c \in Builders \ {b} : status'[c] = status[c]
    BY <1>8 DEF Raise, Ends, TypeOK
  <2>2. Owner(b) => status'[b] = "failing"
    BY <2>1, TidyAt
  <2> QED BY <2>1, <2>2 DEF Mine, Owner, Past
<1>9. ASSUME NEW p \in Places, RemoveLeftover(p) PROVE Frame
  BY <1>9 DEF RemoveLeftover, Mine, Owner, Past, TypeOK
<1>10. ASSUME Drift \/ UNCHANGED vars PROVE Frame
  BY <1>10 DEF Drift, vars, Mine, Owner, Past
<1> QED BY <1>1, <1>2, <1>4, <1>5, <1>6, <1>7, <1>8, <1>9, <1>10, LeftoverClaim,
           LeftoverPublish, LeftoverPackage, LeftoverClean DEF Next, Step

\* A command that fails, but does not die, leaves nothing that stops the next one, if the
\* except block of every careful program that cleans up covers all its work.
THEOREM FailureIsClean ==
    ASSUME {p \in CarefulPrograms : p.cleans # {}} \subseteq TidyPrograms
    PROVE  Spec => []CleanFailure
<1> DEFINE Inv == PublicationInv /\ (Careful /\ program.cleans # {} => LeftoverInv)
<1>1. Init => Inv
  BY InvInit DEF Init, LeftoverInv, Mine
<1>2. Inv /\ [Next]_vars => Inv'
  <2> SUFFICES ASSUME Inv, [Next]_vars PROVE Inv'
    OBVIOUS
  <2>1. PublicationInv' /\ program' = program
    BY InvStep, ProgramStays
  <2>2. ASSUME Careful, program.cleans # {} PROVE LeftoverInv'
    BY <2>2, LeftoverStep DEF PublicationInv, Careful
  <2> QED BY <2>1, <2>2 DEF Careful
<1>3. Inv => CleanFailure
  <2> SUFFICES ASSUME Inv, Careful, program.cleans # {}, NEW b \in Builders, status[b] = "failed",
                      NEW p \in Places, Mine(b, p)
               PROVE  p \in {"final", "package"} /\ Done(b, "publish")
    BY DEF CleanFailure
  <2>1. TypeOK /\ PcInProgram
    BY DEF PublicationInv
  <2>2. p \in {"final", "package"} /\ Past(b, {"publish"})
    BY DEF LeftoverInv, Owner
  <2> QED BY <2>1, <2>2, DoneIsPast
<1> QED BY <1>1, <1>2, <1>3, PTL DEF Spec

-----------------------------------------------------------------------------
(* What an artifact was made from.                                         *)

\* Builder b has passed a step t that comes after a step s.
PastAfter(b, s, t) ==
    \E i \in 1 .. pc[b] - 1 : program.steps[i] = t /\ After(program, i, {s})

ReadingsAreOld == \A b \in Builders : hashed[b] <= source /\ built[b] <= source

\* What the checks have shown stays true: nobody reads again.
ChecksHold ==
    \A b \in Builders :
        /\ program \in RecheckedPrograms =>
            /\ Past(b, {"build"}) => Past(b, {"hash"}) /\ hashed[b] <= built[b]
            /\ PastAfter(b, "build", "recheck") => built[b] = hashed[b]
        /\ PastAfter(b, "build", "verify") => built[b] = 0
        /\ PastAfter(b, "hash", "verify") => hashed[b] = 0
        /\ program \in RereadPrograms /\ Past(b, {"hash"}) =>
               Past(b, {"build"}) /\ built[b] <= hashed[b]

\* What is whole in a directory was written by its maker, from what it has read.
Tells(d, i, h, v) ==
    /\ d.data = "whole" => After(program, i, Writes("data")) /\ d.from = v
    /\ d.meta = "whole" => /\ After(program, i, Writes("meta"))
                           /\ d.names = CASE program.names = "frozen" -> 0
                                          [] program.names = "hashed" -> h
                                          [] OTHER -> v

Truthful(d) == Tells(d, pc[d.by], hashed[d.by], built[d.by])

Recorded == \A q \in Places \ {"package"} : dir[q] # None => Truthful(dir[q])

RenamedIsPublished ==
    program.place # "final" /\ dir["final"] # None => Past(dir["final"].by, {"publish"})

LineageInv == ReadingsAreOld /\ ChecksHold /\ Recorded /\ RenamedIsPublished

LEMMA SettledAt ==
    ASSUME TypeOK, program \in SettledPrograms, NEW b \in Builders, NEW s, At(b, s)
    PROVE  /\ s = "build" => /\ ~Past(b, {"build"}) /\ ~Past(b, Writes("data"))
                             /\ ~Past(b, Writes("meta"))
           /\ s = "hash" => ~Past(b, {"hash"}) /\ ~Past(b, Writes("meta"))
<1>1. pc[b] \in 1 .. Len(program.steps) /\ program.steps[pc[b]] = s
  BY LengthIsNat DEF At, TypeOK
<1>2. /\ s = "build" => ~Past(b, {"build"} \cup Writes("data") \cup Writes("meta"))
      /\ s = "hash" => ~Past(b, {"hash"} \cup Writes("meta"))
  BY <1>1 DEF SettledPrograms, Past
<1> QED BY <1>2 DEF Past, After

\* There is one build step; programs that recheck hash before it.
LEMMA BuildIsHashed ==
    ASSUME TypeOK, program \in SettledPrograms, program \in RecheckedPrograms,
           NEW b \in Builders, At(b, "build")
    PROVE  Past(b, {"hash"})
<1>1. PICK i \in 1 .. Len(program.steps) :
        program.steps[i] = "build" /\ After(program, i, {"hash"})
  BY DEF RecheckedPrograms, Before
<1>2. /\ pc[b] \in 1 .. Len(program.steps) /\ program.steps[pc[b]] = "build"
      /\ Len(program.steps) \in Nat
  BY LengthIsNat DEF At, TypeOK
<1>3. /\ ~After(program, i, {"build"} \cup Writes("data") \cup Writes("meta"))
      /\ ~After(program, pc[b], {"build"} \cup Writes("data") \cup Writes("meta"))
  BY <1>1, <1>2 DEF SettledPrograms
<1>4. ~(i < pc[b]) /\ ~(pc[b] < i)
  BY <1>1, <1>2, <1>3 DEF After
<1>5. i = pc[b]
  BY <1>2, <1>4
<1> QED BY <1>1, <1>5 DEF Past

\* There is one hash step; programs that read again read before it.
LEMMA HashIsReread ==
    ASSUME TypeOK, program \in SettledPrograms, program \in RereadPrograms,
           NEW b \in Builders, At(b, "hash")
    PROVE  Past(b, {"build"})
<1>1. PICK i \in 1 .. Len(program.steps) :
        program.steps[i] = "hash" /\ After(program, i, {"build"})
  BY DEF RereadPrograms, Before
<1>2. /\ pc[b] \in 1 .. Len(program.steps) /\ program.steps[pc[b]] = "hash"
      /\ Len(program.steps) \in Nat
  BY LengthIsNat DEF At, TypeOK
<1>3. /\ ~After(program, i, {"hash"} \cup Writes("meta"))
      /\ ~After(program, pc[b], {"hash"} \cup Writes("meta"))
  BY <1>1, <1>2 DEF SettledPrograms
<1>4. ~(i < pc[b]) /\ ~(pc[b] < i)
  BY <1>1, <1>2, <1>3 DEF After
<1>5. i = pc[b]
  BY <1>2, <1>4
<1> QED BY <1>1, <1>5 DEF Past

LEMMA PastAfterNext ==
    ASSUME TypeOK, NEW b \in Builders, Advance(b), program' = program, NEW s, NEW t
    PROVE  /\ PastAfter(b, s, t)' <=>
                  PastAfter(b, s, t) \/ (program.steps[pc[b]] = t /\ Past(b, {s}))
           /\ \A c \in Builders \ {b} : PastAfter(c, s, t)' <=> PastAfter(c, s, t)
<1>1. pc[b] \in Nat \ {0} /\ pc'[b] = pc[b] + 1 /\ \A c \in Builders \ {b} : pc'[c] = pc[c]
  BY DEF TypeOK, Advance
<1>2. \A i : i \in 1 .. pc'[b] - 1 <=> i \in 1 .. pc[b] - 1 \/ i = pc[b]
  BY <1>1
<1> QED BY <1>1, <1>2 DEF PastAfter, Past

LEMMA PastAfterIsPast ==
    ASSUME TypeOK, NEW b \in Builders, NEW s, NEW t, PastAfter(b, s, t)
    PROVE  Past(b, {s})
<1>1. PICK i \in 1 .. pc[b] - 1 : After(program, i, {s})
  BY DEF PastAfter
<1>2. PICK j \in 1 .. i - 1 : program.steps[j] \in {s}
  BY <1>1 DEF After
<1>3. pc[b] \in Nat
  BY DEF TypeOK
<1>4. j \in 1 .. pc[b] - 1
  BY <1>1, <1>2, <1>3
<1> QED BY <1>2, <1>4 DEF Past, After

\* How a step moves the sources and what the builders know of them.
Moves(b, s) ==
    /\ At(b, s) /\ Advance(b) /\ program' = program
    /\ s \notin {"hash", "build"}
    /\ UNCHANGED <<source, hashed, built>>
    /\ s = "verify" => source = 0
    /\ s = "recheck" => source = hashed[b]

Stays ==
    /\ UNCHANGED <<program, pc, hashed, built>>
    /\ source' \in {source, source + 1}

LEMMA ReadingMoves ==
    ASSUME [Next]_vars
    PROVE  \/ Stays
           \/ \E b \in Builders : Hash(b) \/ Build(b) \/ \E s : Moves(b, s)
<1> DEFINE Goal == Stays \/ \E b \in Builders : Hash(b) \/ Build(b) \/ \E s : Moves(b, s)
<1>1. ASSUME NEW b \in Builders, Check(b) PROVE Goal
  BY <1>1 DEF Check, Passes, Moves
<1>2. ASSUME NEW b \in Builders,
             Claim(b) \/ WriteHandle(b) \/ Publish(b) \/ Create(b) \/ Overwrite(b)
      PROVE  Goal
  BY <1>2 DEF Claim, WriteHandle, Publish, Create, Overwrite, Puts, Moves
<1>3. ASSUME NEW b \in Builders, WriteData(b) \/ WriteMeta(b) \/ WriteBoth(b) \/ Package(b)
      PROVE  Goal
  BY <1>3 DEF WriteData, WriteMeta, WriteBoth, Package, Puts, Begin, Moves, Stays
<1>4. ASSUME NEW b \in Builders, Return(b) \/ Raise(b) \/ Clean(b) \/ Crash(b) PROVE Goal
  BY <1>4 DEF Return, Raise, Clean, Crash, Ends, Stays
<1>5. ASSUME Drift \/ (\E p \in Places : RemoveLeftover(p)) \/ UNCHANGED vars PROVE Goal
  BY <1>5 DEF Drift, RemoveLeftover, vars, Stays
<1> QED BY <1>1, <1>2, <1>3, <1>4, <1>5 DEF Next, Step

LEMMA PastStays ==
    ASSUME TypeOK, [Next]_vars, NEW b \in Builders, NEW kinds, Past(b, kinds)
    PROVE  Past(b, kinds)'
<1>1. CASE Stays
  BY <1>1 DEF Stays, Past
<1>2. ASSUME NEW c \in Builders, Hash(c) \/ Build(c) \/ \E s : Moves(c, s)
      PROVE  Past(b, kinds)'
  <2>1. Advance(c) /\ program' = program
    BY <1>2 DEF Hash, Build, Moves
  <2> QED BY <2>1, PastNext
<1> QED BY <1>1, <1>2, ReadingMoves

LEMMA ReadingsStep ==
    ASSUME TypeOK, ReadingsAreOld, [Next]_vars PROVE ReadingsAreOld'
<1>1. source \in Int /\ \A b \in Builders : hashed[b] \in Int /\ built[b] \in Int
  BY ArtifactAssumption DEF TypeOK, Versions
<1>2. CASE Stays
  BY <1>1, <1>2 DEF Stays, ReadingsAreOld
<1>3. ASSUME NEW b \in Builders, Hash(b) \/ Build(b) PROVE ReadingsAreOld'
  <2>1. source' = source
    BY <1>3 DEF Hash, Build
  <2>2. \A c \in Builders : hashed'[c] \in {hashed[c], source} /\ built'[c] \in {built[c], source}
    BY <1>3 DEF Hash, Build, TypeOK
  <2> QED BY <1>1, <2>1, <2>2 DEF ReadingsAreOld
<1>4. ASSUME NEW b \in Builders, NEW s, Moves(b, s) PROVE ReadingsAreOld'
  BY <1>4 DEF Moves, ReadingsAreOld
<1> QED BY <1>2, <1>3, <1>4, ReadingMoves

LEMMA ChecksStep ==
    ASSUME TypeOK, program \in SettledPrograms, ReadingsAreOld, ChecksHold, [Next]_vars
    PROVE  ChecksHold'
<1>1. /\ source \in Nat
      /\ \A b \in Builders : hashed[b] \in Nat /\ built[b] \in Nat
  BY ArtifactAssumption DEF TypeOK, Versions
<1> DEFINE Holds1(c) ==
             /\ program \in RecheckedPrograms =>
                 /\ Past(c, {"build"}) => Past(c, {"hash"}) /\ hashed[c] <= built[c]
                 /\ PastAfter(c, "build", "recheck") => built[c] = hashed[c]
             /\ PastAfter(c, "build", "verify") => built[c] = 0
             /\ PastAfter(c, "hash", "verify") => hashed[c] = 0
             /\ program \in RereadPrograms /\ Past(c, {"hash"}) =>
                    Past(c, {"build"}) /\ built[c] <= hashed[c]
<1>2. CASE Stays
  BY <1>2 DEF Stays, ChecksHold, Past, PastAfter
<1>3. ASSUME NEW b \in Builders, Advance(b), program' = program,
             NEW c \in Builders \ {b}, hashed'[c] = hashed[c], built'[c] = built[c]
      PROVE  Holds1(c)'
  BY <1>3, PastNext, PastAfterNext DEF ChecksHold
<1>4. ASSUME NEW b \in Builders, Hash(b) PROVE ChecksHold'
  <2>1. /\ At(b, "hash") /\ Advance(b) /\ program' = program /\ built' = built
        /\ hashed' = [hashed EXCEPT ![b] = source] /\ program.steps[pc[b]] = "hash"
    BY <1>4 DEF Hash, At
  <2>2. ~Past(b, {"hash"}) /\ ~PastAfter(b, "hash", "verify")
    BY <2>1, SettledAt, PastAfterIsPast
  <2>3. program \in RecheckedPrograms =>
          ~Past(b, {"build"}) /\ ~PastAfter(b, "build", "recheck")
    BY <2>2, PastAfterIsPast DEF ChecksHold
  <2>4. /\ Past(b, {"build"})' <=> Past(b, {"build"})
        /\ \A s : \A t \in {"verify", "recheck"} :
              PastAfter(b, s, t)' <=> PastAfter(b, s, t)
    BY <2>1, PastNext, PastAfterNext
  <2>5. /\ program \in RereadPrograms => Past(b, {"build"})
        /\ built'[b] <= hashed'[b]
    BY <1>1, <2>1, HashIsReread DEF TypeOK, ReadingsAreOld
  <2>6. Holds1(b)'
    BY <2>1, <2>2, <2>3, <2>4, <2>5 DEF ChecksHold
  <2>7. \A c \in Builders \ {b} : hashed'[c] = hashed[c] /\ built'[c] = built[c]
    BY <2>1 DEF TypeOK
  <2> QED BY <1>3, <2>1, <2>6, <2>7 DEF ChecksHold
<1>5. ASSUME NEW b \in Builders, Build(b) PROVE ChecksHold'
  <2>1. /\ At(b, "build") /\ Advance(b) /\ program' = program /\ hashed' = hashed
        /\ built' = [built EXCEPT ![b] = source] /\ program.steps[pc[b]] = "build"
    BY <1>5 DEF Build, At
  <2>2. ~PastAfter(b, "build", "recheck") /\ ~PastAfter(b, "build", "verify")
    BY <2>1, SettledAt, PastAfterIsPast
  <2>3. program \in RecheckedPrograms => Past(b, {"hash"})
    BY <2>1, BuildIsHashed
  <2>4. program \in RereadPrograms => ~Past(b, {"hash"})
    BY <2>1, SettledAt DEF ChecksHold
  <2>5. /\ Past(b, {"hash"}) <=> Past(b, {"hash"})'
        /\ \A s : \A t \in {"verify", "recheck"} :
              PastAfter(b, s, t)' <=> PastAfter(b, s, t)
    BY <2>1, PastNext, PastAfterNext
  <2>6. hashed'[b] <= built'[b]
    BY <1>1, <2>1 DEF TypeOK, ReadingsAreOld
  <2>7. Holds1(b)'
    BY <2>1, <2>2, <2>3, <2>4, <2>5, <2>6 DEF ChecksHold
  <2>8. \A c \in Builders \ {b} : hashed'[c] = hashed[c] /\ built'[c] = built[c]
    BY <2>1 DEF TypeOK
  <2> QED BY <1>3, <2>1, <2>7, <2>8 DEF ChecksHold
<1>6. ASSUME NEW b \in Builders, NEW s, Moves(b, s) PROVE ChecksHold'
  <2>1. /\ Advance(b) /\ program' = program /\ UNCHANGED <<hashed, built>>
        /\ program.steps[pc[b]] = s /\ s \notin {"hash", "build"}
        /\ s = "verify" => source = 0
        /\ s = "recheck" => source = hashed[b]
    BY <1>6 DEF Moves, At
  <2>2. hashed[b] <= source /\ built[b] <= source
    BY DEF ReadingsAreOld
  <2>3. /\ Past(b, {"build"})' <=> Past(b, {"build"})
        /\ Past(b, {"hash"})' <=> Past(b, {"hash"})
    BY <2>1, PastNext
  <2>4. PastAfter(b, "build", "verify")' => built[b] = 0
    <3>1. PastAfter(b, "build", "verify")' => PastAfter(b, "build", "verify") \/ s = "verify"
      BY <2>1, PastAfterNext
    <3> QED BY <1>1, <2>1, <2>2, <3>1 DEF ChecksHold
  <2>5. PastAfter(b, "hash", "verify")' => hashed[b] = 0
    <3>1. PastAfter(b, "hash", "verify")' => PastAfter(b, "hash", "verify") \/ s = "verify"
      BY <2>1, PastAfterNext
    <3> QED BY <1>1, <2>1, <2>2, <3>1 DEF ChecksHold
  <2>6. program \in RecheckedPrograms /\ PastAfter(b, "build", "recheck")' => built[b] = hashed[b]
    <3> SUFFICES ASSUME program \in RecheckedPrograms, PastAfter(b, "build", "recheck")'
                 PROVE  built[b] = hashed[b]
      OBVIOUS
    <3>1. CASE PastAfter(b, "build", "recheck")
      BY <3>1 DEF ChecksHold
    <3>2. CASE s = "recheck" /\ Past(b, {"build"})
      BY <1>1, <2>1, <2>2, <3>2 DEF ChecksHold
    <3> QED BY <2>1, <3>1, <3>2, PastAfterNext
  <2>7. Holds1(b)'
    BY <2>1, <2>3, <2>4, <2>5, <2>6 DEF ChecksHold
  <2> QED BY <1>3, <2>1, <2>7 DEF ChecksHold
<1> QED BY <1>2, <1>4, <1>5, <1>6, ReadingMoves

\* Once something is whole its maker does not read again.
LEMMA TruthStays ==
    ASSUME TypeOK, program \in SettledPrograms, [Next]_vars, NEW d \in Directory, Truthful(d)
    PROVE  Tells(d, pc'[d.by], hashed'[d.by], built'[d.by])
<1> DEFINE c == d.by
<1>1. c \in Builders
  BY DEF Directory
<1>2. /\ Past(c, Writes("data")) => Past(c, Writes("data"))'
      /\ Past(c, Writes("meta")) => Past(c, Writes("meta"))'
  BY <1>1, PastStays
<1> DEFINE Unread ==
             /\ Past(c, Writes("data")) => built'[c] = built[c]
             /\ Past(c, Writes("meta")) => built'[c] = built[c] /\ hashed'[c] = hashed[c]
<1>3. Unread
  <2>1. CASE Stays
    BY <2>1 DEF Stays
  <2>2. ASSUME NEW b \in Builders, Hash(b) PROVE Unread
    <3>1. c = b => ~Past(c, Writes("meta"))
      BY <2>2, SettledAt DEF Hash
    <3> QED BY <1>1, <2>2, <3>1 DEF Hash, TypeOK
  <2>3. ASSUME NEW b \in Builders, Build(b) PROVE Unread
    <3>1. c = b => ~Past(c, Writes("data")) /\ ~Past(c, Writes("meta"))
      BY <2>3, SettledAt DEF Build
    <3> QED BY <1>1, <2>3, <3>1 DEF Build, TypeOK
  <2>4. ASSUME NEW b \in Builders, NEW s, Moves(b, s) PROVE Unread
    BY <2>4 DEF Moves
  <2> QED BY <2>1, <2>2, <2>3, <2>4, ReadingMoves
<1>4. program' = program
  BY ProgramStays
<1>5. /\ Past(c, Writes("data"))' <=> After(program, pc'[c], Writes("data"))
      /\ Past(c, Writes("meta"))' <=> After(program, pc'[c], Writes("meta"))
  BY <1>4 DEF Past
<1> HIDE DEF c
<1> QED BY <1>2, <1>3, <1>5 DEF Truthful, Tells, Past, c

\* Where the content of a directory comes from.
LEMMA DirMoves ==
    ASSUME TypeOK, PcInProgram, Careful, CarefulInv, [Next]_vars,
           NEW q \in Places \ {"package"}, dir'[q] # None
    PROVE  \/ \E r \in Places \ {"package"} : dir[r] # None /\ dir'[q] = dir[r]
           \/ dir'[q].data = "absent" /\ dir'[q].meta = "absent"
           \/ \E b \in Builders, s \in Steps : q = Place(b) /\ WritesInPlace(b, s)
<1> DEFINE Goal ==
             \/ \E r \in Places \ {"package"} : dir[r] # None /\ dir'[q] = dir[r]
             \/ dir'[q].data = "absent" /\ dir'[q].meta = "absent"
             \/ \E b \in Builders, s \in Steps : q = Place(b) /\ WritesInPlace(b, s)
<1>1. ASSUME dir'[q] = dir[q] PROVE Goal
  BY <1>1
<1>2. ASSUME NEW b \in Builders, Check(b) \/ Hash(b) \/ Build(b) \/ Package(b) PROVE Goal
  BY <1>1, <1>2, ReadEffect, PackageEffect DEF OnlyAt
<1>3. ASSUME NEW b \in Builders, Claim(b) PROVE Goal
  BY <1>1, <1>3, ClaimEffect DEF OnlyAt
<1>4. ASSUME NEW b \in Builders, NEW s, WritesInPlace(b, s) PROVE Goal
  <2>1. s \in Steps
    BY <1>4 DEF WritesInPlace, Steps
  <2>2. CASE q = Place(b)
    BY <1>4, <2>1, <2>2
  <2>3. CASE q # Place(b)
    BY <1>1, <1>4, <2>3 DEF WritesInPlace, OnlyAt
  <2> QED BY <2>2, <2>3
<1>5. ASSUME NEW b \in Builders, WriteData(b) \/ WriteMeta(b) \/ WriteBoth(b) PROVE Goal
  BY <1>4, <1>5, WriteDataEffect, WriteMetaEffect, WriteBothEffect
<1>6. ASSUME NEW b \in Builders, WriteHandle(b) PROVE Goal
  <2>1. Mine(b, Place(b))
    BY <1>6, CarefulAt DEF WriteHandle, CarefulInv, OwnerHasPlace
  <2> QED BY <1>4, <1>6, <2>1, WriteHandleEffect
<1>7. ASSUME NEW b \in Builders, Publish(b) PROVE Goal
  <2>1. program.place # "final"
    BY <1>7, CarefulAt DEF Publish
  <2>2. /\ dir[Place(b)] # None /\ dir'["final"] = dir[Place(b)]
        /\ dir'[Place(b)] = None
        /\ \A r \in Places \ {"final", Place(b)} : dir'[r] = dir[r]
    BY <1>7, <2>1, PublishMoves
  <2>3. Place(b) \in Places \ {"package"}
    BY PlaceIsFinal
  <2> QED BY <1>1, <2>2, <2>3
<1>8. ASSUME NEW b \in Builders, Create(b) \/ Overwrite(b) PROVE Goal
  BY <1>8, CarefulAt DEF Create, Overwrite
<1>9. ASSUME NEW b \in Builders, Return(b) \/ Raise(b) \/ Clean(b) \/ Crash(b) PROVE Goal
  BY <1>1, <1>9 DEF Return, Raise, Clean, Crash
<1>10. ASSUME NEW p \in Places, RemoveLeftover(p) PROVE Goal
  BY <1>1, <1>10 DEF RemoveLeftover, TypeOK
<1>11. ASSUME Drift \/ UNCHANGED vars PROVE Goal
  BY <1>1, <1>11 DEF Drift, vars
<1> QED BY <1>2, <1>3, <1>5, <1>6, <1>7, <1>8, <1>9, <1>10, <1>11 DEF Next, Step

LEMMA RecordedStep ==
    ASSUME TypeOK, PcInProgram, Careful, CarefulInv, program \in SettledPrograms, Recorded,
           [Next]_vars
    PROVE  Recorded'
<1> DEFINE Fine(d) == Tells(d, pc'[d.by], hashed'[d.by], built'[d.by])
<1>1. ASSUME NEW q \in Places \ {"package"}, dir'[q] # None PROVE Fine(dir'[q])
  <2>1. ASSUME NEW r \in Places \ {"package"}, dir[r] # None PROVE Fine(dir[r])
    <3>1. dir[r] \in Directory /\ Truthful(dir[r])
      BY <2>1 DEF TypeOK, Recorded
    <3> QED BY <3>1, TruthStays
  <2>2. CASE \E r \in Places \ {"package"} : dir[r] # None /\ dir'[q] = dir[r]
    BY <2>1, <2>2
  <2>3. CASE dir'[q].data = "absent" /\ dir'[q].meta = "absent"
    BY <2>3 DEF Tells
  <2>4. ASSUME NEW b \in Builders, NEW s \in Steps, q = Place(b), WritesInPlace(b, s)
        PROVE  Fine(dir'[q])
    <3> DEFINE d == dir[q]
               e == dir'[q]
    <3>1. d # None /\ d.by = b
      BY <2>4, CarefulAt DEF WritesInPlace, CarefulInv, OwnerHasPlace, Mine
    <3>2. Tells(d, pc'[b], hashed'[b], built'[b])
      BY <2>1, <3>1
    <3>3. /\ e.by = b /\ built'[b] = built[b] /\ hashed'[b] = hashed[b]
          /\ At(b, s) /\ program' = program
      BY <2>4, <3>1 DEF WritesInPlace
    <3>4. CASE /\ UNCHANGED pc /\ PartsBecome(d, e, s, "partial")
               /\ e.from = d.from /\ e.names = d.names
      BY <3>2, <3>3, <3>4 DEF PartsBecome, Tells
    <3>5. CASE /\ Advance(b) /\ PartsBecome(d, e, s, "whole")
               /\ VersionsBecome(d, e, s, built[b], Named(b))
      <4>1. \A kinds : s \in kinds => Past(b, kinds)'
        BY <3>3, <3>5, PastNext DEF At
      <4>2. \A kinds : s \in kinds => After(program, pc'[b], kinds)
        BY <3>3, <4>1 DEF Past
      <4> HIDE DEF d, e
      <4>3. Tells(e, pc'[b], hashed'[b], built'[b])
        BY <3>2, <3>3, <3>5, <4>2 DEF PartsBecome, VersionsBecome, Tells, Named
      <4> QED BY <3>3, <4>3 DEF e
    <3> QED BY <2>4, <3>4, <3>5 DEF WritesInPlace
  <2>5. \/ \E r \in Places \ {"package"} : dir[r] # None /\ dir'[q] = dir[r]
        \/ dir'[q].data = "absent" /\ dir'[q].meta = "absent"
        \/ \E b \in Builders, s \in Steps : q = Place(b) /\ WritesInPlace(b, s)
    BY <1>1, DirMoves
  <2> HIDE DEF Fine
  <2> QED BY <2>2, <2>3, <2>4, <2>5
<1>2. program' = program
  BY ProgramStays
<1> QED BY <1>1, <1>2 DEF Recorded, Truthful, Tells

LEMMA RenamedStep ==
    ASSUME TypeOK, PcInProgram, Careful, CarefulInv, RenamedIsPublished, [Next]_vars
    PROVE  RenamedIsPublished'
<1>1. program' = program
  BY ProgramStays
<1> SUFFICES ASSUME program.place # "final", dir'["final"] # None
             PROVE  After(program, pc'[dir'["final"].by], {"publish"})
  BY <1>1 DEF RenamedIsPublished, Past
<1>2. ASSUME NEW b \in Builders, Publish(b)
      PROVE  After(program, pc'[dir'["final"].by], {"publish"})
  <2>1. dir'["final"] = dir[Place(b)] /\ At(b, "publish") /\ Advance(b)
    BY <1>2, PublishEffect
  <2>2. Mine(b, Place(b))
    BY <1>2, CarefulAt DEF Publish, CarefulInv, OwnerHasPlace
  <2>3. Past(b, {"publish"})'
    BY <1>1, <2>1, PastNext DEF At
  <2> QED BY <1>1, <2>1, <2>2, <2>3 DEF Mine, Past
<1>3. ASSUME \A b \in Builders : ~Publish(b) PROVE dir'["final"] = dir["final"]
  <2> DEFINE Goal == dir'["final"] = dir["final"]
  <2>1. ASSUME NEW b \in Builders, Check(b) \/ Hash(b) \/ Build(b) \/ Package(b) PROVE Goal
    BY <2>1, ReadEffect, PackageEffect DEF OnlyAt, Places
  <2>2. ASSUME NEW b \in Builders, NEW s, WritesInPlace(b, s) PROVE Goal
    BY <2>2, PlaceIsFinal DEF WritesInPlace, OnlyAt
  <2>3. ASSUME NEW b \in Builders, WriteData(b) \/ WriteMeta(b) \/ WriteBoth(b) PROVE Goal
    BY <2>2, <2>3, WriteDataEffect, WriteMetaEffect, WriteBothEffect
  <2>4. ASSUME NEW b \in Builders, WriteHandle(b) PROVE Goal
    <3>1. Mine(b, Place(b))
      BY <2>4, CarefulAt DEF WriteHandle, CarefulInv, OwnerHasPlace
    <3> QED BY <2>2, <2>4, <3>1, WriteHandleEffect
  <2>5. ASSUME NEW b \in Builders, Claim(b) PROVE Goal
    BY <2>5, ClaimEffect, PlaceIsFinal DEF OnlyAt
  <2>6. ASSUME NEW b \in Builders, Create(b) \/ Overwrite(b) PROVE Goal
    BY <2>6, CarefulAt DEF Create, Overwrite
  <2>7. ASSUME NEW b \in Builders, Return(b) \/ Raise(b) \/ Clean(b) \/ Crash(b) PROVE Goal
    BY <2>7 DEF Return, Raise, Clean, Crash, Places
  <2>8. ASSUME NEW p \in Places, RemoveLeftover(p) PROVE Goal
    BY <2>8 DEF RemoveLeftover, TypeOK, Places
  <2>9. ASSUME Drift \/ UNCHANGED vars PROVE Goal
    BY <2>9 DEF Drift, vars
  <2> QED BY <1>3, <2>1, <2>3, <2>4, <2>5, <2>6, <2>7, <2>8, <2>9 DEF Next, Step
<1>4. CASE \A b \in Builders : ~Publish(b)
  <2>1. dir["final"] # None /\ dir'["final"] = dir["final"]
    BY <1>3, <1>4
  <2>2. dir["final"].by \in Builders /\ Past(dir["final"].by, {"publish"})
    BY <2>1 DEF RenamedIsPublished, TypeOK, Places, Directory
  <2>3. Past(dir["final"].by, {"publish"}) => After(program, pc'[dir["final"].by], {"publish"})
    <3>1. \A b \in Builders : Past(b, {"publish"}) => Past(b, {"publish"})'
      BY PastStays
    <3> QED BY <1>1, <2>2, <3>1 DEF Past
  <2> QED BY <2>1, <2>2, <2>3
<1> QED BY <1>2, <1>4

\* The artifact that a reader sees is complete for its builder.
LEMMA VisibleIsDone ==
    ASSUME TypeOK, CarefulInv, RenamedIsPublished, dir["final"] # None, Whole(dir["final"])
    PROVE  Complete(program, pc[dir["final"].by])
<1>1. CASE program.place = "final"
  BY <1>1 DEF CarefulInv, WholeIsWritten, Whole, Complete, Past
<1>2. CASE program.place # "final"
  BY <1>2 DEF RenamedIsPublished, Complete, Past
<1> QED BY <1>1, <1>2

\* When an artifact is complete, its builder has passed every check.
LEMMA ChecksAreDone ==
    ASSUME TypeOK, program \in SettledPrograms, NEW b \in Builders, Complete(program, pc[b]),
           NEW s, NEW t \in {"verify", "recheck"}, Before(program, s, t)
    PROVE  PastAfter(b, s, t)
<1>1. PICK i \in 1 .. Len(program.steps) : program.steps[i] = t /\ After(program, i, {s})
  BY DEF Before
<1>2. ~Complete(program, i)
  BY <1>1 DEF SettledPrograms
<1>3. i \in Nat /\ i >= 1 /\ pc[b] \in Nat
  BY LengthIsNat DEF TypeOK
<1>4. pc[b] <= i => Complete(program, i)
  <2> SUFFICES ASSUME pc[b] <= i, NEW kinds, After(program, pc[b], kinds)
               PROVE  After(program, i, kinds)
    BY DEF Complete
  <2>1. PICK j \in 1 .. pc[b] - 1 : program.steps[j] \in kinds
    BY DEF After
  <2>2. j \in 1 .. i - 1
    BY <1>3, <2>1
  <2> QED BY <2>1, <2>2 DEF After
<1>5. i \in 1 .. pc[b] - 1
  BY <1>2, <1>3, <1>4
<1> QED BY <1>1, <1>5 DEF PastAfter

\* An artifact names its sources after they were hashed.
LEMMA HashIsDone ==
    ASSUME TypeOK, program \in SettledPrograms, NEW b \in Builders, Past(b, Writes("meta")),
           Before(program, "build", "hash")
    PROVE  Past(b, {"hash"})
<1>1. PICK i \in 1 .. Len(program.steps) :
        program.steps[i] = "hash" /\ After(program, i, {"build"})
  BY DEF Before
<1>2. ~After(program, i, {"hash"} \cup Writes("meta"))
  BY <1>1 DEF SettledPrograms
<1>3. PICK j \in 1 .. pc[b] - 1 : program.steps[j] \in Writes("meta")
  BY DEF Past, After
<1>4. i \in Nat /\ i >= 1 /\ j \in Nat /\ j >= 1 /\ pc[b] \in Nat /\ j <= pc[b] - 1
  BY LengthIsNat DEF TypeOK
<1>5. ~(j < i)
  BY <1>2, <1>3, <1>4 DEF After
<1>6. i \in 1 .. pc[b] - 1
  BY <1>4, <1>5
<1> QED BY <1>1, <1>6 DEF Past, After

\* Whatever happens to the sources meanwhile, a published artifact was made from what its
\* metadata names or its builder had hashed, and never names an older version than it was
\* made from where it is hashed after the work, if careful programs read once and check
\* before their artifact is complete.
THEOREM LineageIsTrue ==
    ASSUME CarefulPrograms \subseteq SettledPrograms
    PROVE  Spec => []LineageTrue
<1> DEFINE Inv == PublicationInv /\ (Careful => LineageInv)
<1>1. ASSUME Init PROVE Inv
  <2>1. /\ \A b \in Builders : \A kinds : ~Past(b, kinds)
        /\ \A b \in Builders : \A s : \A t : ~PastAfter(b, s, t)
    <3>1. \A b \in Builders : \A i : i \notin 1 .. pc[b] - 1
      BY <1>1 DEF Init
    <3> QED BY <3>1 DEF Past, PastAfter, After
  <2>2. ReadingsAreOld /\ ChecksHold
    BY <1>1, <2>1 DEF Init, ReadingsAreOld, ChecksHold
  <2>3. Recorded /\ RenamedIsPublished
    BY <1>1 DEF Init, Recorded, RenamedIsPublished, Places
  <2> QED BY <1>1, <2>2, <2>3, InvInit DEF LineageInv
<1>2. Inv /\ [Next]_vars => Inv'
  <2> SUFFICES ASSUME Inv, [Next]_vars PROVE Inv'
    OBVIOUS
  <2>1. PublicationInv' /\ program' = program
    BY InvStep, ProgramStays
  <2>2. ASSUME Careful PROVE LineageInv'
    <3>1. program \in SettledPrograms /\ TypeOK /\ PcInProgram /\ CarefulInv /\ LineageInv
      BY <2>2 DEF Careful, PublicationInv
    <3> QED BY <2>2, <3>1, ReadingsStep, ChecksStep, RecordedStep, RenamedStep DEF LineageInv
  <2> QED BY <2>1, <2>2 DEF Careful
<1>3. Inv => LineageTrue
  <2> SUFFICES ASSUME Inv, Careful, dir["final"] # None, Whole(dir["final"])
               PROVE  /\ program \in AnchoredPrograms => dir["final"].names = dir["final"].from
                      /\ program \in RecheckedPrograms =>
                             dir["final"].from = hashed[dir["final"].by]
                      /\ program \in RereadPrograms =>
                             dir["final"].from <= dir["final"].names
    BY DEF LineageTrue
  <2> DEFINE a == dir["final"]
             b == a.by
  <2>1. program \in SettledPrograms /\ TypeOK /\ CarefulInv /\ LineageInv
    BY DEF Careful, PublicationInv
  <2>2. b \in Builders /\ a.from = built[b] /\ a.names = Named(b)
    BY <2>1 DEF TypeOK, Places, Directory, LineageInv, Recorded, Truthful, Tells, Named, Whole
  <2>3. Complete(program, pc[b])
    BY <2>1, VisibleIsDone DEF LineageInv
  <2>4. program \in RecheckedPrograms => built[b] = hashed[b]
    <3> SUFFICES ASSUME program \in RecheckedPrograms PROVE built[b] = hashed[b]
      OBVIOUS
    <3>1. PastAfter(b, "build", "recheck")
      BY <2>1, <2>2, <2>3, ChecksAreDone DEF RecheckedPrograms
    <3> QED BY <2>1, <2>2, <3>1 DEF LineageInv, ChecksHold
  <2>5. Before(program, "build", "verify") => built[b] = 0
    <3>1. Before(program, "build", "verify") => PastAfter(b, "build", "verify")
      BY <2>1, <2>2, <2>3, ChecksAreDone
    <3> QED BY <2>1, <2>2, <3>1 DEF LineageInv, ChecksHold
  <2>6. Before(program, "hash", "verify") => hashed[b] = 0
    <3>1. Before(program, "hash", "verify") => PastAfter(b, "hash", "verify")
      BY <2>1, <2>2, <2>3, ChecksAreDone
    <3> QED BY <2>1, <2>2, <3>1 DEF LineageInv, ChecksHold
  <2>7. program \in AnchoredPrograms => Named(b) = built[b]
    BY <2>4, <2>5, <2>6 DEF AnchoredPrograms, Named
  <2>8. program \in RereadPrograms => built[b] <= Named(b)
    <3> SUFFICES ASSUME program \in RereadPrograms PROVE built[b] <= hashed[b]
      BY DEF RereadPrograms, Named
    <3>1. Past(b, Writes("meta"))
      BY <2>1 DEF Whole, LineageInv, Recorded, Truthful, Tells, Past, Places
    <3>2. Past(b, {"hash"})
      BY <2>1, <2>2, <3>1, HashIsDone DEF RereadPrograms
    <3> QED BY <2>1, <2>2, <3>2 DEF LineageInv, ChecksHold
  <2> QED BY <2>2, <2>4, <2>7, <2>8
<1> QED BY <1>1, <1>2, <1>3, PTL DEF Spec

\* A whole artifact is out of reach of every step of a careful program.
LEMMA WholeIsOutOfReach ==
    ASSUME TypeOK, PcInProgram, Careful, CarefulInv, dir["final"] # None, Whole(dir["final"]),
           [Next]_vars
    PROVE  dir'["final"] = dir["final"]
<1> DEFINE Goal == dir'["final"] = dir["final"]
<1>1. ASSUME NEW b \in Builders, Check(b) \/ Hash(b) \/ Build(b) \/ Package(b) PROVE Goal
  BY <1>1, ReadEffect, PackageEffect DEF OnlyAt, Places
<1>2. ASSUME NEW b \in Builders, Claim(b) PROVE Goal
  BY <1>2, ClaimEffect DEF OnlyAt, Places
<1>3. ASSUME NEW b \in Builders, NEW s, WritesInPlace(b, s) PROVE Goal
  <2>1. CASE Place(b) = "final"
    <3>1. /\ Mine(b, Place(b)) /\ s \in Writes("data") \cup Writes("meta")
          /\ s \in Writes("data") => ~Past(b, Writes("data"))
          /\ s \in Writes("meta") => ~Past(b, Writes("meta"))
      BY <1>3, CarefulAt DEF WritesInPlace, CarefulInv, OwnerHasPlace, Writes
    <3>2. Past(b, Writes("data")) /\ Past(b, Writes("meta"))
      BY <2>1, <3>1, PlaceIsFinal DEF CarefulInv, WholeIsWritten, Whole, Mine
    <3> QED BY <3>1, <3>2
  <2>2. CASE Place(b) # "final"
    BY <1>3, <2>2 DEF WritesInPlace, OnlyAt, Places
  <2> QED BY <2>1, <2>2
<1>4. ASSUME NEW b \in Builders, WriteData(b) \/ WriteMeta(b) \/ WriteBoth(b) PROVE Goal
  BY <1>3, <1>4, WriteDataEffect, WriteMetaEffect, WriteBothEffect
<1>5. ASSUME NEW b \in Builders, WriteHandle(b) PROVE Goal
  <2>1. Mine(b, Place(b))
    BY <1>5, CarefulAt DEF WriteHandle, CarefulInv, OwnerHasPlace
  <2> QED BY <1>3, <1>5, <2>1, WriteHandleEffect
<1>6. \A b \in Builders : ~Publish(b)
  BY DEF Publish
<1>7. ASSUME NEW b \in Builders, Create(b) \/ Overwrite(b) PROVE Goal
  BY <1>7, CarefulAt DEF Create, Overwrite
<1>8. ASSUME NEW b \in Builders, Return(b) \/ Raise(b) \/ Crash(b) PROVE Goal
  BY <1>8 DEF Return, Raise, Crash
<1>9. ASSUME NEW b \in Builders, Clean(b) PROVE Goal
  <2>1. /\ status[b] = "failing"
        /\ dir' = [q \in Places |-> IF q \in Removes(b) THEN None ELSE dir[q]]
    BY <1>9 DEF Clean, Ends
  <2>2. /\ Owner(b) /\ Removes(b) \subseteq {Place(b)}
        /\ program.place = "final" => ~Past(b, Writes("data")) \/ ~Past(b, Writes("meta"))
    BY <2>1, CarefulFailing
  <2>3. Place(b) # "final"
    <3> SUFFICES ASSUME Place(b) = "final" PROVE FALSE
      OBVIOUS
    <3>1. dir["final"].by = b
      BY <2>2 DEF CarefulInv, OwnerHasPlace, Mine
    <3>2. Past(b, Writes("data")) /\ Past(b, Writes("meta"))
      BY <3>1, PlaceIsFinal DEF CarefulInv, WholeIsWritten, Whole
    <3> QED BY <2>2, <3>2, PlaceIsFinal
  <2> QED BY <2>1, <2>2, <2>3 DEF Places
<1>10. ASSUME NEW p \in Places, RemoveLeftover(p) PROVE Goal
  <2>1. p # "final"
    BY <1>10 DEF RemoveLeftover
  <2> QED BY <1>10, <2>1 DEF RemoveLeftover, TypeOK, Places
<1>11. ASSUME Drift \/ UNCHANGED vars PROVE Goal
  BY <1>11 DEF Drift, vars
<1> QED BY <1>1, <1>2, <1>4, <1>5, <1>6, <1>7, <1>8, <1>9, <1>10, <1>11 DEF Next, Step

\* Nothing published is overwritten or removed if every program is careful: the evidence
\* commands that lose an artifact do so because they are not.
THEOREM CarefulNeverReplace ==
    ASSUME Programs = CarefulPrograms
    PROVE  Spec => PublishedStays
<1>1. ASSUME PublicationInv, [Next]_vars
      PROVE  [dir["final"] # None /\ Whole(dir["final"]) => dir'["final"] = dir["final"]]_vars
  <2>1. TypeOK /\ PcInProgram /\ Careful /\ CarefulInv
    BY <1>1 DEF PublicationInv, TypeOK, Careful
  <2> QED BY <1>1, <2>1, WholeIsOutOfReach
<1> QED BY <1>1, PublicationInvariant, PTL DEF Spec, PublishedStays

-----------------------------------------------------------------------------
(* Careful programs implement an ID that is published once.                *)

Visible == dir["final"] # None /\ Whole(dir["final"])

LEMMA EditionType ==
    ASSUME TypeOK, Artifact # None
    PROVE  /\ Careful /\ Visible /\ Artifact \in Edition
           /\ Artifact.by = dir["final"].by
<1>1. Careful /\ Visible
  BY DEF Artifact, Visible
<1>2. dir["final"] \in Directory
  BY <1>1 DEF TypeOK, Places, Visible
<1> QED BY <1>1, <1>2 DEF Artifact, Edition, Directory, Visible

LEMMA VisibleEdition ==
    ASSUME TypeOK, Careful, Visible
    PROVE  Artifact \in Edition /\ Artifact # None /\ Artifact.by = dir["final"].by
<1>1. dir["final"] \in Directory
  BY DEF TypeOK, Places, Visible
<1>2. Artifact = [by |-> dir["final"].by, from |-> dir["final"].from,
                  names |-> dir["final"].names]
  BY DEF Artifact, Visible
<1>3. Artifact \in Edition /\ Artifact.by = dir["final"].by
  BY <1>1, <1>2 DEF Edition, Directory
<1> QED BY <1>3, NoneAssumption

\* The outcome of a builder follows its status.
LEMMA OutcomeOf ==
    ASSUME Careful, NEW b \in Builders
    PROVE  Outcome[b] = IF status[b] \in {"running", "failing"} THEN "working"
                        ELSE IF status[b] = "won" THEN "won" ELSE "lost"
BY DEF Outcome

\* A step that ends builder b with a result, and no other.
LEMMA ReportStep ==
    ASSUME TypeOK, Careful, NEW b \in Builders, program' = program,
           status[b] \in {"running", "failing"},
           NEW to \in {"won", "failed", "crashed"}, status' = [status EXCEPT ![b] = to]
    PROVE  /\ Outcome[b] = "working"
           /\ Outcome' = [Outcome EXCEPT ![b] = IF to = "won" THEN "won" ELSE "lost"]
BY DEF Outcome, Careful, TypeOK

\* Nothing a reader or a caller sees.
LEMMA SilentStep ==
    ASSUME Careful, UNCHANGED <<program, status>>,
           dir'["final"] = dir["final"] \/ (~Visible /\ ~Visible')
    PROVE  UNCHANGED <<Artifact, Outcome>>
<1>1. Careful' /\ UNCHANGED Outcome
  BY DEF Careful, Outcome
<1>2. CASE dir'["final"] = dir["final"]
  BY <1>1, <1>2 DEF Artifact, Whole
<1>3. CASE ~Visible /\ ~Visible'
  BY <1>1, <1>3 DEF Artifact, Visible
<1> QED BY <1>1, <1>2, <1>3

\* A whole artifact appears.
LEMMA AppearStep ==
    ASSUME TypeOK, TypeOK', Careful, UNCHANGED <<program, status>>, NEW b \in Builders,
           status[b] = "running", ~Visible, Visible', dir'["final"].by = b
    PROVE  Promise!Next
<1>1. Careful' /\ UNCHANGED Outcome /\ Outcome[b] = "working"
  BY DEF Careful, Outcome
<1>2. Artifact = None
  BY DEF Artifact, Visible
<1>3. Artifact' \in Edition /\ (Artifact').by = b
  <2>1. (Careful /\ Visible /\ TypeOK)'
    BY <1>1
  <2>2. (Artifact \in Edition /\ Artifact.by = dir["final"].by)'
    BY <2>1, VisibleEdition, PTL
  <2> QED BY <2>2
<1>4. Promise!Publish(Artifact')
  BY <1>1, <1>2, <1>3 DEF Promise!Publish
<1> QED BY <1>3, <1>4 DEF Promise!Next, Promise!Artifact, Edition

\* A command that fails or dies.
LEMMA LoseStep ==
    ASSUME TypeOK, Careful, NEW b \in Builders, program' = program,
           status[b] \in {"running", "failing"},
           NEW to \in {"failed", "crashed"}, status' = [status EXCEPT ![b] = to],
           dir'["final"] = dir["final"] \/ (~Visible /\ ~Visible')
    PROVE  Promise!Next
<1>1. Outcome[b] = "working" /\ Outcome' = [Outcome EXCEPT ![b] = "lost"]
  BY ReportStep
<1>2. Careful'
  BY DEF Careful
<1>3. UNCHANGED Artifact
  <2>1. CASE dir'["final"] = dir["final"]
    BY <1>2, <2>1 DEF Artifact, Whole
  <2>2. CASE ~Visible /\ ~Visible'
    BY <1>2, <2>2 DEF Artifact, Visible
  <2> QED BY <2>1, <2>2
<1>4. Promise!Lose(b)
  BY <1>1, <1>3 DEF Promise!Lose, Promise!Report
<1> QED BY <1>4 DEF Promise!Next

\* When a careful program has returned, its artifact is there.
LEMMA ReturnHasArtifact ==
    ASSUME TypeOK, PcInProgram, Careful, CarefulInv, NEW b \in Builders,
           status[b] = "running", pc[b] > Len(program.steps)
    PROVE  Visible /\ dir["final"].by = b
<1>1. pc[b] = Len(program.steps) + 1
  BY LengthIsNat DEF PcInProgram, TypeOK
<1>2. CASE program.place = "final"
  <2>1. Past(b, Writes("data")) /\ Past(b, Writes("meta"))
    BY <1>1, <1>2 DEF Careful, CarefulPrograms, Past
  <2>2. Owner(b) /\ Place(b) = "final"
    BY <1>2, <2>1, CarefulPast, PlaceIsFinal DEF Owner
  <2> QED BY <2>1, <2>2 DEF CarefulInv, OwnerHasPlace, Mine, Visible, Whole
<1>3. CASE program.place # "final"
  <2>1. Past(b, {"publish"})
    BY <1>1, <1>3 DEF Careful, CarefulPrograms, Past
  <2> QED BY <1>3, <2>1 DEF CarefulInv, PublisherHasFinal, RenamedIsWhole, Mine, Visible
<1> QED BY <1>2, <1>3

\* A write in a place of one's own makes an artifact appear, or nobody sees it.
LEMMA WritesRefine ==
    ASSUME TypeOK, TypeOK', PcInProgram, Careful, CarefulInv, NEW b \in Builders, NEW s,
           WritesInPlace(b, s)
    PROVE  Promise!Next \/ UNCHANGED <<Artifact, Outcome>>
<1>1. /\ Owner(b) /\ Mine(b, Place(b)) /\ status[b] = "running"
      /\ s \in Writes("data") \cup Writes("meta")
      /\ s \in Writes("data") => ~Past(b, Writes("data"))
      /\ s \in Writes("meta") => ~Past(b, Writes("meta"))
  BY CarefulAt DEF WritesInPlace, CarefulInv, OwnerHasPlace, At, Writes
<1>2. CASE Place(b) # "final"
  <2>1. dir'["final"] = dir["final"]
    BY <1>2, PlaceIsFinal DEF WritesInPlace, OnlyAt
  <2> QED BY <2>1, SilentStep DEF WritesInPlace
<1>3. CASE Place(b) = "final"
  <2>1. dir["final"].by = b /\ dir["final"] # None /\ dir'["final"].by = b
    BY <1>1, <1>3 DEF Mine, WritesInPlace
  <2>2. ~Visible
    BY <1>1, <1>3, <2>1, PlaceIsFinal DEF CarefulInv, WholeIsWritten, Visible, Whole
  <2>3. CASE Visible'
    BY <1>1, <2>1, <2>2, <2>3, AppearStep DEF WritesInPlace
  <2>4. CASE ~Visible'
    BY <2>2, <2>4, SilentStep DEF WritesInPlace
  <2> QED BY <2>3, <2>4
<1> QED BY <1>2, <1>3

LEMMA PromiseInit == ASSUME Init PROVE Promise!Init
<1>1. dir["final"] = None /\ \A b \in Builders : status[b] = "running"
  BY DEF Init, Places
<1> QED BY <1>1 DEF Promise!Init, Artifact, Outcome

LEMMA PromiseStep ==
    ASSUME PublicationInv, TypeOK', [Next]_vars, Careful
    PROVE  Promise!Next \/ UNCHANGED <<Artifact, Outcome>>
<1>1. TypeOK /\ PcInProgram /\ CarefulInv
  BY DEF PublicationInv
<1> HIDE DEF PublicationInv
<1> DEFINE Goal == Promise!Next \/ UNCHANGED <<Artifact, Outcome>>
<1>2. ASSUME NEW b \in Builders, Check(b) \/ Hash(b) \/ Build(b) PROVE Goal
  BY <1>2, ReadEffect, SilentStep
<1>3. ASSUME NEW b \in Builders, Package(b) PROVE Goal
  BY <1>1, <1>3, PackageEffect, SilentStep DEF OnlyAt, Places
<1>4. ASSUME NEW b \in Builders, Claim(b) PROVE Goal
  <2>1. CASE Place(b) = "final"
    <3>1. ~Visible /\ ~Visible'
      BY <1>1, <1>4, <2>1, ClaimEffect DEF Visible, Whole
    <3> QED BY <1>1, <1>4, <3>1, ClaimEffect, SilentStep
  <2>2. CASE Place(b) # "final"
    BY <1>1, <1>4, <2>2, ClaimEffect, SilentStep, PlaceIsFinal DEF OnlyAt
  <2> QED BY <2>1, <2>2
<1>5. ASSUME NEW b \in Builders, WriteData(b) \/ WriteMeta(b) \/ WriteBoth(b) PROVE Goal
  BY <1>1, <1>5, WriteDataEffect, WriteMetaEffect, WriteBothEffect, WritesRefine
<1>6. ASSUME NEW b \in Builders, WriteHandle(b) PROVE Goal
  <2>1. Mine(b, Place(b))
    BY <1>1, <1>6, CarefulAt DEF WriteHandle, CarefulInv, OwnerHasPlace
  <2> QED BY <1>1, <1>6, <2>1, WriteHandleEffect, WritesRefine
<1>7. ASSUME NEW b \in Builders, Publish(b) PROVE Goal
  <2>1. /\ program.place # "final" /\ Owner(b) /\ status[b] = "running"
        /\ Past(b, Writes("data")) /\ Past(b, Writes("meta"))
    BY <1>1, <1>7, CarefulAt DEF Publish, At
  <2>2. /\ UNCHANGED <<program, status>>
        /\ dir["final"] = None
        /\ dir'["final"] = dir[Place(b)]
    BY <1>1, <1>7, <2>1, PublishEffect
  <2>3. Mine(b, Place(b)) /\ Whole(dir[Place(b)])
    BY <1>1, <2>1 DEF CarefulInv, OwnerHasPlace, Whole
  <2>4. ~Visible /\ Visible' /\ dir'["final"].by = b
    BY <2>2, <2>3 DEF Mine, Visible, Whole
  <2> QED BY <1>1, <2>1, <2>2, <2>4, AppearStep
<1>8. ASSUME NEW b \in Builders, Create(b) \/ Overwrite(b) PROVE Goal
  BY <1>1, <1>8, CarefulAt DEF Create, Overwrite
<1>9. ASSUME NEW b \in Builders, Return(b) PROVE Goal
  <2>1. /\ status[b] = "running" /\ pc[b] > Len(program.steps)
        /\ status' = [status EXCEPT ![b] = "won"] /\ UNCHANGED <<program, dir>>
    BY <1>9 DEF Return, Ends
  <2>2. Visible /\ dir["final"].by = b
    BY <1>1, <2>1, ReturnHasArtifact
  <2>3. Artifact # None /\ Artifact.by = b /\ UNCHANGED Artifact
    BY <1>1, <2>1, <2>2, VisibleEdition DEF Artifact, Careful
  <2>4. Outcome[b] = "working" /\ Outcome' = [Outcome EXCEPT ![b] = "won"]
    BY <1>1, <2>1, ReportStep
  <2>5. Promise!Win(b)
    BY <2>3, <2>4 DEF Promise!Win, Promise!Report
  <2> QED BY <2>5 DEF Promise!Next
<1>10. ASSUME NEW b \in Builders, Raise(b) PROVE Goal
  <2>1. CASE status' = [status EXCEPT ![b] = "failing"]
    BY <1>1, <1>10, <2>1 DEF Raise, Ends, Outcome, Artifact, Careful, TypeOK
  <2>2. CASE status' = [status EXCEPT ![b] = "failed"]
    BY <1>1, <1>10, <2>2, LoseStep DEF Raise, Ends
  <2> QED BY <1>10, <2>1, <2>2 DEF Raise, Ends
<1>11. ASSUME NEW b \in Builders, Clean(b) PROVE Goal
  <2>1. /\ status[b] = "failing" /\ program' = program
        /\ status' = [status EXCEPT ![b] = "failed"]
        /\ dir' = [q \in Places |-> IF q \in Removes(b) THEN None ELSE dir[q]]
    BY <1>11 DEF Clean, Ends
  <2>2. /\ Owner(b) /\ Removes(b) \subseteq {Place(b)}
        /\ program.place = "final" => ~Past(b, Writes("data")) \/ ~Past(b, Writes("meta"))
    BY <1>1, <2>1, CarefulFailing
  <2>3. CASE Place(b) # "final"
    <3>1. dir'["final"] = dir["final"]
      BY <2>1, <2>2, <2>3 DEF Places
    <3> QED BY <1>1, <2>1, <3>1, LoseStep
  <2>4. CASE Place(b) = "final"
    <3>1. dir["final"] # None /\ dir["final"].by = b
      BY <1>1, <2>2, <2>4 DEF CarefulInv, OwnerHasPlace, Mine
    <3>2. ~Visible
      BY <1>1, <2>2, <2>4, <3>1, PlaceIsFinal DEF CarefulInv, WholeIsWritten, Visible, Whole
    <3>3. dir'["final"] \in {dir["final"], None}
      BY <2>1 DEF Places
    <3>4. ~Visible'
      BY <3>2, <3>3 DEF Visible, Whole
    <3> QED BY <1>1, <2>1, <3>2, <3>4, LoseStep
  <2> QED BY <2>3, <2>4
<1>12. ASSUME NEW b \in Builders, Crash(b) PROVE Goal
  <2>1. /\ status[b] \in {"running", "failing"} /\ UNCHANGED <<program, dir>>
        /\ status' = [status EXCEPT ![b] = "crashed"]
    BY <1>12 DEF Crash, Alive, Ends
  <2> QED BY <1>1, <2>1, LoseStep
<1>13. ASSUME NEW p \in Places, RemoveLeftover(p) PROVE Goal
  <2>1. /\ UNCHANGED <<program, status>>
        /\ dir' = [dir EXCEPT ![p] = None]
        /\ p = "final" => ~Whole(dir["final"])
    BY <1>13 DEF RemoveLeftover
  <2>2. dir'["final"] = IF p = "final" THEN None ELSE dir["final"]
    BY <1>1, <2>1 DEF TypeOK, Places
  <2>3. dir'["final"] = dir["final"] \/ (~Visible /\ ~Visible')
    BY <2>1, <2>2 DEF Visible
  <2> QED BY <2>1, <2>3, SilentStep
<1>14. CASE Drift \/ UNCHANGED vars
  BY <1>14, SilentStep DEF Drift, vars
<1> QED BY <1>2, <1>3, <1>4, <1>5, <1>6, <1>7, <1>8, <1>9, <1>10, <1>11, <1>12, <1>13, <1>14
        DEF Next, Step

\* Every careful program publishes at most one artifact under an ID, never replaces
\* or removes it, and reports success only for its own.
THEOREM PublicationRefinesPromise == Spec => ImplementsPromise
<1>1. Init => Promise!Init
  BY PromiseInit
<1>2. ASSUME PublicationInv, PublicationInv', [Next]_vars
      PROVE  [Promise!Next]_<<Artifact, Outcome>>
  <2>1. CASE Careful
    BY <1>2, <2>1, PromiseStep DEF PublicationInv
  <2>2. CASE ~Careful
    <3>1. program' = program
      BY <1>2 DEF Next, Step, Check, Passes, Hash, Build, Claim, WriteData, WriteMeta, WriteBoth,
                  WriteHandle, Publish, Create, Overwrite, Package, Puts, Begin, Return, Raise,
                  Clean, Crash, Ends, RemoveLeftover, Drift, vars
    <3>2. ~Careful'
      BY <2>2, <3>1 DEF Careful
    <3> QED BY <2>2, <3>2 DEF Artifact, Outcome
  <2> QED BY <2>1, <2>2
<1> QED BY <1>1, <1>2, PublicationInvariant, PTL DEF Spec, ImplementsPromise, Promise!Spec

=============================================================================
