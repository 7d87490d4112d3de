-------------------------- MODULE ArtifactPrograms --------------------------
(***************************************************************************)
(* The platform's artifact builders as programs of ArtifactPublication: the *)
(* order of each function's checks, reads, writes and renames, and what its *)
(* except block covers and removes.  What a step computes is left out.      *)
(***************************************************************************)
EXTENDS Integers, Sequences

\* A program whose try block begins with the step after the claim, or nowhere.
Staged(before, inside, place, names) ==
    [steps |-> before \o <<"claim">> \o inside,
     guarded |-> Len(before) + 2 .. Len(before) + 1 + Len(inside),
     place |-> place, cleans |-> {"place"}, names |-> names]

\* No try block: a failure leaves a half-written directory.
Direct(before, after, names) ==
    [steps |-> before \o <<"claim">> \o after,
     guarded |-> {}, place |-> "final", cleans |-> {}, names |-> names]

-----------------------------------------------------------------------------
(* Model export and engine builds                                          *)

OnnxExport == Staged(<<"look", "lookStaging", "verify", "build", "verify">>,
                     <<"data", "meta", "publish">>, "staging", "frozen")

\* The hash to compare with is taken after the identity check.
TensorrtExport ==
    Staged(<<"verify", "look", "lookStaging">>,
           <<"hash", "build", "data", "recheck", "meta", "publish">>, "staging", "frozen")

Int8Qdq ==
    Staged(<<"verify", "look", "lookStaging">>,
           <<"hash", "build", "data", "recheck", "meta", "publish">>, "staging", "frozen")

Int8Engine ==
    Staged(<<"hash", "verify", "look", "lookStaging">>,
           <<"build", "data", "recheck", "meta", "publish">>, "staging", "frozen")

-----------------------------------------------------------------------------
(* Parity, characterization and acceptance                                 *)

OnnxParity ==
    Staged(<<"verify", "look", "lookStaging", "verify", "build">>,
           <<"both", "verify", "publish">>, "staging", "frozen")

TensorrtParity ==
    Staged(<<"verify", "look", "lookStaging", "verify", "build">>,
           <<"both", "verify", "publish">>, "staging", "frozen")

\* The engine is identified first and hashed later; the source model, a source of
\* its own that is verified again, is left out.
Int8Characterization ==
    Staged(<<"verify", "look", "lookStaging", "hash", "build">>,
           <<"both", "recheck", "publish">>, "staging", "frozen")

\* The evidence is read, and read again to be hashed.
TensorrtAcceptance ==
    Staged(<<"build", "hash", "look", "lookStaging">>, <<"both", "publish">>, "staging", "hashed")

Int8Acceptance ==
    Staged(<<"build", "hash", "look", "lookStaging">>, <<"both", "publish">>, "staging", "hashed")

OnnxAcceptance == Staged(<<"build", "hash", "look">>, <<"handle">>, "final", "hashed")

-----------------------------------------------------------------------------
(* RAG, analysis and dataset builds in a mkdtemp directory                 *)

\* Every manual is read, and read again to be hashed.
RagIndex ==
    Staged(<<"look", "build", "hash">>, <<"data", "meta", "load", "publish">>, "private", "hashed")

\* The lineage of the index is read again after the evaluation.
RagEvaluation ==
    Staged(<<"look", "build", "hash">>, <<"data", "meta", "load", "publish">>, "private", "hashed")

FinalBenchmark ==
    Staged(<<"look", "build", "hash">>, <<"both", "load", "publish">>, "private", "hashed")

\* The manifest is hashed for the summary, after the tables are written.
KnownDefectFeasibility ==
    Staged(<<"look", "build">>, <<"data", "hash", "meta", "publish">>, "private", "hashed")

\* The source is the manifest: images and masks, read sample by sample, are left out.
\* The audit and the ZIP come after the rename, outside the try block.
DatasetExport ==
    [Staged(<<"look", "lookPackage", "build", "hash">>, <<"data", "meta", "publish">>,
            "private", "hashed")
        EXCEPT !.steps = @ \o <<"audit", "package">>]

-----------------------------------------------------------------------------
(* Written straight into the final directory                               *)

\* The manifest is hashed when the memory bank is ready.
PatchCoreArtifact ==
    Direct(<<"look", "build", "look", "hash">>, <<"data", "meta">>, "hashed")

\* What is hashed is the copy of the checkpoint.
YoloArtifact == Direct(<<"look">>, <<"build", "data", "meta">>, "built")

\* The caller has read the records before the manifest is compared with the contract.
TrainView == Direct(<<"build", "verify", "look">>, <<"data", "meta">>, "frozen")

\* The records name no source: they are taken for those of the artifact's manifest.
Predictions == Direct(<<"look", "verify", "build">>, <<"meta", "data">>, "frozen")

\* The sources below are what is measured: the predictions, the thresholds, the model.
Thresholds              == Direct(<<"look", "build", "hash">>, <<"both">>, "hashed")
DriftReference          == Direct(<<"look", "build", "hash">>, <<"both">>, "hashed")
PatchCoreBenchmark      == Direct(<<"look", "build", "hash">>, <<"both">>, "hashed")
PatchCoreEvaluation     == Direct(<<"look", "build", "hash">>, <<"meta", "data">>, "hashed")

\* The report names the reference it has read, and hashes nothing.
DriftReport             == Direct(<<"look", "build">>, <<"both">>, "built")
YoloErrorAnalysis       == Direct(<<"look", "hash", "build", "recheck">>, <<"data", "meta">>, "hashed")
YoloEvaluation          == Direct(<<"look", "verify">>, <<"build", "data", "meta">>, "frozen")
TrackingPointer         == Direct(<<"look", "build", "hash", "look">>, <<"both">>, "hashed")
StreamingCharacterization ==
    Direct(<<"verify", "hash", "build", "recheck", "look">>, <<"both">>, "frozen")
StreamingAcceptance     == Direct(<<"build", "hash", "look">>, <<"both">>, "hashed")

-----------------------------------------------------------------------------
(* DeepStream evidence                                                     *)

\* open("xb") is inside the try block, and the except block unlinks the file.
InferenceEvidence ==
    [steps |-> <<"look", "verify", "build", "claim", "handle">>, guarded |-> 3 .. 5,
     place |-> "final", cleans |-> {"place"}, names |-> "frozen"]

\* The engine directory is removed by the run that made it, the evidence by any.
BuildEvidence ==
    [steps |-> <<"look", "lookStaging", "verify", "build", "claim", "data", "meta", "create">>,
     guarded |-> 4 .. 8,
     place |-> "staging", cleans |-> {"claimed", "final"}, names |-> "frozen"]

\* The config is read first and hashed after the smoke test, when the evidence, looked
\* for before it, is written.
NvmmEvidence ==
    [steps |-> <<"build", "look", "hash", "overwrite">>, guarded |-> {}, place |-> "final",
     cleans |-> {}, names |-> "hashed"]

CompatibilityEvidence ==
    [steps |-> <<"build", "look", "hash", "overwrite">>, guarded |-> {}, place |-> "final",
     cleans |-> {}, names |-> "hashed"]

=============================================================================
