----------------------- MODULE MCArtifactPublication -----------------------
(* The platform's builders, raced on small instances. *)
EXTENDS ArtifactPublication, ArtifactPrograms, TLC

EvidencePrograms == {InferenceEvidence, BuildEvidence}

AllPrograms ==
    EvidencePrograms \cup
    {OnnxExport, TensorrtExport, Int8Qdq, Int8Engine,
     OnnxParity, TensorrtParity, Int8Characterization,
     TensorrtAcceptance, Int8Acceptance, OnnxAcceptance,
     RagIndex, RagEvaluation, FinalBenchmark, KnownDefectFeasibility, DatasetExport,
     PatchCoreArtifact, YoloArtifact, TrainView, Predictions, Thresholds, DriftReference,
     DriftReport, PatchCoreBenchmark, PatchCoreEvaluation, YoloErrorAnalysis,
     YoloEvaluation, TrackingPointer, StreamingCharacterization, StreamingAcceptance,
     NvmmEvidence, CompatibilityEvidence}

\* Which of them take their place before they can fail into cleanup, and which
\* tie what they publish to what its metadata names; what the theorems assume of
\* the careful ones.
ASSUME Classification ==
    /\ CarefulPrograms =
           Programs \ (EvidencePrograms \cup {NvmmEvidence, CompatibilityEvidence})
    /\ {OnnxExport, OnnxParity, TensorrtParity, Int8Engine, YoloArtifact, TrainView,
        DriftReport, YoloErrorAnalysis} \cap Programs
       \subseteq AnchoredPrograms \ RereadPrograms
    /\ {TensorrtExport, Int8Qdq, Int8Characterization, StreamingCharacterization}
       \cap Programs \subseteq RecheckedPrograms \ AnchoredPrograms
    /\ {TensorrtAcceptance, Int8Acceptance, OnnxAcceptance, RagIndex, RagEvaluation,
        FinalBenchmark, KnownDefectFeasibility, DatasetExport, PatchCoreArtifact, Thresholds,
        DriftReference, PatchCoreBenchmark, PatchCoreEvaluation, TrackingPointer,
        StreamingAcceptance} \cap Programs
       \subseteq RereadPrograms \ AnchoredPrograms
    /\ {p \in CarefulPrograms : p.cleans # {}} \subseteq TidyPrograms
    /\ CarefulPrograms \subseteq SettledPrograms

BuilderSymmetry == Permutations(Builders)

=============================================================================
