------------------------ MODULE MCCombinedInspection ------------------------
(* Small instances of CombinedInspection for TLC. *)
EXTENDS CombinedInspection, TLC

CONSTANTS c1, p1, k1

\* One request at each endpoint.
MCMixedRequests == {c1, p1, k1}
MCMixedKind == (c1 :> "combined") @@ (p1 :> "patchcore") @@ (k1 :> "known")

=============================================================================
