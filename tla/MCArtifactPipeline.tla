-------------------------- MODULE MCArtifactPipeline -------------------------
(***************************************************************************)
(* Instances of ArtifactPipeline for TLC.                                  *)
(***************************************************************************)
EXTENDS PipelineInvariants, TLC

AllSampling == [j \in Jobs |-> "sampling"]

\* Claims, artifacts, calls and runners are only compared for equality.
PipelineSymmetry ==
    Permutations(Claims) \cup Permutations(Artifacts) \cup Permutations(Calls)
    \cup Permutations(Runners)
=============================================================================
