---------------------------- MODULE MCPipelines ----------------------------
(***************************************************************************)
(* Pipelines with what the scenes of dx12Test draw.                        *)
(***************************************************************************)
EXTENDS Pipelines, SceneDraws

MCDraws == AllDraws
=============================================================================
