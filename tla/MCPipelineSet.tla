--------------------------- MODULE MCPipelineSet ---------------------------
(***************************************************************************)
(* A pipeline as the scenes have it: the camera's table is set once in a   *)
(* frame and shared by all draws, the material's is replaced by clone for  *)
(* each draw, and the light is a root view.                                *)
(***************************************************************************)
EXTENDS PipelineSet

MCTables          == {"camera", "material"}
MCDescriptorCount == [t \in MCTables |-> IF t = "camera" THEN 1 ELSE 2]
MCViews           == {"light"}
MCAutoReplace     == {"material"}
MCCloneArguments  == {{}, {"light"}}
BothRules         == {"clone to update", "update every frame"}
=============================================================================
