---------------------------- MODULE MCSceneEditor ----------------------------
(* The scene of data/debug/scene.json with the elements the editor adds, a   *)
(* second file whose model has no "system", a third with a pipeline of type  *)
(* zpass, and messages that meet in every way: an addition that is refused,  *)
(* one of a name that is taken, an object added, deleted and updated by one  *)
(* message, a model nobody has.                                              *)
EXTENDS SceneEditor

CONSTANTS o1, o2, m1, m2, p1, p2, forward, t1, t2

On(p) == [x \in PhaseNames |-> p]

ObjectJson(name, model, p) ==
    [name |-> name, valid |-> TRUE, model |-> model, phase |-> On(p)]
ModelJson(name, tex, system) ==
    [name |-> name, system |-> system, valid |-> TRUE, tex |-> tex]
PipelineJson(name, textured) ==
    [name |-> name, system |-> TRUE, valid |-> TRUE, textured |-> textured, zpass |-> FALSE]

FileOf(system, zpass) ==
    [loaded |-> TRUE, risky |-> ~system \/ zpass,
     objects |-> <<ObjectJson(o1, m1, p1), ObjectJson(o1, m2, p2)>>,
     models |-> <<ModelJson(m1, t1, system)>>,
     pipelines |-> <<[PipelineJson(p1, FALSE) EXCEPT !.zpass = zpass]>>]

MCSceneFiles == {FileOf(TRUE, FALSE), FileOf(FALSE, FALSE), FileOf(TRUE, TRUE), [loaded |-> FALSE]}

MCEditorParam ==
    [pipeline |-> PipelineJson(p2, TRUE), model |-> ModelJson(m2, t2, TRUE),
     object |-> ObjectJson(o1, m2, p2),
     phase |-> [name |-> forward, rendertarget |-> "back_buffer"]]

Message(adds, dels, upds, arrays) ==
    [opcode |-> "text", json |-> TRUE, add_objects |-> adds,
     del_objects |-> dels, update_objects |-> upds, arrays |-> arrays]

Refused == [ObjectJson(o2, m1, p2) EXCEPT !.valid = FALSE]
Unnamed == [ObjectJson(o1, m1, None) EXCEPT !.phase = NoPhases]

MCMessages ==
    {Message(<<ObjectJson(o2, m2, p2), Refused>>, <<o1, o2>>, <<>>, {"add", "del"}),
     Message(<<>>, <<o1>>, <<Unnamed>>, {"del", "update"}),
     Message(<<ObjectJson(None, m2, p2), ObjectJson(o1, m2, p2)>>, <<>>,
             <<ObjectJson(o2, m2, p1)>>, {"add", "update"}),
     [NoMessage EXCEPT !.opcode = "binary"]}

MCLocalEdits ==
    {[op |-> "add", type |-> "model", param |-> ModelJson(m1, t1, TRUE)],
     [op |-> "add", type |-> "pipeline", param |-> PipelineJson(p1, TRUE)],
     [op |-> "add", type |-> "phase",
      param |-> [name |-> forward, rendertarget |-> "back_buffer"]],
     [op |-> "delete", type |-> "model", name |-> m1],
     [op |-> "delete", type |-> "phase", name |-> forward],
     [op |-> "delete", type |-> "pipeline", name |-> p2]}
=============================================================================
