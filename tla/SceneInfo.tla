------------------------------ MODULE SceneInfo ------------------------------
(* The data of a scene in dx12Test: objects, models, pipelines, textures and *)
(* render phases by name, how they are loaded, added, merged, updated and    *)
(* deleted, and how SceneEditorScene draws them.  A hash is a function from  *)
(* the names that can occur to entries, None for a name it does not hold.    *)
(* What json11, files and the device decide is in the records given to the   *)
(* operations: valid (validate() accepts the value), system (it has the      *)
(* member "system"), Unloadable (the file of a texture cannot be read).      *)
EXTENDS Naturals, Sequences, SequencesExt

CONSTANTS
    ObjectNames, ModelNames, PipelineNames, PhaseNames, Textures,
    Unloadable,     \* textures whose file cannot be loaded
    None

ASSUME SceneNames ==
    /\ Unloadable \subseteq Textures
    /\ None \notin ObjectNames \cup ModelNames \cup PipelineNames
                   \cup PhaseNames \cup Textures

VARIABLES
    objects,        \* SceneInfo::mObjectHash
    models,         \* SceneInfo::mModelHash
    pipelines,      \* SceneInfo::mPipelineHash
    textures,       \* SceneInfo::mTextureHash: absent, empty or loaded
    phases,         \* SceneInfo::mRenderPhaseHash
    phaseOrder,     \* SceneInfo::mpRenderPhasePriorityOrder, pointers as names
    drawn,          \* what the last paint drew, <<object, model, pipeline>>
    fault           \* what ended the program, or None

sceneVars == <<objects, models, pipelines, textures, phases, phaseOrder,
               drawn, fault>>

Faults == {"out_of_range", "null_impl", "null_pipeline", "unknown_name",
           "no_view", "dangling", "overflow", "race"}

Object == [enable: BOOLEAN, valid: BOOLEAN, model: ModelNames \cup {None},
           phase: [PhaseNames -> PipelineNames \cup {None}]]
Model == [enable: BOOLEAN, created: BOOLEAN, impl: BOOLEAN,
          tex: Textures \cup {None}]
Pipeline == [enable: BOOLEAN, created: BOOLEAN, impl: BOOLEAN,
             textured: BOOLEAN, zpass: BOOLEAN]
RenderPhase == [enable: BOOLEAN, created: BOOLEAN]

\* The json values of elements.
ObjectValue == [name: ObjectNames \cup {None}, valid: BOOLEAN,
                model: ModelNames \cup {None},
                phase: [PhaseNames -> PipelineNames \cup {None}]]
ModelValue == [name: ModelNames \cup {None}, system: BOOLEAN, valid: BOOLEAN,
               tex: Textures \cup {None}]
PipelineValue == [name: PipelineNames \cup {None}, system: BOOLEAN,
                  valid: BOOLEAN, textured: BOOLEAN, zpass: BOOLEAN]

ASSUME NoneAssumption ==
    /\ None \notin Object \cup Model \cup Pipeline \cup RenderPhase \cup ObjectValue
    /\ None \notin Faults

Holds(hash, name) == hash[name] # None

(***************************************************************************)
(* Elements                                                                *)
(***************************************************************************)

NoPhases == [p \in PhaseNames |-> None]

NewObject == [enable |-> FALSE, valid |-> FALSE, model |-> None,
              phase |-> NoPhases]

\* Object::create: a new impl, empty when the value is refused; the flags
\* of Element stay as they were.
CreateObject(o, json) ==
    IF json.valid
    THEN [o EXCEPT !.valid = TRUE, !.model = json.model, !.phase = json.phase]
    ELSE [NewObject EXCEPT !.enable = o.enable]

\* Object::update: what the value does not name stays.
UpdateObject(o, json) ==
    [o EXCEPT !.model = IF json.model # None THEN json.model ELSE @,
              !.phase = [p \in PhaseNames |->
                           IF json.phase[p] # None THEN json.phase[p]
                           ELSE o.phase[p]]]

NewModel == [enable |-> FALSE, created |-> FALSE, impl |-> FALSE,
             tex |-> None]

\* Model::create: reset, then an impl when the value has "system"; a value
\* the impl refuses leaves it without textures.
CreateModel(json) ==
    [NewModel EXCEPT !.impl = json.system,
                     !.tex = IF json.system /\ json.valid THEN json.tex ELSE None]

NewPipeline == [enable |-> FALSE, created |-> FALSE, impl |-> FALSE,
                textured |-> FALSE, zpass |-> FALSE]

\* Pipeline::create: as for a model; a refused value leaves the first vertex
\* layout, position only, which has no texture.
CreatePipeline(json) ==
    [NewPipeline EXCEPT !.impl = json.system,
                        !.textured = json.system /\ json.valid /\ json.textured,
                        !.zpass = json.system /\ json.valid /\ json.zpass]

NewRenderPhase == [enable |-> FALSE, created |-> FALSE]

\* RenderPhase::create(InitParam): the impl of the back buffer takes the
\* parameters over; those of the g-buffer and of the shadow map call
\* themselves again, without end.
CreateRenderPhaseReturns(param) == param.rendertarget = "back_buffer"

(***************************************************************************)
(* SceneInfo                                                               *)
(***************************************************************************)

\* The first element of each name in the order of the file.
Named(seq, name) == {i \in DOMAIN seq : seq[i].name = name}
First(seq, name) ==
    seq[CHOOSE i \in Named(seq, name) : \A j \in Named(seq, name) : i <= j]

InitPipeline(seq) ==
    [n \in PipelineNames |->
        IF Named(seq, n) = {} THEN None ELSE CreatePipeline(First(seq, n))]

InitModel(seq) ==
    [n \in ModelNames |->
        IF Named(seq, n) = {} THEN None ELSE CreateModel(First(seq, n))]

\* An object is enabled when its model is in the file too; a refused one
\* stays in the hash, disabled.
InitObject(seq, modelHash) ==
    [n \in ObjectNames |->
        IF Named(seq, n) = {} THEN None
        ELSE LET o == CreateObject(NewObject, First(seq, n)) IN
             [o EXCEPT !.enable = o.valid /\ o.model # None
                                  /\ Holds(modelHash, o.model)]]

\* SceneInfo::addObject and SceneInfoImpl::addObject
AddObject(hash, param, modelHash) ==
    IF Holds(hash, param.name) THEN hash
    ELSE LET o == CreateObject(NewObject, param) IN
         [hash EXCEPT ![param.name] =
            [o EXCEPT !.enable = o.model # None /\ Holds(modelHash, o.model)]]

AddModel(hash, param) ==
    IF Holds(hash, param.name) THEN hash
    ELSE [hash EXCEPT ![param.name] = CreateModel(param)]

AddPipeline(hash, param) ==
    IF Holds(hash, param.name) THEN hash
    ELSE [hash EXCEPT ![param.name] = CreatePipeline(param)]

AddRenderPhase(hash, param) ==
    IF Holds(hash, param.name) THEN hash
    ELSE [hash EXCEPT ![param.name] = NewRenderPhase]

\* SceneInfo::mergeObject, mergeModel, mergePipeline: a name that is taken
\* keeps its entry and the new one is dropped.
Merge(hash, added) ==
    [n \in DOMAIN hash |-> IF Holds(hash, n) THEN hash[n] ELSE added[n]]

\* SceneInfo::mergeRenderPhase looks a name up where it is not held: at throws.
MergeRenderPhaseThrows(hash, added) ==
    \E n \in PhaseNames : Holds(added, n) /\ ~Holds(hash, n)

\* SceneInfo::deleteObject, deleteModel, deletePipeline, deleteRenderPhase;
\* the pointer of a phase stays in the priority order.
Erase(hash, name) == [hash EXCEPT ![name] = None]

\* The textures createTexture asks for, once each; one that cannot be loaded
\* stays as an entry without a view.
LoadTextures(wanted) ==
    [t \in Textures |->
        IF textures[t] = "absent" /\ t \in wanted
        THEN IF t \in Unloadable THEN "empty" ELSE "loaded"
        ELSE textures[t]]

Created(hash) ==
    [n \in DOMAIN hash |->
        IF hash[n] = None THEN None
        ELSE [hash[n] EXCEPT !.created = TRUE, !.enable = TRUE]]

\* SceneInfo::initResource: the resources of what has none yet, one upload,
\* then everything is enabled; createPipelineSet and createResource go
\* through the impl.
InitResource(pipelineHash, modelHash, phaseHash) ==
    LET Uncreated(hash) == {n \in DOMAIN hash : Holds(hash, n) /\ ~hash[n].created}
        noImpl == \/ \E n \in Uncreated(pipelineHash) : ~pipelineHash[n].impl
                  \/ \E n \in Uncreated(modelHash) : ~modelHash[n].impl
    IN  /\ pipelines' = Created(pipelineHash)
        /\ models' = Created(modelHash)
        /\ phases' = Created(phaseHash)
        /\ textures' = LoadTextures({modelHash[n].tex : n \in Uncreated(modelHash)})
        /\ fault' = IF noImpl THEN "null_impl" ELSE fault

(***************************************************************************)
(* SceneEditorScene                                                        *)
(***************************************************************************)

\* SceneEditorScene::init: one pipeline, model, object and phase are added to
\* what the scene holds, then the resources.  std::sort compares pointers, so
\* the order of the phases is that of their addresses.
InitScene(param) ==
    LET modelHash == AddModel(models, param.model)
        phaseHash == AddRenderPhase(phases, param.phase)
    IN  /\ objects' = AddObject(objects, param.object, modelHash)
        /\ InitResource(AddPipeline(pipelines, param.pipeline), modelHash, phaseHash)
        /\ phaseOrder' \in SetToSeqs({p \in PhaseNames : Holds(phaseHash, p)})
        /\ UNCHANGED drawn

\* What a paint looks at: the enabled phases in their order and, in each, the
\* enabled objects that have an entry for the phase.
IsVisited(p, o) ==
    /\ Holds(phases, p) /\ phases[p].enable
    /\ Holds(objects, o) /\ objects[o].enable
    /\ objects[o].phase[p] # None

Visited == {v \in ToSet(phaseOrder) \X ObjectNames : IsVisited(v[1], v[2])}

\* modelHash()[key] adds an empty model for a name that is not held.
ModelOrNew(n) == IF n = None THEN NewModel
                 ELSE IF Holds(models, n) THEN models[n] ELSE NewModel

\* Mutant of Drawable: only the pipeline is asked whether it is enabled.
DrawableByPipeline(p, o) ==
    /\ Holds(pipelines, objects[o].phase[p])
    /\ pipelines[objects[o].phase[p]].enable

Drawable(p, o) ==
    /\ Holds(pipelines, objects[o].phase[p])
    /\ pipelines[objects[o].phase[p]].enable
    /\ ModelOrNew(objects[o].model).enable

\* CBMaterial is set for every object that is drawn; a pipeline of type zpass
\* has no such name (module Pipelines), and findBindingInfo is noexcept.
PaintFault ==
    LET draws == {v \in Visited : Drawable(v[1], v[2])}
        texOf(v) == ModelOrNew(objects[v[2]].model).tex
        textured == {v \in draws : pipelines[objects[v[2]].phase[v[1]]].textured}
    IN  IF \E n \in PipelineNames : Holds(pipelines, n) /\ ~pipelines[n].created
        THEN "null_pipeline"
        ELSE IF \E p \in ToSet(phaseOrder) : ~Holds(phases, p)
        THEN "dangling"
        ELSE IF \E v \in Visited : ~Holds(pipelines, objects[v[2]].phase[v[1]])
        THEN "out_of_range"
        ELSE IF \E v \in draws : pipelines[objects[v[2]].phase[v[1]]].zpass
        THEN "unknown_name"
        ELSE IF \E v \in textured : texOf(v) = None \/ textures[texOf(v)] = "absent"
        THEN "out_of_range"
        ELSE IF \E v \in textured : textures[texOf(v)] = "empty"
        THEN "no_view"
        ELSE None

\* SceneEditorScene::paint; what it throws reaches Window::sWndProc, which
\* aborts.
Paint ==
    /\ fault' = PaintFault
    /\ drawn' = IF PaintFault # None THEN {}
                ELSE {<<v[2], objects[v[2]].model, objects[v[2]].phase[v[1]]>> :
                        v \in {w \in Visited : Drawable(w[1], w[2])}}
    /\ models' = [n \in ModelNames |->
                    IF \E v \in Visited : objects[v[2]].model = n
                    THEN ModelOrNew(n) ELSE models[n]]
    /\ UNCHANGED <<objects, pipelines, textures, phases, phaseOrder>>
=============================================================================
