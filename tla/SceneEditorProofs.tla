-------------------------- MODULE SceneEditorProofs --------------------------
(***************************************************************************)
(* Proofs about SceneEditor for every scene, every set of messages and     *)
(* every number of them.                                                   *)
(*                                                                         *)
(* Three invariants are behind the properties.  Whoever has the mutex is   *)
(* where the code takes it, so that nothing is merged while a message is   *)
(* half done.  An object waits only under a name that is free in the       *)
(* scene, and deletions are applied after the merge and not undone before  *)
(* the paint.  And as long as nothing is asked for that the code does not  *)
(* check, what a paint can reach is complete: the pipelines every object   *)
(* and every value on its way to one names, the phases in the order, and   *)
(* the texture of every model that is enabled.                             *)
(***************************************************************************)
EXTENDS SceneEditor, SequenceTheorems, WellFoundedInduction, TLAPS

Hash(names, elements) == [names -> elements \cup {None}]

Types ==
    /\ objects \in Hash(ObjectNames, Object)
    /\ models \in Hash(ModelNames, Model)
    /\ pipelines \in Hash(PipelineNames, Pipeline)
    /\ phases \in Hash(PhaseNames, RenderPhase)
    /\ textures \in [Textures -> {"absent", "empty", "loaded"}]
    /\ mObjectHash \in Hash(ObjectNames, Object)
    /\ mModelHash \in Hash(ModelNames, Model)
    /\ mPipelineHash \in Hash(PipelineNames, Pipeline)
    /\ mRenderPhase \in Hash(PhaseNames, RenderPhase)
    /\ mDeleteList \subseteq Entries
    /\ mUpdateList \in Hash(ObjectNames, ObjectValue)
    /\ msg \in MessageValue
    /\ asked \subseteq ObjectNames
    /\ main \in MainSteps /\ server \in ServerSteps
    /\ risky \in BOOLEAN

(* Who has the mutex, and where the thread of the server is off.           *)
LockInv ==
    /\ lock \in {None, "main", "server"}
    /\ lock = "main" =>
         main \in {"merge_rest", "deletes", "delete", "updates", "update", "unlock"}
    /\ (lock = "server") = (server \in {"add", "del", "upd", "unlock"})
    /\ main \in {"load", "init"} => server = "off" /\ mObjectHash = NoObjects
    /\ server = "lock" => asked = {}

(* Deletions are applied behind the merge, each to what is there.          *)
DeleteInv ==
    /\ main \in {"merge_objects", "merge_rest", "deletes"} => walked = {}
    /\ main \in {"delete", "updates", "update", "unlock", "paint"} =>
         \A n \in ObjectNames : <<"object", n>> \in walked => ~Holds(objects, n)

(* The inductive invariant of the two threads. *)
EditInv == Types /\ LockInv /\ AdditionsArrive /\ DeleteInv
-----------------------------------------------------------------------------
(* Only initResource enables a model or a pipeline, and it creates its     *)
(* resources with it; a texture without a view could not be loaded.        *)
FlagsInv ==
    /\ \A n \in ModelNames : Holds(models, n) /\ models[n].enable => models[n].created
    /\ \A n \in PipelineNames :
         Holds(pipelines, n) /\ pipelines[n].enable => pipelines[n].created
    /\ \A n \in ModelNames : Holds(mModelHash, n) => ~mModelHash[n].enable
    /\ \A n \in PipelineNames : Holds(mPipelineHash, n) => ~mPipelineHash[n].enable
    /\ \A t \in Textures : textures[t] = "empty" => t \in Unloadable

DrawnIsComplete ==
    \A d \in drawn :
        /\ Holds(models, d[2]) /\ models[d[2]].created
        /\ Holds(pipelines, d[3]) /\ pipelines[d[3]].created
        /\ pipelines[d[3]].textured => textures[models[d[2]].tex] = "loaded"

DrawnInv ==
    /\ main \in {"load", "init"} => drawn = {}
    /\ main = "loop" => DrawnIsComplete

(* An object, or the value of one, names pipelines the scene holds, or the *)
(* one that is added next.                                                 *)
NamesHeld(value, next) ==
    \A ph \in PhaseNames :
        value.phase[ph] # None => Holds(pipelines, value.phase[ph]) \/ value.phase[ph] \in next

ModelsLoaded ==
    \A n \in ModelNames : Holds(models, n) /\ models[n].enable =>
        models[n].tex # None /\ textures[models[n].tex] = "loaded"

PipelinesReady ==
    \A n \in PipelineNames : Holds(pipelines, n) => pipelines[n].created /\ ~pipelines[n].zpass

(* Between load and init the pipeline of the editor is still to come.      *)
LoadedInv ==
    /\ main = "init" =>
         /\ \A n \in ModelNames : Holds(models, n) => models[n].created /\ models[n].enable
         /\ \A n \in ObjectNames : Holds(objects, n) =>
              NamesHeld(objects[n], {EditorParam.pipeline.name})
    /\ main \in {"load", "init"} =>
         phases = NoRenderPhases /\ msg = NoMessage /\ mUpdateList = NoObjects
    /\ main = "load" => /\ models = NoModels /\ pipelines = NoPipelines
                        /\ objects = NoObjects
                        /\ textures = [t \in Textures |-> "absent"]

Values ==
    {msg.add_objects[i] : i \in DOMAIN msg.add_objects}
    \cup {msg.update_objects[i] : i \in DOMAIN msg.update_objects}
    \cup {mUpdateList[n] : n \in Updates}
    \cup {objects[n] : n \in {o \in ObjectNames : Holds(objects, o)}}
    \cup {mObjectHash[n] : n \in {o \in ObjectNames : Holds(mObjectHash, o)}}

InScene == main \notin {"load", "init", "join", "end"}

SceneInv ==
    ~risky =>
        /\ fault \in {None, "race"}
        /\ mPipelineHash = NoPipelines /\ mRenderPhase = NoRenderPhases
        /\ \A e \in mDeleteList : e[1] \in {"object", "model"}
        /\ ModelsLoaded
        /\ LoadedInv
        /\ PipelinesReady
        /\ InScene => /\ \A value \in Values : NamesHeld(value, {})
                      /\ \A p \in ToSet(phaseOrder) : Holds(phases, p)

PaintInv ==
    /\ FlagsInv /\ DrawnInv /\ SceneInv
    /\ ToSet(phaseOrder) \subseteq PhaseNames
    /\ main = "load" => ~risky
-----------------------------------------------------------------------------
(* What the operations on elements return. *)
LEMMA NewTypes ==
    /\ NewObject \in Object /\ NewModel \in Model
    /\ NewPipeline \in Pipeline /\ NewRenderPhase \in RenderPhase
BY DEF NewObject, NoPhases, Object, NewModel, Model, NewPipeline, Pipeline,
       NewRenderPhase, RenderPhase

LEMMA CreateObjectType ==
    ASSUME NEW o \in Object, NEW v \in ObjectValue
    PROVE  CreateObject(o, v) \in Object
BY DEF CreateObject, NewObject, NoPhases, Object, ObjectValue

LEMMA UpdateObjectType ==
    ASSUME NEW o \in Object, NEW v \in ObjectValue
    PROVE  UpdateObject(o, v) \in Object
BY DEF UpdateObject, Object, ObjectValue

LEMMA EnableType ==
    ASSUME NEW o \in Object, NEW b \in BOOLEAN
    PROVE  [o EXCEPT !.enable = b] \in Object
BY DEF Object

LEMMA CreateModelType ==
    ASSUME NEW v \in ModelValue
    PROVE  /\ CreateModel(v) \in Model
           /\ ~CreateModel(v).enable /\ ~CreateModel(v).created
           /\ CreateModel(v).impl = v.system
           /\ v.system /\ v.valid => CreateModel(v).tex = v.tex
BY DEF CreateModel, NewModel, Model, ModelValue

LEMMA CreatePipelineType ==
    ASSUME NEW v \in PipelineValue
    PROVE  /\ CreatePipeline(v) \in Pipeline
           /\ ~CreatePipeline(v).enable /\ ~CreatePipeline(v).created
           /\ CreatePipeline(v).impl = v.system
           /\ ~v.zpass => ~CreatePipeline(v).zpass
BY DEF CreatePipeline, NewPipeline, Pipeline, PipelineValue

(* The first element of a name is one of the file. *)
LEMMA FirstIn ==
    ASSUME NEW S, NEW seq \in Seq(S), NEW name, Named(seq, name) # {}
    PROVE  /\ First(seq, name) \in S /\ First(seq, name) \in ToSet(seq)
           /\ First(seq, name).name = name
<1>1. Named(seq, name) \subseteq Nat
  BY LenProperties DEF Named
<1>2. IsWellFoundedOn(OpToRel(<, Nat), Nat)
  BY NatLessThanWellFounded
<1>3. PICK i \in Named(seq, name) :
        \A j \in Named(seq, name) : ~ (<<j, i>> \in OpToRel(<, Nat))
  BY <1>1, <1>2, WFMin
<1>4. \A j \in Named(seq, name) : i <= j
  <2>1. \A j \in Named(seq, name) : ~(j < i)
    BY <1>1, <1>3 DEF OpToRel
  <2>2. QED
    BY <1>1, <2>1
<1>5. \E k \in Named(seq, name) : First(seq, name) = seq[k]
  BY <1>4 DEF First
<1>6. QED
  BY <1>5, ElementOfSeq, LenProperties DEF Named, ToSet

(* What merging and erasing return. *)
LEMMA MergeType ==
    ASSUME NEW N, NEW E, NEW hash \in Hash(N, E), NEW added \in Hash(N, E)
    PROVE  /\ Merge(hash, added) \in Hash(N, E)
           /\ \A n \in N : Merge(hash, added)[n] = IF Holds(hash, n) THEN hash[n] ELSE added[n]
           /\ \A n \in N : Holds(Merge(hash, added), n) <=> Holds(hash, n) \/ Holds(added, n)
BY DEF Merge, Hash, Holds

LEMMA EraseType ==
    ASSUME NEW N, NEW E, NEW hash \in Hash(N, E), NEW name
    PROVE  /\ Erase(hash, name) \in Hash(N, E)
           /\ \A n \in N : Erase(hash, name)[n] = IF n = name THEN None ELSE hash[n]
BY DEF Erase, Hash

LEMMA NothingHeld ==
    /\ NoObjects \in Hash(ObjectNames, Object)
    /\ NoModels \in Hash(ModelNames, Model)
    /\ NoPipelines \in Hash(PipelineNames, Pipeline)
    /\ NoRenderPhases \in Hash(PhaseNames, RenderPhase)
    /\ NoObjects \in Hash(ObjectNames, ObjectValue)
    /\ \A n \in ObjectNames : ~Holds(NoObjects, n)
    /\ \A n \in ModelNames : ~Holds(NoModels, n)
    /\ \A n \in PipelineNames : ~Holds(NoPipelines, n)
    /\ \A n \in PhaseNames : ~Holds(NoRenderPhases, n)
BY DEF NoObjects, NoModels, NoPipelines, NoRenderPhases, Hash, Holds

(* What loading and initialising a scene return. *)
LEMMA InitHashTypes ==
    ASSUME NEW os \in Seq(ObjectValue), NEW ms \in Seq(ModelValue),
           NEW ps \in Seq(PipelineValue), NEW hash \in Hash(ModelNames, Model)
    PROVE  /\ InitObject(os, hash) \in Hash(ObjectNames, Object)
           /\ InitModel(ms) \in Hash(ModelNames, Model)
           /\ InitPipeline(ps) \in Hash(PipelineNames, Pipeline)
<1>1. ASSUME NEW n \in ObjectNames
      PROVE  InitObject(os, hash)[n] \in Object \cup {None}
  <2>1. CASE Named(os, n) = {}
    BY <2>1 DEF InitObject
  <2>2. CASE Named(os, n) # {}
    <3>. DEFINE o == CreateObject(NewObject, First(os, n))
                b == o.valid /\ o.model # None /\ Holds(hash, o.model)
    <3>1. o \in Object
      BY <2>2, FirstIn, NewTypes, CreateObjectType
    <3>2. b \in BOOLEAN
      BY <3>1 DEF Object
    <3>3. InitObject(os, hash)[n] = [o EXCEPT !.enable = b]
      BY <2>2 DEF InitObject
    <3>. HIDE DEF o, b
    <3>4. QED
      BY <3>1, <3>2, <3>3, EnableType
  <2>3. QED
    BY <2>1, <2>2
<1>2. \A n \in ModelNames : InitModel(ms)[n] \in Model \cup {None}
  BY FirstIn, CreateModelType DEF InitModel
<1>3. \A n \in PipelineNames : InitPipeline(ps)[n] \in Pipeline \cup {None}
  BY FirstIn, CreatePipelineType DEF InitPipeline
<1>4. QED
  BY <1>1, <1>2, <1>3 DEF Hash, InitObject, InitModel, InitPipeline

LEMMA AddTypes ==
    ASSUME NEW os \in Hash(ObjectNames, Object), NEW ms \in Hash(ModelNames, Model),
           NEW ps \in Hash(PipelineNames, Pipeline), NEW phs \in Hash(PhaseNames, RenderPhase),
           NEW o \in ObjectValue, o.name # None, NEW m \in ModelValue, m.name # None,
           NEW p \in PipelineValue, p.name # None, NEW ph, ph.name \in PhaseNames
    PROVE  /\ AddObject(os, o, ms) \in Hash(ObjectNames, Object)
           /\ AddModel(ms, m) \in Hash(ModelNames, Model)
           /\ AddPipeline(ps, p) \in Hash(PipelineNames, Pipeline)
           /\ AddRenderPhase(phs, ph) \in Hash(PhaseNames, RenderPhase)
<1>1. AddObject(os, o, ms) \in Hash(ObjectNames, Object)
  <2>. DEFINE new == CreateObject(NewObject, o)
              b == new.model # None /\ Holds(ms, new.model)
  <2>1. new \in Object
    BY NewTypes, CreateObjectType
  <2>2. [new EXCEPT !.enable = b] \in Object
    BY <2>1, EnableType
  <2>3. AddObject(os, o, ms) =
          IF Holds(os, o.name) THEN os
          ELSE [os EXCEPT ![o.name] = [new EXCEPT !.enable = b]]
    BY DEF AddObject
  <2>. HIDE DEF new, b
  <2>4. QED
    BY <2>2, <2>3 DEF Hash
<1>2. AddModel(ms, m) \in Hash(ModelNames, Model)
  BY CreateModelType DEF AddModel, Hash
<1>3. AddPipeline(ps, p) \in Hash(PipelineNames, Pipeline)
  BY CreatePipelineType DEF AddPipeline, Hash
<1>4. AddRenderPhase(phs, ph) \in Hash(PhaseNames, RenderPhase)
  BY NewTypes DEF AddRenderPhase, Hash
<1>5. QED
  BY <1>1, <1>2, <1>3, <1>4

LEMMA CreatedTypes ==
    ASSUME NEW ms \in Hash(ModelNames, Model), NEW ps \in Hash(PipelineNames, Pipeline),
           NEW phs \in Hash(PhaseNames, RenderPhase)
    PROVE  /\ Created(ms) \in Hash(ModelNames, Model)
           /\ Created(ps) \in Hash(PipelineNames, Pipeline)
           /\ Created(phs) \in Hash(PhaseNames, RenderPhase)
<1>1. Created(ms) \in Hash(ModelNames, Model)
  BY DEF Created, Hash, Model
<1>2. Created(ps) \in Hash(PipelineNames, Pipeline)
  BY DEF Created, Hash, Pipeline
<1>3. Created(phs) \in Hash(PhaseNames, RenderPhase)
  BY DEF Created, Hash, RenderPhase
<1>4. QED
  BY <1>1, <1>2, <1>3

(* initResource leaves every model, pipeline and phase with its resources. *)
LEMMA InitResourceTypes ==
    ASSUME Types, NEW ps \in Hash(PipelineNames, Pipeline), NEW ms \in Hash(ModelNames, Model),
           NEW phs \in Hash(PhaseNames, RenderPhase), InitResource(ps, ms, phs)
    PROVE  /\ models' \in Hash(ModelNames, Model)
           /\ pipelines' \in Hash(PipelineNames, Pipeline)
           /\ phases' \in Hash(PhaseNames, RenderPhase)
           /\ textures' \in [Textures -> {"absent", "empty", "loaded"}]
<1>1. textures' \in [Textures -> {"absent", "empty", "loaded"}]
  BY DEF InitResource, LoadTextures, Types
<1>2. QED
  BY <1>1, CreatedTypes DEF InitResource
(* A message of which nothing is left. *)
LEMMA NoMessageType == NoMessage \in MessageValue
<1>1. /\ <<>> \in Seq(ObjectValue) /\ <<>> \in Seq(ObjectNames)
      /\ {} \in SUBSET {"add", "del", "update"}
  BY EmptySeq
<1>2. QED
  BY <1>1 DEF NoMessage, MessageValue
-----------------------------------------------------------------------------
(* Each step of the main thread keeps the invariant of the two threads. *)
LEMMA InitEditInv == Init => EditInv
<1>. SUFFICES ASSUME Init PROVE EditInv
  OBVIOUS
<1>1. Types
  BY NoMessageType, NothingHeld DEF Init, Types, MainSteps, ServerSteps
<1>2. LockInv /\ DeleteInv
  BY EditorInputs DEF Init, LockInv, DeleteInv
<1>3. AdditionsArrive
  BY NothingHeld DEF Init, AdditionsArrive
<1>4. QED
  BY <1>1, <1>2, <1>3 DEF EditInv

LEMMA LoadSceneEditInv ==
    ASSUME EditInv, NEW file \in SceneFiles, LoadScene(file)
    PROVE  EditInv'
<1>. USE DEF EditInv
<1>1. /\ UNCHANGED <<mObjectHash, server, lock, asked, msg, walked>>
      /\ main = "load" /\ main' = "init"
  BY DEF LoadScene, serverVars, pending
<1>2. Types'
  <2>1. CASE file.loaded
    <3>1. /\ file.objects \in Seq(ObjectValue) /\ file.models \in Seq(ModelValue)
          /\ file.pipelines \in Seq(PipelineValue) /\ file.risky \in BOOLEAN
      BY <2>1, SceneInputs
    <3>2. /\ InitModel(file.models) \in Hash(ModelNames, Model)
          /\ InitPipeline(file.pipelines) \in Hash(PipelineNames, Pipeline)
      BY <3>1, InitHashTypes, NothingHeld
    <3>3. objects' = InitObject(file.objects, InitModel(file.models)) /\ risky' = file.risky
      BY <2>1 DEF LoadScene
    <3>4. objects' \in Hash(ObjectNames, Object)
      BY <3>1, <3>2, <3>3, InitHashTypes
    <3>5. InitResource(InitPipeline(file.pipelines), InitModel(file.models), phases)
      BY <2>1 DEF LoadScene
    <3>6. /\ models' \in Hash(ModelNames, Model)
          /\ pipelines' \in Hash(PipelineNames, Pipeline)
          /\ phases' \in Hash(PhaseNames, RenderPhase)
          /\ textures' \in [Textures -> {"absent", "empty", "loaded"}]
      BY <3>2, <3>5, InitResourceTypes DEF Types
    <3>7. QED
      BY <1>1, <3>1, <3>3, <3>4, <3>6 DEF LoadScene, pending, serverVars, Types, MainSteps
  <2>2. CASE ~file.loaded
    BY <2>2 DEF LoadScene, sceneVars, pending, serverVars, Types, MainSteps
  <2>3. QED
    BY <2>1, <2>2
<1>3. LockInv' /\ DeleteInv'
  BY <1>1, EditorInputs DEF LockInv, DeleteInv
<1>4. AdditionsArrive'
  BY <1>1, NothingHeld DEF AdditionsArrive, LockInv
<1>5. QED
  BY <1>2, <1>3, <1>4

LEMMA CreateEditorEditInv ==
    ASSUME EditInv, CreateEditor
    PROVE  EditInv'
<1>. USE DEF EditInv
<1>1. /\ UNCHANGED <<mObjectHash, lock, asked, msg, walked, risky>>
      /\ UNCHANGED <<mModelHash, mPipelineHash, mRenderPhase, mDeleteList, mUpdateList>>
      /\ main = "init" /\ main' = "loop" /\ server = "off" /\ server' \in {"poll", "off"}
      /\ InitScene(EditorParam)
  BY DEF CreateEditor, pending, LockInv
<1>2. Types'
  <2>. DEFINE ms == AddModel(models, EditorParam.model)
              ps == AddPipeline(pipelines, EditorParam.pipeline)
              phs == AddRenderPhase(phases, EditorParam.phase)
  <2>1. /\ ms \in Hash(ModelNames, Model) /\ ps \in Hash(PipelineNames, Pipeline)
        /\ phs \in Hash(PhaseNames, RenderPhase)
    BY SceneInputs, AddTypes DEF Types
  <2>2. objects' = AddObject(objects, EditorParam.object, ms) /\ InitResource(ps, ms, phs)
    BY <1>1 DEF InitScene
  <2>. HIDE DEF ms, ps, phs
  <2>3. objects' \in Hash(ObjectNames, Object)
    BY <2>1, <2>2, SceneInputs, AddTypes DEF Types
  <2>4. /\ models' \in Hash(ModelNames, Model)
        /\ pipelines' \in Hash(PipelineNames, Pipeline)
        /\ phases' \in Hash(PhaseNames, RenderPhase)
        /\ textures' \in [Textures -> {"absent", "empty", "loaded"}]
    BY <2>1, <2>2, InitResourceTypes
  <2>5. QED
    BY <1>1, <2>3, <2>4 DEF Types, MainSteps, ServerSteps
<1>3. LockInv' /\ DeleteInv'
  BY <1>1, EditorInputs DEF LockInv, DeleteInv
<1>4. AdditionsArrive'
  BY <1>1, NothingHeld DEF AdditionsArrive, LockInv
<1>5. QED
  BY <1>2, <1>3, <1>4

LEMMA MergeObjectsEditInv ==
    ASSUME EditInv, MergeObjects
    PROVE  EditInv'
<1>. USE DEF EditInv
<1>1. /\ UNCHANGED <<server, asked, msg, walked, risky, models, pipelines, phases, textures>>
      /\ UNCHANGED <<mModelHash, mPipelineHash, mRenderPhase, mDeleteList, mUpdateList>>
      /\ main = "merge_objects" /\ main' = "merge_rest"
  BY DEF MergeObjects, serverVars
<1>2. CASE IsEmpty(mObjectHash)
  <2>1. UNCHANGED <<objects, mObjectHash, lock>>
    BY <1>2 DEF MergeObjects
  <2>2. Types'
    BY <1>1, <2>1 DEF Types, MainSteps
  <2>3. LockInv' /\ DeleteInv' /\ AdditionsArrive'
    BY <1>1, <2>1, EditorInputs DEF LockInv, DeleteInv, AdditionsArrive
  <2>4. QED
    BY <2>2, <2>3
<1>3. CASE ~IsEmpty(mObjectHash)
  <2>1. /\ lock \in {None, "main"} /\ lock' = "main"
        /\ objects' = Merge(objects, mObjectHash) /\ mObjectHash' = NoObjects
    BY <1>3 DEF MergeObjects, MayMerge
  <2>2. Types'
    BY <1>1, <2>1, MergeType, NothingHeld DEF Types, MainSteps
  <2>3. LockInv' /\ DeleteInv'
    BY <1>1, <2>1, EditorInputs DEF LockInv, DeleteInv
  <2>4. AdditionsArrive'
    BY <1>1, <2>1, <2>3, NothingHeld, EditorInputs DEF LockInv, AdditionsArrive
  <2>5. QED
    BY <2>2, <2>3, <2>4
<1>4. QED
  BY <1>2, <1>3

LEMMA MergeRestEditInv ==
    ASSUME EditInv, MergeRest
    PROVE  EditInv'
<1>. USE DEF EditInv
<1>1. /\ UNCHANGED <<server, asked, msg, walked, risky, objects, phases, textures>>
      /\ UNCHANGED <<mObjectHash, mDeleteList, mUpdateList>>
      /\ main = "merge_rest" /\ main' = "deletes"
      /\ models' = Merge(models, mModelHash) /\ mModelHash' = NoModels
      /\ pipelines' = Merge(pipelines, mPipelineHash) /\ mPipelineHash' = NoPipelines
      /\ mRenderPhase' = NoRenderPhases
      /\ lock' = lock \/ (lock \in {None, "main"} /\ lock' = "main")
  BY DEF MergeRest, MayMerge, serverVars
<1>2. Types'
  BY <1>1, MergeType, NothingHeld DEF Types, MainSteps
<1>3. LockInv' /\ DeleteInv' /\ AdditionsArrive'
  BY <1>1, EditorInputs DEF LockInv, DeleteInv, AdditionsArrive
<1>4. QED
  BY <1>2, <1>3

LEMMA DeleteOneEditInv ==
    ASSUME EditInv, NEW e \in Entries, DeleteOne(e)
    PROVE  EditInv'
<1>. USE DEF EditInv
<1>1. /\ UNCHANGED <<server, asked, msg, main, lock, risky, textures, mObjectHash, mModelHash,
                     mPipelineHash, mRenderPhase, mDeleteList, mUpdateList>>
      /\ main = "delete" /\ walked' = walked \cup {e}
      /\ ApplyDelete(e)
  BY DEF DeleteOne, serverVars, pending
<1>2. Types'
  BY <1>1, EraseType DEF ApplyDelete, Types
<1>3. /\ \A n \in ObjectNames : Holds(objects', n) => Holds(objects, n)
      /\ \A n \in ObjectNames : e = <<"object", n>> => ~Holds(objects', n)
  BY <1>1, EraseType DEF ApplyDelete, Types, Holds
<1>4. LockInv' /\ AdditionsArrive'
  BY <1>1, <1>3, EditorInputs DEF LockInv, AdditionsArrive
<1>5. DeleteInv'
  BY <1>1, <1>3 DEF DeleteInv
<1>6. QED
  BY <1>2, <1>4, <1>5

LEMMA UpdateOneEditInv ==
    ASSUME EditInv, NEW n \in ObjectNames, UpdateOne(n)
    PROVE  EditInv'
<1>. USE DEF EditInv
<1>1. /\ UNCHANGED <<server, asked, msg, main, lock, risky, walked, models, pipelines, phases,
                     textures, mObjectHash, mModelHash, mPipelineHash, mRenderPhase,
                     mDeleteList, mUpdateList>>
      /\ main = "update" /\ mUpdateList[n] # None
      /\ ApplyUpdate(n)
  BY DEF UpdateOne, Updates, serverVars, pending
<1>2. /\ objects' \in Hash(ObjectNames, Object)
      /\ \A o \in ObjectNames : Holds(objects', o) <=> Holds(objects, o)
  <2>1. CASE Holds(objects, n)
    <3>1. UpdateObject(objects[n], mUpdateList[n]) \in Object
      BY <1>1, <2>1, UpdateObjectType DEF Types, Hash, Holds
    <3>2. UpdateObject(objects[n], mUpdateList[n]) # None
      BY <3>1, NoneAssumption
    <3>3. objects' = [objects EXCEPT ![n] = UpdateObject(objects[n], mUpdateList[n])]
      BY <1>1, <2>1 DEF ApplyUpdate
    <3>4. QED
      BY <2>1, <3>1, <3>2, <3>3 DEF Types, Hash, Holds
  <2>2. CASE ~Holds(objects, n)
    BY <1>1, <2>2 DEF ApplyUpdate, Types
  <2>3. QED
    BY <2>1, <2>2
<1>3. Types'
  BY <1>1, <1>2 DEF Types
<1>4. LockInv' /\ DeleteInv' /\ AdditionsArrive'
  BY <1>1, <1>2 DEF LockInv, DeleteInv, AdditionsArrive
<1>5. QED
  BY <1>3, <1>4

LEMMA CheckDataEditInv ==
    ASSUME EditInv, CheckData
    PROVE  EditInv'
<1>. USE DEF EditInv
<1>1. /\ UNCHANGED <<sceneVars, pending, lock, server, asked, msg, risky>>
      /\ main = "loop" /\ main' \in {"merge_objects", "paint"} /\ walked' = {}
  BY DEF CheckData, serverVars
<1>2. Types'
  BY <1>1 DEF Types, MainSteps, sceneVars, pending
<1>3. LockInv' /\ AdditionsArrive' /\ DeleteInv'
  BY <1>1, EditorInputs DEF LockInv, AdditionsArrive, DeleteInv, sceneVars, pending
<1>4. QED
  BY <1>2, <1>3

LEMMA LookAtDeletesEditInv ==
    ASSUME EditInv, LookAtDeletes
    PROVE  EditInv'
<1>. USE DEF EditInv
<1>1. /\ UNCHANGED <<sceneVars, pending, lock, server, asked, msg, risky, walked>>
      /\ main = "deletes" /\ main' \in {"updates", "delete"}
  BY DEF LookAtDeletes, serverVars
<1>2. Types'
  BY <1>1 DEF Types, MainSteps, sceneVars, pending
<1>3. LockInv' /\ AdditionsArrive' /\ DeleteInv'
  BY <1>1, EditorInputs DEF LockInv, AdditionsArrive, DeleteInv, sceneVars, pending
<1>4. QED
  BY <1>2, <1>3

LEMMA ClearDeletesEditInv ==
    ASSUME EditInv, ClearDeletes
    PROVE  EditInv'
<1>. USE DEF EditInv
<1>1. /\ UNCHANGED <<sceneVars, mObjectHash, mModelHash, mPipelineHash, mRenderPhase,
                     mUpdateList, lock, server, asked, msg, risky, walked>>
      /\ main = "delete" /\ main' = "updates" /\ mDeleteList' = {}
  BY DEF ClearDeletes, serverVars
<1>2. Types'
  BY <1>1 DEF Types, MainSteps, sceneVars
<1>3. LockInv' /\ AdditionsArrive' /\ DeleteInv'
  BY <1>1, EditorInputs DEF LockInv, AdditionsArrive, DeleteInv, sceneVars
<1>4. QED
  BY <1>2, <1>3

LEMMA LookAtUpdatesEditInv ==
    ASSUME EditInv, LookAtUpdates
    PROVE  EditInv'
<1>. USE DEF EditInv
<1>1. /\ UNCHANGED <<sceneVars, pending, lock, server, asked, msg, risky, walked>>
      /\ main = "updates" /\ main' \in {"unlock", "update"}
  BY DEF LookAtUpdates, serverVars
<1>2. Types'
  BY <1>1 DEF Types, MainSteps, sceneVars, pending
<1>3. LockInv' /\ AdditionsArrive' /\ DeleteInv'
  BY <1>1, EditorInputs DEF LockInv, AdditionsArrive, DeleteInv, sceneVars, pending
<1>4. QED
  BY <1>2, <1>3

LEMMA ClearUpdatesEditInv ==
    ASSUME EditInv, ClearUpdates
    PROVE  EditInv'
<1>. USE DEF EditInv
<1>1. /\ UNCHANGED <<sceneVars, mObjectHash, mModelHash, mPipelineHash, mRenderPhase,
                     mDeleteList, lock, server, asked, msg, risky, walked>>
      /\ main = "update" /\ main' = "unlock" /\ mUpdateList' = NoObjects
  BY DEF ClearUpdates, serverVars
<1>2. Types'
  BY <1>1, NothingHeld DEF Types, MainSteps, sceneVars
<1>3. LockInv' /\ AdditionsArrive' /\ DeleteInv'
  BY <1>1, EditorInputs DEF LockInv, AdditionsArrive, DeleteInv, sceneVars
<1>4. QED
  BY <1>2, <1>3

LEMMA LeaveDeliverEditInv ==
    ASSUME EditInv, LeaveDeliver
    PROVE  EditInv'
<1>. USE DEF EditInv
<1>1. /\ UNCHANGED <<sceneVars, pending, server, asked, msg, risky, walked>>
      /\ main = "unlock" /\ main' = "paint"
      /\ lock' = IF lock = "main" THEN None ELSE lock
  BY DEF LeaveDeliver, serverVars
<1>2. Types'
  BY <1>1 DEF Types, MainSteps, sceneVars, pending
<1>3. LockInv' /\ AdditionsArrive' /\ DeleteInv'
  BY <1>1, EditorInputs DEF LockInv, AdditionsArrive, DeleteInv, sceneVars, pending
<1>4. QED
  BY <1>2, <1>3

LEMMA PaintSceneEditInv ==
    ASSUME EditInv, PaintScene
    PROVE  EditInv'
<1>. USE DEF EditInv
<1>1. /\ UNCHANGED <<objects, pipelines, textures, phases, phaseOrder>>
      /\ UNCHANGED <<pending, lock, server, asked, msg, risky, walked>>
      /\ main = "paint" /\ main' = "loop"
      /\ Paint
  BY DEF PaintScene, Paint, serverVars
<1>2. models' \in Hash(ModelNames, Model)
  <2>1. \A n \in ModelNames : ModelOrNew(n) \in Model
    BY NewTypes DEF ModelOrNew, Types, Hash, Holds
  <2>2. QED
    BY <1>1, <2>1 DEF Paint, Types, Hash
<1>3. Types'
  BY <1>1, <1>2 DEF Types, MainSteps, pending
<1>4. LockInv' /\ AdditionsArrive' /\ DeleteInv'
  BY <1>1, EditorInputs DEF LockInv, AdditionsArrive, DeleteInv, pending
<1>5. QED
  BY <1>3, <1>4

LEMMA LocalEditEditInv ==
    ASSUME EditInv, NEW e \in LocalEdits, LocalEdit(e)
    PROVE  EditInv'
<1>. USE DEF EditInv
<1>1. /\ UNCHANGED <<objects, models, pipelines, textures, phases, mObjectHash, mUpdateList>>
      /\ UNCHANGED <<lock, main, server, asked, msg, walked>>
      /\ risky' = (risky \/ e.type \in {"pipeline", "phase"})
  BY DEF LocalEdit, serverVars
<1>2. /\ mModelHash' \in Hash(ModelNames, Model)
      /\ mPipelineHash' \in Hash(PipelineNames, Pipeline)
      /\ mRenderPhase' \in Hash(PhaseNames, RenderPhase)
      /\ mDeleteList' \subseteq Entries
  <2>1. CASE e.op = "add" /\ e.type = "model" /\ AddPendingModel(e.param)
             /\ UNCHANGED <<mPipelineHash, mRenderPhase, mDeleteList, fault>>
    <3>1. e.param \in ModelValue /\ e.param.name # None
      BY <2>1, EditorInputs
    <3>2. QED
      BY <2>1, <3>1, CreateModelType DEF AddPendingModel, Types, Hash
  <2>2. CASE e.op = "add" /\ e.type = "pipeline" /\ AddPendingPipeline(e.param)
             /\ UNCHANGED <<mModelHash, mRenderPhase, mDeleteList, fault>>
    <3>1. e.param \in PipelineValue /\ e.param.name # None
      BY <2>2, EditorInputs
    <3>2. QED
      BY <2>2, <3>1, CreatePipelineType DEF AddPendingPipeline, Types, Hash
  <2>3. CASE e.op = "add" /\ e.type = "phase" /\ AddPendingPhase(e.param)
             /\ UNCHANGED <<mModelHash, mPipelineHash, mDeleteList>>
    <3>1. e.param.name \in PhaseNames
      BY <2>3, EditorInputs
    <3>2. QED
      BY <2>3, <3>1, NewTypes DEF AddPendingPhase, Types, Hash
  <2>4. CASE e.op = "delete" /\ lock = None /\ AddDeleteElement(e.type, e.name)
             /\ UNCHANGED <<mModelHash, mPipelineHash, mRenderPhase, fault>>
    <3>1. <<e.type, e.name>> \in Entries
      BY <2>4, EditorInputs
    <3>2. QED
      BY <2>4, <3>1 DEF AddDeleteElement, Types
  <2>5. QED
    BY <2>1, <2>2, <2>3, <2>4 DEF LocalEdit
<1>3. Types'
  BY <1>1, <1>2 DEF Types
<1>4. LockInv' /\ AdditionsArrive' /\ DeleteInv'
  BY <1>1 DEF LockInv, AdditionsArrive, DeleteInv
<1>5. QED
  BY <1>3, <1>4

LEMMA EscapeEditInv ==
    ASSUME EditInv, Escape
    PROVE  EditInv'
<1>. USE DEF EditInv
<1>1. /\ UNCHANGED <<sceneVars, pending, lock, server, asked, msg, risky, walked>>
      /\ main = "loop" /\ main' = "clear"
  BY DEF Escape, serverVars
<1>2. Types'
  BY <1>1 DEF Types, MainSteps, sceneVars, pending
<1>3. LockInv' /\ AdditionsArrive' /\ DeleteInv'
  BY <1>1, EditorInputs DEF LockInv, AdditionsArrive, DeleteInv, sceneVars, pending
<1>4. QED
  BY <1>2, <1>3

LEMMA ClearEditInv ==
    ASSUME EditInv, Clear
    PROVE  EditInv'
<1>. USE DEF EditInv
<1>1. /\ UNCHANGED <<objects, pending, lock, server, asked, msg, risky, walked>>
      /\ main = "clear" /\ main' = "join" /\ ClearScene
  BY DEF Clear, ClearScene, serverVars
<1>2. Types'
  BY <1>1, NothingHeld DEF ClearScene, Types, MainSteps, pending
<1>3. LockInv' /\ AdditionsArrive' /\ DeleteInv'
  BY <1>1, EditorInputs DEF LockInv, AdditionsArrive, DeleteInv, pending
<1>4. QED
  BY <1>2, <1>3

LEMMA JoinEditInv ==
    ASSUME EditInv, Join
    PROVE  EditInv'
<1>. USE DEF EditInv
<1>1. /\ UNCHANGED <<sceneVars, pending, lock, server, asked, msg, risky, walked>>
      /\ main = "join" /\ main' = "end"
  BY DEF Join, serverVars
<1>2. Types'
  BY <1>1 DEF Types, MainSteps, sceneVars, pending
<1>3. LockInv' /\ AdditionsArrive' /\ DeleteInv'
  BY <1>1, EditorInputs DEF LockInv, AdditionsArrive, DeleteInv, sceneVars, pending
<1>4. QED
  BY <1>2, <1>3
-----------------------------------------------------------------------------
(* Each step of the thread of the server keeps it. *)
LEMMA OpenEditInv ==
    ASSUME EditInv, Open \/ SendObjects \/ StopServer
    PROVE  EditInv'
<1>. USE DEF EditInv
<1>1. /\ UNCHANGED <<sceneVars, pending, lock, main, walked, msg, asked, risky>>
      /\ server \in {"poll", "open"} /\ server' \in {"poll", "open", "off"}
  BY DEF Open, SendObjects, StopServer
<1>2. Types'
  BY <1>1 DEF Types, ServerSteps, sceneVars, pending
<1>3. LockInv' /\ AdditionsArrive' /\ DeleteInv'
  BY <1>1 DEF LockInv, AdditionsArrive, DeleteInv, sceneVars, pending
<1>4. QED
  BY <1>2, <1>3

LEMMA ReceiveEditInv ==
    ASSUME EditInv, NEW m \in Messages, Receive(m)
    PROVE  EditInv'
<1>. USE DEF EditInv
<1>1. /\ UNCHANGED <<sceneVars, pending, lock, main, walked>>
      /\ server = "poll" /\ server' \in {"poll", "reply", "lock"} /\ asked' = {}
      /\ msg' \in {m, msg} /\ risky' \in BOOLEAN
  BY DEF Receive, Types
<1>2. Types'
  BY <1>1, EditorInputs DEF Types, ServerSteps, sceneVars, pending
<1>3. LockInv' /\ AdditionsArrive' /\ DeleteInv'
  BY <1>1 DEF LockInv, AdditionsArrive, DeleteInv, sceneVars, pending
<1>4. QED
  BY <1>2, <1>3

LEMMA LockMessageEditInv ==
    ASSUME EditInv, LockMessage
    PROVE  EditInv'
<1>. USE DEF EditInv
<1>1. /\ UNCHANGED <<sceneVars, pending, main, walked, msg, asked, risky>>
      /\ server = "lock" /\ server' = "add" /\ lock = None /\ lock' = "server"
  BY DEF LockMessage
<1>2. Types'
  BY <1>1 DEF Types, ServerSteps, sceneVars, pending
<1>3. LockInv' /\ AdditionsArrive' /\ DeleteInv'
  BY <1>1, EditorInputs DEF LockInv, AdditionsArrive, DeleteInv, sceneVars, pending
<1>4. QED
  BY <1>2, <1>3

(* What an addition leaves waiting: the object it names, unless the name is *)
(* missing or held by the scene.                                            *)
LEMMA AddObjectOfLeaves ==
    ASSUME Types, NEW v \in ObjectValue, AddObjectOf(v)
    PROVE  /\ mObjectHash' \in Hash(ObjectNames, Object)
           /\ \A n \in ObjectNames :
                Holds(mObjectHash', n) <=> Holds(mObjectHash, n)
                                           \/ (n = v.name /\ ~Holds(objects, n))
           /\ asked' \subseteq asked \cup {n \in ObjectNames : n = v.name /\ ~Holds(objects, n)}
           /\ asked' \subseteq ObjectNames
           /\ \A n \in ObjectNames : mObjectHash'[n] = mObjectHash[n] \/
                (n = v.name /\ \E o \in Object : \E b \in BOOLEAN :
                   mObjectHash'[n] = [CreateObject(o, v) EXCEPT !.enable = b])
<1>1. CASE v.name = None \/ Holds(objects, v.name)
  <2>1. UNCHANGED <<mObjectHash, asked>>
    BY <1>1 DEF AddObjectOf
  <2>2. \A n \in ObjectNames : ~(n = v.name /\ ~Holds(objects, n))
    BY <1>1, SceneNames
  <2>3. mObjectHash' = mObjectHash /\ asked' = asked
    BY <2>1
  <2>4. mObjectHash \in Hash(ObjectNames, Object) /\ asked \subseteq ObjectNames
    BY DEF Types
  <2>5. \A n \in ObjectNames :
          Holds(mObjectHash', n) <=> Holds(mObjectHash, n) \/ (n = v.name /\ ~Holds(objects, n))
    BY <2>2, <2>3 DEF Holds
  <2>6. QED
    BY <2>3, <2>4, <2>5
<1>2. CASE ~(v.name = None \/ Holds(objects, v.name))
  <2>. DEFINE old == mObjectHash[v.name]
              first == IF old = None THEN NewObject ELSE old
              new == CreateObject(first, v)
              last == IF v.valid THEN [new EXCEPT !.enable = TRUE] ELSE new
  <2>1. v.name \in ObjectNames
    BY <1>2 DEF ObjectValue
  <2>2. first \in Object
    BY <2>1, NewTypes DEF Types, Hash
  <2>3. new \in Object
    BY <2>2, CreateObjectType
  <2>4. /\ last \in Object
        /\ \E b \in BOOLEAN : last = [new EXCEPT !.enable = b]
    <3>. HIDE DEF new
    <3>1. new = [new EXCEPT !.enable = new.enable] /\ new.enable \in BOOLEAN
      BY <2>3 DEF Object
    <3>2. last \in Object
      BY <2>3, EnableType
    <3>3. last = [new EXCEPT !.enable = TRUE] \/ last = [new EXCEPT !.enable = new.enable]
      BY <3>1
    <3>4. QED
      BY <3>1, <3>2, <3>3
  <2>5. /\ mObjectHash' = [mObjectHash EXCEPT ![v.name] = last]
        /\ asked' = asked \cup {v.name}
    BY <1>2 DEF AddObjectOf
  <2>6. \E o \in Object : \E b \in BOOLEAN : last = [CreateObject(o, v) EXCEPT !.enable = b]
    BY <2>2, <2>4
  <2>7. last # None
    BY <2>4, NoneAssumption
  <2>. HIDE DEF old, first, new, last
  <2>8. mObjectHash \in [ObjectNames -> Object \cup {None}] /\ asked \subseteq ObjectNames
    BY DEF Types, Hash
  <2>9. /\ mObjectHash'[v.name] = last
        /\ \A n \in ObjectNames : n # v.name => mObjectHash'[n] = mObjectHash[n]
        /\ mObjectHash' \in Hash(ObjectNames, Object)
    BY <2>1, <2>4, <2>5, <2>8 DEF Hash
  <2>10. \A n \in ObjectNames :
           Holds(mObjectHash', n) <=> Holds(mObjectHash, n) \/ (n = v.name /\ ~Holds(objects, n))
    BY <1>2, <2>7, <2>9 DEF Holds
  <2>11. /\ asked' \subseteq asked \cup {n \in ObjectNames : n = v.name /\ ~Holds(objects, n)}
         /\ asked' \subseteq ObjectNames
    BY <1>2, <2>1, <2>5, <2>8
  <2>12. \A n \in ObjectNames : mObjectHash'[n] = mObjectHash[n] \/
           (n = v.name /\ \E o \in Object : \E b \in BOOLEAN :
              mObjectHash'[n] = [CreateObject(o, v) EXCEPT !.enable = b])
    BY <2>6, <2>9
  <2>13. QED
    BY <2>9, <2>10, <2>11, <2>12
<1>3. QED
  BY <1>1, <1>2

LEMMA AddOneEditInv ==
    ASSUME EditInv, AddOne
    PROVE  EditInv'
<1>. USE DEF EditInv
<1>1. /\ UNCHANGED <<sceneVars, mModelHash, mPipelineHash, mRenderPhase, mDeleteList,
                     mUpdateList, lock, main, walked, risky>>
      /\ server = "add" /\ server' \in {"add", "del"}
  BY DEF AddOne
<1>2. CASE msg.add_objects = <<>>
  <2>1. UNCHANGED <<mObjectHash, asked, msg>>
    BY <1>2 DEF AddOne
  <2>2. Types'
    BY <1>1, <2>1 DEF Types, ServerSteps, sceneVars
  <2>3. LockInv' /\ AdditionsArrive' /\ DeleteInv'
    BY <1>1, <2>1 DEF LockInv, AdditionsArrive, DeleteInv, sceneVars
  <2>4. QED
    BY <2>2, <2>3
<1>3. CASE msg.add_objects # <<>>
  <2>1. /\ AddObjectOf(Head(msg.add_objects))
        /\ msg' = [msg EXCEPT !.add_objects = Tail(@)]
    BY <1>3 DEF AddOne
  <2>2. msg.add_objects \in Seq(ObjectValue)
    BY DEF Types, MessageValue
  <2>3. /\ Head(msg.add_objects) \in ObjectValue
        /\ Tail(msg.add_objects) \in Seq(ObjectValue)
    BY <1>3, <2>2, HeadTailProperties
  <2>4. msg' \in MessageValue
    BY <2>1, <2>3 DEF Types, MessageValue
  <2>5. Types'
    BY <1>1, <2>1, <2>3, <2>4, AddObjectOfLeaves DEF Types, ServerSteps, sceneVars
  <2>. DEFINE v == Head(msg.add_objects)
  <2>6. /\ \A n \in ObjectNames :
             Holds(mObjectHash', n) <=> Holds(mObjectHash, n) \/ (n = v.name /\ ~Holds(objects, n))
        /\ asked' \subseteq asked \cup {n \in ObjectNames : n = v.name /\ ~Holds(objects, n)}
    BY <2>1, <2>3, AddObjectOfLeaves
  <2>. HIDE DEF v
  <2>7. AdditionsArrive'
    BY <1>1, <2>6 DEF AdditionsArrive, Types, sceneVars
  <2>8. LockInv' /\ DeleteInv'
    BY <1>1 DEF LockInv, DeleteInv, sceneVars
  <2>9. QED
    BY <2>5, <2>7, <2>8
<1>4. QED
  BY <1>2, <1>3

LEMMA DeleteNextEditInv ==
    ASSUME EditInv, DeleteNext
    PROVE  EditInv'
<1>. USE DEF EditInv
<1>1. /\ UNCHANGED <<sceneVars, mObjectHash, mModelHash, mPipelineHash, mRenderPhase,
                     mUpdateList, lock, main, walked, asked, risky>>
      /\ server = "del" /\ server' \in {"del", "upd"}
  BY DEF DeleteNext
<1>2. msg' \in MessageValue /\ mDeleteList' \subseteq Entries
  <2>1. CASE msg.del_objects = <<>>
    BY <2>1 DEF DeleteNext, Types
  <2>2. CASE msg.del_objects # <<>>
    <3>1. msg.del_objects \in Seq(ObjectNames)
      BY DEF Types, MessageValue
    <3>2. /\ Head(msg.del_objects) \in ObjectNames
          /\ Tail(msg.del_objects) \in Seq(ObjectNames)
      BY <2>2, <3>1, HeadTailProperties
    <3>3. /\ mDeleteList' = mDeleteList \cup {<<"object", Head(msg.del_objects)>>}
          /\ msg' = [msg EXCEPT !.del_objects = Tail(@)]
      BY <2>2 DEF DeleteNext, AddDeleteElement
    <3>4. msg' \in MessageValue
      BY <3>2, <3>3 DEF Types, MessageValue
    <3>5. QED
      BY <3>2, <3>3, <3>4 DEF Types, Entries
  <2>3. QED
    BY <2>1, <2>2
<1>3. Types'
  BY <1>1, <1>2 DEF Types, ServerSteps, sceneVars
<1>4. LockInv' /\ AdditionsArrive' /\ DeleteInv'
  BY <1>1 DEF LockInv, AdditionsArrive, DeleteInv, sceneVars
<1>5. QED
  BY <1>3, <1>4

LEMMA UpdateNextEditInv ==
    ASSUME EditInv, UpdateNext
    PROVE  EditInv'
<1>. USE DEF EditInv
<1>1. /\ UNCHANGED <<sceneVars, mObjectHash, mModelHash, mPipelineHash, mRenderPhase,
                     mDeleteList, lock, main, walked, asked, risky>>
      /\ server = "upd" /\ server' \in {"upd", "unlock"}
  BY DEF UpdateNext
<1>2. msg' \in MessageValue /\ mUpdateList' \in Hash(ObjectNames, ObjectValue)
  <2>1. CASE msg.update_objects = <<>>
    BY <2>1 DEF UpdateNext, Types
  <2>2. CASE msg.update_objects # <<>>
    <3>1. msg.update_objects \in Seq(ObjectValue)
      BY DEF Types, MessageValue
    <3>2. /\ Head(msg.update_objects) \in ObjectValue
          /\ Tail(msg.update_objects) \in Seq(ObjectValue)
      BY <2>2, <3>1, HeadTailProperties
    <3>3. /\ AddUpdateElement(Head(msg.update_objects))
          /\ msg' = [msg EXCEPT !.update_objects = Tail(@)]
      BY <2>2 DEF UpdateNext
    <3>4. msg' \in MessageValue
      BY <3>2, <3>3 DEF Types, MessageValue
    <3>5. mUpdateList' \in Hash(ObjectNames, ObjectValue)
      BY <3>2, <3>3 DEF AddUpdateElement, Types, Hash
    <3>6. QED
      BY <3>4, <3>5
  <2>3. QED
    BY <2>1, <2>2
<1>3. Types'
  BY <1>1, <1>2 DEF Types, ServerSteps, sceneVars
<1>4. LockInv' /\ AdditionsArrive' /\ DeleteInv'
  BY <1>1 DEF LockInv, AdditionsArrive, DeleteInv, sceneVars
<1>5. QED
  BY <1>3, <1>4

LEMMA UnlockMessageEditInv ==
    ASSUME EditInv, UnlockMessage
    PROVE  EditInv'
<1>. USE DEF EditInv
<1>1. /\ UNCHANGED <<sceneVars, pending, main, walked, msg, asked, risky>>
      /\ server = "unlock" /\ server' = "reply" /\ lock' = None
  BY DEF UnlockMessage
<1>2. Types'
  BY <1>1 DEF Types, ServerSteps, sceneVars, pending
<1>3. LockInv' /\ AdditionsArrive' /\ DeleteInv'
  BY <1>1, EditorInputs DEF LockInv, AdditionsArrive, DeleteInv, sceneVars, pending
<1>4. QED
  BY <1>2, <1>3

LEMMA ReplyEditInv ==
    ASSUME EditInv, Reply
    PROVE  EditInv'
<1>. USE DEF EditInv
<1>1. /\ UNCHANGED <<sceneVars, pending, lock, main, walked, risky>>
      /\ server = "reply" /\ server' = "poll" /\ msg' = NoMessage /\ asked' = {}
  BY DEF Reply
<1>2. Types'
  BY <1>1, NoMessageType DEF Types, ServerSteps, sceneVars, pending
<1>3. LockInv' /\ AdditionsArrive' /\ DeleteInv'
  BY <1>1 DEF LockInv, AdditionsArrive, DeleteInv, sceneVars, pending
<1>4. QED
  BY <1>2, <1>3

LEMMA NextEditInv == EditInv /\ [Next]_vars => EditInv'
<1>. SUFFICES ASSUME EditInv, [Next]_vars PROVE EditInv'
  OBVIOUS
<1>1. CASE UNCHANGED vars
  BY <1>1 DEF EditInv, Types, LockInv, AdditionsArrive, DeleteInv, vars, sceneVars,
              pending, serverVars
<1>2. CASE Race
  BY <1>2 DEF Race, EditInv, Types, LockInv, AdditionsArrive, DeleteInv, pending, serverVars
<1>3. CASE MainStep
  BY <1>3, LoadSceneEditInv, CreateEditorEditInv, CheckDataEditInv, MergeObjectsEditInv,
     MergeRestEditInv, LookAtDeletesEditInv, DeleteOneEditInv, ClearDeletesEditInv,
     LookAtUpdatesEditInv, UpdateOneEditInv, ClearUpdatesEditInv, LeaveDeliverEditInv,
     PaintSceneEditInv, ClearEditInv, JoinEditInv DEF MainStep
<1>4. CASE ServerStep
  BY <1>4, OpenEditInv, LockMessageEditInv, AddOneEditInv, DeleteNextEditInv,
     UpdateNextEditInv, UnlockMessageEditInv, ReplyEditInv DEF ServerStep
<1>5. QED
  BY <1>1, <1>2, <1>3, <1>4, OpenEditInv, ReceiveEditInv, LocalEditEditInv, EscapeEditInv
     DEF Next

(***************************************************************************)
(* The invariant of the two threads holds of every behaviour.              *)
(***************************************************************************)
THEOREM EditorInvariant == Spec => []EditInv
<1>1. Init => EditInv
  BY InitEditInv
<1>2. EditInv /\ [Next]_vars => EditInv'
  BY NextEditInv
<1>3. QED
  BY <1>1, <1>2, PTL DEF Spec

(***************************************************************************)
(* All that a message has added waits as long as its handler has the lock, *)
(* and only under names the scene does not hold, so that deliver takes     *)
(* whole messages and drops nothing of them.                               *)
(***************************************************************************)
THEOREM AdditionsAreDelivered == Spec => []AdditionsArrive
<1>1. EditInv => AdditionsArrive
  BY DEF EditInv
<1>2. QED
  BY <1>1, EditorInvariant, PTL

(***************************************************************************)
(* A deletion that deliver has applied is not undone before the next one.  *)
(***************************************************************************)
THEOREM DeletionsHold == Spec => []DeletedStayDeleted
<1>1. EditInv => DeletedStayDeleted
  BY DEF EditInv, DeleteInv, DeletedStayDeleted
<1>2. QED
  BY <1>1, EditorInvariant, PTL

(***************************************************************************)
(* A deliver that has the mutex drops no request: while it walks a list,   *)
(* nothing comes into it that was not there when the walk began.           *)
(***************************************************************************)
WalkInv ==
    lock = "main" =>
        /\ main = "delete" => mDeleteList \subseteq due
        /\ main = "update" => Updates \subseteq due

LEMMA NextWalkInv == EditInv /\ WalkInv /\ [Next]_vars => WalkInv'
<1>. SUFFICES ASSUME EditInv, WalkInv, [Next]_vars
              PROVE  WalkInv'
  OBVIOUS
<1>. USE DEF WalkInv, Updates
<1>0. LockInv /\ None # "main"
  BY EditorInputs DEF EditInv
<1>1. CASE MainStep
  <2>1. ASSUME NEW file \in SceneFiles, LoadScene(file) PROVE WalkInv'
    BY <2>1 DEF LoadScene
  <2>2. CASE CreateEditor
    BY <2>2 DEF CreateEditor
  <2>3. CASE CheckData \/ MergeObjects \/ MergeRest
    BY <2>3 DEF CheckData, MergeObjects, MergeRest
  <2>4. CASE LookAtDeletes
    BY <2>4 DEF LookAtDeletes, pending
  <2>5. ASSUME NEW e \in Entries, DeleteOne(e) PROVE WalkInv'
    BY <2>5 DEF DeleteOne, pending
  <2>6. CASE ClearDeletes \/ ClearUpdates \/ LeaveDeliver \/ PaintScene \/ Clear \/ Join
    BY <2>6 DEF ClearDeletes, ClearUpdates, LeaveDeliver, PaintScene, Clear, Join
  <2>7. CASE LookAtUpdates
    BY <2>7 DEF LookAtUpdates, pending
  <2>8. ASSUME NEW n \in ObjectNames, UpdateOne(n) PROVE WalkInv'
    BY <2>8 DEF UpdateOne, pending
  <2>9. QED
    BY <1>1, <2>1, <2>2, <2>3, <2>4, <2>5, <2>6, <2>7, <2>8 DEF MainStep
<1>2. CASE ServerStep
  BY <1>0, <1>2 DEF ServerStep, LockInv, SendObjects, LockMessage, AddOne, DeleteNext,
     UpdateNext, UnlockMessage, Reply, StopServer, pending
<1>3. CASE Open \/ Escape \/ Race
  BY <1>3 DEF Open, Escape, Race, pending
<1>4. ASSUME NEW m \in Messages, Receive(m) PROVE WalkInv'
  BY <1>4 DEF Receive, pending
<1>5. ASSUME NEW e \in LocalEdits, LocalEdit(e) PROVE WalkInv'
  BY <1>5 DEF LocalEdit
<1>6. CASE UNCHANGED vars
  BY <1>6 DEF vars, pending
<1>7. QED
  BY <1>1, <1>2, <1>3, <1>4, <1>5, <1>6 DEF Next

THEOREM NoRequestIsDropped == Spec => OnlyLateRequestsAreDropped
<1>1. Init => WalkInv
  BY EditorInputs DEF Init, WalkInv
<1>2. EditInv /\ WalkInv /\ [Next]_vars => [DropsOnlyLate]_vars
  <2>. SUFFICES ASSUME EditInv, WalkInv, Next
                PROVE  DropsOnlyLate \/ UNCHANGED vars
    OBVIOUS
  <2>1. CASE ClearDeletes
    BY <2>1 DEF ClearDeletes, WalkInv, DropsOnlyLate, Updates
  <2>2. CASE ClearUpdates
    BY <2>2 DEF ClearUpdates, WalkInv, DropsOnlyLate, Updates
  <2>3. CASE mDeleteList \subseteq mDeleteList' /\ UNCHANGED mUpdateList
    BY <2>3 DEF DropsOnlyLate, Updates
  <2>4. CASE UpdateNext
    <3>1. mUpdateList \in Hash(ObjectNames, ObjectValue) /\ UNCHANGED mDeleteList
      BY <2>4 DEF UpdateNext, EditInv, Types
    <3>2. \A n \in Updates : mUpdateList'[n] = mUpdateList[n]
      BY <2>4, <3>1 DEF UpdateNext, AddUpdateElement, Updates, Hash
    <3>3. QED
      BY <3>1, <3>2 DEF DropsOnlyLate
  <2>5. CASE DeleteNext \/ \E e \in LocalEdits : LocalEdit(e)
    BY <2>3, <2>5 DEF DeleteNext, LocalEdit, AddDeleteElement
  <2>6. CASE MainStep /\ ~ClearDeletes /\ ~ClearUpdates
    BY <2>3, <2>6 DEF MainStep, LoadScene, CreateEditor, CheckData, MergeObjects,
       MergeRest, LookAtDeletes, DeleteOne, LookAtUpdates, UpdateOne, LeaveDeliver,
       PaintScene, Clear, Join, pending
  <2>7. CASE ServerStep /\ ~UpdateNext /\ ~DeleteNext
    BY <2>3, <2>7 DEF ServerStep, SendObjects, LockMessage, AddOne, UnlockMessage, Reply,
       StopServer, pending
  <2>8. CASE Open \/ Escape \/ Race \/ \E m \in Messages : Receive(m)
    BY <2>3, <2>8 DEF Open, Escape, Race, Receive, pending
  <2>9. QED
    BY <2>1, <2>2, <2>4, <2>5, <2>6, <2>7, <2>8 DEF Next
<1>3. QED
  BY <1>1, <1>2, NextWalkInv, EditorInvariant, PTL DEF Spec, OnlyLateRequestsAreDropped
-----------------------------------------------------------------------------
(* What is made of the elements of a file: models and pipelines without    *)
(* resources, and objects that name what the file names.                   *)
LEMMA InitHashHolds ==
    ASSUME NEW os \in Seq(ObjectValue), NEW ms \in Seq(ModelValue),
           NEW ps \in Seq(PipelineValue), NEW hash \in Hash(ModelNames, Model)
    PROVE  /\ \A n \in ModelNames : Holds(InitModel(ms), n) =>
                \E v \in ToSet(ms) : v \in ModelValue /\ InitModel(ms)[n] = CreateModel(v)
           /\ \A n \in PipelineNames : Holds(InitPipeline(ps), n) =>
                \E v \in ToSet(ps) : v \in PipelineValue /\ InitPipeline(ps)[n] = CreatePipeline(v)
           /\ \A v \in ToSet(ps) : v.name \in PipelineNames => Holds(InitPipeline(ps), v.name)
           /\ \A n \in ObjectNames : Holds(InitObject(os, hash), n) =>
                \E v \in ToSet(os) : \A ph \in PhaseNames :
                  InitObject(os, hash)[n].phase[ph] \in {None, v.phase[ph]}
<1>1. \A n \in ModelNames : Holds(InitModel(ms), n) =>
        \E v \in ToSet(ms) : v \in ModelValue /\ InitModel(ms)[n] = CreateModel(v)
  BY FirstIn DEF InitModel, Holds
<1>2. \A n \in PipelineNames : Holds(InitPipeline(ps), n) =>
        \E v \in ToSet(ps) : v \in PipelineValue /\ InitPipeline(ps)[n] = CreatePipeline(v)
  BY FirstIn DEF InitPipeline, Holds
<1>3. ASSUME NEW v \in ToSet(ps), v.name \in PipelineNames
      PROVE  Holds(InitPipeline(ps), v.name)
  <2>1. Named(ps, v.name) # {}
    BY <1>3 DEF Named, ToSet
  <2>2. First(ps, v.name) \in PipelineValue
    BY <2>1, FirstIn
  <2>3. CreatePipeline(First(ps, v.name)) \in Pipeline
    BY <2>2, CreatePipelineType
  <2>4. QED
    BY <1>3, <2>1, <2>3, NoneAssumption DEF InitPipeline, Holds
<1>4. ASSUME NEW n \in ObjectNames, Holds(InitObject(os, hash), n)
      PROVE  \E v \in ToSet(os) : \A ph \in PhaseNames :
               InitObject(os, hash)[n].phase[ph] \in {None, v.phase[ph]}
  <2>1. Named(os, n) # {}
    BY <1>4 DEF InitObject, Holds
  <2>2. First(os, n) \in ObjectValue /\ First(os, n) \in ToSet(os)
    BY <2>1, FirstIn
  <2>3. CreateObject(NewObject, First(os, n)) \in Object
    BY <2>2, NewTypes, CreateObjectType
  <2>4. InitObject(os, hash)[n].phase = CreateObject(NewObject, First(os, n)).phase
    BY <2>1, <2>3 DEF InitObject, Object
  <2>5. \A ph \in PhaseNames :
          CreateObject(NewObject, First(os, n)).phase[ph] \in {None, First(os, n).phase[ph]}
    BY <2>2 DEF CreateObject, NewObject, NoPhases
  <2>6. QED
    BY <2>2, <2>4, <2>5
<1>5. QED
  BY <1>1, <1>2, <1>3, <1>4

(* What initResource returns: everything has its resources and is enabled, *)
(* and the textures of the new models are loaded if they can be.           *)
LEMMA InitResourceCreates ==
    ASSUME Types, NEW ps \in Hash(PipelineNames, Pipeline), NEW ms \in Hash(ModelNames, Model),
           NEW phs \in Hash(PhaseNames, RenderPhase), InitResource(ps, ms, phs)
    PROVE  /\ \A n \in ModelNames : Holds(models', n) <=> Holds(ms, n)
           /\ \A n \in ModelNames : Holds(models', n) =>
                models'[n].created /\ models'[n].enable /\ models'[n].tex = ms[n].tex
           /\ \A n \in PipelineNames : Holds(pipelines', n) <=> Holds(ps, n)
           /\ \A n \in PipelineNames : Holds(pipelines', n) =>
                pipelines'[n].created /\ pipelines'[n].zpass = ps[n].zpass
           /\ \A n \in PhaseNames : Holds(phases', n) <=> Holds(phs, n)
           /\ \A t \in Textures : textures[t] = "loaded" => textures'[t] = "loaded"
           /\ \A t \in Textures : textures'[t] = "empty" => textures[t] = "empty" \/ t \in Unloadable
           /\ \A n \in ModelNames :
                Holds(ms, n) /\ ~ms[n].created /\ ms[n].tex \in Textures \ Unloadable
                  /\ textures[ms[n].tex] # "empty"
                => textures'[ms[n].tex] = "loaded"
<1>1. /\ models' = Created(ms) /\ pipelines' = Created(ps) /\ phases' = Created(phs)
      /\ textures' = LoadTextures({ms[n].tex : n \in {k \in DOMAIN ms : Holds(ms, k) /\ ~ms[k].created}})
  BY DEF InitResource
<1>2. /\ \A n \in ModelNames : Holds(models', n) <=> Holds(ms, n)
      /\ \A n \in ModelNames : Holds(models', n) =>
           models'[n].created /\ models'[n].enable /\ models'[n].tex = ms[n].tex
  <2>1. \A m \in Model : LET c == [m EXCEPT !.created = TRUE, !.enable = TRUE] IN
          c \in Model /\ c.created /\ c.enable /\ c.tex = m.tex
    BY DEF Model
  <2>2. \A n \in ModelNames : ms[n] # None => ms[n] \in Model
    BY DEF Hash
  <2>3. \A n \in ModelNames : models'[n] =
          IF ms[n] = None THEN None ELSE [ms[n] EXCEPT !.created = TRUE, !.enable = TRUE]
    BY <1>1 DEF Created, Hash
  <2>4. None \notin Model
    BY NoneAssumption
  <2>5. QED
    BY <2>1, <2>2, <2>3, <2>4 DEF Holds
<1>3. /\ \A n \in PipelineNames : Holds(pipelines', n) <=> Holds(ps, n)
      /\ \A n \in PipelineNames : Holds(pipelines', n) =>
           pipelines'[n].created /\ pipelines'[n].zpass = ps[n].zpass
  <2>1. \A p \in Pipeline : LET c == [p EXCEPT !.created = TRUE, !.enable = TRUE] IN
          c \in Pipeline /\ c.created /\ c.zpass = p.zpass
    BY DEF Pipeline
  <2>2. \A n \in PipelineNames : ps[n] # None => ps[n] \in Pipeline
    BY DEF Hash
  <2>3. \A n \in PipelineNames : pipelines'[n] =
          IF ps[n] = None THEN None ELSE [ps[n] EXCEPT !.created = TRUE, !.enable = TRUE]
    BY <1>1 DEF Created, Hash
  <2>4. None \notin Pipeline
    BY NoneAssumption
  <2>5. ASSUME NEW n \in PipelineNames, ps[n] # None
        PROVE  /\ Holds(pipelines', n) /\ Holds(ps, n)
               /\ pipelines'[n].created /\ pipelines'[n].zpass = ps[n].zpass
    <3>1. ps[n] \in Pipeline
      BY <2>2, <2>5
    <3>2. pipelines'[n] = [ps[n] EXCEPT !.created = TRUE, !.enable = TRUE]
      BY <2>3, <2>5
    <3>3. pipelines'[n] \in Pipeline /\ pipelines'[n].created /\ pipelines'[n].zpass = ps[n].zpass
      BY <2>1, <3>1, <3>2
    <3>4. QED
      BY <2>4, <2>5, <3>3 DEF Holds
  <2>6. ASSUME NEW n \in PipelineNames, ps[n] = None
        PROVE  ~Holds(pipelines', n) /\ ~Holds(ps, n)
    BY <2>3, <2>6 DEF Holds
  <2>7. QED
    BY <2>5, <2>6
<1>4. \A n \in PhaseNames : Holds(phases', n) <=> Holds(phs, n)
  <2>1. \A p \in RenderPhase : [p EXCEPT !.created = TRUE, !.enable = TRUE] \in RenderPhase
    BY DEF RenderPhase
  <2>2. \A n \in PhaseNames : phs[n] # None => phs[n] \in RenderPhase
    BY DEF Hash
  <2>3. \A n \in PhaseNames : phases'[n] =
          IF phs[n] = None THEN None ELSE [phs[n] EXCEPT !.created = TRUE, !.enable = TRUE]
    BY <1>1 DEF Created, Hash
  <2>4. None \notin RenderPhase
    BY NoneAssumption
  <2>5. QED
    BY <2>1, <2>2, <2>3, <2>4 DEF Holds
<1>5. /\ \A t \in Textures : textures[t] = "loaded" => textures'[t] = "loaded"
      /\ \A t \in Textures : textures'[t] = "empty" => textures[t] = "empty" \/ t \in Unloadable
  BY <1>1 DEF LoadTextures
<1>6. ASSUME NEW n \in ModelNames, Holds(ms, n), ~ms[n].created,
             ms[n].tex \in Textures \ Unloadable, textures[ms[n].tex] # "empty"
      PROVE  textures'[ms[n].tex] = "loaded"
  <2>1. ms[n].tex \in {ms[k].tex : k \in {k \in DOMAIN ms : Holds(ms, k) /\ ~ms[k].created}}
    BY <1>6 DEF Hash
  <2>2. textures[ms[n].tex] \in {"absent", "empty", "loaded"}
    BY <1>6 DEF Types
  <2>3. QED
    BY <1>1, <1>6, <2>1, <2>2 DEF LoadTextures
<1>7. QED
  BY <1>2, <1>3, <1>4, <1>5, <1>6

(* initResource throws nothing when every element is checked. *)
LEMMA InitResourceKeepsFault ==
    ASSUME NEW ps \in Hash(PipelineNames, Pipeline), NEW ms \in Hash(ModelNames, Model),
           NEW phs \in Hash(PhaseNames, RenderPhase), InitResource(ps, ms, phs),
           \A n \in PipelineNames : Holds(ps, n) => ps[n].created \/ ps[n].impl,
           \A n \in ModelNames : Holds(ms, n) => ms[n].created \/ ms[n].impl
    PROVE  fault' = fault
<1>1. /\ ~ \E n \in {k \in DOMAIN ps : Holds(ps, k) /\ ~ps[k].created} : ~ps[n].impl
      /\ ~ \E n \in {k \in DOMAIN ms : Holds(ms, k) /\ ~ms[k].created} : ~ms[n].impl
  BY DEF Hash
<1>2. QED
  BY <1>1 DEF InitResource
-----------------------------------------------------------------------------
(* Each step keeps what a paint relies on. *)
LEMMA InitPaintInv == Init => PaintInv
<1>. SUFFICES ASSUME Init PROVE PaintInv
  OBVIOUS
<1>1. FlagsInv /\ DrawnInv
  BY NothingHeld DEF Init, FlagsInv, DrawnInv
<1>2. SceneInv
  BY NothingHeld DEF Init, SceneInv, ModelsLoaded, LoadedInv, PipelinesReady, InScene
<1>3. ToSet(phaseOrder) \subseteq PhaseNames
  BY DEF Init, ToSet
<1>4. QED
  BY <1>1, <1>2, <1>3 DEF PaintInv, Init

(* What a file without risky elements leaves to the scene. *)
LEMMA LoadedScene ==
    ASSUME EditInv, PaintInv, NEW file \in SceneFiles, LoadScene(file), file.loaded,
           ~file.risky, ~risky
    PROVE  /\ fault' = fault
           /\ \A n \in ModelNames : Holds(models', n) =>
                /\ models'[n].created /\ models'[n].enable
                /\ models'[n].tex # None /\ textures'[models'[n].tex] = "loaded"
           /\ \A n \in ObjectNames : Holds(objects', n) => \A ph \in PhaseNames :
                objects'[n].phase[ph] # None =>
                  Holds(pipelines', objects'[n].phase[ph])
                  \/ objects'[n].phase[ph] = EditorParam.pipeline.name
           /\ phases' = NoRenderPhases
           /\ \A n \in PipelineNames : Holds(pipelines', n) => ~pipelines'[n].zpass
<1>. DEFINE ms == InitModel(file.models)
            ps == InitPipeline(file.pipelines)
<1>1. /\ file.objects \in Seq(ObjectValue) /\ file.models \in Seq(ModelValue)
      /\ file.pipelines \in Seq(PipelineValue)
      /\ \A m \in ToSet(file.models) : CheckedModel(m)
      /\ \A p \in ToSet(file.pipelines) : p.system /\ ~p.zpass
      /\ \A o \in ToSet(file.objects), ph \in PhaseNames :
           o.phase[ph] \in {p.name : p \in ToSet(file.pipelines)}
                           \cup {EditorParam.pipeline.name, None}
  BY SceneInputs
<1>2. ms \in Hash(ModelNames, Model) /\ ps \in Hash(PipelineNames, Pipeline)
  BY <1>1, InitHashTypes, NothingHeld
<1>3. /\ objects' = InitObject(file.objects, ms) /\ InitResource(ps, ms, phases)
      /\ main = "load"
  BY DEF LoadScene
<1>4. \A n \in ModelNames : Holds(ms, n) =>
        ~ms[n].created /\ ms[n].impl /\ ms[n].tex \in Textures \ Unloadable
  BY <1>1, <1>2, InitHashHolds, CreateModelType DEF CheckedModel
<1>5. \A n \in PipelineNames : Holds(ps, n) => ps[n].impl /\ ~ps[n].zpass
  BY <1>1, <1>2, InitHashHolds, CreatePipelineType
<1>6. /\ \A v \in ToSet(file.pipelines) : v.name \in PipelineNames => Holds(ps, v.name)
      /\ \A n \in ObjectNames : Holds(objects', n) =>
           \E v \in ToSet(file.objects) : \A ph \in PhaseNames :
             objects'[n].phase[ph] \in {None, v.phase[ph]}
  BY <1>1, <1>2, <1>3, InitHashHolds
<1>7. objects' \in Hash(ObjectNames, Object)
  BY <1>1, <1>2, <1>3, InitHashTypes
<1>8. /\ Types /\ phases \in Hash(PhaseNames, RenderPhase)
      /\ phases = NoRenderPhases /\ textures = [t \in Textures |-> "absent"]
  BY <1>3 DEF EditInv, Types, PaintInv, SceneInv, LoadedInv
<1>. HIDE DEF ms, ps
<1>9. fault' = fault
  BY <1>2, <1>3, <1>4, <1>5, <1>8, InitResourceKeepsFault
<1>10. \A n \in ModelNames : Holds(models', n) =>
         /\ models'[n].created /\ models'[n].enable
         /\ models'[n].tex # None /\ textures'[models'[n].tex] = "loaded"
  <2>1. /\ \A n \in ModelNames : Holds(models', n) <=> Holds(ms, n)
        /\ \A n \in ModelNames : Holds(models', n) =>
             models'[n].created /\ models'[n].enable /\ models'[n].tex = ms[n].tex
        /\ \A n \in ModelNames :
             Holds(ms, n) /\ ~ms[n].created /\ ms[n].tex \in Textures \ Unloadable
               /\ textures[ms[n].tex] # "empty"
             => textures'[ms[n].tex] = "loaded"
    BY <1>2, <1>3, <1>8, InitResourceCreates
  <2>2. \A t \in Textures : t # None /\ textures[t] # "empty"
    BY <1>8, SceneNames
  <2>3. QED
    BY <1>4, <2>1, <2>2
<1>11. ASSUME NEW n \in ObjectNames, Holds(objects', n), NEW ph \in PhaseNames,
              objects'[n].phase[ph] # None
       PROVE  Holds(pipelines', objects'[n].phase[ph])
              \/ objects'[n].phase[ph] = EditorParam.pipeline.name
  <2>1. objects'[n].phase[ph] \in {p.name : p \in ToSet(file.pipelines)}
                                  \cup {EditorParam.pipeline.name}
    BY <1>1, <1>6, <1>11
  <2>2. objects'[n].phase[ph] \in PipelineNames
    BY <1>7, <1>11 DEF Hash, Holds, Object
  <2>3. \A k \in PipelineNames : Holds(pipelines', k) <=> Holds(ps, k)
    BY <1>2, <1>3, <1>8, InitResourceCreates
  <2>4. QED
    BY <1>6, <2>1, <2>2, <2>3
<1>12. phases' = NoRenderPhases
  BY <1>3, <1>8 DEF InitResource, Created, NoRenderPhases
<1>13. \A n \in PipelineNames : Holds(pipelines', n) => ~pipelines'[n].zpass
  BY <1>2, <1>3, <1>5, <1>8, InitResourceCreates
<1>14. QED
  BY <1>9, <1>10, <1>11, <1>12, <1>13

LEMMA LoadScenePaintInv ==
    ASSUME EditInv, PaintInv, NEW file \in SceneFiles, LoadScene(file)
    PROVE  PaintInv'
<1>1. /\ UNCHANGED <<pending, lock, msg, phaseOrder, drawn>>
      /\ main = "load" /\ main' = "init" /\ drawn = {}
  BY DEF LoadScene, sceneVars, serverVars, PaintInv, DrawnInv
<1>2. CASE ~file.loaded
  <2>1. UNCHANGED <<sceneVars, risky>>
    BY <1>2 DEF LoadScene
  <2>2. FlagsInv' /\ DrawnInv'
    BY <1>1, <2>1 DEF PaintInv, FlagsInv, DrawnInv, sceneVars, pending
  <2>3. SceneInv'
    <3>. SUFFICES ASSUME ~risky' PROVE SceneInv'
      BY DEF SceneInv
    <3>1. ~risky
      BY <2>1
    <3>2. /\ fault \in {None, "race"} /\ mPipelineHash = NoPipelines
          /\ mRenderPhase = NoRenderPhases
          /\ \A e \in mDeleteList : e[1] \in {"object", "model"}
          /\ ModelsLoaded /\ LoadedInv /\ PipelinesReady
      BY <3>1 DEF PaintInv, SceneInv
    <3>3. LoadedInv'
      BY <1>1, <2>1, <3>2, NothingHeld DEF LoadedInv, sceneVars, pending
    <3>4. ModelsLoaded' /\ PipelinesReady'
      BY <2>1, <3>2 DEF ModelsLoaded, PipelinesReady, sceneVars
    <3>5. QED
      BY <1>1, <2>1, <3>2, <3>3, <3>4 DEF SceneInv, InScene, sceneVars, pending
  <2>4. QED
    BY <1>1, <2>2, <2>3 DEF PaintInv
<1>3. CASE file.loaded
  <2>. DEFINE ms == InitModel(file.models)
              ps == InitPipeline(file.pipelines)
  <2>1. /\ file.models \in Seq(ModelValue) /\ file.pipelines \in Seq(PipelineValue)
        /\ file.objects \in Seq(ObjectValue)
    BY <1>3, SceneInputs
  <2>2. ms \in Hash(ModelNames, Model) /\ ps \in Hash(PipelineNames, Pipeline)
    BY <2>1, InitHashTypes, NothingHeld
  <2>3. InitResource(ps, ms, phases) /\ risky' = file.risky
    BY <1>3 DEF LoadScene
  <2>4. Types /\ phases \in Hash(PhaseNames, RenderPhase)
    BY DEF EditInv, Types
  <2>. HIDE DEF ms, ps
  <2>5. /\ \A n \in ModelNames : Holds(models', n) => models'[n].created
        /\ \A n \in PipelineNames : Holds(pipelines', n) => pipelines'[n].created
        /\ \A t \in Textures : textures'[t] = "empty" => textures[t] = "empty" \/ t \in Unloadable
    BY <2>2, <2>3, <2>4, InitResourceCreates
  <2>6. FlagsInv' /\ DrawnInv'
    BY <1>1, <2>5 DEF PaintInv, FlagsInv, DrawnInv, pending
  <2>7. SceneInv'
    <3>. SUFFICES ASSUME ~risky' PROVE SceneInv'
      BY DEF SceneInv
    <3>1. ~file.risky
      BY <2>3
    <3>2. ~risky
      BY <1>1 DEF PaintInv
    <3>3. /\ fault \in {None, "race"} /\ mPipelineHash = NoPipelines
          /\ mRenderPhase = NoRenderPhases
          /\ \A e \in mDeleteList : e[1] \in {"object", "model"}
          /\ LoadedInv
      BY <3>2 DEF PaintInv, SceneInv
    <3>4. /\ fault' = fault
          /\ \A n \in ModelNames : Holds(models', n) =>
               /\ models'[n].created /\ models'[n].enable
               /\ models'[n].tex # None /\ textures'[models'[n].tex] = "loaded"
          /\ \A n \in ObjectNames : Holds(objects', n) => \A ph \in PhaseNames :
               objects'[n].phase[ph] # None =>
                 Holds(pipelines', objects'[n].phase[ph])
                 \/ objects'[n].phase[ph] = EditorParam.pipeline.name
          /\ phases' = NoRenderPhases
          /\ \A n \in PipelineNames : Holds(pipelines', n) => ~pipelines'[n].zpass
      BY <1>3, <3>1, <3>2, LoadedScene
    <3>5. ModelsLoaded' /\ PipelinesReady'
      BY <2>5, <3>4 DEF ModelsLoaded, PipelinesReady
    <3>6. LoadedInv'
      BY <1>1, <3>3, <3>4 DEF LoadedInv, NamesHeld, pending
    <3>7. QED
      BY <1>1, <3>3, <3>4, <3>5, <3>6 DEF SceneInv, InScene, pending
  <2>8. QED
    BY <1>1, <2>6, <2>7 DEF PaintInv
<1>4. QED
  BY <1>2, <1>3

(* An added element is found under its name; the others stay. *)
LEMMA AddHolds ==
    ASSUME Types, NEW o \in ObjectValue, o.name # None, NEW m \in ModelValue, m.name # None,
           NEW p \in PipelineValue, p.name # None, NEW hash \in Hash(ModelNames, Model)
    PROVE  /\ \A n \in ModelNames : Holds(AddModel(models, m), n) =>
                \/ Holds(models, n) /\ AddModel(models, m)[n] = models[n]
                \/ AddModel(models, m)[n] = CreateModel(m)
           /\ \A n \in PipelineNames :
                /\ Holds(AddPipeline(pipelines, p), n) <=> Holds(pipelines, n) \/ n = p.name
                /\ Holds(AddPipeline(pipelines, p), n) =>
                     \/ Holds(pipelines, n) /\ AddPipeline(pipelines, p)[n] = pipelines[n]
                     \/ AddPipeline(pipelines, p)[n] = CreatePipeline(p)
           /\ \A n \in ObjectNames : Holds(AddObject(objects, o, hash), n) =>
                \/ Holds(objects, n) /\ AddObject(objects, o, hash)[n] = objects[n]
                \/ \A ph \in PhaseNames :
                     AddObject(objects, o, hash)[n].phase[ph] \in {None, o.phase[ph]}
<1>1. \A n \in ModelNames : Holds(AddModel(models, m), n) =>
        \/ Holds(models, n) /\ AddModel(models, m)[n] = models[n]
        \/ AddModel(models, m)[n] = CreateModel(m)
  BY DEF AddModel, Holds, Types, Hash
<1>2. CreatePipeline(p) # None
  BY CreatePipelineType, NoneAssumption
<1>3. p.name \in PipelineNames
  BY DEF PipelineValue
<1>4. ASSUME NEW n \in PipelineNames
      PROVE  /\ Holds(AddPipeline(pipelines, p), n) <=> Holds(pipelines, n) \/ n = p.name
             /\ Holds(AddPipeline(pipelines, p), n) =>
                  \/ Holds(pipelines, n) /\ AddPipeline(pipelines, p)[n] = pipelines[n]
                  \/ AddPipeline(pipelines, p)[n] = CreatePipeline(p)
  <2>1. CASE Holds(pipelines, p.name)
    BY <2>1 DEF AddPipeline
  <2>2. CASE ~Holds(pipelines, p.name)
    BY <2>2, <1>2, <1>3 DEF AddPipeline, Holds, Types, Hash
  <2>3. QED
    BY <2>1, <2>2
<1>5. ASSUME NEW n \in ObjectNames, Holds(AddObject(objects, o, hash), n)
      PROVE  \/ Holds(objects, n) /\ AddObject(objects, o, hash)[n] = objects[n]
             \/ \A ph \in PhaseNames :
                  AddObject(objects, o, hash)[n].phase[ph] \in {None, o.phase[ph]}
  <2>. DEFINE new == CreateObject(NewObject, o)
              b == new.model # None /\ Holds(hash, new.model)
  <2>1. CASE Holds(objects, o.name)
    BY <1>5, <2>1 DEF AddObject
  <2>2. CASE ~Holds(objects, o.name)
    <3>1. new \in Object /\ \A ph \in PhaseNames : new.phase[ph] \in {None, o.phase[ph]}
      BY NewTypes, CreateObjectType DEF CreateObject, NewObject, NoPhases
    <3>2. AddObject(objects, o, hash) = [objects EXCEPT ![o.name] = [new EXCEPT !.enable = b]]
      BY <2>2 DEF AddObject
    <3>. HIDE DEF new, b
    <3>3. [new EXCEPT !.enable = b].phase = new.phase
      BY <3>1 DEF Object
    <3>4. objects \in [ObjectNames -> Object \cup {None}]
      BY DEF Types, Hash
    <3>5. CASE n = o.name
      BY <3>1, <3>2, <3>3, <3>4, <3>5
    <3>6. CASE n # o.name
      BY <1>5, <3>2, <3>4, <3>6 DEF Holds
    <3>7. QED
      BY <3>5, <3>6
  <2>3. QED
    BY <2>1, <2>2
<1>6. QED
  BY <1>1, <1>4, <1>5

LEMMA CreateEditorPaintInv ==
    ASSUME EditInv, PaintInv, CreateEditor
    PROVE  PaintInv'
<1>. DEFINE ms == AddModel(models, EditorParam.model)
            ps == AddPipeline(pipelines, EditorParam.pipeline)
            phs == AddRenderPhase(phases, EditorParam.phase)
<1>1. /\ UNCHANGED <<pending, msg, risky, drawn>>
      /\ main = "init" /\ main' = "loop" /\ drawn = {}
      /\ objects' = AddObject(objects, EditorParam.object, ms)
      /\ InitResource(ps, ms, phs)
      /\ phaseOrder' \in SetToSeqs({p \in PhaseNames : Holds(phs, p)})
  BY DEF CreateEditor, InitScene, PaintInv, DrawnInv
<1>2. /\ ms \in Hash(ModelNames, Model) /\ ps \in Hash(PipelineNames, Pipeline)
      /\ phs \in Hash(PhaseNames, RenderPhase)
  BY SceneInputs, AddTypes DEF EditInv, Types
<1>3. /\ \A n \in ModelNames : Holds(ms, n) =>
           \/ Holds(models, n) /\ ms[n] = models[n]
           \/ ms[n] = CreateModel(EditorParam.model)
      /\ \A n \in PipelineNames :
           /\ Holds(ps, n) <=> Holds(pipelines, n) \/ n = EditorParam.pipeline.name
           /\ Holds(ps, n) => \/ Holds(pipelines, n) /\ ps[n] = pipelines[n]
                              \/ ps[n] = CreatePipeline(EditorParam.pipeline)
      /\ \A n \in ObjectNames : Holds(objects', n) =>
           \/ Holds(objects, n) /\ objects'[n] = objects[n]
           \/ \A ph \in PhaseNames :
                objects'[n].phase[ph] \in {None, EditorParam.object.phase[ph]}
  BY <1>1, <1>2, SceneInputs, AddHolds DEF EditInv
<1>4. objects' \in Hash(ObjectNames, Object)
  BY <1>1, <1>2, SceneInputs, AddTypes DEF EditInv, Types
<1>. HIDE DEF ms, ps, phs
<1>5. /\ \A n \in ModelNames : Holds(models', n) <=> Holds(ms, n)
      /\ \A n \in ModelNames : Holds(models', n) =>
           models'[n].created /\ models'[n].enable /\ models'[n].tex = ms[n].tex
      /\ \A n \in PipelineNames : Holds(pipelines', n) <=> Holds(ps, n)
      /\ \A n \in PipelineNames : Holds(pipelines', n) =>
           pipelines'[n].created /\ pipelines'[n].zpass = ps[n].zpass
      /\ \A n \in PhaseNames : Holds(phases', n) <=> Holds(phs, n)
      /\ \A t \in Textures : textures[t] = "loaded" => textures'[t] = "loaded"
      /\ \A t \in Textures : textures'[t] = "empty" => textures[t] = "empty" \/ t \in Unloadable
      /\ \A n \in ModelNames :
           Holds(ms, n) /\ ~ms[n].created /\ ms[n].tex \in Textures \ Unloadable
             /\ textures[ms[n].tex] # "empty"
           => textures'[ms[n].tex] = "loaded"
  BY <1>1, <1>2, InitResourceCreates DEF EditInv
<1>6. ToSet(phaseOrder') \subseteq {p \in PhaseNames : Holds(phs, p)}
  BY <1>1 DEF SetToSeqs, ToSet
<1>7. FlagsInv' /\ DrawnInv'
  BY <1>1, <1>5 DEF PaintInv, FlagsInv, DrawnInv, DrawnIsComplete, pending
<1>8. SceneInv'
  <2>. SUFFICES ASSUME ~risky' PROVE SceneInv'
    BY DEF SceneInv
  <2>1. /\ fault \in {None, "race"} /\ mPipelineHash = NoPipelines
        /\ mRenderPhase = NoRenderPhases
        /\ \A e \in mDeleteList : e[1] \in {"object", "model"}
        /\ ModelsLoaded /\ LoadedInv /\ PipelinesReady
    BY <1>1 DEF PaintInv, SceneInv
  <2>2. /\ CreateModel(EditorParam.model).impl /\ ~CreateModel(EditorParam.model).created
        /\ CreateModel(EditorParam.model).tex \in Textures \ Unloadable
        /\ CreatePipeline(EditorParam.pipeline).impl
        /\ ~CreatePipeline(EditorParam.pipeline).zpass
    BY SceneInputs, CreateModelType, CreatePipelineType DEF CheckedModel
  <2>3. \A n \in ModelNames : Holds(models, n) => models[n].created /\ models[n].enable
    BY <1>1, <2>1 DEF LoadedInv
  <2>4. fault' = fault
    <3>1. \A n \in PipelineNames : Holds(ps, n) => ps[n].created \/ ps[n].impl
      BY <1>3, <2>1, <2>2 DEF PipelinesReady
    <3>2. \A n \in ModelNames : Holds(ms, n) => ms[n].created \/ ms[n].impl
      BY <1>3, <2>2, <2>3
    <3>3. QED
      BY <1>1, <1>2, <3>1, <3>2, InitResourceKeepsFault
  <2>5. ASSUME NEW n \in ModelNames, Holds(models', n)
        PROVE  models'[n].tex # None /\ textures'[models'[n].tex] = "loaded"
    <3>1. CASE Holds(models, n) /\ ms[n] = models[n]
      <4>1. models[n].tex # None /\ textures[models[n].tex] = "loaded"
        BY <2>1, <2>3, <3>1 DEF ModelsLoaded
      <4>2. models[n].tex \in Textures
        BY <3>1, <4>1 DEF EditInv, Types, Hash, Holds, Model
      <4>3. QED
        BY <1>5, <2>5, <3>1, <4>1, <4>2
    <3>2. CASE ms[n] = CreateModel(EditorParam.model)
      <4>1. Holds(ms, n) /\ ~ms[n].created /\ ms[n].tex \in Textures \ Unloadable
        BY <1>5, <2>2, <2>5, <3>2
      <4>2. textures[ms[n].tex] # "empty"
        BY <4>1 DEF PaintInv, FlagsInv
      <4>3. ms[n].tex # None
        BY <4>1, SceneNames
      <4>4. QED
        BY <1>5, <2>5, <4>1, <4>2, <4>3
    <3>3. QED
      BY <1>3, <1>5, <2>5, <3>1, <3>2
  <2>6. ModelsLoaded' /\ PipelinesReady'
    BY <1>3, <1>5, <2>1, <2>2, <2>5 DEF ModelsLoaded, PipelinesReady
  <2>7. ASSUME NEW n \in ObjectNames, Holds(objects', n)
        PROVE  \A ph \in PhaseNames : objects'[n].phase[ph] # None =>
                 Holds(pipelines', objects'[n].phase[ph])
    <3>. SUFFICES ASSUME NEW ph \in PhaseNames, objects'[n].phase[ph] # None
                  PROVE  Holds(pipelines', objects'[n].phase[ph])
      OBVIOUS
    <3>1. objects'[n].phase[ph] \in PipelineNames
      BY <1>4, <2>7 DEF Hash, Holds, Object
    <3>2. Holds(pipelines, objects'[n].phase[ph])
          \/ objects'[n].phase[ph] = EditorParam.pipeline.name
      <4>1. CASE Holds(objects, n) /\ objects'[n] = objects[n]
        <5>1. NamesHeld(objects[n], {EditorParam.pipeline.name})
          BY <1>1, <2>1, <4>1 DEF LoadedInv
        <5>2. QED
          BY <4>1, <5>1 DEF NamesHeld
      <4>2. CASE \A k \in PhaseNames :
                   objects'[n].phase[k] \in {None, EditorParam.object.phase[k]}
        BY <4>2, SceneInputs
      <4>3. QED
        BY <1>3, <2>7, <4>1, <4>2
    <3>3. QED
      BY <1>3, <1>5, <3>1, <3>2
  <2>8. (\A value \in Values : NamesHeld(value, {}))'
    <3>1. /\ msg = NoMessage /\ mUpdateList = NoObjects /\ mObjectHash = NoObjects
      BY <1>1, <2>1 DEF LoadedInv, EditInv, LockInv
    <3>2. /\ msg'.add_objects = <<>> /\ msg'.update_objects = <<>>
          /\ mUpdateList' = NoObjects /\ mObjectHash' = NoObjects
      BY <1>1, <3>1 DEF NoMessage, pending
    <3>3. Values' = {objects'[n] : n \in {o \in ObjectNames : Holds(objects', o)}}
      BY <3>2, NothingHeld DEF Values, Updates, Holds
    <3>4. QED
      BY <2>7, <3>3 DEF NamesHeld
  <2>9. LoadedInv'
    BY <1>1 DEF LoadedInv
  <2>10. \A p \in ToSet(phaseOrder') : Holds(phases', p)
    BY <1>5, <1>6
  <2>11. QED
    BY <1>1, <2>1, <2>4, <2>6, <2>8, <2>9, <2>10 DEF SceneInv, pending
<1>9. QED
  BY <1>1, <1>6, <1>7, <1>8 DEF PaintInv

(* What a step has to keep that does not touch the scene: the values on    *)
(* their way to an object name pipelines the scene holds.                  *)
LEMMA QuietPaintInv ==
    ASSUME PaintInv,
           UNCHANGED <<objects, models, pipelines, textures, phases, phaseOrder, drawn,
                       mModelHash, mPipelineHash, mRenderPhase>>,
           fault' \in {fault, "race"},
           \/ main' = main
           \/ /\ main \in {"loop", "deletes", "delete", "updates", "update", "unlock", "join"}
              /\ main' \in {"merge_objects", "paint", "deletes", "delete", "updates",
                            "update", "unlock", "clear", "end"}
              /\ main = "join" => main' = "end",
           main \in {"load", "init"} => UNCHANGED <<msg, mUpdateList, risky>>,
           risky => risky',
           \A e \in mDeleteList' : e \in mDeleteList \/ e[1] = "object",
           ~risky' /\ InScene =>
             \A value \in Values' : value \in Values \/ NamesHeld(value, {})
    PROVE  PaintInv'
<1>1. FlagsInv'
  BY DEF PaintInv, FlagsInv
<1>2. DrawnInv'
  BY DEF PaintInv, DrawnInv, DrawnIsComplete
<1>3. SceneInv'
  <2>. SUFFICES ASSUME ~risky' PROVE SceneInv'
    BY DEF SceneInv
  <2>1. /\ fault \in {None, "race"} /\ mPipelineHash = NoPipelines
        /\ mRenderPhase = NoRenderPhases
        /\ \A e \in mDeleteList : e[1] \in {"object", "model"}
        /\ ModelsLoaded /\ LoadedInv /\ PipelinesReady
        /\ InScene => /\ \A value \in Values : NamesHeld(value, {})
                      /\ \A p \in ToSet(phaseOrder) : Holds(phases, p)
    BY DEF PaintInv, SceneInv
  <2>2. ModelsLoaded' /\ PipelinesReady'
    BY <2>1 DEF ModelsLoaded, PipelinesReady
  <2>3. LoadedInv'
    BY <2>1 DEF LoadedInv, NamesHeld
  <2>4. InScene' => InScene
    BY DEF InScene
  <2>5. InScene' => (\A value \in Values : NamesHeld(value, {}))'
    <3>1. InScene' => \A value \in Values' : NamesHeld(value, {})
      BY <2>1, <2>4
    <3>2. QED
      BY <3>1 DEF NamesHeld
  <2>6. InScene' => \A p \in ToSet(phaseOrder') : Holds(phases', p)
    BY <2>1, <2>4
  <2>7. fault' \in {None, "race"} /\ \A e \in mDeleteList' : e[1] \in {"object", "model"}
    BY <2>1
  <2>8. QED
    BY <2>1, <2>2, <2>3, <2>5, <2>6, <2>7 DEF SceneInv
<1>4. QED
  BY <1>1, <1>2, <1>3 DEF PaintInv

(* The steps of deliver that leave the scene alone. *)
LEMMA DeliverPaintInv ==
    ASSUME PaintInv,
           \/ CheckData \/ LookAtDeletes \/ ClearDeletes \/ LookAtUpdates \/ ClearUpdates
           \/ LeaveDeliver \/ Escape \/ Join
    PROVE  PaintInv'
<1>1. /\ UNCHANGED <<objects, models, pipelines, textures, phases, phaseOrder, drawn, fault,
                     mModelHash, mPipelineHash, mRenderPhase, mObjectHash, msg, risky>>
      /\ mDeleteList' \subseteq mDeleteList
      /\ mUpdateList' = mUpdateList \/ mUpdateList' = NoObjects
      /\ main \in {"loop", "deletes", "delete", "updates", "update", "unlock", "join"}
      /\ main' \in {"merge_objects", "paint", "deletes", "delete", "updates",
                    "update", "unlock", "clear", "end"}
      /\ main = "join" => main' = "end"
  BY DEF CheckData, LookAtDeletes, ClearDeletes, LookAtUpdates, ClearUpdates, LeaveDeliver,
         Escape, Join, sceneVars, pending, serverVars
<1>2. Values' \subseteq Values
  <2>1. CASE mUpdateList' = mUpdateList
    BY <1>1, <2>1 DEF Values, Updates
  <2>2. CASE mUpdateList' = NoObjects
    <3>1. Updates' = {}
      BY <2>2 DEF Updates, NoObjects
    <3>2. QED
      BY <1>1, <3>1 DEF Values
  <2>3. QED
    BY <1>1, <2>1, <2>2
<1>3. QED
  BY <1>1, <1>2, QuietPaintInv

(* The steps of the server that change neither the message nor what waits. *)
LEMMA ServerPaintInv ==
    ASSUME PaintInv, Open \/ SendObjects \/ LockMessage \/ UnlockMessage \/ StopServer
    PROVE  PaintInv'
<1>1. /\ UNCHANGED <<objects, models, pipelines, textures, phases, phaseOrder, drawn, fault,
                     mModelHash, mPipelineHash, mRenderPhase, mObjectHash, msg, risky>>
      /\ UNCHANGED <<mDeleteList, mUpdateList, main>>
  BY DEF Open, SendObjects, LockMessage, UnlockMessage, StopServer, sceneVars, pending
<1>2. Values' = Values
  BY <1>1 DEF Values, Updates
<1>3. QED
  BY <1>1, <1>2, QuietPaintInv

LEMMA RacePaintInv ==
    ASSUME PaintInv, Race
    PROVE  PaintInv'
<1>1. /\ UNCHANGED <<objects, models, pipelines, textures, phases, phaseOrder, drawn,
                     mModelHash, mPipelineHash, mRenderPhase, mObjectHash, msg, risky>>
      /\ UNCHANGED <<mDeleteList, mUpdateList, main>> /\ fault' = "race"
  BY DEF Race, pending, serverVars
<1>2. Values' = Values
  BY <1>1 DEF Values, Updates
<1>3. QED
  BY <1>1, <1>2, QuietPaintInv

LEMMA ReceivePaintInv ==
    ASSUME EditInv, PaintInv, NEW m \in Messages, Receive(m)
    PROVE  PaintInv'
<1>1. /\ UNCHANGED <<objects, models, pipelines, textures, phases, phaseOrder, drawn, fault,
                     mModelHash, mPipelineHash, mRenderPhase, mObjectHash, mDeleteList,
                     mUpdateList, main>>
      /\ server = "poll" /\ main \notin {"load", "init"}
      /\ \/ UNCHANGED <<msg, risky>>
         \/ /\ msg' = m
            /\ risky' = (risky \/ \E j \in ToSet(m.add_objects) \cup ToSet(m.update_objects) :
                                    NamesForeign(j))
  BY DEF Receive, sceneVars, pending, EditInv, LockInv
<1>2. m \in MessageValue
  BY EditorInputs
<1>3. \A value \in Values' :
        \/ value \in Values
        \/ msg' = m /\ value \in ToSet(m.add_objects) \cup ToSet(m.update_objects)
  BY <1>1 DEF Values, Updates, ToSet
<1>4. \A value : ~NamesForeign(value) => NamesHeld(value, {})
  BY DEF NamesForeign, NamesHeld
<1>5. risky => risky'
  BY <1>1
<1>6. ~risky' => \A value \in Values' : value \in Values \/ NamesHeld(value, {})
  BY <1>1, <1>3, <1>4 DEF Values, Updates
<1>7. QED
  BY <1>1, <1>5, <1>6, QuietPaintInv

LEMMA AddOnePaintInv ==
    ASSUME EditInv, PaintInv, AddOne
    PROVE  PaintInv'
<1>1. /\ UNCHANGED <<objects, models, pipelines, textures, phases, phaseOrder, drawn, fault,
                     mModelHash, mPipelineHash, mRenderPhase, mDeleteList, mUpdateList,
                     main, risky>>
      /\ main \notin {"load", "init"}
  BY DEF AddOne, sceneVars, EditInv, LockInv
<1>2. CASE msg.add_objects = <<>>
  <2>1. UNCHANGED <<mObjectHash, msg>>
    BY <1>2 DEF AddOne
  <2>2. Values' = Values
    BY <1>1, <2>1 DEF Values, Updates
  <2>3. QED
    BY <1>1, <2>2, QuietPaintInv
<1>3. CASE msg.add_objects # <<>>
  <2>. DEFINE v == Head(msg.add_objects)
  <2>1. /\ AddObjectOf(v)
        /\ msg' = [msg EXCEPT !.add_objects = Tail(@)]
    BY <1>3 DEF AddOne
  <2>2. msg \in MessageValue /\ msg.add_objects \in Seq(ObjectValue)
    BY DEF EditInv, Types, MessageValue
  <2>3. /\ v \in ObjectValue
        /\ msg.add_objects[1] = v /\ 1 \in DOMAIN msg.add_objects
        /\ \A i \in DOMAIN Tail(msg.add_objects) :
             i + 1 \in DOMAIN msg.add_objects
             /\ Tail(msg.add_objects)[i] = msg.add_objects[i + 1]
    BY <1>3, <2>2, HeadTailProperties, LenProperties
  <2>4. /\ msg'.add_objects = Tail(msg.add_objects)
        /\ msg'.update_objects = msg.update_objects
    BY <2>1, <2>2 DEF MessageValue
  <2>5. /\ mObjectHash \in Hash(ObjectNames, Object)
        /\ \A n \in ObjectNames : mObjectHash'[n] = mObjectHash[n] \/
             (n = v.name /\ \E o \in Object : \E b \in BOOLEAN :
                mObjectHash'[n] = [CreateObject(o, v) EXCEPT !.enable = b])
    BY <2>1, <2>3, AddObjectOfLeaves DEF EditInv, Types
  <2>6. v \in Values
    BY <2>3 DEF Values
  <2>. HIDE DEF v
  <2>7. ASSUME NamesHeld(v, {}), NEW o \in Object, NEW b \in BOOLEAN
        PROVE  NamesHeld([CreateObject(o, v) EXCEPT !.enable = b], {})
    <3>1. CreateObject(o, v) \in Object
      BY <2>3, CreateObjectType
    <3>2. [CreateObject(o, v) EXCEPT !.enable = b].phase = CreateObject(o, v).phase
      BY <3>1 DEF Object
    <3>3. CreateObject(o, v).phase \in {v.phase, NoPhases}
      BY DEF CreateObject, NewObject, Object
    <3>4. QED
      BY <2>7, <3>2, <3>3 DEF NamesHeld, NoPhases
  <2>8. ASSUME ~risky, InScene
        PROVE  \A value \in Values' : value \in Values \/ NamesHeld(value, {})
    <3>1. NamesHeld(v, {})
      BY <2>6, <2>8 DEF PaintInv, SceneInv
    <3>2. \A n \in ObjectNames : Holds(mObjectHash', n) =>
            \/ Holds(mObjectHash, n) /\ mObjectHash'[n] = mObjectHash[n]
            \/ NamesHeld(mObjectHash'[n], {})
      <4>1. ASSUME NEW n \in ObjectNames, mObjectHash'[n] # mObjectHash[n]
            PROVE  NamesHeld(mObjectHash'[n], {})
        <5>1. PICK o \in Object : \E b \in BOOLEAN :
                mObjectHash'[n] = [CreateObject(o, v) EXCEPT !.enable = b]
          BY <2>5, <4>1
        <5>2. PICK b \in BOOLEAN : mObjectHash'[n] = [CreateObject(o, v) EXCEPT !.enable = b]
          BY <5>1
        <5>3. NamesHeld([CreateObject(o, v) EXCEPT !.enable = b], {})
          BY <2>7, <3>1
        <5>4. QED
          BY <5>2, <5>3
      <4>2. QED
        BY <4>1 DEF Holds
    <3>3. \A i \in DOMAIN msg'.add_objects : msg'.add_objects[i] \in Values
      BY <2>3, <2>4 DEF Values
    <3>4. \A value \in Values' :
            \/ value \in Values
            \/ \E i \in DOMAIN msg'.add_objects : value = msg'.add_objects[i]
            \/ \E n \in ObjectNames : Holds(mObjectHash', n) /\ value = mObjectHash'[n]
      BY <1>1, <2>4 DEF Values, Updates
    <3>5. \A n \in ObjectNames : Holds(mObjectHash, n) => mObjectHash[n] \in Values
      BY DEF Values
    <3>6. QED
      BY <3>2, <3>3, <3>4, <3>5
  <2>9. QED
    BY <1>1, <2>8, QuietPaintInv
<1>4. QED
  BY <1>2, <1>3

LEMMA DeleteNextPaintInv ==
    ASSUME EditInv, PaintInv, DeleteNext
    PROVE  PaintInv'
<1>1. /\ UNCHANGED <<objects, models, pipelines, textures, phases, phaseOrder, drawn, fault,
                     mModelHash, mPipelineHash, mRenderPhase, mObjectHash, mUpdateList,
                     main, risky>>
      /\ main \notin {"load", "init"}
      /\ \A e \in mDeleteList' : e \in mDeleteList \/ e[1] = "object"
      /\ msg' = msg \/ msg' = [msg EXCEPT !.del_objects = Tail(@)]
  BY DEF DeleteNext, AddDeleteElement, sceneVars, EditInv, LockInv
<1>2. msg'.add_objects = msg.add_objects /\ msg'.update_objects = msg.update_objects
  BY <1>1 DEF EditInv, Types, MessageValue
<1>3. Values' = Values
  BY <1>1, <1>2 DEF Values, Updates
<1>4. QED
  BY <1>1, <1>3, QuietPaintInv

LEMMA UpdateNextPaintInv ==
    ASSUME EditInv, PaintInv, UpdateNext
    PROVE  PaintInv'
<1>1. /\ UNCHANGED <<objects, models, pipelines, textures, phases, phaseOrder, drawn, fault,
                     mModelHash, mPipelineHash, mRenderPhase, mObjectHash, mDeleteList,
                     main, risky>>
      /\ main \notin {"load", "init"}
  BY DEF UpdateNext, sceneVars, EditInv, LockInv
<1>2. Values' \subseteq Values
  <2>1. CASE msg.update_objects = <<>>
    <3>1. UNCHANGED <<mUpdateList, msg>>
      BY <2>1 DEF UpdateNext
    <3>2. QED
      BY <1>1, <3>1 DEF Values, Updates
  <2>2. CASE msg.update_objects # <<>>
    <3>. DEFINE v == Head(msg.update_objects)
    <3>1. /\ AddUpdateElement(v)
          /\ msg' = [msg EXCEPT !.update_objects = Tail(@)]
      BY <2>2 DEF UpdateNext
    <3>2. msg \in MessageValue /\ msg.update_objects \in Seq(ObjectValue)
      BY DEF EditInv, Types, MessageValue
    <3>3. /\ msg.update_objects[1] = v /\ 1 \in DOMAIN msg.update_objects
          /\ \A i \in DOMAIN Tail(msg.update_objects) :
               i + 1 \in DOMAIN msg.update_objects
               /\ Tail(msg.update_objects)[i] = msg.update_objects[i + 1]
      BY <2>2, <3>2, HeadTailProperties, LenProperties
    <3>4. /\ msg'.update_objects = Tail(msg.update_objects)
          /\ msg'.add_objects = msg.add_objects
      BY <3>1, <3>2 DEF MessageValue
    <3>5. v \in Values
      BY <3>3 DEF Values
    <3>. HIDE DEF v
    <3>6. \A n \in ObjectNames : mUpdateList'[n] # None =>
            \/ mUpdateList[n] # None /\ mUpdateList'[n] = mUpdateList[n]
            \/ mUpdateList'[n] = v
      BY <3>1 DEF AddUpdateElement, EditInv, Types, Hash
    <3>7. /\ \A i \in DOMAIN msg'.update_objects : msg'.update_objects[i] \in Values
          /\ \A n \in Updates' : mUpdateList'[n] \in Values
      BY <3>3, <3>4, <3>5, <3>6 DEF Values, Updates
    <3>8. \A value \in Values' :
            \/ value \in Values
            \/ \E i \in DOMAIN msg'.update_objects : value = msg'.update_objects[i]
            \/ \E n \in Updates' : value = mUpdateList'[n]
      BY <1>1, <3>4 DEF Values
    <3>9. QED
      BY <3>7, <3>8
  <2>3. QED
    BY <2>1, <2>2
<1>3. QED
  BY <1>1, <1>2, QuietPaintInv

LEMMA ReplyPaintInv ==
    ASSUME EditInv, PaintInv, Reply
    PROVE  PaintInv'
<1>1. /\ UNCHANGED <<objects, models, pipelines, textures, phases, phaseOrder, drawn, fault,
                     mModelHash, mPipelineHash, mRenderPhase, mObjectHash, mDeleteList,
                     mUpdateList, main, risky>>
      /\ main \notin {"load", "init"} /\ msg' = NoMessage
  BY DEF Reply, sceneVars, pending, EditInv, LockInv
<1>2. Values' \subseteq Values
  BY <1>1 DEF Values, Updates, NoMessage
<1>3. QED
  BY <1>1, <1>2, QuietPaintInv

LEMMA MergeObjectsPaintInv ==
    ASSUME EditInv, PaintInv, MergeObjects
    PROVE  PaintInv'
<1>1. /\ UNCHANGED <<models, pipelines, textures, phases, phaseOrder, drawn, fault,
                     mModelHash, mPipelineHash, mRenderPhase, mDeleteList, mUpdateList,
                     msg, risky>>
      /\ main = "merge_objects" /\ main' = "merge_rest"
  BY DEF MergeObjects, serverVars
<1>2. Values' \subseteq Values
  <2>1. CASE IsEmpty(mObjectHash)
    BY <1>1, <2>1 DEF MergeObjects, Values, Updates
  <2>2. CASE ~IsEmpty(mObjectHash)
    <3>1. objects' = Merge(objects, mObjectHash) /\ mObjectHash' = NoObjects
      BY <2>2 DEF MergeObjects
    <3>2. \A n \in ObjectNames : Holds(objects', n) =>
            \/ Holds(objects, n) /\ objects'[n] = objects[n]
            \/ Holds(mObjectHash, n) /\ objects'[n] = mObjectHash[n]
      BY <3>1, MergeType DEF EditInv, Types, Holds
    <3>3. QED
      BY <1>1, <3>1, <3>2, NothingHeld DEF Values, Updates
  <2>3. QED
    BY <2>1, <2>2
<1>3. FlagsInv' /\ DrawnInv'
  BY <1>1 DEF PaintInv, FlagsInv, DrawnInv
<1>4. SceneInv'
  <2>. SUFFICES ASSUME ~risky' PROVE SceneInv'
    BY DEF SceneInv
  <2>1. /\ fault \in {None, "race"} /\ mPipelineHash = NoPipelines
        /\ mRenderPhase = NoRenderPhases
        /\ \A e \in mDeleteList : e[1] \in {"object", "model"}
        /\ ModelsLoaded /\ PipelinesReady
        /\ \A value \in Values : NamesHeld(value, {})
        /\ \A p \in ToSet(phaseOrder) : Holds(phases, p)
    BY <1>1 DEF PaintInv, SceneInv, InScene
  <2>2. (\A value \in Values : NamesHeld(value, {}))'
    BY <1>1, <1>2, <2>1 DEF NamesHeld
  <2>3. ModelsLoaded' /\ PipelinesReady' /\ LoadedInv'
    BY <1>1, <2>1 DEF ModelsLoaded, PipelinesReady, LoadedInv
  <2>4. QED
    BY <1>1, <2>1, <2>2, <2>3 DEF SceneInv
<1>5. QED
  BY <1>1, <1>3, <1>4 DEF PaintInv

LEMMA MergeRestPaintInv ==
    ASSUME EditInv, PaintInv, MergeRest
    PROVE  PaintInv'
<1>1. /\ UNCHANGED <<objects, textures, phases, phaseOrder, drawn, mObjectHash, mDeleteList,
                     mUpdateList, msg, risky>>
      /\ main = "merge_rest" /\ main' = "deletes"
      /\ models' = Merge(models, mModelHash) /\ mModelHash' = NoModels
      /\ pipelines' = Merge(pipelines, mPipelineHash) /\ mPipelineHash' = NoPipelines
      /\ mRenderPhase' = NoRenderPhases
      /\ fault' = IF MergeRenderPhaseThrows(phases, mRenderPhase) THEN "out_of_range" ELSE fault
  BY DEF MergeRest, serverVars
<1>2. /\ \A n \in ModelNames : Holds(models', n) =>
           \/ Holds(models, n) /\ models'[n] = models[n]
           \/ Holds(mModelHash, n) /\ models'[n] = mModelHash[n]
      /\ \A n \in PipelineNames : Holds(pipelines', n) =>
           \/ Holds(pipelines, n) /\ pipelines'[n] = pipelines[n]
           \/ Holds(mPipelineHash, n) /\ pipelines'[n] = mPipelineHash[n]
      /\ \A n \in PipelineNames : Holds(pipelines, n) => Holds(pipelines', n)
  BY <1>1, MergeType DEF EditInv, Types, Holds
<1>3. FlagsInv' /\ DrawnInv'
  BY <1>1, <1>2, NothingHeld DEF PaintInv, FlagsInv, DrawnInv
<1>4. SceneInv'
  <2>. SUFFICES ASSUME ~risky' PROVE SceneInv'
    BY DEF SceneInv
  <2>1. /\ fault \in {None, "race"} /\ mPipelineHash = NoPipelines
        /\ mRenderPhase = NoRenderPhases
        /\ \A e \in mDeleteList : e[1] \in {"object", "model"}
        /\ ModelsLoaded /\ PipelinesReady
        /\ \A value \in Values : NamesHeld(value, {})
        /\ \A p \in ToSet(phaseOrder) : Holds(phases, p)
    BY <1>1 DEF PaintInv, SceneInv, InScene
  <2>2. fault' = fault
    BY <1>1, <2>1, NothingHeld DEF MergeRenderPhaseThrows
  <2>3. Values' = Values
    BY <1>1 DEF Values, Updates
  <2>4. (\A value \in Values : NamesHeld(value, {}))'
    <3>1. ASSUME NEW value \in Values, NEW ph \in PhaseNames, value.phase[ph] # None
          PROVE  Holds(pipelines', value.phase[ph])
      <4>1. Holds(pipelines, value.phase[ph])
        BY <2>1, <3>1 DEF NamesHeld
      <4>2. pipelines' = pipelines
        BY <1>1, <2>1, MergeType, NothingHeld DEF Merge, EditInv, Types, Hash, Holds
      <4>3. QED
        BY <4>1, <4>2
    <3>2. QED
      BY <2>3, <3>1 DEF NamesHeld
  <2>5. ModelsLoaded'
    BY <1>1, <1>2, <2>1 DEF ModelsLoaded, PaintInv, FlagsInv
  <2>6. PipelinesReady' /\ LoadedInv'
    BY <1>1, <1>2, <2>1, NothingHeld DEF PipelinesReady, LoadedInv
  <2>7. QED
    BY <1>1, <2>1, <2>2, <2>4, <2>5, <2>6 DEF SceneInv
<1>5. QED
  BY <1>1, <1>3, <1>4 DEF PaintInv

LEMMA DeleteOnePaintInv ==
    ASSUME EditInv, PaintInv, NEW e \in Entries, DeleteOne(e)
    PROVE  PaintInv'
<1>1. /\ UNCHANGED <<textures, phaseOrder, drawn, fault, main, msg, risky, mObjectHash,
                     mModelHash, mPipelineHash, mRenderPhase, mDeleteList, mUpdateList>>
      /\ main = "delete" /\ e \in mDeleteList /\ ApplyDelete(e)
  BY DEF DeleteOne, serverVars, pending
<1>2. /\ \A n \in ObjectNames : Holds(objects', n) => Holds(objects, n) /\ objects'[n] = objects[n]
      /\ \A n \in ModelNames : Holds(models', n) => Holds(models, n) /\ models'[n] = models[n]
      /\ \A n \in PipelineNames :
           Holds(pipelines', n) => Holds(pipelines, n) /\ pipelines'[n] = pipelines[n]
  BY <1>1, EraseType DEF ApplyDelete, EditInv, Types, Holds
<1>3. FlagsInv' /\ DrawnInv'
  BY <1>1, <1>2 DEF PaintInv, FlagsInv, DrawnInv
<1>4. SceneInv'
  <2>. SUFFICES ASSUME ~risky' PROVE SceneInv'
    BY DEF SceneInv
  <2>1. /\ fault \in {None, "race"} /\ mPipelineHash = NoPipelines
        /\ mRenderPhase = NoRenderPhases
        /\ \A d \in mDeleteList : d[1] \in {"object", "model"}
        /\ ModelsLoaded /\ PipelinesReady
        /\ \A value \in Values : NamesHeld(value, {})
        /\ \A p \in ToSet(phaseOrder) : Holds(phases, p)
    BY <1>1 DEF PaintInv, SceneInv, InScene
  <2>2. pipelines' = pipelines /\ phases' = phases
    BY <1>1, <2>1 DEF ApplyDelete
  <2>3. Values' \subseteq Values
    BY <1>1, <1>2 DEF Values, Updates
  <2>4. (\A value \in Values : NamesHeld(value, {}))'
    BY <2>1, <2>2, <2>3 DEF NamesHeld
  <2>5. ModelsLoaded' /\ PipelinesReady' /\ LoadedInv'
    BY <1>1, <1>2, <2>1 DEF ModelsLoaded, PipelinesReady, LoadedInv
  <2>6. QED
    BY <1>1, <2>1, <2>2, <2>4, <2>5 DEF SceneInv
<1>5. QED
  BY <1>1, <1>3, <1>4 DEF PaintInv

LEMMA UpdateOnePaintInv ==
    ASSUME EditInv, PaintInv, NEW n \in ObjectNames, UpdateOne(n)
    PROVE  PaintInv'
<1>1. /\ UNCHANGED <<models, pipelines, textures, phases, phaseOrder, drawn, fault, main, msg,
                     risky, mObjectHash, mModelHash, mPipelineHash, mRenderPhase,
                     mDeleteList, mUpdateList>>
      /\ main = "update" /\ n \in Updates /\ ApplyUpdate(n)
  BY DEF UpdateOne, serverVars, pending
<1>2. FlagsInv' /\ DrawnInv'
  BY <1>1 DEF PaintInv, FlagsInv, DrawnInv
<1>3. SceneInv'
  <2>. SUFFICES ASSUME ~risky' PROVE SceneInv'
    BY DEF SceneInv
  <2>1. /\ fault \in {None, "race"} /\ mPipelineHash = NoPipelines
        /\ mRenderPhase = NoRenderPhases
        /\ \A d \in mDeleteList : d[1] \in {"object", "model"}
        /\ ModelsLoaded /\ PipelinesReady
        /\ \A value \in Values : NamesHeld(value, {})
        /\ \A p \in ToSet(phaseOrder) : Holds(phases, p)
    BY <1>1 DEF PaintInv, SceneInv, InScene
  <2>2. (\A value \in Values : NamesHeld(value, {}))'
    <3>1. CASE ~Holds(objects, n)
      <4>1. Values' = Values
        BY <1>1, <3>1 DEF ApplyUpdate, Values, Updates
      <4>2. QED
        BY <1>1, <2>1, <4>1 DEF NamesHeld
    <3>2. CASE Holds(objects, n)
      <4>. DEFINE new == UpdateObject(objects[n], mUpdateList[n])
      <4>1. /\ objects' = [objects EXCEPT ![n] = new]
            /\ objects \in [ObjectNames -> Object \cup {None}]
            /\ objects[n] \in Object
        BY <1>1, <3>2 DEF ApplyUpdate, EditInv, Types, Hash, Holds
      <4>2. NamesHeld(objects[n], {}) /\ NamesHeld(mUpdateList[n], {})
        BY <1>1, <2>1, <3>2 DEF Values
      <4>3. \A ph \in PhaseNames : new.phase[ph] \in {objects[n].phase[ph], mUpdateList[n].phase[ph]}
        BY <4>1 DEF UpdateObject, Object
      <4>4. NamesHeld(new, {})
        BY <4>2, <4>3 DEF NamesHeld
      <4>. HIDE DEF new
      <4>5. \A o \in ObjectNames : Holds(objects', o) =>
              objects'[o] = new \/ (Holds(objects, o) /\ objects'[o] = objects[o])
        BY <4>1 DEF Holds
      <4>6. \A value \in Values' : value \in Values \/ value = new
        BY <1>1, <4>5 DEF Values, Updates
      <4>7. \A value \in Values' : NamesHeld(value, {})
        BY <2>1, <4>4, <4>6
      <4>8. QED
        BY <1>1, <4>7 DEF NamesHeld
    <3>3. QED
      BY <3>1, <3>2
  <2>3. ModelsLoaded' /\ PipelinesReady' /\ LoadedInv'
    BY <1>1, <2>1 DEF ModelsLoaded, PipelinesReady, LoadedInv
  <2>4. QED
    BY <1>1, <2>1, <2>2, <2>3 DEF SceneInv
<1>4. QED
  BY <1>1, <1>2, <1>3 DEF PaintInv

LEMMA ClearPaintInv ==
    ASSUME PaintInv, Clear
    PROVE  PaintInv'
<1>1. /\ UNCHANGED <<objects, drawn, fault, pending, msg, risky>>
      /\ main = "clear" /\ main' = "join"
      /\ models' = NoModels /\ pipelines' = NoPipelines /\ phases' = NoRenderPhases
      /\ textures' = [t \in Textures |-> "absent"] /\ phaseOrder' = <<>>
  BY DEF Clear, ClearScene, serverVars
<1>2. FlagsInv' /\ DrawnInv'
  BY <1>1, NothingHeld DEF PaintInv, FlagsInv, DrawnInv, pending
<1>3. SceneInv'
  BY <1>1, NothingHeld DEF PaintInv, SceneInv, InScene, ModelsLoaded, PipelinesReady,
     LoadedInv, pending
<1>4. ToSet(phaseOrder') \subseteq PhaseNames
  BY <1>1 DEF ToSet
<1>5. QED
  BY <1>1, <1>2, <1>3, <1>4 DEF PaintInv

LEMMA LocalEditPaintInv ==
    ASSUME EditInv, PaintInv, NEW e \in LocalEdits, LocalEdit(e)
    PROVE  PaintInv'
<1>1. /\ UNCHANGED <<objects, models, pipelines, textures, phases, phaseOrder, drawn,
                     mObjectHash, mUpdateList, main, msg>>
      /\ main = "loop" /\ risky' = (risky \/ e.type \in {"pipeline", "phase"})
  BY DEF LocalEdit, serverVars
<1>2. /\ \A n \in ModelNames : Holds(mModelHash', n) => ~mModelHash'[n].enable
      /\ \A n \in PipelineNames : Holds(mPipelineHash', n) => ~mPipelineHash'[n].enable
      /\ e.type \notin {"pipeline", "phase"} =>
           /\ UNCHANGED <<mPipelineHash, mRenderPhase, fault>>
           /\ \A d \in mDeleteList' : d \in mDeleteList \/ d[1] \in {"object", "model"}
  <2>. USE DEF PaintInv, FlagsInv
  <2>1. CASE e.op = "add" /\ e.type = "model" /\ AddPendingModel(e.param)
             /\ UNCHANGED <<mPipelineHash, mRenderPhase, mDeleteList, fault>>
    <3>1. e.param \in ModelValue /\ e.param.name # None
      BY <2>1, EditorInputs
    <3>2. \A n \in ModelNames : Holds(mModelHash', n) => ~mModelHash'[n].enable
      BY <2>1, <3>1, CreateModelType DEF AddPendingModel, EditInv, Types, Hash, Holds
    <3>3. QED
      BY <2>1, <3>2
  <2>2. CASE e.op = "add" /\ e.type = "pipeline" /\ AddPendingPipeline(e.param)
             /\ UNCHANGED <<mModelHash, mRenderPhase, mDeleteList, fault>>
    <3>1. e.param \in PipelineValue /\ e.param.name # None
      BY <2>2, EditorInputs
    <3>2. \A n \in PipelineNames : Holds(mPipelineHash', n) => ~mPipelineHash'[n].enable
      BY <2>2, <3>1, CreatePipelineType DEF AddPendingPipeline, EditInv, Types, Hash, Holds
    <3>3. QED
      BY <2>2, <3>2
  <2>3. CASE e.op = "add" /\ e.type = "phase" /\ AddPendingPhase(e.param)
             /\ UNCHANGED <<mModelHash, mPipelineHash, mDeleteList>>
    BY <2>3
  <2>4. CASE e.op = "delete" /\ lock = None /\ AddDeleteElement(e.type, e.name)
             /\ UNCHANGED <<mModelHash, mPipelineHash, mRenderPhase, fault>>
    <3>1. <<e.type, e.name>> \in Entries
      BY <2>4, EditorInputs
    <3>2. e.type \in {"object", "model", "pipeline", "phase"}
      BY <3>1 DEF Entries
    <3>3. mDeleteList' = mDeleteList \cup {<<e.type, e.name>>}
      BY <2>4 DEF AddDeleteElement
    <3>4. QED
      BY <2>4, <3>2, <3>3
  <2>5. QED
    BY <2>1, <2>2, <2>3, <2>4 DEF LocalEdit
<1>3. FlagsInv' /\ DrawnInv'
  BY <1>1, <1>2 DEF PaintInv, FlagsInv, DrawnInv, DrawnIsComplete
<1>4. SceneInv'
  <2>. SUFFICES ASSUME ~risky' PROVE SceneInv'
    BY DEF SceneInv
  <2>1. ~risky /\ e.type \notin {"pipeline", "phase"}
    BY <1>1
  <2>2. /\ fault \in {None, "race"} /\ mPipelineHash = NoPipelines
        /\ mRenderPhase = NoRenderPhases
        /\ \A d \in mDeleteList : d[1] \in {"object", "model"}
        /\ ModelsLoaded /\ PipelinesReady
        /\ \A value \in Values : NamesHeld(value, {})
        /\ \A p \in ToSet(phaseOrder) : Holds(phases, p)
    BY <1>1, <2>1 DEF PaintInv, SceneInv, InScene
  <2>3. Values' = Values
    BY <1>1 DEF Values, Updates
  <2>4. (\A value \in Values : NamesHeld(value, {}))'
    BY <1>1, <2>2, <2>3 DEF NamesHeld
  <2>5. ModelsLoaded' /\ PipelinesReady' /\ LoadedInv'
    BY <1>1, <2>2 DEF ModelsLoaded, PipelinesReady, LoadedInv
  <2>6. QED
    BY <1>1, <1>2, <2>1, <2>2, <2>4, <2>5 DEF SceneInv
<1>5. QED
  BY <1>1, <1>3, <1>4 DEF PaintInv

(* A paint of a scene nobody has asked something unchecked of throws       *)
(* nothing.                                                                *)
LEMMA PaintFaultIsNone ==
    ASSUME EditInv, PaintInv, ~risky, main = "paint"
    PROVE  PaintFault = None
<1>1. /\ ModelsLoaded /\ PipelinesReady
      /\ \A value \in Values : NamesHeld(value, {})
      /\ \A p \in ToSet(phaseOrder) : Holds(phases, p)
      /\ ToSet(phaseOrder) \subseteq PhaseNames
  BY DEF PaintInv, SceneInv, InScene
<1>2. ASSUME NEW v \in Visited
      PROVE  /\ v[1] \in PhaseNames /\ v[2] \in ObjectNames
             /\ Holds(objects, v[2]) /\ objects[v[2]] \in Object
             /\ Holds(pipelines, objects[v[2]].phase[v[1]])
  <2>1. v[1] \in PhaseNames /\ v[2] \in ObjectNames /\ IsVisited(v[1], v[2])
    BY <1>1 DEF Visited
  <2>2. Holds(objects, v[2]) /\ objects[v[2]].phase[v[1]] # None
    BY <2>1 DEF IsVisited
  <2>3. objects[v[2]] \in Values
    BY <2>1, <2>2 DEF Values
  <2>4. Holds(pipelines, objects[v[2]].phase[v[1]])
    BY <1>1, <2>1, <2>2, <2>3 DEF NamesHeld
  <2>5. objects[v[2]] \in Object
    BY <2>1, <2>2 DEF EditInv, Types, Hash, Holds
  <2>6. QED
    BY <2>1, <2>2, <2>4, <2>5
<1>3. ASSUME NEW v \in Visited, Drawable(v[1], v[2])
      PROVE  /\ ModelOrNew(objects[v[2]].model).tex # None
             /\ textures[ModelOrNew(objects[v[2]].model).tex] = "loaded"
  <2>1. ModelOrNew(objects[v[2]].model).enable
    BY <1>3 DEF Drawable
  <2>2. /\ objects[v[2]].model # None /\ Holds(models, objects[v[2]].model)
        /\ ModelOrNew(objects[v[2]].model) = models[objects[v[2]].model]
    BY <2>1 DEF ModelOrNew, NewModel
  <2>3. objects[v[2]].model \in ModelNames
    BY <1>2, <2>2 DEF Object
  <2>4. QED
    BY <1>1, <2>1, <2>2, <2>3 DEF ModelsLoaded
<1>4. ~ \E n \in PipelineNames : Holds(pipelines, n) /\ ~pipelines[n].created
  BY <1>1 DEF PipelinesReady
<1>5. ~ \E p \in ToSet(phaseOrder) : ~Holds(phases, p)
  BY <1>1
<1>6. ~ \E v \in Visited : ~Holds(pipelines, objects[v[2]].phase[v[1]])
  BY <1>2
<1>. DEFINE draws == {v \in Visited : Drawable(v[1], v[2])}
            texOf(v) == ModelOrNew(objects[v[2]].model).tex
            textured == {v \in draws : pipelines[objects[v[2]].phase[v[1]]].textured}
<1>7. /\ ~ \E v \in textured : texOf(v) = None \/ textures[texOf(v)] = "absent"
      /\ ~ \E v \in textured : textures[texOf(v)] = "empty"
  BY <1>3
<1>8. ~ \E v \in draws : pipelines[objects[v[2]].phase[v[1]]].zpass
  <2>1. ASSUME NEW v \in Visited PROVE ~pipelines[objects[v[2]].phase[v[1]]].zpass
    <3>1. objects[v[2]].phase[v[1]] \in PipelineNames
      BY <1>2 DEF Object, Visited, IsVisited
    <3>2. QED
      BY <1>1, <1>2, <3>1 DEF PipelinesReady
  <2>2. QED
    BY <2>1
<1>9. QED
  BY <1>4, <1>5, <1>6, <1>7, <1>8 DEF PaintFault

LEMMA PaintScenePaintInv ==
    ASSUME EditInv, PaintInv, PaintScene
    PROVE  PaintInv'
<1>1. /\ UNCHANGED <<objects, pipelines, textures, phases, phaseOrder, pending, msg, risky>>
      /\ main = "paint" /\ main' = "loop" /\ fault' = PaintFault
      /\ drawn' = IF PaintFault # None THEN {}
                  ELSE {<<v[2], objects[v[2]].model, objects[v[2]].phase[v[1]]>> :
                          v \in {w \in Visited : Drawable(w[1], w[2])}}
      /\ models' = [n \in ModelNames |->
                      IF \E v \in Visited : objects[v[2]].model = n
                      THEN ModelOrNew(n) ELSE models[n]]
  BY DEF PaintScene, Paint, serverVars
<1>2. ASSUME NEW n \in ModelNames
      PROVE  /\ models'[n] = models[n] \/ models'[n] = NewModel
             /\ Holds(models, n) => models'[n] = models[n]
             /\ Holds(models', n) => \/ Holds(models, n) /\ models'[n] = models[n]
                                     \/ models'[n] = NewModel
  BY <1>1, SceneNames DEF ModelOrNew, Holds
<1>3. ~NewModel.enable
  BY DEF NewModel
<1>4. FlagsInv'
  BY <1>1, <1>2, <1>3 DEF PaintInv, FlagsInv, pending
<1>5. DrawnInv'
  <2>1. ASSUME NEW v \in Visited, Drawable(v[1], v[2]), PaintFault = None
        PROVE  /\ Holds(models', objects[v[2]].model)
               /\ models'[objects[v[2]].model].created
               /\ Holds(pipelines, objects[v[2]].phase[v[1]])
               /\ pipelines[objects[v[2]].phase[v[1]]].created
               /\ pipelines[objects[v[2]].phase[v[1]]].textured =>
                    textures[models'[objects[v[2]].model].tex] = "loaded"
    <3>. DEFINE m == objects[v[2]].model
                p == objects[v[2]].phase[v[1]]
    <3>1. v[1] \in PhaseNames /\ v[2] \in ObjectNames /\ IsVisited(v[1], v[2])
      BY DEF Visited, PaintInv
    <3>2. objects[v[2]] \in Object /\ p # None
      BY <3>1 DEF IsVisited, EditInv, Types, Hash, Holds
    <3>3. p \in PipelineNames /\ m \in ModelNames \cup {None}
      BY <3>1, <3>2 DEF Object
    <3>4. Holds(pipelines, p) /\ pipelines[p].enable /\ ModelOrNew(m).enable
      BY <2>1 DEF Drawable
    <3>5. m \in ModelNames /\ Holds(models, m) /\ ModelOrNew(m) = models[m]
      BY <3>3, <3>4 DEF ModelOrNew, NewModel
    <3>6. models[m].created /\ pipelines[p].created
      BY <3>3, <3>4, <3>5 DEF PaintInv, FlagsInv
    <3>7. models'[m] = models[m] /\ Holds(models', m)
      BY <1>2, <3>5 DEF Holds
    <3>8. ASSUME pipelines[p].textured
          PROVE  textures[models[m].tex] = "loaded"
      <4>. DEFINE draws == {w \in Visited : Drawable(w[1], w[2])}
                  texOf(w) == ModelOrNew(objects[w[2]].model).tex
                  textured == {w \in draws : pipelines[objects[w[2]].phase[w[1]]].textured}
      <4>1. v \in textured /\ texOf(v) = models[m].tex
        BY <2>1, <3>5, <3>8
      <4>2. /\ ~ \E w \in textured : texOf(w) = None \/ textures[texOf(w)] = "absent"
            /\ ~ \E w \in textured : textures[texOf(w)] = "empty"
        BY <2>1, NoneAssumption DEF PaintFault, Faults
      <4>. HIDE DEF draws, texOf, textured
      <4>3. /\ models[m].tex # None /\ textures[models[m].tex] # "absent"
            /\ textures[models[m].tex] # "empty"
        BY <4>1, <4>2
      <4>4. models[m].tex \in Textures
        BY <3>5, <4>3 DEF EditInv, Types, Hash, Holds, Model
      <4>5. QED
        BY <4>3, <4>4 DEF EditInv, Types
    <3>9. QED
      BY <3>4, <3>6, <3>7, <3>8
  <2>2. CASE PaintFault # None
    BY <1>1, <2>2 DEF DrawnInv, DrawnIsComplete
  <2>3. CASE PaintFault = None
    <3>1. DrawnIsComplete'
      BY <1>1, <2>1, <2>3 DEF DrawnIsComplete
    <3>2. QED
      BY <1>1, <3>1 DEF DrawnInv
  <2>4. QED
    BY <2>2, <2>3
<1>6. SceneInv'
  <2>. SUFFICES ASSUME ~risky' PROVE SceneInv'
    BY DEF SceneInv
  <2>1. ~risky
    BY <1>1
  <2>2. /\ mPipelineHash = NoPipelines /\ mRenderPhase = NoRenderPhases
        /\ \A d \in mDeleteList : d[1] \in {"object", "model"}
        /\ ModelsLoaded /\ PipelinesReady
        /\ \A value \in Values : NamesHeld(value, {})
        /\ \A p \in ToSet(phaseOrder) : Holds(phases, p)
    BY <1>1, <2>1 DEF PaintInv, SceneInv, InScene
  <2>3. fault' = None
    BY <1>1, <2>1, PaintFaultIsNone
  <2>4. Values' = Values
    BY <1>1 DEF Values, Updates, pending
  <2>5. (\A value \in Values : NamesHeld(value, {}))'
    BY <1>1, <2>2, <2>4 DEF NamesHeld
  <2>6. ModelsLoaded'
    BY <1>1, <1>2, <1>3, <2>2 DEF ModelsLoaded
  <2>7. PipelinesReady' /\ LoadedInv'
    BY <1>1, <2>2 DEF PipelinesReady, LoadedInv
  <2>8. QED
    BY <1>1, <2>2, <2>3, <2>5, <2>6, <2>7 DEF SceneInv, pending
<1>7. QED
  BY <1>1, <1>4, <1>5, <1>6 DEF PaintInv

LEMMA NextPaintInv == EditInv /\ PaintInv /\ [Next]_vars => PaintInv'
<1>. SUFFICES ASSUME EditInv, PaintInv, [Next]_vars PROVE PaintInv'
  OBVIOUS
<1>1. CASE UNCHANGED vars
  <2>1. /\ UNCHANGED <<objects, models, pipelines, textures, phases, phaseOrder, drawn, fault,
                       mModelHash, mPipelineHash, mRenderPhase, mObjectHash, msg, risky>>
        /\ UNCHANGED <<mDeleteList, mUpdateList, main>>
    BY <1>1 DEF vars, sceneVars, pending, serverVars
  <2>2. Values' = Values
    BY <2>1 DEF Values, Updates
  <2>3. QED
    BY <2>1, <2>2, QuietPaintInv
<1>2. CASE MainStep
  BY <1>2, LoadScenePaintInv, CreateEditorPaintInv, MergeObjectsPaintInv, MergeRestPaintInv,
     DeliverPaintInv, DeleteOnePaintInv, UpdateOnePaintInv, PaintScenePaintInv, ClearPaintInv
     DEF MainStep
<1>3. CASE ServerStep
  BY <1>3, ServerPaintInv, AddOnePaintInv, DeleteNextPaintInv, UpdateNextPaintInv,
     ReplyPaintInv DEF ServerStep
<1>4. QED
  BY <1>1, <1>2, <1>3, ServerPaintInv, ReceivePaintInv, LocalEditPaintInv, DeliverPaintInv,
     RacePaintInv DEF Next

(***************************************************************************)
(* A paint draws only what has its resources, and unless something is      *)
(* asked for that the code does not check, no order of messages, local     *)
(* calls and paints ends the program but a race.                           *)
(***************************************************************************)
THEOREM PaintsAreSound == Spec => []PaintIsSound
<1>1. Init => PaintInv
  BY InitPaintInv
<1>2. EditInv /\ PaintInv /\ [Next]_vars => PaintInv'
  BY NextPaintInv
<1>3. PaintInv => PaintIsSound
  BY DEF PaintInv, DrawnInv, DrawnIsComplete, SceneInv, PaintIsSound
<1>4. QED
  BY <1>1, <1>2, <1>3, EditorInvariant, PTL DEF Spec
=============================================================================
