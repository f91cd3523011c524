----------------------------- MODULE Pipelines -----------------------------
(***************************************************************************)
(* The life of a pipeline in a scene: it is created                        *)
(* (PipelineSet::create, Pipeline::create, DX12RootSignature and           *)
(* DX12PipelineState), and in every paint its parameters are set by name,  *)
(* it is cloned for the next object, bound, and a mesh is drawn with it    *)
(* (PipelineSet with PipelineResourceBinder).                              *)
(*                                                                         *)
(* RootSignatureInfo has the tables that lead from a name to a descriptor, *)
(* MeshPipeline the pipelines, and Primitives the meshes.  Where the       *)
(* descriptors lie and how long they live is in PipelineSet: here a table  *)
(* is of the frame in which it was allocated, and an entry holds the name  *)
(* under which it was set.                                                 *)
(*                                                                         *)
(* Exceptions end the program (src/dx12Test/main.cpp:27), and those in     *)
(* PipelineSet::findBindingInfo, which is noexcept, at once.               *)
(***************************************************************************)
EXTENDS MeshPipeline, Primitives, FiniteSets

CONSTANTS
    Draws,     \* what the scenes draw: see module SceneDraws
    MaxPaints  \* bound of the paints of a scene

(* A call of an update method: the descriptor's type, the name, and        *)
(* whether the scene asks isExistBindingInfo before.                       *)
UpdateCall == [type: STRING, name: STRING, asks: BOOLEAN]

ASSUME PipelinesAssumption ==
    /\ MaxPaints \in Nat
    /\ \A d \in Draws : /\ d.objects \in Nat \ {0} /\ d.clones \in BOOLEAN
                        /\ d.shared \in Seq(UpdateCall) /\ d.own \in Seq(UpdateCall)
                        /\ d.fits \in BOOLEAN
                        /\ d.ends \in {"none", "unknown name", "unset"}

VARIABLES
    at,              \* where the scene is
    use,             \* what it draws
    mBindingHash,    \* RootSignatureInfo: from registers to places
    mBindLocations,  \* ShaderResourceInfo: from names to registers
    stage,           \* the stage whose shader is appended next
    elements,        \* PipelineResourceBinder::mpRootElements
    mReplaceIndices, \* what clone({}) replaces
    object,          \* the object that is drawn
    step,            \* which of the updates is called next
    frame,           \* the number of the paint
    drawn,           \* the tables of draws of this paint that are still the binder's
    fault            \* why the program ended, if it was not the device

createVars == <<mBindingHash, mBindLocations, stage, mReplaceIndices>>
paintVars  == <<object, step, frame, drawn>>
pipelineVars == <<at, use, createVars, elements, paintVars, fault>>

Info          == PipelineInfo(use.name)
RootSignature == Info.rootSignature
NotYet        == 0
NewElement    == [frame |-> NotYet, names |-> << >>]

IsGraphics    == Info.type = "GRAPHICS"
StageOrder    == <<"VS", "HS", "DS", "GS", "PS", "CS">>

InitPipeline ==
    /\ at = "start"
    /\ use \in Draws
    /\ mBindingHash = << >>
    /\ mBindLocations = << >>
    /\ stage = 1
    /\ elements = << >>
    /\ mReplaceIndices = {}
    /\ object = 0
    /\ step = 0
    /\ frame = 0
    /\ drawn = {}
    /\ fault = "none"
-----------------------------------------------------------------------------
(* D3D12 takes a root signature whose tables do not mix samplers with      *)
(* other descriptors, and a pipeline state whose stages find each of their *)
(* registers at one place, whose vertex shader gets its inputs, and which  *)
(* has no format beyond its targets.                                       *)
RootSignatureAccepted ==
    \A i \in DOMAIN RootSignature.params :
      LET ranges == RootSignature.params[i].ranges
      IN  (\E j \in DOMAIN ranges : ranges[j].type = "eSAMPLER")
            => \A j \in DOMAIN ranges : ranges[j].type = "eSAMPLER"

StagesFindRegisters ==
    \A s \in DOMAIN Info.stages : \A name \in DOMAIN Info.stages[s] :
      Cardinality(Places(RootSignature, s, Info.stages[s][name])) = 1

InputsAccepted ==
    /\ Info.reads \subseteq {Info.layout[i] : i \in DOMAIN Info.layout}
    /\ Info.layout # << >> => RootSignature.allowLayout

FormatsAccepted ==
    \A i \in (Info.desc.NumRenderTargets + 1)..TargetCount : Info.desc.RTVFormats[i] = "UNKNOWN"

PipelineStateAccepted ==
    /\ StagesFindRegisters
    /\ IsGraphics => InputsAccepted /\ FormatsAccepted

Ends(reason) ==
    /\ at' = "terminated"
    /\ fault' = reason
    /\ UNCHANGED <<use, createVars, elements, paintVars>>

(* The assertions of the creators that say they are not implemented: only  *)
(* a build with NDEBUG goes on.                                            *)
AssertFails ==
    /\ at = "start"
    /\ ~Info.isImplemented
    /\ Ends("none")

(* CreateRootSignature, the deserializer or CreateXXXPipelineState fail,   *)
(* or a creator's shader cannot be loaded: an exception.                   *)
DeviceFails ==
    /\ at \in {"start", "analysed"}
    /\ Ends("none")

(* Pipeline::create: the root signature, if D3D12 takes it, which is then  *)
(* analysed, ...                                                           *)
CreateRootSignature ==
    /\ at = "start"
    /\ IF RootSignatureAccepted
       THEN /\ mBindingHash' = BindingHash(RootSignature.params)
            /\ at' = "analysed"
            /\ UNCHANGED <<use, mBindLocations, stage, elements, mReplaceIndices,
                           paintVars, fault>>
       ELSE Ends("refused")

(* ... the pipeline state, ...                                             *)
CreatePipelineState ==
    /\ at = "analysed"
    /\ IF PipelineStateAccepted
       THEN /\ at' = "append"
            /\ UNCHANGED <<use, createVars, elements, paintVars, fault>>
       ELSE Ends("refused")

(* ... and the resources of the shaders, stage by stage.                   *)
AppendShader ==
    /\ at = "append"
    /\ stage <= Len(StageOrder)
    /\ mBindLocations' = IF StageOrder[stage] \in DOMAIN Info.stages
                         THEN Appended(mBindLocations, Info.stages[StageOrder[stage]])
                         ELSE mBindLocations
    /\ stage' = stage + 1
    /\ UNCHANGED <<at, use, mBindingHash, elements, mReplaceIndices, paintVars, fault>>

(* PipelineResourceBinder::create and setAutoReplaceIndex.                 *)
CreateBinder ==
    /\ at = "append"
    /\ stage > Len(StageOrder)
    /\ elements' = [i \in DOMAIN RootSignature.params |-> NewElement]
    /\ mReplaceIndices' = Info.autoReplace
    /\ at' = "idle"
    /\ UNCHANGED <<use, mBindingHash, mBindLocations, stage, paintVars, fault>>
-----------------------------------------------------------------------------
(* A scene's paint: it sets what all objects share, and then for each of   *)
(* them clones, if it does, sets the object's own, binds and draws.        *)
BeginPaint ==
    /\ at = "idle"
    /\ frame < MaxPaints
    /\ at' = "shared"
    /\ object' = 1
    /\ step' = 1
    /\ frame' = frame + 1
    /\ drawn' = {}
    /\ UNCHANGED <<use, createVars, elements, fault>>

Calls        == IF at = "shared" THEN use.shared ELSE use.own
IsUpdating   == at \in {"shared", "own"} /\ step <= Len(Calls)
BeginsObject == IF use.clones THEN "clone" ELSE "own"

EndShared ==
    /\ at = "shared"
    /\ step > Len(use.shared)
    /\ at' = BeginsObject
    /\ step' = 1
    /\ UNCHANGED <<use, createVars, elements, object, frame, drawn, fault>>

(* findShaderInputAndBindingInfo: from the name to the register, which     *)
(* must be of the type the caller updates, and from there to the place.    *)
KeyOf(update) ==
    LET input == mBindLocations[update.name] IN Key(update.type, input.slot, input.space)

IsExistBindingInfo(update) ==
    /\ isExistName(mBindLocations, update.name)
    /\ isExistKey(mBindingHash, KeyOf(update))

Updated(element, entry, name) ==
    LET names == IF element.frame = frame THEN element.names ELSE << >>
    IN  [frame |-> frame,
         names |-> [e \in DOMAIN names \cup {entry} |-> IF e = entry THEN name ELSE names[e]]]

(* updateCBV, updateSRV, updateUAV and updateSampler of the binder: a      *)
(* table of an earlier frame is allocated anew.  A name that leads nowhere *)
(* is an exception in findBindingInfo, ...                                 *)
Update ==
    /\ IsUpdating
    /\ Calls[step].asks => IsExistBindingInfo(Calls[step])
    /\ IF IsExistBindingInfo(Calls[step])
       THEN LET info == findBindingInfo(mBindingHash, KeyOf(Calls[step]))
            IN  /\ elements' = [elements EXCEPT ![info.rootIndex + 1] =
                                  Updated(@, info.tableIndex, Calls[step].name)]
                /\ step' = step + 1
                /\ UNCHANGED <<at, use, createVars, object, frame, drawn, fault>>
       ELSE Ends("unknown name")

(* ... unless the scene asks isExistBindingInfo before.                    *)
SkipUpdate ==
    /\ IsUpdating
    /\ Calls[step].asks
    /\ ~IsExistBindingInfo(Calls[step])
    /\ step' = step + 1
    /\ UNCHANGED <<at, use, createVars, elements, object, frame, drawn, fault>>

(* clone({}): replaceAuto.  vector::at throws when there is no such        *)
(* parameter.                                                              *)
CloneForObject ==
    /\ at = "clone"
    /\ IF \A i \in mReplaceIndices : i + 1 \in DOMAIN elements
       THEN /\ elements' = [i \in DOMAIN elements |->
                              IF i - 1 \in mReplaceIndices THEN NewElement ELSE elements[i]]
            /\ drawn' = drawn \ mReplaceIndices
            /\ at' = "own"
            /\ UNCHANGED <<use, createVars, object, step, frame, fault>>
       ELSE Ends("no such parameter")

(* validate: nothing is left unset.                                        *)
IsComplete ==
    \A i \in DOMAIN elements :
      DOMAIN elements[i].names = 0..(calDescriptorCount(RootSignature.params[i]) - 1)

TableIndices ==
    {i - 1 : i \in {k \in DOMAIN elements : RootSignature.params[k].kind = "DESCRIPTOR_TABLE"}}

(* bind, or its RunTimeErrorException.                                     *)
BindForDraw ==
    /\ at = "own"
    /\ step > Len(use.own)
    /\ IF IsComplete
       THEN /\ drawn' = drawn \cup TableIndices
            /\ at' = "draw"
            /\ UNCHANGED <<use, createVars, elements, object, step, frame, fault>>
       ELSE Ends("unset")

(* Mesh::bind and draw, DrawInstanced of points, or Dispatch; and the next *)
(* object, or the paint returns.                                           *)
Draw ==
    /\ at = "draw"
    /\ IF object < use.objects
       THEN object' = object + 1 /\ step' = 1 /\ at' = BeginsObject
       ELSE UNCHANGED <<object, step>> /\ at' = "idle"
    /\ UNCHANGED <<use, createVars, elements, frame, drawn, fault>>

(* The scene is closed between two paints: PipelineSet::clear, which       *)
(* clears the pipeline with its tables, and the binder.                    *)
ClearPipeline ==
    /\ at = "idle"
    /\ mBindingHash' = << >>
    /\ mBindLocations' = << >>
    /\ elements' = << >>
    /\ mReplaceIndices' = {}
    /\ at' = "terminated"
    /\ UNCHANGED <<use, stage, paintVars, fault>>

NextCall ==
    \/ AssertFails \/ DeviceFails
    \/ CreateRootSignature \/ CreatePipelineState \/ AppendShader \/ CreateBinder
    \/ BeginPaint \/ EndShared \/ Update \/ SkipUpdate
    \/ CloneForObject \/ BindForDraw \/ Draw
    \/ ClearPipeline

PipelineSpec == InitPipeline /\ [][NextCall]_pipelineVars
-----------------------------------------------------------------------------
(* Whatever a scene declares and sets, D3D12 accepts, and no name, index   *)
(* or unset descriptor ends the program (DX12PipelineState.cpp:307,        *)
(* PipelineSet.cpp:93 and 158, PipelineResourceBinder.cpp:78).  The        *)
(* declarations are HLSL and C++, so no compiler compares them.  Two draws *)
(* do end the program, and no other and in no other way: the reference of  *)
(* MipmapScene (MipmapScene.cpp:143-178), and an object of the editor with *)
(* a pipeline of type zpass (SceneEditorScene.cpp:117-125).                *)
NothingRefused == fault \in {"none", use.ends}

(* What a shader finds at its registers when a mesh is drawn is what the   *)
(* scene set under the register's name, and in this paint: the binding     *)
(* tables that RootSignatureInfo::analysis counts by hand                  *)
(* (RootSignatureInfo.cpp:171) agree with D3D12's layout of the root       *)
(* signature.                                                              *)
ShadersReadTheirNames ==
    at = "draw" =>
      \A s \in DOMAIN Info.stages : \A name \in DOMAIN Info.stages[s] :
        \A place \in Places(RootSignature, s, Info.stages[s][name]) :
          LET element == elements[place[1] + 1]
          IN  element.frame = frame /\ element.names[place[2]] = name

(* No update writes into a table of which a draw of this paint has been    *)
(* recorded: the GPU reads it later, and would draw the object with the    *)
(* next one's descriptors.  The replace indices that the creators write    *)
(* out (MeshPipeline.cpp:222-489) must name the tables that the scenes set *)
(* per object.                                                             *)
DrawnTablesStay ==
    (IsUpdating /\ IsExistBindingInfo(Calls[step])) =>
      findBindingInfo(mBindingHash, KeyOf(Calls[step])).rootIndex \notin drawn

(* The triangles a scene draws: each corner in the buffers, each front     *)
(* turned to the light and, on a closed mesh, outwards, with its texture   *)
(* not mirrored.                                                           *)
HalfEdges(mesh, view) ==
    {<<Triangle(mesh, n)[k].COLOR, Triangle(mesh, n)[(k % 3) + 1].COLOR>> :
       n \in 0..(TriangleCount(view) - 1), k \in 1..3}

IsMeshOf(shape, vertex) ==
    LET mesh == IF shape = "Plane" THEN PlaneMesh("XZ") ELSE TetrahedronMesh(vertex)
        view == MeshView(vertex, mesh)
        edges == HalfEdges(mesh, view)
        has(field) == field \in {VertexFields[vertex][i] : i \in DOMAIN VertexFields[vertex]}
        uv(t, k) == <<t[k].TEXCOORD[1] - t[1].TEXCOORD[1], t[k].TEXCOORD[2] - t[1].TEXCOORD[2]>>
    IN  /\ InBounds(mesh, view)
        /\ Cardinality(edges) = 3 * TriangleCount(view)
        /\ shape = "Tetrahedron" => edges = {<<e[2], e[1]>> : e \in edges}
        /\ \A n \in 0..(TriangleCount(view) - 1) :
             LET t == Triangle(mesh, n)
             IN  /\ shape = "Tetrahedron" => Dot(FrontSide(t), t[1].POSITION) > 0
                 /\ has("NORMAL") => \A k \in 1..3 : Dot(FrontSide(t), t[k].NORMAL) > 0
                 /\ has("TEXCOORD") => uv(t, 2)[1] * uv(t, 3)[2] > uv(t, 2)[2] * uv(t, 3)[1]

(* What is drawn is what the mesh, the pipeline and the targets each take  *)
(* it for: the input layout finds every field of the vertex struct at its  *)
(* offset (MeshVertexFormat.h, MeshPipeline.cpp), the formats are those of *)
(* the bound targets and depth (GBufferManager.cpp:14, the frame's         *)
(* buffers), one for each that the pixel shader writes, points are drawn   *)
(* as points, and the triangles are those of IsMeshOf (Plane.cpp,          *)
(* Tetrahedron.cpp).  In the editor that is so only when the file gives an *)
(* object a forward pipeline of its model's vertex: the program does not   *)
(* compare them (SceneEditorScene.cpp:110-138).                            *)
DrawnAsMeant ==
    (at = "draw" /\ IsGraphics /\ use.fits) =>
      /\ SubSeq(Info.desc.RTVFormats, 1, Info.desc.NumRenderTargets) = use.targets
      /\ Info.writes = Len(use.targets)
      /\ Info.desc.DepthStencilState.DepthEnable => Info.desc.DSVFormat = use.depth
      /\ (Info.desc.topology = "POINT") <=> (use.meshes = {})
      /\ use.meshes = {} => Info.layout = << >>
      /\ \A shape \in use.meshes :
           /\ \A i \in DOMAIN Info.layout : \A k \in DOMAIN VertexFields[use.vertex] :
                Info.layout[i] = VertexFields[use.vertex][k]
                  => OffsetOf(Info.layout, i) = OffsetOf(VertexFields[use.vertex], k)
           /\ IsMeshOf(shape, use.vertex)
-----------------------------------------------------------------------------
(* What can be compared without a paint: the register of a name, the       *)
(* binding it leads to, and what a scene sets.                             *)
Params         == RootSignature.params
Bindings       == BindingHash(Params)
Names          == UNION {DOMAIN Info.stages[s] : s \in DOMAIN Info.stages}
Register(name) == Info.stages[CHOOSE s \in DOMAIN Info.stages : name \in DOMAIN Info.stages[s]][name]
KeyFor(update) == Key(update.type, Register(update.name).slot, Register(update.name).space)
Leads(update)  == update.name \in Names /\ KeyFor(update) \in DOMAIN Bindings
Place(update)  == LET info == Bindings[KeyFor(update)] IN <<info.rootIndex, info.tableIndex>>

Shared         == {use.shared[i] : i \in DOMAIN use.shared}
Own            == {use.own[i] : i \in DOMAIN use.own}
IsReplaced(i)  == use.clones /\ i \in Info.autoReplace
CellsOf(i)     == 0..(calDescriptorCount(Params[i]) - 1)
IsCell(place)  == \E i \in DOMAIN Params : \E cell \in CellsOf(i) : place = <<i - 1, cell>>

(* D3D12 takes the declarations, the stages agree on their common names,   *)
(* and the replace indices are indices.                                    *)
WellFormed ==
    /\ RootSignatureAccepted
    /\ PipelineStateAccepted
    /\ DOMAIN Params = 1..Len(Params)
    /\ DOMAIN Info.stages \subseteq {StageOrder[i] : i \in DOMAIN StageOrder}
    /\ \A s, t \in DOMAIN Info.stages : \A name \in DOMAIN Info.stages[s] \cap DOMAIN Info.stages[t] :
         Info.stages[s][name] = Info.stages[t][name]
    /\ \A i \in Info.autoReplace : i + 1 \in DOMAIN Params

(* A name that is set leads to a cell of the root signature, unless the    *)
(* scene asks before; every cell is set, and by the object where a clone   *)
(* empties it; and where a stage looks for a name only that name is set.   *)
SetsComplete ==
    /\ \A u \in Shared \cup Own : /\ u.asks \/ Leads(u)
                                  /\ Leads(u) => IsCell(Place(u))
    /\ \A i \in DOMAIN Params : \A cell \in CellsOf(i) :
         \E u \in IF IsReplaced(i - 1) THEN Own ELSE Shared \cup Own :
           Leads(u) /\ Place(u) = <<i - 1, cell>>
    /\ \A s \in DOMAIN Info.stages : \A name \in DOMAIN Info.stages[s] :
         \A place \in Places(RootSignature, s, Info.stages[s][name]) :
           /\ IsCell(place)
           /\ \A u \in Shared \cup Own : Leads(u) /\ Place(u) = place => u.name = name

(* What an object sets for itself, when there are several, is in the root  *)
(* signature or in a table that its clone has for itself.                  *)
OwnTablesReplaced ==
    use.objects > 1 =>
      \A u \in Own : Leads(u) =>
        IsReplaced(Place(u)[1]) \/ Params[Place(u)[1] + 1].kind # "DESCRIPTOR_TABLE"

(* The declarations of a draw, in HLSL and in C++, and what the scene sets *)
(* agree: tables that RootSignatureInfo::analysis fills, the shaders'      *)
(* registers and the calls of a paint function (MeshPipeline.cpp,          *)
(* DefferedLightingManager.cpp, SSAOManager.cpp, the scenes).  It is all a *)
(* paint needs, however many objects and paints there are.                 *)
WellDeclared == WellFormed /\ SetsComplete /\ OwnTablesReplaced

(* Comparing the declarations of a draw tells how its paints go, both      *)
(* ways: what ends the program is declared or set wrong, and what gets as  *)
(* far as a draw call is WellDeclared, which the theorems about Pipelines  *)
(* suppose, and is none of the two that NothingRefused names               *)
(* (MeshPipeline.cpp:222-489 with the paint functions of the scenes).      *)
AgreementDecides ==
    /\ at = "draw" \/ fault # "none" => (WellDeclared <=> fault = "none")
    /\ at = "draw" => use.ends = "none"
=============================================================================
