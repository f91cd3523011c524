---------------------------- MODULE RenderPasses ----------------------------
(***************************************************************************)
(* The passes of a frame and the states of the resources they share:       *)
(* DX12Resource::makeBarrier and DX12GraphicsCommandList::setBarriers, the *)
(* managers of DemoScene (shadow map, G-buffer, deferred lighting, SSAO,   *)
(* volumetric light), and the forward scenes, which draw to the back       *)
(* buffer only.                                                            *)
(*                                                                         *)
(* A resource must be in the state that a command needs when the GPU gets  *)
(* to it.  The CPU keeps for each resource the state it will be in behind  *)
(* all that is recorded so far, and makes the barriers from it.            *)
(*                                                                         *)
(* Buffers have states too, but the API lets them fall back to COMMON at   *)
(* the end of each list; textures that are only uploaded and read are left *)
(* out.                                                                    *)
(*                                                                         *)
(* Every resource is made from its manager's description, and a pass uses  *)
(* it through the view that the manager has appended for that use.         *)
(***************************************************************************)
EXTENDS DX12Resource, SequencesExt

CONSTANTS
    ScreenWidth, ScreenHeight,
    BufferCount,  \* number of back buffers, and of frames in flight
    Styles,       \* the scenes: "deferred" (DemoScene), "forward"
    MaxSwaps,     \* bound of executeAndSwap in one paint
    MaxFrame      \* bound of the frames

ASSUME RenderPassesAssumption ==
    /\ ScreenWidth \in 1..16384 /\ ScreenHeight \in 1..16384
    /\ BufferCount \in 1..3
    /\ Styles \subseteq {"deferred", "forward"}
    /\ MaxSwaps \in Nat /\ MaxFrame \in Nat

VARIABLES
    tracked,    \* mCurrentStates of each resource
    list,       \* the commands of the list that is open
    queue,      \* the commands and the ends of the lists that are executed, not yet run
    gpuState,   \* the state of each resource where the GPU is
    written,    \* the frame in which the GPU wrote each resource last
    frame,      \* number of frames that were begun
    presented,  \* number of frames the GPU has presented
    style,      \* the scene
    pc,         \* the next pass of the paint
    final,      \* pFinalImage: the texture that holds the picture so far
    swaps       \* number of executeAndSwap in this paint

cpuVars == <<tracked, list, frame, style, pc, final, swaps>>
gpuVars == <<gpuState, written, presented>>
vars    == <<cpuVars, gpuVars, queue>>

(* currentRenderTarget and currentDepthStencil in frame f: the slots of    *)
(* Graphics go round.                                                      *)
Slot(f)         == ((f - 1) % BufferCount) + 1
Back(f)         == <<"back1", "back2", "back3">>[Slot(f)]
DepthStencil(f) == <<"depthStencil1", "depthStencil2", "depthStencil3">>[Slot(f)]
Colors       == {"albedo", "normal", "specular"}
-----------------------------------------------------------------------------
(* The resources, as the create functions of the managers make them.       *)
Joined(f, g) == [r \in DOMAIN f \cup DOMAIN g |-> IF r \in DOMAIN f THEN f[r] ELSE g[r]]
Screen(format, mips) == Tex2D(format, ScreenWidth, ScreenHeight, mips)
Described(desc, flags, states) ==
    [NewResourceDesc([desc EXCEPT !.Flags = flags]) EXCEPT !.initialStates = states]
WithSRV(r) == AppendView(r, MakeSRV(r))
WithUAV(r) == AppendView(r, MakeUAV(r))
WithRTV(r) == AppendView(r, MakeRTV(r))
WithDSV(r) == AppendView(r, MakeDSV(r))

(* GBufferManager::create: each description is the one before, changed.    *)
GBuffer ==
    LET Target(d)  == WithRTV(WithUAV(WithSRV(CreateResource("DEFAULT", d))))
        albedo    == SetClearValueForColor(
                         Described(Screen("R8G8B8A8_UNORM", 1),
                                   {"ALLOW_RENDER_TARGET", "ALLOW_UNORDERED_ACCESS"},
                                   "RENDER_TARGET"), "R8G8B8A8_UNORM", 1)
        normal    == SetClearValueForColor(
                         [albedo EXCEPT !.desc.Format = "R11G11B10_FLOAT"], "R11G11B10_FLOAT", 0)
        specular  == SetClearValueForColor(
                         [normal EXCEPT !.desc.Format = "R8G8B8A8_UNORM"], "R8G8B8A8_UNORM", 0)
        dsv       == SetClearValueForDepth(
                         [specular EXCEPT !.desc.Format = "D32_FLOAT",
                                          !.desc.Flags = {"ALLOW_DEPTH_STENCIL"},
                                          !.initialStates = "DEPTH_WRITE"], "D32_FLOAT", 8)
        srv       == [dsv EXCEPT !.desc.Format = "R32_FLOAT",
                                 !.desc.Flags = {"ALLOW_UNORDERED_ACCESS"},
                                 !.initialStates = "COPY_DEST"]
    IN  [albedo |-> Target(albedo), normal |-> Target(normal), specular |-> Target(specular),
         depthDSV |-> WithDSV(CreateResource("DEFAULT", dsv)),
         depthSRV |-> WithUAV(WithSRV(CreateResource("DEFAULT", srv)))]

(* ShadowMapManager::create, of 2048 by 2048 texels.                       *)
ShadowMap ==
    LET dsv == SetClearValueForDepth(
                   Described(Tex2D("D32_FLOAT", 2048, 2048, 1),
                             {"ALLOW_DEPTH_STENCIL", "DENY_SHADER_RESOURCE"}, "DEPTH_WRITE"),
                   "D32_FLOAT", 8)
        srv == SetClearValueForDepth(
                   [dsv EXCEPT !.desc = Tex2D("R32_FLOAT", 2048, 2048, 1),
                               !.initialStates = "COPY_DEST"], "R32_FLOAT", 8)
    IN  [shadowDSV |-> HeapForClear(WithDSV(CreateResource("DEFAULT", dsv)), "DSV"),
         shadowSRV |-> WithSRV(CreateResource("DEFAULT", srv))]

(* What a compute shader writes and the next one reads:                    *)
(* SSAOManager::create.                                                    *)
UnorderedTexture(format) ==
    WithUAV(WithSRV(CreateResource("DEFAULT",
        Described(Screen(format, 1), {"ALLOW_UNORDERED_ACCESS"}, "UNORDERED_ACCESS"))))
SSAOResources ==
    [viewZ |-> UnorderedTexture("R32_FLOAT"), ao |-> UnorderedTexture("R16_FLOAT"),
     blur1 |-> UnorderedTexture("R16_FLOAT"), blur2 |-> UnorderedTexture("R16_FLOAT"),
     ssaoFinal |-> UnorderedTexture("R8G8B8A8_UNORM")]

(* DefferedLightingManager::create: Tex2D without a number of levels makes *)
(* a whole chain; the code sets it to one afterwards.                      *)
LightingTexture ==
    LET desc == [Screen("R8G8B8A8_UNORM", 0) EXCEPT !.MipLevels = 1]
        d    == SetClearValueForColor(
                    Described(desc, {"ALLOW_UNORDERED_ACCESS"}, "UNORDERED_ACCESS"),
                    "R8G8B8A8_UNORM", 0)
    IN  [lighting |-> HeapForClear(WithUAV(WithSRV(CreateResource("DEFAULT", d))), "CBV_SRV_UAV")]

(* VolumetricLightingManager::create.  The buffer has the size that        *)
(* DemoScene asks for, the data to upload always 10000 particles.          *)
ParticleCount == 10000
ParticleBytes == 32
VolumetricResources ==
    LET grid      == SetClearValueForColor(
                         Described(Tex3D("R16_FLOAT", 128, 128, 16, 1),
                                   {"ALLOW_RENDER_TARGET"}, "RENDER_TARGET"), "R16_FLOAT", 0)
        particles == CreateResource("DEFAULT", Described(Buffer(ParticleBytes * ParticleCount),
                                                 {}, "COPY_DEST"))
    IN  [grid |-> WithRTV(WithSRV(CreateResource("DEFAULT", grid))),
         particles |-> AppendView(particles, MakeSRVOf(particles, ParticleCount, ParticleBytes)),
         particlesForUpload |-> CreateForCopy(particles, TRUE, ParticleBytes * 10000),
         volumeFinal |-> UnorderedTexture("R8G8B8A8_UNORM")]

(* Mesh::create.  The upload that follows leaves both in COMMON.           *)
MeshBuffers(vertexCount, stride, indexCount) ==
    LET Empty(size) == CreateResource("DEFAULT", Described(Buffer(size), {}, "COPY_DEST"))
    IN  [vertices |-> AppendView(Empty(vertexCount * stride),
                                 VertexView(stride, vertexCount * stride)),
         indices  |-> AppendView(Empty(indexCount * 2), IndexView("R16_UINT", indexCount * 2))]

(* Graphics::init, for each slot: the buffer of the swap chain and a depth *)
(* buffer, which has a whole chain of levels.                              *)
FrameResources ==
    LET depth == SetClearValueForDepth(
                     Described(Screen("D32_FLOAT", 0), {"ALLOW_DEPTH_STENCIL"}, "DEPTH_WRITE"),
                     "D32_FLOAT", 8)
        back  == [Screen("R8G8B8A8_UNORM", 1) EXCEPT !.Flags = {"ALLOW_RENDER_TARGET"}]
    IN  Joined([r \in {Back(f) : f \in 1..BufferCount} |-> SwapChainBuffer(back)],
               [r \in {DepthStencil(f) : f \in 1..BufferCount} |->
                    CreateResource("DEFAULT", depth)])

Resource ==
    Joined(Joined(Joined(GBuffer, ShadowMap), Joined(SSAOResources, LightingTexture)),
           Joined(Joined(VolumetricResources, MeshBuffers(24, 32, 36)), FrameResources))
Resources == DOMAIN Resource
Buffers   == {r \in Resources : Resource[r].desc.Dimension = "BUFFER"}
States    == {"COMMON", "RENDER_TARGET", "DEPTH_WRITE", "UNORDERED_ACCESS", "COPY_DEST",
              "COPY_SOURCE", "NON_PIXEL_SHADER_RESOURCE", "VERTEX_AND_CONSTANT_BUFFER",
              "INDEX_BUFFER", "GENERIC_READ"}
-----------------------------------------------------------------------------
(* Behind the upload: the copy queue leaves its resources in COMMON.       *)
Init ==
    /\ tracked = [r \in Resources |-> Resource[r].state]
    /\ gpuState = [r \in Resources |-> IF r \in Buffers THEN "COMMON" ELSE Resource[r].state]
    /\ written = [r \in Resources |-> 0]
    /\ list = << >>
    /\ queue = << >>
    /\ frame = 0
    /\ presented = 0
    /\ style \in Styles
    /\ pc = "init"
    /\ final = "none"
    /\ swaps = 0

(* The init of the scene: an exception of a create ends the program.       *)
InitScene ==
    /\ pc = "init"
    /\ pc' = IF \A r \in Resources : Resource[r].good THEN "idle" ELSE "terminated"
    /\ UNCHANGED <<tracked, list, frame, style, final, swaps, gpuVars, queue>>
-----------------------------------------------------------------------------
(* A command: the states asked for by its setBarriers, and the states in   *)
(* which it reads and writes resources, all as pairs <<resource, state>>.  *)
In(S, state) == S \X {state}
Command(next, reads, writes) == [next |-> next, reads |-> reads, writes |-> writes]

(* DX12Resource::makeBarrier: the tracked state is the next one.           *)
MakeBarrier(states, next) ==
    [r \in Resources |-> IF \E s \in States : <<r, s>> \in next
                         THEN CHOOSE s \in States : <<r, s>> \in next
                         ELSE states[r]]

(* setBarriers: the barriers that change the state.                        *)
SetBarriers(states, next) ==
    {[resource |-> n[1], before |-> states[n[1]], after |-> n[2]] :
        n \in {m \in next : states[m[1]] # m[2]}}

(* The tracked states behind each of the commands.                         *)
StatesBehind(states, commands) ==
    LET behind[i \in 0..Len(commands)] ==
            IF i = 0 THEN states ELSE MakeBarrier(behind[i - 1], commands[i].next)
    IN  behind

Recorded(commands) ==
    [i \in 1..Len(commands) |->
        [kind     |-> "command",
         barriers |-> SetBarriers(StatesBehind(tracked, commands)[i - 1], commands[i].next),
         reads    |-> commands[i].reads,
         writes   |-> commands[i].writes,
         frame    |-> frame]]

Record(commands) ==
    /\ tracked' = StatesBehind(tracked, commands)[Len(commands)]
    /\ list' = list \o Recorded(commands)

(* The end of a list that is executed; the last one of a paint presents.   *)
ListEnd(kind) ==
    [kind |-> kind, barriers |-> {}, reads |-> {}, writes |-> {}, frame |-> frame]

(* Mesh::bind and draw, to the targets given.                              *)
Mesh == In({"vertices"}, "VERTEX_AND_CONSTANT_BUFFER") \cup In({"indices"}, "INDEX_BUFFER")
DrawMesh(targets) == Command(Mesh, Mesh, targets)
-----------------------------------------------------------------------------
(* The deferred scene.  ShadowMapManager::begin and end.                   *)
ShadowTarget == In({"shadowDSV"}, "DEPTH_WRITE")
ShadowBegin  == Command(ShadowTarget, {}, ShadowTarget)
ShadowEnd    == Command(In({"shadowDSV"}, "COPY_SOURCE") \cup In({"shadowSRV"}, "COPY_DEST"),
                        In({"shadowDSV"}, "COPY_SOURCE"), In({"shadowSRV"}, "COPY_DEST"))

(* GBufferManager::begin and end.                                          *)
GBufferTarget == In(Colors, "RENDER_TARGET") \cup In({"depthDSV"}, "DEPTH_WRITE")
GBufferBegin  == Command(GBufferTarget, {}, GBufferTarget)

(* Mutant of GBufferEnd: no barrier for the copy that the shaders read.    *)
GBufferEndOneBarrier ==
    Command(In({"depthDSV"}, "COPY_SOURCE"),
            In({"depthDSV"}, "COPY_SOURCE"), In({"depthSRV"}, "COPY_DEST"))

GBufferEnd ==
    Command(In({"depthDSV"}, "COPY_SOURCE") \cup In({"depthSRV"}, "COPY_DEST"),
            In({"depthDSV"}, "COPY_SOURCE"), In({"depthSRV"}, "COPY_DEST"))

(* A dispatch that reads some textures and writes one, behind its barriers *)
(* for these and, where a pass relies on an earlier one, without any for   *)
(* the textures in relied.                                                 *)
Dispatch(reads, relied, write) ==
    Command(In(reads, "NON_PIXEL_SHADER_RESOURCE") \cup In({write}, "UNORDERED_ACCESS"),
            In(reads \cup relied, "NON_PIXEL_SHADER_RESOURCE"),
            In({write}, "UNORDERED_ACCESS"))

(* DefferedLightingManager::setup, which clears, and lighting.             *)
LightingSetup == Command(In(Colors \cup {"depthSRV"}, "NON_PIXEL_SHADER_RESOURCE")
                             \cup In({"lighting"}, "UNORDERED_ACCESS"),
                         {}, In({"lighting"}, "UNORDERED_ACCESS"))
Light == Command(In({"shadowSRV"}, "NON_PIXEL_SHADER_RESOURCE"),
                 In(Colors \cup {"depthSRV", "shadowSRV"}, "NON_PIXEL_SHADER_RESOURCE"),
                 In({"lighting"}, "UNORDERED_ACCESS"))

(* SSAOManager::run on the picture so far.                                 *)
SSAO(image) ==
    <<Dispatch({"depthSRV"}, {}, "viewZ"),
      Dispatch({"viewZ"}, {}, "ao"),
      Dispatch({"ao"}, {"viewZ"}, "blur1"),
      Dispatch({"blur1"}, {"viewZ"}, "blur2"),
      Dispatch({image, "blur2"}, {}, "ssaoFinal")>>

(* VolumetricLightingManager::run on the picture so far.                   *)
VolumetricLight(image) ==
    <<Command(In({"particles"}, "COPY_DEST"), In({"particlesForUpload"}, "GENERIC_READ"),
              In({"particles"}, "COPY_DEST")),
      Command(In({"grid"}, "RENDER_TARGET") \cup In({"particles"}, "NON_PIXEL_SHADER_RESOURCE"),
              In({"particles"}, "NON_PIXEL_SHADER_RESOURCE"), In({"grid"}, "RENDER_TARGET")),
      Dispatch({image, "depthSRV", "shadowSRV", "grid"}, {}, "volumeFinal")>>
-----------------------------------------------------------------------------
(* paint up to its first pass: waitForCurrentFrame.                        *)
BeginPaint ==
    /\ pc = "idle"
    /\ frame < MaxFrame
    /\ frame - presented < BufferCount
    /\ frame' = frame + 1
    /\ pc' = IF style = "deferred" THEN "shadow" ELSE "forward"
    /\ swaps' = 0
    /\ UNCHANGED <<tracked, list, style, final, gpuVars, queue>>

DrawShadowMap ==
    /\ pc = "shadow"
    /\ Record(<<ShadowBegin, DrawMesh(ShadowTarget), ShadowEnd>>)
    /\ pc' = "gbuffer"
    /\ UNCHANGED <<frame, style, final, swaps, gpuVars, queue>>

DrawGBuffer ==
    /\ pc = "gbuffer"
    /\ Record(<<GBufferBegin, DrawMesh(GBufferTarget), GBufferEnd>>)
    /\ pc' = "lighting"
    /\ UNCHANGED <<frame, style, final, swaps, gpuVars, queue>>

(* Mutant of Lighting: pFinalImage is static, set in the first frame.      *)
LightingKeepsFinal ==
    /\ pc = "lighting"
    /\ Record(<<LightingSetup, Light>>)
    /\ final' = IF final = "none" THEN "lighting" ELSE final
    /\ pc' = "ssao"
    /\ UNCHANGED <<frame, style, swaps, gpuVars, queue>>

Lighting ==
    /\ pc = "lighting"
    /\ Record(<<LightingSetup, Light>>)
    /\ final' = "lighting"
    /\ pc' = "ssao"
    /\ UNCHANGED <<frame, style, swaps, gpuVars, queue>>

(* Key 1 turns the SSAO on and off, key 2 the volumetric light.            *)
RunSSAO ==
    /\ pc = "ssao"
    /\ Record(SSAO(final))
    /\ final' = "ssaoFinal"
    /\ pc' = "volume"
    /\ UNCHANGED <<frame, style, swaps, gpuVars, queue>>

SkipSSAO ==
    /\ pc = "ssao"
    /\ pc' = "volume"
    /\ UNCHANGED <<tracked, list, frame, style, final, swaps, gpuVars, queue>>

RunVolumetricLight ==
    /\ pc = "volume"
    /\ Record(VolumetricLight(final))
    /\ final' = "volumeFinal"
    /\ pc' = "copy"
    /\ UNCHANGED <<frame, style, swaps, gpuVars, queue>>

SkipVolumetricLight ==
    /\ pc = "volume"
    /\ pc' = "copy"
    /\ UNCHANGED <<tracked, list, frame, style, final, swaps, gpuVars, queue>>

(* The picture goes to the back buffer.                                    *)
CopyFinalImage ==
    /\ pc = "copy"
    /\ Record(<<Command(In({final}, "COPY_SOURCE") \cup In({Back(frame)}, "COPY_DEST"),
                        In({final}, "COPY_SOURCE"), In({Back(frame)}, "COPY_DEST"))>>)
    /\ pc' = "present"
    /\ UNCHANGED <<frame, style, final, swaps, gpuVars, queue>>
-----------------------------------------------------------------------------
(* The forward scenes: bindCurrentRenderTargetAndDepthStencil, the clears  *)
(* in the first list of a paint, and the draws, if there are any.          *)
ForwardTarget == In({Back(frame)}, "RENDER_TARGET") \cup In({DepthStencil(frame)}, "DEPTH_WRITE")
DrawForward ==
    /\ pc = "forward"
    /\ \E draws \in {<< >>, <<DrawMesh(ForwardTarget)>>} :
         Record(<<Command(In({Back(frame)}, "RENDER_TARGET"), {},
                          IF swaps = 0 THEN ForwardTarget ELSE {})>> \o draws)
    /\ pc' = "drawn"
    /\ UNCHANGED <<frame, style, final, swaps, gpuVars, queue>>

(* BetterDrawCallScene: what is recorded is executed, and the next list    *)
(* binds the same targets.                                                 *)
ExecuteAndSwap ==
    /\ pc = "drawn"
    /\ swaps < MaxSwaps
    /\ queue' = queue \o list \o <<ListEnd("swap")>>
    /\ list' = << >>
    /\ swaps' = swaps + 1
    /\ pc' = "forward"
    /\ UNCHANGED <<tracked, frame, style, final, gpuVars>>

EndForward ==
    /\ pc = "drawn"
    /\ pc' = "present"
    /\ UNCHANGED <<tracked, list, frame, style, final, swaps, gpuVars, queue>>
-----------------------------------------------------------------------------
(* The last barrier of every paint.                                        *)
ToPresent == Command(In({Back(frame)}, "COMMON"), {}, {})

(* The list is closed, and present executes it and presents.               *)
Present ==
    /\ pc = "present"
    /\ tracked' = MakeBarrier(tracked, ToPresent.next)
    /\ queue' = queue \o list \o Recorded(<<ToPresent>>) \o <<ListEnd("present")>>
    /\ list' = << >>
    /\ pc' = "idle"
    /\ UNCHANGED <<frame, style, final, swaps, gpuVars>>
-----------------------------------------------------------------------------
(* The GPU runs the next command: its barriers, then its work.             *)
Running == Head(queue)

RunCommand ==
    /\ queue # << >> /\ Running.kind = "command"
    /\ gpuState' = [r \in Resources |->
                      IF \E b \in Running.barriers : b.resource = r
                      THEN (CHOOSE b \in Running.barriers : b.resource = r).after
                      ELSE gpuState[r]]
    /\ written' = [r \in Resources |->
                      IF r \in {w[1] : w \in Running.writes} THEN Running.frame ELSE written[r]]
    /\ queue' = Tail(queue)
    /\ UNCHANGED <<cpuVars, presented>>

(* A list ends; buffers fall back to COMMON.                               *)
FinishList ==
    /\ queue # << >> /\ Running.kind # "command"
    /\ gpuState' = [r \in Resources |-> IF r \in Buffers THEN "COMMON" ELSE gpuState[r]]
    /\ presented' = IF Running.kind = "present" THEN presented + 1 ELSE presented
    /\ queue' = Tail(queue)
    /\ UNCHANGED <<cpuVars, written>>

Next ==
    \/ InitScene
    \/ BeginPaint
    \/ DrawShadowMap \/ DrawGBuffer \/ Lighting
    \/ RunSSAO \/ SkipSSAO \/ RunVolumetricLight \/ SkipVolumetricLight
    \/ CopyFinalImage
    \/ DrawForward \/ ExecuteAndSwap \/ EndForward
    \/ Present
    \/ RunCommand \/ FinishList

Spec == Init /\ [][Next]_vars
-----------------------------------------------------------------------------
(* The view by which a pass gets at a resource: the first that is appended *)
(* for what is read, and for the depth (eVIEW_SRV, eVIEW_DSV), the second  *)
(* for unordered access (eVIEW_UAV), the last for a render target          *)
(* (eVIEW_RTV).  Graphics makes views without a description.               *)
ViewType == [NON_PIXEL_SHADER_RESOURCE |-> "SRV", UNORDERED_ACCESS |-> "UAV",
             RENDER_TARGET |-> "RTV", DEPTH_WRITE |-> "DSV",
             VERTEX_AND_CONSTANT_BUFFER |-> "VERTEX", INDEX_BUFFER |-> "INDEX"]
ViewIndex(name, state) ==
    CASE state = "UNORDERED_ACCESS" -> 2
      [] state = "RENDER_TARGET"    -> IF name \in Colors THEN 3 ELSE 2
      [] OTHER                      -> 1

HasOwnView(name, state) ==
    LET r == Resource[name]
        i == ViewIndex(name, state)
    IN  /\ i \in DOMAIN r.views
        /\ r.views[i].type = ViewType[state]
        /\ Shows(r.views[i], r)

Usable(name, state) ==
    /\ Admits(Resource[name].desc, state)
    /\ state \in DOMAIN ViewType /\ name \notin DOMAIN FrameResources => HasOwnView(name, state)
    /\ state = "DEPTH_WRITE" => Resource[name].clearValue.First = 8
    /\ name = "lighting" => Resource[name].clearHeap = "CBV_SRV_UAV"

BarriersMatch ==
    /\ \A b \in Running.barriers :
         b.resource \notin Buffers => b.before = gpuState[b.resource]
    /\ \A u \in Running.reads \cup Running.writes :
         u[1] \notin Buffers => gpuState'[u[1]] = u[2]

UsesFit ==
    /\ \A u \in Running.reads \cup Running.writes : Usable(u[1], u[2])
    /\ \A from \in Running.reads, to \in Running.writes : to[2] = "COPY_DEST" =>
         /\ Copyable(Resource[from[1]], Resource[to[1]])
         /\ from[2] = "GENERIC_READ" =>
              Resource[from[1]].filled = Resource[to[1]].desc.Width

(* A barrier is made from the state that the texture is in when the GPU    *)
(* gets to it, however many passes, lists and frames lie between, and      *)
(* whichever passes the frames before had left out (DX12Resource.cpp:221). *)
(* D3D12 accepts every description, and each pass finds a resource that    *)
(* was made for what it does with it: it admits the state, its view at the *)
(* index of that use shows it, a copy goes between resources of the same   *)
(* shape, from a buffer that was filled, and depth is cleared to the far   *)
(* plane.                                                                  *)
StatesMatch ==
    [][pc' # "terminated" /\ (RunCommand => BarriersMatch /\ UsesFit)]_vars

(* What a pass reads, and what the screen shows, was written in the same   *)
(* frame: no picture, depth or shadow of an earlier frame gets into this   *)
(* one.  The back buffer is presented in the state PRESENT.                *)
ReadsAreFresh ==
    [][/\ RunCommand => \A u \in Running.reads :
            u[1] \notin {"vertices", "indices", "particlesForUpload"} =>
                written[u[1]] = Running.frame
       /\ FinishList /\ Running.kind = "present" =>
            /\ gpuState[Back(Running.frame)] = "COMMON"
            /\ written[Back(Running.frame)] = Running.frame]_vars
=============================================================================
