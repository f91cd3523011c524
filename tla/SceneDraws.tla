---------------------------- MODULE SceneDraws ----------------------------
(***************************************************************************)
(* What the scenes of dx12Test draw: with which pipelines and meshes, what *)
(* they set for all objects of a paint and what for each, and into which   *)
(* targets.  Objects of a scene that are drawn in the same way stand for   *)
(* all of them.                                                            *)
(***************************************************************************)
EXTENDS MeshPipeline

(* updateCBV, updateSRV, updateUAV and updateSampler of PipelineSet; asks: *)
(* the scene asks isExistBindingInfo before.                               *)
CBV(name)         == [type |-> "eCBV", name |-> name, asks |-> FALSE]
SRV(name)         == [type |-> "eSRV", name |-> name, asks |-> FALSE]
UAV(name)         == [type |-> "eUAV", name |-> name, asks |-> FALSE]
SamplerOf(name)   == [type |-> "eSAMPLER", name |-> name, asks |-> FALSE]
IfExists(updates) == [i \in DOMAIN updates |-> [updates[i] EXCEPT !.asks = TRUE]]

(* A draw of meshes: shared is set once in a paint, own for each object,   *)
(* of which each has a clone of the pipeline or none.  ends: how the       *)
(* scene's calls end the program, where they do not fit the pipeline;      *)
(* fits: whether the pipeline is one for the mesh and the targets.         *)
MeshDraw(pass, vertex, shared, own, clones, objects, meshes, targets) ==
    [name |-> <<pass, vertex>>, vertex |-> vertex, shared |-> shared, own |-> own,
     clones |-> clones, objects |-> objects, meshes |-> meshes,
     targets |-> targets, depth |-> "D32_FLOAT", ends |-> "none", fits |-> TRUE]

Dispatched(name, shared, own, clones, objects) ==
    [name |-> name, vertex |-> "P", shared |-> shared, own |-> own,
     clones |-> clones, objects |-> objects, meshes |-> {},
     targets |-> << >>, depth |-> "none", ends |-> "none", fits |-> TRUE]

Points(name, shared, own, objects, format) ==
    [Dispatched(name, shared, own, FALSE, objects) EXCEPT !.targets = <<format>>]

(* The targets: Graphics' back buffer, GBufferManager's textures, and the  *)
(* shadow map, which is a depth buffer only.                               *)
BackBuffer == <<"R8G8B8A8_UNORM">>
GBuffer    == <<"R8G8B8A8_UNORM", "R11G11B10_FLOAT", "R8G8B8A8_UNORM">>
ShadowMap  == << >>

BothMeshes    == {"Plane", "Tetrahedron"}
Camera        == <<CBV("CBCamera")>>
Model         == <<CBV("CBModel")>>
ModelMaterial == <<CBV("CBModel"), CBV("CBMaterial")>>
ObjectTexture == <<SRV("txTexture"), SamplerOf("smSampler")>>
Light         == <<CBV("CBLight")>>

(* What a pipeline of the vertex type has; the scenes know it.             *)
TextureOf(vertex) == IF vertex \in Textured THEN ObjectTexture ELSE << >>
LightOf(vertex)   == IF vertex \in Lit THEN Light ELSE << >>
-----------------------------------------------------------------------------
(* RingBufferScene::init and paint.                                        *)
RingBufferMeshes ==
    [PC |-> {"Tetrahedron"}, PN |-> BothMeshes, PTN |-> {"Tetrahedron"}, PTNC |-> {"Tetrahedron"}]

RingBufferScene ==
    {MeshDraw("Forward", v, Camera \o LightOf(v), ModelMaterial \o TextureOf(v), FALSE,
              IF v = "PN" THEN 2 ELSE 1, RingBufferMeshes[v], BackBuffer) :
       v \in DOMAIN RingBufferMeshes}

(* DefferedRenderScene::init, and paint: the shadow map and the G-buffer,  *)
(* where the ground is the second object without texture.                  *)
DefferedMeshes == [PN |-> BothMeshes, PTN |-> {"Tetrahedron"}, PTNC |-> {"Tetrahedron"}]

DefferedShadow ==
    {MeshDraw("ZPass", v, Camera, Model, FALSE, 1, {"Tetrahedron"}, ShadowMap) :
       v \in DOMAIN DefferedMeshes}

DefferedGBuffer ==
    {MeshDraw("Deffered", v, Camera, TextureOf(v) \o ModelMaterial, FALSE,
              IF v = "PN" THEN 2 ELSE 1, DefferedMeshes[v], GBuffer) :
       v \in DOMAIN DefferedMeshes}

(* DemoScene::paint: several textured objects of each type, of which each  *)
(* has a clone in the G-buffer.                                            *)
DemoScene ==
    {MeshDraw("ZPass", v, Camera, Model, FALSE, 2, BothMeshes, ShadowMap) : v \in {"PTN", "PTNC"}}
    \cup {MeshDraw("Deffered", v, Camera, ObjectTexture \o ModelMaterial, TRUE, 2,
                   BothMeshes, GBuffer) : v \in {"PTN", "PTNC"}}

(* The "type" of a pipeline in scene.json and in a client's messages.      *)
PipelineTypes == {"Forward", "Deffered", "ZPass"}

(* SceneEditorScene::paint: an object names any pipeline of the file, and  *)
(* neither its type nor its vertex is compared with the model and the      *)
(* target, which is the back buffer.  CBMaterial is set without asking, so *)
(* that a pipeline of type zpass, which has none, ends the program.        *)
SceneEditorScene ==
    {[MeshDraw(pass, v, IfExists(Camera \o Light), ModelMaterial \o IfExists(ObjectTexture),
               TRUE, 2, BothMeshes, BackBuffer)
        EXCEPT !.vertex = mesh,
               !.ends = IF pass = "ZPass" THEN "unknown name" ELSE "none",
               !.fits = (pass = "Forward" /\ mesh = v)] :
       pass \in PipelineTypes, v \in VertexTypes, mesh \in VertexTypes}

(* MipmapScene::init and paint: with its own pipeline ...                  *)
MipmapMeshes == BothMeshes

MipmapScene ==
    {[MeshDraw("Scene", "PT", Camera \o ObjectTexture, Model, FALSE, 2, MipmapMeshes, BackBuffer)
        EXCEPT !.name = <<"Scene", "CalMiplevel">>]}

(* ... or, after the key 1, with that of a textured mesh for reference.    *)
(* Nobody sets its CBMaterial, so that bind throws.                        *)
MipmapReference ==
    {[MeshDraw("Forward", "PT", Camera \o ObjectTexture, Model, FALSE, 2, MipmapMeshes, BackBuffer)
        EXCEPT !.ends = "unset"]}

(* ParticleManager::renderParticle, of BetterDrawCallScene.                *)
ParticleScene ==
    {Points(<<"Scene", "Particle">>, Camera, <<CBV("CBParticle")>>, 2, "R8G8B8A8_UNORM")}
-----------------------------------------------------------------------------
(* DefferedLightingManager: setup for all lights, lighting for each, with  *)
(* a clone for those that have a shadow map.                               *)
LightingSetup ==
    <<CBV("CBParam"), SRV("txAlbedo"), SRV("txNormal"), SRV("txSpecular"), SRV("txDepth"),
      UAV("outScreen")>>

DefferedLighting ==
    {Dispatched(<<"Lighting", "Direction">>, LightingSetup, Light, FALSE, 2),
     Dispatched(<<"Lighting", "WithShadow">>, LightingSetup,
                Light \o <<SRV("txShadowMap"), SamplerOf("smShadowMapSampler")>>, TRUE, 2)}

(* SSAOManager::run: one dispatch of each step.  The two blurs are         *)
(* declared alike and stand as one; the pipelines that create makes        *)
(* besides these are never run.                                            *)
SSAO ==
    {Dispatched(<<"SSAO", "CalViewZ">>, << >>,
                <<CBV("Param"), SRV("tDepth"), UAV("uOutViewZ")>>, FALSE, 1),
     Dispatched(<<"SSAO", "CalAO">>, << >>,
                <<CBV("CommonParam"), CBV("AOParam"), SRV("tViewZ"), UAV("uOutAO")>>, FALSE, 1),
     Dispatched(<<"SSAO", "Blur">>, << >>,
                <<CBV("Param"), SRV("tAO"), SRV("tViewZ"), UAV("uOut")>>, FALSE, 1),
     Dispatched(<<"SSAO", "Composite">>, << >>,
                <<SRV("tScene"), SRV("tAO"), UAV("uOut")>>, FALSE, 1)}

(* VolumetricLightingManager: the grid of the amounts, and the lighting.   *)
VolumetricLighting ==
    {Points(<<"Volumetric", "BuildAmountGrid">>, << >>,
            <<CBV("CBBuildScatteringAmountGridParam"), SRV("bufParticles")>>, 1, "R16_FLOAT"),
     Dispatched(<<"Volumetric", "Lighting">>, << >>,
                <<CBV("ScatteringParam"), CBV("CameraParam"), CBV("CBScatteringLightParam"),
                  CBV("CBBuildScatteringAmountGridParam"), SRV("texDepth"),
                  SRV("texSceneImage"), SRV("texShadowMap"), SRV("texDitheredPattern"),
                  SRV("voxelScatteringAmountGrid"), UAV("outColor"),
                  SamplerOf("samLinerClamp")>>, FALSE, 1)}

(* The pipelines no scene draws with, ShadowMapScene's among them, used as *)
(* the others are.                                                         *)
Library ==
    {MeshDraw("Deffered", v, Camera, ModelMaterial \o TextureOf(v), TRUE, 2, BothMeshes,
              GBuffer) : v \in VertexTypes \ Lit}
    \cup {MeshDraw("ZPass", v, Camera, Model, FALSE, 2, BothMeshes, ShadowMap) :
            v \in VertexTypes \ Lit}

AllDraws ==
    RingBufferScene \cup DefferedShadow \cup DefferedGBuffer \cup DemoScene
      \cup SceneEditorScene \cup MipmapScene \cup MipmapReference \cup ParticleScene
      \cup DefferedLighting \cup SSAO \cup VolumetricLighting \cup Library
=============================================================================
