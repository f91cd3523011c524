---------------------------- MODULE MeshPipeline ----------------------------
(***************************************************************************)
(* The pipelines of the renderer as they are declared: those of the        *)
(* meshes (dx12/graphics/dx12/utility/Mesh/MeshPipeline with the shaders   *)
(* in Mesh/Shader), of the deferred lighting (.../GBuffer), and of the     *)
(* scenes' effects (dx12Test/scene).                                       *)
(*                                                                         *)
(* A pipeline is declared in two languages: the HLSL file has the root     *)
(* signature, the registers and what the stages read and write; the C++    *)
(* code has the input layout, the target formats and the root indices      *)
(* that a clone replaces.  Nothing but D3D12, at run time, compares them.  *)
(* A pipeline's name is a pair of its kind and what it draws.              *)
(***************************************************************************)
EXTENDS RootSignatureInfo

VertexTypes == {"P", "PC", "PT", "PN", "PTN", "PTNC"}
Lit         == {"PN", "PTN", "PTNC"}
Textured    == {"PT", "PTN", "PTNC"}

(* Mutant of InputLayout: the color is put before the normal.              *)
InputLayoutColorFirst ==
    [P    |-> <<"POSITION">>,
     PC   |-> <<"POSITION", "COLOR">>,
     PT   |-> <<"POSITION", "TEXCOORD">>,
     PN   |-> <<"POSITION", "NORMAL">>,
     PTN  |-> <<"POSITION", "TEXCOORD", "NORMAL">>,
     PTNC |-> <<"POSITION", "TEXCOORD", "COLOR", "NORMAL">>]

(* info.inputLayouts: each element is appended to the one before it.       *)
InputLayout ==
    [P    |-> <<"POSITION">>,
     PC   |-> <<"POSITION", "COLOR">>,
     PT   |-> <<"POSITION", "TEXCOORD">>,
     PN   |-> <<"POSITION", "NORMAL">>,
     PTN  |-> <<"POSITION", "TEXCOORD", "NORMAL">>,
     PTNC |-> <<"POSITION", "TEXCOORD", "NORMAL", "COLOR">>]
-----------------------------------------------------------------------------
(* DX12_GRAPHICS_PIPELINE_STATE_DESC: the RTVFormats and their number.     *)
TargetCount == 8

(* Mutant of setRTV: no format is reset.                                   *)
setRTVWithoutReset(desc, formats) ==
    [desc EXCEPT !.NumRenderTargets = Len(formats),
                 !.RTVFormats = [i \in 1..TargetCount |->
                    IF i <= Len(formats) THEN formats[i] ELSE @[i]]]

(* setRTV: without formats all are reset, otherwise the first are copied   *)
(* and the others stay.                                                    *)
setRTV(desc, formats) ==
    [desc EXCEPT !.NumRenderTargets = Len(formats),
                 !.RTVFormats = [i \in 1..TargetCount |->
                    IF formats = << >> THEN "UNKNOWN"
                    ELSE IF i <= Len(formats) THEN formats[i] ELSE @[i]]]

(* DX12DepthStencilDesc with setDepth and isEnableStencil; no caller sets  *)
(* the stencil's functions.                                                *)
DX12DepthStencilDesc == [DepthEnable |-> TRUE, StencilEnable |-> FALSE]

setDepth(desc, isEnable)        == [desc EXCEPT !.DepthEnable = isEnable]
isEnableStencil(desc, isEnable) == [desc EXCEPT !.StencilEnable = isEnable]

setDepthStencil(desc, depthStencil) == [desc EXCEPT !.DepthStencilState = depthStencil]
setPrimitiveTopology(desc, type)    == [desc EXCEPT !.topology = type]
setDSV(desc, format)                == [desc EXCEPT !.DSVFormat = format]

(* The constructor: D3D12_GRAPHICS_PIPELINE_STATE_DESC({}) has nothing.    *)
EmptyDesc ==
    [topology |-> "UNDEFINED", DepthStencilState |-> DX12DepthStencilDesc,
     DSVFormat |-> "UNKNOWN", NumRenderTargets |-> 0,
     RTVFormats |-> [i \in 1..TargetCount |-> "UNKNOWN"]]

DefaultDesc ==
    setDSV(setRTV(setPrimitiveTopology(EmptyDesc, "TRIANGLE"), <<"R8G8B8A8_UNORM">>),
           "D32_FLOAT")

(* The formats that createWithBytecode sets in the desc it starts from.    *)
ForwardFormats  == <<"R8G8B8A8_UNORM">>
DefferedFormats == <<"R8G8B8A8_UNORM", "R11G11B10_FLOAT", "R8G8B8A8_UNORM">>
-----------------------------------------------------------------------------
(* The HLSL files.  The registers of the names ...                         *)
CBuffer(slot, space) == Input("D3D_SIT_CBUFFER", slot, space)
Texture(slot, space) == Input("D3D_SIT_TEXTURE", slot, space)
Sampler(slot, space) == Input("D3D_SIT_SAMPLER", slot, space)
RWTexture(slot, space) == Input("D3D_SIT_UAV_RWTYPED", slot, space)

VertexInputs == [CBModel |-> CBuffer(0, "VS"), CBCamera |-> CBuffer(0, "COMMON")]

TextureInputs(vertex) ==
    IF vertex \in Textured
    THEN [txTexture |-> Texture(0, "PS"), smSampler |-> Sampler(0, "PS")]
    ELSE << >>

MaterialInputs(vertex) ==
    ("CBMaterial" :> CBuffer(IF vertex \in Lit THEN 1 ELSE 0, "PS")) @@ TextureInputs(vertex)

LightInputs(vertex) ==
    IF vertex \in Lit
    THEN [CBCamera |-> CBuffer(0, "COMMON"), CBLight |-> CBuffer(0, "PS")]
    ELSE << >>

(* ... which a stage of a pass reads, ...                                  *)
StageInputs(pass, vertex) ==
    CASE pass = "Forward"  -> [VS |-> VertexInputs,
                               PS |-> MaterialInputs(vertex) @@ LightInputs(vertex)]
      [] pass = "Deffered" -> [VS |-> VertexInputs, PS |-> MaterialInputs(vertex)]
      [] pass = "ZPass"    -> [VS |-> VertexInputs]

Ranges(type, slot, space) == <<DescriptorRange(type, slot, space, 1)>>

(* ... and RSForward, RSDeffered and RSZPass.                              *)
ModelView          == View("VS", "eCBV", 0, "VS")
CameraTable(stage) == Table(stage, Ranges("eCBV", 0, "COMMON"))
LightTable         == Table("PS", Ranges("eCBV", 0, "PS"))
SamplerTable       == Table("PS", Ranges("eSAMPLER", 0, "PS"))

MaterialTable(vertex) ==
    Table("PS", Ranges("eCBV", IF vertex \in Lit THEN 1 ELSE 0, "PS")
                \o IF vertex \in Textured THEN Ranges("eSRV", 0, "PS") ELSE << >>)

UnlitParams(vertex) ==
    <<ModelView, CameraTable(IF vertex = "PC" THEN "ALL" ELSE "VS")>>

ForwardParams(vertex) ==
    CASE vertex \in VertexTypes \ Lit ->
           UnlitParams(vertex) \o <<MaterialTable(vertex)>>
             \o IF vertex = "PT" THEN <<SamplerTable>> ELSE << >>
      [] vertex = "PN" ->
           <<ModelView, View("PS", "eCBV", 1, "PS"), CameraTable("ALL"), LightTable>>
      [] OTHER ->
           <<ModelView, CameraTable("ALL"), MaterialTable(vertex), SamplerTable, LightTable>>

DefferedParams(vertex) ==
    CASE vertex \in VertexTypes \ Lit -> ForwardParams(vertex)
      [] vertex = "PN" -> <<ModelView, View("PS", "eCBV", 1, "PS"), CameraTable("VS")>>
      [] OTHER -> <<ModelView, CameraTable("VS"), MaterialTable(vertex), SamplerTable>>

ZPassParams(vertex) ==
    CASE vertex \in VertexTypes \ Lit -> UnlitParams(vertex)
      [] vertex = "PN" -> <<ModelView, CameraTable("VS")>>
      [] OTHER         -> <<ModelView, CameraTable("ALL")>>

MeshDenied == {"HS", "DS", "GS"}
-----------------------------------------------------------------------------
(* A pipeline as it is given to PipelineSet::create, and the indices of    *)
(* setAutoReplaceRootParameterIndices.  reads: the elements of a vertex    *)
(* that the vertex shader takes.  writes: the targets of the pixel shader. *)
(* isImplemented: whether the creator asserts that it is.                  *)
MeshInfo(vertex, rootSignature, stages, desc, writes, isImplemented, autoReplace) ==
    [type |-> "GRAPHICS", layout |-> InputLayout[vertex],
     reads |-> {InputLayout[vertex][i] : i \in DOMAIN InputLayout[vertex]},
     rootSignature |-> rootSignature, stages |-> stages, desc |-> desc, writes |-> writes,
     isImplemented |-> isImplemented, autoReplace |-> autoReplace]

(* The replace indices are written out in each creator.                    *)
MaterialIndices(vertex) ==
    CASE vertex \in {"P", "PC"} -> {2}
      [] vertex = "PN"          -> {}
      [] OTHER                  -> {2, 3}

(* Mutant of ForwardPipeline: the sampler's table is not replaced.         *)
ForwardPipelineKeepsSampler(vertex) ==
    MeshInfo(vertex,
             [params |-> ForwardParams(vertex), denied |-> MeshDenied, allowLayout |-> TRUE],
             StageInputs("Forward", vertex), setRTV(DefaultDesc, ForwardFormats), 1, TRUE,
             MaterialIndices(vertex) \ {3})

(* ForwardPipeline::sCreateXXXVertex with createWithBytecode.              *)
ForwardPipeline(vertex) ==
    MeshInfo(vertex,
             [params |-> ForwardParams(vertex), denied |-> MeshDenied, allowLayout |-> TRUE],
             StageInputs("Forward", vertex), setRTV(DefaultDesc, ForwardFormats), 1, TRUE,
             MaterialIndices(vertex))

(* Mutant of DefferedPipeline: the material's table is not replaced.       *)
DefferedPipelineKeepsMaterial(vertex) ==
    MeshInfo(vertex,
             [params |-> DefferedParams(vertex), denied |-> MeshDenied, allowLayout |-> TRUE],
             StageInputs("Deffered", vertex), setRTV(DefaultDesc, DefferedFormats), 3,
             vertex \in Lit, MaterialIndices(vertex) \ {2})

(* DefferedPipeline: those without normals say that they are not           *)
(* implemented; they have shaders all the same.                            *)
DefferedPipeline(vertex) ==
    MeshInfo(vertex,
             [params |-> DefferedParams(vertex), denied |-> MeshDenied, allowLayout |-> TRUE],
             StageInputs("Deffered", vertex), setRTV(DefaultDesc, DefferedFormats), 3,
             vertex \in Lit, MaterialIndices(vertex))

(* ZPassPipeline: no pixel shader, no target, nothing to replace.          *)
ZPassPipeline(vertex) ==
    MeshInfo(vertex,
             [params |-> ZPassParams(vertex), denied |-> MeshDenied \cup {"PS"},
              allowLayout |-> TRUE],
             StageInputs("ZPass", vertex), setRTV(DefaultDesc, << >>), 0, TRUE, {})
-----------------------------------------------------------------------------
(* The compute pipelines: all registers are in the space of the stage.     *)
ComputeInfo(params, inputs, autoReplace) ==
    [type |-> "COMPUTE", stages |-> [CS |-> inputs],
     rootSignature |-> [params |-> params, denied |-> {}, allowLayout |-> FALSE],
     isImplemented |-> TRUE, autoReplace |-> autoReplace]

ComputeTable(cbvs, srvs, uavs) ==
    Table("ALL",
          SelectSeq(<<DescriptorRange("eCBV", 0, "CS", cbvs),
                      DescriptorRange("eSRV", 0, "CS", srvs),
                      DescriptorRange("eUAV", 0, "CS", uavs)>>,
                    LAMBDA range : range.count > 0))

Registered(names, Register(_)) ==
    FoldLeft(LAMBDA inputs, i : inputs @@ (names[i] :> Register(i - 1)), << >>,
             [i \in DOMAIN names |-> i])

ComputeInputs(cbvs, srvs, uavs) ==
    Registered(cbvs, LAMBDA slot : CBuffer(slot, "CS"))
      @@ Registered(srvs, LAMBDA slot : Texture(slot, "CS"))
      @@ Registered(uavs, LAMBDA slot : RWTexture(slot, "CS"))

(* DefferedLightingPipeline: the light is a root view, so that each light  *)
(* of a frame has its own; the shadow map of a light is in tables.         *)
LightingParams == <<View("ALL", "eCBV", 1, "CS"), ComputeTable(1, 4, 1)>>
LightingInputs ==
    ComputeInputs(<<"CBParam", "CBLight">>,
                  <<"txAlbedo", "txNormal", "txSpecular", "txDepth">>, <<"outScreen">>)

DirectionLighting == ComputeInfo(LightingParams, LightingInputs, {})

DirectionLightingWithShadow ==
    ComputeInfo(
        LightingParams \o <<Table("ALL", Ranges("eSRV", 4, "CS")),
                            Table("ALL", Ranges("eSAMPLER", 0, "CS"))>>,
        LightingInputs @@ [txShadowMap |-> Texture(4, "CS"),
                           smShadowMapSampler |-> Sampler(0, "CS")],
        {2, 3})

(* SSAOManager::create: the steps of the screen space ambient occlusion.   *)
SSAOPipeline ==
    [CalViewZ  |-> ComputeInfo(<<View("ALL", "eCBV", 0, "CS"), ComputeTable(0, 1, 1)>>,
                               ComputeInputs(<<"Param">>, <<"tDepth">>, <<"uOutViewZ">>), {}),
     CalAO     |-> ComputeInfo(<<ComputeTable(2, 1, 1)>>,
                               ComputeInputs(<<"CommonParam", "AOParam">>, <<"tViewZ">>,
                                             <<"uOutAO">>), {}),
     Blur      |-> ComputeInfo(<<ComputeTable(1, 2, 1)>>,
                               ComputeInputs(<<"Param">>, <<"tAO", "tViewZ">>, <<"uOut">>), {}),
     Composite |-> ComputeInfo(<<ComputeTable(0, 2, 1)>>,
                               ComputeInputs(<< >>, <<"tScene", "tAO">>, <<"uOut">>), {})]
-----------------------------------------------------------------------------
(* The graphics pipelines of the scenes that draw points without vertices. *)
PointsInfo(rootSignature, stages, format) ==
    [type |-> "GRAPHICS", layout |-> << >>, reads |-> {},
     rootSignature |-> rootSignature, stages |-> stages,
     desc |-> setRTV(setPrimitiveTopology(
                         setDepthStencil(DefaultDesc,
                             isEnableStencil(setDepth(DX12DepthStencilDesc, FALSE), FALSE)),
                         "POINT"),
                     <<format>>),
     writes |-> 1, isImplemented |-> TRUE, autoReplace |-> {}]

(* ParticleManager::init.                                                  *)
ParticlePipeline ==
    PointsInfo([params |-> <<View("GS", "eCBV", 0, "GS"),
                             Table("GS", Ranges("eCBV", 1, "GS"))>>,
                denied |-> {"HS", "DS"}, allowLayout |-> FALSE],
               [VS |-> << >>,
                GS |-> [CBParticle |-> CBuffer(0, "GS"), CBCamera |-> CBuffer(1, "GS")],
                PS |-> << >>],
               "R8G8B8A8_UNORM")

(* VolumetricLightingManager::create.                                      *)
VolumetricPipeline ==
    [BuildAmountGrid |->
        PointsInfo([params |-> <<Table("GS", Ranges("eCBV", 0, "GS") \o Ranges("eSRV", 0, "GS"))>>,
                    denied |-> {"VS", "HS", "DS", "PS"}, allowLayout |-> FALSE],
                   [VS |-> << >>,
                    GS |-> [CBBuildScatteringAmountGridParam |-> CBuffer(0, "GS"),
                            bufParticles |-> Input("D3D_SIT_STRUCTURED", 0, "GS")],
                    PS |-> << >>],
                   "R16_FLOAT"),
     Lighting |->
        ComputeInfo(<<ComputeTable(4, 5, 1), Table("ALL", Ranges("eSAMPLER", 0, "CS"))>>,
                    ComputeInputs(<<"ScatteringParam", "CameraParam", "CBScatteringLightParam",
                                    "CBBuildScatteringAmountGridParam">>,
                                  <<"texDepth", "texShadowMap", "texDitheredPattern",
                                    "voxelScatteringAmountGrid", "texSceneImage">>,
                                  <<"outColor">>)
                      @@ ("samLinerClamp" :> Sampler(0, "CS")), {})]

(* MipmapScene::init: the vertex of a textured mesh without material.      *)
CalMiplevelPipeline ==
    MeshInfo("PT",
             [params |-> <<ModelView, CameraTable("VS"), Table("PS", Ranges("eSRV", 0, "PS")),
                           SamplerTable>>,
              denied |-> MeshDenied, allowLayout |-> TRUE],
             [VS |-> VertexInputs, PS |-> TextureInputs("PT")],
             DefaultDesc, 1, TRUE, {})

(* All of them by name.                                                    *)
PipelineInfo(name) ==
    CASE name[1] = "Forward"   -> ForwardPipeline(name[2])
      [] name[1] = "Deffered"  -> DefferedPipeline(name[2])
      [] name[1] = "ZPass"     -> ZPassPipeline(name[2])
      [] name[1] = "SSAO"      -> SSAOPipeline[name[2]]
      [] name[1] = "Volumetric" -> VolumetricPipeline[name[2]]
      [] name = <<"Lighting", "Direction">>  -> DirectionLighting
      [] name = <<"Lighting", "WithShadow">> -> DirectionLightingWithShadow
      [] name = <<"Scene", "Particle">>      -> ParticlePipeline
      [] name = <<"Scene", "CalMiplevel">>   -> CalMiplevelPipeline
=============================================================================
