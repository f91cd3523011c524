---------------------------- MODULE DX12Resource ----------------------------
(* hinode::graphics::DX12Resource: a resource of the GPU with the state its  *)
(* barriers start from, its clear value and its views; DX12ResourceDesc,     *)
(* from which it is made; the layout in which a texture lies in a buffer.    *)
(* What CreateCommittedResource accepts, what a view may show and what       *)
(* CopyResource may copy are rules of D3D12, in the part that the code in    *)
(* src/ depends on.                                                          *)
EXTENDS Integers, Sequences, FiniteSetsExt

(* CD3DX12_RESOURCE_DESC: Buffer, Tex2D and Tex3D.  Callers leave the       *)
(* sample count at 1 and set Flags afterwards.                              *)
ResourceDesc(dimension, format, width, height, depth, mips) ==
    [Dimension |-> dimension, Format |-> format, Width |-> width, Height |-> height,
     DepthOrArraySize |-> depth, MipLevels |-> mips, SampleCount |-> 1, Flags |-> {}]

Buffer(width) == ResourceDesc("BUFFER", "UNKNOWN", width, 1, 1, 1)
Tex2D(format, width, height, mips) == ResourceDesc("TEXTURE2D", format, width, height, 1, mips)
Tex3D(format, width, height, depth, mips) ==
    ResourceDesc("TEXTURE3D", format, width, height, depth, mips)

(* DX12ResourceDesc.  Depth and the red of a colour are the same field of   *)
(* the union, here in eighths; setClearValueForDepth leaves Stencil alone,  *)
(* which lies in the green and is 0 for all clear values of the program.    *)
NewResourceDesc(desc) ==
    [desc |-> desc, initialStates |-> "COMMON", clearValue |-> [Format |-> "UNKNOWN", First |-> 8]]

SetClearValueForColor(d, format, red)   ==
    [d EXCEPT !.clearValue = [Format |-> format, First |-> red]]
SetClearValueForDepth(d, format, depth) ==
    [d EXCEPT !.clearValue = [Format |-> format, First |-> depth]]

EnableClearValue(d) ==
    /\ d.desc.Dimension # "BUFFER"
    /\ d.desc.Flags \cap {"ALLOW_DEPTH_STENCIL", "ALLOW_RENDER_TARGET"} # {}
-----------------------------------------------------------------------------
(* Levels of a whole chain: halved, rounded down, until all sides are 1.    *)
Sides(desc) == {desc.Width, desc.Height}
                   \cup (IF desc.Dimension = "TEXTURE3D" THEN {desc.DepthOrArraySize} ELSE {})
FullMips(desc) == CHOOSE n \in 1..16 : Max(Sides(desc)) \in 2^(n - 1)..(2^n - 1)

(* sCalMipLevel: 1 + the logarithm rounded up, a level too many for sides   *)
(* that are no powers of two.                                               *)
CalMipLevel(w, h) == 1 + (CHOOSE n \in 0..16 : /\ 2^n >= Max({w, h, 1})
                                               /\ n > 0 => 2^(n - 1) < Max({w, h, 1}))

IsDepth(format) == format = "D32_FLOAT"

(* Whether a resource may be in a state.                                    *)
Admits(desc, state) ==
    CASE state = "RENDER_TARGET"              -> "ALLOW_RENDER_TARGET" \in desc.Flags
      [] state = "DEPTH_WRITE"                -> "ALLOW_DEPTH_STENCIL" \in desc.Flags
      [] state = "UNORDERED_ACCESS"           -> "ALLOW_UNORDERED_ACCESS" \in desc.Flags
      [] state = "NON_PIXEL_SHADER_RESOURCE"  -> "DENY_SHADER_RESOURCE" \notin desc.Flags
      [] state \in {"VERTEX_AND_CONSTANT_BUFFER", "INDEX_BUFFER"} -> desc.Dimension = "BUFFER"
      [] OTHER                                -> TRUE

NoClearValue == [Format |-> "none", First |-> 0]

(* CreateCommittedResource.                                                 *)
Accepts(heapType, desc, state, clearValue) ==
    /\ 0 \notin Sides(desc)
    /\ desc.Dimension = "BUFFER" <=> desc.Format = "UNKNOWN"
    /\ desc.MipLevels \in 0..(IF desc.Dimension = "BUFFER" THEN 1 ELSE FullMips(desc))
    /\ "ALLOW_DEPTH_STENCIL" \in desc.Flags =>
         /\ IsDepth(desc.Format)
         /\ desc.Flags \cap {"ALLOW_RENDER_TARGET", "ALLOW_UNORDERED_ACCESS"} = {}
    /\ "ALLOW_RENDER_TARGET" \in desc.Flags => ~IsDepth(desc.Format)
    /\ "DENY_SHADER_RESOURCE" \in desc.Flags => "ALLOW_DEPTH_STENCIL" \in desc.Flags
    /\ Admits(desc, state)
    /\ heapType = "UPLOAD" =>
         desc.Dimension = "BUFFER" /\ desc.Flags = {} /\ state = "GENERIC_READ"
    /\ clearValue # NoClearValue =>
         /\ EnableClearValue([desc |-> desc])
         /\ clearValue.Format = desc.Format

(* GetDesc of what was made: the number of levels is filled in.             *)
GetDesc(desc) == [desc EXCEPT !.MipLevels = IF @ = 0 THEN FullMips(desc) ELSE @]
-----------------------------------------------------------------------------
(* create from descriptions, create from loose parts, and the ownership of  *)
(* a resource that something else has made.  good: not thrown.              *)
Made(good, desc, state, clearValue) ==
    [good |-> good, desc |-> GetDesc(desc), state |-> state, clearValue |-> clearValue,
     views |-> << >>, clearHeap |-> "none", filled |-> 0]

CreateResource(heapType, d) ==
    LET clearValue == IF EnableClearValue(d) THEN d.clearValue ELSE NoClearValue
    IN  Made(Accepts(heapType, d.desc, d.initialStates, clearValue),
             d.desc, d.initialStates, d.clearValue)

CreateWith(heapType, desc, state, clearValue) ==
    Made(Accepts(heapType, desc, state, clearValue), desc, state, clearValue)

Transferred(desc, state) == Made(TRUE, desc, state, NoClearValue)

(* setSwapChianBuffer.                                                      *)
SwapChainBuffer(desc) == Made(TRUE, desc, "COMMON", NoClearValue)

(* update: maps the subresource, lets the caller write, unmaps.  A buffer   *)
(* has one subresource; for another one nothing is written.                 *)
Update(r, subresource, bytes) ==
    [r EXCEPT !.filled = IF subresource = 0 THEN Max({@, bytes}) ELSE @]

(* createForCopy: a buffer in the upload heap, as large as the target if    *)
(* that is a buffer and as the data otherwise, and filled if there is data. *)
CreateForCopy(target, hasData, byteSize) ==
    LET desc   == IF target.desc.Dimension = "BUFFER" THEN target.desc
                  ELSE [target.desc EXCEPT !.Dimension = "BUFFER", !.Format = "UNKNOWN",
                                           !.Width = byteSize, !.Height = 1,
                                           !.DepthOrArraySize = 1, !.MipLevels = 1]
        source == CreateWith("UPLOAD", desc, "GENERIC_READ", NoClearValue)
    IN  IF hasData THEN Update(source, 0, byteSize) ELSE source

(* appendView, and createDescriptorHeapForClear.                            *)
AppendView(r, view)    == [r EXCEPT !.views = Append(@, view)]
HeapForClear(r, type)  == [r EXCEPT !.clearHeap = type]
-----------------------------------------------------------------------------
(* View::setVertex, setIndex and the make functions.  first and count are   *)
(* levels or elements; -1 is all that there are.                            *)
View(type, desc, array, count, stride) ==
    [type |-> type, Format |-> desc.Format, Dimension |-> desc.Dimension, array |-> array,
     multisampled |-> FALSE, count |-> count, stride |-> stride]

VertexView(stride, size) == View("VERTEX", Buffer(size), FALSE, size, stride)
IndexView(format, size)  ==
    View("INDEX", [Buffer(size) EXCEPT !.Format = format], FALSE, size, 0)

(* makeSRV.  The dimension is set before the branches, and the test for     *)
(* arrays, 1 <= DepthOrArraySize, always holds: no view is one of an array, *)
(* a cube or samples.                                                       *)
MakeSRVOf(r, elementCount, structureByteStride) ==
    IF r.desc.Dimension = "BUFFER"
    THEN View("SRV", r.desc, FALSE, elementCount, structureByteStride)
    ELSE View("SRV", r.desc, FALSE, r.desc.MipLevels, 0)
MakeSRV(r) == MakeSRVOf(r, 0, 0)

IsArray(desc) == desc.Dimension # "TEXTURE3D" /\ desc.DepthOrArraySize # 1
Slices(desc)  == IF IsArray(desc) THEN desc.DepthOrArraySize ELSE 1

(* makeUAV: no view of a buffer, and none of the slices of a volume.        *)
MakeUAV(r) ==
    View("UAV", r.desc, IsArray(r.desc),
         IF r.desc.Dimension = "TEXTURE3D" THEN 0 ELSE Slices(r.desc), 0)

(* makeRTV: all slices of a volume, no element of a buffer.                 *)
MakeRTV(r) ==
    [View("RTV", r.desc, IsArray(r.desc),
          CASE r.desc.Dimension = "TEXTURE3D" -> -1
            [] r.desc.Dimension = "BUFFER"    -> 0
            [] OTHER                          -> Slices(r.desc), 0)
        EXCEPT !.multisampled = r.desc.SampleCount # 1]

(* makeDSV: textures of one or two dimensions.                              *)
MakeDSV(r) ==
    [View("DSV", r.desc, IsArray(r.desc), Slices(r.desc), 0)
        EXCEPT !.multisampled = r.desc.SampleCount # 1]

(* What a view may show of a resource.                                      *)
Shows(view, r) ==
    /\ r.good
    /\ view.type # "INDEX" => view.Format = r.desc.Format
    /\ view.Dimension = r.desc.Dimension
    /\ view.array = IsArray(r.desc)
    /\ view.multisampled = (r.desc.SampleCount # 1)
    /\ CASE view.type \in {"VERTEX", "INDEX"} -> view.count <= r.desc.Width
         [] view.type = "SRV" ->
              /\ Admits(r.desc, "NON_PIXEL_SHADER_RESOURCE") /\ ~IsDepth(r.desc.Format)
              /\ IF r.desc.Dimension = "BUFFER"
                 THEN view.stride > 0 /\ view.count \in 1..(r.desc.Width \div view.stride)
                 ELSE view.count \in 1..r.desc.MipLevels
         [] view.type = "UAV" -> Admits(r.desc, "UNORDERED_ACCESS") /\ view.count # 0
         [] view.type = "RTV" -> Admits(r.desc, "RENDER_TARGET") /\ view.count # 0
         [] view.type = "DSV" -> Admits(r.desc, "DEPTH_WRITE") /\ view.count # 0

(* CopyResource: the same shape, and formats of one family.                 *)
Family(format) == IF IsDepth(format) THEN "R32_FLOAT" ELSE format
Copyable(from, to) ==
    /\ from.good /\ to.good
    /\ [from.desc EXCEPT !.Format = Family(@), !.Flags = {}]
         = [to.desc EXCEPT !.Format = Family(@), !.Flags = {}]
-----------------------------------------------------------------------------
(* getCopyableFootprint: where the rows of a subresource lie in a buffer.   *)
(* Rows start at multiples of 256 bytes, the last one ends with its texels. *)
TexelBytes(format) ==
    CASE format \in {"R32_FLOAT", "D32_FLOAT", "R8G8B8A8_UNORM", "R11G11B10_FLOAT"} -> 4
      [] format = "R16_FLOAT" -> 2
      [] format = "R8_UINT"   -> 1

Footprint(r, subresource, baseOffset) ==
    LET level    == subresource % r.desc.MipLevels
        Level(n) == Max({1, n \div 2^level})
        rowBytes == Level(r.desc.Width) * TexelBytes(r.desc.Format)
        rows     == Level(r.desc.Height)
                      * IF r.desc.Dimension = "TEXTURE3D" THEN Level(r.desc.DepthOrArraySize) ELSE 1
        rowPitch == ((rowBytes + 255) \div 256) * 256
    IN  [Offset |-> baseOffset, rowBytes |-> rowBytes, rows |-> rows, RowPitch |-> rowPitch,
         totalSize |-> rowPitch * (rows - 1) + rowBytes]
=============================================================================
