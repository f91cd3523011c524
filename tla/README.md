# hinodeDX12 in TLA+

hinodeDX12 is a C++ renderer on Direct3D 12: a library (`src/dx12`) that wraps
the API and adds frame pipelining, pools for transient GPU memory, a resource
binder and pipelines, and a test application (`src/dx12Test`) with scenes that
a client may edit over a socket.

Much of its correctness is about *time*: the CPU records frame *n + 2* while
the GPU runs frame *n*, and every byte, descriptor, allocator and render target
that the CPU touches must be one the GPU no longer reads. No unit test reaches
this: it depends on how far the GPU happens to be. The rest is about
*agreement*: a pipeline is declared in HLSL and again in C++, a texture is
described where it is made and used elsewhere, a scene is edited by one thread
and painted by another, and nothing compares the two sides before they meet.
This directory models both in TLA+, checks them with TLC on small instances and
proves the central protocols with TLAPS for every instance.

Paths below are relative to `src/dx12/graphics/dx12` unless they begin with
`src/`. All class names are in `hinode::graphics` or `hinode::graphics::utility`.

## 1. Inventory

### 1.1 Parts, their state and their operations

| Part (source) | State | Operations | Correct when |
|---|---|---|---|
| `RingBuffer` (`utility/RingBuffer`) | cursor, bytes used, frame counter, queue of frames with their head offsets, fence | `init`, `updateCurrentOffset` (may block), `endAndGoNextFrame`, `clear` | nothing handed out meets what the GPU may still read; the byte count is the bytes in use; no wait for a value that is never signalled |
| `ConstantBufferPool` (`…/ConstantBufferPool`) | a mapped upload buffer, a `RingBuffer` | `create`, `allocate`, `clear` | views are aligned, hold what was asked, do not overlap, lie in the pool |
| `DescriptorHeapPool` (`…/DescriptorHeapPool`) | a descriptor heap, a `RingBuffer` | `create`, `allocate`, `isSameAllocateFrameID`, `clear` | as above; a table that is taken for current is one of this frame |
| `DX12Fence` (`fence`) | the fence's value, one auto-reset event | `create`, `wait`, `sSignalAndWait` | a wait ends, and not before its value is reached |
| `FrameDataManager` (`utility/FrameDataManager`) | frame counter, the last value each slot signalled, fence | `create`, `waitForCurrent`, `waitPrevFrame`, `endAndGoNextFrame`, `clear` | the data of a slot is free when it is used again |
| `Context` (`utility/Context`) | an allocator, two command lists in a `FrameDataManager` | `record`, `beginRecord`, `executeAndSwap`, `endRecord`, `clear` | no list and no allocator is reset while the GPU runs it |
| `Graphics` (`utility/DX12Utility`) | a `FrameDataManager` of render targets and Contexts, the swap chain, the queue | `init`, `waitForCurrentFrame`, `present`, `endAndGoNextFrame`, `waitPrevFrame`, `clear` | draws go to the back buffer that is presented; shutdown releases nothing the GPU uses, and ends |
| `DXWindow` (`src/dx12Test/DXWindow`) | `Graphics`, the pools, the uploader, a scene, the mediator, a server thread | `create`, `onPaint`, `onKeyUp`, `onClientMessagePred`, `clear` | edits of the client reach the scene whole and in order |
| `DX12CommandQueue`, `DX12CommandAllocator`, `DX12GraphicsCommandList` | the D3D12 object each wraps | `create`, `reset`, `close`, `executeCommandLists`, `signal` | used in D3D12's order (see `Context`) |
| `DX12SwapChain` (`swapChain`) | the D3D12 object | `create`, `present`, `currentBackBufferIndex` | see `Graphics` |
| `ResourceUploader` (`utility/ResourceUploader`) | allocator, list, fence, the copy sources that wait for the upload | `init`, `entryBuffer`, `entryTexture`, `upload`, `clear` | every copy that was entered reaches its target; a copy source lives until the GPU has read it |
| `DX12Resource` (`resource`) | the resource, its views, its clear value and the state it is tracked in | `create*`, `make*`, `appendView`, `update`, `makeBarrier`, … | D3D12 accepts what is described; a view shows the resource; the tracked state is the state the GPU is in when the list runs |
| `PipelineResourceBinder`, `PipelineSet` (`utility/Shader`) | for each root parameter a view, or a table with the entries that are still to be set | `create`, `clone`, `replace`, `update*`, `validate` | a table that is bound is complete and of this frame |
| `RootSignatureInfo`, `ShaderResourceInfo`, `Shader`, `Includer`, `Pipeline` | reflection data | `create`, `make*`, `find*` | a name leads to the descriptor that the shader reads at its register |
| `SceneInfoMediator` (`src/dx12Test/scene/SceneInfo`) | deferred additions, deletions and updates, a mutex | `add*`, `addDeleteElement`, `addUpdateElement`, `isExistData`, `deliver` | the paint thread sees whole edits; none is lost |
| `SceneInfo` and its elements (`src/dx12Test/scene/SceneInfo`) | maps from names to cameras, shaders, objects, materials … | `merge`, `delete`, `update`, `draw` | an element refers to elements that are there |
| `DebugCommandServer` (`src/dx12Test/debugCommand`) | an asio socket | `run`, `stop` | a client gets one answer; stopping ends the thread |
| `Device`, `Heap`, `DescriptorHeap`, `QueryHeap`, `Sampler`, `PipelineState`, `RootSignature` | the D3D12 object each wraps | `create`, getters | – |
| `Mesh`, `MeshPipeline`, `Primitive` | vertex buffers, a pipeline per vertex type | `create`, `draw` | vertices, input layout and shaders name the same fields; triangles face outwards |
| `GBufferManager`, `ShadowMapManager`, `DefferedLightingManager`, `SSAOManager`, `VolumetricLightingManager` | textures, pipelines | `create`, `begin`, `end`, `setup`, `lighting`, `run` | every texture is in the state that the pass needs, and holds the picture of this frame |
| math (`utility/math`) | vectors, matrices, quaternions | the operators, `make*`, `inverse`, … | every way to calculate a turn, a view or an inverse agrees with the others |
| scenes (`src/dx12Test/scene`) | their resources, pipelines and objects | `init`, `update`, `paint` | what is drawn has all its parameters set, into targets of its formats |
| `winapi`, `Camera`, `DX11On12` | window handle, matrices | – | – |
| vendored code, shaders, the editor client | – | – | – |

### 1.2 How they interact

- **Shared counters through the queue.** A CPU-side counter is signalled on the
  command queue behind the work it stands for; the GPU copies it to a fence; the
  CPU compares. `RingBuffer`, `FrameDataManager` and `DX12Fence::sSignalAndWait`
  each do this on a fence of their own, but on the *one* queue of `Graphics`.
- **Nested frames.** `Graphics` has a slot per back buffer; each slot holds a
  `Context`, whose two lists are slots of an inner `FrameDataManager`. What the
  inner waits leave out the outer wait must cover, and the other way round.
- **Inheritance of the ring.** `ConstantBufferPool` and `DescriptorHeapPool`
  derive from `RingBuffer` and use its cursor directly.
- **Callbacks.** `Context::record` runs the scene's function; the debug server
  runs `DXWindow::onClientMessagePred`, on its own thread.
- **Two CPU threads.** The server thread and the paint thread meet in
  `SceneInfoMediator`. (The start of the server thread is commented out at
  `src/dx12Test/DXWindow/DXWindow.cpp:62`; the code on both sides is there.)

### 1.3 What is hard

Interleaving of CPU and GPU at every wait; waits that block in the middle of an
operation with half of its state changed; exceptions after the state has
changed; frames that turn out to be empty; counters read before they are
changed and used after; a shutdown in the middle of frames; unsigned
arithmetic at frame 0; waits for values nobody signals; two threads on
containers that are locked only sometimes; registers, root indices, views and
row pitches that are counted by hand in one file and relied on in another; rows
that are exchanged by pointers while the numbers stay where they are. `PROJECT.json` lists each at its
line, with the property that would catch it.

## 2. The modules

| Module | Models | Uses |
|---|---|---|
| `FrameAllocator` | what a ring promises, abstractly | – |
| `RingBuffer` | `RingBuffer` and the GPU | `FrameAllocator` (refinement) |
| `RingBufferProofs` | theorems about `RingBuffer` | `RingBuffer`, TLAPS |
| `ConstantBufferPool` | `ConstantBufferPool` | `RingBuffer` (composition by `INSTANCE`) |
| `ConstantBufferPoolProofs` | theorems about `ConstantBufferPool` | `ConstantBufferPool`, `RingBufferProofs` (twice, by `INSTANCE`), TLAPS |
| `FrameSlots` | the state of a `FrameDataManager` as a value, with its index arithmetic | – |
| `FrameDataManager` | `FrameDataManager`, its owner and the GPU | `FrameSlots` |
| `FrameDataManagerProofs` | theorems about `FrameDataManager` | `FrameDataManager`, TLAPS |
| `Graphics` | the frame loop: scene, `Graphics`, the Contexts, the queue, the swap chain, `DXWindow::clear` | `FrameSlots` (two levels), implements `CommandMemory` |
| `CommandMemory` | what a frame loop promises about allocators and lists, without saying by which waits (abstract) | – |
| `GraphicsProofs` | theorems about `Graphics` | `Graphics`, TLAPS |
| `PipelineSet` | a `PipelineSet` with its `PipelineResourceBinder`, the `DescriptorHeapPool` and the paints that draw with it | `RingBuffer` (composition by `INSTANCE`) |
| `PipelineSetProofs` | theorems about `PipelineSet` and about `Pipelines` | `PipelineSet`, `Pipelines`, `RingBufferProofs` (twice, by `INSTANCE`), TLAPS |
| `DX12Resource` | descriptions, `create*`, views, `update`, footprints: what a resource is, without time | – |
| `RenderPasses` | the managers' resources, the passes of a paint, the barriers they record, and the GPU that runs them | `DX12Resource` |
| `RenderPassesProofs` | theorems about `RenderPasses` | `RenderPasses`, TLAPS |
| `DX12Fence` | `DX12Fence`, in its two uses | – |
| `CopySource` | where `ResourceUploader` puts data in its copy sources | `DX12Resource` |
| `ResourceUploader` | `ResourceUploader`, its users, the copy queue, and another owner of a fence | `DX12Fence`, `CopySource` |
| `ResourceUploaderProofs` | theorems about `ResourceUploader` and `DX12Fence` | `ResourceUploader`, TLAPS |
| `RootSignatureInfo` | `RootSignatureInfo`, `ShaderResourceInfo`, and the rules by which D3D12 finds descriptors | – |
| `MeshPipeline` | every pipeline that is declared, in both languages | `RootSignatureInfo` |
| `Primitives` | plane, tetrahedron, vertex structs, the views of a mesh | – |
| `SceneDraws` | what the scenes draw and what they set for it | `MeshPipeline` |
| `Pipelines` | a pipeline from `create` over `update*`, `clone` and `bind` to the draw | `MeshPipeline`, `Primitives` |
| `SceneInfo` | the named elements of a scene: load, add, merge, update, delete, draw | – |
| `SceneEditor` | `SceneInfoMediator`, the debug server's thread, the paint thread, `~DXWindow` | `SceneInfo` |
| `SceneEditorProofs` | theorems about `SceneEditor` and `SceneInfo` | `SceneEditor`, TLAPS |
| `Rationals`, `SimpleMath` | exact numbers; buffers, vectors, matrices, quaternions and the functions on them | – |
| `Transforms` | what the scenes calculate from frame to frame; `inverse`, row by row | `SimpleMath` |
| `MC…` | the finite sets, descriptions and tables that TLC needs for the module of that name | |

The modules from `FrameAllocator` to `ResourceUploaderProofs` are about time,
those from `RootSignatureInfo` to `Pipelines` about agreement, `SceneInfo`,
`SceneEditor` and its proofs about two threads, and `Rationals`, `SimpleMath`
and `Transforms` about numbers.

### 2.1 RingBuffer

State: one variable per member (`mBufferSize`, `mCurrentOffset`,
`mCurrentUsedByteSize`, `mFrameCounter`, `mFrameQueue`), the local
`allocateByteSize` of a running `updateCurrentOffset` (`request`), the fence
(`signalled` on the queue, `completed` by the GPU), and `regions`: what was
handed out and the GPU may still read.

`updateCurrentOffset` may block on the fence, so it is four actions:
`BeginAllocate` (the wrap at the tail, made before anything is checked),
`ReclaimOldest` (one turn of the loop after its wait), `ThrowFull` and
`FinishAllocate`. Every other method is one action. `init` and `clear` wait on
the last ended frame, so `ClearMayGo` guards them. `GpuCompletes` moves the
fence by one frame and ends the reads of that frame.

A region of a frame that was not ended stays in `regions` until the frame is
ended and complete: the GPU has not run it. `clear` forgets it, as the header
(`RingBuffer.h`) asks the caller to see to it.

### 2.2 ConstantBufferPool

`Ring == INSTANCE RingBuffer` with the pool's rounded size and the rounded
request sizes: each action is the ring's, joined with what the pool does around
it. `offset` is the local of `allocate` that reads the cursor *before*
`updateCurrentOffset`; `views` are the constant buffers as the GPU sees them,
which is not always the region that the ring accounts for.

### 2.3 DX12Fence, CopySource and ResourceUploader

`queue` is what the GPU has not reached, work or values to signal; `armed` the
values tied to the one auto-reset event. A wait is three steps
(`BeginWait`/`WaitForNext`, then `EndWait` or `TimeOut`) so that the GPU may
reach the value anywhere between. `owner` chooses how the fence is used:
`"counter"` (`RingBuffer`, `FrameDataManager`) or `"drain"`
(`ResourceUploader`), because `sSignalAndWait` derives its value from the
completed one and is only meant for a fence it has for itself.

`DX12Fence` has no run of its own: `ResourceUploader` extends it, its actions
of the `"drain"` owner are joined with those of the uploader, and those of the
`"counter"` owner stay as they are, so that one run checks both.

An uploader is created by an `init` function of a scene, entered with copies
and uploaded, cleared, or destroyed, in any order (`InitUploader`, `EntryCopy`,
`BeginUpload`, …, `BeginDestroy`, `EndDestroy`); `init` may fail at any point.
`upload` is the steps `BeginUpload`, `UploadSignals` or `SignalFails`,
`UploadWaits`, `EndUpload`, because the GPU runs meanwhile. `wanted` is the copy
each target should hold, `content` the one it holds. An exception inside an
`entry` leaves the state as it was, but for a recording that was opened. Every
target in `src/` outlives the uploader.

What is copied is not a token: `CopySource` lays the data out as `entryBuffer`
and both `entryTexture` do, over `Footprint` of module `DX12Resource`
(`getCopyableFootprints`), and `GpuCopies` yields the entered data only if the
copy reads exactly those bytes (`Intact`: regions at multiples of 512, inside
the source, apart from each other, rows at the right pitch, every level there)
from a source that is still alive.

### 2.4 FrameSlots, FrameDataManager, Graphics

`FrameSlots` is the manager's state as a record with `currentFrameIndex`,
`prevFrameIndex` and the marks as operators, so that `Graphics` can hold one
manager for the frames and one in each Context. `FrameDataManager` is one such
manager with its owner and a GPU; `inUse[i]` is what the slot's data is used
by.

`Graphics` composes both levels with the queue and the swap chain. The paint
thread's `pc` stops where the thread waits or hands something to the queue:
`WaitForCurrentFrame`, then either `Record` (one list, executed by `present`)
or `BeginRecord`, `WaitForList`, `ExecuteAndSwap`*, `EndRecord` (the style of
`BetterDrawCallScene`), then `Present` and `EndAndGoNextFrame`. `Close` starts
`DXWindow::clear`, which waits for the last frame and then releases slot by
slot. The style is chosen once, in `Init`: a scene uses one.

`CommandMemory` is the abstract specification of this: six actions over the slot
that is taken, the list that is recorded, the lists that fly and the slots that
are released. It has no fence, no mark and no queue, so it does not say which
list ends first, only what must have ended before memory is used again.

### 2.5 PipelineSet

The state of the binder is `tables` (for each descriptor table the frame of the
pool it was allocated in, its offset and the entries that were set since) and
`addresses` (the root views that have a GPU address). `heap` says of each
descriptor which update wrote it last, and `reads` which descriptors the draws
recorded so far read, with their frame: they leave it when the GPU has run that
frame. `Pool == INSTANCE RingBuffer` is the `DescriptorHeapPool`.

The `update*` methods of a table are one action when the table is of this frame
(`UpdateEntry`) and the ring's allocation otherwise (`BeginAllocate`,
`ReclaimOldest`, `FinishAllocate` or `ThrowFull`). `UpdateView`, `Clone`,
`Bind` (with the draw after it), `BindThrows`, `EndPaint` and `Clear` are one
action each. An exception goes up to `src/dx12Test/main.cpp:27` and ends the
program (`pc = "terminated"`), so no paint goes on with half of an update.

`CallerRules` names what the scenes keep to and the binder does not enforce: a
table that a draw uses is updated again only behind a `clone` that replaces it
(`"clone to update"`, `PipelineSet.h:25`), and every table is updated in every
frame it is drawn in (`"update every frame"`). Both are needed: see section 5.

The sampler tables take their descriptors from a second pool in the same way;
the model has one. Root constants are left out: they are copied into the list.

### 2.6 DX12Resource and RenderPasses

`DX12Resource` has the data of the class as values: a description, the resource
that `create*` makes of it (`good` if D3D12 accepts the description), the views
that `makeSRV`, `makeUAV`, `makeRTV` and `makeDSV` derive from it, with the
branches as the code has them, and the mapping of a buffer. `Accepts`,
`Admits`, `Shows` and `Copyable` are D3D12's rules, as far as the code depends
on them, and external.

`RenderPasses` makes every resource from its manager's description (`GBuffer`,
`ShadowMap`, `SSAOResources`, `LightingTexture`, `VolumetricResources`,
`MeshBuffers`, `FrameResources`). `tracked` is `mCurrentStates` of each
resource, changed when a barrier is *recorded*; `gpuState` is the state the GPU
has it in, changed when the barrier *runs*. A pass is a sequence of commands,
each the barriers of one `setBarriers` and the draw, dispatch or copy behind it,
as pairs of a resource and the state that it must be in. A pass need not make a
barrier for each of its resources: the blurs of `SSAOManager` and the lighting
rely on the pass before, and `Command` keeps the two apart. `StatesBehind` is
`mCurrentStates` behind each command of a pass, from which the barriers of the
next are made. What is executed is one sequence, `queue`: the commands in their
order, and a mark where a list ends or a frame is presented. `written` is the
frame whose work wrote a resource last. The view through which a pass uses a
resource is found by index (`ViewIndex`), as in the code.

`style` is the scene: `"deferred"` is `DemoScene` (and `DefferedRenderScene`,
which is the same with both toggles off), where the user turns SSAO and
volumetric light on and off between any two frames; `"forward"` are the scenes
that draw to the back buffer, with any number of `executeAndSwap` in the paint,
as `BetterDrawCallScene` has. The slots of `Graphics` are abstracted to
`Slot(f)`; that they belong to the back buffer that is presented is
`DrawsIntoBackBuffer` of module `Graphics`.

Two rules of Direct3D are in the model, both external: lists run in the order
in which they are executed, and *buffers* fall back to `COMMON` at the end of
each list. The properties about states therefore speak of textures only.
Textures that are uploaded once and then only read are left out.

### 2.7 RootSignatureInfo, MeshPipeline, Primitives, SceneDraws, Pipelines

`RootSignatureInfo` is pure: `BindingInfos` is `analysis`, which walks the
parameters and ranges of a root signature and gives each register its root
index and its place in the table; `Inserted`, `Appended` and the searches are
those of the C++ maps, with a record in place of the hash (`BindingHash`). At
its end are D3D12's rules (`Places`, `Sees`), by which a shader finds the same
descriptor. `MeshPipeline` lists the pipelines: root signature, registers,
inputs and outputs of the stages as the HLSL says; input layout, formats,
depth, topology and replaced root indices as the C++ says. `Primitives` computes
the vertices and indices of the two shapes; `SceneDraws` what each scene sets by
name for which mesh. A draw there has two remarks about the scene: `ends`, how
its calls end the program where they do not fit the pipeline (`MipmapReference`,
and the editor's pipelines for the depth pass), and `fits`, whether the pipeline is
one for the mesh and the target, which the editor does not compare.

`Pipelines` takes one draw (`use`) through the code, with `at` for where it is:
`CreateRootSignature`, `CreatePipelineState`, both of which the device may fail
(`DeviceFails`), `AppendShader` for each `stage`, `CreateBinder`. A paint
(`BeginPaint`) makes the calls that all objects share, one `step` after another
(`Update`, or `SkipUpdate` where the scene asks whether the name is there), and
after them (`EndShared`) for each `object`: `CloneForObject` if the scene clones,
the object's own calls, `BindForDraw`, which validates, and `Draw`, which reads.
An element of `elements` is one entry of the binder with the names under which
its cells were set and the paint in which that was; `drawn` has the tables that
draws of this paint use and no clone has replaced. `fault` names the first thing
that ends the program although the device did nothing wrong: a refused
declaration, a name or an index that leads nowhere, something left unset
(`NothingRefused` allows what `ends` says and nothing else). Placement in the descriptor heap is left to `PipelineSet`.

The end of the module compares the declarations of a draw without a paint.
`Place` is the cell to which the declarations lead a call. `WellDeclared` says
that D3D12 takes what is declared and the stages agree on names they share; that
every call without a question leads to a cell, every cell is set, by the object
where its clone empties the table, and at a place where a stage looks only the
stage's name is set; and that where there are several objects, what an object
sets is a root view or in a table its clone replaces. `AgreementDecides` is that
this comparison and the paints come to the same answer.

### 2.8 SceneInfo and SceneEditor

A hash is a function from the names that can occur to entries. What json and
files decide is in the values: `valid`, `system`, `Unloadable`. `SceneInfo` has
the operations as operators (`Merge`, `CreateObject`, `UpdateObject`, `Erase`,
`Paint` …), each whole, with its exceptions and the entries it leaves behind.

`SceneEditor` runs two threads over them. The main thread loads the scene,
delivers, paints, and at the end clears, stops the server and joins it. The
server's thread takes a message, and turns it into additions, deletions or
updates. Each thread's steps end where it takes or gives up the mutex, or
touches what the other may touch: `deliver` merges the additions, then deletes,
then updates, one element a step. Where the code walks a container without the
mutex, a conflicting access of the other thread at that point is a data race:
`fault = "race"` is one of its outcomes, an order of the two accesses the
other. `MainReads` to `ServerWrites` say which containers a step may meet the other
thread over, to know where to offer that outcome; they are not a characterisation of
the races, and no property is about them (the reads of `isExistData`, for one, are
left to the order of the two accesses). Clients are bounded by `MaxMessages`.

The line that starts the server's thread is commented out
(`src/dx12Test/DXWindow/DXWindow.cpp:62`). `ServerRuns = TRUE` is the program
that the handlers were written for; with `FALSE` the races go.

### 2.9 Rationals, SimpleMath, Transforms

Numbers are exact: a pair of integers, `Undefined` for NaN and infinities. An
angle is the cosine and sine of its half, from Pythagorean triples, so turns
stay rational. `SimpleMath` follows the header function by function (operators,
`normalize`, `makeRota*`, `makeView`, `makePerspective`, quaternions …), with the
row-vector convention and with the order of the quaternion's members.
`Transforms` is the state machine of what a scene does with them: `Turn`s in a
row, kept as a matrix and, apart from it, by quaternions; cameras that look at
the result; and `inverse`, whose decomposition is one step per row
(`DecomposeRow`, or `GiveUp` when no pivot is above the tolerance), with the
rows where the code leaves them and `pRow` the pointers that are exchanged.

## 3. The runs

| Run | Instance | Checks | Result |
|---|---|---|---|
| `ring` | ring of 5, requests of 1, 2, 3, 5, 4 frames | `TypeOK`, `QueueCoversGpu`, `NoOverwrite`, `ClearAfterGpu`, `ImplementsAllocator`, `AllocationEnds` | hold |
| `pool` | alignment 256, pool of 1200 (1280), requests of 64, 256, 600 | `NewViewIsSound` | holds |
| `pool_tail` | same | `NewViewInPool` | violated |
| `uploader` | 4 values, 3 copies to a buffer and three textures of up to 9 levels, waits with and without a limit | `UploaderTypeOK`, `UploadedIsThere`, `WaitReachesValue`, `SignalAndWaitDrains`, `WaitEnds` | hold |
| `frames` | 3 slots, 8 frames | `Inv`, `DataIsFree`, `PrevWaitDrains`, `WaitEnds` | hold |
| `graphics` | 2 back buffers, both styles, 5 frames, 3 swaps | `Inv`, `ImplementsCommandMemory`, `ReleaseIsQuiet`, `PaintEnds` | hold |
| `graphics_clear` | same | `ClearEnds` | violated |
| `binder` | heap of 6, tables of 1 and 2, a root view, 2 draws and a clone in a paint, 3 frames | `DrawnIsKept`, `ClearAfterDraws`, `BoundIsComplete` | hold |
| `passes` | 1280 × 720, 2 back buffers, both styles, 4 frames, 2 swaps | `StatesMatch`, `ReadsAreFresh` | hold |
| `pipelines` | 139 draws: those of the scenes and the library's other pipelines, 2 paints | `NothingRefused`, `ShadersReadTheirNames`, `DrawnTablesStay`, `DrawnAsMeant`, `AgreementDecides` | hold |
| `scene` | 4 scene files, 2 objects, 2 models, 2 pipelines, a phase, 2 textures, 2 events of clients, 1 call of the main thread | `AdditionsArrive`, `DeletedStayDeleted`, `PaintIsSound`, `OnlyLateRequestsAreDropped`, `Delivered`, `CloseEnds` | hold |
| `math` | 4 axes, 3 angles, 2 turns, 221 matrices and those that turns make, 2 tolerances | `TurnsAgree`, `CameraSees`, `Factorised`, `InverseIsOne` | hold |

What the runs that pass are about:

- `ring` and `pool`: no byte is handed out while the GPU may read it, through
  wraps, failed requests and clears.
- `uploader`: a wait can be trusted and is never lost; what an uploader was
  given is in its target after `upload` or after the destructor, from a source
  that was alive and laid out as the copy reads it.
- `frames` and `graphics`: what the CPU resets or releases has been run; `Inv`
  is the type invariant with `FramesInFlight` in the one, with `OpenListIsIdle`
  and `DrawsIntoBackBuffer` in the other.
- `binder`: a descriptor is not written under a draw, and what `bind` lets
  through is complete even where a heap at its limit makes updates throw.
- `passes`: D3D12 accepts every description, every use finds a resource, a view
  and a state that fit, whatever passes a frame runs, and no picture of an
  earlier frame gets into this one.
- `pipelines`: what HLSL and C++ declare is accepted, a shader reads what the scene
  set under the name of the register, in this paint, and what a clone does not
  replace no later object of the paint changes. Two kinds of draw do end the
  program, at the place `ends` says: `MipmapScene`'s reference, and the editor's with
  a pipeline for the depth pass. `AgreementDecides` is that these, and no others,
  fail the comparison `WellDeclared`, which the theorems of 4.6 take as hypothesis.
  The editor lets a file pair any pipeline with any mesh: that what is drawn is
  meant so is claimed of forward pipelines for the mesh's own vertex.
- `scene`: what a message adds arrives whole, what is deleted stays deleted, no
  order of requests makes a paint draw something that is missing, and the window
  closes. Of deletions and updates: a `deliver` that has the mutex drops none, every
  one it drops came in while it walked the list without the mutex
  (`OnlyLateRequestsAreDropped`), and every other deletion is applied in the end
  (`Delivered`).
- `math`: matrices and quaternions turn alike, a camera sees a point where it
  is, and an inverse that is said to be found is the inverse. Two functions do not
  do what their comments say (section 5): `TurnsAgree` states them as they are, the
  half turn and the turn by nothing included.

### 3.1 Bounds

- *Ring.* The behaviours that differ are those of the cursor against the end of
  the buffer and against the oldest frame. A ring of 5 with requests of 1, 2, 3
  and 5 has requests that fit, that reach the tail exactly, that wrap, that are
  as large as the ring; four frames are enough for a frame to be reclaimed
  while two later ones are queued. `MaxUsed` only stops the repeated throws,
  each of which counts the tail again; it is above twice the ring, so that the
  count can be too large by a whole ring and more. The theorems hold without
  these bounds being small.
- *Pool.* The code's alignment, a pool of 5 units and requests of 1, 2 and 3
  units: the ring above in bytes.
- *Uploader.* Four values let a time-out, a second wait and a signal between
  them happen, twice, or three uploads through one fence. Three copies: two in one
  recording, to the same target, and one in another. The targets are what the
  scenes upload: vertices, the 4 × 4 byte dither pattern (rows shorter than
  their pitch), `panda.dds` (150 × 150, no powers of two, 8 levels) and the nine
  coloured levels of `MipmapScene`.
- *Frames, Graphics.* `MaxFrame` takes the slots round at least twice; 3 swaps
  bring each of the Context's lists round once within a frame.
- *PipelineSet.* A paint takes at most `1 + 2 + 2` descriptors, and up to `2`
  more when it gives up a tail, so with a heap of 6 one paint can fill the heap
  and an update of it can throw; a frame that takes the heap *exactly* is not
  claimed to be safe (section 5). Two draws with a clone between them are the
  least at which an update can meet a draw of its own frame; three frames let
  the ring come back to the descriptors of the first.
- *RenderPasses.* With 2 back buffers, 4 frames use each of them twice, and
  every sequence of three choices of passes comes before a fourth; 2
  swaps put three lists into one paint. The screen is the size of the window.
- *Pipelines.* There is no bound on the data: `AllDraws` has every draw of the scenes
  of `src/`, each vertex type, both shapes; for the editor, whose scene file chooses,
  all three types of pipeline, for each vertex, with a mesh of each. Two paints show what is
  left over from the one before; two objects in each, what a clone replaces.
- *SceneEditor.* Two elements of a kind let one be there and the other come;
  two events of a client let the second meet any step of the main thread that
  delivers the first, and the messages are chosen to be refused, to name what
  is there, and to add, delete and update the same object at once. The files are one
  without fault, one whose model has no `"system"`, one whose pipeline is for the depth
  pass, and one that cannot be read.
- *Transforms.* Two turns do not commute. All matrices with rows among six are
  every pattern of exchanges in three columns, some singular; the tolerance 0
  takes any pivot, 3/2 refuses some matrices.

### 3.2 Fairness

- The GPU gets through its queue (`WF` of its step): every list is finite and
  the queue is in order. A removed device is not modelled.
- The thread goes on when the wait it is in may return, and does not stop
  inside an operation of the library (`WF` of the steps inside an operation).
  The function that made an uploader comes to its end, and with it the
  uploader's destructor.
- The main loop dispatches paints and the server's thread polls until they are
  stopped (`WF` of either thread's steps). The mutex needs no strong fairness
  because the number of a client's events is bounded: a mutex that is taken again
  and again is free in the end.
- Nothing makes a caller begin an operation, end a frame, or paint, no client
  send a message, and no user close the window.

Without a limit on a wait, no liveness property depends on a time-out.
`CHECK_DEADLOCK FALSE` stands where the system really stops: a shutdown that
has ended, or whose `clear` waits for `2^64 - 1`; a pipeline whose paints are
over; a matrix that is inverted; the last frame of the bound.

## 4. The theorems

The theorems hold for every value of the constants that satisfies the named
assumption of the module; TLC evaluates each assumption on the instance of the
run. They are proved from an inductive invariant: it holds initially, every
action keeps it, and it implies the property. The bounds of a model are
constants too, so that no theorem depends on their being small.

### 4.1 RingBuffer

`RingBufferProofs` proves, for every ring size, set of request sizes and
bounds (assumption `RingBufferAssumption`: they are natural numbers, the size
and the requests not 0):

| Theorem | Statement |
|---|---|
| `RingInvariant` | `Spec => []IInv`, the inductive invariant |
| `RingTypeOK` | the cursor stays in the ring, the count never goes below 0 |
| `RingQueueCoversGpu` | a region the GPU may read belongs to a queued frame, and waits are for signalled values |
| `RingNoOverwrite` | what is handed out is free and inside the ring |
| `RingClearAfterGpu` | `clear` and `init` release the fence only when all ended frames are complete |
| `RingImplementsAllocator` | `RingBuffer` implements `FrameAllocator` |

Neither `NoOverwrite` nor `TypeOK` is inductive. `mCurrentUsedByteSize` is one
number that stands for the arcs of all queued frames, and the code takes one
arc off it at a time, computed from two neighbouring heads modulo the ring. The
invariant `IInv` is

- `FrameInv`: the queue holds consecutive frames, the last one the current
  frame; those taken off it are complete;
- `RequestInv`: inside `updateCurrentOffset` the request does not reach the tail
  unless the cursor is at 0 (a request as large as the ring goes there twice);
- `LedgerInv`: there is a ledger `d`, `d[i]` the length of the arcs from the
  head of frame `i` to the cursor, such that either the count is exactly `d[1]`
  and every region of frame `i` or later lies on the arc from head `i` to the
  cursor, or the count is too large by at least a ring.

The second case is what repeated throws at the tail lead to: then no request
fits until all other frames are reclaimed and the count is still above the
ring. So nothing is allocated again, which is safe, and useless (section 5).

`FrameAllocator` says what a user relies on: allocations of a frame do not meet
live ones, frames complete in order, a live region goes only when its frame is
complete or the pool is reset with nothing ended running. The mapping is
`frame <- mFrameCounter`, `ended <- signalled`, `done <- completed`,
`live <- regions`; every step is a step of the abstract machine or a stutter.

### 4.2 ConstantBufferPool

`ConstantBufferPoolProofs`, for every alignment, pool size and set of asked
sizes (`PoolAssumption`: the alignment and the sizes are not 0):

| Theorem | Statement |
|---|---|
| `PoolInvariant` | `Spec => []IInv`, the inductive invariant |
| `NewViewsAreSound` | a new view meets no view that the GPU may read, is aligned and has the size asked for |

The ring's theorem says this of the regions it hands out, and a view is not
always such a region: `allocate` reads the cursor before the ring moves it, so
behind a wrap the view begins with the tail that the ring has given up. The
proof uses the theorems about the ring a second time, by `INSTANCE`, with other
values for its variables. `Held` is the ring with `regions` extended by the
views, and by the view that a running allocation is going to make: the tail is
counted as used, so the ring's invariant holds of it as well. While a wrap is
pending, `Before` is the ring as it was at the tail. `AlignmentInv` keeps the
cursor and the offset at multiples of the alignment. The view can still end outside the pool: that is
`NewViewInPool`, which is violated (section 5) and which no theorem states.

### 4.3 FrameDataManager

`FrameDataManagerProofs` proves for every number of slots but 0
(`FrameDataAssumption`):

| Theorem | Statement |
|---|---|
| `FramesInvariant` | `Spec => []IInv`, the inductive invariant |
| `FramesTypeOK` | the marks and the counters stay in their ranges |
| `FramesInFlightBound` | the CPU is less than `FrameCount` frames ahead when it works on a slot |
| `FramesAreSound` | `Inv`, both of them |
| `FramesDataIsFree` | the data of a slot that was waited for is not in use by the GPU |
| `FramesPrevWaitDrains` | after `waitPrevFrame` no slot is in use |

Here too the checked properties are not inductive: that the slot may be used
follows from what its mark *is*, not from the wait alone. `IInv` adds `RoundInv`:
the mark of slot `i` is one of the last `FrameCount` frames, and the one with
`(mark - 1) % FrameCount = i - 1`; a slot without a mark was not reached yet;
and `UseInv`: the GPU uses a slot's data for no frame later than its mark. The
arithmetic of `%` that this needs is in lemmas of its own.

### 4.4 Graphics

`GraphicsProofs`, for every number of back buffers but 0 and both styles:

| Theorem | Statement |
|---|---|
| `GraphicsInvariant` | `Spec => []IInv`, the inductive invariant |
| `GraphicsIsSound` | `Inv`: an open list is none the GPU has still to run, and the slot of the frame is the back buffer that is presented next |
| `AllocatorsAreIdle` | `AllocatorIsIdle`: `record` and `beginRecord` reset an allocator only when the GPU has run every list of its slot |
| `ReleasesAreQuiet` | behind `waitPrevFrame` in the shutdown nothing is in the queue |
| `GraphicsImplementsCommandMemory` | `Graphics` implements `CommandMemory` |

A wait says something about a *list* because of what stands behind the list in
the queue. `FrameQueueInv`: the frame signals in the queue ascend and are later
than what their fence has completed, and behind each list there is one that is
not later than its slot's mark, unless the list is of the frame that is being
painted; between two paints the last entry is the signal of the last frame.
`ListQueueInv` says the same of the signals of the Contexts, slot by slot, when
lists are swapped. Thus a mark that is completed has no list in front of it.
`ThreadInv` is where the thread is, `RoundInv` that the swap chain and the slots
go round together.

The refinement forgets fences, marks and signals. `Taken` is the slot from the
reset of its allocator to the end of the frame, `Recorded` the list that is open,
or closed and not yet handed over, `Flying` the lists in the queue, `Released` the
slots whose Context is gone. `Record` and `BeginRecord` are `Take`, `WaitForList`
is `Open`, `ExecuteAndSwap`, `EndRecord` and a `Present` with a list are `HandOver`,
a `GpuRuns` that comes to a list is `Run`; the waits of the frame, signals and the
first steps of the shutdown are stutters. The guards of `Take`, `Open` and
`Release`, which say what D3D12 asks for, are what `IInv` is needed for.

### 4.5 PipelineSet

`PipelineSetProofs`, for every heap, every set of tables and views and every
sequence of draws and clones (`PipelineSetAssumption`):

| Theorem | Hypothesis | Statement |
|---|---|---|
| `PipelineSetInvariant` | – | `Spec => []IInv`, the inductive invariant |
| `HeapsAreReleasedAfterDraws` | – | `clear` releases the heap when all draws of ended frames are complete |
| `BoundTablesAreComplete` | `"update every frame"` | what `bind` lets through is in the heap as it was set in this frame |
| `DrawnTablesAreKept` | both rules | an update writes no descriptor a recorded draw may read, but in a frame that took the whole heap |

The hypotheses are members of `CallerRules`, what the scenes keep to and the
binder leaves to them (2.5); without them the properties are false, and the run
has both. `IInv` is the invariant of the ring, by `INSTANCE`, with `TableInv`
(tables of this frame have regions of the pool to themselves, in which stands
what was set), `ReadInv` (what the GPU may read lies in held regions) and
`UnreadInv`: a table of this frame that no draw of this paint uses is not read
at all. That one has an exception, a frame that went once around the heap: then
two tables of one frame may share descriptors. That nothing is allocated
afterwards is again a fact about the ring, in the second case of its
`LedgerInv`. `Full`, the ring with one region that no ring has room for,
satisfies the ring's invariant only in that case, and so it says "too full for
good" without repeating the ledger.

### 4.6 Pipelines

The second part of `PipelineSetProofs`, for every set of draws, any number of
shared and own calls, of objects and of paints (`PipelinesAssumption`, which says
only what a draw is):

| Theorem | Hypothesis | Statement |
|---|---|---|
| `PipelineInvariant` | `WellDeclared` | `PipelineSpec => []PipelineInv`, the inductive invariant |
| `DeclaredDrawsRun` | `WellDeclared` | `NothingRefused` and more, `fault = "none"`: no declaration is refused, and no name, index or unset cell ends the program, whatever `ends` says |
| `NamesReachTheirRegisters` | `WellDeclared` | `ShadersReadTheirNames`: at each register is what this paint has set under its name |
| `DrawnTablesAreLeftAlone` | `WellDeclared` | `DrawnTablesStay`: no update touches a table that a draw of this paint uses |

The theorems separate what a compiler could compare from what happens in time.
`WellDeclared` is a comparison of tables, of the draw alone, and the run
evaluates it for every draw that comes to a draw call (`AgreementDecides`); what `analysis` counts
is in it, because that is a fold over the ranges of concrete root signatures. The
theorems add that nothing else is needed: from there on, no order of shaders, no
number of objects, and nothing that is left over from an earlier paint makes a
shader read something else.

`PipelineInv` has four parts beside the hypothesis. `CreatedInv`: the tables of
names and registers are what the declarations say, which while the shaders are
appended holds for the stages that were (`NamesInv`), and a name that two stages
share keeps its register. `EntriesInv`: a filled cell has the name of a call that
leads to it. `CallsInv`: a call that was made in this paint is still in effect,
up to `step` in the running list, and the shared calls still after a clone,
unless it replaces their table. `DrawnInv`: before the first draw no table is
drawn, and after a clone none that is replaced. None of the three properties is
inductive: a draw reads cells that were set any number of objects before.

### 4.7 DX12Fence and ResourceUploader

`ResourceUploaderProofs`, for every set of targets, number of copies and of
values (`FenceAssumption`: at least one value):

| Theorem | Statement |
|---|---|
| `UploaderInvariant` | `Spec => []IInv`, the inductive invariant |
| `UploaderTypes` | `UploaderTypeOK` |
| `UploaderDelivers` | `UploadedIsThere`, if every target is laid out intact (`Targets \subseteq Intact`) |
| `FenceWaitReachesValue` | a wait that returns through its event has reached its value |
| `FenceDrains` | when `sSignalAndWait` returns the queue has run everything executed |

`sSignalAndWait` signals one more than a value it read before and has no
counter, so `DrainInv` says what the queue looks like while the thread is in
there: empty and the value reached, or work with this one signal behind it.
`CounterInv` is the other use, whose signals follow on each other; `EventInv`
ties the event to nothing but the wait that goes on. What a failed registration
or a time-out leaves behind is outside of them, as it is of the properties: an
auto-reset event that was left armed may wake a later wait. For the uploader,
`CopiesInv` and `StepInv` are where `upload` is, and `ArrivalInv` follows the
data: the list in the queue, or the recording, brings each target the copy that
is wanted (the *last* of its copies in that list), from sources that are alive.
Whether the bytes of one entry are laid out as the copy reads them is arithmetic
of `CopySource` over concrete formats; the theorem takes it as hypothesis, and
the run evaluates it for what the scenes upload.

### 4.8 SceneInfo and SceneEditor

`SceneEditorProofs`, for every set of names, scene files, messages and local
calls, with and without the server's thread:

| Theorem | Statement |
|---|---|
| `EditorInvariant` | `Spec => []EditInv`, the inductive invariant of the two threads |
| `AdditionsAreDelivered` | what a message adds waits under free names until it is merged whole |
| `DeletionsHold` | what `deliver` has deleted is not there in the paint |
| `NoRequestIsDropped` | `OnlyLateRequestsAreDropped`: a `deliver` that has the mutex drops no deletion and no update |
| `PaintsAreSound` | `PaintIsSound`: what a paint draws has its resources, and nothing but a race ends the program unless something risky was asked for |

Assumptions: `NoneAssumption` and `SceneNames` tell "nothing" from every
element; `EditorInputs` is what the types of a message and of the mediator's
calls allow; `SceneInputs` what a scene file may hold, and that a file is
*risky* if it has what nothing checks (an element without `system`, a pipeline for
the depth pass, a model without a texture that loads, an object with a pipeline the scene will not
have).

`EditInv` adds to the properties who has the mutex at which step (`LockInv`) and
that deletions come behind the merge (`DeleteInv`). `WalkInv` is for
`NoRequestIsDropped`: while `deliver` walks a list with the mutex, all that stands in
the list was there when the walk began (`due`); so what `clear` takes out and nobody
has applied can only come from a walk without it. `PaintInv` is for
`PaintsAreSound`, and follows everything an object can come from: the values in
the message, in the update list, waiting and in the scene (`Values`) name only
pipelines that are there, every enabled model has its texture, the order of the
phases names phases that are there, and no deletion of a pipeline or a phase
waits (`SceneInv`, as long as nothing risky was asked for).

### 4.9 RenderPasses

`RenderPassesProofs`, for one to three back buffers, every screen size, any
number of frames and swaps, and every choice of passes from frame to frame:

| Theorem | Statement |
|---|---|
| `PassesInvariant` | `Spec => []IInv`, the inductive invariant of what is recorded and not run |
| `BarriersAreRight` | the barrier part of `StatesMatch`: a barrier is made from the state the texture is in when the GPU gets to it, and a command finds its textures in the states in which it uses them |
| `ReadsAreFreshAlways` | `ReadsAreFresh`: what a pass reads and what is presented was written in its frame |
| `StatesMatchAlways` | all of `StatesMatch`: D3D12 also accepts every description, and each command finds resources that were made for what it does with them |

The state in which a barrier is made and the one in which it runs lie any
number of commands, lists and frames apart, so an invariant about the two ends
alone (`tracked` and `gpuState`) says nothing that a step would keep. `TraceInv`
is about everything between them: there is a sequence of states, one in front of
each command that is recorded and not run yet (`Pending`), that begins with
`gpuState` and ends with `tracked`; the barriers of each command lead from its
state to the next, in which it uses its textures. Beside it there is a sequence
of frames, from `written` to what will have been written when all that is
recorded has run, by which each command reads what its own frame has drawn.
`Fresh` names what is of this frame at each step of the paint.

The argument has three parts. A pass whose commands ask for no resource twice,
and find what they rely on, adds states and frames to the end (`PassRuns`,
`TraceGoesOn`); the pass lemmas (`ShadowPass` to `ForwardPass`) show it of every
pass of the library, with `ThreadInv` for the one state that a pass of the forward
scenes relies on without any barrier, the depth buffer of its slot. The GPU takes
the first command off (`TraceShifts`, `CommandRuns`); the end of a list changes
buffers only, of which the trace does not speak.

`StatesMatchAlways` needs a second, simpler invariant beside it, `FitInv`: every
command that is recorded and not run fits its resources (`Fits`), and the scene's
`init` has not ended the program. Its weight lies in what is constant. From each
manager's description, as it is written and rewritten field by field in
`create`, follow what the API accepts (`TextureIsMade`, `BufferIsMade`), what the
views show that are appended to it (`MadeViewsShow`, `WithViews`) and so what each
resource may be used for (`ResourcesAreMade`, `OthersAreMade`). The only place
where the size of the screen matters is the number of levels of the slots' depth
buffers, for which some power of two is found for every side up to 16384
(`PowersReach`), the limit that `RenderPassesAssumption` takes from D3D12.
The pass lemmas (`ShadowFits` to `ForwardFits`) then go through the uses of
each pass.

### 4.10 What is not proved

- Liveness (`AllocationEnds`, `WaitEnds`, `PaintEnds`, `Delivered`, `CloseEnds`):
  it needs fairness and `ENABLED`, which the prover does not treat.
- `DrawnAsMeant` and `AgreementDecides` are about tables of declarations: there is
  nothing to generalise, and TLC looks at every declaration there is.
- What `SimpleMath` computes: `Rationals` has a recursive operator (the greatest
  common divisor), so its users are TLC's.
- Induction over data is out of the prover's reach. Where a proof needs some
  (the last copy of a list, the first element of a name), it takes the least
  counterexample of a set of numbers, which the well-foundedness of `<` gives.

## 5. What the code does otherwise than it says

Shown by a run:

- **A constant buffer past the end** (`pool_tail`). `ConstantBufferPool::allocate`
  places the view at the cursor before the wrap (`ConstantBufferPool.cpp:61`).
  The view is free of others (`NewViewIsSound` holds: the tail was given up for
  the frame), but ends beyond the pool.
- **Closing waits for ever** (`graphics_clear`). `FrameDataManager::clear` waits
  for `mCurrentFrame - 1`, which is `2^64 - 1` for a Context that was only used
  through `record`.

Met while modelling, and part of the models:

- *A frame that uses exactly the ring never ends.* The cursor is then where the
  frame began, `endAndGoNextFrame` takes the frame for empty
  (`RingBuffer.cpp:102`), and the next allocation throws.
- *Throws leak the tail.* `updateCurrentOffset` counts the tail and moves the
  cursor before it knows that the request fits (`RingBuffer.cpp:55`). A few
  failed requests at the tail make the ring refuse all requests for ever. The
  scenes let the exception end the program, so none asks again.
- *An uploader loses copies* in `init` and `clear` while a recording is open
  (`ResourceUploader.cpp:41`), and leaves their targets tracked as `COPY_DEST`.
  `UploadedIsThere` says that nothing else does. No scene does this.
- *The editor's walks without the lock.* `deliver` looks at the lists of
  deletions and updates without the mutex when the hashes were empty
  (`SceneInfoMediator.cpp:57`): a deletion that comes in between may be cleared
  unseen. `OnlyLateRequestsAreDropped` says that no other is. `mergeRenderPhase` throws for every *new* phase
  (`SceneInfo.cpp:138-149`). A pipeline that is added through the mediator has no
  implementation, and the paint that uses it ends the program; so do a model of
  the file without `"system"` and a pipeline of type `zpass`, for which the paint sets
  a material that it does not have (`SceneEditorScene.cpp:125`). A paint puts an empty model in the place of a
  missing one, after which the model's addition is refused. `PaintIsSound` sets
  these apart with `risky`.
- *`inverse` refuses regular matrices.* `LUDeterminant` multiplies the diagonal
  where the rows lie, and not in the order of the exchanges, so after an exchange
  it may find 0, as for a perspective whose near plane is beyond 1. With a
  tolerance of 0 a singular matrix may come back as a success, with no numbers
  (doc: `SimpleMath.h:2152-2160`). `InverseIsOne` claims what is left.
- *A reference that cannot be shown.* After the key 1 `MipmapScene` draws with a pipeline
  that needs `CBMaterial`, which it never sets: `bind` throws (`MipmapScene.cpp:170`)
  and the program ends, although the key's message offers the levels of the GPU
  (`MipmapScene.cpp:127`). `NothingRefused` names this draw, and `AgreementDecides` says
  that it never gets as far as the draw call.
- *Three more of the math:* `makeRotaQuaternion(base, target)` turns around for
  the same direction and leaves opposite ones, because of the sign at
  `SimpleMath.h:2482`; its comments (2470, 2481, 2483) say the opposite.
  `convertRota` never writes `_33` of the matrix it makes of a quaternion
  (`SimpleMath.h:2627` is the last one written). `TurnsAgree` states both. `makeView` takes the eye's height along the given up and
  not along the one it has made orthogonal, so a light's second coordinate is
  off (`src/dx12Test/scene/DemoScene/DemoScene.cpp:131`).
- *`DX12Resource`:* the test for arrays in `makeSRV` is always true, so no view is one of
  an array, a cube or samples; `makeUAV` of a volume has no slices;
  `setClearValueForDepth` drops the stencil (`DX12Resource.cpp:939`);
  `sCalMipLevel` counts a level too many for sides that are no powers of two (its
  one caller has 256 × 256). No manager of `src/` comes to these cases: `passes` and
  `uploader` would fail there.

Met while modelling, and outside of every run:

- `DefferedLightingManager` clears an unordered access view through a heap that is not
  shader visible (`DefferedLightingManager.cpp:60`, `DX12Resource.cpp:493`), which
  only a debug layer reports.
- The copy of `entryTexture` counts rows of texels, which is wrong for block
  compressed files; the files in the repository are not compressed.
- `VolumetricLightManager.cpp:123` uploads 10000 particles while the buffer has
  the size of the parameter, which is the same number in the one scene.
- `BetterDrawCallScene.cpp:106-119` reads the time stamps of one buffer only.
- The text macro of `PCVertexPipeline.hlsl:54` ends in a continuation; the plane
  in the ZY plane has the normals of its back; a root constant is never checked
  by `validate`; `DX12PipelineState.cpp:309` asserts less than 8 targets where 8
  are allowed; a node mask is not passed on (`PipelineSet.cpp:60`). No scene uses
  these.

Some things hold only under the conditions that the models state:

- A wait that times out leaves its value tied to the one event
  (`DX12Fence.cpp:81`), which may end a later wait too early. `WaitReachesValue`
  therefore speaks of waits before any time-out. No caller passes a limit.
- After a paint that takes exactly the whole heap, the frame is not ended (see
  above); the next paint then takes its tables for current and writes them under
  the GPU. `DrawnIsKept` and `ClearAfterDraws` leave out that frame
  (`FrameIsFull`).
- `DrawnIsKept` needs `"clone to update"`: without it an update after `bind`,
  which `PipelineSet.h:74` allows, changes what the draw before reads.
- `BoundIsComplete` needs `"update every frame"`: `validate`
  (`PipelineResourceBinder.cpp:451`) accepts a table of an earlier frame, whose
  place in the ring others may have by now.
- A clone shares the binder with the original (`PipelineSet.cpp:79`): the tables
  that it replaces are emptied in the original as well, and every update of one
  set is an update of the other, although `PipelineSet.h:60` says that only the
  parameters that are not replaced are shared. The scenes that clone draw with
  the clone only, which is why nothing breaks. `Clone` of module `PipelineSet`
  does what the code does.
- `DX12Resource` tracks the state of buffers as that of textures. A vertex
  buffer is created as `COPY_DEST` and uploaded on a copy queue, after which it
  is in `COMMON`; the particle buffer is in `COMMON` at the start of each frame.
  The first barrier of each names a state the API has left. `StatesMatch`
  therefore leaves the states of buffers out.

## 6. What is not modelled

- Device, heaps, descriptor heaps, query heap, sampler: each owns one object of
  D3D12 and keeps no protocol of its own. What D3D12 does with the calls is
  modelled where a property needs it, and marked external.
- Placed resources, memory pools of `DX12Resource`, blending, rasterizer and
  stream output of a pipeline state: nothing in `src/` uses them.
- Shader code beyond its declarations; the loading of files; the socket of the
  debug server (asio); json.
- Rounding. The numbers are exact; a property that holds for them holds for
  floats only up to their error. `PreviewCamera`'s roll has irrational steps, so
  the camera's controls are left out; `SimpleGeometry` is not used by a scene,
  and parts of it do not compile when instantiated.
- Failing D3D12 calls that become exceptions which end the program, but for
  those at which state is left behind: `SetEventOnCompletion`, `Signal`, the
  uploader's `init`, the creation of a pipeline and of a resource.
- In `Graphics`, the failing `init`: with no slots, `waitPrevFrame` divides by
  zero (`FrameDataManager.cpp:60`).
- Logging, key states, window messages other than paint and destroy, the
  smart-pointer macros, and vendored code.

## 7. Plan

What is left, in this order. Every safety property that a passing run checks has
its theorem, but for `DrawnAsMeant` and `AgreementDecides`, which compare tables, and
the four of `Transforms`, which are about the arithmetic of `SimpleMath`.

Models:

1. A paint of `Graphics` with one `ConstantBufferPool` and one
   `DescriptorHeapPool` on its queue: `CommandMemory` and `FrameAllocator`
   side by side, with one GPU.
2. The change from one scene to another, and a close from inside a paint.
3. `slerp` and the functions of `SimpleMath` that nothing calls yet.
