------------------------------ MODULE Graphics ------------------------------
(***************************************************************************)
(* The frame loop of the application: a scene's paint on top of            *)
(* hinode::graphics::utility::Graphics (dx12/utility/DX12Utility), the     *)
(* Context of each of its frames (utility/Context) and the one command     *)
(* queue they share (commandQueue), until DXWindow::clear.                 *)
(*                                                                         *)
(* Graphics has a slot of frame data per back buffer.  A slot's Context    *)
(* has one command allocator and two command lists that take turns on it;  *)
(* both levels are FrameDataManagers, each with a fence of its own.  A     *)
(* scene records in one of two styles: "record" fills the Context's        *)
(* current list and leaves its execution to present; "swap"                *)
(* (BetterDrawCallScene) executes the list and goes on in the other one,   *)
(* several times a frame.                                                  *)
(*                                                                         *)
(* The thread runs between two waits without an effect of the GPU on it,   *)
(* so its actions end where it waits or hands something to the queue.  No  *)
(* call of Direct3D fails here.                                            *)
(***************************************************************************)
EXTENDS FrameSlots, SequencesExt

CONSTANTS
    BufferCount,  \* DXWindow::InitParam::frameCount, the back buffers
    Styles,       \* how the scenes record: "record", "swap"
    MaxFrame,     \* bound of the frames painted
    MaxSwaps      \* bound of executeAndSwap in one frame

ASSUME GraphicsAssumption ==
    /\ BufferCount \in Nat \ {0}
    /\ Styles \subseteq {"record", "swap"}
    /\ MaxFrame \in Nat
    /\ MaxSwaps \in Nat

Slots == 0..(BufferCount - 1)
Lists == 0..1

VARIABLES
    style,       \* how the scene that runs records
    mFrameDatas, \* Graphics::mFrameDatas
    frameDone,   \* GetCompletedValue of its fence
    mCmdLists,   \* Context::mCmdLists of each slot
    listDone,    \* GetCompletedValue of the fence of each slot's Context
    recording,   \* the lists that are open, as <<slot, list>>
    cmdQueue,    \* what the GPU has not run: lists and signals
    backBuffer,  \* GetCurrentBackBufferIndex of the swap chain
    pc,          \* where the thread is
    swaps,       \* executeAndSwap calls in this frame
    toRelease    \* in DXWindow::clear, the slots still to be released

frameVars == <<mFrameDatas, frameDone, backBuffer>>
listVars == <<mCmdLists, listDone, recording>>
vars == <<style, frameVars, listVars, cmdQueue, pc, swaps, toRelease>>

Slot == currentFrameIndex(mFrameDatas)
List(slot) == currentFrameIndex(mCmdLists[slot])

RunList(slot, list) == [kind |-> "lists", slot |-> slot, value |-> list]
SignalFrame(value) == [kind |-> "frame", slot |-> 0, value |-> value]
SignalList(slot, value) == [kind |-> "list", slot |-> slot, value |-> value]

(* Graphics::init: the frame data, each with a Context of two closed lists *)
(* (DX12GraphicsCommandList::create closes what it creates).               *)
Init ==
    /\ style \in Styles
    /\ mFrameDatas = NewFrames(BufferCount)
    /\ frameDone = 0
    /\ mCmdLists = [s \in Slots |-> NewFrames(2)]
    /\ listDone = [s \in Slots |-> 0]
    /\ recording = {}
    /\ cmdQueue = << >>
    /\ backBuffer = 0
    /\ pc = "start"
    /\ swaps = 0
    /\ toRelease = {}
-----------------------------------------------------------------------------
(* Mutant of WaitForCurrentFrame: paint starts without the wait.           *)
WaitForCurrentFrameNoWait ==
    /\ pc = "start"
    /\ mFrameDatas.mCurrentFrame < MaxFrame
    /\ pc' = "frame"
    /\ swaps' = 0
    /\ UNCHANGED <<style, frameVars, listVars, cmdQueue, toRelease>>

(* paint: Graphics::waitForCurrentFrame returns.                           *)
WaitForCurrentFrame ==
    /\ pc = "start"
    /\ mFrameDatas.mCurrentFrame < MaxFrame
    /\ frameDone >= CurrentMark(mFrameDatas)
    /\ pc' = "frame"
    /\ swaps' = 0
    /\ UNCHANGED <<style, frameVars, listVars, cmdQueue, toRelease>>

(* Context::record: resets the allocator and the current list, runs the    *)
(* scene's function and closes the list.                                   *)
Record ==
    /\ pc = "frame"
    /\ style = "record"
    /\ pc' = "recorded"
    /\ UNCHANGED <<style, frameVars, listVars, cmdQueue, swaps, toRelease>>

(* Context::beginRecord resets the allocator, and only then waits.         *)
BeginRecord ==
    /\ pc = "frame"
    /\ style = "swap"
    /\ pc' = "waitList"
    /\ UNCHANGED <<style, frameVars, listVars, cmdQueue, swaps, toRelease>>

(* Mutant of WaitForList: the list is reset without the wait.              *)
WaitForListNoWait ==
    /\ pc = "waitList"
    /\ recording' = recording \cup {<<Slot, List(Slot)>>}
    /\ pc' = "recording"
    /\ UNCHANGED <<style, frameVars, mCmdLists, listDone, cmdQueue, swaps, toRelease>>

(* beginRecord and executeAndSwap: the wait for the current list returns,  *)
(* and the list is reset.                                                  *)
WaitForList ==
    /\ pc = "waitList"
    /\ listDone[Slot] >= CurrentMark(mCmdLists[Slot])
    /\ recording' = recording \cup {<<Slot, List(Slot)>>}
    /\ pc' = "recording"
    /\ UNCHANGED <<style, frameVars, mCmdLists, listDone, cmdQueue, swaps, toRelease>>

(* Mutant of ExecuteList: the Context's frame ends without its Signal.     *)
ExecuteListNoSignal ==
    /\ recording' = recording \ {<<Slot, List(Slot)>>}
    /\ mCmdLists' = [mCmdLists EXCEPT ![Slot] = EndFrame(@)]
    /\ cmdQueue' = Append(cmdQueue, RunList(Slot, List(Slot)))
    /\ UNCHANGED <<style, frameVars, listDone, toRelease>>

(* Closes and executes the current list and ends the Context's frame:      *)
(* executeAndSwap up to its wait, and all of endRecord.                    *)
ExecuteList ==
    /\ recording' = recording \ {<<Slot, List(Slot)>>}
    /\ mCmdLists' = [mCmdLists EXCEPT ![Slot] = EndFrame(@)]
    /\ cmdQueue' = cmdQueue \o <<RunList(Slot, List(Slot)),
                                 SignalList(Slot, mCmdLists'[Slot].mCurrentFrame)>>
    /\ UNCHANGED <<style, frameVars, listDone, toRelease>>

ExecuteAndSwap ==
    /\ pc = "recording"
    /\ swaps < MaxSwaps
    /\ ExecuteList
    /\ swaps' = swaps + 1
    /\ pc' = "waitList"

EndRecord ==
    /\ pc = "recording"
    /\ ExecuteList
    /\ swaps' = swaps
    /\ pc' = "present"

(* Graphics::present: executes the list it is given, if any, and flips the *)
(* swap chain.                                                             *)
Present ==
    /\ pc \in {"recorded", "present"}
    /\ cmdQueue' = IF pc = "recorded"
                   THEN Append(cmdQueue, RunList(Slot, List(Slot)))
                   ELSE cmdQueue
    /\ backBuffer' = (backBuffer + 1) % BufferCount
    /\ pc' = "presented"
    /\ UNCHANGED <<style, mFrameDatas, frameDone, listVars, swaps, toRelease>>

(* Graphics::endAndGoNextFrame, and paint returns.                         *)
EndAndGoNextFrame ==
    /\ pc = "presented"
    /\ mFrameDatas' = EndFrame(mFrameDatas)
    /\ cmdQueue' = Append(cmdQueue, SignalFrame(mFrameDatas'.mCurrentFrame))
    /\ pc' = "start"
    /\ UNCHANGED <<style, frameDone, backBuffer, listVars, swaps, toRelease>>
-----------------------------------------------------------------------------
(* DXWindow::clear, when the window is destroyed between two paints:       *)
(* waitPrevFrame returns, ...                                              *)
Close ==
    /\ pc = "start"
    /\ pc' = "close"
    /\ UNCHANGED <<style, frameVars, listVars, cmdQueue, swaps, toRelease>>

WaitPrevFrame ==
    /\ pc = "close"
    /\ frameDone >= PrevMark(mFrameDatas)
    /\ pc' = "clear"
    /\ UNCHANGED <<style, frameVars, listVars, cmdQueue, swaps, toRelease>>

(* ... Graphics::clear clears mFrameDatas, whose wait returns, ...         *)
ClearFrameDatas ==
    /\ pc = "clear"
    /\ ClearMark(mFrameDatas, frameDone)
    /\ pc' = "release"
    /\ toRelease' = Slots
    /\ UNCHANGED <<style, frameVars, listVars, cmdQueue, swaps>>

(* ... and releases the frame data slot by slot: Context::clear waits on   *)
(* the Context's own fence before its lists and its allocator go.          *)
ReleaseSlot ==
    /\ pc = "release"
    /\ \E s \in toRelease :
         /\ \A t \in toRelease : s <= t
         /\ ClearMark(mCmdLists[s], listDone[s])
         /\ toRelease' = toRelease \ {s}
         /\ mCmdLists' = [mCmdLists EXCEPT ![s] = NoFrames]
    /\ IF toRelease' = {}
       THEN pc' = "closed" /\ mFrameDatas' = NoFrames /\ frameDone' = 0
       ELSE UNCHANGED <<pc, mFrameDatas, frameDone>>
    /\ UNCHANGED <<style, backBuffer, listDone, recording, cmdQueue, swaps>>
-----------------------------------------------------------------------------
(* The command queue: the GPU takes what is next, runs it, or sets the     *)
(* fence it signals.                                                       *)
GpuRuns ==
    /\ cmdQueue # << >>
    /\ cmdQueue' = Tail(cmdQueue)
    /\ LET next == Head(cmdQueue)
       IN  /\ frameDone' = IF next.kind = "frame" THEN next.value ELSE frameDone
           /\ listDone' = IF next.kind = "list"
                          THEN [listDone EXCEPT ![next.slot] = next.value]
                          ELSE listDone
    /\ UNCHANGED <<style, mFrameDatas, backBuffer, mCmdLists, recording, pc, swaps, toRelease>>

Paint ==
    \/ WaitForCurrentFrame
    \/ Record
    \/ BeginRecord
    \/ WaitForList
    \/ ExecuteAndSwap
    \/ EndRecord
    \/ Present
    \/ EndAndGoNextFrame

Shutdown == WaitPrevFrame \/ ClearFrameDatas \/ ReleaseSlot

Next == Paint \/ Close \/ Shutdown \/ GpuRuns

Spec == Init /\ [][Next]_vars

(* The GPU gets through its queue, a paint that has begun goes on, a loop  *)
(* that swaps ends, and so does a shutdown when its waits let it.          *)
Fairness ==
    /\ WF_vars(GpuRuns)
    /\ WF_vars(pc # "start" /\ Paint)
    /\ WF_vars(Shutdown)

FairSpec == Spec /\ Fairness
-----------------------------------------------------------------------------
Pending == {cmdQueue[i] : i \in DOMAIN cmdQueue}

(* The lists of a slot's Context the GPU has not finished.                 *)
PendingLists(slot) == {e.value : e \in {p \in Pending : p.kind = "lists" /\ p.slot = slot}}

TypeOK ==
    /\ mFrameDatas.mCurrentFrame \in 0..MaxFrame
    /\ \A i \in DOMAIN mFrameDatas.mFrames :
         mFrameDatas.mFrames[i] \in 0..mFrameDatas.mCurrentFrame
    /\ frameDone \in 0..mFrameDatas.mCurrentFrame
    /\ listDone \in [Slots -> Nat]
    /\ recording \subseteq Slots \X Lists
    /\ backBuffer \in Slots
    /\ toRelease \subseteq Slots

(* ID3D12CommandAllocator::Reset wants every list of the allocator to be   *)
(* finished: the wait for the Graphics frame covers both lists of its      *)
(* Context, however often they were swapped, since beginRecord resets the  *)
(* allocator before it waits for anything itself (Context.cpp:56-57).      *)
AllocatorIsIdle == [][Record \/ BeginRecord => PendingLists(Slot) = {}]_vars

(* Graphics as a CommandMemory: the slot from the reset of its allocator   *)
(* to the end of the frame, the list that is open, or closed and left to   *)
(* present, the lists in the queue, and the slots whose Context is gone.   *)
Recorded == IF pc = "recorded" THEN {<<Slot, List(Slot)>>} ELSE recording
Taken    == IF pc \in {"waitList", "recording", "recorded", "present", "presented"}
            THEN {Slot} ELSE {}
Flying   == {list \in Slots \X Lists : list[2] \in PendingLists(list[1])}
Released == IF pc \in {"release", "closed"} THEN Slots \ toRelease ELSE {}

Memory == INSTANCE CommandMemory WITH
              taken    <- Taken,
              held     <- Recorded,
              flying   <- Flying,
              released <- Released

(* The waits of two FrameDataManagers, one inside the other, amount to     *)
(* what D3D12 asks for: the allocator that both lists of a slot share is   *)
(* reset before beginRecord waits for anything itself (Context.cpp:56), a  *)
(* list when its turn comes, and no slot is released with work to do.      *)
ImplementsCommandMemory == Memory!Spec

(* "If the other command list is still running, waits until it completes"  *)
(* (Context.h:52): no list is open while the GPU has yet to run it, and    *)
(* the one allocator never has two open lists.                             *)
OpenListIsIdle ==
    \A open \in recording : /\ open[2] \notin PendingLists(open[1])
                            /\ <<open[1], 1 - open[2]>> \notin recording

(* The slot Graphics draws into is the back buffer the swap chain will     *)
(* present, whose index the scenes also use (DX12Utility.h:110).           *)
DrawsIntoBackBuffer == pc \in {"frame", "waitList", "recording", "recorded", "present"}
                           => Slot = backBuffer

(* The states of Graphics: the types, the lists and the slot as above.     *)
Inv == TypeOK /\ OpenListIsIdle /\ DrawsIntoBackBuffer

(* When a slot's Context and render target are released, the GPU has run   *)
(* everything: waitPrevFrame is enough, though every clear waits for less. *)
ReleaseIsQuiet == [][ClearFrameDatas \/ ReleaseSlot => cmdQueue = << >>]_vars

(* A paint that has begun ends.                                            *)
PaintEnds == pc = "frame" ~> pc = "start"

(* "Releases the resources" (DX12Utility.h:63, of Graphics::clear):        *)
(* a shutdown that has painted a frame comes to its end.                   *)
ClearEnds == pc = "close" /\ mFrameDatas.mCurrentFrame > 0 ~> pc = "closed"
=============================================================================
