-------------------------- MODULE FrameDataManager --------------------------
(***************************************************************************)
(* hinode::graphics::utility::FrameDataManager                             *)
(* (dx12/graphics/dx12/utility/FrameDataManager) with its owner's thread   *)
(* and the GPU.                                                            *)
(*                                                                         *)
(* FrameCount slots of frame data take turns.  The owner waits for the     *)
(* current slot, records commands that use its data, executes them and     *)
(* ends the frame; the slot comes round FrameCount frames later.  A wait   *)
(* is two steps, its call and its return: the GPU goes on in between, and  *)
(* a wait for a value nobody signals never returns.                        *)
(***************************************************************************)
EXTENDS FrameSlots

CONSTANTS
    FrameCount,  \* the frameCount of create
    MaxFrame     \* bound of mCurrentFrame (64 bits in the code)

ASSUME FrameDataAssumption == FrameCount \in Nat \ {0} /\ MaxFrame \in Nat

VARIABLES
    manager,    \* the FrameDataManager
    good,       \* mFence.isGood()
    signalled,  \* the last value Signal put on the command queue
    completed,  \* GetCompletedValue of mFence
    pc,         \* the wait the thread is in: "idle", "current", "prev", "clear"
    waited,     \* the owner has waited for the current slot
    inUse       \* for each slot, the ended frames whose commands still use it

vars == <<manager, good, signalled, completed, pc, waited, inUse>>

Init ==
    /\ manager = NoFrames
    /\ good = FALSE
    /\ signalled = 0
    /\ completed = 0
    /\ pc = "idle"
    /\ waited = FALSE
    /\ inUse = [i \in 1..FrameCount |-> {}]
-----------------------------------------------------------------------------
(* create; both owners (Graphics::init, Context::create) clear before.     *)
Create ==
    /\ pc = "idle"
    /\ ~good
    /\ manager' = NewFrames(FrameCount)
    /\ good' = TRUE
    /\ signalled' = 0
    /\ completed' = 0
    /\ UNCHANGED <<pc, waited, inUse>>

Call(wait) ==
    /\ pc = "idle"
    /\ good
    /\ pc' = wait
    /\ UNCHANGED <<manager, good, signalled, completed, waited, inUse>>

BeginWaitForCurrent == Call("current")
BeginWaitPrevFrame == Call("prev")
BeginClear == Call("clear")

(* Mutant of WaitForCurrent: the wait is for the frame before the last.    *)
WaitForCurrentTooLittle ==
    /\ pc = "current"
    /\ completed >= CurrentMark(manager) - 1
    /\ pc' = "idle"
    /\ waited' = TRUE
    /\ UNCHANGED <<manager, good, signalled, completed, inUse>>

(* waitForCurrent returns, and the owner may use the data of the slot.     *)
WaitForCurrent ==
    /\ pc = "current"
    /\ completed >= CurrentMark(manager)
    /\ pc' = "idle"
    /\ waited' = TRUE
    /\ UNCHANGED <<manager, good, signalled, completed, inUse>>

WaitPrevFrame ==
    /\ pc = "prev"
    /\ completed >= PrevMark(manager)
    /\ pc' = "idle"
    /\ UNCHANGED <<manager, good, signalled, completed, waited, inUse>>

(* Mutant of EndAndGoNextFrame: Signal comes before mCurrentFrame counts.  *)
EndAndGoNextFrameSignalsOld ==
    /\ pc = "idle"
    /\ good
    /\ waited
    /\ manager.mCurrentFrame < MaxFrame
    /\ manager' = EndFrame(manager)
    /\ signalled' = manager.mCurrentFrame
    /\ inUse' = [inUse EXCEPT ![currentFrameIndex(manager) + 1] = @ \cup {manager'.mCurrentFrame}]
    /\ waited' = FALSE
    /\ UNCHANGED <<good, completed, pc>>

(* endAndGoNextFrame, after the commands that use the slot were executed   *)
(* on the queue.  Every owner has waited for the slot before it used it.   *)
EndAndGoNextFrame ==
    /\ pc = "idle"
    /\ good
    /\ waited
    /\ manager.mCurrentFrame < MaxFrame
    /\ manager' = EndFrame(manager)
    /\ signalled' = manager'.mCurrentFrame
    /\ inUse' = [inUse EXCEPT ![currentFrameIndex(manager) + 1] = @ \cup {signalled'}]
    /\ waited' = FALSE
    /\ UNCHANGED <<good, completed, pc>>

(* clear returns: the fence and the frame data are released.               *)
Clear ==
    /\ pc = "clear"
    /\ ClearMark(manager, completed)
    /\ manager' = NoFrames
    /\ good' = FALSE
    /\ signalled' = 0
    /\ completed' = 0
    /\ pc' = "idle"
    /\ waited' = FALSE
    /\ inUse' = [i \in 1..FrameCount |-> {}]

(* The GPU has run the commands of the next ended frame.                   *)
GpuCompletes ==
    /\ completed < signalled
    /\ completed' = completed + 1
    /\ inUse' = [i \in 1..FrameCount |-> {f \in inUse[i] : f > completed'}]
    /\ UNCHANGED <<manager, good, signalled, pc, waited>>

Next ==
    \/ Create
    \/ BeginWaitForCurrent
    \/ WaitForCurrent
    \/ BeginWaitPrevFrame
    \/ WaitPrevFrame
    \/ EndAndGoNextFrame
    \/ BeginClear
    \/ Clear
    \/ GpuCompletes

Spec == Init /\ [][Next]_vars

(* The GPU reaches every signal, and a thread whose wait is over runs on.  *)
Fairness ==
    /\ WF_vars(GpuCompletes)
    /\ WF_vars(WaitForCurrent)
    /\ WF_vars(WaitPrevFrame)

FairSpec == Spec /\ Fairness
-----------------------------------------------------------------------------
TypeOK ==
    /\ manager.mCurrentFrame \in Nat
    /\ manager.mFrames \in Seq(Nat)
    /\ Len(manager.mFrames) = IF good THEN FrameCount ELSE 0
    /\ good \in BOOLEAN
    /\ signalled \in Nat
    /\ completed \in 0..signalled
    /\ pc \in {"idle", "current", "prev", "clear"}
    /\ waited \in BOOLEAN
    /\ inUse \in [1..FrameCount -> SUBSET Nat]

(* When waitForCurrent returns, no command of an earlier frame uses the    *)
(* data of the slot: the owner resets the allocator and the back buffer's  *)
(* resources of that slot next.                                            *)
DataIsFree ==
    [][WaitForCurrent => inUse[currentFrameIndex(manager) + 1] = {}]_vars

(* When waitPrevFrame returns, no frame uses any slot, whichever slots     *)
(* they are: DXWindow::clear releases all of them next (DXWindow.cpp:31).  *)
PrevWaitDrains ==
    [][WaitPrevFrame => \A i \in 1..FrameCount : inUse[i] = {}]_vars

(* The owner that may use the current slot is less than FrameCount frames  *)
(* ahead of the GPU.                                                       *)
FramesInFlight == waited => manager.mCurrentFrame - completed < FrameCount

(* What a frame counts on: the marks and the fence are in order, and the   *)
(* frames in flight bounded (FrameDataManager.cpp:51).                     *)
Inv == TypeOK /\ FramesInFlight

(* waitForCurrent and waitPrevFrame return: their values are signalled.    *)
WaitEnds == pc \in {"current", "prev"} ~> pc = "idle"
=============================================================================
