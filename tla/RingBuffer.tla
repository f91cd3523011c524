----------------------------- MODULE RingBuffer -----------------------------
(***************************************************************************)
(* hinode::graphics::utility::RingBuffer                                   *)
(* (dx12/graphics/dx12/utility/RingBuffer/RingBuffer.{h,cpp}).             *)
(*                                                                         *)
(* A ring of BufferSize units (bytes of a ConstantBufferPool, descriptors  *)
(* of a DescriptorHeapPool) from which the CPU allocates while it records  *)
(* a frame.  The GPU reads what a frame allocated until it has run that    *)
(* frame's command lists; DX12Fence tells the CPU how far the GPU is.      *)
(*                                                                         *)
(* Two processes interleave: the CPU thread, which runs the methods of     *)
(* RingBuffer, and the GPU queue, which completes the signalled frames in  *)
(* the order of the signals.  updateCurrentOffset may block in the middle, *)
(* on the fence, so it is several actions; every other method is one.      *)
(***************************************************************************)
EXTENDS Integers, Sequences

CONSTANTS
    BufferSize,   \* the bufferSize of init
    Sizes,        \* the allocation sizes the callers ask for
    MaxFrame,     \* bound of mFrameCounter (64 bits in the code)
    MaxUsed       \* bound of mCurrentUsedByteSize (64 bits in the code)

ASSUME RingBufferAssumption ==
    /\ BufferSize \in Nat \ {0}
    /\ Sizes \subseteq Nat \ {0}
    /\ MaxFrame \in Nat
    /\ MaxUsed \in Nat

VARIABLES
    mBufferSize,           \* BufferSize, or 0 between clear and init
    mCurrentOffset,        \* the cursor: the next free unit
    mCurrentUsedByteSize,  \* units from the oldest queued frame's head to the cursor
    mFrameCounter,         \* identifier of the frame being recorded
    mFrameQueue,           \* the frames not known to be complete, oldest first
    request,               \* allocateByteSize of the running updateCurrentOffset, or 0
    signalled,             \* the last value Signal put on the command queue
    completed,             \* GetCompletedValue of mFence
    regions                \* what was handed out and the GPU may still read

ringVars  == <<mBufferSize, mCurrentOffset, mCurrentUsedByteSize>>
frameVars == <<mFrameCounter, mFrameQueue>>
gpuVars   == <<signalled, completed>>
vars      == <<ringVars, frameVars, gpuVars, request, regions>>

FrameInfo == [mFrame : Nat, mOffset : 0..BufferSize]
Region    == [frame : Nat, from : 0..BufferSize, size : Nat]
-----------------------------------------------------------------------------
Oldest  == Head(mFrameQueue)
Current == mFrameQueue[Len(mFrameQueue)]

(* Mutant of IsFill: one unit too many is thought free.                    *)
IsFillOffByOne == mFrameQueue = << >> \/ mBufferSize + 1 < mCurrentUsedByteSize + request

(* isFill: the request does not fit in what is left of the ring.  With an  *)
(* empty queue the loop does not run and isFill keeps its initial TRUE.    *)
IsFill == mFrameQueue = << >> \/ mBufferSize < mCurrentUsedByteSize + request

(* Mutant of IsTail: only the cursor is compared with the end.             *)
IsTailCursorOnly(size) == mBufferSize <= mCurrentOffset

(* isTail: the request would reach the end of the buffer.                  *)
IsTail(size) == mBufferSize <= mCurrentOffset + size

(* freeByteSize: the units from one frame's head to the next frame's,      *)
(* going around the end of the buffer when the next head is lower.         *)
FreeByteSize(head, next) ==
    IF next < head THEN (mBufferSize - head) + next ELSE next - head

Init ==
    /\ mBufferSize = 0
    /\ mCurrentOffset = 0
    /\ mCurrentUsedByteSize = 0
    /\ mFrameCounter = 0
    /\ mFrameQueue = << >>
    /\ request = 0
    /\ signalled = 0
    /\ completed = 0
    /\ regions = {}
-----------------------------------------------------------------------------
(* Mutant of BeginAllocate: the skipped tail is not counted as used.       *)
BeginAllocateTailNotCounted(size) ==
    /\ request = 0
    /\ mCurrentUsedByteSize <= MaxUsed
    /\ request' = size
    /\ mCurrentOffset' = IF IsTail(size) THEN 0 ELSE mCurrentOffset
    /\ UNCHANGED <<mBufferSize, mCurrentUsedByteSize, frameVars, gpuVars, regions>>

(* updateCurrentOffset up to its loop: a request that reaches the tail     *)
(* gives the rest of the buffer up and moves the cursor to 0, before it is *)
(* known whether the request fits.                                         *)
BeginAllocate(size) ==
    /\ request = 0
    /\ mCurrentUsedByteSize <= MaxUsed
    /\ request' = size
    /\ IF IsTail(size)
       THEN /\ mCurrentUsedByteSize' =
                   mCurrentUsedByteSize + (mBufferSize - mCurrentOffset)
            /\ mCurrentOffset' = 0
       ELSE UNCHANGED <<mCurrentUsedByteSize, mCurrentOffset>>
    /\ UNCHANGED <<mBufferSize, frameVars, gpuVars, regions>>

(* Mutant of ReclaimOldest: the frame is dropped without the wait.         *)
ReclaimOldestNoWait ==
    /\ request # 0
    /\ IsFill
    /\ Len(mFrameQueue) > 1
    /\ mFrameQueue' = Tail(mFrameQueue)
    /\ mCurrentUsedByteSize' = mCurrentUsedByteSize
           - FreeByteSize(Oldest.mOffset, mFrameQueue[2].mOffset)
    /\ request' = request
    /\ UNCHANGED <<mBufferSize, mCurrentOffset, mFrameCounter, gpuVars, regions>>

(* One turn of the loop: the ring is full, an older frame is queued, and   *)
(* the wait on the fence has returned; that frame's units are reclaimed.   *)
ReclaimOldest ==
    /\ request # 0
    /\ IsFill
    /\ Len(mFrameQueue) > 1
    /\ completed >= Oldest.mFrame
    /\ mFrameQueue' = Tail(mFrameQueue)
    /\ mCurrentUsedByteSize' = mCurrentUsedByteSize
           - FreeByteSize(Oldest.mOffset, mFrameQueue[2].mOffset)
    /\ request' = request
    /\ UNCHANGED <<mBufferSize, mCurrentOffset, mFrameCounter, gpuVars, regions>>

(* The ring is full with the current frame alone: RunTimeErrorException.   *)
ThrowFull ==
    /\ request # 0
    /\ IsFill
    /\ Len(mFrameQueue) <= 1
    /\ request' = 0
    /\ UNCHANGED <<ringVars, frameVars, gpuVars, regions>>

(* The units handed out by the step that ends updateCurrentOffset.         *)
Allocated == [frame |-> mFrameCounter, from |-> mCurrentOffset, size |-> request]

FinishAllocate ==
    /\ request # 0
    /\ ~IsFill
    /\ regions' = regions \cup {Allocated}
    /\ mCurrentOffset' = mCurrentOffset + request
    /\ mCurrentUsedByteSize' = mCurrentUsedByteSize + request
    /\ request' = 0
    /\ UNCHANGED <<mBufferSize, frameVars, gpuVars>>
-----------------------------------------------------------------------------
(* Mutant of EndAndGoNextFrame: the signal is that of the frame before.    *)
EndAndGoNextFrameSignalsPrevious ==
    /\ request = 0
    /\ mFrameQueue # << >>
    /\ Current.mOffset # mCurrentOffset
    /\ mFrameCounter < MaxFrame
    /\ signalled' = mFrameCounter - 1
    /\ mFrameCounter' = mFrameCounter + 1
    /\ mFrameQueue' = Append(mFrameQueue,
                        [mFrame |-> mFrameCounter + 1, mOffset |-> mCurrentOffset])
    /\ UNCHANGED <<ringVars, request, completed, regions>>

(* endAndGoNextFrame, called after the frame's command lists were executed *)
(* on the same queue: nothing when the cursor is where the frame began,    *)
(* else Signal and pushFrameInfo.  A pool is ended only once it exists.    *)
EndAndGoNextFrame ==
    /\ request = 0
    /\ mFrameQueue # << >>
    /\ Current.mOffset # mCurrentOffset
    /\ mFrameCounter < MaxFrame
    /\ signalled' = mFrameCounter
    /\ mFrameCounter' = mFrameCounter + 1
    /\ mFrameQueue' = Append(mFrameQueue,
                        [mFrame |-> mFrameCounter + 1, mOffset |-> mCurrentOffset])
    /\ UNCHANGED <<ringVars, request, completed, regions>>

(* Mutant of ClearMayGo: the wait is for the oldest queued frame.          *)
ClearMayGoOldest == Len(mFrameQueue) >= 2 => completed >= Oldest.mFrame

(* clear waits for the last frame that was ended, if any is queued, ...    *)
ClearMayGo == Len(mFrameQueue) >= 2 => completed >= Current.mFrame - 1

(* ... and forgets everything.  Its callers promise that nothing allocated *)
(* in the current frame is in use (ConstantBufferPool.h:39).               *)
Clear ==
    /\ request = 0
    /\ mFrameQueue # << >>
    /\ ClearMayGo
    /\ mBufferSize' = 0
    /\ mCurrentOffset' = 0
    /\ mCurrentUsedByteSize' = 0
    /\ mFrameCounter' = 0
    /\ mFrameQueue' = << >>
    /\ signalled' = 0
    /\ completed' = 0
    /\ regions' = {}
    /\ UNCHANGED request

(* init: clear, a new fence at 0, the buffer's size and the first frame.   *)
InitBuffer ==
    /\ request = 0
    /\ ClearMayGo
    /\ mBufferSize' = BufferSize
    /\ mCurrentOffset' = 0
    /\ mCurrentUsedByteSize' = 0
    /\ mFrameCounter' = 1
    /\ mFrameQueue' = << [mFrame |-> 1, mOffset |-> 0] >>
    /\ signalled' = 0
    /\ completed' = 0
    /\ regions' = {}
    /\ UNCHANGED request

(* The GPU reaches the next Signal on the queue: it has run the command    *)
(* lists of that frame and of the earlier ones, and reads them no longer.  *)
GpuCompletes ==
    /\ completed < signalled
    /\ completed' = completed + 1
    /\ regions' = {r \in regions : r.frame > completed + 1}
    /\ UNCHANGED <<ringVars, frameVars, request, signalled>>
-----------------------------------------------------------------------------
UpdateCurrentOffset == ReclaimOldest \/ ThrowFull \/ FinishAllocate

Next ==
    \/ \E size \in Sizes : BeginAllocate(size)
    \/ ReclaimOldest
    \/ ThrowFull
    \/ FinishAllocate
    \/ EndAndGoNextFrame
    \/ Clear
    \/ InitBuffer
    \/ GpuCompletes

Spec == Init /\ [][Next]_vars

(* The queue always gets to the next signal, and a thread inside           *)
(* updateCurrentOffset keeps running.  Nobody has to allocate.             *)
Fairness == WF_vars(GpuCompletes) /\ WF_vars(UpdateCurrentOffset)

FairSpec == Spec /\ Fairness
-----------------------------------------------------------------------------
TypeOK ==
    /\ mBufferSize \in {0, BufferSize}
    /\ mCurrentOffset \in 0..BufferSize
    /\ mCurrentUsedByteSize \in Nat
    /\ mFrameCounter \in Nat
    /\ mFrameQueue \in Seq(FrameInfo)
    /\ request \in Sizes \cup {0}
    /\ signalled \in Nat
    /\ completed \in Nat
    /\ regions \subseteq Region

Disjoint(r, s) == r.from + r.size <= s.from \/ s.from + s.size <= r.from

(* An allocation never hands out units of which the GPU may still read an  *)
(* earlier allocation, of this frame or of one it has not completed, and   *)
(* never leaves the buffer: what updateCurrentOffset's wait, its reclaimed *)
(* sizes and the early wrap at the tail are there for.                     *)
NoOverwrite ==
    [][FinishAllocate =>
         /\ \A r \in regions : Disjoint(r, Allocated)
         /\ mCurrentOffset + request <= mBufferSize]_vars

(* A frame leaves the queue only when the GPU has completed it, so every   *)
(* region the GPU may read belongs to a queued frame; and the wait on the  *)
(* oldest of several frames is for a value Signal did put on the queue.    *)
QueueCoversGpu ==
    /\ \A r \in regions : \E i \in DOMAIN mFrameQueue : mFrameQueue[i].mFrame = r.frame
    /\ Len(mFrameQueue) > 1 => Oldest.mFrame <= signalled

(* clear and init release the fence and the memory: no frame that was      *)
(* ended may still be running on the GPU.                                  *)
ClearAfterGpu == [][Clear \/ InitBuffer => completed = signalled]_vars

(* RingBuffer is a FrameAllocator: the cursor, the queue and the byte      *)
(* count are how it keeps the promise.                                     *)
Allocator == INSTANCE FrameAllocator WITH
                 PoolSize <- BufferSize,
                 capacity <- mBufferSize,
                 frame    <- mFrameCounter,
                 ended    <- signalled,
                 done     <- completed,
                 live     <- regions

(* Every step of the ring is a step of a frame allocator, or none: what it *)
(* hands out is free, a region stays until the GPU has completed its frame *)
(* and the pool is reset only when the GPU has completed every ended one.  *)
ImplementsAllocator == Allocator!Spec

(* updateCurrentOffset returns or throws: it never waits for ever.         *)
AllocationEnds == request # 0 ~> request = 0
=============================================================================
