------------------------- MODULE ConstantBufferPool -------------------------
(***************************************************************************)
(* hinode::graphics::utility::ConstantBufferPool                           *)
(* (dx12/graphics/dx12/utility/RingBuffer/ConstantBufferPool).             *)
(*                                                                         *)
(* A mapped upload buffer of which RingBuffer, its base class, hands out   *)
(* the bytes: each allocate returns the view of a constant buffer, which   *)
(* the CPU fills and the GPU reads until it has run the frame.  The view   *)
(* starts at the offset read before updateCurrentOffset, which may move    *)
(* the cursor to the start of the buffer.                                  *)
(***************************************************************************)
EXTENDS Integers, Sequences

CONSTANTS
    M_POOL_ALIGNMENT,  \* 256 in the code
    PoolByteSize,      \* the poolByteSize of create
    AskedSizes,        \* the byte sizes of the constant buffers
    MaxFrame,          \* bound of the ring's frame counter
    MaxUsed            \* bound of the ring's byte count

ASSUME PoolAssumption ==
    /\ M_POOL_ALIGNMENT \in Nat \ {0}
    /\ PoolByteSize \in Nat
    /\ AskedSizes \subseteq Nat \ {0}
    /\ MaxFrame \in Nat
    /\ MaxUsed \in Nat

VARIABLES
    mBufferSize, mCurrentOffset, mCurrentUsedByteSize, mFrameCounter,
    mFrameQueue, request, signalled, completed,
    regions,    \* the ring's own account of what is in use
    mByteSize,  \* size of mPool, or 0 while it is not good
    asked,      \* allocateByteSize as the caller gave it, or 0
    offset,     \* the local of allocate: the cursor before the update
    views       \* cbViewDesc of every allocation the GPU may still read

ringVars == <<mBufferSize, mCurrentOffset, mCurrentUsedByteSize, mFrameCounter,
              mFrameQueue, request, signalled, completed, regions>>
vars     == <<ringVars, mByteSize, asked, offset, views>>
-----------------------------------------------------------------------------
(* The rounding of create and allocate: to the next multiple strictly      *)
(* above n, so an aligned n grows by a whole alignment.                    *)
Aligned(n) == n + (M_POOL_ALIGNMENT - (n % M_POOL_ALIGNMENT))

Ring == INSTANCE RingBuffer WITH
            BufferSize <- Aligned(PoolByteSize),
            Sizes      <- {Aligned(n) : n \in AskedSizes}

Init ==
    /\ Ring!Init
    /\ mByteSize = 0
    /\ asked = 0
    /\ offset = 0
    /\ views = {}
-----------------------------------------------------------------------------
(* allocate up to the loop of updateCurrentOffset.  The offset of the view *)
(* is the cursor before the ring moves it.                                 *)
BeginAllocate(size) ==
    /\ mByteSize # 0
    /\ Ring!BeginAllocate(Aligned(size))
    /\ asked' = size
    /\ offset' = mCurrentOffset
    /\ UNCHANGED <<mByteSize, views>>

ReclaimOldest == Ring!ReclaimOldest /\ UNCHANGED <<mByteSize, asked, offset, views>>

(* The exception of updateCurrentOffset leaves allocate.                   *)
ThrowFull ==
    /\ Ring!ThrowFull
    /\ asked' = 0
    /\ offset' = 0
    /\ UNCHANGED <<mByteSize, views>>

(* The view allocate returns: BufferLocation less the pool's address, and  *)
(* SizeInBytes.                                                            *)
NewView == [frame |-> mFrameCounter, from |-> offset, size |-> request]

(* updateCurrentOffset returns; the view is made and its bytes written.    *)
FinishAllocate ==
    /\ Ring!FinishAllocate
    /\ views' = views \cup {NewView}
    /\ asked' = 0
    /\ offset' = 0
    /\ UNCHANGED mByteSize

EndAndGoNextFrame ==
    /\ Ring!EndAndGoNextFrame
    /\ UNCHANGED <<mByteSize, asked, offset, views>>

(* create: clear, a pool of the rounded size, RingBuffer::init.            *)
Create ==
    /\ Ring!InitBuffer
    /\ mByteSize' = Aligned(PoolByteSize)
    /\ views' = {}
    /\ UNCHANGED <<asked, offset>>

(* clear, and create when Map fails: the ring, then the mapped buffer.     *)
Clear ==
    /\ Ring!Clear
    /\ mByteSize' = 0
    /\ views' = {}
    /\ UNCHANGED <<asked, offset>>

(* The GPU has run the next frame, and reads its constant buffers no more. *)
GpuCompletes ==
    /\ Ring!GpuCompletes
    /\ views' = {v \in views : v.frame > completed + 1}
    /\ UNCHANGED <<mByteSize, asked, offset>>
-----------------------------------------------------------------------------
Next ==
    \/ \E size \in AskedSizes : BeginAllocate(size)
    \/ ReclaimOldest
    \/ ThrowFull
    \/ FinishAllocate
    \/ EndAndGoNextFrame
    \/ Create
    \/ Clear
    \/ GpuCompletes

Spec == Init /\ [][Next]_vars
-----------------------------------------------------------------------------
View == [frame : Nat, from : Nat, size : Nat]

(* A new constant buffer shares no byte with one the GPU may still read,   *)
(* although its offset is the cursor the ring has left behind: what it     *)
(* gets then is the tail that the ring has given up for the frame.  It     *)
(* starts and ends on the 256 bytes D3D12 wants of a constant buffer       *)
(* (ConstantBufferPool.cpp:66) and has room for what was asked.            *)
NewViewIsSound ==
    [][FinishAllocate =>
         /\ \A v \in views : Ring!Disjoint(v, NewView)
         /\ NewView.from % M_POOL_ALIGNMENT = 0
         /\ NewView.size % M_POOL_ALIGNMENT = 0
         /\ NewView.size >= asked]_vars

(* "Allocates memory from the pool" (ConstantBufferPool.h:49): the view    *)
(* lies inside the pool.                                                   *)
NewViewInPool == [][FinishAllocate => NewView.from + NewView.size <= mByteSize]_vars
=============================================================================
