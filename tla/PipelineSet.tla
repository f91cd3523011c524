----------------------------- MODULE PipelineSet -----------------------------
(***************************************************************************)
(* hinode::graphics::utility::PipelineSet with its PipelineResourceBinder  *)
(* and the DescriptorHeapPool it takes descriptors from                    *)
(* (dx12/graphics/dx12/utility/Shader/{PipelineSet,PipelineResourceBinder} *)
(* and .../RingBuffer/DescriptorHeapPool).                                 *)
(*                                                                         *)
(* A root parameter is a descriptor table, which occupies consecutive      *)
(* descriptors of the heap, or a root view, which is an address.  The      *)
(* updateXXX methods write a descriptor at once, bind records for the GPU  *)
(* where the tables are.  A table belongs to the frame of the pool in      *)
(* which it was allocated; an update in a later frame allocates it anew.   *)
(*                                                                         *)
(* One paint thread draws with the set as the scenes do, and an exception  *)
(* ends the program (src/dx12Test/main.cpp:27).  The sampler tables live   *)
(* in a second pool in the same way; here there is one pool.               *)
(***************************************************************************)
EXTENDS Integers, Sequences

CONSTANTS
    HeapSize,         \* NumDescriptors of the heap
    Tables,           \* the root parameters that are descriptor tables
    DescriptorCount,  \* the number of descriptors of each table
    Views,            \* the root parameters that are root CBVs, SRVs or UAVs
    AutoReplace,      \* setAutoReplaceRootParameterIndices
    CloneArguments,   \* the sets of indices that callers give to clone
    CallerRules,      \* what callers keep to: see MayUpdate and MayBind
    MaxDraws,         \* bound of the draws in a paint
    MaxClones,        \* bound of the clones in a paint
    MaxFrame,         \* bound of the pool's frame counter
    MaxUsed           \* bound of the pool's count

ASSUME PipelineSetAssumption ==
    /\ HeapSize \in Nat \ {0}
    /\ DescriptorCount \in [Tables -> Nat \ {0}]
    /\ Tables \cap Views = {}
    /\ AutoReplace \subseteq Tables \cup Views
    /\ CloneArguments \subseteq SUBSET (Tables \cup Views)
    /\ CallerRules \subseteq {"clone to update", "update every frame"}
    /\ {MaxDraws, MaxClones, MaxFrame, MaxUsed} \subseteq Nat

VARIABLES
    mBufferSize, mCurrentOffset, mCurrentUsedByteSize, mFrameCounter,
    mFrameQueue, request, signalled, completed, regions,
    tables,     \* mDHAllocateInfo and mIsSetValidations of each table
    addresses,  \* the views whose mpGPUAddress is not 0
    writing,    \* the table and entry of the update that is allocating
    heap,       \* the descriptors: whose they are
    pc,         \* where the paint thread is
    draws,      \* number of draws in this paint
    clones,     \* number of clones in this paint
    bound,      \* the tables a draw of this paint uses as they are now
    reads       \* descriptors the GPU may still read, with their frame

ringVars   == <<mBufferSize, mCurrentOffset, mCurrentUsedByteSize, mFrameCounter,
                mFrameQueue, request, signalled, completed, regions>>
binderVars == <<tables, addresses>>
callerVars == <<draws, clones, bound>>
vars       == <<ringVars, binderVars, callerVars, writing, heap, pc, reads>>

Pool == INSTANCE RingBuffer WITH
            BufferSize <- HeapSize,
            Sizes      <- {DescriptorCount[t] : t \in Tables}

NoFrame     == -1
Entries(t)  == 0..(DescriptorCount[t] - 1)
NotWriting  == << >>
-----------------------------------------------------------------------------
(* A table after DescriptorTable::create: nothing allocated, nothing set.  *)
NewTable == [frame |-> NoFrame, offset |-> 0, isSet |-> {}]

(* What an update of entry e of table t writes: a descriptor for the draw  *)
(* that comes next.                                                        *)
Written(t, e) == [table |-> t, frame |-> mFrameCounter, entry |-> e, draw |-> draws]
Free          == [table |-> "none", frame |-> NoFrame, entry |-> 0, draw |-> 0]

(* Mutant of IsCurrent: any allocation is taken for current.               *)
IsCurrentOnce(t) == tables[t].frame # NoFrame

(* isSameAllocateFrameID: the pool is still in the table's frame.          *)
IsCurrent(t) == tables[t].frame = mFrameCounter

(* What callers keep to.  A table that a draw uses is not updated, unless  *)
(* clone has replaced it (PipelineSet.h:25); and every table is updated in *)
(* every frame it is drawn in, as all scenes do.                           *)
MayUpdate(t) == "clone to update" \in CallerRules => t \notin bound
MayBind      == "update every frame" \in CallerRules => \A t \in Tables : IsCurrent(t)

Init ==
    /\ Pool!Init
    /\ tables = [t \in Tables |-> NewTable]
    /\ addresses = {}
    /\ writing = NotWriting
    /\ heap = [a \in 0..(HeapSize - 1) |-> Free]
    /\ pc = "start"
    /\ draws = 0
    /\ clones = 0
    /\ bound = {}
    /\ reads = {}

(* The scene's init: DescriptorHeapPool::create and PipelineSet::create.   *)
Create ==
    /\ pc = "start"
    /\ Pool!InitBuffer
    /\ pc' = "paint"
    /\ UNCHANGED <<binderVars, callerVars, writing, heap, reads>>
-----------------------------------------------------------------------------
(* updateCBV, updateSRV, updateUAV of a table of this frame.               *)
UpdateEntry(t, e) ==
    /\ pc = "paint"
    /\ MayUpdate(t)
    /\ IsCurrent(t)
    /\ tables' = [tables EXCEPT ![t].isSet = @ \cup {e}]
    /\ heap' = [heap EXCEPT ![tables[t].offset + e] = Written(t, e)]
    /\ UNCHANGED <<ringVars, addresses, callerVars, writing, pc, reads>>

(* The same of a table of an earlier frame, up to the pool's loop ...      *)
BeginAllocate(t, e) ==
    /\ pc = "paint"
    /\ MayUpdate(t)
    /\ ~IsCurrent(t)
    /\ Pool!BeginAllocate(DescriptorCount[t])
    /\ writing' = <<t, e>>
    /\ pc' = "allocate"
    /\ UNCHANGED <<binderVars, callerVars, heap, reads>>

ReclaimOldest ==
    /\ Pool!ReclaimOldest
    /\ UNCHANGED <<binderVars, callerVars, writing, heap, pc, reads>>

(* ... which throws when the frame itself fills the heap, ...              *)
ThrowFull ==
    /\ Pool!ThrowFull
    /\ writing' = NotWriting
    /\ pc' = "terminated"
    /\ UNCHANGED <<binderVars, callerVars, heap, reads>>

(* Mutant of Allocated: the flags of the last frame stay.                  *)
AllocatedKeepsFlags(t, e) ==
    [frame |-> mFrameCounter, offset |-> mCurrentOffset, isSet |-> tables[t].isSet \cup {e}]

(* DescriptorTable::allocate and the setValidation of the update.          *)
Allocated(t, e) == [frame |-> mFrameCounter, offset |-> mCurrentOffset, isSet |-> {e}]

(* ... or returns: the table is the new one, and its entry is written.     *)
FinishAllocate(t, e) ==
    /\ writing = <<t, e>>
    /\ Pool!FinishAllocate
    /\ tables' = [tables EXCEPT ![t] = Allocated(t, e)]
    /\ heap' = [heap EXCEPT ![mCurrentOffset + e] = Written(t, e)]
    /\ writing' = NotWriting
    /\ pc' = "paint"
    /\ UNCHANGED <<addresses, callerVars, reads>>

(* The updates of a root view: updateGPUAddress, of an address in use.     *)
UpdateView(v) ==
    /\ pc = "paint"
    /\ addresses' = addresses \cup {v}
    /\ UNCHANGED <<ringVars, tables, callerVars, writing, heap, pc, reads>>
-----------------------------------------------------------------------------
(* replace: a new element with the index of the old takes its place, in    *)
(* the one binder that all copies and clones of the set share.             *)
Replaced(indices) ==
    [t \in Tables |-> IF t \in indices THEN NewTable ELSE tables[t]]

(* clone: replace of the indices, or replaceAuto without any.              *)
Clone(argument) ==
    LET indices == IF argument = {} THEN AutoReplace ELSE argument
    IN  /\ pc = "paint"
        /\ clones < MaxClones
        /\ tables' = Replaced(indices)
        /\ addresses' = addresses \ indices
        /\ bound' = bound \ indices
        /\ clones' = clones + 1
        /\ UNCHANGED <<ringVars, draws, writing, heap, pc, reads>>

Cells(t) == {tables[t].offset + e : e \in Entries(t)}

(* validate: every entry of every table is set, and every address.         *)
IsValid ==
    /\ \A t \in Tables : tables[t].isSet = Entries(t)
    /\ addresses = Views

(* bind and the draw after it.                                             *)
Bind ==
    /\ pc = "paint"
    /\ draws < MaxDraws
    /\ MayBind
    /\ IsValid
    /\ reads' = reads \cup UNION {{<<mFrameCounter, a>> : a \in Cells(t)} : t \in Tables}
    /\ draws' = draws + 1
    /\ bound' = Tables
    /\ UNCHANGED <<ringVars, binderVars, clones, writing, heap, pc>>

(* bind's RunTimeErrorException: a parameter is not set.                   *)
BindThrows ==
    /\ pc = "paint"
    /\ draws < MaxDraws
    /\ MayBind
    /\ ~IsValid
    /\ pc' = "terminated"
    /\ UNCHANGED <<ringVars, binderVars, callerVars, writing, heap, reads>>
-----------------------------------------------------------------------------
(* The paint ends: its list is executed, and the pool goes to the next     *)
(* frame, or stays in this one if nothing was allocated.                   *)
EndPaint ==
    /\ pc = "paint"
    /\ IF Pool!Current.mOffset # mCurrentOffset
       THEN Pool!EndAndGoNextFrame
       ELSE UNCHANGED ringVars
    /\ draws' = 0
    /\ clones' = 0
    /\ bound' = {}
    /\ UNCHANGED <<binderVars, writing, heap, pc, reads>>

(* The window closes between two paints: the scene and its pool go.        *)
Clear ==
    /\ pc = "paint"
    /\ draws = 0
    /\ clones = 0
    /\ Pool!Clear
    /\ tables' = [t \in Tables |-> NewTable]
    /\ addresses' = {}
    /\ heap' = [a \in DOMAIN heap |-> Free]
    /\ pc' = "terminated"
    /\ reads' = {}
    /\ UNCHANGED <<callerVars, writing>>

(* The GPU has run the next frame, and reads its tables no more.           *)
GpuCompletes ==
    /\ Pool!GpuCompletes
    /\ reads' = {r \in reads : r[1] > completed'}
    /\ UNCHANGED <<binderVars, callerVars, writing, heap, pc>>

Next ==
    \/ Create
    \/ \E t \in Tables : \E e \in Entries(t) : UpdateEntry(t, e)
    \/ \E t \in Tables : \E e \in Entries(t) : BeginAllocate(t, e)
    \/ ReclaimOldest
    \/ ThrowFull
    \/ \E t \in Tables : \E e \in Entries(t) : FinishAllocate(t, e)
    \/ \E v \in Views : UpdateView(v)
    \/ \E argument \in CloneArguments : Clone(argument)
    \/ Bind
    \/ BindThrows
    \/ EndPaint
    \/ Clear
    \/ GpuCompletes

Spec == Init /\ [][Next]_vars
-----------------------------------------------------------------------------
FrameIsFull ==
    /\ \E r \in regions : r.frame = mFrameCounter
    /\ Pool!Current.mOffset = mCurrentOffset

NotRead(a) == \A r \in reads : r[2] # a

(* No update writes a descriptor that the GPU may still read for a draw    *)
(* recorded before: not one of an earlier frame, not one of this frame     *)
(* (PipelineSet.h:74: after bind the updateXXX functions may be called to  *)
(* change the contents).  A frame that has used the heap exactly once      *)
(* around is the exception: it cannot be ended (RingBuffer.cpp:102), so    *)
(* the next paint takes its tables for current and writes into them.       *)
DrawnIsKept ==
    [][~FrameIsFull =>
         \A t \in Tables : \A e \in Entries(t) :
           /\ UpdateEntry(t, e) => NotRead(tables[t].offset + e)
           /\ FinishAllocate(t, e) => NotRead(mCurrentOffset + e)]_vars

(* What validate lets through (PipelineResourceBinder.h:264, "true = no    *)
(* problem") is bound with all descriptors that were set for it in place:  *)
(* none is missing, from another table or from another allocation.         *)
BoundIsComplete ==
    [][Bind => \A t \in Tables : \A e \in Entries(t) :
                 LET d == heap[tables[t].offset + e]
                 IN  /\ d.table = t
                     /\ d.frame = tables[t].frame
                     /\ d.entry = e]_vars

(* The heap is released when no draw reads it any more, but for the draws  *)
(* of a frame that could not be ended: one that used the heap exactly once *)
(* around counts as empty (DescriptorHeapPool.cpp:26, RingBuffer.cpp:102). *)
ClearAfterDraws == [][Clear => \A r \in reads : r[1] = mFrameCounter]_vars
=============================================================================
