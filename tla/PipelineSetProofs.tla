-------------------------- MODULE PipelineSetProofs --------------------------
(***************************************************************************)
(* Proofs about the two views of a pipeline.  The first part is about      *)
(* PipelineSet, where the descriptors lie, for every heap, every root      *)
(* signature and every set of clones that the callers ask for; the second  *)
(* about Pipelines, which name a descriptor is set under, for every draw   *)
(* whose declarations agree, any number of objects and of paints.          *)
(*                                                                         *)
(* PipelineSet: a table of this frame has a region of the pool to itself,  *)
(* so what is written for another table stays out of it, and what the GPU  *)
(* may read lies in regions that are still held.  A table of this frame    *)
(* that no draw of this paint uses is not read at all: a paint ends by     *)
(* going to the next frame, in which no table is current.  Only a frame    *)
(* that has gone around the whole heap stays, and then its pool allocates  *)
(* nothing any more.                                                       *)
(***************************************************************************)
EXTENDS PipelineSet, Pipelines, TLAPS

Ring == INSTANCE RingBufferProofs WITH
            BufferSize <- HeapSize,
            Sizes      <- {DescriptorCount[t] : t \in Tables}

(* A region larger than the heap lies on no arc of the ring: a ring that   *)
(* holds it counts a whole ring too much, and is full for good.            *)
NoRoom == [frame |-> mFrameCounter, from |-> 0, size |-> HeapSize + 1]

Full == INSTANCE RingBufferProofs WITH
            BufferSize <- HeapSize,
            Sizes      <- {DescriptorCount[t] : t \in Tables},
            regions    <- {NoRoom}

(* Where the thread is, and what it is about to write.                     *)
ThreadInv ==
    /\ pc \in {"start", "paint", "allocate", "terminated"}
    /\ tables \in [Tables -> [frame : Int, offset : Nat, isSet : SUBSET Nat]]
    /\ DOMAIN heap = 0..(HeapSize - 1)
    /\ pc = "start" => reads = {} /\ mFrameQueue = << >>
    /\ pc \in {"paint", "allocate"} => mFrameQueue # << >>
    /\ pc # "allocate" => request = 0
    /\ pc = "allocate" =>
         \E t \in Tables : \E e \in Entries(t) :
            writing = <<t, e>> /\ request = DescriptorCount[t]

RegionOf(t) == [frame |-> tables[t].frame, from |-> tables[t].offset, size |-> DescriptorCount[t]]

Holds(t, e) ==
    LET d == heap[tables[t].offset + e]
    IN  d.table = t /\ d.frame = tables[t].frame /\ d.entry = e

(* The tables of this frame lie apart in the heap, and what is set is      *)
(* there.                                                                  *)
TableInv ==
    /\ \A r \in regions : r.size > 0 /\ r.from + r.size <= HeapSize
    /\ \A t \in Tables :
         /\ tables[t].frame <= mFrameCounter
         /\ IsCurrent(t) => /\ RegionOf(t) \in regions
                            /\ tables[t].isSet \subseteq Entries(t)
                            /\ \A e \in tables[t].isSet : Holds(t, e)
    /\ \A t, u \in Tables : t # u /\ IsCurrent(t) /\ IsCurrent(u) =>
         Ring!Disjoint(RegionOf(t), RegionOf(u))

(* The callers update every table in every frame in which they draw it.    *)
EveryFrame == "update every frame" \in CallerRules

Covers(r, a) == r.from <= a /\ a < r.from + r.size

(* What the GPU may read belongs to a frame it has not completed, and      *)
(* lies in a region of that frame when only tables of the frame are drawn. *)
ReadInv ==
    /\ \A r \in reads : r[1] \in Nat /\ completed < r[1] /\ r[1] <= mFrameCounter
    /\ EveryFrame =>
         \A r \in reads : r[2] \in Int /\ \E g \in regions : g.frame = r[1] /\ Covers(g, r[2])

(* A table of this frame that no draw of this paint uses is not read, or   *)
(* the frame has gone around the whole heap.                               *)
Unread == \A t \in Tables : IsCurrent(t) /\ t \notin bound =>
             \A e \in Entries(t) : NotRead(tables[t].offset + e)
UnreadInv ==
    EveryFrame /\ pc \in {"paint", "allocate"} =>
        Unread \/ (Full!IInv /\ (pc = "paint" => FrameIsFull))

SetInv == ThreadInv /\ TableInv /\ ReadInv /\ UnreadInv

IInv == Ring!IInv /\ SetInv
-----------------------------------------------------------------------------
LEMMA Counts ==
    ASSUME NEW t \in Tables
    PROVE  /\ DescriptorCount[t] \in Nat \ {0}
           /\ \A e \in Entries(t) : e \in Nat /\ e < DescriptorCount[t]
<1>1. DescriptorCount[t] \in Nat \ {0}
  BY PipelineSetAssumption
<1>2. \A e \in 0..(DescriptorCount[t] - 1) : e \in Nat /\ e < DescriptorCount[t]
  BY <1>1
<1>3. QED
  BY <1>1, <1>2 DEF Entries

(* The heap has descriptors.                                               *)
LEMMA HeapHasRoom == HeapSize \in Nat /\ HeapSize > 0
<1>1. HeapSize \in Nat \ {0}
  BY PipelineSetAssumption
<1>2. QED
  BY <1>1

(* The pool of the descriptors is a ring.                                  *)
LEMMA RingAssumptions == Ring!RingBufferAssumption /\ Full!RingBufferAssumption
<1>1. {DescriptorCount[t] : t \in Tables} \subseteq Nat \ {0}
  BY Counts
<1>2. HeapSize \in Nat \ {0} /\ MaxFrame \in Nat /\ MaxUsed \in Nat
  BY PipelineSetAssumption
<1>3. QED
  BY <1>1, <1>2 DEF Ring!RingBufferAssumption, Full!RingBufferAssumption

(* What the ring says of the pool.                                         *)
LEMMA RingFacts ==
    ASSUME Ring!IInv
    PROVE  /\ HeapSize \in Nat \ {0} /\ mCurrentOffset \in 0..HeapSize
           /\ mFrameCounter \in Nat /\ completed \in Nat /\ signalled \in Nat
           /\ \A r \in regions : r.frame \in Nat /\ r.from \in Nat /\ r.size \in Nat
           /\ \A r \in regions : completed < r.frame /\ r.frame <= mFrameCounter
           /\ mFrameQueue # << >> => signalled = mFrameCounter - 1
           /\ completed <= signalled
           /\ mFrameQueue = << >> => regions = {} /\ mFrameCounter = 0
<1>1. Ring!TypeOK /\ Ring!FrameInv
  BY DEF Ring!IInv
<1>2. /\ mCurrentOffset \in 0..HeapSize
      /\ mFrameCounter \in Nat /\ completed \in Nat /\ signalled \in Nat
      /\ regions \subseteq Ring!Region
  BY <1>1 DEF Ring!TypeOK
<1>3. \A r \in Ring!Region : r.frame \in Nat /\ r.from \in Nat /\ r.size \in Nat
  BY DEF Ring!Region
<1>4. /\ \A r \in regions : completed < r.frame /\ r.frame <= mFrameCounter
      /\ mFrameQueue # << >> => signalled = mFrameCounter - 1
      /\ completed <= signalled
      /\ mFrameQueue = << >> => regions = {} /\ mFrameCounter = 0
  BY <1>1 DEF Ring!FrameInv
<1>5. HeapSize \in Nat \ {0}
  BY PipelineSetAssumption
<1>6. QED
  BY <1>2, <1>3, <1>4, <1>5

(* The pool's own actions, in the two rings.                               *)
LEMMA SameActions ==
    /\ \A size : Pool!BeginAllocate(size) =>
         Ring!BeginAllocate(size) /\ (UNCHANGED NoRoom => Full!BeginAllocate(size))
    /\ Pool!ReclaimOldest => Ring!ReclaimOldest /\ (UNCHANGED NoRoom => Full!ReclaimOldest)
    /\ Pool!ThrowFull => Ring!ThrowFull
    /\ Pool!FinishAllocate => Ring!FinishAllocate
    /\ Pool!EndAndGoNextFrame => Ring!EndAndGoNextFrame
    /\ Pool!Clear => Ring!Clear
    /\ Pool!InitBuffer => Ring!InitBuffer
    /\ Pool!GpuCompletes => Ring!GpuCompletes
    /\ Pool!Allocated = Ring!Allocated
<1>1. ASSUME NEW size, Pool!BeginAllocate(size)
      PROVE  Ring!BeginAllocate(size) /\ (UNCHANGED NoRoom => Full!BeginAllocate(size))
  BY <1>1 DEF Pool!BeginAllocate, Ring!BeginAllocate, Full!BeginAllocate, Pool!IsTail, Ring!IsTail,
     Full!IsTail, Pool!frameVars, Ring!frameVars, Full!frameVars, Pool!gpuVars, Ring!gpuVars,
     Full!gpuVars
<1>2. ASSUME Pool!ReclaimOldest
      PROVE  Ring!ReclaimOldest /\ (UNCHANGED NoRoom => Full!ReclaimOldest)
  BY <1>2 DEF Pool!ReclaimOldest, Ring!ReclaimOldest, Full!ReclaimOldest, Pool!IsFill, Ring!IsFill,
     Full!IsFill, Pool!Oldest, Ring!Oldest, Full!Oldest, Pool!FreeByteSize, Ring!FreeByteSize,
     Full!FreeByteSize, Pool!gpuVars, Ring!gpuVars, Full!gpuVars
<1>3. Pool!ThrowFull => Ring!ThrowFull
  BY DEF Pool!ThrowFull, Ring!ThrowFull, Pool!IsFill, Ring!IsFill, Pool!ringVars, Ring!ringVars,
     Pool!frameVars, Ring!frameVars, Pool!gpuVars, Ring!gpuVars
<1>4. Pool!FinishAllocate => Ring!FinishAllocate
  BY DEF Pool!FinishAllocate, Ring!FinishAllocate, Pool!IsFill, Ring!IsFill, Pool!Allocated,
     Ring!Allocated, Pool!frameVars, Ring!frameVars, Pool!gpuVars, Ring!gpuVars
<1>5. Pool!EndAndGoNextFrame => Ring!EndAndGoNextFrame
  BY DEF Pool!EndAndGoNextFrame, Ring!EndAndGoNextFrame, Pool!Current, Ring!Current,
     Pool!ringVars, Ring!ringVars
<1>6. (Pool!Clear => Ring!Clear) /\ (Pool!InitBuffer => Ring!InitBuffer)
  BY DEF Pool!Clear, Ring!Clear, Pool!InitBuffer, Ring!InitBuffer, Pool!ClearMayGo,
     Ring!ClearMayGo, Pool!Current, Ring!Current
<1>7. Pool!GpuCompletes => Ring!GpuCompletes
  BY DEF Pool!GpuCompletes, Ring!GpuCompletes, Pool!ringVars, Ring!ringVars, Pool!frameVars,
     Ring!frameVars
<1>8. Pool!Allocated = Ring!Allocated
  BY DEF Pool!Allocated, Ring!Allocated
<1>9. QED
  BY <1>1, <1>2, <1>3, <1>4, <1>5, <1>6, <1>7, <1>8

(* A ring that no action touches keeps its invariant.                      *)
LEMMA RingStays ==
    ASSUME UNCHANGED ringVars
    PROVE  /\ Ring!IInv => Ring!IInv'
           /\ Full!IInv => Full!IInv'
<1>1. UNCHANGED Ring!vars /\ UNCHANGED Full!vars
  BY DEF ringVars, NoRoom, Ring!vars, Ring!ringVars, Ring!frameVars, Ring!gpuVars, Full!vars,
     Full!ringVars, Full!frameVars, Full!gpuVars
<1>2. QED
  BY <1>1, RingAssumptions, Ring!NextIInv, Full!NextIInv

(* A full ring finishes no allocation.                                     *)
LEMMA FullAllocatesNothing == Ring!IInv /\ Full!IInv => ~Ring!FinishAllocate
<1> SUFFICES ASSUME Ring!IInv, Full!IInv, Ring!FinishAllocate PROVE FALSE
  OBVIOUS
<1>1. mCurrentUsedByteSize >= mBufferSize
  <2>1. /\ NoRoom \in {NoRoom} /\ NoRoom.frame = mFrameCounter /\ NoRoom.from = 0
        /\ NoRoom.size > HeapSize
    BY HeapHasRoom DEF NoRoom
  <2>2. QED
    BY <2>1, RingAssumptions, Full!Overfull
<1>2. /\ request \in Nat \ {0} /\ mCurrentUsedByteSize \in Nat /\ mBufferSize = HeapSize
      /\ mCurrentUsedByteSize + request <= HeapSize
  BY RingAssumptions, Ring!FinishFacts
<1>3. QED
  BY <1>1, <1>2, HeapHasRoom

(* A frame that has gone around the heap exactly once makes it full.       *)
LEMMA FullOnceAround ==
    ASSUME Ring!IInv, \A r \in regions : r.size > 0, FrameIsFull
    PROVE  Full!IInv
<1>1. PICK r \in regions : r.frame = mFrameCounter
  BY DEF FrameIsFull
<1>2. Ring!Current.mOffset = mCurrentOffset
  BY DEF FrameIsFull, Pool!Current, Ring!Current
<1>3. PICK d \in [1..Len(mFrameQueue) -> Int] :
        Ring!SumsArcs(d) /\ mCurrentUsedByteSize >= d[1] + mBufferSize
  BY <1>1, <1>2, RingAssumptions, Ring!OnceAround
<1>4. Full!SumsArcs(d)
  BY <1>3 DEF Ring!SumsArcs, Full!SumsArcs, Ring!Arc, Full!Arc, Ring!NextHead, Full!NextHead,
     Ring!FreeByteSize, Full!FreeByteSize
<1>5. Full!LedgerInv
  BY <1>3, <1>4 DEF Full!LedgerInv, Full!Ledger
<1>6. mFrameQueue # << >>
  BY <1>1, RingFacts
<1>7. Full!TypeOK
  <2>1. NoRoom \in Full!Region
    BY RingFacts, HeapHasRoom DEF NoRoom, Full!Region
  <2>2. QED
    BY <2>1 DEF Ring!IInv, Ring!TypeOK, Full!TypeOK, Ring!FrameInfo, Full!FrameInfo
<1>8. Full!FrameInv /\ Full!RequestInv
  <2>1. completed < NoRoom.frame /\ NoRoom.frame <= mFrameCounter
    BY <1>6, RingFacts DEF NoRoom
  <2>2. Ring!FrameInv /\ Ring!RequestInv
    BY DEF Ring!IInv
  <2>3. Full!FrameInv
    BY <1>6, <2>1, <2>2 DEF Ring!FrameInv, Full!FrameInv
  <2>4. Full!RequestInv
    BY <2>2 DEF Ring!RequestInv, Full!RequestInv
  <2>5. QED
    BY <2>3, <2>4
<1>9. QED
  BY <1>5, <1>7, <1>8 DEF Full!IInv
-----------------------------------------------------------------------------
(* The pool stays a ring, whatever the thread and the GPU do.              *)
LEMMA RingInit == Init => Ring!IInv
<1>1. Pool!Init => Ring!Init
  BY DEF Pool!Init, Ring!Init
<1>2. QED
  BY <1>1, RingAssumptions, Ring!InitIInv DEF Init

LEMMA RingStep == Ring!IInv /\ [Next]_vars => Ring!IInv'
<1> SUFFICES ASSUME Ring!IInv, [Next]_vars PROVE Ring!IInv'
  OBVIOUS
<1>1. CASE UNCHANGED ringVars
  BY <1>1, RingStays
<1>2. CASE Create
  BY <1>2, SameActions, RingAssumptions, Ring!InitBufferIInv DEF Create
<1>3. ASSUME NEW t \in Tables, NEW e \in Entries(t), BeginAllocate(t, e)
      PROVE  Ring!IInv'
  <2>1. Ring!BeginAllocate(DescriptorCount[t])
    BY <1>3, SameActions DEF BeginAllocate
  <2>2. DescriptorCount[t] \in {DescriptorCount[u] : u \in Tables}
    OBVIOUS
  <2>3. QED
    BY <2>1, <2>2, RingAssumptions, Ring!BeginAllocateIInv
<1>4. CASE ReclaimOldest
  BY <1>4, SameActions, RingAssumptions, Ring!ReclaimOldestIInv DEF ReclaimOldest
<1>5. CASE ThrowFull
  BY <1>5, SameActions, RingAssumptions, Ring!ThrowFullIInv DEF ThrowFull
<1>6. ASSUME NEW t \in Tables, NEW e \in Entries(t), FinishAllocate(t, e)
      PROVE  Ring!IInv'
  BY <1>6, SameActions, RingAssumptions, Ring!FinishAllocateIInv DEF FinishAllocate
<1>7. CASE Clear
  BY <1>7, SameActions, RingAssumptions, Ring!ClearIInv DEF Clear
<1>8. CASE GpuCompletes
  BY <1>8, SameActions, RingAssumptions, Ring!GpuCompletesIInv DEF GpuCompletes
<1>9. CASE EndPaint
  BY <1>1, <1>9, SameActions, RingAssumptions, Ring!EndAndGoNextFrameIInv DEF EndPaint
<1>10. ASSUME NEW t \in Tables, NEW e \in Entries(t), UpdateEntry(t, e)
       PROVE  Ring!IInv'
  BY <1>1, <1>10 DEF UpdateEntry
<1>11. ASSUME NEW v \in Views, UpdateView(v) PROVE Ring!IInv'
  BY <1>1, <1>11 DEF UpdateView
<1>12. ASSUME NEW argument \in CloneArguments, Clone(argument) PROVE Ring!IInv'
  BY <1>1, <1>12 DEF Clone
<1>13. CASE Bind \/ BindThrows
  BY <1>1, <1>13 DEF Bind, BindThrows
<1>14. CASE UNCHANGED vars
  BY <1>1, <1>14 DEF vars
<1>15. QED
  BY <1>2, <1>3, <1>4, <1>5, <1>6, <1>7, <1>8, <1>9, <1>10, <1>11, <1>12, <1>13, <1>14 DEF Next

LEMMA InitSet == Init => SetInv
<1> SUFFICES ASSUME Init PROVE SetInv
  OBVIOUS
<1>1. NewTable \in [frame : Int, offset : Nat, isSet : SUBSET Nat] /\ NewTable.frame = -1
  BY DEF NewTable, NoFrame
<1>2. /\ pc = "start" /\ reads = {} /\ mFrameQueue = << >> /\ request = 0 /\ regions = {}
      /\ mFrameCounter = 0 /\ tables = [t \in Tables |-> NewTable]
      /\ heap = [a \in 0..(HeapSize - 1) |-> Free]
  BY DEF Init, Pool!Init
<1>3. ThreadInv
  BY <1>1, <1>2 DEF ThreadInv
<1>4. TableInv
  BY <1>1, <1>2 DEF TableInv, IsCurrent
<1>5. ReadInv /\ UnreadInv
  BY <1>2 DEF ReadInv, UnreadInv
<1>6. QED
  BY <1>3, <1>4, <1>5 DEF SetInv
-----------------------------------------------------------------------------
(* Steps that leave the tables, the heap and the frame as they are.        *)
LEMMA TablesStay ==
    ASSUME TableInv, UNCHANGED <<tables, heap, mFrameCounter, regions>>
    PROVE  TableInv'
BY DEF TableInv, IsCurrent, RegionOf, Holds, Entries, Ring!Disjoint

LEMMA ReadsStay ==
    ASSUME ReadInv, UNCHANGED <<reads, completed, mFrameCounter, regions>>
    PROVE  ReadInv'
BY DEF ReadInv, Covers

LEMMA UnreadStays ==
    ASSUME Unread, UNCHANGED <<tables, mFrameCounter, bound, reads>>
    PROVE  Unread'
BY DEF Unread, IsCurrent, Entries, NotRead

(* The set's invariant over the actions, one by one.                       *)
LEMMA CreateSet == Ring!IInv /\ SetInv /\ Create => SetInv'
<1> SUFFICES ASSUME Ring!IInv, SetInv, Create PROVE SetInv'
  OBVIOUS
<1>1. /\ pc = "start" /\ reads = {} /\ mFrameQueue = << >> /\ request = 0
      /\ mFrameCounter = 0 /\ ThreadInv /\ TableInv
  BY RingFacts DEF Create, SetInv, ThreadInv
<1>2. /\ pc' = "paint" /\ reads' = {} /\ regions' = {} /\ mFrameCounter' = 1 /\ request' = 0
      /\ UNCHANGED <<tables, heap>>
      /\ mFrameQueue' = << [mFrame |-> 1, mOffset |-> 0] >>
  BY <1>1 DEF Create, Pool!InitBuffer, binderVars
<1>3. \A t \in Tables : tables[t].frame \in Int /\ tables[t].frame <= 0
  BY <1>1 DEF ThreadInv, TableInv
<1>4. ThreadInv'
  BY <1>1, <1>2 DEF ThreadInv
<1>5. TableInv'
  BY <1>2, <1>3 DEF TableInv, IsCurrent
<1>6. ReadInv' /\ Unread'
  BY <1>2 DEF ReadInv, Unread, NotRead
<1>7. QED
  BY <1>4, <1>5, <1>6 DEF SetInv, UnreadInv

LEMMA BeginAllocateSet ==
    ASSUME Ring!IInv, SetInv, NEW t \in Tables, NEW e \in Entries(t), BeginAllocate(t, e)
    PROVE  SetInv'
<1>1. /\ pc = "paint" /\ pc' = "allocate" /\ writing' = <<t, e>>
      /\ request' = DescriptorCount[t]
      /\ UNCHANGED <<mFrameCounter, mFrameQueue, signalled, completed, regions, tables, heap,
                     reads, bound>>
  BY DEF BeginAllocate, Pool!BeginAllocate, Pool!frameVars, Pool!gpuVars, binderVars, callerVars
<1>2. ThreadInv'
  BY <1>1 DEF SetInv, ThreadInv, Entries
<1>3. TableInv' /\ ReadInv'
  BY <1>1, TablesStay, ReadsStay DEF SetInv
<1>4. ASSUME Full!IInv PROVE Full!IInv'
  <2>1. Full!BeginAllocate(DescriptorCount[t])
    BY <1>1, SameActions DEF BeginAllocate, NoRoom
  <2>2. DescriptorCount[t] \in {DescriptorCount[u] : u \in Tables}
    OBVIOUS
  <2>3. QED
    BY <1>4, <2>1, <2>2, RingAssumptions, Full!BeginAllocateIInv
<1>5. UnreadInv'
  BY <1>1, <1>4, UnreadStays DEF SetInv, UnreadInv
<1>6. QED
  BY <1>2, <1>3, <1>5 DEF SetInv

LEMMA ReclaimOldestSet == Ring!IInv /\ SetInv /\ ReclaimOldest => SetInv'
<1> SUFFICES ASSUME Ring!IInv, SetInv, ReclaimOldest PROVE SetInv'
  OBVIOUS
<1>1. /\ request # 0 /\ Len(mFrameQueue) > 1 /\ mFrameQueue' = Tail(mFrameQueue)
      /\ UNCHANGED <<request, mFrameCounter, signalled, completed, regions, tables, heap,
                     writing, pc, reads, bound>>
  BY DEF ReclaimOldest, Pool!ReclaimOldest, Pool!gpuVars, binderVars, callerVars
<1>2. mFrameQueue' # << >> /\ pc = "allocate"
  <2>1. mFrameQueue \in Seq(Ring!FrameInfo)
    BY DEF Ring!IInv, Ring!TypeOK
  <2>2. Tail(mFrameQueue) # << >>
    BY <1>1, <2>1, RingAssumptions, Ring!TailQueue
  <2>3. QED
    BY <1>1, <2>2 DEF SetInv, ThreadInv
<1>3. ThreadInv'
  BY <1>1, <1>2 DEF SetInv, ThreadInv, Entries
<1>4. TableInv' /\ ReadInv'
  BY <1>1, TablesStay, ReadsStay DEF SetInv
<1>5. Full!IInv => Full!IInv'
  BY <1>1, SameActions, RingAssumptions, Full!ReclaimOldestIInv DEF ReclaimOldest, NoRoom
<1>6. UnreadInv'
  BY <1>1, <1>2, <1>5, UnreadStays DEF SetInv, UnreadInv
<1>7. QED
  BY <1>3, <1>4, <1>6 DEF SetInv

LEMMA ThrowFullSet == Ring!IInv /\ SetInv /\ ThrowFull => SetInv'
<1> SUFFICES ASSUME Ring!IInv, SetInv, ThrowFull PROVE SetInv'
  OBVIOUS
<1>1. /\ request' = 0 /\ pc' = "terminated"
      /\ UNCHANGED <<mFrameCounter, completed, regions, tables, heap, reads>>
  BY DEF ThrowFull, Pool!ThrowFull, Pool!frameVars, Pool!gpuVars, binderVars
<1>2. ThreadInv'
  BY <1>1 DEF SetInv, ThreadInv
<1>3. TableInv' /\ ReadInv' /\ UnreadInv'
  BY <1>1, TablesStay, ReadsStay DEF SetInv, UnreadInv
<1>4. QED
  BY <1>2, <1>3 DEF SetInv

LEMMA UpdateViewSet ==
    ASSUME SetInv, NEW v \in Views, UpdateView(v)
    PROVE  SetInv'
<1>1. /\ pc = "paint"
      /\ UNCHANGED <<ringVars, mFrameQueue, request, mCurrentOffset, mFrameCounter, completed,
                     regions, tables, heap, pc, reads, bound>>
  BY DEF UpdateView, ringVars, callerVars
<1>2. ThreadInv'
  BY <1>1 DEF SetInv, ThreadInv
<1>3. TableInv' /\ ReadInv'
  BY <1>1, TablesStay, ReadsStay DEF SetInv
<1>4. UnreadInv'
  <2>1. FrameIsFull => FrameIsFull'
    BY <1>1 DEF FrameIsFull, Pool!Current
  <2>2. QED
    BY <1>1, <2>1, RingStays, UnreadStays DEF SetInv, UnreadInv
<1>5. QED
  BY <1>2, <1>3, <1>4 DEF SetInv

LEMMA BindThrowsSet == SetInv /\ BindThrows => SetInv'
<1> SUFFICES ASSUME SetInv, BindThrows PROVE SetInv'
  OBVIOUS
<1>1. /\ pc = "paint" /\ pc' = "terminated"
      /\ UNCHANGED <<request, mFrameCounter, completed, regions, tables, heap, reads>>
  BY DEF BindThrows, ringVars, binderVars
<1>2. ThreadInv'
  BY <1>1 DEF SetInv, ThreadInv
<1>3. TableInv' /\ ReadInv' /\ UnreadInv'
  BY <1>1, TablesStay, ReadsStay DEF SetInv, UnreadInv
<1>4. QED
  BY <1>2, <1>3 DEF SetInv
-----------------------------------------------------------------------------
(* The descriptors of a table of this frame are in the heap, and are not   *)
(* those of another table of this frame.                                   *)
LEMMA OwnCells ==
    ASSUME ThreadInv, TableInv, NEW t \in Tables, IsCurrent(t)
    PROVE  /\ tables[t].offset \in Nat /\ tables[t].frame = mFrameCounter
           /\ RegionOf(t) \in regions
           /\ \A e \in Entries(t) : /\ e \in Nat
                                    /\ tables[t].offset + e \in DOMAIN heap
                                    /\ Covers(RegionOf(t), tables[t].offset + e)
<1>1. tables[t].offset \in Nat /\ tables[t].frame = mFrameCounter
  BY DEF ThreadInv, IsCurrent
<1>2. RegionOf(t) \in regions
  BY DEF TableInv
<1>3. tables[t].offset + DescriptorCount[t] <= HeapSize
  BY <1>2 DEF TableInv, RegionOf
<1>4. ASSUME NEW e \in Entries(t)
      PROVE  /\ e \in Nat
             /\ tables[t].offset + e \in DOMAIN heap
             /\ Covers(RegionOf(t), tables[t].offset + e)
  <2>1. e \in Nat /\ e < DescriptorCount[t] /\ DescriptorCount[t] \in Nat
    BY Counts
  <2>2. tables[t].offset + e \in 0..(HeapSize - 1)
    BY <1>1, <1>3, <2>1, HeapHasRoom
  <2>3. Covers(RegionOf(t), tables[t].offset + e)
    BY <1>1, <2>1 DEF Covers, RegionOf
  <2>4. QED
    BY <2>1, <2>2, <2>3 DEF ThreadInv
<1>5. QED
  BY <1>1, <1>2, <1>4

LEMMA ApartCells ==
    ASSUME NEW r, NEW s, NEW a \in Int, Ring!Disjoint(r, s), Covers(r, a), Covers(s, a),
           r.from \in Nat, r.size \in Nat, s.from \in Nat, s.size \in Nat
    PROVE  FALSE
BY DEF Ring!Disjoint, Covers

LEMMA OtherCells ==
    ASSUME ThreadInv, TableInv, NEW t \in Tables, NEW u \in Tables, t # u,
           IsCurrent(t), IsCurrent(u), NEW e \in Entries(t), NEW f \in Entries(u)
    PROVE  tables[t].offset + e # tables[u].offset + f
<1>1. /\ Covers(RegionOf(t), tables[t].offset + e) /\ tables[t].offset + e \in Int
      /\ Covers(RegionOf(u), tables[u].offset + f)
      /\ tables[t].offset \in Nat /\ tables[u].offset \in Nat
  BY OwnCells
<1>2. Ring!Disjoint(RegionOf(t), RegionOf(u))
  BY DEF TableInv
<1>3. /\ RegionOf(t).from \in Nat /\ RegionOf(t).size \in Nat
      /\ RegionOf(u).from \in Nat /\ RegionOf(u).size \in Nat
  BY <1>1, Counts DEF RegionOf
<1>4. QED
  BY <1>1, <1>2, <1>3, ApartCells

(* An entry of a table is written in the table's own region.               *)
LEMMA UpdateEntrySet ==
    ASSUME Ring!IInv, SetInv, NEW t \in Tables, NEW e \in Entries(t), UpdateEntry(t, e)
    PROVE  SetInv'
<1>1. /\ pc = "paint" /\ IsCurrent(t)
      /\ tables' = [tables EXCEPT ![t].isSet = @ \cup {e}]
      /\ heap' = [heap EXCEPT ![tables[t].offset + e] = Written(t, e)]
      /\ UNCHANGED <<ringVars, mFrameQueue, request, mCurrentOffset, mFrameCounter, completed,
                     regions, pc, writing, reads, bound>>
  BY DEF UpdateEntry, ringVars, callerVars
<1>2. ThreadInv /\ TableInv
  BY DEF SetInv
<1>3. /\ tables[t].offset + e \in DOMAIN heap /\ e \in Nat
      /\ tables[t].frame = mFrameCounter
  BY <1>1, <1>2, OwnCells
<1>4. \A u \in Tables : /\ tables'[u].frame = tables[u].frame
                        /\ tables'[u].offset = tables[u].offset
                        /\ u # t => tables'[u].isSet = tables[u].isSet
  BY <1>1, <1>2 DEF ThreadInv
<1>5. tables'[t].isSet = tables[t].isSet \cup {e}
  BY <1>1, <1>2 DEF ThreadInv
<1>6. ThreadInv'
  <2>1. tables' \in [Tables -> [frame : Int, offset : Nat, isSet : SUBSET Nat]]
    BY <1>1, <1>2, <1>3 DEF ThreadInv
  <2>2. DOMAIN heap' = 0..(HeapSize - 1)
    BY <1>1, <1>2 DEF ThreadInv
  <2>3. QED
    BY <1>1, <1>2, <2>1, <2>2 DEF ThreadInv
<1>7. ASSUME NEW u \in Tables, IsCurrent(u)
      PROVE  /\ tables'[u].isSet \subseteq Entries(u)
             /\ \A f \in tables'[u].isSet : Holds(u, f)'
  <2>1. tables[u].isSet \subseteq Entries(u) /\ \A f \in tables[u].isSet : Holds(u, f)
    BY <1>2, <1>7 DEF TableInv
  <2>2. tables'[u].isSet \subseteq Entries(u)
    BY <1>4, <1>5, <2>1
  <2>3. ASSUME NEW f \in tables'[u].isSet PROVE Holds(u, f)'
    <3>1. CASE u = t /\ f = e
      <4>1. heap'[tables[t].offset + e] = Written(t, e)
        BY <1>1, <1>3
      <4>2. QED
        BY <1>3, <1>4, <3>1, <4>1 DEF Holds, Written
    <3>2. CASE ~(u = t /\ f = e)
      <4>1. f \in tables[u].isSet /\ f \in Entries(u)
        BY <1>4, <1>5, <2>1, <3>2
      <4>2. tables[u].offset + f # tables[t].offset + e
        <5>1. CASE u = t
          BY <1>1, <1>2, <3>2, <4>1, <5>1, OwnCells
        <5>2. CASE u # t
          BY <1>1, <1>2, <1>7, <4>1, <5>2, OtherCells
        <5>3. QED
          BY <5>1, <5>2
      <4>3. heap'[tables[u].offset + f] = heap[tables[u].offset + f]
        <5>1. tables[u].offset + f \in DOMAIN heap
          BY <1>2, <1>7, <4>1, OwnCells
        <5>2. QED
          BY <1>1, <4>2, <5>1
      <4>4. Holds(u, f)
        BY <2>1, <4>1
      <4>5. QED
        BY <1>4, <4>3, <4>4 DEF Holds
    <3>3. QED
      BY <3>1, <3>2
  <2>4. QED
    BY <2>2, <2>3
<1>8. TableInv'
  <2>1. \A u \in Tables : RegionOf(u)' = RegionOf(u) /\ (IsCurrent(u)' <=> IsCurrent(u))
    BY <1>1, <1>4 DEF RegionOf, IsCurrent
  <2>2. \A u \in Tables : tables'[u].frame <= mFrameCounter'
    BY <1>1, <1>2, <1>4 DEF TableInv
  <2>3. \A u \in Tables : IsCurrent(u)' =>
          /\ RegionOf(u)' \in regions'
          /\ tables'[u].isSet \subseteq Entries(u)
          /\ \A f \in tables'[u].isSet : Holds(u, f)'
    BY <1>1, <1>2, <1>7, <2>1 DEF TableInv
  <2>4. \A u, v \in Tables : u # v /\ IsCurrent(u)' /\ IsCurrent(v)' =>
          Ring!Disjoint(RegionOf(u)', RegionOf(v)')
    BY <1>2, <2>1 DEF TableInv
  <2>5. \A r \in regions' : r.size > 0 /\ r.from + r.size <= HeapSize
    BY <1>1, <1>2 DEF TableInv
  <2>6. QED
    BY <2>2, <2>3, <2>4, <2>5 DEF TableInv, Ring!Disjoint
<1>9. ReadInv'
  BY <1>1, ReadsStay DEF SetInv
<1>10. UnreadInv'
  <2>1. FrameIsFull => FrameIsFull'
    BY <1>1 DEF FrameIsFull, Pool!Current
  <2>2. Unread => Unread'
    BY <1>1, <1>4 DEF Unread, IsCurrent, NotRead
  <2>3. QED
    BY <1>1, <2>1, <2>2, RingStays DEF SetInv, UnreadInv
<1>11. QED
  BY <1>6, <1>8, <1>9, <1>10 DEF SetInv

(* What the pool hands out is apart from every region, so from every table *)
(* of the frame and, when only tables of the frame are drawn, from all     *)
(* that the GPU may read.                                                  *)
LEMMA AllocatedFacts ==
    ASSUME Ring!IInv, Ring!FinishAllocate
    PROVE  /\ \A r \in regions : Ring!Disjoint(r, Ring!Allocated)
           /\ Ring!Allocated = [frame |-> mFrameCounter, from |-> mCurrentOffset, size |-> request]
           /\ mCurrentOffset \in Nat /\ request \in Nat /\ request > 0
           /\ mCurrentOffset + request <= HeapSize
           /\ mFrameQueue # << >>
<1>1. \A r \in regions : Ring!Disjoint(r, Ring!Allocated)
  BY RingAssumptions, Ring!AllocatedIsFree
<1>2. /\ request \in Nat \ {0} /\ mCurrentOffset \in 0..HeapSize
      /\ mCurrentOffset + request <= HeapSize /\ mFrameQueue # << >>
  BY RingAssumptions, Ring!FinishFacts
<1>3. QED
  BY <1>1, <1>2, HeapHasRoom DEF Ring!Allocated

LEMMA WritingFacts ==
    ASSUME ThreadInv, NEW t \in Tables, NEW e \in Entries(t), FinishAllocate(t, e)
    PROVE  pc = "allocate" /\ writing = <<t, e>> /\ request = DescriptorCount[t]
<1>1. pc = "allocate" /\ writing = <<t, e>>
  BY DEF ThreadInv, FinishAllocate, Pool!FinishAllocate
<1>2. PICK u \in Tables : \E f \in Entries(u) : writing = <<u, f>> /\ request = DescriptorCount[u]
  BY <1>1 DEF ThreadInv
<1>3. u = t
  BY <1>1, <1>2
<1>4. QED
  BY <1>1, <1>2, <1>3

LEMMA AllocatedIsUnread ==
    ASSUME Ring!IInv, SetInv, EveryFrame, NEW t \in Tables, NEW e \in Entries(t),
           FinishAllocate(t, e), NEW f \in Entries(t)
    PROVE  NotRead(mCurrentOffset + f)
<1> DEFINE A == Ring!Allocated
<1>1. Ring!FinishAllocate /\ request = DescriptorCount[t]
  BY SameActions, WritingFacts DEF FinishAllocate, SetInv
<1>2. /\ \A r \in regions : Ring!Disjoint(r, A)
      /\ A = [frame |-> mFrameCounter, from |-> mCurrentOffset, size |-> request]
      /\ mCurrentOffset \in Nat /\ request \in Nat
  BY <1>1, AllocatedFacts
<1> HIDE DEF A
<1>3. ASSUME NEW r \in reads PROVE r[2] # mCurrentOffset + f
  <2>1. PICK g \in regions : Covers(g, r[2]) /\ r[2] \in Int
    BY DEF SetInv, ReadInv
  <2>2. f \in Nat /\ f < request
    BY <1>1, Counts
  <2>3. Covers(A, mCurrentOffset + f)
    BY <1>2, <2>2 DEF Covers
  <2>4. g.from \in Nat /\ g.size \in Nat /\ A.from \in Nat /\ A.size \in Nat
    BY <1>2, RingFacts
  <2>5. Ring!Disjoint(g, A)
    BY <1>2
  <2>6. QED
    BY <2>1, <2>3, <2>4, <2>5, ApartCells
<1>4. QED
  BY <1>3 DEF NotRead

LEMMA FinishAllocateSet ==
    ASSUME Ring!IInv, SetInv, NEW t \in Tables, NEW e \in Entries(t), FinishAllocate(t, e)
    PROVE  SetInv'
<1> DEFINE A == Ring!Allocated
<1>1. Ring!FinishAllocate /\ request # 0
  BY SameActions DEF FinishAllocate, Pool!FinishAllocate
<1>2. ThreadInv /\ TableInv /\ ReadInv /\ UnreadInv
  BY DEF SetInv
<1>3. pc = "allocate" /\ writing = <<t, e>> /\ request = DescriptorCount[t]
  BY <1>2, WritingFacts
<1>4. /\ pc' = "paint" /\ request' = 0 /\ regions' = regions \cup {A}
      /\ tables' = [tables EXCEPT ![t] = Allocated(t, e)]
      /\ heap' = [heap EXCEPT ![mCurrentOffset + e] = Written(t, e)]
      /\ UNCHANGED <<mFrameCounter, mFrameQueue, signalled, completed, reads, bound>>
  BY <1>1 DEF FinishAllocate, Ring!FinishAllocate, Ring!frameVars, Ring!gpuVars, callerVars
<1>5. /\ \A r \in regions : Ring!Disjoint(r, A)
      /\ A = [frame |-> mFrameCounter, from |-> mCurrentOffset, size |-> request]
      /\ mCurrentOffset \in Nat /\ request \in Nat /\ request > 0
      /\ mCurrentOffset + request <= HeapSize /\ mFrameQueue # << >>
      /\ mFrameCounter \in Nat
  BY <1>1, AllocatedFacts, RingFacts
<1>6. \A u \in Tables : u # t => tables'[u] = tables[u]
  BY <1>2, <1>4 DEF ThreadInv
<1>7. tables'[t] = [frame |-> mFrameCounter, offset |-> mCurrentOffset, isSet |-> {e}]
  BY <1>2, <1>4 DEF ThreadInv, Allocated
<1>8. RegionOf(t)' = A
  BY <1>3, <1>5, <1>7 DEF RegionOf
<1>9. e \in Nat /\ e < request /\ mCurrentOffset + e \in DOMAIN heap
  <2>1. e \in Nat /\ e < request
    BY <1>3, Counts
  <2>2. mCurrentOffset + e \in 0..(HeapSize - 1)
    BY <1>5, <2>1, HeapHasRoom
  <2>3. QED
    BY <1>2, <2>1, <2>2 DEF ThreadInv
<1>10. \A u \in Tables : u # t => RegionOf(u)' = RegionOf(u) /\ (IsCurrent(u)' <=> IsCurrent(u))
  BY <1>4, <1>6 DEF RegionOf, IsCurrent
<1>11. ThreadInv'
  <2>1. tables' \in [Tables -> [frame : Int, offset : Nat, isSet : SUBSET Nat]]
    <3>1. Allocated(t, e) \in [frame : Int, offset : Nat, isSet : SUBSET Nat]
      BY <1>5, <1>9 DEF Allocated
    <3>2. QED
      BY <1>2, <1>4, <3>1 DEF ThreadInv
  <2>2. DOMAIN heap' = 0..(HeapSize - 1)
    BY <1>2, <1>4 DEF ThreadInv
  <2>3. QED
    BY <1>4, <1>5, <2>1, <2>2 DEF ThreadInv
<1> HIDE DEF A
<1>12. ASSUME NEW u \in Tables, u # t, IsCurrent(u), NEW f \in Entries(u)
       PROVE  heap'[tables[u].offset + f] = heap[tables[u].offset + f]
  <2>1. /\ RegionOf(u) \in regions /\ tables[u].offset \in Nat /\ f \in Nat
        /\ tables[u].offset + f \in DOMAIN heap
        /\ Covers(RegionOf(u), tables[u].offset + f)
    BY <1>2, <1>12, OwnCells
  <2>2. Covers(A, mCurrentOffset + e) /\ mCurrentOffset + e \in Int
    BY <1>5, <1>9 DEF Covers
  <2>3. Ring!Disjoint(RegionOf(u), A)
    BY <1>5, <2>1
  <2>4. RegionOf(u).from \in Nat /\ RegionOf(u).size \in Nat /\ A.from \in Nat /\ A.size \in Nat
    BY <1>5, <2>1, Counts DEF RegionOf
  <2>5. tables[u].offset + f # mCurrentOffset + e
    BY <2>1, <2>2, <2>3, <2>4, ApartCells
  <2>6. QED
    BY <1>4, <2>1, <2>5
<1>13. TableInv'
  <2>1. \A r \in regions' : r.size > 0 /\ r.from + r.size <= HeapSize
    BY <1>2, <1>4, <1>5 DEF TableInv
  <2>2. \A u \in Tables : tables'[u].frame <= mFrameCounter'
    BY <1>2, <1>4, <1>5, <1>6, <1>7 DEF TableInv
  <2>3. /\ RegionOf(t)' \in regions' /\ tables'[t].isSet \subseteq Entries(t)
        /\ \A f \in tables'[t].isSet : Holds(t, f)'
    <3>1. heap'[mCurrentOffset + e] = Written(t, e)
      BY <1>4, <1>9
    <3>2. QED
      BY <1>4, <1>7, <1>8, <3>1 DEF Holds, Written
  <2>4. ASSUME NEW u \in Tables, u # t, IsCurrent(u)
        PROVE  /\ RegionOf(u)' \in regions' /\ tables'[u].isSet \subseteq Entries(u)
               /\ \A f \in tables'[u].isSet : Holds(u, f)'
    <3>1. /\ RegionOf(u) \in regions /\ tables[u].isSet \subseteq Entries(u)
          /\ \A f \in tables[u].isSet : Holds(u, f)
      BY <1>2, <2>4 DEF TableInv
    <3>2. \A f \in tables[u].isSet : Holds(u, f)'
      BY <1>6, <1>12, <2>4, <3>1 DEF Holds
    <3>3. QED
      BY <1>4, <1>6, <1>10, <2>4, <3>1, <3>2
  <2>5. \A u \in Tables : IsCurrent(u)' =>
          /\ RegionOf(u)' \in regions'
          /\ tables'[u].isSet \subseteq Entries(u)
          /\ \A f \in tables'[u].isSet : Holds(u, f)'
    BY <1>10, <2>3, <2>4
  <2>6. ASSUME NEW u \in Tables, NEW v \in Tables, u # v, IsCurrent(u)', IsCurrent(v)'
        PROVE  Ring!Disjoint(RegionOf(u)', RegionOf(v)')
    <3>1. CASE u = t
      <4>1. Ring!Disjoint(RegionOf(v), A)
        BY <1>2, <1>5, <1>10, <2>6, <3>1 DEF TableInv
      <4>2. QED
        BY <1>8, <1>10, <2>6, <3>1, <4>1 DEF Ring!Disjoint
    <3>2. CASE v = t
      <4>1. Ring!Disjoint(RegionOf(u), A)
        BY <1>2, <1>5, <1>10, <2>6, <3>2 DEF TableInv
      <4>2. QED
        BY <1>8, <1>10, <2>6, <3>2, <4>1
    <3>3. CASE u # t /\ v # t
      BY <1>2, <1>10, <2>6, <3>3 DEF TableInv
    <3>4. QED
      BY <3>1, <3>2, <3>3
  <2>7. QED
    BY <2>1, <2>2, <2>5, <2>6 DEF TableInv, Ring!Disjoint
<1>14. ReadInv'
  BY <1>2, <1>4 DEF ReadInv, Covers
<1>15. UnreadInv'
  <2> SUFFICES ASSUME EveryFrame PROVE Unread'
    BY DEF UnreadInv
  <2>1. ~Full!IInv
    BY <1>1, FullAllocatesNothing
  <2>2. Unread
    BY <1>2, <1>3, <2>1 DEF UnreadInv
  <2>3. \A f \in Entries(t) : NotRead(mCurrentOffset + f)
    BY AllocatedIsUnread
  <2>4. ASSUME NEW u \in Tables, IsCurrent(u)', u \notin bound', NEW f \in Entries(u)
        PROVE  NotRead(tables[u].offset + f)'
    <3>1. CASE u = t
      <4>1. tables'[u].offset = mCurrentOffset /\ f \in Entries(t)
        BY <1>7, <3>1
      <4>2. NotRead(mCurrentOffset + f)
        BY <2>3, <4>1
      <4>3. QED
        BY <1>4, <4>1, <4>2 DEF NotRead
    <3>2. CASE u # t
      <4>1. IsCurrent(u) /\ u \notin bound /\ tables'[u].offset = tables[u].offset
        BY <1>4, <1>6, <1>10, <2>4, <3>2
      <4>2. NotRead(tables[u].offset + f)
        BY <2>2, <4>1 DEF Unread
      <4>3. QED
        BY <1>4, <4>1, <4>2 DEF NotRead
    <3>3. QED
      BY <3>1, <3>2
  <2>5. QED
    BY <2>4 DEF Unread, Entries
<1>16. QED
  BY <1>11, <1>13, <1>14, <1>15 DEF SetInv

(* clone takes its tables out of the frame.                                *)
LEMMA CloneSet ==
    ASSUME Ring!IInv, SetInv, NEW argument \in CloneArguments, Clone(argument)
    PROVE  SetInv'
<1> DEFINE indices == IF argument = {} THEN AutoReplace ELSE argument
<1>1. /\ pc = "paint" /\ tables' = Replaced(indices) /\ bound' = bound \ indices
      /\ UNCHANGED <<ringVars, mFrameQueue, request, mCurrentOffset, mFrameCounter, completed,
                     regions, pc, writing, heap, reads>>
  BY DEF Clone, ringVars
<1> HIDE DEF indices
<1>2. ThreadInv /\ TableInv /\ ReadInv /\ UnreadInv /\ mFrameCounter \in Nat
  BY RingFacts DEF SetInv
<1>3. NewTable \in [frame : Int, offset : Nat, isSet : SUBSET Nat] /\ NewTable.frame = -1
  BY DEF NewTable, NoFrame
<1>4. \A u \in Tables : /\ u \in indices => tables'[u] = NewTable
                        /\ u \notin indices => tables'[u] = tables[u]
  BY <1>1 DEF Replaced
<1>5. \A u \in Tables : IsCurrent(u)' => /\ u \notin indices /\ IsCurrent(u)
                                         /\ tables'[u] = tables[u]
  BY <1>1, <1>2, <1>3, <1>4 DEF IsCurrent
<1>6. ThreadInv'
  <2>1. tables' \in [Tables -> [frame : Int, offset : Nat, isSet : SUBSET Nat]]
    BY <1>1, <1>2, <1>3 DEF ThreadInv, Replaced
  <2>2. QED
    BY <1>1, <1>2, <2>1 DEF ThreadInv
<1>7. TableInv'
  <2>1. \A u \in Tables : tables'[u].frame <= mFrameCounter'
    BY <1>1, <1>2, <1>3, <1>4 DEF TableInv
  <2>2. ASSUME NEW u \in Tables, IsCurrent(u)'
        PROVE  /\ IsCurrent(u) /\ RegionOf(u)' = RegionOf(u)
               /\ RegionOf(u)' \in regions' /\ tables'[u].isSet \subseteq Entries(u)
               /\ \A f \in tables'[u].isSet : Holds(u, f)'
    <3>1. IsCurrent(u) /\ RegionOf(u)' = RegionOf(u) /\ tables'[u] = tables[u]
      BY <1>5, <2>2 DEF RegionOf
    <3>2. /\ RegionOf(u) \in regions /\ tables[u].isSet \subseteq Entries(u)
          /\ \A f \in tables[u].isSet : Holds(u, f)
      BY <1>2, <3>1 DEF TableInv
    <3>3. \A f \in tables[u].isSet : Holds(u, f)'
      BY <1>1, <3>1, <3>2 DEF Holds
    <3>4. QED
      BY <1>1, <3>1, <3>2, <3>3
  <2>3. \A u, v \in Tables : u # v /\ IsCurrent(u)' /\ IsCurrent(v)' =>
          Ring!Disjoint(RegionOf(u)', RegionOf(v)')
    BY <1>2, <2>2 DEF TableInv
  <2>4. \A r \in regions' : r.size > 0 /\ r.from + r.size <= HeapSize
    BY <1>1, <1>2 DEF TableInv
  <2>5. QED
    BY <2>1, <2>2, <2>3, <2>4 DEF TableInv, Ring!Disjoint
<1>8. ReadInv'
  BY <1>1, <1>2, ReadsStay
<1>9. UnreadInv'
  <2>1. FrameIsFull => FrameIsFull'
    BY <1>1 DEF FrameIsFull, Pool!Current
  <2>2. Unread => Unread'
    <3> SUFFICES ASSUME Unread, NEW u \in Tables, IsCurrent(u)', u \notin bound',
                        NEW f \in Entries(u)
                 PROVE  NotRead(tables[u].offset + f)'
      BY DEF Unread, Entries
    <3>1. IsCurrent(u) /\ u \notin bound /\ tables'[u] = tables[u]
      BY <1>1, <1>5
    <3>2. NotRead(tables[u].offset + f)
      BY <3>1 DEF Unread
    <3>3. QED
      BY <1>1, <3>1, <3>2 DEF NotRead
  <2>3. QED
    BY <1>1, <1>2, <2>1, <2>2, RingStays DEF UnreadInv
<1>10. QED
  BY <1>6, <1>7, <1>8, <1>9 DEF SetInv

(* The callers draw tables of the frame only, and all of them.             *)
LEMMA BoundAreCurrent ==
    ASSUME EveryFrame, MayBind, NEW t \in Tables
    PROVE  IsCurrent(t)
BY DEF EveryFrame, MayBind

LEMMA BindSet == Ring!IInv /\ SetInv /\ Bind => SetInv'
<1> SUFFICES ASSUME Ring!IInv, SetInv, Bind PROVE SetInv'
  OBVIOUS
<1> DEFINE readNow == UNION {{<<mFrameCounter, a>> : a \in Cells(t)} : t \in Tables}
<1>1. /\ pc = "paint" /\ MayBind /\ reads' = reads \cup readNow /\ bound' = Tables
      /\ UNCHANGED <<ringVars, mFrameQueue, request, mCurrentOffset, mFrameCounter, completed,
                     regions, pc, writing, heap, tables>>
  BY DEF Bind, ringVars, binderVars
<1>2. /\ ThreadInv /\ TableInv /\ ReadInv /\ mFrameCounter \in Nat /\ completed \in Nat
      /\ completed < mFrameCounter
  <2>1. ThreadInv /\ TableInv /\ ReadInv /\ mFrameQueue # << >>
    BY <1>1 DEF SetInv, ThreadInv
  <2>2. QED
    BY <2>1, RingFacts
<1>3. \A r \in readNow : \E t \in Tables : \E e \in Entries(t) :
        r[1] = mFrameCounter /\ r[2] = tables[t].offset + e
  BY DEF Cells
<1> HIDE DEF readNow
<1>4. ThreadInv'
  BY <1>1, <1>2 DEF ThreadInv
<1>5. TableInv'
  BY <1>1, <1>2, TablesStay
<1>6. ReadInv'
  <2>1. \A r \in reads' : r[1] \in Nat /\ completed < r[1] /\ r[1] <= mFrameCounter
    BY <1>1, <1>2, <1>3 DEF ReadInv
  <2>2. ASSUME EveryFrame, NEW r \in reads'
        PROVE  r[2] \in Int /\ \E g \in regions : g.frame = r[1] /\ Covers(g, r[2])
    <3>1. CASE r \in reads
      BY <1>2, <2>2, <3>1 DEF ReadInv
    <3>2. CASE r \in readNow
      <4>1. PICK t \in Tables : \E e \in Entries(t) :
              r[1] = mFrameCounter /\ r[2] = tables[t].offset + e
        BY <1>3, <3>2
      <4>2. PICK e \in Entries(t) : r[1] = mFrameCounter /\ r[2] = tables[t].offset + e
        BY <4>1
      <4>3. IsCurrent(t)
        BY <1>1, <2>2, BoundAreCurrent
      <4>4. /\ RegionOf(t) \in regions /\ tables[t].offset \in Nat /\ e \in Nat
            /\ tables[t].frame = mFrameCounter
            /\ Covers(RegionOf(t), tables[t].offset + e)
        BY <1>2, <4>3, OwnCells
      <4>5. RegionOf(t).frame = mFrameCounter
        BY <4>4 DEF RegionOf
      <4>6. QED
        BY <4>2, <4>4, <4>5
    <3>3. QED
      BY <1>1, <3>1, <3>2
  <2>3. QED
    BY <1>1, <2>1, <2>2 DEF ReadInv, Covers
<1>7. UnreadInv'
  BY <1>1 DEF UnreadInv, Unread
<1>8. QED
  BY <1>4, <1>5, <1>6, <1>7 DEF SetInv

(* A paint ends in a new frame, in which no table is current, or in a      *)
(* frame that allocated nothing or has gone around the heap.               *)
LEMMA EndPaintSet == Ring!IInv /\ SetInv /\ EndPaint => SetInv'
<1> SUFFICES ASSUME Ring!IInv, SetInv, EndPaint PROVE SetInv'
  OBVIOUS
<1>1. /\ pc = "paint" /\ bound' = {}
      /\ UNCHANGED <<tables, heap, pc, writing, reads>>
  BY DEF EndPaint, binderVars
<1>2. /\ ThreadInv /\ TableInv /\ ReadInv /\ mFrameQueue # << >> /\ mFrameCounter \in Nat
      /\ mFrameQueue \in Seq(Ring!FrameInfo) /\ mCurrentOffset \in 0..HeapSize
  BY <1>1, RingFacts DEF SetInv, ThreadInv, Ring!IInv, Ring!TypeOK
<1>3. CASE Pool!EndAndGoNextFrame
  <2>1. /\ mFrameCounter' = mFrameCounter + 1 /\ request' = 0
        /\ UNCHANGED <<completed, regions>>
        /\ mFrameQueue' = Append(mFrameQueue,
                            [mFrame |-> mFrameCounter + 1, mOffset |-> mCurrentOffset])
    BY <1>3 DEF Pool!EndAndGoNextFrame
  <2>2. mFrameQueue' # << >>
    <3>1. [mFrame |-> mFrameCounter + 1, mOffset |-> mCurrentOffset] \in Ring!FrameInfo
      BY <1>2 DEF Ring!FrameInfo
    <3>2. QED
      BY <1>2, <2>1, <3>1, RingAssumptions, Ring!AppendQueue
  <2>3. ThreadInv'
    BY <1>1, <1>2, <2>1, <2>2 DEF ThreadInv
  <2>4. \A t \in Tables : tables'[t].frame <= mFrameCounter' /\ ~IsCurrent(t)'
    BY <1>1, <1>2, <2>1 DEF ThreadInv, TableInv, IsCurrent
  <2>5. TableInv'
    BY <1>2, <2>1, <2>4 DEF TableInv
  <2>6. ReadInv'
    BY <1>1, <1>2, <2>1 DEF ReadInv, Covers
  <2>7. Unread'
    BY <2>4 DEF Unread
  <2>8. QED
    BY <2>3, <2>5, <2>6, <2>7 DEF SetInv, UnreadInv
<1>4. CASE UNCHANGED ringVars /\ Pool!Current.mOffset = mCurrentOffset
  <2>1. UNCHANGED <<mFrameQueue, request, mCurrentOffset, mFrameCounter, completed, regions>>
    BY <1>4 DEF ringVars
  <2>2. ThreadInv'
    BY <1>1, <1>2, <2>1 DEF ThreadInv
  <2>3. TableInv' /\ ReadInv'
    BY <1>1, <1>2, <2>1, TablesStay, ReadsStay
  <2>4. CASE FrameIsFull
    <3>1. Full!IInv
      BY <1>2, <2>4, FullOnceAround DEF TableInv
    <3>2. FrameIsFull'
      BY <2>1, <2>4 DEF FrameIsFull, Pool!Current
    <3>3. QED
      BY <1>4, <2>2, <2>3, <3>1, <3>2, RingStays DEF SetInv, UnreadInv
  <2>5. CASE ~FrameIsFull
    <3>1. \A t \in Tables : ~IsCurrent(t)
      BY <1>2, <1>4, <2>5, OwnCells DEF FrameIsFull, RegionOf
    <3>2. Unread'
      BY <1>1, <2>1, <3>1 DEF Unread, IsCurrent
    <3>3. QED
      BY <2>2, <2>3, <3>2 DEF SetInv, UnreadInv
  <2>6. QED
    BY <2>4, <2>5
<1>5. QED
  BY <1>3, <1>4 DEF EndPaint

LEMMA ClearSet == Ring!IInv /\ SetInv /\ Clear => SetInv'
<1> SUFFICES ASSUME Ring!IInv, SetInv, Clear PROVE SetInv'
  OBVIOUS
<1>1. /\ pc' = "terminated" /\ reads' = {} /\ regions' = {} /\ request' = 0 /\ mFrameCounter' = 0
      /\ tables' = [t \in Tables |-> NewTable] /\ heap' = [a \in DOMAIN heap |-> Free]
  <2>1. request = 0 /\ request' = request
    BY DEF Clear, Pool!Clear
  <2>2. QED
    BY <2>1 DEF Clear, Pool!Clear
<1>2. NewTable \in [frame : Int, offset : Nat, isSet : SUBSET Nat] /\ NewTable.frame = -1
  BY DEF NewTable, NoFrame
<1>3. ThreadInv'
  BY <1>1, <1>2 DEF SetInv, ThreadInv
<1>4. TableInv'
  BY <1>1, <1>2 DEF TableInv, IsCurrent
<1>5. ReadInv' /\ UnreadInv'
  BY <1>1 DEF ReadInv, UnreadInv
<1>6. QED
  BY <1>3, <1>4, <1>5 DEF SetInv

(* The GPU completes ended frames only: the regions of this frame stay.    *)
LEMMA GpuCompletesSet == Ring!IInv /\ SetInv /\ GpuCompletes => SetInv'
<1> SUFFICES ASSUME Ring!IInv, SetInv, GpuCompletes PROVE SetInv'
  OBVIOUS
<1>1. /\ completed < signalled /\ completed' = completed + 1
      /\ regions' = {r \in regions : r.frame > completed + 1}
      /\ reads' = {r \in reads : r[1] > completed'}
      /\ UNCHANGED <<mBufferSize, mCurrentOffset, mCurrentUsedByteSize, mFrameCounter,
                     mFrameQueue, request, signalled, tables, heap, pc, writing, bound>>
  BY DEF GpuCompletes, Pool!GpuCompletes, Pool!ringVars, Pool!frameVars, binderVars, callerVars
<1>2. /\ ThreadInv /\ TableInv /\ ReadInv /\ UnreadInv
      /\ mFrameCounter \in Nat /\ completed \in Nat /\ signalled \in Nat
      /\ \A r \in regions : r.frame \in Nat
  BY RingFacts DEF SetInv
<1>3. mFrameCounter > completed + 1
  <2>1. mFrameQueue # << >>
    BY <1>1 DEF Ring!IInv, Ring!FrameInv
  <2>2. QED
    BY <1>1, <1>2, <2>1, RingFacts
<1>4. \A r \in regions : r.frame = mFrameCounter => r \in regions'
  BY <1>1, <1>3
<1>5. ThreadInv'
  BY <1>1, <1>2 DEF ThreadInv
<1>6. TableInv'
  <2>1. ASSUME NEW t \in Tables, IsCurrent(t)'
        PROVE  /\ IsCurrent(t) /\ RegionOf(t)' = RegionOf(t) /\ RegionOf(t)' \in regions'
               /\ tables'[t].isSet \subseteq Entries(t)
               /\ \A f \in tables'[t].isSet : Holds(t, f)'
    <3>1. IsCurrent(t) /\ RegionOf(t)' = RegionOf(t)
      BY <1>1, <2>1 DEF IsCurrent, RegionOf
    <3>2. RegionOf(t) \in regions /\ RegionOf(t).frame = mFrameCounter
      BY <1>2, <3>1, OwnCells DEF RegionOf
    <3>3. /\ tables[t].isSet \subseteq Entries(t)
          /\ \A f \in tables[t].isSet : Holds(t, f)
      BY <1>2, <3>1 DEF TableInv
    <3>4. QED
      BY <1>1, <1>4, <3>1, <3>2, <3>3 DEF Holds
  <2>2. \A t, u \in Tables : t # u /\ IsCurrent(t)' /\ IsCurrent(u)' =>
          Ring!Disjoint(RegionOf(t)', RegionOf(u)')
    BY <1>2, <2>1 DEF TableInv
  <2>3. \A t \in Tables : tables'[t].frame <= mFrameCounter'
    BY <1>1, <1>2 DEF TableInv
  <2>4. \A r \in regions' : r.size > 0 /\ r.from + r.size <= HeapSize
    BY <1>1, <1>2 DEF TableInv
  <2>5. QED
    BY <2>1, <2>2, <2>3, <2>4 DEF TableInv, Ring!Disjoint
<1>7. ReadInv'
  BY <1>1, <1>2 DEF ReadInv, Covers
<1>8. UnreadInv'
  <2>1. Unread => Unread'
    BY <1>1 DEF Unread, IsCurrent, NotRead
  <2>2. FrameIsFull => FrameIsFull'
    BY <1>1, <1>4 DEF FrameIsFull, Pool!Current
  <2>3. Full!IInv => Full!IInv'
    <3>1. Full!GpuCompletes
      <4>1. UNCHANGED NoRoom /\ {r \in {NoRoom} : r.frame > completed + 1} = {NoRoom}
        BY <1>1, <1>3 DEF NoRoom
      <4>2. QED
        BY <1>1, <4>1 DEF Full!GpuCompletes, Full!ringVars, Full!frameVars
    <3>2. QED
      BY <3>1, RingAssumptions, Full!GpuCompletesIInv
  <2>4. QED
    BY <1>1, <1>2, <2>1, <2>2, <2>3 DEF UnreadInv
<1>9. QED
  BY <1>5, <1>6, <1>7, <1>8 DEF SetInv
-----------------------------------------------------------------------------
LEMMA InitIInv == Init => IInv
BY RingInit, InitSet DEF IInv

LEMMA NextIInv == IInv /\ [Next]_vars => IInv'
<1> SUFFICES ASSUME Ring!IInv, SetInv, [Next]_vars PROVE IInv'
  BY DEF IInv
<1>1. Ring!IInv'
  BY RingStep
<1>2. SetInv'
  <2>1. CASE Create
    BY <2>1, CreateSet
  <2>2. CASE \E t \in Tables : \E e \in Entries(t) : UpdateEntry(t, e)
    BY <2>2, UpdateEntrySet
  <2>3. CASE \E t \in Tables : \E e \in Entries(t) : BeginAllocate(t, e)
    BY <2>3, BeginAllocateSet
  <2>4. CASE ReclaimOldest
    BY <2>4, ReclaimOldestSet
  <2>5. CASE ThrowFull
    BY <2>5, ThrowFullSet
  <2>6. CASE \E t \in Tables : \E e \in Entries(t) : FinishAllocate(t, e)
    BY <2>6, FinishAllocateSet
  <2>7. CASE \E v \in Views : UpdateView(v)
    BY <2>7, UpdateViewSet
  <2>8. CASE \E argument \in CloneArguments : Clone(argument)
    BY <2>8, CloneSet
  <2>9. CASE Bind \/ BindThrows
    BY <2>9, BindSet, BindThrowsSet
  <2>10. CASE EndPaint \/ Clear \/ GpuCompletes
    BY <2>10, EndPaintSet, ClearSet, GpuCompletesSet
  <2>11. CASE UNCHANGED vars
    <3>1. /\ UNCHANGED ringVars
          /\ UNCHANGED <<mFrameQueue, request, mCurrentOffset, mFrameCounter, completed, regions,
                         tables, heap, pc, writing, reads, bound>>
      BY <2>11 DEF vars, ringVars, binderVars, callerVars
    <3>2. ThreadInv'
      BY <3>1 DEF SetInv, ThreadInv, Entries
    <3>3. TableInv' /\ ReadInv'
      BY <3>1, TablesStay, ReadsStay DEF SetInv
    <3>4. FrameIsFull => FrameIsFull'
      BY <3>1 DEF FrameIsFull, Pool!Current
    <3>5. UnreadInv'
      BY <3>1, <3>4, RingStays, UnreadStays DEF SetInv, UnreadInv
    <3>6. QED
      BY <3>2, <3>3, <3>5 DEF SetInv
  <2>12. QED
    BY <2>1, <2>2, <2>3, <2>4, <2>5, <2>6, <2>7, <2>8, <2>9, <2>10, <2>11 DEF Next
<1>3. QED
  BY <1>1, <1>2 DEF IInv

(* The tables of a frame keep apart in the heap, what is set in them is    *)
(* there, and what the GPU may read is held by the pool.                   *)
THEOREM PipelineSetInvariant == Spec => []IInv
BY InitIInv, NextIInv, PTL DEF Spec

(* clear waits for all frames that were ended, so only draws of the frame  *)
(* that was not ended may still read the heap it releases.                 *)
THEOREM HeapsAreReleasedAfterDraws == Spec => ClearAfterDraws
<1>1. IInv /\ [Next]_vars => [Clear => \A r \in reads : r[1] = mFrameCounter]_vars
  <2> SUFFICES ASSUME IInv, Clear, NEW r \in reads PROVE r[1] = mFrameCounter
    OBVIOUS
  <2>1. completed = signalled
    <3>1. Ring!ClearMayGo
      BY SameActions DEF Clear, Ring!Clear
    <3>2. QED
      BY <3>1, RingAssumptions, Ring!ResetIsQuiet DEF IInv
  <2>2. signalled = mFrameCounter - 1 /\ mFrameCounter \in Nat
    BY RingFacts DEF IInv, Clear, Pool!Clear
  <2>3. r[1] \in Nat /\ completed < r[1] /\ r[1] <= mFrameCounter
    BY DEF IInv, SetInv, ReadInv
  <2>4. QED
    BY <2>1, <2>2, <2>3
<1>2. QED
  BY <1>1, PipelineSetInvariant, PTL DEF Spec, ClearAfterDraws

(* With callers that update every table in the frame in which they draw    *)
(* it, validate lets nothing through that misses a descriptor.             *)
THEOREM BoundTablesAreComplete ==
    ASSUME "update every frame" \in CallerRules
    PROVE  Spec => BoundIsComplete
<1>1. EveryFrame
  BY DEF EveryFrame
<1>2. ASSUME IInv, Bind, NEW t \in Tables, NEW e \in Entries(t)
      PROVE  LET d == heap[tables[t].offset + e]
             IN  d.table = t /\ d.frame = tables[t].frame /\ d.entry = e
  <2>1. IsCurrent(t)
    BY <1>1, <1>2, BoundAreCurrent DEF Bind
  <2>2. e \in tables[t].isSet
    BY <1>2 DEF Bind, IsValid
  <2>3. Holds(t, e)
    BY <1>2, <2>1, <2>2 DEF IInv, SetInv, TableInv
  <2>4. QED
    BY <2>3 DEF Holds
<1>3. IInv /\ [Next]_vars =>
        [Bind => \A t \in Tables : \A e \in Entries(t) :
                   LET d == heap[tables[t].offset + e]
                   IN  /\ d.table = t
                       /\ d.frame = tables[t].frame
                       /\ d.entry = e]_vars
  BY <1>2
<1>4. QED
  BY <1>3, PipelineSetInvariant, PTL DEF Spec, BoundIsComplete

(* With callers that also clone a set before they update it between two    *)
(* draws, no descriptor is written while the GPU may read it, but in a     *)
(* frame that used the heap exactly once around.                           *)
THEOREM DrawnTablesAreKept ==
    ASSUME {"clone to update", "update every frame"} \subseteq CallerRules
    PROVE  Spec => DrawnIsKept
<1>1. EveryFrame
  BY DEF EveryFrame
<1>2. ASSUME IInv, ~FrameIsFull, NEW t \in Tables, NEW e \in Entries(t), UpdateEntry(t, e)
      PROVE  NotRead(tables[t].offset + e)
  <2>1. pc = "paint" /\ IsCurrent(t)
    BY <1>2 DEF UpdateEntry
  <2>2. t \notin bound
    <3>1. MayUpdate(t)
      BY <1>2 DEF UpdateEntry
    <3>2. QED
      BY <3>1 DEF MayUpdate
  <2>3. Unread
    BY <1>1, <1>2, <2>1 DEF IInv, SetInv, UnreadInv
  <2>4. QED
    BY <2>1, <2>2, <2>3 DEF Unread
<1>3. ASSUME IInv, NEW t \in Tables, NEW e \in Entries(t), FinishAllocate(t, e)
      PROVE  NotRead(mCurrentOffset + e)
  BY <1>1, <1>3, AllocatedIsUnread DEF IInv
<1>4. IInv /\ [Next]_vars =>
        [~FrameIsFull =>
           \A t \in Tables : \A e \in Entries(t) :
             /\ UpdateEntry(t, e) => NotRead(tables[t].offset + e)
             /\ FinishAllocate(t, e) => NotRead(mCurrentOffset + e)]_vars
  BY <1>2, <1>3
<1>5. QED
  BY <1>4, PipelineSetInvariant, PTL DEF Spec, DrawnIsKept
-----------------------------------------------------------------------------
(* Pipelines: what a paint sets is in effect until it draws.  A call whose *)
(* declarations lead to a cell has filled it in this frame, an entry holds *)
(* only the name of a call that leads to it, a clone takes away what the   *)
(* object sets again, and only tables that no own call touches, or those   *)
(* of the object before that are then replaced, are held by a draw.        *)
InPaint  == {"shared", "clone", "own", "draw"}
Calling  == InPaint \cup {"idle"}
AllCalls == Shared \cup Own

(* The names of the stages that were appended, each with its register.     *)
NamesInv ==
    /\ DOMAIN mBindLocations \subseteq Names
    /\ \A i \in DOMAIN StageOrder : i < stage /\ StageOrder[i] \in DOMAIN Info.stages =>
         DOMAIN Info.stages[StageOrder[i]] \subseteq DOMAIN mBindLocations
    /\ \A s \in DOMAIN Info.stages : \A name \in DOMAIN Info.stages[s] :
         name \in DOMAIN mBindLocations => mBindLocations[name] = Info.stages[s][name]

(* What create leaves behind.                                              *)
CreatedInv ==
    /\ at \in Calling \cup {"start", "analysed", "append", "terminated"}
    /\ fault = "none"
    /\ use \in Draws
    /\ at \in Calling \cup {"analysed", "append"} => mBindingHash = Bindings
    /\ at \in {"start", "analysed"} => mBindLocations = << >> /\ stage = 1
    /\ at = "append" => stage \in Nat /\ NamesInv
    /\ at \in Calling => /\ DOMAIN mBindLocations = Names
                         /\ \A name \in Names : mBindLocations[name] = Register(name)
                         /\ DOMAIN elements = DOMAIN Params
                         /\ mReplaceIndices = Info.autoReplace

(* An entry holds the name of a call that leads to it.                     *)
IsOfCall(i, cell, name) ==
    \E u \in AllCalls : Leads(u) /\ Place(u) = <<i - 1, cell>> /\ u.name = name

EntriesInv ==
    at \in Calling => \A i \in DOMAIN elements : \A cell \in DOMAIN elements[i].names :
      cell \in CellsOf(i) /\ IsOfCall(i, cell, elements[i].names[cell])

(* The calls made in this paint are still in effect, but for what a clone  *)
(* has replaced.                                                           *)
IsSet(u) ==
    /\ elements[Place(u)[1] + 1].frame = frame
    /\ Place(u)[2] \in DOMAIN elements[Place(u)[1] + 1].names

CallsInv ==
    /\ at = "shared" => \A k \in DOMAIN use.shared :
         k < step /\ Leads(use.shared[k]) => IsSet(use.shared[k])
    /\ at \in {"clone", "own", "draw"} => \A u \in Shared :
         Leads(u) /\ ~IsReplaced(Place(u)[1]) => IsSet(u)
    /\ at = "own" => \A k \in DOMAIN use.own :
         k < step /\ Leads(use.own[k]) => IsSet(use.own[k])
    /\ at = "draw" => \A u \in Own : Leads(u) => IsSet(u)

(* Which tables the draws of this paint still use.                         *)
DrawnInv ==
    at \in InPaint =>
      /\ object \in 1..use.objects
      /\ step \in Nat \ {0}
      /\ drawn \subseteq TableIndices
      /\ at = "clone" => use.clones /\ step = 1
      /\ at = "shared" \/ (object = 1 /\ at \in {"clone", "own"}) => drawn = {}
      /\ use.clones /\ at = "own" => drawn \cap Info.autoReplace = {}

PipelineInv == WellDeclared /\ CreatedInv /\ EntriesInv /\ CallsInv /\ DrawnInv
-----------------------------------------------------------------------------
(* What the declarations say does not change.                              *)
LEMMA DeclarationsStay ==
    ASSUME UNCHANGED use
    PROVE  /\ Info' = Info
           /\ RootSignature' = RootSignature
           /\ Params' = Params
           /\ Names' = Names
           /\ Bindings' = Bindings
           /\ Shared' = Shared
           /\ Own' = Own
           /\ AllCalls' = AllCalls
<1>1. Info' = Info
  BY DEF Info
<1>2. RootSignature' = RootSignature
  BY <1>1 DEF RootSignature
<1>3. Params' = Params
  BY <1>2 DEF Params
<1>4. Names' = Names
  BY <1>1 DEF Names
<1>5. Bindings' = Bindings
  BY <1>3 DEF Bindings
<1>6. Shared' = Shared /\ Own' = Own
  BY DEF Shared, Own
<1> QED
  BY <1>1, <1>2, <1>3, <1>4, <1>5, <1>6 DEF AllCalls

(* Nor does what a call leads to.                                          *)
LEMMA CallsStay ==
    ASSUME UNCHANGED use
    PROVE  /\ \A u : Leads(u)' <=> Leads(u)
           /\ \A u : Place(u)' = Place(u)
           /\ \A name : Register(name)' = Register(name)
           /\ \A i : CellsOf(i)' = CellsOf(i)
           /\ \A i : IsReplaced(i)' <=> IsReplaced(i)
           /\ \A place : IsCell(place)' <=> IsCell(place)
<1> USE DeclarationsStay
<1>1. \A name : Register(name)' = Register(name)
  BY DEF Register
<1>2. \A u : KeyFor(u)' = KeyFor(u)
  BY <1>1 DEF KeyFor
<1>3. \A u : Leads(u)' <=> Leads(u)
  BY <1>2 DEF Leads
<1>4. \A u : Place(u)' = Place(u)
  BY <1>2 DEF Place
<1>5. \A i : CellsOf(i)' = CellsOf(i)
  BY DEF CellsOf
<1>6. \A i : IsReplaced(i)' <=> IsReplaced(i)
  BY DEF IsReplaced
<1>7. \A place : IsCell(place)' <=> IsCell(place)
  BY <1>5 DEF IsCell
<1> QED
  BY <1>1, <1>3, <1>4, <1>5, <1>6, <1>7

(* Nor which names an entry may hold.                                      *)
LEMMA OfCallStays ==
    ASSUME UNCHANGED use
    PROVE  \A i, cell, name : IsOfCall(i, cell, name)' <=> IsOfCall(i, cell, name)
  BY DeclarationsStay, CallsStay DEF IsOfCall

(* Declarations that agree go on doing so.                                 *)
LEMMA WellDeclaredStays == UNCHANGED use /\ WellDeclared => WellDeclared'
<1> SUFFICES ASSUME UNCHANGED use, WellDeclared  PROVE WellDeclared'
  OBVIOUS
<1> USE DeclarationsStay, CallsStay
<1>1. RootSignatureAccepted' <=> RootSignatureAccepted
  BY DEF RootSignatureAccepted
<1>2. PipelineStateAccepted' <=> PipelineStateAccepted
  <2>1. StagesFindRegisters' <=> StagesFindRegisters
    BY DEF StagesFindRegisters
  <2>2. InputsAccepted' <=> InputsAccepted
    BY DEF InputsAccepted
  <2>3. FormatsAccepted' <=> FormatsAccepted
    BY DEF FormatsAccepted
  <2> QED
    BY <2>1, <2>2, <2>3 DEF PipelineStateAccepted, IsGraphics
<1>3. WellFormed'
  BY <1>1, <1>2 DEF WellDeclared, WellFormed
<1>4. SetsComplete'
  BY DEF WellDeclared, SetsComplete
<1>5. OwnTablesReplaced'
  BY DEF WellDeclared, OwnTablesReplaced
<1> QED
  BY <1>3, <1>4, <1>5 DEF WellDeclared
-----------------------------------------------------------------------------
(* A name has one register, whichever stage it is looked up in.            *)
LEMMA RegisterOf ==
    ASSUME WellDeclared, NEW s \in DOMAIN Info.stages, NEW name \in DOMAIN Info.stages[s]
    PROVE  name \in Names /\ Register(name) = Info.stages[s][name]
<1>1. name \in Names
  BY DEF Names
<1> DEFINE chosen == CHOOSE t \in DOMAIN Info.stages : name \in DOMAIN Info.stages[t]
<1>2. chosen \in DOMAIN Info.stages /\ name \in DOMAIN Info.stages[chosen]
  OBVIOUS
<1>3. Register(name) = Info.stages[chosen][name]
  BY DEF Register
<1> HIDE DEF chosen
<1>4. Info.stages[chosen][name] = Info.stages[s][name]
  BY <1>2 DEF WellDeclared, WellFormed
<1> QED
  BY <1>1, <1>3, <1>4

(* And every name is of some stage.                                        *)
LEMMA StageOfName ==
    ASSUME NEW name \in Names
    PROVE  \E s \in DOMAIN Info.stages : name \in DOMAIN Info.stages[s]
  BY DEF Names

(* A place is a root index with an index in the table.                     *)
LEMMA PlaceIsPair == \A u : Place(u) = <<Place(u)[1], Place(u)[2]>>
  BY DEF Place

(* What the declarations say of a call.                                    *)
LEMMA CallFacts ==
    ASSUME WellDeclared, NEW u \in AllCalls
    PROVE  /\ u.asks \/ Leads(u)
           /\ Leads(u) => /\ Place(u)[1] + 1 \in DOMAIN Params
                          /\ Place(u)[1] \in Nat
                          /\ Place(u)[2] \in CellsOf(Place(u)[1] + 1)
<1>1. (u.asks \/ Leads(u)) /\ (Leads(u) => IsCell(Place(u)))
  <2>1. \A v \in Shared \cup Own : (v.asks \/ Leads(v)) /\ (Leads(v) => IsCell(Place(v)))
    BY ZenonT(30) DEF WellDeclared, SetsComplete
  <2> QED
    BY <2>1, Zenon DEF AllCalls
<1>2. ASSUME Leads(u)
      PROVE  /\ Place(u)[1] + 1 \in DOMAIN Params
             /\ Place(u)[1] \in Nat
             /\ Place(u)[2] \in CellsOf(Place(u)[1] + 1)
  <2>1. PICK i \in DOMAIN Params : \E cell \in CellsOf(i) : Place(u) = <<i - 1, cell>>
    BY <1>1, <1>2 DEF IsCell
  <2>2. PICK cell \in CellsOf(i) : Place(u) = <<i - 1, cell>>
    BY <2>1
  <2>3. i \in Nat \ {0}
    BY DEF WellDeclared, WellFormed
  <2>4. Place(u)[1] = i - 1 /\ Place(u)[2] = cell
    BY <2>2
  <2>5. Place(u)[1] + 1 = i
    BY <2>3, <2>4
  <2> QED
    BY <2>3, <2>4, <2>5
<1> QED
  BY <1>1, <1>2

(* What the scenes' draws are.                                             *)
LEMMA DrawFacts ==
    ASSUME CreatedInv
    PROVE  /\ use.objects \in Nat \ {0} /\ use.clones \in BOOLEAN
           /\ DOMAIN use.shared = 1..Len(use.shared) /\ Len(use.shared) \in Nat
           /\ DOMAIN use.own = 1..Len(use.own) /\ Len(use.own) \in Nat
<1>1. use \in Draws
  BY DEF CreatedInv
<1>2. /\ use.objects \in Nat \ {0} /\ use.clones \in BOOLEAN
      /\ use.shared \in Seq(UpdateCall) /\ use.own \in Seq(UpdateCall)
  BY <1>1, PipelinesAssumption
<1> QED
  BY <1>2

(* The calls of a draw are made one by one.                                *)
LEMMA CallIsMade ==
    ASSUME CreatedInv, DrawnInv, IsUpdating
    PROVE  /\ step \in Nat \ {0}
           /\ at = "shared" => step \in DOMAIN use.shared /\ Calls = use.shared
           /\ at = "own" => step \in DOMAIN use.own /\ Calls = use.own
           /\ Calls[step] \in AllCalls
           /\ at = "own" => Calls[step] \in Own
<1>1. at \in {"shared", "own"} /\ step <= Len(Calls)
  BY DEF IsUpdating
<1>2. step \in Nat \ {0}
  BY <1>1 DEF DrawnInv, InPaint
<1>3. at = "shared" => step \in DOMAIN use.shared /\ Calls = use.shared
  BY <1>1, <1>2, DrawFacts DEF Calls
<1>4. at = "own" => step \in DOMAIN use.own /\ Calls = use.own
  BY <1>1, <1>2, DrawFacts DEF Calls
<1> QED
  BY <1>1, <1>2, <1>3, <1>4 DEF AllCalls, Shared, Own

(* What an update finds is what the declarations say.                      *)
LEMMA UpdateFacts ==
    ASSUME WellDeclared, CreatedInv, at \in Calling, NEW u
    PROVE  /\ IsExistBindingInfo(u) <=> Leads(u)
           /\ Leads(u) => /\ findBindingInfo(mBindingHash, KeyOf(u)).rootIndex = Place(u)[1]
                          /\ findBindingInfo(mBindingHash, KeyOf(u)).tableIndex = Place(u)[2]
<1>1. /\ mBindingHash = Bindings
      /\ DOMAIN mBindLocations = Names
      /\ \A name \in Names : mBindLocations[name] = Register(name)
  BY DEF CreatedInv
<1>2. u.name \in Names => KeyOf(u) = KeyFor(u)
  BY <1>1 DEF KeyOf, KeyFor
<1> QED
  BY <1>1, <1>2 DEF IsExistBindingInfo, isExistName, isExistKey, findBindingInfo, Leads, Place
-----------------------------------------------------------------------------
(* Outside a paint there is little to keep.                                *)
LEMMA NotCalling ==
    ASSUME WellDeclared, CreatedInv, at \notin Calling
    PROVE  PipelineInv
  BY DEF PipelineInv, EntriesInv, CallsInv, DrawnInv, Calling, InPaint

(* A scene that has created nothing yet.                                   *)
LEMMA InitPipelineInv == InitPipeline /\ WellDeclared => PipelineInv
<1> SUFFICES ASSUME InitPipeline, WellDeclared  PROVE PipelineInv
  OBVIOUS
<1>1. at = "start" /\ at \notin Calling
  BY DEF InitPipeline, Calling, InPaint
<1>2. CreatedInv
  BY <1>1 DEF InitPipeline, CreatedInv, Calling, InPaint
<1> QED
  BY <1>1, <1>2, NotCalling

(* A program that ends without a fault.                                    *)
LEMMA EndsInv == PipelineInv /\ Ends("none") => PipelineInv'
<1> SUFFICES ASSUME PipelineInv, Ends("none")  PROVE PipelineInv'
  OBVIOUS
<1>1. WellDeclared'
  BY WellDeclaredStays DEF PipelineInv, Ends
<1>2. at' = "terminated" /\ at' \notin Calling'
  BY DEF Ends, Calling, InPaint
<1>3. CreatedInv'
  BY <1>2 DEF PipelineInv, CreatedInv, Ends, Calling, InPaint
<1> QED
  BY <1>1, <1>2, <1>3 DEF PipelineInv, EntriesInv, CallsInv, DrawnInv, Calling, InPaint

(* D3D12 takes the declared root signature, and the analysis fills the     *)
(* tables that the declarations are compared by.                           *)
LEMMA CreateRootSignatureInv == PipelineInv /\ CreateRootSignature => PipelineInv'
<1> SUFFICES ASSUME PipelineInv, CreateRootSignature  PROVE PipelineInv'
  OBVIOUS
<1>1. RootSignatureAccepted
  BY DEF PipelineInv, WellDeclared, WellFormed
<1>2. /\ mBindingHash' = Bindings
      /\ at = "start" /\ at' = "analysed"
      /\ UNCHANGED <<use, mBindLocations, stage, elements, mReplaceIndices, paintVars, fault>>
  BY <1>1 DEF CreateRootSignature, Bindings, Params
<1>3. WellDeclared' /\ Bindings' = Bindings
  BY <1>2, WellDeclaredStays, DeclarationsStay DEF PipelineInv
<1>4. CreatedInv'
  BY <1>2, <1>3 DEF PipelineInv, CreatedInv, Calling, InPaint
<1> QED
  BY <1>2, <1>3, <1>4 DEF PipelineInv, EntriesInv, CallsInv, DrawnInv, Calling, InPaint

(* Before the first shader is appended there are no names.                 *)
LEMMA NoStageYet == mBindLocations = << >> /\ stage = 1 => NamesInv
<1> SUFFICES ASSUME mBindLocations = << >>, stage = 1  PROVE NamesInv
  OBVIOUS
<1>1. DOMAIN mBindLocations = {}
  OBVIOUS
<1>2. DOMAIN StageOrder = 1..6
  BY DEF StageOrder
<1> QED
  BY <1>1, <1>2 DEF NamesInv

(* D3D12 takes the pipeline state.                                         *)
LEMMA CreatePipelineStateInv == PipelineInv /\ CreatePipelineState => PipelineInv'
<1> SUFFICES ASSUME PipelineInv, CreatePipelineState  PROVE PipelineInv'
  OBVIOUS
<1>1. PipelineStateAccepted
  BY DEF PipelineInv, WellDeclared, WellFormed
<1>2. /\ at = "analysed" /\ at' = "append"
      /\ UNCHANGED <<use, mBindingHash, mBindLocations, stage, elements, fault>>
  BY <1>1 DEF CreatePipelineState, createVars
<1>3. WellDeclared' /\ Bindings' = Bindings
  BY <1>2, WellDeclaredStays, DeclarationsStay DEF PipelineInv
<1>4. NamesInv' /\ stage' \in Nat
  <2>1. mBindLocations = << >> /\ stage = 1
    BY <1>2 DEF PipelineInv, CreatedInv
  <2>2. NamesInv
    BY <2>1, NoStageYet
  <2> QED
    BY <1>2, <2>1, <2>2, DeclarationsStay DEF NamesInv, StageOrder
<1>5. CreatedInv'
  BY <1>2, <1>3, <1>4 DEF PipelineInv, CreatedInv, Calling, InPaint
<1> QED
  BY <1>2, <1>3, <1>5 DEF PipelineInv, EntriesInv, CallsInv, DrawnInv, Calling, InPaint

(* A shader brings its names; one that is there already has the register   *)
(* that this shader gives it.                                              *)
LEMMA AppendShaderInv == PipelineInv /\ AppendShader => PipelineInv'
<1> SUFFICES ASSUME PipelineInv, AppendShader  PROVE PipelineInv'
  OBVIOUS
<1>1. /\ at = "append" /\ at' = "append" /\ stage' = stage + 1
      /\ UNCHANGED <<use, mBindingHash, elements, fault>>
  BY DEF AppendShader
<1>2. WellDeclared' /\ Bindings' = Bindings /\ Info' = Info /\ Names' = Names
  BY <1>1, WellDeclaredStays, DeclarationsStay DEF PipelineInv
<1>3. stage \in Nat /\ NamesInv
  BY <1>1 DEF PipelineInv, CreatedInv
<1> DEFINE this == StageOrder[stage]
<1>4. DOMAIN StageOrder = 1..6 /\ \A i \in 1..6, j \in 1..6 : StageOrder[i] = StageOrder[j] => i = j
  BY DEF StageOrder
<1>5. NamesInv'
  <2>1. CASE this \notin DOMAIN Info.stages
    <3>1. mBindLocations' = mBindLocations
      BY <2>1 DEF AppendShader
    <3>2. \A i \in DOMAIN StageOrder :
            i < stage + 1 /\ StageOrder[i] \in DOMAIN Info.stages => i < stage
      BY <2>1, <1>3, <1>4
    <3> QED
      BY <1>1, <1>2, <1>3, <3>1, <3>2 DEF NamesInv, StageOrder
  <2>2. CASE this \in DOMAIN Info.stages
    <3>1. mBindLocations' = Appended(mBindLocations, Info.stages[this])
      BY <2>2 DEF AppendShader
    <3>2. /\ DOMAIN mBindLocations' = DOMAIN mBindLocations \cup DOMAIN Info.stages[this]
          /\ \A name \in DOMAIN mBindLocations' :
               mBindLocations'[name] = IF name \in DOMAIN mBindLocations
                                       THEN mBindLocations[name] ELSE Info.stages[this][name]
      BY <3>1 DEF Appended
    <3>3. DOMAIN Info.stages[this] \subseteq Names
      BY <2>2 DEF Names
    <3>4. \A i \in DOMAIN StageOrder : i < stage + 1 => i < stage \/ i = stage
      BY <1>3, <1>4
    <3> HIDE DEF this
    <3>5. \A i \in DOMAIN StageOrder : i < stage' /\ StageOrder[i] \in DOMAIN Info.stages =>
            DOMAIN Info.stages[StageOrder[i]] \subseteq DOMAIN mBindLocations'
      BY <1>1, <1>3, <3>2, <3>4 DEF NamesInv, this
    <3>6. ASSUME NEW s \in DOMAIN Info.stages, NEW name \in DOMAIN Info.stages[s],
                 name \in DOMAIN mBindLocations'
          PROVE  mBindLocations'[name] = Info.stages[s][name]
      <4>1. CASE name \in DOMAIN mBindLocations
        BY <4>1, <3>2, <3>6, <1>3 DEF NamesInv
      <4>2. CASE name \notin DOMAIN mBindLocations
        <5>1. name \in DOMAIN Info.stages[this] /\ mBindLocations'[name] = Info.stages[this][name]
          BY <4>2, <3>2, <3>6
        <5>2. Info.stages[this][name] = Register(name) /\ Info.stages[s][name] = Register(name)
          BY <2>2, <5>1, RegisterOf DEF PipelineInv
        <5> QED
          BY <5>1, <5>2
      <4> QED
        BY <4>1, <4>2
    <3>7. DOMAIN mBindLocations' \subseteq Names
      BY <1>3, <3>2, <3>3 DEF NamesInv
    <3>8. StageOrder' = StageOrder
      BY DEF StageOrder
    <3> QED
      BY <1>2, <3>5, <3>6, <3>7, <3>8 DEF NamesInv
  <2> QED
    BY <2>1, <2>2
<1>6. CreatedInv'
  BY <1>1, <1>2, <1>3, <1>5 DEF PipelineInv, CreatedInv, Calling, InPaint
<1> QED
  BY <1>1, <1>2, <1>6 DEF PipelineInv, EntriesInv, CallsInv, DrawnInv, Calling, InPaint

(* After the last stage all names are there, and nothing is set.           *)
LEMMA CreateBinderInv == PipelineInv /\ CreateBinder => PipelineInv'
<1> SUFFICES ASSUME PipelineInv, CreateBinder  PROVE PipelineInv'
  OBVIOUS
<1>1. /\ at = "append" /\ at' = "idle" /\ stage > Len(StageOrder)
      /\ elements' = [i \in DOMAIN Params |-> NewElement]
      /\ mReplaceIndices' = Info.autoReplace
      /\ UNCHANGED <<use, mBindingHash, mBindLocations, fault>>
  BY DEF CreateBinder, Params
<1>2. /\ WellDeclared' /\ Bindings' = Bindings /\ Info' = Info /\ Names' = Names
      /\ Params' = Params /\ \A name : Register(name)' = Register(name)
  BY <1>1, WellDeclaredStays, DeclarationsStay, CallsStay DEF PipelineInv
<1>3. stage \in Nat /\ NamesInv
  BY <1>1 DEF PipelineInv, CreatedInv
<1>4. DOMAIN mBindLocations = Names
  <2>1. DOMAIN StageOrder = 1..6 /\ Len(StageOrder) = 6
    BY DEF StageOrder
  <2>2. \A s \in DOMAIN Info.stages : \E i \in DOMAIN StageOrder : s = StageOrder[i]
    BY DEF PipelineInv, WellDeclared, WellFormed
  <2>3. \A i \in DOMAIN StageOrder : i < stage
    BY <1>1, <1>3, <2>1
  <2>4. \A s \in DOMAIN Info.stages : DOMAIN Info.stages[s] \subseteq DOMAIN mBindLocations
    BY <1>3, <2>2, <2>3 DEF NamesInv
  <2>5. Names \subseteq DOMAIN mBindLocations
    BY <2>4, StageOfName
  <2> QED
    BY <1>3, <2>5 DEF NamesInv
<1>5. ASSUME NEW name \in Names  PROVE mBindLocations[name] = Register(name)
  <2>1. PICK s \in DOMAIN Info.stages : name \in DOMAIN Info.stages[s]
    BY StageOfName
  <2> QED
    BY <1>3, <1>4, <2>1, RegisterOf DEF NamesInv, PipelineInv
<1>6. DOMAIN elements' = DOMAIN Params /\ \A i \in DOMAIN Params : DOMAIN elements'[i].names = {}
  BY <1>1 DEF NewElement
<1>7. CreatedInv'
  BY <1>1, <1>2, <1>4, <1>5, <1>6 DEF PipelineInv, CreatedInv, Calling, InPaint
<1>8. EntriesInv'
  BY <1>6 DEF EntriesInv
<1> QED
  BY <1>1, <1>2, <1>7, <1>8 DEF PipelineInv, CallsInv, DrawnInv, Calling, InPaint

(* What a step of a paint that leaves the elements alone keeps.            *)
LEMMA PaintKeeps ==
    ASSUME PipelineInv, at \in Calling, at' \in Calling', UNCHANGED <<use, createVars, fault>>,
           DOMAIN elements' = DOMAIN elements
    PROVE  /\ WellDeclared' /\ CreatedInv'
           /\ TableIndices' = TableIndices
           /\ elements' = elements => EntriesInv'
<1>1. WellDeclared'
  BY WellDeclaredStays DEF PipelineInv
<1>2. /\ Bindings' = Bindings /\ Info' = Info /\ Names' = Names /\ Params' = Params
      /\ RootSignature' = RootSignature
      /\ \A name : Register(name)' = Register(name)
      /\ \A i : CellsOf(i)' = CellsOf(i)
  BY DeclarationsStay, CallsStay
<1>3. at # "append" /\ at' # "append" /\ at' \notin {"start", "analysed"}
  BY DEF Calling, InPaint
<1>4. CreatedInv'
  BY <1>2, <1>3 DEF PipelineInv, CreatedInv, createVars, Calling
<1>5. TableIndices' = TableIndices
  BY <1>2 DEF TableIndices
<1>6. ASSUME elements' = elements  PROVE EntriesInv'
  BY <1>2, <1>6, OfCallStays DEF PipelineInv, EntriesInv
<1> QED
  BY <1>1, <1>4, <1>5, <1>6

(* A new frame: no call of it is made, and none of its draws.              *)
LEMMA BeginPaintInv == PipelineInv /\ BeginPaint => PipelineInv'
<1> SUFFICES ASSUME PipelineInv, BeginPaint  PROVE PipelineInv'
  OBVIOUS
<1>1. /\ at = "idle" /\ at' = "shared" /\ object' = 1 /\ step' = 1 /\ drawn' = {}
      /\ UNCHANGED <<use, createVars, elements, fault>>
  BY DEF BeginPaint
<1>2. at \in Calling /\ at' \in Calling'
  BY <1>1 DEF Calling, InPaint
<1>3. WellDeclared' /\ CreatedInv' /\ EntriesInv'
  BY <1>1, <1>2, PaintKeeps
<1>4. CallsInv'
  <2>1. \A k \in DOMAIN use.shared : ~(k < 1)
    BY DrawFacts DEF PipelineInv
  <2> QED
    BY <1>1, <2>1 DEF CallsInv
<1>5. DrawnInv'
  BY <1>1, DrawFacts DEF PipelineInv, DrawnInv
<1> QED
  BY <1>3, <1>4, <1>5 DEF PipelineInv

(* What is set depends on the elements and the frame alone.                *)
LEMMA SetStays ==
    ASSUME UNCHANGED <<use, frame, elements>>
    PROVE  \A u : IsSet(u)' <=> IsSet(u)
  BY CallsStay DEF IsSet

(* All that the objects share is set when the first object begins.         *)
LEMMA EndSharedInv == PipelineInv /\ EndShared => PipelineInv'
<1> SUFFICES ASSUME PipelineInv, EndShared  PROVE PipelineInv'
  OBVIOUS
<1>1. /\ at = "shared" /\ at' = BeginsObject /\ step' = 1 /\ step > Len(use.shared)
      /\ UNCHANGED <<use, createVars, elements, object, frame, drawn, fault>>
  BY DEF EndShared
<1>2. /\ at \in Calling /\ at' \in Calling' /\ at' \in {"clone", "own"}
      /\ at' = "clone" <=> use.clones
  BY <1>1 DEF Calling, InPaint, BeginsObject
<1>3. WellDeclared' /\ CreatedInv' /\ EntriesInv' /\ TableIndices' = TableIndices
  BY <1>1, <1>2, PaintKeeps
<1>4. /\ DOMAIN use.shared = 1..Len(use.shared) /\ Len(use.shared) \in Nat
      /\ DOMAIN use.own = 1..Len(use.own)
  BY DrawFacts DEF PipelineInv
<1>5. step \in Nat /\ drawn = {} /\ object \in 1..use.objects
  BY <1>1 DEF PipelineInv, DrawnInv, InPaint
<1>6. /\ \A u : IsSet(u)' <=> IsSet(u)
      /\ \A u : Leads(u)' <=> Leads(u)
      /\ \A u : Place(u)' = Place(u)
      /\ \A i : IsReplaced(i)' <=> IsReplaced(i)
      /\ Shared' = Shared
  BY <1>1, SetStays, CallsStay, DeclarationsStay
<1>7. CallsInv'
  <2>1. \A k \in DOMAIN use.shared : Leads(use.shared[k]) => IsSet(use.shared[k])
    BY <1>1, <1>4, <1>5 DEF PipelineInv, CallsInv
  <2>2. \A u \in Shared : Leads(u) => IsSet(u)
    BY <2>1 DEF Shared
  <2>3. \A k \in DOMAIN use.own : ~(k < 1)
    BY <1>4
  <2> QED
    BY <1>1, <1>2, <1>6, <2>2, <2>3 DEF CallsInv
<1>8. DrawnInv'
  BY <1>1, <1>2, <1>3, <1>5 DEF DrawnInv
<1> QED
  BY <1>3, <1>7, <1>8 DEF PipelineInv
-----------------------------------------------------------------------------
(* The declarations lead an update to its cell.                            *)
LEMMA UpdateEffect ==
    ASSUME PipelineInv, Update, NEW u, u = Calls[step]
    PROVE  /\ Leads(u) /\ u \in AllCalls
           /\ elements' = [elements EXCEPT ![Place(u)[1] + 1] = Updated(@, Place(u)[2], u.name)]
           /\ step' = step + 1
           /\ UNCHANGED <<at, use, createVars, object, frame, drawn, fault>>
<1>1. IsUpdating
  BY DEF Update
<1>2. at \in Calling
  BY <1>1 DEF IsUpdating, Calling, InPaint
<1>3. u \in AllCalls
  BY <1>1, CallIsMade DEF PipelineInv
<1>4. u.asks => IsExistBindingInfo(u)
  BY DEF Update
<1>5. IsExistBindingInfo(u) /\ Leads(u)
  BY <1>2, <1>3, <1>4, CallFacts, UpdateFacts DEF PipelineInv
<1>6. /\ findBindingInfo(mBindingHash, KeyOf(u)).rootIndex = Place(u)[1]
      /\ findBindingInfo(mBindingHash, KeyOf(u)).tableIndex = Place(u)[2]
  BY <1>2, <1>5, UpdateFacts DEF PipelineInv
<1> QED
  BY <1>3, <1>5, <1>6 DEF Update

(* An entry's update keeps the others of this frame and drops those of an  *)
(* earlier one, as the table is allocated anew.                            *)
LEMMA UpdatedFacts ==
    ASSUME NEW element, NEW entry, NEW name
    PROVE  /\ Updated(element, entry, name).frame = frame
           /\ entry \in DOMAIN Updated(element, entry, name).names
           /\ Updated(element, entry, name).names[entry] = name
           /\ \A e \in DOMAIN Updated(element, entry, name).names :
                e # entry => /\ e \in DOMAIN element.names
                             /\ Updated(element, entry, name).names[e] = element.names[e]
           /\ element.frame = frame =>
                DOMAIN element.names \subseteq DOMAIN Updated(element, entry, name).names
<1> DEFINE old == IF element.frame = frame THEN element.names ELSE << >>
<1>1. Updated(element, entry, name) =
        [frame |-> frame,
         names |-> [e \in DOMAIN old \cup {entry} |-> IF e = entry THEN name ELSE old[e]]]
  BY DEF Updated
<1>2. element.frame = frame => old = element.names
  OBVIOUS
<1>3. element.frame # frame => DOMAIN old = {}
  OBVIOUS
<1> HIDE DEF old
<1> DEFINE new == Updated(element, entry, name)
<1>4. /\ new.frame = frame
      /\ DOMAIN new.names = DOMAIN old \cup {entry}
      /\ \A e \in DOMAIN new.names : new.names[e] = IF e = entry THEN name ELSE old[e]
  BY <1>1
<1> HIDE DEF new
<1>5. /\ new.frame = frame /\ entry \in DOMAIN new.names /\ new.names[entry] = name
      /\ \A e \in DOMAIN new.names :
           e # entry => e \in DOMAIN element.names /\ new.names[e] = element.names[e]
      /\ element.frame = frame => DOMAIN element.names \subseteq DOMAIN new.names
  BY <1>2, <1>3, <1>4
<1> QED
  BY <1>5 DEF new

(* An update fills its cell, and empties no other of this frame.           *)
LEMMA UpdateSets ==
    ASSUME PipelineInv, Update, NEW u, u = Calls[step]
    PROVE  /\ DOMAIN elements' = DOMAIN elements
           /\ EntriesInv'
           /\ IsSet(u)'
           /\ \A v \in AllCalls : Leads(v) /\ IsSet(v) => IsSet(v)'
<1> DEFINE i == Place(u)[1] + 1
           entry == Place(u)[2]
           new == Updated(elements[i], entry, u.name)
<1>1. /\ Leads(u) /\ u \in AllCalls
      /\ elements' = [elements EXCEPT ![i] = new]
      /\ UNCHANGED <<at, use, createVars, frame, fault>>
  BY UpdateEffect
<1>2. Update => at \in Calling
  BY DEF Update, IsUpdating, Calling, InPaint
<1>3. DOMAIN elements = DOMAIN Params
  BY <1>2 DEF PipelineInv, CreatedInv
<1>4. /\ i \in DOMAIN elements /\ entry \in CellsOf(i) /\ Place(u) = <<i - 1, entry>>
      /\ \A v \in AllCalls : Leads(v) => Place(v)[1] + 1 \in DOMAIN elements
  BY <1>1, <1>3, CallFacts, PlaceIsPair DEF PipelineInv
<1>5. /\ new.frame = frame
      /\ entry \in DOMAIN new.names
      /\ new.names[entry] = u.name
      /\ \A e \in DOMAIN new.names :
           e # entry => e \in DOMAIN elements[i].names /\ new.names[e] = elements[i].names[e]
      /\ elements[i].frame = frame => DOMAIN elements[i].names \subseteq DOMAIN new.names
  BY UpdatedFacts
<1> HIDE DEF new
<1>6. /\ DOMAIN elements' = DOMAIN elements
      /\ elements'[i] = new
      /\ \A k \in DOMAIN elements : k # i => elements'[k] = elements[k]
  BY <1>1, <1>4
<1>7. /\ \A k : CellsOf(k)' = CellsOf(k)
      /\ \A v : Place(v)' = Place(v)
      /\ \A k, cell, name : IsOfCall(k, cell, name)' <=> IsOfCall(k, cell, name)
  BY <1>1, CallsStay, OfCallStays
<1>8. \A k \in DOMAIN elements : \A cell \in DOMAIN elements[k].names :
        cell \in CellsOf(k) /\ IsOfCall(k, cell, elements[k].names[cell])
  BY <1>2 DEF PipelineInv, EntriesInv
<1>9. EntriesInv'
  <2>1. IsOfCall(i, entry, u.name)
    BY <1>1, <1>4 DEF IsOfCall
  <2> SUFFICES ASSUME NEW k \in DOMAIN elements', NEW cell \in DOMAIN elements'[k].names
               PROVE  cell \in CellsOf(k) /\ IsOfCall(k, cell, elements'[k].names[cell])
    BY <1>7 DEF EntriesInv
  <2>2. CASE k # i
    BY <2>2, <1>6, <1>8
  <2>3. CASE k = i /\ cell = entry
    BY <2>1, <2>3, <1>4, <1>5, <1>6
  <2>4. CASE k = i /\ cell # entry
    BY <2>4, <1>4, <1>5, <1>6, <1>8
  <2> QED
    BY <2>2, <2>3, <2>4
<1>10. IsSet(u)'
  BY <1>1, <1>5, <1>6, <1>7 DEF IsSet
<1>11. ASSUME NEW v \in AllCalls, Leads(v), IsSet(v)  PROVE IsSet(v)'
  <2> DEFINE k == Place(v)[1] + 1
  <2>1. k \in DOMAIN elements
    BY <1>4, <1>11
  <2>2. elements[k].frame = frame /\ Place(v)[2] \in DOMAIN elements[k].names
    BY <1>11 DEF IsSet
  <2>3. elements'[k].frame = frame /\ Place(v)[2] \in DOMAIN elements'[k].names
    BY <2>1, <2>2, <1>5, <1>6
  <2> QED
    BY <2>3, <1>1, <1>7 DEF IsSet
<1> QED
  BY <1>6, <1>9, <1>10, <1>11

(* A step of the calls: the one that is made leaves its cell set, if it    *)
(* leads to one.                                                           *)
LEMMA NextCallIsSet ==
    ASSUME PipelineInv, IsUpdating, NEW u, u = Calls[step],
           step' = step + 1, UNCHANGED <<at, use, createVars, object, frame, drawn, fault>>,
           DOMAIN elements' = DOMAIN elements,
           Leads(u) => IsSet(u)',
           \A v \in AllCalls : Leads(v) /\ IsSet(v) => IsSet(v)'
    PROVE  CallsInv' /\ DrawnInv'
<1>1. /\ at \in {"shared", "own"} /\ at \in Calling /\ at' \in Calling'
      /\ step \in Nat \ {0}
      /\ at = "shared" => step \in DOMAIN use.shared /\ u = use.shared[step]
      /\ at = "own" => step \in DOMAIN use.own /\ u = use.own[step]
  BY CallIsMade DEF PipelineInv, IsUpdating, Calling, InPaint
<1>2. /\ DOMAIN use.shared = 1..Len(use.shared) /\ Len(use.shared) \in Nat
      /\ DOMAIN use.own = 1..Len(use.own) /\ Len(use.own) \in Nat
  BY DrawFacts DEF PipelineInv
<1>3. /\ \A v : Leads(v)' <=> Leads(v)
      /\ \A v : Place(v)' = Place(v)
      /\ \A k : IsReplaced(k)' <=> IsReplaced(k)
      /\ Shared' = Shared /\ Info' = Info
  BY CallsStay, DeclarationsStay
<1>4. \A v \in Shared : v \in AllCalls
  BY DEF AllCalls
<1>5. \A k \in DOMAIN use.shared : k < step + 1 => k = step \/ k < step
  BY <1>1, <1>2
<1>6. \A k \in DOMAIN use.own : k < step + 1 => k = step \/ k < step
  BY <1>1, <1>2
<1>7. ASSUME at = "shared", NEW k \in DOMAIN use.shared, k < step + 1,
             NEW v, v = use.shared[k], Leads(v)
      PROVE  IsSet(v)'
  <2>1. CASE k = step
    BY <1>1, <1>7, <2>1
  <2>2. CASE k < step
    <3>1. v \in AllCalls /\ IsSet(v)
      BY <1>7, <2>2 DEF PipelineInv, CallsInv, AllCalls, Shared
    <3> QED
      BY <1>7, <3>1
  <2> QED
    BY <1>5, <1>7, <2>1, <2>2
<1>8. ASSUME at = "own", NEW k \in DOMAIN use.own, k < step + 1,
             NEW v, v = use.own[k], Leads(v)
      PROVE  IsSet(v)'
  <2>1. CASE k = step
    BY <1>1, <1>8, <2>1
  <2>2. CASE k < step
    <3>1. v \in AllCalls /\ IsSet(v)
      BY <1>8, <2>2 DEF PipelineInv, CallsInv, AllCalls, Own
    <3> QED
      BY <1>8, <3>1
  <2> QED
    BY <1>6, <1>8, <2>1, <2>2
<1>9. ASSUME at = "own", NEW v \in Shared, Leads(v), ~IsReplaced(Place(v)[1])
      PROVE  IsSet(v)'
  BY <1>4, <1>9 DEF PipelineInv, CallsInv
<1>10. CallsInv'
  BY <1>1, <1>3, <1>7, <1>8, <1>9 DEF CallsInv
<1>11. TableIndices' = TableIndices
  BY DeclarationsStay DEF TableIndices
<1>12. DrawnInv'
  BY <1>1, <1>3, <1>11 DEF PipelineInv, DrawnInv, InPaint
<1> QED
  BY <1>10, <1>12

(* A call that leads to a cell, ...                                        *)
LEMMA UpdateInv == PipelineInv /\ Update => PipelineInv'
<1> SUFFICES ASSUME PipelineInv, Update  PROVE PipelineInv'
  OBVIOUS
<1> DEFINE u == Calls[step]
<1>1. PICK v : v = u
  OBVIOUS
<1>2. /\ Leads(v)
      /\ step' = step + 1
      /\ UNCHANGED <<at, use, createVars, object, frame, drawn, fault>>
  BY <1>1, UpdateEffect
<1>3. /\ DOMAIN elements' = DOMAIN elements
      /\ EntriesInv'
      /\ IsSet(v)'
      /\ \A w \in AllCalls : Leads(w) /\ IsSet(w) => IsSet(w)'
  BY <1>1, UpdateSets
<1>4. IsUpdating /\ at \in Calling /\ at' \in Calling'
  BY <1>2 DEF Update, IsUpdating, Calling, InPaint
<1>5. WellDeclared' /\ CreatedInv'
  BY <1>2, <1>3, <1>4, PaintKeeps
<1>6. CallsInv' /\ DrawnInv'
  BY <1>1, <1>2, <1>3, <1>4, NextCallIsSet
<1> QED
  BY <1>3, <1>5, <1>6 DEF PipelineInv

(* ... and one that is left out because its name leads nowhere.            *)
LEMMA SkipUpdateInv == PipelineInv /\ SkipUpdate => PipelineInv'
<1> SUFFICES ASSUME PipelineInv, SkipUpdate  PROVE PipelineInv'
  OBVIOUS
<1> DEFINE u == Calls[step]
<1>1. PICK v : v = u
  OBVIOUS
<1>2. /\ ~IsExistBindingInfo(v)
      /\ step' = step + 1
      /\ UNCHANGED <<at, use, createVars, elements, object, frame, drawn, fault>>
  BY <1>1 DEF SkipUpdate
<1>3. IsUpdating /\ at \in Calling /\ at' \in Calling'
  BY <1>2 DEF SkipUpdate, IsUpdating, Calling, InPaint
<1>4. ~Leads(v)
  BY <1>2, <1>3, UpdateFacts DEF PipelineInv
<1>5. WellDeclared' /\ CreatedInv' /\ EntriesInv'
  BY <1>2, <1>3, PaintKeeps
<1>6. \A w : IsSet(w)' <=> IsSet(w)
  BY <1>2, SetStays
<1>7. CallsInv' /\ DrawnInv'
  BY <1>1, <1>2, <1>3, <1>4, <1>6, NextCallIsSet
<1> QED
  BY <1>5, <1>7 DEF PipelineInv
-----------------------------------------------------------------------------
(* A clone empties the replaced tables only, and no draw holds them now.   *)
LEMMA CloneForObjectInv == PipelineInv /\ CloneForObject => PipelineInv'
<1> SUFFICES ASSUME PipelineInv, CloneForObject  PROVE PipelineInv'
  OBVIOUS
<1>1. at = "clone" /\ at \in Calling
  BY DEF CloneForObject, Calling, InPaint
<1>2. /\ mReplaceIndices = Info.autoReplace
      /\ DOMAIN elements = DOMAIN Params
      /\ \A i \in Info.autoReplace : i + 1 \in DOMAIN Params
  BY <1>1 DEF PipelineInv, CreatedInv, WellDeclared, WellFormed
<1>3. /\ elements' = [i \in DOMAIN elements |->
                        IF i - 1 \in Info.autoReplace THEN NewElement ELSE elements[i]]
      /\ drawn' = drawn \ Info.autoReplace
      /\ at' = "own"
      /\ UNCHANGED <<use, createVars, object, step, frame, fault>>
  BY <1>2 DEF CloneForObject
<1>4. /\ at' \in Calling'
      /\ DOMAIN elements' = DOMAIN elements
  BY <1>3 DEF Calling, InPaint
<1>5. WellDeclared' /\ CreatedInv' /\ TableIndices' = TableIndices
  BY <1>1, <1>3, <1>4, PaintKeeps
<1>6. /\ \A k : CellsOf(k)' = CellsOf(k)
      /\ \A v : Place(v)' = Place(v)
      /\ \A v : Leads(v)' <=> Leads(v)
      /\ \A k : IsReplaced(k)' <=> IsReplaced(k)
      /\ \A k, cell, name : IsOfCall(k, cell, name)' <=> IsOfCall(k, cell, name)
      /\ Shared' = Shared /\ Info' = Info
  BY <1>3, CallsStay, OfCallStays, DeclarationsStay
<1>7. EntriesInv'
  <2>1. DOMAIN NewElement.names = {}
    BY DEF NewElement
  <2>2. \A k \in DOMAIN elements : \A cell \in DOMAIN elements[k].names :
          cell \in CellsOf(k) /\ IsOfCall(k, cell, elements[k].names[cell])
    BY <1>1 DEF PipelineInv, EntriesInv
  <2>3. \A k \in DOMAIN elements :
          elements'[k] = NewElement \/ elements'[k] = elements[k]
    BY <1>3
  <2> SUFFICES ASSUME NEW k \in DOMAIN elements, NEW cell \in DOMAIN elements'[k].names
               PROVE  cell \in CellsOf(k) /\ IsOfCall(k, cell, elements'[k].names[cell])
    BY <1>4, <1>6 DEF EntriesInv
  <2> QED
    BY <2>1, <2>2, <2>3
<1>8. use.clones /\ step = 1
  BY <1>1 DEF PipelineInv, DrawnInv, InPaint
<1>9. CallsInv'
  <2>1. ASSUME NEW u \in Shared, Leads(u), ~IsReplaced(Place(u)[1])
        PROVE  IsSet(u)'
    <3>1. Place(u)[1] \notin Info.autoReplace
      BY <1>8, <2>1 DEF IsReplaced
    <3>2. Place(u)[1] \in Nat /\ Place(u)[1] + 1 \in DOMAIN elements
      BY <1>2, <2>1, CallFacts DEF PipelineInv, AllCalls
    <3>3. IsSet(u)
      BY <1>1, <2>1 DEF PipelineInv, CallsInv
    <3>4. Place(u)[1] + 1 - 1 = Place(u)[1]
      BY <3>2
    <3>5. elements'[Place(u)[1] + 1] = elements[Place(u)[1] + 1]
      BY <1>3, <3>1, <3>2, <3>4
    <3> QED
      BY <1>3, <1>6, <3>3, <3>5 DEF IsSet
  <2>2. \A k \in DOMAIN use.own : ~(k < 1)
    BY DrawFacts DEF PipelineInv
  <2> QED
    BY <1>3, <1>6, <1>8, <2>1, <2>2 DEF CallsInv
<1>10. DrawnInv'
  <2>1. /\ object \in 1..use.objects
        /\ drawn \subseteq TableIndices
        /\ object = 1 => drawn = {}
    BY <1>1 DEF PipelineInv, DrawnInv, InPaint
  <2> QED
    BY <1>3, <1>5, <1>6, <1>8, <2>1 DEF DrawnInv
<1> QED
  BY <1>5, <1>7, <1>9, <1>10 DEF PipelineInv

(* When an object's calls are made, every cell is set, in this paint.      *)
LEMMA CellsAreSet ==
    ASSUME PipelineInv, at \in {"own", "draw"}, at = "own" => step > Len(use.own),
           NEW i \in DOMAIN Params, NEW cell \in CellsOf(i)
    PROVE  elements[i].frame = frame /\ cell \in DOMAIN elements[i].names
<1>1. \A u \in Own : Leads(u) => IsSet(u)
  <2>1. CASE at = "draw"
    BY <2>1 DEF PipelineInv, CallsInv
  <2>2. CASE at = "own"
    <3>1. \A k \in DOMAIN use.own : k < step
      <4>1. step \in Nat /\ step > Len(use.own)
        BY <2>2 DEF PipelineInv, DrawnInv, InPaint
      <4> QED
        BY <4>1, DrawFacts DEF PipelineInv
    <3> QED
      BY <2>2, <3>1 DEF PipelineInv, CallsInv, Own
  <2> QED
    BY <2>1, <2>2
<1>2. \A u \in Shared : Leads(u) /\ ~IsReplaced(Place(u)[1]) => IsSet(u)
  BY DEF PipelineInv, CallsInv
<1>3. PICK u \in (IF IsReplaced(i - 1) THEN Own ELSE Shared \cup Own) :
        Leads(u) /\ Place(u) = <<i - 1, cell>>
  BY DEF PipelineInv, WellDeclared, SetsComplete
<1>4. Place(u)[1] = i - 1 /\ Place(u)[2] = cell
  BY <1>3
<1>5. IsSet(u)
  BY <1>1, <1>2, <1>3, <1>4
<1>6. i \in Int
  BY DEF PipelineInv, WellDeclared, WellFormed
<1>7. Place(u)[1] + 1 = i
  BY <1>4, <1>6
<1> QED
  BY <1>4, <1>5, <1>7 DEF IsSet

(* So validate finds nothing unset.                                        *)
LEMMA AllIsSet == PipelineInv /\ at = "own" /\ step > Len(use.own) => IsComplete
<1> SUFFICES ASSUME PipelineInv, at = "own", step > Len(use.own)  PROVE IsComplete
  OBVIOUS
<1>1. at \in Calling
  BY DEF Calling, InPaint
<1>2. DOMAIN elements = DOMAIN Params
  BY <1>1 DEF PipelineInv, CreatedInv
<1> SUFFICES ASSUME NEW i \in DOMAIN elements
             PROVE  DOMAIN elements[i].names = CellsOf(i)
  BY DEF IsComplete, CellsOf, Params
<1>3. \A cell \in DOMAIN elements[i].names : cell \in CellsOf(i)
  BY <1>1 DEF PipelineInv, EntriesInv
<1>4. \A cell \in CellsOf(i) : cell \in DOMAIN elements[i].names
  BY <1>2, CellsAreSet
<1> QED
  BY <1>3, <1>4

(* The draw holds the tables that were bound.                              *)
LEMMA BindForDrawInv == PipelineInv /\ BindForDraw => PipelineInv'
<1> SUFFICES ASSUME PipelineInv, BindForDraw  PROVE PipelineInv'
  OBVIOUS
<1>1. at = "own" /\ at \in Calling /\ step > Len(use.own)
  BY DEF BindForDraw, Calling, InPaint
<1>2. /\ drawn' = drawn \cup TableIndices /\ at' = "draw"
      /\ UNCHANGED <<use, createVars, elements, object, step, frame, fault>>
  BY <1>1, AllIsSet DEF BindForDraw
<1>3. at' \in Calling'
  BY <1>2 DEF Calling, InPaint
<1>4. WellDeclared' /\ CreatedInv' /\ EntriesInv' /\ TableIndices' = TableIndices
  BY <1>1, <1>2, <1>3, PaintKeeps
<1>5. /\ \A u : IsSet(u)' <=> IsSet(u)
      /\ \A u : Leads(u)' <=> Leads(u)
      /\ \A u : Place(u)' = Place(u)
      /\ \A i : IsReplaced(i)' <=> IsReplaced(i)
      /\ Shared' = Shared /\ Own' = Own
  BY <1>2, SetStays, CallsStay, DeclarationsStay
<1>6. CallsInv'
  <2>1. step \in Nat
    BY <1>1 DEF PipelineInv, DrawnInv, InPaint
  <2>2. \A k \in DOMAIN use.own : k < step
    BY <1>1, <2>1, DrawFacts DEF PipelineInv
  <2>3. \A u \in Own : Leads(u) => IsSet(u)
    BY <1>1, <2>2 DEF PipelineInv, CallsInv, Own
  <2>4. \A u \in Shared : Leads(u) /\ ~IsReplaced(Place(u)[1]) => IsSet(u)
    BY <1>1 DEF PipelineInv, CallsInv
  <2> QED
    BY <1>2, <1>5, <2>3, <2>4 DEF CallsInv
<1>7. DrawnInv'
  BY <1>1, <1>2, <1>4 DEF PipelineInv, DrawnInv, InPaint
<1> QED
  BY <1>4, <1>6, <1>7 DEF PipelineInv

(* The next object begins with what all share; a clone comes first if any  *)
(* table of the draw is to be set again.                                   *)
LEMMA DrawInv == PipelineInv /\ Draw => PipelineInv'
<1> SUFFICES ASSUME PipelineInv, Draw  PROVE PipelineInv'
  OBVIOUS
<1>1. /\ at = "draw" /\ at' \in {"clone", "own", "idle"}
      /\ UNCHANGED <<use, createVars, elements, frame, drawn, fault>>
  BY DEF Draw, BeginsObject
<1>2. at' # "idle" => /\ object < use.objects /\ object' = object + 1 /\ step' = 1
                      /\ at' = "clone" <=> use.clones
  BY DEF Draw, BeginsObject
<1>3. at \in Calling /\ at' \in Calling'
  BY <1>1 DEF Calling, InPaint
<1>4. WellDeclared' /\ CreatedInv' /\ EntriesInv' /\ TableIndices' = TableIndices
  BY <1>1, <1>3, PaintKeeps
<1>5. /\ \A u : IsSet(u)' <=> IsSet(u)
      /\ \A u : Leads(u)' <=> Leads(u)
      /\ \A u : Place(u)' = Place(u)
      /\ \A i : IsReplaced(i)' <=> IsReplaced(i)
      /\ Shared' = Shared /\ Info' = Info
  BY <1>1, SetStays, CallsStay, DeclarationsStay
<1>6. CallsInv'
  <2>1. \A u \in Shared : Leads(u) /\ ~IsReplaced(Place(u)[1]) => IsSet(u)
    BY <1>1 DEF PipelineInv, CallsInv
  <2>2. \A k \in DOMAIN use.own : ~(k < 1)
    BY DrawFacts DEF PipelineInv
  <2> QED
    BY <1>1, <1>2, <1>5, <2>1, <2>2 DEF CallsInv
<1>7. DrawnInv'
  <2>1. object \in 1..use.objects /\ drawn \subseteq TableIndices
    BY <1>1 DEF PipelineInv, DrawnInv, InPaint
  <2>2. use.objects \in Nat
    BY DrawFacts DEF PipelineInv
  <2>3. at' # "idle" => object' \in 2..use.objects
    BY <1>2, <2>1, <2>2
  <2>4. at' # "idle" => object' \in 1..use.objects /\ object' # 1
    BY <2>2, <2>3
  <2> QED
    BY <1>1, <1>2, <1>4, <2>1, <2>4 DEF DrawnInv, InPaint
<1> QED
  BY <1>4, <1>6, <1>7 DEF PipelineInv

(* The scene is closed.                                                    *)
LEMMA ClearPipelineInv == PipelineInv /\ ClearPipeline => PipelineInv'
<1> SUFFICES ASSUME PipelineInv, ClearPipeline  PROVE PipelineInv'
  OBVIOUS
<1>1. at = "idle" /\ at' = "terminated" /\ UNCHANGED <<use, fault>>
  BY DEF ClearPipeline
<1>2. WellDeclared'
  BY <1>1, WellDeclaredStays DEF PipelineInv
<1>3. CreatedInv'
  BY <1>1 DEF PipelineInv, CreatedInv, Calling, InPaint
<1> QED
  BY <1>1, <1>2, <1>3 DEF PipelineInv, EntriesInv, CallsInv, DrawnInv, Calling, InPaint

(* A step of others.                                                       *)
LEMMA StutterInv == PipelineInv /\ UNCHANGED pipelineVars => PipelineInv'
<1> SUFFICES ASSUME PipelineInv, UNCHANGED pipelineVars  PROVE PipelineInv'
  OBVIOUS
<1>1. UNCHANGED <<at, use, mBindingHash, mBindLocations, stage, mReplaceIndices,
                  elements, object, step, frame, drawn, fault>>
  BY DEF pipelineVars, createVars, paintVars
<1>2. WellDeclared'
  BY <1>1, WellDeclaredStays DEF PipelineInv
<1>3. /\ Bindings' = Bindings /\ Names' = Names /\ Info' = Info /\ Params' = Params
      /\ RootSignature' = RootSignature /\ Shared' = Shared /\ Own' = Own
      /\ \A name : Register(name)' = Register(name)
      /\ \A i : CellsOf(i)' = CellsOf(i)
      /\ \A u : Leads(u)' <=> Leads(u)
      /\ \A u : Place(u)' = Place(u)
      /\ \A i : IsReplaced(i)' <=> IsReplaced(i)
      /\ \A u : IsSet(u)' <=> IsSet(u)
      /\ \A i, cell, name : IsOfCall(i, cell, name)' <=> IsOfCall(i, cell, name)
  BY <1>1, DeclarationsStay, CallsStay, SetStays, OfCallStays
<1>4. CreatedInv'
  <2>1. NamesInv => NamesInv'
    BY <1>1, <1>3 DEF NamesInv, StageOrder
  <2> QED
    BY <1>1, <1>3, <2>1 DEF PipelineInv, CreatedInv, Calling, InPaint
<1>5. EntriesInv'
  BY <1>1, <1>3 DEF PipelineInv, EntriesInv, Calling, InPaint
<1>6. CallsInv'
  BY <1>1, <1>3 DEF PipelineInv, CallsInv
<1>7. DrawnInv'
  BY <1>1, <1>3 DEF PipelineInv, DrawnInv, InPaint, TableIndices
<1> QED
  BY <1>2, <1>4, <1>5, <1>6, <1>7 DEF PipelineInv

(* Every call of the scene keeps the invariant.                            *)
LEMMA NextPipelineInv == PipelineInv /\ [NextCall]_pipelineVars => PipelineInv'
<1> SUFFICES ASSUME PipelineInv, [NextCall]_pipelineVars  PROVE PipelineInv'
  OBVIOUS
<1>1. CASE AssertFails \/ DeviceFails
  BY <1>1, EndsInv DEF AssertFails, DeviceFails
<1>2. CASE CreateRootSignature
  BY <1>2, CreateRootSignatureInv
<1>3. CASE CreatePipelineState
  BY <1>3, CreatePipelineStateInv
<1>4. CASE AppendShader
  BY <1>4, AppendShaderInv
<1>5. CASE CreateBinder
  BY <1>5, CreateBinderInv
<1>6. CASE BeginPaint
  BY <1>6, BeginPaintInv
<1>7. CASE EndShared
  BY <1>7, EndSharedInv
<1>8. CASE Update
  BY <1>8, UpdateInv
<1>9. CASE SkipUpdate
  BY <1>9, SkipUpdateInv
<1>10. CASE CloneForObject
  BY <1>10, CloneForObjectInv
<1>11. CASE BindForDraw
  BY <1>11, BindForDrawInv
<1>12. CASE Draw
  BY <1>12, DrawInv
<1>13. CASE ClearPipeline
  BY <1>13, ClearPipelineInv
<1>14. CASE UNCHANGED pipelineVars
  BY <1>14, StutterInv
<1> QED
  BY <1>1, <1>2, <1>3, <1>4, <1>5, <1>6, <1>7, <1>8, <1>9, <1>10, <1>11, <1>12, <1>13, <1>14
     DEF NextCall
-----------------------------------------------------------------------------
(* The inductive invariant of a draw whose declarations agree.             *)
THEOREM PipelineInvariant == PipelineSpec /\ WellDeclared => []PipelineInv
  BY InitPipelineInv, NextPipelineInv, PTL DEF PipelineSpec

(* A draw whose declarations agree is never refused by D3D12, and no name, *)
(* replace index or unset descriptor ends the program (PipelineSet.cpp:93, *)
(* 158, PipelineResourceBinder.cpp:78), however many objects it has and    *)
(* however often it is painted.                                            *)
THEOREM DeclaredDrawsRun == PipelineSpec /\ WellDeclared => [](NothingRefused /\ fault = "none")
<1>1. PipelineInv => NothingRefused /\ fault = "none"
  BY DEF PipelineInv, CreatedInv, NothingRefused
<1> QED
  BY <1>1, PipelineInvariant, PTL

(* The place where a stage looks is a cell, set in this paint by calls     *)
(* that all have the stage's name.                                         *)
LEMMA ReadsAreNamed == PipelineInv => ShadersReadTheirNames
<1> SUFFICES ASSUME PipelineInv, at = "draw",
                    NEW s \in DOMAIN Info.stages, NEW name \in DOMAIN Info.stages[s],
                    NEW place \in Places(RootSignature, s, Info.stages[s][name])
             PROVE  /\ elements[place[1] + 1].frame = frame
                    /\ elements[place[1] + 1].names[place[2]] = name
  BY DEF ShadersReadTheirNames
<1>1. /\ IsCell(place)
      /\ \A u \in AllCalls : Leads(u) /\ Place(u) = place => u.name = name
  BY DEF PipelineInv, WellDeclared, SetsComplete, AllCalls
<1>2. PICK i \in DOMAIN Params : \E cell \in CellsOf(i) : place = <<i - 1, cell>>
  BY <1>1 DEF IsCell
<1>3. PICK cell \in CellsOf(i) : place = <<i - 1, cell>>
  BY <1>2
<1>4. i \in Int
  BY DEF PipelineInv, WellDeclared, WellFormed
<1>5. place[1] + 1 = i /\ place[2] = cell
  BY <1>3, <1>4
<1>6. elements[i].frame = frame /\ cell \in DOMAIN elements[i].names
  BY CellsAreSet
<1>7. i \in DOMAIN elements /\ IsOfCall(i, cell, elements[i].names[cell])
  BY <1>6 DEF PipelineInv, CreatedInv, EntriesInv, Calling, InPaint
<1>8. elements[i].names[cell] = name
  BY <1>1, <1>3, <1>7 DEF IsOfCall
<1> QED
  BY <1>5, <1>6, <1>8

(* A shader reads at each register what the scene set in this paint under  *)
(* the register's name (RootSignatureInfo.cpp:171).                        *)
THEOREM NamesReachTheirRegisters == PipelineSpec /\ WellDeclared => []ShadersReadTheirNames
  BY PipelineInvariant, ReadsAreNamed, PTL

(* A call for an object goes to the root signature or to a table that the  *)
(* object's clone has replaced since the last draw.                        *)
LEMMA NoDrawnTableIsSet == PipelineInv => DrawnTablesStay
<1> SUFFICES ASSUME PipelineInv, IsUpdating, NEW u, u = Calls[step], IsExistBindingInfo(u)
             PROVE  findBindingInfo(mBindingHash, KeyOf(u)).rootIndex \notin drawn
  BY DEF DrawnTablesStay
<1>1. at \in {"shared", "own"} /\ at \in Calling /\ at \in InPaint
  BY DEF IsUpdating, Calling, InPaint
<1>2. Leads(u) /\ findBindingInfo(mBindingHash, KeyOf(u)).rootIndex = Place(u)[1]
  BY <1>1, UpdateFacts DEF PipelineInv
<1>3. u \in AllCalls /\ (at = "own" => u \in Own)
  BY CallIsMade DEF PipelineInv
<1>4. CASE at = "shared" \/ object = 1
  BY <1>1, <1>4 DEF PipelineInv, DrawnInv
<1>5. CASE at = "own" /\ object # 1
  <2>1. use.objects > 1
    BY <1>1, <1>5, DrawFacts DEF PipelineInv, DrawnInv
  <2>2. IsReplaced(Place(u)[1]) \/ Params[Place(u)[1] + 1].kind # "DESCRIPTOR_TABLE"
    BY <1>2, <1>3, <1>5, <2>1 DEF PipelineInv, WellDeclared, OwnTablesReplaced
  <2>3. CASE IsReplaced(Place(u)[1])
    BY <1>1, <1>2, <1>5, <2>3 DEF PipelineInv, DrawnInv, IsReplaced
  <2>4. CASE Params[Place(u)[1] + 1].kind # "DESCRIPTOR_TABLE"
    <3>1. Place(u)[1] \notin TableIndices
      <4>1. ASSUME NEW i \in DOMAIN elements, Params[i].kind = "DESCRIPTOR_TABLE"
            PROVE  Place(u)[1] # i - 1
        <5>1. i \in Int
          BY <1>1, <4>1 DEF PipelineInv, CreatedInv, WellDeclared, WellFormed
        <5> QED
          BY <2>4, <4>1, <5>1
      <4> QED
        BY <4>1 DEF TableIndices, Params
    <3> QED
      BY <1>1, <1>2, <3>1 DEF PipelineInv, DrawnInv
  <2> QED
    BY <2>2, <2>3, <2>4
<1> QED
  BY <1>1, <1>4, <1>5

(* No update writes into a table that a draw of this paint still uses      *)
(* (MeshPipeline.cpp:222-489, the replace indices).                        *)
THEOREM DrawnTablesAreLeftAlone == PipelineSpec /\ WellDeclared => []DrawnTablesStay
  BY PipelineInvariant, NoDrawnTableIsSet, PTL
=============================================================================
