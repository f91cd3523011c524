---------------------- MODULE ConstantBufferPoolProofs ----------------------
(***************************************************************************)
(* Proofs about ConstantBufferPool for every alignment, pool size, set of  *)
(* constant buffers and bound.                                             *)
(*                                                                         *)
(* allocate places a view at the offset it read before the ring moved the  *)
(* cursor.  When the cursor stays, the view is the region of the ring.     *)
(* When it goes to the start, the view begins with the tail that the ring  *)
(* has given up, and the proof holds the tail for the frame as the ring    *)
(* holds a region: two rings, one that holds the views as well, and the    *)
(* one before the cursor went round, keep the ring's own invariant.        *)
(***************************************************************************)
EXTENDS ConstantBufferPool, TLAPS

(* An allocation for which the ring has moved the cursor, and the view it  *)
(* will get.                                                               *)
Wrapped == request # 0 /\ offset # mCurrentOffset
Pending == IF Wrapped THEN {NewView} ELSE {}

(* The ring, with the views among its regions.                             *)
Held == INSTANCE RingBufferProofs WITH
            BufferSize <- Aligned(PoolByteSize),
            Sizes      <- {Aligned(n) : n \in AskedSizes},
            regions    <- regions \cup views \cup Pending

(* The ring as it was before the cursor went to the start.                 *)
Before == INSTANCE RingBufferProofs WITH
            BufferSize           <- Aligned(PoolByteSize),
            Sizes                <- {Aligned(n) : n \in AskedSizes},
            mCurrentOffset       <- offset,
            mCurrentUsedByteSize <- mCurrentUsedByteSize - (mBufferSize - offset),
            request              <- 0,
            regions              <- views

Multiple(x) == \E k \in Nat : x = M_POOL_ALIGNMENT * k

(* The ring exists with the pool, and the cursor, the offsets and the      *)
(* requests are multiples of the alignment.                                *)
AlignmentInv ==
    /\ mByteSize # 0 => mFrameQueue # << >>
    /\ Multiple(mCurrentOffset)
    /\ request # 0 =>
         /\ mFrameQueue # << >>
         /\ asked \in AskedSizes /\ request = Aligned(asked)
         /\ Multiple(offset)

IInv == AlignmentInv /\ Held!IInv /\ (Wrapped => Before!IInv)
-----------------------------------------------------------------------------
(* The rounding gives a multiple of the alignment, and room for what was   *)
(* asked.                                                                  *)
LEMMA MultipleOfAlignment ==
    ASSUME NEW k \in Nat
    PROVE  (M_POOL_ALIGNMENT * k) % M_POOL_ALIGNMENT = 0
<1>. DEFINE x == M_POOL_ALIGNMENT * k
            q == x \div M_POOL_ALIGNMENT
            r == x % M_POOL_ALIGNMENT
<1>1. M_POOL_ALIGNMENT \in Nat \ {0} /\ x \in Nat
  BY PoolAssumption
<1>. HIDE DEF x
<1>2. /\ q \in Int /\ r \in 0..(M_POOL_ALIGNMENT - 1)
      /\ x = M_POOL_ALIGNMENT * q + r
  BY <1>1
<1>. HIDE DEF q, r
<1>3. M_POOL_ALIGNMENT * (k - q) = M_POOL_ALIGNMENT * k - M_POOL_ALIGNMENT * q
  BY <1>1, <1>2
<1>4. M_POOL_ALIGNMENT * (k - q) = r
  BY <1>1, <1>2, <1>3 DEF x
<1>5. CASE k - q >= 1
  <2>1. PICK j \in Nat : k - q = j + 1
    BY <1>2, <1>5
  <2>2. M_POOL_ALIGNMENT * (j + 1) = M_POOL_ALIGNMENT * j + M_POOL_ALIGNMENT
    BY <1>1
  <2>3. M_POOL_ALIGNMENT * j \in Nat
    BY <1>1
  <2>4. QED
    BY <1>1, <1>2, <1>4, <2>1, <2>2, <2>3
<1>6. CASE k - q <= -1
  <2>1. PICK j \in Nat : k - q = -j - 1
    BY <1>2, <1>6
  <2>2. M_POOL_ALIGNMENT * (-j - 1) = -(M_POOL_ALIGNMENT * j) - M_POOL_ALIGNMENT
    BY <1>1
  <2>3. M_POOL_ALIGNMENT * j \in Nat
    BY <1>1
  <2>4. QED
    BY <1>1, <1>2, <1>4, <2>1, <2>2, <2>3
<1>7. CASE k - q = 0
  BY <1>1, <1>4, <1>7 DEF r, x
<1>8. QED
  BY <1>2, <1>5, <1>6, <1>7

LEMMA MultipleFacts ==
    /\ Multiple(0)
    /\ \A x \in Nat : Multiple(x) => x % M_POOL_ALIGNMENT = 0
    /\ \A x, y \in Nat : Multiple(x) /\ Multiple(y) => Multiple(x + y)
<1>1. M_POOL_ALIGNMENT \in Nat \ {0}
  BY PoolAssumption
<1>2. Multiple(0)
  BY <1>1 DEF Multiple
<1>3. \A x \in Nat : Multiple(x) => x % M_POOL_ALIGNMENT = 0
  BY MultipleOfAlignment DEF Multiple
<1>4. ASSUME NEW x \in Nat, NEW y \in Nat, Multiple(x), Multiple(y)
      PROVE  Multiple(x + y)
  <2>1. PICK j \in Nat, k \in Nat : x = M_POOL_ALIGNMENT * j /\ y = M_POOL_ALIGNMENT * k
    BY <1>4 DEF Multiple
  <2>2. x + y = M_POOL_ALIGNMENT * (j + k) /\ j + k \in Nat
    BY <1>1, <2>1
  <2>3. QED
    BY <2>2 DEF Multiple
<1>5. QED
  BY <1>2, <1>3, <1>4

LEMMA AlignedFacts ==
    ASSUME NEW n \in Nat
    PROVE  /\ Aligned(n) \in Nat \ {0} /\ Aligned(n) > n /\ Multiple(Aligned(n))
<1>1. M_POOL_ALIGNMENT \in Nat \ {0}
  BY PoolAssumption
<1>. DEFINE q == n \div M_POOL_ALIGNMENT
            r == n % M_POOL_ALIGNMENT
<1>2. /\ q \in Nat /\ r \in 0..(M_POOL_ALIGNMENT - 1)
      /\ n = M_POOL_ALIGNMENT * q + r
  BY <1>1
<1>3. Aligned(n) = n + (M_POOL_ALIGNMENT - r)
  BY DEF Aligned
<1>. HIDE DEF q, r
<1>4. M_POOL_ALIGNMENT * (q + 1) = M_POOL_ALIGNMENT * q + M_POOL_ALIGNMENT
  BY <1>1, <1>2
<1>5. M_POOL_ALIGNMENT * q \in Nat
  BY <1>1, <1>2
<1>6. Aligned(n) = M_POOL_ALIGNMENT * (q + 1) /\ q + 1 \in Nat
  BY <1>1, <1>2, <1>3, <1>4, <1>5
<1>7. Aligned(n) \in Nat \ {0} /\ Aligned(n) > n
  BY <1>1, <1>2, <1>3
<1>8. QED
  BY <1>6, <1>7 DEF Multiple

(* The rings are rings.                                                    *)
LEMMA RingAssumptions == Held!RingBufferAssumption /\ Before!RingBufferAssumption
<1>1. PoolByteSize \in Nat /\ AskedSizes \subseteq Nat /\ MaxFrame \in Nat /\ MaxUsed \in Nat
  BY PoolAssumption
<1>2. Aligned(PoolByteSize) \in Nat \ {0}
  BY <1>1, AlignedFacts
<1>3. {Aligned(n) : n \in AskedSizes} \subseteq Nat \ {0}
  BY <1>1, AlignedFacts
<1>4. QED
  BY <1>1, <1>2, <1>3 DEF Held!RingBufferAssumption, Before!RingBufferAssumption
-----------------------------------------------------------------------------
LEMMA InitIInv == Init => IInv
<1>. SUFFICES ASSUME Init PROVE IInv
  OBVIOUS
<1>1. /\ request = 0 /\ mByteSize = 0 /\ mCurrentOffset = 0 /\ regions = {} /\ views = {}
      /\ ~Wrapped /\ Pending = {}
  BY DEF Init, Ring!Init, Wrapped, Pending
<1>2. Held!Init
  BY <1>1 DEF Init, Ring!Init, Held!Init
<1>3. Held!IInv
  BY <1>2, RingAssumptions, Held!InitIInv
<1>4. QED
  BY <1>1, <1>3, MultipleFacts DEF IInv, AlignmentInv

(* What the two rings' invariants say of the variables.                    *)
LEMMA HeldFacts ==
    ASSUME IInv
    PROVE  /\ mCurrentOffset \in 0..Aligned(PoolByteSize) /\ mCurrentUsedByteSize \in Nat
           /\ mFrameCounter \in Nat /\ completed \in Nat /\ signalled \in Nat
           /\ regions \cup views \cup Pending \subseteq Held!Region
           /\ request \in Nat
           /\ mFrameQueue # << >> => /\ mBufferSize = Aligned(PoolByteSize)
                                     /\ signalled = mFrameCounter - 1
<1>1. Held!TypeOK /\ Held!FrameInv
  BY DEF IInv, Held!IInv
<1>2. {Aligned(n) : n \in AskedSizes} \subseteq Nat
  BY RingAssumptions DEF Held!RingBufferAssumption
<1>3. QED
  BY <1>1, <1>2 DEF Held!TypeOK, Held!FrameInv

(* A request: the offset is the cursor before the ring moves it, and the   *)
(* tail the ring gives up is held for the view from then on.               *)
LEMMA BeginAllocateIInv ==
    ASSUME IInv, NEW size \in AskedSizes, BeginAllocate(size)
    PROVE  IInv'
<1>. DEFINE s == Aligned(size)
<1>1. /\ mByteSize # 0 /\ request = 0 /\ request' = s /\ offset' = mCurrentOffset
      /\ asked' = size
      /\ UNCHANGED <<mBufferSize, mFrameCounter, mFrameQueue, signalled, completed,
                     regions, mByteSize, views>>
      /\ IF Ring!IsTail(s)
         THEN /\ mCurrentUsedByteSize' = mCurrentUsedByteSize + (mBufferSize - mCurrentOffset)
              /\ mCurrentOffset' = 0
         ELSE UNCHANGED <<mCurrentUsedByteSize, mCurrentOffset>>
  BY DEF BeginAllocate, Ring!BeginAllocate, Ring!frameVars, Ring!gpuVars
<1>2. size \in Nat /\ s \in Nat \ {0} /\ s \in {Aligned(n) : n \in AskedSizes}
  BY PoolAssumption, AlignedFacts
<1>3. mFrameQueue # << >> /\ mBufferSize = Aligned(PoolByteSize) /\ Pending = {}
  BY <1>1, HeldFacts DEF IInv, AlignmentInv, Pending, Wrapped
<1>. HIDE DEF s
<1>4. Held!Requested(s)
  BY <1>1 DEF Held!Requested, Held!IsTail, Ring!IsTail, Held!frameVars, Held!gpuVars
<1>5. NewView' = [frame |-> mFrameCounter, from |-> mCurrentOffset, size |-> s]
  BY <1>1 DEF NewView
<1>6. Wrapped' => Ring!IsTail(s)
  BY <1>1 DEF Wrapped
<1>7. \/ (regions \cup views \cup Pending)' = regions \cup views \cup Pending
      \/ Held!TailHeld(s)
  <2>1. CASE ~Wrapped'
    BY <1>1, <1>3, <2>1 DEF Pending
  <2>2. CASE Wrapped'
    <3>1. NewView' \in Held!Region
      BY <1>2, <1>5, HeldFacts DEF Held!Region
    <3>2. (regions \cup views \cup Pending)' = regions \cup views \cup Pending \cup {NewView'}
      BY <1>1, <1>3, <2>2 DEF Pending
    <3>3. NewView'.from = mCurrentOffset /\ NewView'.frame = mFrameCounter
      BY <1>5
    <3>4. QED
      BY <1>3, <1>6, <2>2, <3>1, <3>2, <3>3 DEF Held!TailHeld, Held!IsTail, Ring!IsTail
  <2>3. QED
    BY <2>1, <2>2
<1>8. Held!IInv'
  BY <1>2, <1>4, <1>7, RingAssumptions, Held!RequestedIInv DEF IInv
<1>9. AlignmentInv'
  BY <1>1, <1>2, <1>3, MultipleFacts DEF IInv, AlignmentInv, s
<1>10. ASSUME Wrapped' PROVE Before!IInv'
  <2>1. mCurrentUsedByteSize' - (mBufferSize' - offset') = mCurrentUsedByteSize
    <3>1. mBufferSize \in Nat /\ mCurrentOffset \in Nat /\ mCurrentUsedByteSize \in Nat
      BY <1>3, HeldFacts, PoolAssumption, AlignedFacts
    <3>2. mCurrentUsedByteSize' = mCurrentUsedByteSize + (mBufferSize - mCurrentOffset)
      BY <1>1, <1>6, <1>10
    <3>3. QED
      BY <1>1, <3>1, <3>2
  <2>2. Held!TypeOK /\ Held!FrameInv /\ Held!LedgerInv
    BY DEF IInv, Held!IInv
  <2>3. Before!TypeOK'
    BY <1>1, <2>1, <2>2 DEF Held!TypeOK, Before!TypeOK, Held!FrameInfo, Before!FrameInfo,
                            Held!Region, Before!Region
  <2>4. Before!FrameInv'
    BY <1>1, <1>3, <2>2 DEF Held!FrameInv, Before!FrameInv
  <2>5. Before!RequestInv'
    BY DEF Before!RequestInv
  <2>6. Before!LedgerInv'
    <3>1. PICK d \in [1..Len(mFrameQueue) -> Int] : Held!Ledger(d)
      BY <1>3, <2>2 DEF Held!LedgerInv
    <3>2. Before!SumsArcs(d)'
      BY <1>1, <3>1 DEF Held!Ledger, Held!SumsArcs, Before!SumsArcs, Held!Arc, Before!Arc,
         Held!NextHead, Before!NextHead, Held!FreeByteSize, Before!FreeByteSize
    <3>3. \/ mCurrentUsedByteSize >= d[1] + mBufferSize
          \/ /\ mCurrentUsedByteSize = d[1]
             /\ Before!ExactArcs(d)' /\ Before!RegionsOnArcs(d)'
      BY <1>1, <3>1 DEF Held!Ledger, Held!ExactArcs, Before!ExactArcs, Held!RegionsOnArcs,
         Before!RegionsOnArcs, Held!OnArc, Before!OnArc, Held!FreeByteSize, Before!FreeByteSize
    <3>4. Before!Ledger(d)'
      BY <1>1, <2>1, <3>2, <3>3 DEF Before!Ledger
    <3>5. QED
      BY <1>1, <3>1, <3>4 DEF Before!LedgerInv
  <2>7. QED
    BY <2>3, <2>4, <2>5, <2>6 DEF Before!IInv
<1>11. QED
  BY <1>8, <1>9, <1>10 DEF IInv

LEMMA ReclaimOldestIInv ==
    ASSUME IInv, ReclaimOldest
    PROVE  IInv'
<1>1. /\ UNCHANGED <<mBufferSize, mCurrentOffset, mFrameCounter, request, signalled,
                     completed, regions, mByteSize, asked, offset, views>>
      /\ Ring!ReclaimOldest /\ request # 0
  BY DEF ReclaimOldest, Ring!ReclaimOldest, Ring!gpuVars
<1>2. Wrapped' = Wrapped /\ Pending' = Pending
  BY <1>1 DEF Wrapped, Pending, NewView
<1>3. Held!ReclaimOldest
  BY <1>1, <1>2 DEF Ring!ReclaimOldest, Held!ReclaimOldest, Ring!IsFill, Held!IsFill, Ring!Oldest,
     Held!Oldest, Ring!FreeByteSize, Held!FreeByteSize, Held!gpuVars
<1>4. Held!IInv'
  BY <1>3, RingAssumptions, Held!ReclaimOldestIInv DEF IInv
<1>5. ASSUME Wrapped PROVE Before!IInv'
  <2>1. PICK free : /\ free = Before!FreeByteSize(Before!Oldest.mOffset, mFrameQueue[2].mOffset)
                    /\ mCurrentUsedByteSize' = mCurrentUsedByteSize - free
    BY <1>1 DEF Ring!ReclaimOldest, Ring!Oldest, Before!Oldest, Ring!FreeByteSize,
       Before!FreeByteSize
  <2>2. free \in Int /\ offset \in Int /\ mCurrentUsedByteSize \in Int /\ mBufferSize \in Int
    <3>1. mFrameQueue \in Seq(Held!FrameInfo) /\ Len(mFrameQueue) > 1
      BY <1>1 DEF IInv, Held!IInv, Held!TypeOK, Ring!ReclaimOldest
    <3>2. Before!Oldest \in Held!FrameInfo /\ mFrameQueue[2] \in Held!FrameInfo
      <4>1. mFrameQueue # << >> /\ 2 \in 1..Len(mFrameQueue) /\ 1 \in 1..Len(mFrameQueue)
        BY <3>1
      <4>2. Before!Oldest = mFrameQueue[1]
        BY <3>1, <4>1 DEF Before!Oldest
      <4>3. QED
        BY <3>1, <4>1, <4>2
    <3>3. mBufferSize \in Int /\ offset \in Int /\ mCurrentUsedByteSize \in Int
      <4>1. mBufferSize = Aligned(PoolByteSize) /\ mCurrentUsedByteSize \in Nat
        BY <1>1, HeldFacts DEF IInv, AlignmentInv
      <4>2. Aligned(PoolByteSize) \in Nat
        BY PoolAssumption, AlignedFacts
      <4>3. NewView \in Held!Region
        BY <1>5, HeldFacts DEF Pending
      <4>4. offset \in 0..Aligned(PoolByteSize)
        BY <4>3 DEF NewView, Held!Region
      <4>5. QED
        BY <4>1, <4>2, <4>4
    <3>4. Before!Oldest.mOffset \in Int /\ mFrameQueue[2].mOffset \in Int
      BY <3>2 DEF Held!FrameInfo
    <3>5. QED
      BY <2>1, <3>3, <3>4 DEF Before!FreeByteSize
  <2>3. mCurrentUsedByteSize' - (mBufferSize' - offset') =
            (mCurrentUsedByteSize - (mBufferSize - offset)) - free
    BY <1>1, <2>1, <2>2
  <2>4. Before!Reclaimed
    BY <1>1, <2>1, <2>3 DEF Ring!ReclaimOldest, Before!Reclaimed, Ring!Oldest, Before!Oldest,
       Before!gpuVars
  <2>5. QED
    BY <1>5, <2>4, RingAssumptions, Before!ReclaimedIInv DEF IInv
<1>6. AlignmentInv'
  <2>1. mFrameQueue' # << >>
    BY <1>1, <1>4, HeldFacts DEF IInv, AlignmentInv, Held!IInv, Held!FrameInv
  <2>2. QED
    BY <1>1, <2>1 DEF IInv, AlignmentInv, Multiple
<1>7. QED
  BY <1>2, <1>4, <1>5, <1>6 DEF IInv

LEMMA ThrowFullIInv ==
    ASSUME IInv, ThrowFull
    PROVE  IInv'
<1>1. /\ UNCHANGED <<mBufferSize, mCurrentOffset, mCurrentUsedByteSize, mFrameCounter,
                     mFrameQueue, signalled, completed, regions, mByteSize, views>>
      /\ request' = 0
  BY DEF ThrowFull, Ring!ThrowFull, Ring!ringVars, Ring!frameVars, Ring!gpuVars
<1>2. ~Wrapped' /\ Pending' = {}
  BY <1>1 DEF Wrapped, Pending
<1>3. Held!IInv'
  BY <1>1, <1>2, RingAssumptions, Held!GivenUpIInv
     DEF IInv, Held!ringVars, Held!frameVars, Held!gpuVars
<1>4. QED
  BY <1>1, <1>2, <1>3 DEF IInv, AlignmentInv, Multiple

(* The allocation is done: the region and the view, whose tail was held    *)
(* since the request, are regions of the ring that holds both.             *)
LEMMA FinishAllocateIInv ==
    ASSUME IInv, FinishAllocate
    PROVE  IInv'
<1>1. /\ UNCHANGED <<mBufferSize, mFrameCounter, mFrameQueue, signalled, completed, mByteSize>>
      /\ request # 0 /\ request' = 0 /\ ~Ring!IsFill
      /\ regions' = regions \cup {Ring!Allocated} /\ views' = views \cup {NewView}
      /\ mCurrentOffset' = mCurrentOffset + request
      /\ mCurrentUsedByteSize' = mCurrentUsedByteSize + request
  BY DEF FinishAllocate, Ring!FinishAllocate, Ring!frameVars, Ring!gpuVars
<1>2. ~Wrapped' /\ Pending' = {}
  BY <1>1 DEF Wrapped, Pending
<1>3. NewView \in Pending \cup {Ring!Allocated} /\ Pending \subseteq {NewView}
  BY <1>1 DEF Pending, Wrapped, NewView, Ring!Allocated
<1>4. (regions \cup views \cup Pending)' = regions \cup views \cup Pending \cup {Ring!Allocated}
  BY <1>1, <1>2, <1>3
<1>5. Held!FinishAllocate
  BY <1>1, <1>4 DEF Held!FinishAllocate, Ring!IsFill, Held!IsFill, Ring!Allocated, Held!Allocated,
     Held!frameVars, Held!gpuVars
<1>6. Held!IInv'
  BY <1>5, RingAssumptions, Held!FinishAllocateIInv DEF IInv
<1>7. Multiple(mCurrentOffset + request) /\ mFrameQueue # << >>
  <2>1. /\ asked \in AskedSizes /\ request = Aligned(asked) /\ Multiple(mCurrentOffset)
        /\ mFrameQueue # << >>
    BY <1>1 DEF IInv, AlignmentInv
  <2>2. mCurrentOffset \in Nat /\ asked \in Nat
    BY <2>1, HeldFacts, PoolAssumption
  <2>3. request \in Nat /\ Multiple(request)
    BY <2>1, <2>2, AlignedFacts
  <2>4. QED
    BY <2>1, <2>2, <2>3, MultipleFacts
<1>8. QED
  BY <1>1, <1>2, <1>6, <1>7 DEF IInv, AlignmentInv, Multiple

(* The other methods of the ring, between two allocations. *)
LEMMA EndAndGoNextFrameIInv ==
    ASSUME IInv, EndAndGoNextFrame
    PROVE  IInv'
<1>1. /\ UNCHANGED <<mBufferSize, mCurrentOffset, mCurrentUsedByteSize, request, completed,
                     regions, mByteSize, asked, offset, views>>
      /\ request = 0 /\ Ring!EndAndGoNextFrame
  BY DEF EndAndGoNextFrame, Ring!EndAndGoNextFrame, Ring!ringVars
<1>2. ~Wrapped' /\ Pending' = {} /\ Pending = {}
  BY <1>1 DEF Wrapped, Pending
<1>3. Held!EndAndGoNextFrame
  BY <1>1, <1>2 DEF Ring!EndAndGoNextFrame, Held!EndAndGoNextFrame, Ring!Current, Held!Current,
     Held!ringVars
<1>4. Held!IInv'
  BY <1>3, RingAssumptions, Held!EndAndGoNextFrameIInv DEF IInv
<1>5. mFrameQueue' # << >>
  <2>1. mFrameQueue \in Seq(Held!FrameInfo)
    BY DEF IInv, Held!IInv, Held!TypeOK
  <2>2. PICK e : mFrameQueue' = Append(mFrameQueue, e)
    BY <1>1 DEF Ring!EndAndGoNextFrame
  <2>3. QED
    BY <2>1, <2>2
<1>6. QED
  BY <1>1, <1>2, <1>4, <1>5 DEF IInv, AlignmentInv, Multiple

LEMMA ResetIInv ==
    ASSUME IInv, Create \/ Clear
    PROVE  IInv'
<1>1. /\ request = 0 /\ request' = 0 /\ regions' = {} /\ views' = {} /\ mCurrentOffset' = 0
      /\ mByteSize' # 0 => mFrameQueue' # << >>
  BY DEF Create, Clear, Ring!InitBuffer, Ring!Clear
<1>2. ~Wrapped' /\ Pending' = {}
  BY <1>1 DEF Wrapped, Pending
<1>3. Held!InitBuffer \/ Held!Clear
  <2>1. CASE Create
    BY <1>1, <1>2, <2>1 DEF Create, Ring!InitBuffer, Held!InitBuffer, Ring!ClearMayGo,
       Held!ClearMayGo, Ring!Current, Held!Current
  <2>2. CASE Clear
    BY <1>1, <1>2, <2>2 DEF Clear, Ring!Clear, Held!Clear, Ring!ClearMayGo,
       Held!ClearMayGo, Ring!Current, Held!Current
  <2>3. QED
    BY <2>1, <2>2
<1>4. Held!IInv'
  BY <1>3, RingAssumptions, Held!InitBufferIInv, Held!ClearIInv DEF IInv
<1>5. QED
  BY <1>1, <1>2, <1>4, MultipleFacts DEF IInv, AlignmentInv, Multiple

LEMMA GpuCompletesIInv ==
    ASSUME IInv, GpuCompletes
    PROVE  IInv'
<1>1. /\ UNCHANGED <<mBufferSize, mCurrentOffset, mCurrentUsedByteSize, mFrameCounter,
                     mFrameQueue, request, signalled, mByteSize, asked, offset>>
      /\ completed < signalled /\ completed' = completed + 1
      /\ regions' = {r \in regions : r.frame > completed + 1}
      /\ views' = {v \in views : v.frame > completed + 1}
  BY DEF GpuCompletes, Ring!GpuCompletes, Ring!ringVars, Ring!frameVars
<1>2. Wrapped' = Wrapped /\ Pending' = Pending
  BY <1>1 DEF Wrapped, Pending, NewView
<1>3. \A v \in Pending : v.frame > completed + 1
  <2>1. ASSUME Wrapped PROVE mFrameCounter > completed + 1
    <3>1. mFrameQueue # << >>
      BY <2>1 DEF Wrapped, IInv, AlignmentInv
    <3>2. QED
      BY <1>1, <3>1, HeldFacts
  <2>2. QED
    BY <2>1 DEF Pending, NewView
<1>4. Held!GpuCompletes
  BY <1>1, <1>2, <1>3 DEF Held!GpuCompletes, Held!ringVars, Held!frameVars
<1>5. Held!IInv'
  BY <1>4, RingAssumptions, Held!GpuCompletesIInv DEF IInv
<1>6. Before!GpuCompletes
  BY <1>1 DEF Before!GpuCompletes, Before!ringVars, Before!frameVars
<1>7. Wrapped => Before!IInv'
  BY <1>6, RingAssumptions, Before!GpuCompletesIInv DEF IInv
<1>8. QED
  BY <1>1, <1>2, <1>5, <1>7 DEF IInv, AlignmentInv, Multiple

LEMMA NextIInv == IInv /\ [Next]_vars => IInv'
<1>. SUFFICES ASSUME IInv, [Next]_vars PROVE IInv'
  OBVIOUS
<1>1. CASE UNCHANGED vars
  <2>1. /\ UNCHANGED <<mBufferSize, mCurrentOffset, mCurrentUsedByteSize, mFrameCounter,
                       mFrameQueue, request, signalled, completed, regions, mByteSize,
                       asked, offset, views>>
    BY <1>1 DEF vars, ringVars
  <2>2. Wrapped' = Wrapped /\ Pending' = Pending /\ AlignmentInv'
    BY <2>1 DEF Wrapped, Pending, NewView, IInv, AlignmentInv, Multiple
  <2>3. Held!IInv'
    <3>1. UNCHANGED Held!vars
      BY <2>1, <2>2 DEF Held!vars, Held!ringVars, Held!frameVars, Held!gpuVars
    <3>2. QED
      BY <3>1, RingAssumptions, Held!NextIInv DEF IInv
  <2>4. Wrapped => Before!IInv'
    <3>1. UNCHANGED Before!vars
      BY <2>1 DEF Before!vars, Before!ringVars, Before!frameVars, Before!gpuVars
    <3>2. QED
      BY <3>1, RingAssumptions, Before!NextIInv DEF IInv
  <2>5. QED
    BY <2>2, <2>3, <2>4 DEF IInv
<1>2. QED
  BY <1>1, BeginAllocateIInv, ReclaimOldestIInv, ThrowFullIInv, FinishAllocateIInv,
     EndAndGoNextFrameIInv, ResetIInv, GpuCompletesIInv DEF Next
-----------------------------------------------------------------------------
(* ConstantBufferPool, its ring and the views it has made. *)
THEOREM PoolInvariant == Spec => []IInv
BY InitIInv, NextIInv, PTL DEF Spec

(* The bytes of a new view: those of the region, which is free, or the     *)
(* tail, above everything that the GPU may read.                           *)
LEMMA NewViewIsFree ==
    ASSUME IInv, FinishAllocate, NEW v \in views
    PROVE  Ring!Disjoint(v, NewView)
<1>1. request # 0 /\ ~Ring!IsFill /\ mFrameQueue # << >>
  BY DEF FinishAllocate, Ring!FinishAllocate, IInv, AlignmentInv
<1>2. CASE ~Wrapped
  <2>1. /\ regions' = regions \cup {Ring!Allocated} /\ views' = views \cup {NewView}
        /\ NewView = Ring!Allocated /\ Pending = {} /\ Pending' = {}
    BY <1>1, <1>2 DEF FinishAllocate, Ring!FinishAllocate, Wrapped, Pending, NewView, Ring!Allocated
  <2>2. Held!FinishAllocate
    BY <2>1 DEF FinishAllocate, Ring!FinishAllocate, Held!FinishAllocate, Ring!IsFill, Held!IsFill,
       Ring!Allocated, Held!Allocated, Ring!frameVars, Ring!gpuVars, Held!frameVars, Held!gpuVars
  <2>3. Held!Disjoint(v, Held!Allocated)
    BY <2>2, RingAssumptions, Held!AllocatedIsFree DEF IInv
  <2>4. QED
    BY <2>1, <2>3 DEF Held!Disjoint, Ring!Disjoint, Held!Allocated, Ring!Allocated
<1>3. CASE Wrapped
  <2>1. /\ mBufferSize = Aligned(PoolByteSize) /\ mCurrentUsedByteSize \in Nat
        /\ request \in Nat /\ Aligned(PoolByteSize) \in Nat
    BY <1>1, HeldFacts, PoolAssumption, AlignedFacts
  <2>2. NewView \in Held!Region
    BY <1>3, HeldFacts DEF Pending
  <2>3. offset \in 0..Aligned(PoolByteSize) /\ NewView.from = offset
    BY <2>2 DEF NewView, Held!Region
  <2>4. mCurrentUsedByteSize + request <= mBufferSize
    BY <1>1, <2>1 DEF Ring!IsFill
  <2>5. mCurrentUsedByteSize - (mBufferSize - offset) < offset
    BY <1>1, <2>1, <2>3, <2>4
  <2>6. v.from + v.size <= offset
    BY <1>1, <1>3, <2>5, RingAssumptions, Before!RegionsBelowCursor DEF IInv
  <2>7. QED
    BY <2>3, <2>6 DEF Ring!Disjoint
<1>4. QED
  BY <1>2, <1>3

(* ConstantBufferPool::allocate: no new constant buffer shares a byte with *)
(* one that the GPU may still read, although its offset is read before the *)
(* ring moves the cursor; and it has D3D12's alignment and the room asked. *)
THEOREM NewViewsAreSound == Spec => NewViewIsSound
<1>1. ASSUME IInv, FinishAllocate
      PROVE  /\ NewView.from % M_POOL_ALIGNMENT = 0
             /\ NewView.size % M_POOL_ALIGNMENT = 0
             /\ NewView.size >= asked
  <2>1. /\ asked \in AskedSizes /\ request = Aligned(asked) /\ Multiple(offset)
        /\ NewView.from = offset /\ NewView.size = request
    BY <1>1 DEF IInv, AlignmentInv, FinishAllocate, Ring!FinishAllocate, NewView
  <2>2. asked \in Nat
    BY <2>1, PoolAssumption
  <2>3. request \in Nat /\ request > asked /\ Multiple(request)
    BY <2>1, <2>2, AlignedFacts
  <2>4. request % M_POOL_ALIGNMENT = 0
    BY <2>3, MultipleFacts
  <2>5. offset \in Nat
    <3>1. CASE Wrapped
      <4>1. NewView \in Held!Region
        BY <1>1, <3>1, HeldFacts DEF Pending
      <4>2. Aligned(PoolByteSize) \in Nat
        BY PoolAssumption, AlignedFacts
      <4>3. QED
        BY <4>1, <4>2 DEF NewView, Held!Region
    <3>2. CASE ~Wrapped
      BY <1>1, <3>2, HeldFacts DEF Wrapped, FinishAllocate, Ring!FinishAllocate
    <3>3. QED
      BY <3>1, <3>2
  <2>6. offset % M_POOL_ALIGNMENT = 0
    BY <2>1, <2>5, MultipleFacts
  <2>7. QED
    BY <2>1, <2>2, <2>3, <2>4, <2>6
<1>2. IInv => [FinishAllocate =>
                 /\ \A v \in views : Ring!Disjoint(v, NewView)
                 /\ NewView.from % M_POOL_ALIGNMENT = 0
                 /\ NewView.size % M_POOL_ALIGNMENT = 0
                 /\ NewView.size >= asked]_vars
  BY <1>1, NewViewIsFree
<1>3. QED
  BY <1>2, PoolInvariant, PTL DEF NewViewIsSound
=============================================================================
