-------------------------- MODULE RingBufferProofs --------------------------
(***************************************************************************)
(* Proofs about RingBuffer for every ring size, every set of request sizes *)
(* and every bound.                                                        *)
(*                                                                         *)
(* The safety of the ring rests on one number, mCurrentUsedByteSize, that  *)
(* updateCurrentOffset compares with the ring's size.  The inductive       *)
(* invariant says what it counts: the sum of the arcs of the queued        *)
(* frames, each taken modulo the ring, or at least one whole ring more.    *)
(* While it is exact, no region the GPU may read meets the free arc in     *)
(* front of the cursor; once it is not, nothing is ever allocated again.   *)
(***************************************************************************)
EXTENDS RingBuffer, SequenceTheorems, TLAPS

(* The queued frames carry consecutive numbers that end with the counter,  *)
(* all but the last have been signalled, and the ones that were reclaimed  *)
(* are complete.                                                           *)
FrameInv ==
    /\ mFrameQueue = << >> =>
         /\ mBufferSize = 0 /\ mFrameCounter = 0
         /\ signalled = 0 /\ completed = 0 /\ regions = {}
         /\ mCurrentOffset = 0 /\ mCurrentUsedByteSize = 0
    /\ mFrameQueue # << >> =>
         mBufferSize = BufferSize /\ signalled = mFrameCounter - 1
    /\ \A i \in 1..Len(mFrameQueue) :
         mFrameQueue[i].mFrame = mFrameCounter - Len(mFrameQueue) + i
    /\ mFrameCounter - Len(mFrameQueue) <= completed
    /\ completed <= signalled
    /\ \A r \in regions : completed < r.frame /\ r.frame <= mFrameCounter

(* Inside updateCurrentOffset the request does not reach the tail, unless  *)
(* the cursor is at the start.                                             *)
RequestInv ==
    request # 0 /\ mFrameQueue # << >> =>
        mCurrentOffset = 0 \/ mCurrentOffset + request < mBufferSize

(* Where the next queued frame begins: at the cursor for the last one.     *)
NextHead(i) ==
    IF i = Len(mFrameQueue) THEN mCurrentOffset ELSE mFrameQueue[i + 1].mOffset

Arc(i) == FreeByteSize(mFrameQueue[i].mOffset, NextHead(i))

(* d[i] is the length of the arcs from the i-th queued frame to the cursor.*)
SumsArcs(d) ==
    /\ d \in [1..Len(mFrameQueue) -> Int]
    /\ \A i \in 1..Len(mFrameQueue) :
         /\ i = Len(mFrameQueue) => d[i] = Arc(i)
         /\ i # Len(mFrameQueue) => d[i] = Arc(i) + d[i + 1]
         /\ d[Len(mFrameQueue)] <= d[i]

(* Less than a whole ring from a head to the cursor is the arc itself.     *)
ExactArcs(d) ==
    \A i \in 1..Len(mFrameQueue) : d[i] < mBufferSize =>
        d[i] = FreeByteSize(mFrameQueue[i].mOffset, mCurrentOffset)

(* Region r lies on the arc from head to the cursor.                       *)
OnArc(r, head) ==
    IF head <= mCurrentOffset
    THEN head <= r.from /\ r.from + r.size <= mCurrentOffset
    ELSE r.from + r.size <= mCurrentOffset \/ head <= r.from

(* What a frame and the frames after it allocated lies on the arc from its *)
(* head to the cursor.                                                     *)
RegionsOnArcs(d) ==
    \A i \in 1..Len(mFrameQueue), r \in regions :
        d[i] < mBufferSize /\ mFrameQueue[i].mFrame <= r.frame
            => OnArc(r, mFrameQueue[i].mOffset)

(* The byte count is exact, or a whole ring too large.                     *)
Ledger(d) ==
    /\ SumsArcs(d)
    /\ \/ mCurrentUsedByteSize >= d[1] + mBufferSize
       \/ /\ mCurrentUsedByteSize = d[1]
          /\ ExactArcs(d)
          /\ RegionsOnArcs(d)

LedgerInv ==
    mFrameQueue # << >> => \E d \in [1..Len(mFrameQueue) -> Int] : Ledger(d)

(* The inductive invariant. *)
IInv == TypeOK /\ FrameInv /\ RequestInv /\ LedgerInv
-----------------------------------------------------------------------------
(* What the actions do to the queue, element by element. *)
LEMMA TailQueue ==
    ASSUME NEW q \in Seq(FrameInfo), Len(q) > 1
    PROVE  /\ Tail(q) \in Seq(FrameInfo)
           /\ Len(Tail(q)) = Len(q) - 1
           /\ Tail(q) # << >>
           /\ Head(q) = q[1]
           /\ \A i \in 1..Len(q) - 1 : Tail(q)[i] = q[i + 1]
<1>1. q # << >>
  OBVIOUS
<1>2. QED
  BY <1>1, HeadTailProperties

LEMMA AppendQueue ==
    ASSUME NEW q \in Seq(FrameInfo), NEW e \in FrameInfo
    PROVE  /\ Append(q, e) \in Seq(FrameInfo)
           /\ Append(q, e) # << >>
           /\ Len(Append(q, e)) = Len(q) + 1
           /\ Append(q, e)[Len(q) + 1] = e
           /\ \A i \in 1..Len(q) : Append(q, e)[i] = q[i]
BY AppendProperties

(* A frame's arc is no longer than the ring. *)
LEMMA FreeByteSizeRange ==
    ASSUME TypeOK, mBufferSize = BufferSize,
           NEW a \in 0..BufferSize, NEW b \in 0..BufferSize
    PROVE  FreeByteSize(a, b) \in 0..BufferSize
BY RingBufferAssumption DEF FreeByteSize, TypeOK

(* What giving the tail up does to the arc of a frame whose head is a, the *)
(* cursor being at c.                                                      *)
LEMMA WrapArc ==
    ASSUME mBufferSize = BufferSize,
           NEW a \in 0..BufferSize, NEW c \in 0..BufferSize
    PROVE  /\ FreeByteSize(a, 0) \in Int
           /\ FreeByteSize(a, c) \in Int
           /\ \/ FreeByteSize(a, 0) = FreeByteSize(a, c) + (BufferSize - c)
              \/ FreeByteSize(a, 0) = FreeByteSize(a, c) - c
           /\ FreeByteSize(a, c) < c =>
                FreeByteSize(a, 0) = FreeByteSize(a, c) + (BufferSize - c)
BY RingBufferAssumption DEF FreeByteSize

(* What an allocation of s at the cursor c does to the arc from a.         *)
LEMMA GrowArc ==
    ASSUME mBufferSize = BufferSize,
           NEW a \in 0..BufferSize, NEW c \in 0..BufferSize,
           NEW s \in Nat \ {0}, c + s <= BufferSize,
           FreeByteSize(a, c) + s <= BufferSize
    PROVE  /\ FreeByteSize(a, c) \in Int
           /\ FreeByteSize(a, c + s) \in Int
           /\ \/ FreeByteSize(a, c + s) = FreeByteSize(a, c) + s
              \/ FreeByteSize(a, c + s) = FreeByteSize(a, c) + s - BufferSize
           /\ FreeByteSize(a, c) + s < BufferSize =>
                /\ FreeByteSize(a, c + s) = FreeByteSize(a, c) + s
                /\ c < a => c + s < a
BY RingBufferAssumption DEF FreeByteSize

(* A queue that is not empty has a last frame, and its heads are in the    *)
(* ring.                                                                   *)
LEMMA QueueFacts ==
    ASSUME TypeOK, mFrameQueue # << >>
    PROVE  /\ Len(mFrameQueue) \in Nat \ {0}
           /\ \A i \in 1..Len(mFrameQueue) :
                /\ mFrameQueue[i] \in FrameInfo
                /\ mFrameQueue[i].mOffset \in 0..BufferSize
                /\ mFrameQueue[i].mFrame \in Nat
                /\ NextHead(i) \in 0..BufferSize
<1>1. /\ mFrameQueue \in Seq(FrameInfo)
      /\ mCurrentOffset \in 0..BufferSize
  BY DEF TypeOK
<1>2. Len(mFrameQueue) \in Nat \ {0}
  BY <1>1, EmptySeq
<1>3. \A i \in 1..Len(mFrameQueue) : mFrameQueue[i] \in FrameInfo
  BY <1>1, ElementOfSeq
<1>4. \A f \in FrameInfo : f.mOffset \in 0..BufferSize /\ f.mFrame \in Nat
  BY DEF FrameInfo
<1>5. \A i \in 1..Len(mFrameQueue) : NextHead(i) \in 0..BufferSize
  BY <1>1, <1>2, <1>3, <1>4 DEF NextHead
<1>6. QED
  BY <1>2, <1>3, <1>4, <1>5
-----------------------------------------------------------------------------
LEMMA InitIInv == Init => IInv
BY RingBufferAssumption DEF Init, IInv, TypeOK, FrameInv, RequestInv, LedgerInv, FrameInfo

(* Without its request, and with fewer regions, the ring is one still.     *)
LEMMA GivenUpIInv ==
    ASSUME IInv, UNCHANGED <<ringVars, frameVars, gpuVars>>,
           request' = 0, regions' \subseteq regions
    PROVE  IInv'
<1> USE DEF ringVars, frameVars, gpuVars
<1>1. TypeOK' /\ FrameInv' /\ RequestInv'
  BY DEF IInv, TypeOK, FrameInv, RequestInv
<1>2. LedgerInv'
  BY DEF IInv, LedgerInv, Ledger, SumsArcs, ExactArcs, RegionsOnArcs, OnArc, Arc,
         NextHead, FreeByteSize
<1>3. QED
  BY <1>1, <1>2 DEF IInv

LEMMA ThrowFullIInv == IInv /\ ThrowFull => IInv'
BY GivenUpIInv DEF ThrowFull

LEMMA ClearIInv == IInv /\ Clear => IInv'
BY RingBufferAssumption
   DEF Clear, IInv, TypeOK, FrameInv, RequestInv, LedgerInv, FrameInfo

LEMMA InitBufferIInv == IInv /\ InitBuffer => IInv'
<1> SUFFICES ASSUME IInv, InitBuffer PROVE IInv'
  OBVIOUS
<1> DEFINE first == [mFrame |-> 1, mOffset |-> 0]
<1>0. mFrameQueue' = << first >> /\ first \in FrameInfo
  BY RingBufferAssumption DEF InitBuffer, FrameInfo
<1>1. /\ mFrameQueue' \in Seq(FrameInfo) /\ Len(mFrameQueue') = 1
      /\ mFrameQueue' # << >> /\ mFrameQueue'[1] = first
  BY <1>0
<1>2. TypeOK'
  BY <1>1, RingBufferAssumption DEF InitBuffer, IInv, TypeOK
<1>3. FrameInv'
  BY <1>1 DEF InitBuffer, FrameInv
<1>4. RequestInv'
  BY DEF InitBuffer, RequestInv
<1>5. LedgerInv'
  <2> DEFINE d == [i \in 1..1 |-> 0]
  <2>1. SumsArcs(d)'
    BY <1>1 DEF InitBuffer, SumsArcs, Arc, NextHead, FreeByteSize
  <2>2. ExactArcs(d)' /\ RegionsOnArcs(d)' /\ mCurrentUsedByteSize' = d[1]
    BY <1>1 DEF InitBuffer, ExactArcs, RegionsOnArcs, FreeByteSize
  <2>3. Ledger(d)' /\ d \in [1..Len(mFrameQueue)' -> Int]
    BY <1>1, <2>1, <2>2 DEF Ledger
  <2>4. QED
    BY <2>3 DEF LedgerInv
<1>6. QED
  BY <1>2, <1>3, <1>4, <1>5 DEF IInv

(* The GPU only takes regions away, those of the frame it completes. *)
LEMMA GpuCompletesIInv == IInv /\ GpuCompletes => IInv'
<1> SUFFICES ASSUME IInv, GpuCompletes PROVE IInv'
  OBVIOUS
<1> USE DEF GpuCompletes, ringVars, frameVars
<1>1. TypeOK'
  BY DEF IInv, TypeOK
<1>2. FrameInv'
  BY DEF IInv, TypeOK, FrameInv, Region
<1>3. RequestInv'
  BY DEF IInv, RequestInv
<1>4. LedgerInv'
  BY DEF IInv, LedgerInv, Ledger, SumsArcs, ExactArcs, RegionsOnArcs, OnArc, Arc,
         NextHead, FreeByteSize
<1>5. QED
  BY <1>1, <1>2, <1>3, <1>4 DEF IInv

(* Reclaiming the oldest frame takes its arc out of the ledger, whatever   *)
(* request it is for.                                                      *)
Reclaimed ==
    /\ Len(mFrameQueue) > 1
    /\ completed >= Oldest.mFrame
    /\ mFrameQueue' = Tail(mFrameQueue)
    /\ mCurrentUsedByteSize' = mCurrentUsedByteSize
           - FreeByteSize(Oldest.mOffset, mFrameQueue[2].mOffset)
    /\ UNCHANGED <<mBufferSize, mCurrentOffset, mFrameCounter, gpuVars, request, regions>>

LEMMA ReclaimedIInv == IInv /\ Reclaimed => IInv'
<1> SUFFICES ASSUME IInv, Reclaimed PROVE IInv'
  OBVIOUS
<1> PICK L \in Nat : L = Len(mFrameQueue)
  BY DEF IInv, TypeOK
<1> DEFINE q == mFrameQueue
<1>1. /\ L = Len(q) /\ q \in Seq(FrameInfo) /\ q # << >> /\ L > 1
      /\ TypeOK /\ mBufferSize = BufferSize
  BY DEF IInv, TypeOK, FrameInv, Reclaimed
<1>2. /\ mFrameQueue' \in Seq(FrameInfo) /\ mFrameQueue' # << >>
      /\ Len(mFrameQueue') = L - 1
      /\ Oldest = q[1]
      /\ \A i \in 1..L - 1 : mFrameQueue'[i] = q[i + 1]
  BY <1>1, TailQueue DEF Reclaimed, Oldest
<1>3. /\ mBufferSize' = mBufferSize /\ mCurrentOffset' = mCurrentOffset
      /\ mFrameCounter' = mFrameCounter /\ request' = request
      /\ signalled' = signalled /\ completed' = completed /\ regions' = regions
  BY DEF Reclaimed, gpuVars
<1>4. PICK d \in [1..L -> Int] : Ledger(d)
  BY <1>1 DEF IInv, LedgerInv
<1>5. mCurrentUsedByteSize' = mCurrentUsedByteSize - Arc(1)
  BY <1>1, <1>2 DEF Reclaimed, Arc, NextHead
<1>6. \A i \in 1..L : Arc(i) \in 0..BufferSize
  BY <1>1, QueueFacts, FreeByteSizeRange DEF Arc
<1> DEFINE e == [i \in 1..L - 1 |-> d[i + 1]]
<1>7. \A i \in 1..L - 1 : Arc(i)' = Arc(i + 1)
  BY <1>1, <1>2, <1>3 DEF Arc, NextHead, FreeByteSize
<1>8. SumsArcs(e)'
  BY <1>1, <1>2, <1>4, <1>7 DEF SumsArcs, Ledger
<1>9. d[1] = Arc(1) + e[1] /\ e[1] \in Int /\ d[1] \in Int /\ e[1] >= 0
  <2>1. d[L] = Arc(L) /\ d[L] <= d[2] /\ d[1] = Arc(1) + d[2]
    BY <1>1, <1>4 DEF SumsArcs, Ledger
  <2>2. Arc(L) \in 0..BufferSize /\ Arc(1) \in 0..BufferSize
    BY <1>1, <1>6
  <2>3. QED
    BY <1>1, <2>1, <2>2
<1>10. Ledger(e)'
  <2>1. CASE mCurrentUsedByteSize >= d[1] + mBufferSize
    BY <1>1, <1>3, <1>5, <1>6, <1>8, <1>9, <2>1, RingBufferAssumption DEF Ledger, TypeOK
  <2>2. CASE mCurrentUsedByteSize = d[1] /\ ExactArcs(d) /\ RegionsOnArcs(d)
    <3>1. mCurrentUsedByteSize' = e[1]
      BY <1>1, <1>5, <1>6, <1>9, <2>2 DEF TypeOK
    <3>2. ExactArcs(e)'
      BY <1>1, <1>2, <1>3, <2>2 DEF ExactArcs, FreeByteSize
    <3>3. RegionsOnArcs(e)'
      BY <1>1, <1>2, <1>3, <2>2 DEF RegionsOnArcs, OnArc
    <3>4. QED
      BY <3>1, <3>2, <3>3, <1>8 DEF Ledger
  <2>3. QED
    BY <1>4, <2>1, <2>2 DEF Ledger
<1>11. LedgerInv'
  <2>1. e \in [1..Len(mFrameQueue)' -> Int]
    BY <1>1, <1>2, <1>4
  <2>2. QED
    BY <1>10, <2>1 DEF LedgerInv
<1>12. TypeOK'
  <2>1. mCurrentUsedByteSize' \in Nat
    BY <1>1, <1>4, <1>5, <1>6, <1>9, RingBufferAssumption DEF Ledger, TypeOK
  <2>2. QED
    BY <1>1, <1>2, <1>3, <2>1 DEF TypeOK
<1>13. FrameInv'
  <2>1. /\ mFrameCounter \in Nat /\ completed \in Nat
        /\ \A i \in 1..L : q[i].mFrame = mFrameCounter - L + i
        /\ mFrameCounter - L <= completed
    BY <1>1 DEF IInv, FrameInv, TypeOK
  <2>2. completed >= q[1].mFrame
    BY <1>2 DEF Reclaimed
  <2>3. mFrameCounter - (L - 1) <= completed
    BY <1>1, <2>1, <2>2
  <2>4. \A i \in 1..(L - 1) : mFrameQueue'[i].mFrame = mFrameCounter - (L - 1) + i
    BY <1>1, <1>2, <2>1
  <2>5. QED
    BY <1>1, <1>2, <1>3, <2>3, <2>4 DEF IInv, FrameInv
<1>14. RequestInv'
  BY <1>1, <1>2, <1>3 DEF IInv, RequestInv
<1>15. QED
  BY <1>11, <1>12, <1>13, <1>14 DEF IInv

LEMMA ReclaimOldestIInv == IInv /\ ReclaimOldest => IInv'
BY ReclaimedIInv DEF ReclaimOldest, Reclaimed

(* Ending the frame adds a last frame whose arc is empty. *)
LEMMA EndAndGoNextFrameIInv == IInv /\ EndAndGoNextFrame => IInv'
<1> SUFFICES ASSUME IInv, EndAndGoNextFrame PROVE IInv'
  OBVIOUS
<1> PICK L \in Nat : L = Len(mFrameQueue)
  BY DEF IInv, TypeOK
<1> DEFINE q == mFrameQueue
           last == [mFrame |-> mFrameCounter + 1, mOffset |-> mCurrentOffset]
<1>1. /\ q \in Seq(FrameInfo) /\ q # << >> /\ L = Len(q) /\ L > 0
      /\ TypeOK /\ mBufferSize = BufferSize /\ last \in FrameInfo
  <2>1. TypeOK /\ q \in Seq(FrameInfo) /\ q # << >> /\ mBufferSize = BufferSize
    BY DEF IInv, TypeOK, FrameInv, EndAndGoNextFrame
  <2>2. mFrameCounter \in Nat /\ mCurrentOffset \in 0..BufferSize
    BY DEF IInv, TypeOK
  <2>3. last \in FrameInfo
    BY <2>2 DEF FrameInfo
  <2>4. QED
    BY <2>1, <2>3, EmptySeq
<1>2. /\ mFrameQueue' \in Seq(FrameInfo) /\ mFrameQueue' # << >>
      /\ Len(mFrameQueue') = L + 1
      /\ mFrameQueue'[L + 1] = last
      /\ \A i \in 1..L : mFrameQueue'[i] = q[i]
  BY <1>1, AppendQueue DEF EndAndGoNextFrame
<1>3. /\ mBufferSize' = mBufferSize /\ mCurrentOffset' = mCurrentOffset
      /\ mCurrentUsedByteSize' = mCurrentUsedByteSize
      /\ mFrameCounter' = mFrameCounter + 1 /\ request' = 0
      /\ signalled' = mFrameCounter /\ completed' = completed /\ regions' = regions
  BY DEF EndAndGoNextFrame, ringVars
<1>4. PICK d \in [1..L -> Int] : Ledger(d)
  BY <1>1 DEF IInv, LedgerInv
<1> DEFINE e == [i \in 1..L + 1 |-> IF i = L + 1 THEN 0 ELSE d[i]]
<1>5. Arc(L + 1)' = 0 /\ \A i \in 1..L : Arc(i)' = Arc(i)
  <2>1. mCurrentOffset \in 0..BufferSize
    BY <1>1 DEF TypeOK
  <2>2. Arc(L + 1)' = 0
    BY <1>1, <1>2, <1>3, <2>1 DEF Arc, NextHead, FreeByteSize
  <2>3. \A i \in 1..L : NextHead(i)' = NextHead(i)
    BY <1>1, <1>2, <1>3 DEF NextHead
  <2>4. QED
    BY <1>1, <1>2, <1>3, <2>2, <2>3 DEF Arc, FreeByteSize
<1>6. \A i \in 1..L : Arc(i) \in 0..BufferSize
  BY <1>1, QueueFacts, FreeByteSizeRange DEF Arc
<1>7. SumsArcs(e)'
  <2>1. \A i \in 1..L : d[L] <= d[i] /\ d[L] = Arc(L)
    BY <1>1, <1>4 DEF SumsArcs, Ledger
  <2>2. Arc(L) \in 0..BufferSize
    BY <1>1, <1>6
  <2>3. \A i \in 1..L : e[i] >= 0
    BY <2>1, <2>2
  <2>4. QED
    <3>1. e \in [1..L + 1 -> Int] /\ e[L + 1] = 0
      BY <1>1, <1>4
    <3>2. \A i \in 1..L : /\ i = L => e[i] = Arc(i) + e[i + 1]
                          /\ i # L => e[i] = Arc(i) + e[i + 1]
      BY <1>1, <1>4, <1>6, <3>1 DEF SumsArcs, Ledger
    <3>3. \A i \in 1..L + 1 : /\ i = L + 1 => e[i] = Arc(i)'
                              /\ i # L + 1 => e[i] = Arc(i)' + e[i + 1]
                              /\ e[L + 1] <= e[i]
      <4> SUFFICES ASSUME NEW i \in 1..L + 1
                   PROVE  /\ i = L + 1 => e[i] = Arc(i)'
                          /\ i # L + 1 => e[i] = Arc(i)' + e[i + 1]
                          /\ e[L + 1] <= e[i]
        OBVIOUS
      <4> HIDE DEF e
      <4>1. CASE i = L + 1
        BY <1>5, <3>1, <4>1
      <4>2. CASE i # L + 1
        <5>1. i \in 1..L
          BY <4>2
        <5>2. Arc(i)' = Arc(i) /\ e[i] >= 0 /\ e[i] = Arc(i) + e[i + 1]
          BY <5>1, <1>5, <2>3, <3>2
        <5>3. QED
          BY <3>1, <4>2, <5>2
      <4>3. QED
        BY <4>1, <4>2
    <3>4. QED
      BY <1>2, <3>1, <3>3 DEF SumsArcs
<1>8. e[1] = d[1]
  BY <1>1
<1>9. Ledger(e)'
  <2>1. CASE mCurrentUsedByteSize >= d[1] + mBufferSize
    BY <1>3, <1>7, <1>8, <2>1 DEF Ledger
  <2>2. CASE mCurrentUsedByteSize = d[1] /\ ExactArcs(d) /\ RegionsOnArcs(d)
    <3>1. ExactArcs(e)'
      BY <1>1, <1>2, <1>3, <2>2 DEF ExactArcs, FreeByteSize, TypeOK
    <3>2. RegionsOnArcs(e)'
      <4>1. \A r \in regions : /\ r.frame \in Nat /\ last.mFrame \in Nat
                               /\ r.frame < last.mFrame
        BY <1>1 DEF IInv, FrameInv, TypeOK, Region
      <4>2. SUFFICES ASSUME NEW i \in 1..L + 1, NEW r \in regions,
                            e[i] < mBufferSize,
                            mFrameQueue'[i].mFrame <= r.frame
                     PROVE  OnArc(r, mFrameQueue[i].mOffset)'
        <5>1. Len(mFrameQueue)' = L + 1 /\ regions' = regions /\ mBufferSize' = mBufferSize
          BY <1>2, <1>3
        <5>2. \A i \in 1..L + 1, r \in regions :
                e[i] < mBufferSize /\ mFrameQueue'[i].mFrame <= r.frame
                    => OnArc(r, mFrameQueue[i].mOffset)'
          BY <4>2
        <5>3. QED
          BY <5>1, <5>2 DEF RegionsOnArcs
      <4>3. i # L + 1 /\ i \in 1..L
        <5>1. i = L + 1 => mFrameQueue'[i].mFrame = last.mFrame
          BY <1>2
        <5>2. QED
          BY <4>1, <4>2, <5>1
      <4>4. OnArc(r, mFrameQueue[i].mOffset)
        BY <1>1, <1>2, <2>2, <4>2, <4>3 DEF RegionsOnArcs
      <4>5. QED
        BY <1>2, <1>3, <4>3, <4>4 DEF OnArc
    <3>3. QED
      BY <1>3, <1>7, <1>8, <2>2, <3>1, <3>2 DEF Ledger
  <2>3. QED
    BY <1>4, <2>1, <2>2 DEF Ledger
<1>10. LedgerInv'
  <2>1. e \in [1..Len(mFrameQueue)' -> Int]
    BY <1>1, <1>2, <1>4
  <2>2. QED
    BY <1>9, <2>1 DEF LedgerInv
<1>11. TypeOK'
  BY <1>1, <1>2, <1>3 DEF TypeOK
<1>12. FrameInv'
  BY <1>1, <1>2, <1>3 DEF IInv, FrameInv, TypeOK, Region
<1>13. RequestInv'
  BY <1>3 DEF RequestInv
<1>14. QED
  BY <1>10, <1>11, <1>12, <1>13 DEF IInv

(* Giving the tail up lengthens the last arc by the tail, unless the last  *)
(* frame already went around: then its arc, modulo the ring, loses what    *)
(* the count gains, and the count is a ring too large from there on.  The  *)
(* tail itself may become a region of the frame.                           *)
LEMMA WrapLedger ==
    ASSUME IInv, mFrameQueue # << >>,
           mCurrentOffset' = 0,
           mCurrentUsedByteSize' =
               mCurrentUsedByteSize + (mBufferSize - mCurrentOffset),
           mBufferSize' = mBufferSize, mFrameQueue' = mFrameQueue,
           \A r \in regions' : r \in regions \/ (r \in Region /\ r.from = mCurrentOffset)
    PROVE  LedgerInv'
<1> PICK L \in Nat : L = Len(mFrameQueue)
  BY DEF IInv, TypeOK
<1>0. /\ mBufferSize = BufferSize /\ BufferSize \in Nat \ {0}
      /\ mCurrentOffset \in 0..BufferSize /\ mCurrentUsedByteSize \in Nat
  BY RingBufferAssumption DEF IInv, TypeOK, FrameInv
<1>1. /\ mFrameQueue \in Seq(FrameInfo) /\ L = Len(mFrameQueue) /\ L > 0 /\ TypeOK
  BY EmptySeq DEF IInv, TypeOK
<1>2. PICK d \in [1..L -> Int] : Ledger(d)
  BY <1>1 DEF IInv, LedgerInv
<1>3. \A i \in 1..L : /\ Arc(i) \in 0..BufferSize
                      /\ mFrameQueue[i].mOffset \in 0..BufferSize
                      /\ mFrameQueue[i].mFrame \in Nat
  BY <1>0, <1>1, QueueFacts, FreeByteSizeRange DEF Arc
<1> PICK a \in 0..BufferSize : a = mFrameQueue[L].mOffset
  <2>1. L \in 1..L
    BY <1>1
  <2>2. QED
    BY <1>3, <2>1
<1> DEFINE longer == FreeByteSize(a, 0) - FreeByteSize(a, mCurrentOffset)
<1>a. /\ FreeByteSize(a, 0) \in Int /\ FreeByteSize(a, mCurrentOffset) \in Int
      /\ \/ FreeByteSize(a, 0) = FreeByteSize(a, mCurrentOffset)
                                   + (BufferSize - mCurrentOffset)
         \/ FreeByteSize(a, 0) = FreeByteSize(a, mCurrentOffset) - mCurrentOffset
  BY <1>0, WrapArc
<1>b. longer \in Int
  BY <1>a
<1> HIDE DEF longer
<1> PICK delta \in Int : delta = longer
  BY <1>b
<1> USE DEF longer
<1> DEFINE e == [i \in 1..L |-> d[i] + delta]
<1>4. /\ Arc(L) = FreeByteSize(a, mCurrentOffset)
      /\ Arc(L)' = Arc(L) + delta
      /\ \A i \in 1..L - 1 : Arc(i)' = Arc(i)
  <2>1. Arc(L) = FreeByteSize(a, mCurrentOffset)
    BY <1>1 DEF Arc, NextHead
  <2>2. Arc(L)' = FreeByteSize(a, 0)'
    BY <1>1 DEF Arc, NextHead
  <2>3. FreeByteSize(a, 0)' = FreeByteSize(a, 0)
    BY DEF FreeByteSize
  <2>4. FreeByteSize(a, 0) \in Int /\ FreeByteSize(a, mCurrentOffset) \in Int
    BY <1>0, WrapArc
  <2>5. \A i \in 1..L - 1 : Arc(i)' = Arc(i)
    BY <1>1 DEF Arc, NextHead, FreeByteSize
  <2>6. QED
    BY <2>1, <2>2, <2>3, <2>4, <2>5
<1>5. SumsArcs(e)'
  <2>1. e \in [1..L -> Int]
    BY <1>2
  <2>2. \A i \in 1..L : /\ d[i] \in Int /\ d[L] \in Int /\ Arc(i) \in Int
                        /\ d[L] = Arc(L) /\ d[L] <= d[i]
                        /\ i # L => d[i] = Arc(i) + d[i + 1] /\ d[i + 1] \in Int
    <3> SUFFICES ASSUME NEW i \in 1..L
                 PROVE  /\ d[i] \in Int /\ d[L] \in Int /\ Arc(i) \in Int
                        /\ d[L] = Arc(L) /\ d[L] <= d[i]
                        /\ i # L => d[i] = Arc(i) + d[i + 1] /\ d[i + 1] \in Int
      OBVIOUS
    <3>1. Arc(i) \in Int /\ d[i] \in Int /\ d[L] \in Int /\ (i # L => d[i + 1] \in Int)
      <4>1. Arc(i) \in Int
        BY <1>0, <1>3
      <4>2. L \in 1..L /\ (i # L => i + 1 \in 1..L)
        BY <1>1
      <4>3. QED
        BY <4>1, <4>2
    <3>2. /\ d[L] = Arc(L) /\ d[L] <= d[i]
          /\ i # L => d[i] = Arc(i) + d[i + 1]
      BY <1>1, <1>2 DEF SumsArcs, Ledger
    <3>3. QED
      BY <3>1, <3>2
  <2>3. \A i \in 1..L : /\ i = L => e[i] = Arc(i)'
                        /\ i # L => e[i] = Arc(i)' + e[i + 1]
                        /\ e[L] <= e[i]
    <3> SUFFICES ASSUME NEW i \in 1..L
                 PROVE  /\ i = L => e[i] = Arc(i)'
                        /\ i # L => e[i] = Arc(i)' + e[i + 1]
                        /\ e[L] <= e[i]
      OBVIOUS
    <3>1. /\ e[i] = d[i] + delta /\ e[L] = d[L] + delta
          /\ i # L => e[i + 1] = d[i + 1] + delta
      BY <1>1
    <3>2. i # L => i \in 1..L - 1
      OBVIOUS
    <3>3. QED
      <4>1. CASE i = L
        BY <1>4, <2>2, <3>1, <4>1
      <4>2. CASE i # L
        <5>1. Arc(i)' = Arc(i)
          BY <1>4, <3>2, <4>2
        <5>2. QED
          <6>1. /\ d[i] = Arc(i) + d[i + 1] /\ d[i] \in Int /\ d[i + 1] \in Int
                /\ Arc(i) \in Int /\ d[L] \in Int /\ d[L] <= d[i]
            BY <2>2, <4>2
          <6>2. QED
            BY <3>1, <4>2, <5>1, <6>1
      <4>3. QED
        BY <4>1, <4>2
  <2>4. QED
    BY <1>1, <2>1, <2>3 DEF SumsArcs
<1>6. \/ delta = mBufferSize - mCurrentOffset
      \/ delta = 0 - mCurrentOffset
  BY <1>0, <1>a
<1>7. e[1] = d[1] + delta /\ d[1] \in Int
  BY <1>0, <1>1, <1>2
<1>8. Ledger(e)'
  <2>1. CASE mCurrentUsedByteSize >= d[1] + mBufferSize
    BY <1>0, <1>1, <1>5, <1>6, <1>7, <2>1 DEF Ledger
  <2>2. CASE mCurrentUsedByteSize = d[1] /\ delta = 0 - mCurrentOffset
    BY <1>0, <1>1, <1>5, <1>7, <2>2 DEF Ledger
  <2>3. CASE /\ mCurrentUsedByteSize = d[1] /\ ExactArcs(d) /\ RegionsOnArcs(d)
             /\ delta = mBufferSize - mCurrentOffset
    <3>1. ExactArcs(e)'
      <4>1. SUFFICES ASSUME NEW i \in 1..L, e[i] < BufferSize
                     PROVE  e[i] = FreeByteSize(mFrameQueue[i].mOffset, mCurrentOffset)'
        BY <1>0, <1>1 DEF ExactArcs
      <4>2. d[i] \in Int /\ e[i] = d[i] + (BufferSize - mCurrentOffset)
        BY <1>0, <1>1, <1>2, <2>3
      <4>3. d[i] = FreeByteSize(mFrameQueue[i].mOffset, mCurrentOffset)
        BY <1>0, <1>1, <2>3, <4>1, <4>2 DEF ExactArcs
      <4>4. mFrameQueue[i].mOffset \in 0..BufferSize
        BY <1>3
      <4>5. d[i] < mCurrentOffset
        BY <1>0, <4>1, <4>2
      <4>6. e[i] = FreeByteSize(mFrameQueue[i].mOffset, 0)
        <5> DEFINE h == mFrameQueue[i].mOffset
        <5>1. FreeByteSize(h, mCurrentOffset) < mCurrentOffset =>
                FreeByteSize(h, 0) = FreeByteSize(h, mCurrentOffset)
                                     + (BufferSize - mCurrentOffset)
          BY <1>0, <4>4, WrapArc
        <5>2. QED
          BY <4>2, <4>3, <4>5, <5>1
      <4>7. QED
        BY <4>6 DEF FreeByteSize
    <3>2. RegionsOnArcs(e)'
      <4>1. \A r \in regions' : r.frame \in Nat /\ r.from \in Nat /\ r.size \in Nat
        BY <1>0, <1>1 DEF TypeOK, Region
      <4>2. SUFFICES ASSUME NEW i \in 1..L, NEW r \in regions',
                            e[i] < BufferSize,
                            mFrameQueue[i].mFrame <= r.frame
                     PROVE  OnArc(r, mFrameQueue[i].mOffset)'
        BY <1>0, <1>1 DEF RegionsOnArcs
      <4>3. d[i] < BufferSize /\ d[i] \in Int /\ d[i] < mCurrentOffset
        <5>1. d[i] \in Int /\ e[i] = d[i] + (BufferSize - mCurrentOffset)
          BY <1>0, <1>1, <1>2, <2>3
        <5>2. QED
          BY <1>0, <1>1, <4>2, <5>1
      <4>4. d[i] = FreeByteSize(mFrameQueue[i].mOffset, mCurrentOffset)
        BY <1>0, <1>1, <2>3, <4>3 DEF ExactArcs
      <4>5. CASE r \in regions
        <5>1. OnArc(r, mFrameQueue[i].mOffset)
          BY <1>0, <1>1, <2>3, <4>2, <4>3, <4>5 DEF RegionsOnArcs
        <5>2. QED
          BY <1>0, <1>1, <1>3, <4>1, <4>3, <4>4, <5>1 DEF OnArc, FreeByteSize
      <4>6. CASE r.from = mCurrentOffset
        <5> DEFINE h == mFrameQueue[i].mOffset
        <5>1. h \in 0..BufferSize /\ d[i] = FreeByteSize(h, mCurrentOffset)
              /\ d[i] + (BufferSize - mCurrentOffset) < BufferSize
          BY <1>0, <1>1, <1>2, <1>3, <2>3, <4>2, <4>4
        <5> HIDE DEF h
        <5>2. h <= mCurrentOffset
          <6>1. CASE mCurrentOffset < h
            BY <1>0, <5>1, <6>1 DEF FreeByteSize
          <6>2. QED
            BY <1>0, <5>1, <6>1
        <5>4. h # 0
          <6>1. CASE h = 0
            BY <1>0, <5>1, <6>1 DEF FreeByteSize
          <6>2. QED
            BY <6>1
        <5>3. QED
          BY <1>0, <1>1, <4>6, <5>1, <5>2, <5>4 DEF OnArc, h
      <4>7. QED
        BY <4>2, <4>5, <4>6
    <3>3. QED
      BY <1>0, <1>1, <1>5, <1>7, <2>3, <3>1, <3>2 DEF Ledger
  <2>4. QED
    BY <1>2, <1>6, <2>1, <2>2, <2>3 DEF Ledger
<1>9. e \in [1..Len(mFrameQueue)' -> Int]
  BY <1>0, <1>1, <1>2
<1>10. QED
  BY <1>8, <1>9 DEF LedgerInv

(* BeginAllocate, with or without a region for the tail it gives up.       *)
Requested(size) ==
    /\ mCurrentOffset' = IF IsTail(size) THEN 0 ELSE mCurrentOffset
    /\ mCurrentUsedByteSize' = IF IsTail(size)
                               THEN mCurrentUsedByteSize + (mBufferSize - mCurrentOffset)
                               ELSE mCurrentUsedByteSize
    /\ request' = size
    /\ UNCHANGED <<mBufferSize, frameVars, gpuVars>>

TailHeld(size) ==
    /\ mFrameQueue # << >>
    /\ IsTail(size)
    /\ \E t \in Region : /\ t.from = mCurrentOffset
                         /\ t.frame = mFrameCounter
                         /\ regions' = regions \cup {t}

LEMMA RequestedIInv ==
    ASSUME NEW size \in Sizes, IInv, Requested(size),
           regions' = regions \/ TailHeld(size)
    PROVE  IInv'
<1> USE DEF frameVars, gpuVars
<1>1. /\ TypeOK /\ BufferSize \in Nat \ {0} /\ size \in Nat \ {0}
      /\ mCurrentOffset \in 0..BufferSize /\ mBufferSize \in {0, BufferSize}
  BY RingBufferAssumption DEF IInv, TypeOK
<1>2. /\ mBufferSize' = mBufferSize /\ mFrameQueue' = mFrameQueue
      /\ mFrameCounter' = mFrameCounter /\ signalled' = signalled
      /\ completed' = completed /\ request' = size
      /\ \A r \in regions' :
           \/ r \in regions
           \/ /\ r \in Region /\ r.from = mCurrentOffset /\ r.frame = mFrameCounter
              /\ mFrameQueue # << >>
  BY DEF Requested, TailHeld
<1>3. mFrameQueue = << >> =>
        mCurrentOffset' = 0 /\ mCurrentUsedByteSize' = 0 /\ regions' = regions
  BY <1>1 DEF IInv, FrameInv, Requested, TailHeld
<1>4. mBufferSize - mCurrentOffset \in Nat
  <2>1. CASE mFrameQueue = << >>
    BY <2>1 DEF IInv, FrameInv
  <2>2. CASE mFrameQueue # << >>
    BY <1>1, <2>2 DEF IInv, FrameInv
  <2>3. QED
    BY <2>1, <2>2
<1>5. TypeOK'
  <2>1. regions' \subseteq Region
    BY <1>1, <1>2 DEF TypeOK
  <2>2. QED
    BY <1>1, <1>2, <1>4, <2>1 DEF TypeOK, Requested
<1>6. FrameInv'
  <2>1. \A r \in regions' : completed' < r.frame /\ r.frame <= mFrameCounter'
    <3>1. mFrameQueue # << >> => completed < mFrameCounter
      BY <1>1 DEF IInv, FrameInv, TypeOK
    <3>2. mFrameCounter <= mFrameCounter
      BY <1>1 DEF TypeOK
    <3>3. QED
      BY <1>2, <3>1, <3>2 DEF IInv, FrameInv
  <2>2. QED
    BY <1>2, <1>3, <2>1 DEF IInv, FrameInv
<1>7. RequestInv'
  BY <1>1, <1>2 DEF RequestInv, Requested, IsTail
<1>8. LedgerInv'
  <2>1. CASE mFrameQueue = << >>
    BY <1>2, <2>1 DEF LedgerInv
  <2>2. CASE mFrameQueue # << >> /\ IsTail(size)
    BY <1>2, <2>2, WrapLedger DEF Requested
  <2>3. CASE mFrameQueue # << >> /\ ~IsTail(size)
    <3>1. regions' = regions
      BY <2>3 DEF TailHeld
    <3>2. QED
      BY <1>2, <2>3, <3>1 DEF Requested, IInv, LedgerInv, Ledger, SumsArcs, ExactArcs,
         RegionsOnArcs, OnArc, Arc, NextHead, FreeByteSize
  <2>4. QED
    BY <2>1, <2>2, <2>3
<1>9. QED
  BY <1>5, <1>6, <1>7, <1>8 DEF IInv

LEMMA BeginAllocateIInv ==
    ASSUME NEW size \in Sizes
    PROVE  IInv /\ BeginAllocate(size) => IInv'
BY RequestedIInv DEF BeginAllocate, Requested, frameVars, gpuVars

(* A successful allocation lies in the free arc in front of the cursor,    *)
(* and the count was exact.                                                *)
LEMMA FinishFacts ==
    ASSUME IInv, FinishAllocate
    PROVE  /\ mFrameQueue # << >> /\ mBufferSize = BufferSize
           /\ request \in Nat \ {0}
           /\ mCurrentOffset \in 0..BufferSize
           /\ mCurrentUsedByteSize \in Nat
           /\ mCurrentOffset + request <= BufferSize
           /\ mCurrentUsedByteSize + request <= BufferSize
           /\ Allocated \in Region
<1>1. /\ mFrameQueue # << >> /\ mBufferSize = BufferSize
      /\ request \in Nat \ {0}
      /\ mCurrentOffset \in 0..BufferSize
      /\ mCurrentUsedByteSize \in Nat
      /\ BufferSize \in Nat \ {0}
      /\ mFrameCounter \in Nat
  BY RingBufferAssumption DEF FinishAllocate, IsFill, IInv, FrameInv, TypeOK
<1>2. mCurrentUsedByteSize + request <= BufferSize
  BY <1>1 DEF FinishAllocate, IsFill
<1>3. mCurrentOffset + request <= BufferSize
  BY <1>1, <1>2 DEF IInv, RequestInv
<1>4. QED
  BY <1>1, <1>2, <1>3 DEF Allocated, Region

LEMMA FinishLedger ==
    ASSUME IInv, FinishAllocate
    PROVE  LedgerInv'
<1> PICK L \in Nat : L = Len(mFrameQueue)
  BY DEF IInv, TypeOK
<1> DEFINE c == mCurrentOffset
<1>0. /\ mBufferSize = BufferSize /\ BufferSize \in Nat \ {0}
      /\ c \in 0..BufferSize /\ mCurrentUsedByteSize \in Nat
      /\ request \in Nat \ {0}
      /\ c + request <= BufferSize
      /\ mCurrentUsedByteSize + request <= BufferSize
  BY FinishFacts, RingBufferAssumption
<1>1. /\ mFrameQueue \in Seq(FrameInfo) /\ L = Len(mFrameQueue) /\ L > 0
      /\ mFrameQueue # << >> /\ TypeOK
  BY FinishFacts, EmptySeq DEF IInv, TypeOK
<1>2. /\ mBufferSize' = mBufferSize /\ mFrameQueue' = mFrameQueue
      /\ mCurrentOffset' = c + request
      /\ mCurrentUsedByteSize' = mCurrentUsedByteSize + request
      /\ regions' = regions \cup {Allocated}
  BY DEF FinishAllocate, frameVars
<1>3. PICK d \in [1..L -> Int] : Ledger(d)
  BY <1>1 DEF IInv, LedgerInv
<1>4. \A i \in 1..L : /\ Arc(i) \in 0..BufferSize
                      /\ mFrameQueue[i].mOffset \in 0..BufferSize
                      /\ d[i] \in Int
                      /\ Arc(L) = d[L] /\ d[L] <= d[i]
                      /\ i # L => d[i] = Arc(i) + d[i + 1]
  <2>1. \A i \in 1..L : Arc(i) \in 0..BufferSize /\ mFrameQueue[i].mOffset \in 0..BufferSize
    BY <1>0, <1>1, QueueFacts, FreeByteSizeRange DEF Arc
  <2>2. QED
    <3>1. SumsArcs(d) /\ L \in 1..L
      BY <1>1, <1>3 DEF Ledger
    <3>2. QED
      BY <1>1, <1>3, <2>1, <3>1 DEF SumsArcs
<1>5. 1 \in 1..L /\ L \in 1..L
  BY <1>1
<1>6. mCurrentUsedByteSize = d[1] /\ ExactArcs(d) /\ RegionsOnArcs(d)
  <2>1. d[1] >= 0 /\ d[1] \in Int
    BY <1>4, <1>5
  <2>2. mCurrentUsedByteSize < d[1] + mBufferSize
    BY <1>0, <2>1
  <2>3. QED
    BY <1>0, <1>3, <2>1, <2>2 DEF Ledger
<1> PICK a \in 0..BufferSize : a = mFrameQueue[L].mOffset
  BY <1>4, <1>5
<1>7. Arc(L) = FreeByteSize(a, c) /\ Arc(L)' = FreeByteSize(a, c + request)
  BY <1>1, <1>2 DEF Arc, NextHead, FreeByteSize
<1>8. /\ Arc(L)' \in Int
      /\ Arc(L)' = Arc(L) + request \/ Arc(L)' = Arc(L) + request - BufferSize
  <2>1. Arc(L) + request <= BufferSize
    BY <1>0, <1>4, <1>5, <1>6
  <2>2. QED
    BY <1>0, <1>7, <2>1, GrowArc
<1> PICK delta \in Int : Arc(L)' = Arc(L) + delta
                        /\ (delta = request \/ delta = request - BufferSize)
  <2>1. request \in Int /\ request - BufferSize \in Int /\ Arc(L) \in Int
    BY <1>0, <1>4, <1>5
  <2>2. CASE Arc(L)' = Arc(L) + request
    BY <2>1, <2>2
  <2>3. CASE Arc(L)' = Arc(L) + request - BufferSize
    <3>1. Arc(L)' = Arc(L) + (request - BufferSize)
      BY <1>0, <2>1, <2>3
    <3>2. QED
      BY <2>1, <3>1
  <2>4. QED
    BY <1>8, <2>2, <2>3
<1> DEFINE e == [i \in 1..L |-> d[i] + delta]
<1>9. /\ e \in [1..L -> Int]
      /\ \A i \in 1..L : e[i] = d[i] + delta
      /\ e[1] = d[1] + delta
  BY <1>4, <1>5
<1>10. SumsArcs(e)'
  <2>1. \A i \in 1..L - 1 : Arc(i)' = Arc(i)
    BY <1>1, <1>2 DEF Arc, NextHead, FreeByteSize
  <2>2. \A i \in 1..L : /\ i = L => e[i] = Arc(i)'
                        /\ i # L => e[i] = Arc(i)' + e[i + 1]
                        /\ e[L] <= e[i]
    <3> SUFFICES ASSUME NEW i \in 1..L
                 PROVE  /\ i = L => e[i] = Arc(i)'
                        /\ i # L => e[i] = Arc(i)' + e[i + 1]
                        /\ e[L] <= e[i]
      OBVIOUS
    <3>1. /\ e[i] = d[i] + delta /\ e[L] = d[L] + delta
          /\ d[i] \in Int /\ d[L] \in Int /\ Arc(L) = d[L] /\ d[L] <= d[i]
      BY <1>4, <1>5, <1>9
    <3>2. CASE i = L
      BY <3>1, <3>2
    <3>3. CASE i # L
      <4>1. i \in 1..L - 1 /\ i + 1 \in 1..L
        BY <3>3
      <4>2. /\ e[i + 1] = d[i + 1] + delta /\ d[i + 1] \in Int
            /\ Arc(i)' = Arc(i) /\ Arc(i) \in Int
            /\ d[i] = Arc(i) + d[i + 1]
        BY <1>4, <1>9, <2>1, <3>3, <4>1
      <4>3. QED
        BY <3>1, <3>3, <4>2
    <3>4. QED
      BY <3>2, <3>3
  <2>3. QED
    BY <1>1, <1>2, <1>9, <2>2 DEF SumsArcs
<1>11. CASE delta = request - BufferSize
  <2>1. mCurrentUsedByteSize' >= e[1] + mBufferSize'
    BY <1>0, <1>2, <1>6, <1>9, <1>11
  <2>2. Ledger(e)'
    BY <1>10, <2>1 DEF Ledger
  <2>3. QED
    BY <1>1, <1>2, <1>9, <2>2 DEF LedgerInv
<1>12. CASE delta = request
  <2>1. mCurrentUsedByteSize' = e[1]
    BY <1>2, <1>6, <1>9, <1>12
  <2>2. ASSUME NEW i \in 1..L, e[i] < BufferSize
        PROVE  LET h == mFrameQueue[i].mOffset
               IN  /\ d[i] < BufferSize
                   /\ e[i] = FreeByteSize(h, c + request)
                   /\ h \in 0..BufferSize
                   /\ c < h => c + request < h
    <3> DEFINE h == mFrameQueue[i].mOffset
    <3>1. d[i] \in Int /\ h \in 0..BufferSize /\ d[i] + request < BufferSize
      BY <1>4, <1>9, <1>12, <2>2
    <3>2. d[i] < BufferSize
      BY <1>0, <3>1
    <3>3. d[i] = FreeByteSize(h, c)
      BY <1>0, <1>1, <1>6, <3>2 DEF ExactArcs
    <3>4. FreeByteSize(h, c) + request < BufferSize
      BY <3>1, <3>3
    <3>5. /\ FreeByteSize(h, c + request) = FreeByteSize(h, c) + request
          /\ c < h => c + request < h
      <4>1. FreeByteSize(h, c) + request <= BufferSize
        BY <1>0, <3>1, <3>3
      <4>2. QED
        BY <1>0, <3>1, <3>4, <4>1, GrowArc
    <3>6. QED
      BY <1>9, <1>12, <3>1, <3>2, <3>3, <3>5
  <2>3. ExactArcs(e)'
    <3>1. \A i \in 1..L : e[i] < BufferSize =>
             e[i] = FreeByteSize(mFrameQueue[i].mOffset, c + request)
      BY <2>2
    <3>2. QED
      BY <1>0, <1>1, <1>2, <3>1 DEF ExactArcs, FreeByteSize
  <2>4. RegionsOnArcs(e)'
    <3>1. SUFFICES ASSUME NEW i \in 1..L, NEW r \in regions \cup {Allocated},
                          e[i] < BufferSize,
                          mFrameQueue[i].mFrame <= r.frame
                   PROVE  OnArc(r, mFrameQueue[i].mOffset)'
      BY <1>0, <1>1, <1>2 DEF RegionsOnArcs
    <3> DEFINE h == mFrameQueue[i].mOffset
    <3>2. /\ h \in 0..BufferSize /\ d[i] < BufferSize
          /\ c < h => c + request < h
      BY <2>2, <3>1
    <3>3. SUFFICES IF h <= c + request
                   THEN h <= r.from /\ r.from + r.size <= c + request
                   ELSE r.from + r.size <= c + request \/ h <= r.from
      BY <1>2 DEF OnArc
    <3>4. CASE r = Allocated
      <4>1. r.from = c /\ r.size = request
        BY <3>4 DEF Allocated
      <4>2. QED
        BY <1>0, <3>2, <4>1
    <3>5. CASE r \in regions
      <4>1. OnArc(r, h)
        BY <1>0, <1>1, <1>6, <3>1, <3>2, <3>5 DEF RegionsOnArcs
      <4>2. r.from \in Nat /\ r.size \in Nat
        BY <1>1, <3>5 DEF TypeOK, Region
      <4>3. QED
        BY <1>0, <3>2, <4>1, <4>2 DEF OnArc
    <3>6. QED
      BY <3>1, <3>4, <3>5
  <2>5. Ledger(e)'
    BY <1>10, <2>1, <2>3, <2>4 DEF Ledger
  <2>6. QED
    BY <1>1, <1>2, <1>9, <2>5 DEF LedgerInv
<1>13. QED
  BY <1>11, <1>12

LEMMA FinishAllocateIInv == IInv /\ FinishAllocate => IInv'
<1> SUFFICES ASSUME IInv, FinishAllocate PROVE IInv'
  OBVIOUS
<1>1. /\ mFrameQueue # << >> /\ Allocated \in Region
      /\ mCurrentOffset + request \in 0..BufferSize
      /\ mCurrentUsedByteSize + request \in Nat
  BY FinishFacts, RingBufferAssumption
<1>2. TypeOK'
  BY <1>1 DEF IInv, TypeOK, FinishAllocate, frameVars, gpuVars
<1>3. FrameInv'
  <2>1. completed < Allocated.frame /\ Allocated.frame <= mFrameCounter
    BY <1>1 DEF IInv, FrameInv, TypeOK, Allocated
  <2>2. QED
    BY <1>1, <2>1 DEF IInv, FrameInv, FinishAllocate, frameVars, gpuVars
<1>4. RequestInv'
  BY DEF FinishAllocate, RequestInv
<1>5. QED
  BY <1>2, <1>3, <1>4, FinishLedger DEF IInv
-----------------------------------------------------------------------------
LEMMA NextIInv == IInv /\ [Next]_vars => IInv'
<1> SUFFICES ASSUME IInv, [Next]_vars PROVE IInv'
  OBVIOUS
<1>1. CASE \E size \in Sizes : BeginAllocate(size)
  BY <1>1, BeginAllocateIInv
<1>2. CASE ReclaimOldest
  BY <1>2, ReclaimOldestIInv
<1>3. CASE ThrowFull
  BY <1>3, ThrowFullIInv
<1>4. CASE FinishAllocate
  BY <1>4, FinishAllocateIInv
<1>5. CASE EndAndGoNextFrame
  BY <1>5, EndAndGoNextFrameIInv
<1>6. CASE Clear
  BY <1>6, ClearIInv
<1>7. CASE InitBuffer
  BY <1>7, InitBufferIInv
<1>8. CASE GpuCompletes
  BY <1>8, GpuCompletesIInv
<1>9. CASE UNCHANGED vars
  BY <1>9 DEF vars, ringVars, frameVars, gpuVars, IInv, TypeOK, FrameInv, RequestInv,
     LedgerInv, Ledger, SumsArcs, ExactArcs, RegionsOnArcs, OnArc, Arc, NextHead,
     FreeByteSize
<1>10. QED
  BY <1>1, <1>2, <1>3, <1>4, <1>5, <1>6, <1>7, <1>8, <1>9 DEF Next

(* The ledger of the ring is kept by every method and by the GPU: the      *)
(* byte count is the length of the queued frames' arcs, or a whole ring    *)
(* more.                                                                   *)
THEOREM RingInvariant == Spec => []IInv
BY InitIInv, NextIInv, PTL DEF Spec

(* Every variable of the ring stays in its type; the byte count, an        *)
(* unsigned subtraction in the code, never goes below 0.                   *)
THEOREM RingTypeOK == Spec => []TypeOK
<1>1. IInv => TypeOK
  BY DEF IInv
<1>2. QED
  BY <1>1, RingInvariant, PTL

(* A region the GPU may read belongs to a frame still queued, and a wait   *)
(* on the oldest of several frames is for a value that was signalled.      *)
THEOREM RingQueueCoversGpu == Spec => []QueueCoversGpu
<1>1. IInv => QueueCoversGpu
  <2> SUFFICES ASSUME IInv PROVE QueueCoversGpu
    OBVIOUS
  <2>1. /\ TypeOK /\ mFrameQueue \in Seq(FrameInfo) /\ Len(mFrameQueue) \in Nat
        /\ DOMAIN mFrameQueue = 1..Len(mFrameQueue)
    BY DEF IInv, TypeOK
  <2>2. ASSUME NEW r \in regions
        PROVE  \E i \in DOMAIN mFrameQueue : mFrameQueue[i].mFrame = r.frame
    <3> DEFINE i == r.frame - (mFrameCounter - Len(mFrameQueue))
    <3>1. i \in 1..Len(mFrameQueue)
      BY <2>1 DEF IInv, FrameInv, TypeOK, Region
    <3>2. mFrameQueue[i].mFrame = r.frame
      BY <2>1, <3>1 DEF IInv, FrameInv, TypeOK, Region
    <3>3. QED
      BY <2>1, <3>1, <3>2
  <2>3. Len(mFrameQueue) > 1 => Oldest.mFrame <= signalled
    <3> SUFFICES ASSUME Len(mFrameQueue) > 1 PROVE Oldest.mFrame <= signalled
      OBVIOUS
    <3>1. Oldest = mFrameQueue[1] /\ mFrameQueue # << >>
      BY <2>1, TailQueue DEF Oldest
    <3>2. QED
      BY <2>1, <3>1 DEF IInv, FrameInv, TypeOK
  <2>4. QED
    BY <2>2, <2>3 DEF QueueCoversGpu
<1>2. QED
  BY <1>1, RingInvariant, PTL

(* While the ring has room for a request, the units in front of the cursor *)
(* hold no region the GPU may read.                                        *)
LEMMA AllocatedIsFree ==
    ASSUME IInv, FinishAllocate, NEW r \in regions
    PROVE  Disjoint(r, Allocated)
<1>0. /\ mBufferSize = BufferSize /\ BufferSize \in Nat \ {0}
      /\ mCurrentOffset \in 0..BufferSize /\ mCurrentUsedByteSize \in Nat
      /\ request \in Nat \ {0}
      /\ mCurrentOffset + request <= BufferSize
      /\ mCurrentUsedByteSize + request <= BufferSize
      /\ mFrameQueue # << >>
  BY FinishFacts, RingBufferAssumption
<1> PICK L \in Nat : L = Len(mFrameQueue)
  BY DEF IInv, TypeOK
<1>1. L > 0 /\ 1 \in 1..L /\ L \in 1..L /\ TypeOK
  BY <1>0, EmptySeq DEF IInv, TypeOK
<1>2. PICK d \in [1..L -> Int] : Ledger(d)
  BY <1>0 DEF IInv, LedgerInv
<1>3. d[1] \in Int /\ d[L] \in Int /\ d[L] <= d[1] /\ d[L] = Arc(L)
  BY <1>1, <1>2 DEF Ledger, SumsArcs
<1>4. Arc(L) \in 0..BufferSize /\ mFrameQueue[1].mOffset \in 0..BufferSize
  BY <1>0, <1>1, QueueFacts, FreeByteSizeRange DEF Arc
<1>5. mCurrentUsedByteSize = d[1] /\ ExactArcs(d) /\ RegionsOnArcs(d)
  <2>1. mCurrentUsedByteSize < d[1] + mBufferSize
    BY <1>0, <1>3, <1>4
  <2>2. QED
    BY <1>0, <1>2, <1>3, <2>1 DEF Ledger
<1>6. d[1] < mBufferSize
  BY <1>0, <1>5
<1> DEFINE h == mFrameQueue[1].mOffset
<1>7. mCurrentUsedByteSize = FreeByteSize(h, mCurrentOffset)
  BY <1>1, <1>5, <1>6 DEF ExactArcs
<1>8. r.from \in Nat /\ r.size \in Nat /\ r.frame \in Nat
  BY <1>1 DEF TypeOK, Region
<1>9. mFrameQueue[1].mFrame <= r.frame
  BY <1>1, <1>8 DEF IInv, FrameInv, TypeOK
<1>10. OnArc(r, h)
  BY <1>1, <1>5, <1>6, <1>9 DEF RegionsOnArcs
<1>11. Allocated.from = mCurrentOffset /\ Allocated.size = request
  BY DEF Allocated
<1>12. QED
  <2>1. CASE h <= mCurrentOffset
    <3>1. r.from + r.size <= mCurrentOffset
      BY <1>10, <2>1 DEF OnArc
    <3>2. QED
      BY <1>11, <3>1 DEF Disjoint
  <2>2. CASE mCurrentOffset < h
    <3>1. mCurrentOffset + request <= h
      BY <1>0, <1>4, <1>7, <2>2 DEF FreeByteSize
    <3>2. r.from + r.size <= mCurrentOffset \/ h <= r.from
      BY <1>0, <1>4, <1>10, <2>2 DEF OnArc
    <3>3. QED
      BY <1>0, <1>4, <1>8, <1>11, <3>1, <3>2 DEF Disjoint
  <2>3. QED
    BY <1>0, <1>4, <2>1, <2>2

(* While less is in use than lies below the cursor, nothing that the GPU   *)
(* may read lies above it.                                                 *)
LEMMA RegionsBelowCursor ==
    ASSUME IInv, mFrameQueue # << >>, mCurrentUsedByteSize < mCurrentOffset,
           NEW r \in regions
    PROVE  r.from + r.size <= mCurrentOffset
<1>0. /\ mBufferSize = BufferSize /\ BufferSize \in Nat \ {0}
      /\ mCurrentOffset \in 0..BufferSize /\ mCurrentUsedByteSize \in Nat
  BY RingBufferAssumption DEF IInv, FrameInv, TypeOK
<1> PICK L \in Nat : L = Len(mFrameQueue)
  BY DEF IInv, TypeOK
<1>1. L > 0 /\ 1 \in 1..L /\ L \in 1..L /\ TypeOK
  BY <1>0, EmptySeq DEF IInv, TypeOK
<1>2. PICK d \in [1..L -> Int] : Ledger(d)
  BY <1>0 DEF IInv, LedgerInv
<1>3. d[1] \in Int /\ d[L] \in Int /\ d[L] <= d[1] /\ d[L] = Arc(L)
  BY <1>1, <1>2 DEF Ledger, SumsArcs
<1>4. Arc(L) \in 0..BufferSize /\ mFrameQueue[1].mOffset \in 0..BufferSize
  BY <1>0, <1>1, QueueFacts, FreeByteSizeRange DEF Arc
<1>5. mCurrentUsedByteSize = d[1] /\ ExactArcs(d) /\ RegionsOnArcs(d)
  <2>1. mCurrentUsedByteSize < d[1] + mBufferSize
    BY <1>0, <1>3, <1>4
  <2>2. QED
    BY <1>0, <1>2, <1>3, <2>1 DEF Ledger
<1>6. d[1] < mBufferSize
  BY <1>0, <1>5
<1> DEFINE h == mFrameQueue[1].mOffset
<1>7. mCurrentUsedByteSize = FreeByteSize(h, mCurrentOffset)
  BY <1>1, <1>5, <1>6 DEF ExactArcs
<1>8. r.frame \in Nat
  BY <1>1 DEF TypeOK, Region
<1>9. mFrameQueue[1].mFrame <= r.frame
  BY <1>1, <1>8 DEF IInv, FrameInv, TypeOK
<1>10. OnArc(r, h)
  BY <1>1, <1>5, <1>6, <1>9 DEF RegionsOnArcs
<1>11. h <= mCurrentOffset
  BY <1>0, <1>4, <1>7 DEF FreeByteSize
<1>12. QED
  BY <1>10, <1>11 DEF OnArc

(* A frame that has allocated and whose head is at the cursor has gone     *)
(* around the whole ring: the count is a ring too large.                   *)
LEMMA OnceAround ==
    ASSUME IInv, NEW r \in regions, r.frame = mFrameCounter, r.size > 0,
           Current.mOffset = mCurrentOffset
    PROVE  \E d \in [1..Len(mFrameQueue) -> Int] :
             SumsArcs(d) /\ mCurrentUsedByteSize >= d[1] + mBufferSize
<1>0. /\ mBufferSize = BufferSize /\ BufferSize \in Nat \ {0} /\ mFrameQueue # << >>
      /\ mCurrentOffset \in 0..BufferSize
  BY RingBufferAssumption DEF IInv, FrameInv, TypeOK
<1> PICK L \in Nat : L = Len(mFrameQueue)
  BY DEF IInv, TypeOK
<1>1. L > 0 /\ L \in 1..L /\ TypeOK
  BY <1>0, EmptySeq DEF IInv, TypeOK
<1>2. PICK d \in [1..L -> Int] : Ledger(d)
  BY <1>0 DEF IInv, LedgerInv
<1>3. d[L] = Arc(L) /\ SumsArcs(d)
  BY <1>1, <1>2 DEF Ledger, SumsArcs
<1>4. mFrameQueue[L].mOffset = mCurrentOffset /\ mFrameQueue[L].mFrame = mFrameCounter
  BY <1>1 DEF Current, IInv, FrameInv, TypeOK
<1>5. d[L] = 0
  BY <1>0, <1>1, <1>3, <1>4 DEF Arc, NextHead, FreeByteSize
<1>6. r.from \in Nat /\ r.size \in Nat /\ mFrameCounter \in Nat
  BY <1>1 DEF TypeOK, Region
<1>7. ~RegionsOnArcs(d)
  <2>1. ~OnArc(r, mCurrentOffset)
    BY <1>0, <1>6 DEF OnArc
  <2>2. mFrameQueue[L].mFrame <= r.frame /\ d[L] < mBufferSize
    BY <1>0, <1>4, <1>5, <1>6
  <2>3. QED
    BY <1>1, <1>4, <2>1, <2>2 DEF RegionsOnArcs
<1>8. QED
  BY <1>2, <1>3, <1>7 DEF Ledger

(* A region that is larger than the ring lies on no arc: with one of the   *)
(* current frame the count is a whole ring or more, for good.              *)
LEMMA Overfull ==
    ASSUME IInv, NEW r \in regions,
           r.frame = mFrameCounter, r.from = 0, r.size > BufferSize
    PROVE  mCurrentUsedByteSize >= mBufferSize
<1>0. /\ mBufferSize = BufferSize /\ BufferSize \in Nat \ {0} /\ mFrameQueue # << >>
      /\ mCurrentOffset \in 0..BufferSize /\ mCurrentUsedByteSize \in Nat
  BY RingBufferAssumption DEF IInv, FrameInv, TypeOK
<1> PICK L \in Nat : L = Len(mFrameQueue)
  BY DEF IInv, TypeOK
<1>1. L > 0 /\ 1 \in 1..L /\ L \in 1..L /\ TypeOK
  BY <1>0, EmptySeq DEF IInv, TypeOK
<1>2. PICK d \in [1..L -> Int] : Ledger(d)
  BY <1>0 DEF IInv, LedgerInv
<1>3. d[1] \in Int /\ d[L] \in Int /\ d[L] <= d[1] /\ d[L] = Arc(L)
  BY <1>1, <1>2 DEF Ledger, SumsArcs
<1>4. Arc(L) \in 0..BufferSize /\ mFrameQueue[L].mOffset \in 0..BufferSize
  BY <1>0, <1>1, QueueFacts, FreeByteSizeRange DEF Arc
<1>5. mFrameQueue[L].mFrame = mFrameCounter /\ mFrameCounter \in Nat /\ r.size \in Nat
  BY <1>1 DEF IInv, FrameInv, TypeOK, Region
<1>6. ~OnArc(r, mFrameQueue[L].mOffset)
  BY <1>0, <1>4, <1>5 DEF OnArc
<1>7. CASE mCurrentUsedByteSize >= d[1] + mBufferSize
  BY <1>0, <1>3, <1>4, <1>7
<1>8. CASE mCurrentUsedByteSize = d[1] /\ RegionsOnArcs(d)
  <2>1. d[L] >= mBufferSize
    BY <1>0, <1>1, <1>3, <1>5, <1>6, <1>8 DEF RegionsOnArcs
  <2>2. QED
    BY <1>0, <1>3, <1>8, <2>1
<1>9. QED
  BY <1>2, <1>7, <1>8 DEF Ledger

(* No allocation overwrites what the GPU may still read, nor leaves the    *)
(* buffer, whatever was allocated, refused or ended before.                *)
THEOREM RingNoOverwrite == Spec => NoOverwrite
<1>1. IInv /\ [Next]_vars =>
        [FinishAllocate => /\ \A r \in regions : Disjoint(r, Allocated)
                           /\ mCurrentOffset + request <= mBufferSize]_vars
  BY AllocatedIsFree, FinishFacts
<1>2. QED
  BY <1>1, RingInvariant, PTL DEF Spec, NoOverwrite

(* clear and init release nothing that the GPU still runs of an ended      *)
(* frame.                                                                  *)
LEMMA ResetIsQuiet ==
    ASSUME IInv, ClearMayGo
    PROVE  completed = signalled
<1>1. /\ TypeOK /\ mFrameQueue \in Seq(FrameInfo) /\ Len(mFrameQueue) \in Nat
      /\ completed \in Nat /\ signalled \in Nat /\ mFrameCounter \in Nat
      /\ completed <= signalled
      /\ mFrameCounter - Len(mFrameQueue) <= completed
  BY DEF IInv, TypeOK, FrameInv
<1>2. CASE mFrameQueue = << >>
  BY <1>2 DEF IInv, FrameInv
<1>3. CASE mFrameQueue # << >>
  <2>1. Len(mFrameQueue) > 0 /\ signalled = mFrameCounter - 1
    BY <1>1, <1>3, EmptySeq DEF IInv, FrameInv
  <2>2. Current.mFrame = mFrameCounter
    BY <1>1, <2>1 DEF IInv, FrameInv, Current
  <2>3. QED
    BY <1>1, <2>1, <2>2 DEF ClearMayGo
<1>4. QED
  BY <1>2, <1>3

THEOREM RingClearAfterGpu == Spec => ClearAfterGpu
<1>1. IInv /\ [Next]_vars => [Clear \/ InitBuffer => completed = signalled]_vars
  BY ResetIsQuiet DEF Clear, InitBuffer
<1>2. QED
  BY <1>1, RingInvariant, PTL DEF Spec, ClearAfterGpu
-----------------------------------------------------------------------------
LEMMA RefinesInit == Init => Allocator!Init
BY DEF Init, Allocator!Init

LEMMA RefinesNext == IInv /\ [Next]_vars => [Allocator!Next]_(Allocator!vars)
<1> SUFFICES ASSUME IInv, [Next]_vars
             PROVE  Allocator!Next \/ UNCHANGED Allocator!vars
  OBVIOUS
<1> USE DEF ringVars, frameVars, gpuVars, Allocator!vars
<1>1. CASE \E size \in Sizes : BeginAllocate(size)
  BY <1>1 DEF BeginAllocate
<1>2. CASE ReclaimOldest
  BY <1>2 DEF ReclaimOldest
<1>3. CASE ThrowFull
  BY <1>3 DEF ThrowFull
<1>4. CASE FinishAllocate
  <2>1. \A r \in regions : Allocator!Apart(r, Allocated)
    BY <1>4, AllocatedIsFree DEF Disjoint, Allocator!Apart
  <2>2. /\ mCurrentOffset \in 0..BufferSize /\ request \in Sizes
        /\ mCurrentOffset + request <= mBufferSize
    BY <1>4, FinishFacts DEF FinishAllocate, IInv, TypeOK
  <2>3. Allocator!Allocate
    BY <1>4, <2>1, <2>2 DEF FinishAllocate, Allocated, Allocator!Allocate
  <2>4. QED
    BY <2>3 DEF Allocator!Next
<1>5. CASE EndAndGoNextFrame
  <2>1. mBufferSize # 0
    BY <1>5, RingBufferAssumption DEF EndAndGoNextFrame, IInv, FrameInv
  <2>2. QED
    BY <1>5, <2>1 DEF EndAndGoNextFrame, Allocator!EndFrame, Allocator!Next
<1>6. CASE Clear
  BY <1>6, ResetIsQuiet DEF Clear, Allocator!Reset, Allocator!Next
<1>7. CASE InitBuffer
  BY <1>7, ResetIsQuiet DEF InitBuffer, Allocator!Reset, Allocator!Next
<1>8. CASE GpuCompletes
  BY <1>8 DEF GpuCompletes, Allocator!Complete, Allocator!Next
<1>9. CASE UNCHANGED vars
  BY <1>9 DEF vars
<1>10. QED
  BY <1>1, <1>2, <1>3, <1>4, <1>5, <1>6, <1>7, <1>8, <1>9 DEF Next

(* The ring implements the frame allocator. *)
THEOREM RingImplementsAllocator == Spec => ImplementsAllocator
BY RefinesInit, RefinesNext, RingInvariant, PTL
   DEF Spec, ImplementsAllocator, Allocator!Spec
=============================================================================
