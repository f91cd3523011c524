----------------------- MODULE FrameDataManagerProofs -----------------------
(***************************************************************************)
(* Proofs about FrameDataManager for every number of slots.                *)
(*                                                                         *)
(* A slot's mark is the last value that was signalled for it.  That a wait *)
(* for the mark frees the slot's data needs only that no frame that still  *)
(* uses the slot has a higher number.  That the owner stays less than      *)
(* FrameCount frames ahead of the GPU needs more: the mark of every slot   *)
(* is one of the last FrameCount frames, and the one that belongs there.   *)
(***************************************************************************)
EXTENDS FrameDataManager, TLAPS

cur == manager.mCurrentFrame
Mark(i) == manager.mFrames[i]

(* A fence that is good counts the frames that were ended; the marks are   *)
(* theirs.                                                                 *)
CountInv ==
    /\ pc # "idle" \/ waited => good
    /\ good => signalled = cur
    /\ ~good => manager = NoFrames /\ signalled = 0
    /\ good => manager.mFrames \in [1..FrameCount -> 0..cur]
    /\ good /\ cur > 0 => PrevMark(manager) = cur

(* What uses the data of a slot is not complete and not newer than the     *)
(* slot's mark.                                                            *)
UseInv ==
    \A i \in 1..FrameCount : \A f \in inUse[i] :
        good /\ completed < f /\ f <= Mark(i)

(* The mark of slot i is a frame that used slot i, one of the last         *)
(* FrameCount; a slot without a mark has not had its turn yet.             *)
RoundInv ==
    good => \A i \in 1..FrameCount :
        IF Mark(i) = 0
        THEN cur < i
        ELSE cur < Mark(i) + FrameCount /\ (Mark(i) - 1) % FrameCount = i - 1

IInv == TypeOK /\ CountInv /\ UseInv /\ RoundInv /\ FramesInFlight
-----------------------------------------------------------------------------
(* Arithmetic of the slots going round. *)
LEMMA ModRange ==
    ASSUME NEW n \in Nat \ {0}, NEW a \in Nat
    PROVE  /\ a % n \in 0..(n - 1)
           /\ a < n => a % n = a
OBVIOUS

LEMMA SmallMultiple ==
    ASSUME NEW n \in Nat \ {0}, NEW k \in Int, NEW d \in Int,
           n * k = d, -n < d, d < n
    PROVE  d = 0
<1>1. CASE k >= 1
  <2>1. PICK j \in Nat : k = j + 1
    BY <1>1
  <2>2. n * k = n * j + n
    BY <2>1
  <2>3. n * j >= 0
    OBVIOUS
  <2> QED BY <2>2, <2>3
<1>2. CASE k = 0
  BY <1>2
<1>3. CASE k <= -1
  <2>1. PICK j \in Nat : k = -j - 1
    BY <1>3
  <2>2. n * k = -(n * j) - n
    BY <2>1
  <2>3. n * j >= 0
    OBVIOUS
  <2> QED BY <2>2, <2>3
<1> QED BY <1>1, <1>2, <1>3

(* A frame and the one n later share a slot. *)
LEMMA ModShift ==
    ASSUME NEW n \in Nat \ {0}, NEW a \in Nat
    PROVE  (a + n) % n = a % n
<1> DEFINE q == a \div n
           p == (a + n) \div n
           r == a % n
           s == (a + n) % n
           x == n * q
           y == n * p
<1>1. q \in Int /\ p \in Int /\ r \in 0..(n - 1) /\ s \in 0..(n - 1)
  OBVIOUS
<1>2. a = x + r /\ a + n = y + s
  OBVIOUS
<1>3. x \in Int /\ y \in Int
  BY <1>1
<1>4. n * (p - q - 1) = y - x - n
  BY <1>1
<1> HIDE DEF q, p, r, s, x, y
<1>5. y - x - n = r - s
  BY <1>1, <1>2, <1>3
<1>6. n * (p - q - 1) = r - s
  BY <1>4, <1>5
<1>7. r - s = 0
  <2>1. r - s \in Int /\ -n < r - s /\ r - s < n /\ p - q - 1 \in Int
    BY <1>1
  <2> QED BY <1>6, <2>1, SmallMultiple
<1> QED BY <1>1, <1>7 DEF r, s

(* While the manager is good its slots are 1..FrameCount and its indices   *)
(* are among them.                                                         *)
LEMMA SlotFacts ==
    ASSUME TypeOK, good
    PROVE  /\ Len(manager.mFrames) = FrameCount
           /\ cur \in Nat
           /\ manager.mFrames \in [1..FrameCount -> Nat]
           /\ currentFrameIndex(manager) = cur % FrameCount
           /\ currentFrameIndex(manager) + 1 \in 1..FrameCount
           /\ prevFrameIndex(manager) =
                  (IF cur = 0 THEN 0 ELSE cur - 1) % FrameCount
           /\ prevFrameIndex(manager) + 1 \in 1..FrameCount
<1>1. /\ Len(manager.mFrames) = FrameCount
      /\ cur \in Nat
      /\ manager.mFrames \in [1..FrameCount -> Nat]
  BY FrameDataAssumption DEF TypeOK, cur
<1>2. cur % FrameCount \in 0..(FrameCount - 1)
  BY <1>1, ModRange, FrameDataAssumption
<1>3. (IF cur = 0 THEN 0 ELSE cur - 1) \in Nat
  BY <1>1
<1>4. (IF cur = 0 THEN 0 ELSE cur - 1) % FrameCount \in 0..(FrameCount - 1)
  BY <1>3, ModRange, FrameDataAssumption
<1>5. QED
  BY <1>1, <1>2, <1>4, FrameDataAssumption DEF currentFrameIndex, prevFrameIndex, cur
-----------------------------------------------------------------------------
LEMMA InitIInv == Init => IInv
<1> SUFFICES ASSUME Init PROVE IInv
  OBVIOUS
<1>1. manager.mCurrentFrame = 0 /\ manager.mFrames = << >>
  BY DEF Init, NoFrames
<1>2. TypeOK
  <2>1. manager.mFrames \in Seq(Nat) /\ Len(manager.mFrames) = 0
    BY <1>1
  <2>2. completed \in 0..signalled /\ signalled \in Nat
    BY DEF Init
  <2>3. inUse \in [1..FrameCount -> SUBSET Nat]
    BY DEF Init
  <2>4. QED
    BY <1>1, <2>1, <2>2, <2>3 DEF Init, TypeOK
<1>3. CountInv
  BY DEF Init, CountInv
<1>4. UseInv /\ RoundInv /\ FramesInFlight
  BY DEF Init, UseInv, RoundInv, FramesInFlight
<1>5. QED
  BY <1>2, <1>3, <1>4 DEF IInv

LEMMA CreateIInv == IInv /\ Create => IInv'
<1> SUFFICES ASSUME IInv, Create PROVE IInv'
  OBVIOUS
<1> DEFINE m == NewFrames(FrameCount)
<1>1. /\ manager' = m /\ m.mCurrentFrame = 0
      /\ m.mFrames = [i \in 1..FrameCount |-> 0]
      /\ m.mFrames \in Seq(Nat) /\ Len(m.mFrames) = FrameCount
  BY FrameDataAssumption DEF Create, NewFrames
<1> HIDE DEF m
<1>2. TypeOK'
  BY <1>1, FrameDataAssumption DEF IInv, TypeOK, Create
<1>3. \A i \in 1..FrameCount : inUse[i] = {}
  BY DEF IInv, UseInv, Create, TypeOK
<1>4. CountInv' /\ UseInv' /\ RoundInv' /\ FramesInFlight'
  BY <1>1, <1>3, FrameDataAssumption
     DEF IInv, CountInv, UseInv, RoundInv, FramesInFlight, Create, cur, Mark
<1>5. QED
  BY <1>2, <1>4 DEF IInv

LEMMA CallIInv == ASSUME NEW w \in {"current", "prev", "clear"}
                  PROVE  IInv /\ Call(w) => IInv'
BY DEF IInv, TypeOK, CountInv, UseInv, RoundInv, FramesInFlight, Call, cur, Mark, PrevMark

LEMMA WaitForCurrentIInv == IInv /\ WaitForCurrent => IInv'
<1> SUFFICES ASSUME IInv, WaitForCurrent PROVE IInv'
  OBVIOUS
<1>1. TypeOK' /\ CountInv' /\ UseInv' /\ RoundInv'
  BY DEF IInv, TypeOK, CountInv, UseInv, RoundInv, WaitForCurrent, cur, Mark, PrevMark
<1>2. good /\ TypeOK
  BY DEF IInv, CountInv, WaitForCurrent
<1> DEFINE i == currentFrameIndex(manager) + 1
<1>3. i = (cur % FrameCount) + 1 /\ i \in 1..FrameCount /\ cur \in Nat
  BY <1>2, SlotFacts
<1>4. completed >= Mark(i) /\ Mark(i) \in Nat /\ completed \in Nat
  <2>1. completed \in Nat
    BY <1>2 DEF TypeOK
  <2>2. QED
    BY <1>2, <1>3, <2>1, SlotFacts DEF WaitForCurrent, CurrentMark, Mark
<1>5. IF Mark(i) = 0 THEN cur < i ELSE cur < Mark(i) + FrameCount
  BY <1>2, <1>3 DEF IInv, RoundInv
<1> HIDE DEF i
<1>6. cur - completed < FrameCount
  BY <1>3, <1>4, <1>5, FrameDataAssumption
<1>7. FramesInFlight'
  BY <1>6 DEF FramesInFlight, WaitForCurrent, cur
<1>8. QED
  BY <1>1, <1>7 DEF IInv

LEMMA WaitPrevFrameIInv == IInv /\ WaitPrevFrame => IInv'
BY DEF IInv, TypeOK, CountInv, UseInv, RoundInv, FramesInFlight, WaitPrevFrame,
       cur, Mark, PrevMark

LEMMA ClearIInv == IInv /\ Clear => IInv'
<1> SUFFICES ASSUME IInv, Clear PROVE IInv'
  OBVIOUS
<1>1. manager'.mCurrentFrame = 0 /\ manager'.mFrames = << >>
  BY DEF Clear, NoFrames
<1>2. TypeOK'
  <2>1. manager'.mFrames \in Seq(Nat) /\ Len(manager'.mFrames) = 0
    BY <1>1
  <2>2. completed' \in 0..signalled' /\ signalled' \in Nat
    BY DEF Clear
  <2>3. inUse' \in [1..FrameCount -> SUBSET Nat]
    BY DEF Clear
  <2>4. QED
    BY <1>1, <2>1, <2>2, <2>3 DEF Clear, TypeOK
<1>3. CountInv'
  BY DEF Clear, CountInv
<1>4. UseInv' /\ RoundInv' /\ FramesInFlight'
  BY DEF Clear, UseInv, RoundInv, FramesInFlight
<1>5. QED
  BY <1>2, <1>3, <1>4 DEF IInv

LEMMA GpuCompletesIInv == IInv /\ GpuCompletes => IInv'
<1> SUFFICES ASSUME IInv, GpuCompletes PROVE IInv'
  OBVIOUS
<1>1. TypeOK'
  BY DEF IInv, TypeOK, GpuCompletes
<1>2. CountInv' /\ RoundInv'
  BY DEF IInv, CountInv, RoundInv, GpuCompletes, cur, Mark, PrevMark
<1>3. UseInv'
  BY DEF IInv, TypeOK, UseInv, GpuCompletes, Mark
<1>4. FramesInFlight'
  BY FrameDataAssumption DEF IInv, TypeOK, FramesInFlight, GpuCompletes
<1>5. QED
  BY <1>1, <1>2, <1>3, <1>4 DEF IInv
-----------------------------------------------------------------------------
(* endAndGoNextFrame marks one slot with the frame that ends. *)
LEMMA EndFacts ==
    ASSUME IInv, EndAndGoNextFrame
    PROVE  LET s == currentFrameIndex(manager) + 1
           IN  /\ good /\ good' /\ TypeOK
               /\ cur \in Nat /\ cur' = cur + 1
               /\ s = (cur % FrameCount) + 1 /\ s \in 1..FrameCount
               /\ manager.mFrames \in [1..FrameCount -> 0..cur]
               /\ manager'.mFrames = [manager.mFrames EXCEPT ![s] = cur + 1]
               /\ signalled = cur /\ signalled' = cur + 1
               /\ inUse' = [inUse EXCEPT ![s] = @ \cup {cur + 1}]
<1>1. good /\ good' /\ TypeOK
  BY DEF EndAndGoNextFrame, IInv
<1>2. manager' = EndFrame(manager) /\ signalled' = manager'.mCurrentFrame
  BY DEF EndAndGoNextFrame
<1>3. /\ manager'.mCurrentFrame = cur + 1
      /\ manager'.mFrames =
             [manager.mFrames EXCEPT ![currentFrameIndex(manager) + 1] = cur + 1]
  BY <1>2 DEF EndFrame, cur
<1>4. signalled = cur /\ manager.mFrames \in [1..FrameCount -> 0..cur]
  BY <1>1 DEF IInv, CountInv
<1>5. inUse' = [inUse EXCEPT ![currentFrameIndex(manager) + 1] = @ \cup {cur + 1}]
  BY <1>2, <1>3 DEF EndAndGoNextFrame
<1>6. QED
  BY <1>1, <1>2, <1>3, <1>4, <1>5, SlotFacts DEF cur

LEMMA EndAndGoNextFrameIInv == IInv /\ EndAndGoNextFrame => IInv'
<1> SUFFICES ASSUME IInv, EndAndGoNextFrame PROVE IInv'
  OBVIOUS
<1> DEFINE s == currentFrameIndex(manager) + 1
<1>1. /\ good /\ good' /\ TypeOK
      /\ cur \in Nat /\ cur' = cur + 1
      /\ s = (cur % FrameCount) + 1 /\ s \in 1..FrameCount
      /\ manager.mFrames \in [1..FrameCount -> 0..cur]
      /\ manager'.mFrames = [manager.mFrames EXCEPT ![s] = cur + 1]
      /\ signalled = cur /\ signalled' = cur + 1
      /\ inUse' = [inUse EXCEPT ![s] = @ \cup {cur + 1}]
  BY EndFacts
<1> HIDE DEF s
<1>2. /\ manager'.mFrames \in [1..FrameCount -> 0..(cur + 1)]
      /\ \A i \in 1..FrameCount : Mark(i)' = IF i = s THEN cur + 1 ELSE Mark(i)
      /\ \A i \in 1..FrameCount :
           inUse'[i] = IF i = s THEN inUse[i] \cup {cur + 1} ELSE inUse[i]
  <2>1. manager'.mFrames \in [1..FrameCount -> 0..(cur + 1)]
    BY <1>1
  <2>2. \A i \in 1..FrameCount : Mark(i)' = IF i = s THEN cur + 1 ELSE Mark(i)
    BY <1>1 DEF Mark
  <2>3. \A i \in 1..FrameCount :
           inUse'[i] = IF i = s THEN inUse[i] \cup {cur + 1} ELSE inUse[i]
    BY <1>1 DEF TypeOK
  <2>4. QED
    BY <2>1, <2>2, <2>3
<1>3. completed \in 0..cur /\ completed' = completed
  BY <1>1 DEF TypeOK, EndAndGoNextFrame
<1>4. TypeOK'
  <2>1. manager'.mFrames \in Seq(Nat) /\ Len(manager'.mFrames) = FrameCount
    BY <1>1, FrameDataAssumption DEF TypeOK
  <2>2. inUse' \in [1..FrameCount -> SUBSET Nat]
    BY <1>1 DEF TypeOK
  <2>3. manager'.mCurrentFrame \in Nat /\ signalled' \in Nat /\ completed' \in 0..signalled'
    BY <1>1, <1>3 DEF cur
  <2>4. pc' = pc /\ waited' = FALSE /\ good' = good /\ pc \in {"idle", "current", "prev", "clear"}
    BY <1>1 DEF TypeOK, EndAndGoNextFrame
  <2>5. QED
    BY <1>1, <2>1, <2>2, <2>3, <2>4 DEF TypeOK
<1>5. CountInv'
  <2>1. PrevMark(manager)' = cur + 1
    <3>1. prevFrameIndex(manager)' = cur % FrameCount
      <4>1. Len(manager'.mFrames) = FrameCount
        BY <1>1, <1>4 DEF TypeOK
      <4>2. manager'.mCurrentFrame = cur + 1
        BY <1>1 DEF cur
      <4>3. manager'.mCurrentFrame # 0 /\ manager'.mCurrentFrame - 1 = cur
        BY <1>1, <4>2
      <4>4. QED
        BY <4>1, <4>3 DEF prevFrameIndex
    <3>2. QED
      BY <3>1, <1>1, <1>2 DEF PrevMark, Mark
  <2>2. QED
    BY <1>1, <1>2, <2>1 DEF CountInv, EndAndGoNextFrame, cur
<1>6. UseInv'
  <2> SUFFICES ASSUME NEW i \in 1..FrameCount, NEW f \in inUse'[i]
               PROVE  completed < f /\ f <= Mark(i)'
    BY <1>1, <1>3 DEF UseInv
  <2>1. \A g \in inUse[i] : g \in Nat /\ completed < g /\ g <= Mark(i)
    BY <1>1 DEF IInv, UseInv, TypeOK
  <2>2. Mark(i) \in 0..cur
    BY <1>1 DEF Mark
  <2>3. CASE i = s
    <3>0. inUse'[i] = inUse[i] \cup {cur + 1}
      BY <1>2, <2>3
    <3>1. f \in inUse[i] \/ f = cur + 1
      BY <3>0
    <3>2. Mark(i)' = cur + 1
      BY <1>2, <2>3
    <3>3. QED
      <4>1. cur \in Nat /\ completed \in 0..cur
        BY <1>1, <1>3
      <4>2. CASE f \in inUse[i]
        BY <2>1, <2>2, <3>2, <4>1, <4>2
      <4>3. CASE f = cur + 1
        BY <3>2, <4>1, <4>3
      <4>4. QED
        BY <3>1, <4>2, <4>3
  <2>4. CASE i # s
    BY <1>2, <2>1, <2>4
  <2>5. QED
    BY <2>3, <2>4
<1>7. RoundInv'
  <2> SUFFICES ASSUME NEW i \in 1..FrameCount
               PROVE  IF Mark(i)' = 0
                      THEN cur + 1 < i
                      ELSE /\ cur + 1 < Mark(i)' + FrameCount
                           /\ (Mark(i)' - 1) % FrameCount = i - 1
    BY <1>1 DEF RoundInv
  <2>1. IF Mark(i) = 0
        THEN cur < i
        ELSE cur < Mark(i) + FrameCount /\ (Mark(i) - 1) % FrameCount = i - 1
    BY <1>1 DEF IInv, RoundInv
  <2>2. Mark(i) \in 0..cur /\ FrameCount \in Nat \ {0}
    BY <1>1, FrameDataAssumption DEF Mark
  <2>3. CASE i = s
    BY <1>1, <1>2, <2>2, <2>3
  <2>4. CASE i # s /\ Mark(i) = 0
    <3>1. cur \in Nat /\ cur < FrameCount
      <4>1. cur \in Nat
        BY <1>1
      <4>2. cur < i
        BY <2>1, <2>4
      <4>3. QED
        BY <2>2, <4>1, <4>2
    <3>2. cur % FrameCount = cur
      BY <2>2, <3>1, ModRange
    <3>3. Mark(i)' = 0 /\ i # cur + 1 /\ cur < i
      BY <1>1, <1>2, <2>1, <2>4, <3>2
    <3>4. QED
      BY <3>1, <3>3
  <2>5. CASE i # s /\ Mark(i) # 0
    <3>1. Mark(i) + FrameCount # cur + 1
      <4>1. SUFFICES ASSUME Mark(i) + FrameCount = cur + 1 PROVE FALSE
        OBVIOUS
      <4>2. Mark(i) - 1 \in Nat /\ cur = (Mark(i) - 1) + FrameCount
        <5>1. cur \in Nat
          BY <1>1
        <5>2. QED
          BY <5>1, <2>2, <2>5, <4>1
      <4>3. cur % FrameCount = (Mark(i) - 1) % FrameCount
        BY <2>2, <4>2, ModShift
      <4>4. QED
        BY <1>1, <2>1, <2>5, <4>3
    <3>2. cur \in Nat /\ Mark(i)' = Mark(i)
      BY <1>1, <1>2, <2>5
    <3>3. cur + 1 < Mark(i) + FrameCount
      BY <2>1, <2>2, <2>5, <3>1, <3>2
    <3>4. QED
      BY <2>1, <2>5, <3>2, <3>3
  <2>6. QED
    BY <2>3, <2>4, <2>5
<1>8. FramesInFlight'
  BY DEF FramesInFlight, EndAndGoNextFrame
<1>9. QED
  BY <1>4, <1>5, <1>6, <1>7, <1>8 DEF IInv

LEMMA NextIInv == IInv /\ [Next]_vars => IInv'
<1> SUFFICES ASSUME IInv, [Next]_vars PROVE IInv'
  OBVIOUS
<1>1. CASE Create
  BY <1>1, CreateIInv
<1>2. CASE BeginWaitForCurrent \/ BeginWaitPrevFrame \/ BeginClear
  BY <1>2, CallIInv DEF BeginWaitForCurrent, BeginWaitPrevFrame, BeginClear
<1>3. CASE WaitForCurrent
  BY <1>3, WaitForCurrentIInv
<1>4. CASE WaitPrevFrame
  BY <1>4, WaitPrevFrameIInv
<1>5. CASE EndAndGoNextFrame
  BY <1>5, EndAndGoNextFrameIInv
<1>6. CASE Clear
  BY <1>6, ClearIInv
<1>7. CASE GpuCompletes
  BY <1>7, GpuCompletesIInv
<1>8. CASE UNCHANGED vars
  BY <1>8 DEF IInv, TypeOK, CountInv, UseInv, RoundInv, FramesInFlight, vars,
              cur, Mark, PrevMark
<1>9. QED
  BY <1>1, <1>2, <1>3, <1>4, <1>5, <1>6, <1>7, <1>8 DEF Next
-----------------------------------------------------------------------------
(* The inductive invariant holds in every reachable state. *)
THEOREM FramesInvariant == Spec => []IInv
<1>1. QED
  BY InitIInv, NextIInv, PTL DEF Spec

(* The manager's members keep their types: there are as many marks as      *)
(* slots while the fence is good and none otherwise, and the fence is      *)
(* never ahead of the signals (FrameDataManager.h).                        *)
THEOREM FramesTypeOK == Spec => []TypeOK
<1>1. IInv => TypeOK
  BY DEF IInv
<1>2. QED
  BY <1>1, FramesInvariant, PTL

(* An owner that has waited for its slot is less than FrameCount frames    *)
(* ahead of the GPU, for every FrameCount (FrameDataManager.cpp:51).       *)
THEOREM FramesInFlightBound == Spec => []FramesInFlight
<1>1. IInv => FramesInFlight
  BY DEF IInv
<1>2. QED
  BY <1>1, FramesInvariant, PTL

(* Both together, which is what a frame counts on.                         *)
THEOREM FramesAreSound == Spec => []Inv
  BY FramesTypeOK, FramesInFlightBound, PTL DEF Inv

(* When waitForCurrent returns, no ended frame's commands use the slot's   *)
(* data any more (FrameDataManager.cpp:51).                                *)
THEOREM FramesDataIsFree == Spec => DataIsFree
<1>1. IInv /\ WaitForCurrent => inUse[currentFrameIndex(manager) + 1] = {}
  <2> SUFFICES ASSUME IInv, WaitForCurrent
               PROVE  inUse[currentFrameIndex(manager) + 1] = {}
    OBVIOUS
  <2>1. good /\ TypeOK
    BY DEF IInv, CountInv, WaitForCurrent
  <2> DEFINE i == currentFrameIndex(manager) + 1
  <2>2. i \in 1..FrameCount /\ manager.mFrames \in [1..FrameCount -> Nat]
    BY <2>1, SlotFacts
  <2>3. completed >= Mark(i) /\ completed \in Nat /\ Mark(i) \in Nat
    BY <2>1, <2>2 DEF WaitForCurrent, CurrentMark, Mark, TypeOK
  <2> HIDE DEF i
  <2>4. \A f \in inUse[i] : f \in Nat /\ completed < f /\ f <= Mark(i)
    BY <2>1, <2>2 DEF IInv, UseInv, TypeOK
  <2>5. inUse[i] = {}
    BY <2>3, <2>4
  <2>6. QED
    BY <2>5 DEF i
<1>2. QED
  BY <1>1, FramesInvariant, PTL DEF DataIsFree

(* When waitPrevFrame returns, no ended frame's commands use any slot,     *)
(* before the first frame and at every turn (FrameDataManager.cpp:58).     *)
THEOREM FramesPrevWaitDrains == Spec => PrevWaitDrains
<1>1. IInv /\ WaitPrevFrame => \A i \in 1..FrameCount : inUse[i] = {}
  <2> SUFFICES ASSUME IInv, WaitPrevFrame, NEW i \in 1..FrameCount
               PROVE  inUse[i] = {}
    OBVIOUS
  <2>1. good /\ TypeOK /\ CountInv
    BY DEF IInv, CountInv, WaitPrevFrame
  <2>2. cur \in Nat /\ completed \in Nat /\ Mark(i) \in 0..cur
    BY <2>1 DEF CountInv, TypeOK, cur, Mark
  <2>3. completed >= cur
    BY <2>1, <2>2 DEF CountInv, WaitPrevFrame
  <2>4. \A f \in inUse[i] : f \in Nat /\ completed < f /\ f <= Mark(i)
    BY <2>1 DEF IInv, UseInv, TypeOK
  <2>5. QED
    BY <2>2, <2>3, <2>4
<1>2. QED
  BY <1>1, FramesInvariant, PTL DEF PrevWaitDrains
=============================================================================
