---------------------------- MODULE GraphicsProofs ----------------------------
(***************************************************************************)
(* Proofs about Graphics for every number of back buffers.                 *)
(*                                                                         *)
(* A wait says something about a list because of what stands behind the    *)
(* list in the command queue.  Behind a list of a slot whose frame has     *)
(* ended there is the signal of that frame, which is not later than the    *)
(* slot's mark; behind a list that was swapped there is the signal of its  *)
(* Context.  A signal that waits in the queue is later than what its fence *)
(* has completed, so the fence does not reach the mark before the list is  *)
(* done.  And between two paints the last of the queue is the signal of    *)
(* the last frame, the one waitPrevFrame waits for.                        *)
(***************************************************************************)
EXTENDS Graphics, SequenceTheorems, TLAPS

Manager(n) == [mCurrentFrame: Nat, mFrames: [1..n -> Nat]]
Command == [kind: {"lists"}, slot: Slots, value: Lists]
             \cup [kind: {"frame", "list"}, slot: Slots, value: Nat]

Painting == {"frame", "waitList", "recording", "recorded", "present", "presented"}
Closing == {"clear", "release", "closed"}

(* Where the thread is, and what its slots are.                            *)
ThreadInv ==
    /\ pc \in Painting \cup Closing \cup {"start", "close"}
    /\ cmdQueue \in Seq(Command)
    /\ pc # "closed" => mFrameDatas \in Manager(BufferCount)
    /\ pc \notin {"release", "closed"} => mCmdLists \in [Slots -> Manager(2)]
    /\ pc \in Closing => cmdQueue = << >>
    /\ pc \in Painting => mFrameDatas.mCurrentFrame < MaxFrame
    /\ pc = "frame" => frameDone >= CurrentMark(mFrameDatas)
    /\ pc \in {"waitList", "recording"} => style = "swap"
    /\ pc = "recorded" => style = "record"
    /\ recording = IF pc = "recording" THEN {<<Slot, List(Slot)>>} ELSE {}

(* The swap chain and Graphics go round together.                          *)
RoundInv ==
    /\ pc # "closed" /\ mFrameDatas.mCurrentFrame > 0 =>
         PrevMark(mFrameDatas) = mFrameDatas.mCurrentFrame
    /\ pc = "presented" => backBuffer = (Slot + 1) % BufferCount
    /\ pc \in (Painting \ {"presented"}) \cup {"start"} => backBuffer = Slot

FrameAt(i) == cmdQueue[i].kind = "frame"
ListsAt(i) == cmdQueue[i].kind = "lists"
ListSignalAt(i) == cmdQueue[i].kind = "list"

(* The signals of the frames in the queue, and the lists they stand for.   *)
FrameQueueInv ==
    /\ \A i \in DOMAIN cmdQueue : FrameAt(i) =>
         /\ frameDone < cmdQueue[i].value
         /\ cmdQueue[i].value <= mFrameDatas.mCurrentFrame
    /\ \A i, j \in DOMAIN cmdQueue :
         i < j /\ FrameAt(i) /\ FrameAt(j) => cmdQueue[i].value < cmdQueue[j].value
    /\ \A i \in DOMAIN cmdQueue : ListsAt(i) =>
         \/ cmdQueue[i].slot = Slot /\ pc \in Painting \ {"frame", "recorded"}
         \/ \E j \in DOMAIN cmdQueue :
              /\ i < j /\ FrameAt(j)
              /\ cmdQueue[j].value <= mFrameDatas.mFrames[cmdQueue[i].slot + 1]
    /\ pc \in {"start", "close"} /\ cmdQueue # << >> =>
         /\ FrameAt(Len(cmdQueue))
         /\ cmdQueue[Len(cmdQueue)].value = mFrameDatas.mCurrentFrame

(* The signals of the Contexts, when the lists are swapped.                *)
ListQueueInv ==
    /\ pc \notin {"release", "closed"} =>
         \A s \in Slots : listDone[s] <= mCmdLists[s].mCurrentFrame
    /\ \A i \in DOMAIN cmdQueue : ListSignalAt(i) =>
         /\ listDone[cmdQueue[i].slot] < cmdQueue[i].value
         /\ cmdQueue[i].value <= mCmdLists[cmdQueue[i].slot].mCurrentFrame
    /\ \A i, j \in DOMAIN cmdQueue :
         i < j /\ ListSignalAt(i) /\ ListSignalAt(j) /\ cmdQueue[i].slot = cmdQueue[j].slot
           => cmdQueue[i].value < cmdQueue[j].value
    /\ style = "swap" => \A i \in DOMAIN cmdQueue : ListsAt(i) =>
         \E j \in DOMAIN cmdQueue :
           /\ i < j /\ ListSignalAt(j) /\ cmdQueue[j].slot = cmdQueue[i].slot
           /\ cmdQueue[j].value <=
                mCmdLists[cmdQueue[i].slot].mFrames[cmdQueue[i].value + 1]

IInv == Inv /\ ThreadInv /\ RoundInv /\ FrameQueueInv /\ ListQueueInv
-----------------------------------------------------------------------------
(* Arithmetic of the slots going round. *)
LEMMA SmallMultiple ==
    ASSUME NEW n \in Nat \ {0}, NEW k \in Int, NEW d \in Int,
           n * k = d, -n < d, d < n
    PROVE  d = 0
<1>1. CASE k >= 1
  <2>1. PICK j \in Nat : k = j + 1
    BY <1>1
  <2>2. n * k = n * j + n
    BY <2>1
  <2>3. n * j >= 0
    OBVIOUS
  <2> QED BY <2>2, <2>3
<1>2. CASE k = 0
  BY <1>2
<1>3. CASE k <= -1
  <2>1. PICK j \in Nat : k = -j - 1
    BY <1>3
  <2>2. n * k = -(n * j) - n
    BY <2>1
  <2>3. n * j >= 0
    OBVIOUS
  <2> QED BY <2>2, <2>3
<1> QED BY <1>1, <1>2, <1>3

LEMMA NextIndex ==
    ASSUME NEW n \in Nat \ {0}, NEW a \in Nat
    PROVE  (a + 1) % n = ((a % n) + 1) % n
<1>. DEFINE q == a \div n
            r == a % n
            p == (a + 1) \div n
            s == (a + 1) % n
            t == (r + 1) % n
            u == (r + 1) \div n
<1>1. q \in Int /\ p \in Int /\ u \in Int /\ r \in 0..(n - 1) /\ s \in 0..(n - 1)
  OBVIOUS
<1>2. t \in 0..(n - 1)
  BY <1>1
<1>3. a = n * q + r /\ a + 1 = n * p + s /\ r + 1 = n * u + t
  BY <1>1
<1>4. n * (p - q - u) = n * p - n * q - n * u
  BY <1>1
<1>5. n * q \in Int /\ n * p \in Int /\ n * u \in Int
  BY <1>1
<1>. HIDE DEF q, r, p, s, t, u
<1>6. n * p - n * q - n * u = t - s
  BY <1>1, <1>2, <1>3, <1>5
<1>7. t - s = 0
  <2>1. n * (p - q - u) = t - s /\ p - q - u \in Int
    BY <1>1, <1>4, <1>6
  <2>2. t - s \in Int /\ -n < t - s /\ t - s < n
    BY <1>1, <1>2
  <2>3. QED
    BY <2>1, <2>2, SmallMultiple
<1>8. s = t
  BY <1>1, <1>2, <1>7
<1>9. QED
  BY <1>8 DEF s, t, r

(* What a manager of n slots computes. *)
LEMMA ManagerFacts ==
    ASSUME NEW n \in Nat \ {0}, NEW m \in Manager(n)
    PROVE  /\ Len(m.mFrames) = n
           /\ currentFrameIndex(m) \in 0..(n - 1)
           /\ CurrentMark(m) = m.mFrames[currentFrameIndex(m) + 1]
           /\ CurrentMark(m) \in Nat
           /\ EndFrame(m) \in Manager(n)
           /\ EndFrame(m).mCurrentFrame = m.mCurrentFrame + 1
           /\ \A i \in 1..n : EndFrame(m).mFrames[i] =
                IF i = currentFrameIndex(m) + 1 THEN m.mCurrentFrame + 1 ELSE m.mFrames[i]
           /\ currentFrameIndex(EndFrame(m)) = (currentFrameIndex(m) + 1) % n
           /\ PrevMark(EndFrame(m)) = m.mCurrentFrame + 1
<1>1. /\ m.mCurrentFrame \in Nat /\ m.mFrames \in [1..n -> Nat]
  BY DEF Manager
<1>2. \A f \in [1..n -> Nat] : Len(f) = n
  <2>1. TAKE f \in [1..n -> Nat]
  <2>2. f \in Seq(Nat)
    BY SeqDef
  <2>3. DOMAIN f = 1..Len(f) /\ Len(f) \in Nat
    BY <2>2, LenProperties
  <2>4. QED
    BY <2>3
<1>3. m.mCurrentFrame % n \in 0..(n - 1) /\ (m.mCurrentFrame + 1) % n \in 0..(n - 1)
  BY <1>1
<1>4. /\ Len(m.mFrames) = n /\ currentFrameIndex(m) = m.mCurrentFrame % n
  BY <1>1, <1>2 DEF currentFrameIndex
<1>5. currentFrameIndex(m) \in 0..(n - 1)
  BY <1>3, <1>4
<1>6. /\ CurrentMark(m) = m.mFrames[currentFrameIndex(m) + 1]
      /\ CurrentMark(m) \in Nat
  BY <1>1, <1>5 DEF CurrentMark
<1>. DEFINE e == EndFrame(m)
<1>7. /\ e.mCurrentFrame = m.mCurrentFrame + 1
      /\ e.mFrames = [m.mFrames EXCEPT ![currentFrameIndex(m) + 1] = m.mCurrentFrame + 1]
      /\ e = [mCurrentFrame |-> e.mCurrentFrame, mFrames |-> e.mFrames]
  BY DEF EndFrame
<1>8. e.mFrames \in [1..n -> Nat] /\ e \in Manager(n)
  <2>1. currentFrameIndex(m) + 1 \in 1..n /\ m.mCurrentFrame + 1 \in Nat
    BY <1>1, <1>5
  <2>2. e.mFrames \in [1..n -> Nat] /\ e.mCurrentFrame \in Nat
    BY <1>1, <1>7, <2>1
  <2>. HIDE DEF e
  <2>3. QED
    BY <1>7, <2>2 DEF Manager
<1>9. \A i \in 1..n : e.mFrames[i] =
        IF i = currentFrameIndex(m) + 1 THEN m.mCurrentFrame + 1 ELSE m.mFrames[i]
  BY <1>1, <1>5, <1>7
<1>. HIDE DEF e
<1>10. currentFrameIndex(e) = (m.mCurrentFrame + 1) % n
  BY <1>2, <1>7, <1>8 DEF currentFrameIndex
<1>11. (m.mCurrentFrame + 1) % n = (currentFrameIndex(m) + 1) % n
  BY <1>1, <1>4, NextIndex
<1>12. PrevMark(e) = m.mCurrentFrame + 1
  <2>1. prevFrameIndex(e) = m.mCurrentFrame % n
    BY <1>1, <1>2, <1>7, <1>8 DEF prevFrameIndex
  <2>2. QED
    BY <1>4, <1>5, <1>9, <2>1 DEF PrevMark
<1>13. QED
  BY <1>4, <1>5, <1>6, <1>7, <1>8, <1>9, <1>10, <1>11, <1>12 DEF e

LEMMA NewManager ==
    ASSUME NEW n \in Nat \ {0}
    PROVE  /\ NewFrames(n) \in Manager(n) /\ NewFrames(n).mCurrentFrame = 0
           /\ \A i \in 1..n : NewFrames(n).mFrames[i] = 0
           /\ currentFrameIndex(NewFrames(n)) = 0
<1>1. /\ NewFrames(n) \in Manager(n) /\ NewFrames(n).mCurrentFrame = 0
      /\ \A i \in 1..n : NewFrames(n).mFrames[i] = 0
  BY DEF NewFrames, Manager
<1>2. Len(NewFrames(n).mFrames) = n
  BY <1>1, ManagerFacts
<1>3. QED
  BY <1>1, <1>2 DEF currentFrameIndex

(* The slot and the list in use while there are slots.                     *)
LEMMA CurrentSlot ==
    ASSUME ThreadInv, pc \notin {"release", "closed"}
    PROVE  /\ BufferCount \in Nat \ {0} /\ mFrameDatas \in Manager(BufferCount)
           /\ Slot \in Slots /\ mCmdLists[Slot] \in Manager(2)
           /\ mCmdLists \in [Slots -> Manager(2)] /\ List(Slot) \in Lists
           /\ CurrentMark(mFrameDatas) = mFrameDatas.mFrames[Slot + 1]
           /\ CurrentMark(mCmdLists[Slot]) = mCmdLists[Slot].mFrames[List(Slot) + 1]
<1>1. /\ mFrameDatas \in Manager(BufferCount) /\ mCmdLists \in [Slots -> Manager(2)]
      /\ BufferCount \in Nat \ {0} /\ 2 \in Nat \ {0}
  BY GraphicsAssumption DEF ThreadInv
<1>2. Slot \in Slots /\ CurrentMark(mFrameDatas) = mFrameDatas.mFrames[Slot + 1]
  BY <1>1, ManagerFacts DEF Slot, Slots
<1>3. mCmdLists[Slot] \in Manager(2)
  BY <1>1, <1>2
<1>4. /\ List(Slot) \in Lists
      /\ CurrentMark(mCmdLists[Slot]) = mCmdLists[Slot].mFrames[List(Slot) + 1]
  <2>1. /\ currentFrameIndex(mCmdLists[Slot]) \in 0..(2 - 1)
        /\ CurrentMark(mCmdLists[Slot]) =
             mCmdLists[Slot].mFrames[currentFrameIndex(mCmdLists[Slot]) + 1]
    BY <1>1, <1>3, ManagerFacts
  <2>2. QED
    BY <2>1 DEF List, Lists
<1>5. QED
  BY <1>1, <1>2, <1>3, <1>4

(* What the queue holds after an entry has come in or gone. *)
LEMMA QueueFacts ==
    ASSUME NEW q \in Seq(Command)
    PROVE  /\ Len(q) \in Nat /\ DOMAIN q = 1..Len(q)
           /\ \A i \in DOMAIN q : q[i] \in Command
           /\ q # << >> => /\ Len(q) \in DOMAIN q /\ Head(q) = q[1] /\ 1 \in DOMAIN q
                           /\ Tail(q) \in Seq(Command)
                           /\ DOMAIN Tail(q) = 1..(Len(q) - 1) /\ Len(Tail(q)) = Len(q) - 1
                           /\ \A i \in DOMAIN Tail(q) : Tail(q)[i] = q[i + 1]
                           /\ \A i \in DOMAIN Tail(q) : i \in Nat /\ i > 0 /\ i + 1 \in DOMAIN q
                           /\ \A i \in DOMAIN q : i > 1 => i - 1 \in DOMAIN Tail(q)
<1>1. /\ Len(q) \in Nat /\ DOMAIN q = 1..Len(q)
      /\ \A i \in DOMAIN q : q[i] \in Command
  BY LenProperties, ElementOfSeq
<1>2. ASSUME q # << >>
      PROVE  /\ Len(q) \in DOMAIN q /\ Head(q) = q[1] /\ 1 \in DOMAIN q
             /\ Tail(q) \in Seq(Command)
             /\ DOMAIN Tail(q) = 1..(Len(q) - 1) /\ Len(Tail(q)) = Len(q) - 1
             /\ \A i \in DOMAIN Tail(q) : Tail(q)[i] = q[i + 1]
             /\ \A i \in DOMAIN Tail(q) : i \in Nat /\ i > 0 /\ i + 1 \in DOMAIN q
             /\ \A i \in DOMAIN q : i > 1 => i - 1 \in DOMAIN Tail(q)
  <2>1. Len(q) > 0
    BY <1>1, <1>2, EmptySeq
  <2>2. /\ Tail(q) \in Seq(Command) /\ Len(Tail(q)) = Len(q) - 1
        /\ \A i \in 1..(Len(q) - 1) : Tail(q)[i] = q[i + 1]
    BY <1>2, HeadTailProperties
  <2>3. DOMAIN Tail(q) = 1..(Len(q) - 1)
    BY <2>2, LenProperties
  <2>4. Head(q) = q[1]
    BY <1>2, HeadTailProperties
  <2>5. QED
    BY <1>1, <2>1, <2>2, <2>3, <2>4
<1>3. QED
  BY <1>1, <1>2

LEMMA AppendTwo ==
    ASSUME NEW q \in Seq(Command), NEW c \in Command, NEW d \in Command
    PROVE  /\ q \o <<c, d>> \in Seq(Command) /\ q \o <<c, d>> # << >>
           /\ DOMAIN (q \o <<c, d>>) = DOMAIN q \cup {Len(q) + 1, Len(q) + 2}
           /\ Len(q) + 1 \notin DOMAIN q /\ Len(q) + 2 \notin DOMAIN q
           /\ (q \o <<c, d>>)[Len(q) + 1] = c /\ (q \o <<c, d>>)[Len(q) + 2] = d
           /\ \A i \in DOMAIN q : (q \o <<c, d>>)[i] = q[i] /\ i < Len(q) + 1
<1>1. Len(q) \in Nat /\ DOMAIN q = 1..Len(q)
  BY LenProperties
<1>2. <<c, d>> \in Seq(Command) /\ Len(<<c, d>>) = 2 /\ <<c, d>>[1] = c /\ <<c, d>>[2] = d
  OBVIOUS
<1>. DEFINE r == q \o <<c, d>>
<1>3. /\ r \in Seq(Command) /\ Len(r) = Len(q) + 2
      /\ \A i \in 1..(Len(q) + 2) : r[i] = IF i <= Len(q) THEN q[i] ELSE <<c, d>>[i - Len(q)]
  BY <1>2, ConcatProperties
<1>. HIDE DEF r
<1>4. DOMAIN r = 1..(Len(q) + 2)
  BY <1>3, LenProperties
<1>5. /\ r[Len(q) + 1] = c /\ r[Len(q) + 2] = d /\ \A i \in DOMAIN q : r[i] = q[i]
  BY <1>1, <1>2, <1>3
<1>6. r # << >>
  BY <1>1, <1>3, EmptySeq
<1>7. QED
  BY <1>1, <1>3, <1>4, <1>5, <1>6 DEF r

LEMMA AppendTo ==
    ASSUME NEW q \in Seq(Command), NEW c \in Command
    PROVE  /\ Append(q, c) \in Seq(Command) /\ Append(q, c) # << >>
           /\ Len(Append(q, c)) = Len(q) + 1
           /\ DOMAIN Append(q, c) = DOMAIN q \cup {Len(q) + 1}
           /\ Len(q) + 1 \notin DOMAIN q /\ Append(q, c)[Len(q) + 1] = c
           /\ \A i \in DOMAIN q : Append(q, c)[i] = q[i] /\ i < Len(q) + 1
<1>1. Len(q) \in Nat /\ DOMAIN q = 1..Len(q)
  BY LenProperties
<1>2. /\ Append(q, c) \in Seq(Command) /\ Len(Append(q, c)) = Len(q) + 1
      /\ \A i \in 1..Len(q) : Append(q, c)[i] = q[i]
      /\ Append(q, c)[Len(q) + 1] = c
  BY AppendProperties
<1>3. DOMAIN Append(q, c) = 1..(Len(q) + 1)
  BY <1>2, LenProperties
<1>4. Append(q, c) # << >>
  BY <1>1, <1>2, EmptySeq
<1>5. QED
  BY <1>1, <1>2, <1>3, <1>4
-----------------------------------------------------------------------------
(* What the waits mean. *)
LEMMA PendingIs ==
    \A s, v : v \in PendingLists(s) <=>
        \E i \in DOMAIN cmdQueue :
            ListsAt(i) /\ cmdQueue[i].slot = s /\ cmdQueue[i].value = v
BY DEF PendingLists, Pending, ListsAt

LEMMA FrameIsDone ==
    ASSUME IInv, pc # "closed", NEW s \in Slots, frameDone >= mFrameDatas.mFrames[s + 1],
           s = Slot => pc \notin Painting \ {"frame", "recorded"}
    PROVE  PendingLists(s) = {}
<1>. SUFFICES ASSUME NEW i \in DOMAIN cmdQueue, ListsAt(i), cmdQueue[i].slot = s
              PROVE  FALSE
  BY PendingIs
<1>1. PICK j \in DOMAIN cmdQueue :
        i < j /\ FrameAt(j) /\ cmdQueue[j].value <= mFrameDatas.mFrames[s + 1]
  BY DEF IInv, FrameQueueInv
<1>2. frameDone < cmdQueue[j].value
  BY <1>1 DEF IInv, FrameQueueInv
<1>3. cmdQueue[j].value \in Nat
  BY QueueFacts DEF IInv, ThreadInv, Command, Lists
<1>4. frameDone \in Nat
  BY GraphicsAssumption DEF IInv, Inv, TypeOK, ThreadInv, Manager
<1>5. mFrameDatas.mFrames[s + 1] \in Nat
  BY GraphicsAssumption DEF IInv, ThreadInv, Manager, Slots
<1>6. QED
  BY <1>1, <1>2, <1>3, <1>4, <1>5

LEMMA ListIsDone ==
    ASSUME IInv, style = "swap", pc \notin {"release", "closed"}, NEW s \in Slots,
           NEW l \in Lists, listDone[s] >= mCmdLists[s].mFrames[l + 1]
    PROVE  l \notin PendingLists(s)
<1>. SUFFICES ASSUME NEW i \in DOMAIN cmdQueue, ListsAt(i), cmdQueue[i].slot = s,
                     cmdQueue[i].value = l
              PROVE  FALSE
  BY PendingIs
<1>1. PICK j \in DOMAIN cmdQueue :
        /\ i < j /\ ListSignalAt(j) /\ cmdQueue[j].slot = s
        /\ cmdQueue[j].value <= mCmdLists[s].mFrames[l + 1]
  BY DEF IInv, ListQueueInv
<1>2. listDone[s] < cmdQueue[j].value
  BY <1>1 DEF IInv, ListQueueInv
<1>3. cmdQueue[j].value \in Nat
  BY QueueFacts DEF IInv, ThreadInv, Command, Lists
<1>4. listDone[s] \in Nat
  BY DEF IInv, Inv, TypeOK
<1>5. mCmdLists[s].mFrames[l + 1] \in Nat
  BY DEF IInv, ThreadInv, Manager, Lists
<1>6. QED
  BY <1>1, <1>2, <1>3, <1>4, <1>5

(* When the signal of the last frame is complete, the queue is empty. *)
LEMMA PrevFrameIsDone ==
    ASSUME IInv, pc \in {"start", "close"}, frameDone >= PrevMark(mFrameDatas)
    PROVE  cmdQueue = << >>
<1>. SUFFICES ASSUME cmdQueue # << >> PROVE FALSE
  OBVIOUS
<1>1. /\ FrameAt(Len(cmdQueue)) /\ Len(cmdQueue) \in DOMAIN cmdQueue
      /\ cmdQueue[Len(cmdQueue)].value = mFrameDatas.mCurrentFrame
  BY QueueFacts DEF IInv, FrameQueueInv, ThreadInv
<1>2. frameDone < mFrameDatas.mCurrentFrame
  BY <1>1 DEF IInv, FrameQueueInv
<1>3. mFrameDatas.mCurrentFrame \in Nat /\ frameDone \in Nat
  BY DEF IInv, Inv, TypeOK, ThreadInv, Manager
<1>4. PrevMark(mFrameDatas) = mFrameDatas.mCurrentFrame
  BY <1>2, <1>3 DEF IInv, RoundInv
<1>5. QED
  BY <1>2, <1>3, <1>4
-----------------------------------------------------------------------------
(* Each step keeps the invariant. *)
LEMMA InitIInv == Init => IInv
<1>. SUFFICES ASSUME Init PROVE IInv
  OBVIOUS
<1>. USE GraphicsAssumption
<1>1. /\ mFrameDatas \in Manager(BufferCount) /\ mFrameDatas.mCurrentFrame = 0
      /\ \A i \in 1..BufferCount : mFrameDatas.mFrames[i] = 0
      /\ Slot = 0
  BY NewManager DEF Init, Slot
<1>2. mCmdLists \in [Slots -> Manager(2)]
  BY NewManager DEF Init
<1>3. Inv
  BY <1>1 DEF Init, Inv, TypeOK, OpenListIsIdle, DrawsIntoBackBuffer, Slots, Manager
<1>4. cmdQueue = << >> /\ cmdQueue \in Seq(Command) /\ DOMAIN cmdQueue = {}
  BY EmptySeq DEF Init
<1>5. ThreadInv
  BY <1>1, <1>2, <1>4 DEF Init, ThreadInv, Painting, Closing
<1>6. RoundInv
  BY <1>1 DEF Init, RoundInv
<1>7. FrameQueueInv /\ ListQueueInv
  BY <1>2, <1>4 DEF Init, FrameQueueInv, ListQueueInv, Manager
<1>8. QED
  BY <1>3, <1>5, <1>6, <1>7 DEF IInv

LEMMA WaitForCurrentFrameIInv ==
    ASSUME IInv, WaitForCurrentFrame
    PROVE  IInv'
<1>. USE DEF IInv
<1>1. /\ UNCHANGED <<style, mFrameDatas, frameDone, backBuffer, mCmdLists, listDone,
                     recording, cmdQueue, toRelease>>
      /\ pc = "start" /\ pc' = "frame" /\ mFrameDatas.mCurrentFrame < MaxFrame
      /\ frameDone >= CurrentMark(mFrameDatas)
  BY DEF WaitForCurrentFrame, frameVars, listVars
<1>2. Inv' /\ RoundInv'
  BY <1>1 DEF Inv, TypeOK, ThreadInv, OpenListIsIdle, DrawsIntoBackBuffer, RoundInv, Slot, Painting
<1>3. ThreadInv'
  BY <1>1 DEF ThreadInv, Painting, Closing, Slot, List
<1>4. FrameQueueInv' /\ ListQueueInv'
  BY <1>1 DEF FrameQueueInv, ListQueueInv, FrameAt, ListsAt, ListSignalAt, Slot, Painting
<1>5. QED
  BY <1>2, <1>3, <1>4

LEMMA BeginIInv ==
    ASSUME IInv, Record \/ BeginRecord
    PROVE  IInv'
<1>. USE DEF IInv
<1>1. /\ UNCHANGED <<style, mFrameDatas, frameDone, backBuffer, mCmdLists, listDone,
                     recording, cmdQueue, toRelease>>
      /\ pc = "frame"
      /\ \/ style = "record" /\ pc' = "recorded"
         \/ style = "swap" /\ pc' = "waitList"
  BY DEF Record, BeginRecord, frameVars, listVars
<1>2. Inv' /\ RoundInv'
  BY <1>1 DEF Inv, TypeOK, ThreadInv, OpenListIsIdle, DrawsIntoBackBuffer, RoundInv, Slot, Painting
<1>3. ThreadInv'
  BY <1>1 DEF ThreadInv, Painting, Closing, Slot, List
<1>4. FrameQueueInv' /\ ListQueueInv'
  BY <1>1 DEF FrameQueueInv, ListQueueInv, FrameAt, ListsAt, ListSignalAt, Slot, Painting
<1>5. QED
  BY <1>2, <1>3, <1>4

LEMMA WaitForListIInv ==
    ASSUME IInv, WaitForList
    PROVE  IInv'
<1>. USE DEF IInv
<1>1. /\ UNCHANGED <<style, mFrameDatas, frameDone, backBuffer, mCmdLists, listDone,
                     cmdQueue, toRelease>>
      /\ pc = "waitList" /\ pc' = "recording" /\ style = "swap"
      /\ listDone[Slot] >= CurrentMark(mCmdLists[Slot])
      /\ recording = {} /\ recording' = {<<Slot, List(Slot)>>}
  BY DEF WaitForList, frameVars, ThreadInv
<1>2. Slot \in Slots /\ mCmdLists[Slot] \in Manager(2) /\ List(Slot) \in Lists
  BY <1>1, CurrentSlot
<1>3. List(Slot) \notin PendingLists(Slot)
  <2>1. CurrentMark(mCmdLists[Slot]) = mCmdLists[Slot].mFrames[List(Slot) + 1]
    BY <1>1, CurrentSlot
  <2>2. QED
    BY <1>1, <1>2, <2>1, ListIsDone
<1>4. Slot' = Slot /\ List(Slot)' = List(Slot) /\ PendingLists(Slot)' = PendingLists(Slot)
  BY <1>1 DEF Slot, List, PendingLists, Pending
<1>5. OpenListIsIdle'
  <2>1. <<Slot, 1 - List(Slot)>> \notin recording'
    BY <1>1, <1>2 DEF Lists
  <2>2. QED
    BY <1>1, <1>3, <1>4, <2>1 DEF OpenListIsIdle, PendingLists, Pending
<1>6. Inv' /\ RoundInv'
  BY <1>1, <1>2, <1>5 DEF Inv, TypeOK, DrawsIntoBackBuffer, RoundInv, Slot, Painting, ThreadInv
<1>7. ThreadInv'
  BY <1>1, <1>4 DEF ThreadInv, Painting, Closing
<1>8. FrameQueueInv' /\ ListQueueInv'
  BY <1>1 DEF FrameQueueInv, ListQueueInv, FrameAt, ListsAt, ListSignalAt, Slot, Painting
<1>9. QED
  BY <1>6, <1>7, <1>8

LEMMA CloseIInv ==
    ASSUME IInv, Close
    PROVE  IInv'
<1>. USE DEF IInv
<1>1. /\ UNCHANGED <<style, mFrameDatas, frameDone, backBuffer, mCmdLists, listDone,
                     recording, cmdQueue, toRelease>>
      /\ pc = "start" /\ pc' = "close"
  BY DEF Close, frameVars, listVars
<1>2. Inv' /\ RoundInv'
  BY <1>1 DEF Inv, TypeOK, ThreadInv, OpenListIsIdle, DrawsIntoBackBuffer, RoundInv, Slot, Painting
<1>3. ThreadInv'
  BY <1>1 DEF ThreadInv, Painting, Closing, Slot, List
<1>4. FrameQueueInv' /\ ListQueueInv'
  BY <1>1 DEF FrameQueueInv, ListQueueInv, FrameAt, ListsAt, ListSignalAt, Slot, Painting
<1>5. QED
  BY <1>2, <1>3, <1>4

LEMMA DrainIInv ==
    ASSUME IInv, WaitPrevFrame \/ ClearFrameDatas
    PROVE  IInv' /\ cmdQueue = << >>
<1>. USE DEF IInv
<1>1. /\ UNCHANGED <<style, mFrameDatas, frameDone, backBuffer, mCmdLists, listDone,
                     recording, cmdQueue>>
      /\ toRelease' \in {toRelease, Slots}
      /\ \/ pc = "close" /\ pc' = "clear" /\ frameDone >= PrevMark(mFrameDatas)
         \/ pc = "clear" /\ pc' = "release"
  BY DEF WaitPrevFrame, ClearFrameDatas, frameVars, listVars
<1>2. cmdQueue = << >>
  BY <1>1, PrevFrameIsDone DEF ThreadInv, Closing
<1>3. Inv' /\ RoundInv'
  BY <1>1 DEF Inv, TypeOK, ThreadInv, OpenListIsIdle, DrawsIntoBackBuffer, RoundInv, Slot, Painting
<1>4. ThreadInv'
  BY <1>1, <1>2 DEF ThreadInv, Painting, Closing, Slot, List
<1>5. FrameQueueInv' /\ ListQueueInv'
  BY <1>1, <1>2 DEF FrameQueueInv, ListQueueInv, FrameAt, ListsAt, ListSignalAt, Slot, Painting
<1>6. QED
  BY <1>2, <1>3, <1>4, <1>5

LEMMA ReleaseSlotIInv ==
    ASSUME IInv, ReleaseSlot
    PROVE  IInv' /\ cmdQueue = << >>
<1>. USE DEF IInv
<1>1. /\ UNCHANGED <<style, backBuffer, listDone, recording, cmdQueue, swaps>>
      /\ pc = "release" /\ toRelease' \subseteq toRelease
      /\ \/ pc' = "closed" /\ mFrameDatas' = NoFrames /\ frameDone' = 0
         \/ UNCHANGED <<pc, mFrameDatas, frameDone>>
  BY DEF ReleaseSlot
<1>2. cmdQueue = << >> /\ recording = {} /\ recording' = {} /\ cmdQueue' = << >>
  BY <1>1 DEF ThreadInv, Closing
<1>3. TypeOK'
  <2>1. CASE pc' = "closed" /\ mFrameDatas' = NoFrames /\ frameDone' = 0
    BY <1>1, <1>2, <2>1, GraphicsAssumption DEF Inv, TypeOK, NoFrames
  <2>2. CASE UNCHANGED <<pc, mFrameDatas, frameDone>>
    BY <1>1, <1>2, <2>2 DEF Inv, TypeOK
  <2>3. QED
    BY <1>1, <2>1, <2>2
<1>4. Inv' /\ RoundInv'
  BY <1>1, <1>2, <1>3 DEF Inv, OpenListIsIdle, DrawsIntoBackBuffer, RoundInv, Slot, Painting, PrevMark,
                          prevFrameIndex
<1>5. ThreadInv'
  BY <1>1, <1>2 DEF ThreadInv, Painting, Closing
<1>6. FrameQueueInv' /\ ListQueueInv'
  BY <1>1, <1>2 DEF FrameQueueInv, ListQueueInv
<1>7. QED
  BY <1>2, <1>4, <1>5, <1>6

(* Executing the list: behind the list comes the signal of its Context,    *)
(* which is the new mark of the list.                                      *)
LEMMA ExecuteListIInv ==
    ASSUME IInv, pc = "recording", ExecuteList, pc' \in {"waitList", "present"}
    PROVE  IInv'
<1>. USE DEF IInv
<1>. DEFINE m == mCmdLists[Slot]
            c == RunList(Slot, List(Slot))
            d == SignalList(Slot, EndFrame(m).mCurrentFrame)
            n == Len(cmdQueue)
<1>1. /\ Slot \in Slots /\ m \in Manager(2) /\ List(Slot) \in Lists
      /\ mCmdLists \in [Slots -> Manager(2)]
  BY CurrentSlot
<1>2. /\ UNCHANGED <<style, mFrameDatas, frameDone, backBuffer, listDone, toRelease>>
      /\ recording' = {} /\ style = "swap" /\ Slot' = Slot
      /\ mCmdLists' = [mCmdLists EXCEPT ![Slot] = EndFrame(m)]
      /\ cmdQueue' = cmdQueue \o <<c, d>>
  BY <1>1 DEF ExecuteList, frameVars, ThreadInv, Slot
<1>3. /\ EndFrame(m) \in Manager(2) /\ EndFrame(m).mCurrentFrame = m.mCurrentFrame + 1
      /\ \A i \in 1..2 : EndFrame(m).mFrames[i] =
           IF i = List(Slot) + 1 THEN m.mCurrentFrame + 1 ELSE m.mFrames[i]
      /\ m.mCurrentFrame \in Nat /\ m.mFrames \in [1..2 -> Nat]
  <2>1. 2 \in Nat \ {0} /\ m \in Manager(2) /\ List(Slot) = currentFrameIndex(m)
    BY <1>1 DEF List
  <2>. HIDE DEF m
  <2>2. /\ EndFrame(m) \in Manager(2) /\ EndFrame(m).mCurrentFrame = m.mCurrentFrame + 1
        /\ \A i \in 1..2 : EndFrame(m).mFrames[i] =
             IF i = currentFrameIndex(m) + 1 THEN m.mCurrentFrame + 1 ELSE m.mFrames[i]
    BY <2>1, ManagerFacts
  <2>3. m.mCurrentFrame \in Nat /\ m.mFrames \in [1..2 -> Nat]
    BY <2>1 DEF Manager
  <2>4. QED
    BY <2>1, <2>2, <2>3
<1>4. c \in Command /\ d \in Command
  BY <1>1, <1>3 DEF RunList, SignalList, Command, Lists
<1>5. cmdQueue \in Seq(Command)
  BY DEF ThreadInv
<1>6. /\ cmdQueue' \in Seq(Command)
      /\ DOMAIN cmdQueue' = DOMAIN cmdQueue \cup {n + 1, n + 2}
      /\ n + 1 \notin DOMAIN cmdQueue /\ n + 2 \notin DOMAIN cmdQueue
      /\ cmdQueue'[n + 1] = c /\ cmdQueue'[n + 2] = d
      /\ \A i \in DOMAIN cmdQueue : cmdQueue'[i] = cmdQueue[i] /\ i < n + 1
  BY <1>2, <1>4, <1>5, AppendTwo
<1>7. /\ n \in Nat /\ \A i \in DOMAIN cmdQueue : i \in Nat /\ cmdQueue[i] \in Command
  BY <1>5, QueueFacts
<1>8. /\ c.kind = "lists" /\ c.slot = Slot /\ c.value = List(Slot)
      /\ d.kind = "list" /\ d.slot = Slot /\ d.value = m.mCurrentFrame + 1
  BY <1>3 DEF RunList, SignalList
<1>9. /\ mCmdLists' \in [Slots -> Manager(2)] /\ mCmdLists'[Slot] = EndFrame(m)
      /\ \A s \in Slots : s # Slot => mCmdLists'[s] = mCmdLists[s]
      /\ mCmdLists[Slot] = m
  BY <1>1, <1>2, <1>3
<1>. HIDE DEF m, c, d, n
<1>10. Inv'
  BY <1>2 DEF Inv, TypeOK, OpenListIsIdle, DrawsIntoBackBuffer
<1>11. ThreadInv'
  BY <1>2, <1>6, <1>9 DEF ThreadInv, Painting, Closing
<1>12. RoundInv'
  BY <1>2 DEF RoundInv, Painting
<1>13. /\ \A i \in DOMAIN cmdQueue' : FrameAt(i)' <=> i \in DOMAIN cmdQueue /\ FrameAt(i)
       /\ \A i \in DOMAIN cmdQueue' : ListsAt(i)' <=> i = n + 1 \/ (i \in DOMAIN cmdQueue /\ ListsAt(i))
       /\ \A i \in DOMAIN cmdQueue' :
            ListSignalAt(i)' <=> i = n + 2 \/ (i \in DOMAIN cmdQueue /\ ListSignalAt(i))
  BY <1>6, <1>7, <1>8 DEF FrameAt, ListsAt, ListSignalAt
<1>14. FrameQueueInv'
  <2>1. \A i \in DOMAIN cmdQueue' : FrameAt(i)' =>
          /\ frameDone' < cmdQueue'[i].value
          /\ cmdQueue'[i].value <= mFrameDatas'.mCurrentFrame
    BY <1>2, <1>6, <1>13 DEF FrameQueueInv
  <2>2. \A i, j \in DOMAIN cmdQueue' :
          i < j /\ FrameAt(i)' /\ FrameAt(j)' => cmdQueue'[i].value < cmdQueue'[j].value
    BY <1>6, <1>13 DEF FrameQueueInv
  <2>3. ASSUME NEW i \in DOMAIN cmdQueue', ListsAt(i)'
        PROVE  \/ cmdQueue'[i].slot = Slot' /\ pc' \in Painting \ {"frame", "recorded"}
               \/ \E j \in DOMAIN cmdQueue' :
                    /\ i < j /\ FrameAt(j)'
                    /\ cmdQueue'[j].value <= mFrameDatas'.mFrames[cmdQueue'[i].slot + 1]
    <3>1. CASE i = n + 1
      BY <1>2, <1>6, <1>8, <3>1 DEF Painting
    <3>2. CASE i \in DOMAIN cmdQueue /\ ListsAt(i)
      <4>1. CASE cmdQueue[i].slot = Slot
        BY <1>2, <1>6, <3>2, <4>1 DEF Painting
      <4>2. CASE cmdQueue[i].slot # Slot
        <5>1. PICK j \in DOMAIN cmdQueue :
                i < j /\ FrameAt(j)
                /\ cmdQueue[j].value <= mFrameDatas.mFrames[cmdQueue[i].slot + 1]
          BY <3>2, <4>2 DEF FrameQueueInv
        <5>2. j \in DOMAIN cmdQueue' /\ FrameAt(j)' /\ cmdQueue'[j] = cmdQueue[j]
          BY <1>6, <1>13, <5>1
        <5>3. QED
          BY <1>2, <1>6, <3>2, <5>1, <5>2
      <4>3. QED
        BY <4>1, <4>2
    <3>3. QED
      BY <1>13, <2>3, <3>1, <3>2
  <2>4. QED
    BY <2>1, <2>2, <2>3 DEF FrameQueueInv
<1>15. ListQueueInv'
  <2>0. \A s \in Slots : /\ listDone[s] \in Nat /\ mCmdLists[s].mCurrentFrame \in Nat
                         /\ listDone[s] <= mCmdLists[s].mCurrentFrame
    BY <1>1 DEF ListQueueInv, Inv, TypeOK, Manager
  <2>1. \A s \in Slots : listDone'[s] <= mCmdLists'[s].mCurrentFrame
    BY <1>1, <1>2, <1>3, <1>9, <2>0
  <2>2. \A i \in DOMAIN cmdQueue : ListSignalAt(i) =>
          /\ cmdQueue[i].slot \in Slots /\ cmdQueue[i].value \in Nat
          /\ listDone[cmdQueue[i].slot] < cmdQueue[i].value
          /\ cmdQueue[i].value <= mCmdLists[cmdQueue[i].slot].mCurrentFrame
    BY <1>7 DEF ListQueueInv, Command, ListSignalAt
  <2>3. ASSUME NEW i \in DOMAIN cmdQueue', ListSignalAt(i)'
        PROVE  /\ listDone'[cmdQueue'[i].slot] < cmdQueue'[i].value
               /\ cmdQueue'[i].value <= mCmdLists'[cmdQueue'[i].slot].mCurrentFrame
    <3>1. CASE i = n + 2
      <4>1. /\ cmdQueue'[i].slot = Slot /\ cmdQueue'[i].value = m.mCurrentFrame + 1
            /\ listDone'[Slot] = listDone[Slot] /\ mCmdLists'[Slot].mCurrentFrame = m.mCurrentFrame + 1
        BY <1>2, <1>3, <1>6, <1>8, <1>9, <3>1
      <4>2. listDone[Slot] \in Nat /\ listDone[Slot] <= m.mCurrentFrame
        BY <1>1, <1>9, <2>0
      <4>3. QED
        BY <1>3, <4>1, <4>2
    <3>2. CASE i \in DOMAIN cmdQueue /\ ListSignalAt(i)
      <4>1. CASE cmdQueue[i].slot = Slot
        <5>1. /\ cmdQueue'[i] = cmdQueue[i] /\ listDone' = listDone
              /\ cmdQueue[i].value <= m.mCurrentFrame /\ cmdQueue[i].value \in Nat
              /\ listDone[cmdQueue[i].slot] < cmdQueue[i].value
          BY <1>2, <1>6, <1>9, <2>2, <3>2, <4>1
        <5>2. mCmdLists'[cmdQueue[i].slot].mCurrentFrame = m.mCurrentFrame + 1
          BY <1>3, <1>9, <4>1
        <5>3. QED
          BY <1>3, <5>1, <5>2
      <4>2. CASE cmdQueue[i].slot # Slot
        BY <1>2, <1>6, <1>9, <2>2, <3>2, <4>2
      <4>3. QED
        BY <4>1, <4>2
    <3>3. QED
      BY <1>13, <2>3, <3>1, <3>2
  <2>4. ASSUME NEW i \in DOMAIN cmdQueue', NEW j \in DOMAIN cmdQueue', i < j,
               ListSignalAt(i)', ListSignalAt(j)', cmdQueue'[i].slot = cmdQueue'[j].slot
        PROVE  cmdQueue'[i].value < cmdQueue'[j].value
    <3>1. i # n + 2
      BY <1>6, <1>7, <2>4
    <3>2. i \in DOMAIN cmdQueue /\ ListSignalAt(i) /\ cmdQueue'[i] = cmdQueue[i]
      BY <1>6, <1>13, <2>4, <3>1
    <3>3. CASE j = n + 2
      <4>1. cmdQueue[i].slot = Slot /\ cmdQueue'[j].value = m.mCurrentFrame + 1
        BY <1>6, <1>8, <2>4, <3>2, <3>3
      <4>2. cmdQueue[i].value <= m.mCurrentFrame /\ cmdQueue[i].value \in Nat
        BY <1>9, <2>2, <3>2, <4>1
      <4>3. QED
        BY <1>3, <3>2, <4>1, <4>2
    <3>4. CASE j \in DOMAIN cmdQueue /\ ListSignalAt(j)
      BY <1>6, <2>4, <3>2, <3>4 DEF ListQueueInv
    <3>5. QED
      BY <1>13, <2>4, <3>3, <3>4
  <2>5. ASSUME NEW i \in DOMAIN cmdQueue', ListsAt(i)'
        PROVE  \E j \in DOMAIN cmdQueue' :
                 /\ i < j /\ ListSignalAt(j)' /\ cmdQueue'[j].slot = cmdQueue'[i].slot
                 /\ cmdQueue'[j].value <=
                      mCmdLists'[cmdQueue'[i].slot].mFrames[cmdQueue'[i].value + 1]
    <3>1. CASE i = n + 1
      <4>1. PICK j \in DOMAIN cmdQueue' : j = n + 2
        BY <1>6
      <4>2. cmdQueue'[j] = d /\ cmdQueue'[i] = c /\ i < j /\ ListSignalAt(j)'
        BY <1>6, <1>7, <1>13, <3>1, <4>1
      <4>3. mCmdLists'[cmdQueue'[i].slot].mFrames[cmdQueue'[i].value + 1] = m.mCurrentFrame + 1
        <5>1. /\ cmdQueue'[i].slot = Slot /\ cmdQueue'[i].value = List(Slot)
              /\ mCmdLists'[Slot] = EndFrame(m)
          BY <1>6, <1>8, <1>9, <3>1
        <5>2. List(Slot) + 1 \in 1..2
          BY <1>1 DEF Lists
        <5>3. QED
          BY <1>3, <5>1, <5>2
      <4>4. m.mCurrentFrame + 1 <= m.mCurrentFrame + 1
        BY <1>3
      <4>5. QED
        BY <1>8, <4>2, <4>3, <4>4
    <3>2. CASE i \in DOMAIN cmdQueue /\ ListsAt(i)
      <4>1. PICK j \in DOMAIN cmdQueue :
              /\ i < j /\ ListSignalAt(j) /\ cmdQueue[j].slot = cmdQueue[i].slot
              /\ cmdQueue[j].value <= mCmdLists[cmdQueue[i].slot].mFrames[cmdQueue[i].value + 1]
        BY <1>2, <3>2 DEF ListQueueInv
      <4>2. /\ j \in DOMAIN cmdQueue' /\ ListSignalAt(j)' /\ cmdQueue'[j] = cmdQueue[j]
            /\ cmdQueue'[i] = cmdQueue[i]
        BY <1>6, <1>13, <3>2, <4>1
      <4>3. /\ cmdQueue[i].slot \in Slots /\ cmdQueue[i].value \in Nat
            /\ cmdQueue[j].value \in Nat /\ cmdQueue[i].value + 1 \in 1..2
        <5>1. cmdQueue[i] \in Command /\ cmdQueue[i].kind = "lists" /\ cmdQueue[j] \in Command
          BY <1>7, <3>2 DEF ListsAt
        <5>2. cmdQueue[i].slot \in Slots /\ cmdQueue[i].value \in Lists /\ cmdQueue[j].value \in Nat
          BY <5>1 DEF Command, Lists
        <5>3. QED
          BY <5>2 DEF Lists
      <4>4. CASE cmdQueue[i].slot # Slot
        BY <1>9, <4>1, <4>2, <4>3, <4>4
      <4>5. CASE cmdQueue[i].slot = Slot /\ cmdQueue[i].value = List(Slot)
        <5>1. cmdQueue[j].value <= m.mCurrentFrame
          BY <1>9, <2>2, <4>1, <4>5
        <5>2. EndFrame(m).mFrames[cmdQueue[i].value + 1] = m.mCurrentFrame + 1
          BY <1>1, <1>3, <4>5 DEF Lists
        <5>3. QED
          BY <1>3, <1>9, <4>1, <4>2, <4>3, <4>5, <5>1, <5>2
      <4>6. CASE cmdQueue[i].slot = Slot /\ cmdQueue[i].value # List(Slot)
        <5>1. EndFrame(m).mFrames[cmdQueue[i].value + 1] = m.mFrames[cmdQueue[i].value + 1]
          <6>1. cmdQueue[i].value + 1 # List(Slot) + 1
            BY <1>1, <4>3, <4>6 DEF Lists
          <6>2. QED
            BY <1>3, <4>3, <6>1
        <5>2. QED
          BY <1>9, <4>1, <4>2, <4>6, <5>1
      <4>7. QED
        BY <4>4, <4>5, <4>6
    <3>3. QED
      BY <1>13, <2>5, <3>1, <3>2
  <2>6. QED
    BY <2>1, <2>3, <2>4, <2>5 DEF ListQueueInv
<1>16. QED
  BY <1>10, <1>11, <1>12, <1>14, <1>15

LEMMA EndOfListIInv ==
    ASSUME IInv, ExecuteAndSwap \/ EndRecord
    PROVE  IInv'
BY ExecuteListIInv DEF ExecuteAndSwap, EndRecord

(* Presenting: the list of a scene that records once goes into the queue.  *)
LEMMA PresentIInv ==
    ASSUME IInv, Present
    PROVE  IInv'
<1>. USE DEF IInv
<1>. DEFINE c == RunList(Slot, List(Slot))
            n == Len(cmdQueue)
<1>1. /\ UNCHANGED <<style, mFrameDatas, frameDone, mCmdLists, listDone, recording, toRelease>>
      /\ pc \in {"recorded", "present"} /\ pc' = "presented" /\ recording = {}
      /\ backBuffer' = (backBuffer + 1) % BufferCount /\ backBuffer = Slot
      /\ Slot' = Slot
  BY DEF Present, listVars, ThreadInv, RoundInv, Slot, Painting
<1>2. /\ Slot \in Slots /\ List(Slot) \in Lists /\ BufferCount \in Nat \ {0}
  BY <1>1, CurrentSlot
<1>3. c \in Command /\ c.kind = "lists" /\ c.slot = Slot
  BY <1>2 DEF RunList, Command
<1>4. cmdQueue \in Seq(Command)
  BY DEF ThreadInv
<1>5. Inv'
  <2>1. backBuffer' \in Slots
    BY <1>1, <1>2 DEF Slots
  <2>2. QED
    BY <1>1, <2>1 DEF Inv, TypeOK, OpenListIsIdle, DrawsIntoBackBuffer
<1>6. RoundInv'
  BY <1>1 DEF RoundInv, Painting
<1>7. CASE pc = "present"
  <2>1. cmdQueue' = cmdQueue
    BY <1>7 DEF Present
  <2>2. ThreadInv'
    BY <1>1, <1>7, <2>1 DEF ThreadInv, Painting, Closing
  <2>3. FrameQueueInv' /\ ListQueueInv'
    BY <1>1, <1>7, <2>1 DEF FrameQueueInv, ListQueueInv, FrameAt, ListsAt, ListSignalAt, Painting
  <2>4. QED
    BY <1>5, <1>6, <2>2, <2>3
<1>8. CASE pc = "recorded"
  <2>1. cmdQueue' = Append(cmdQueue, c) /\ style = "record"
    BY <1>8 DEF Present, ThreadInv
  <2>2. /\ cmdQueue' \in Seq(Command)
        /\ DOMAIN cmdQueue' = DOMAIN cmdQueue \cup {n + 1}
        /\ n + 1 \notin DOMAIN cmdQueue /\ cmdQueue'[n + 1] = c
        /\ \A i \in DOMAIN cmdQueue : cmdQueue'[i] = cmdQueue[i] /\ i < n + 1
    BY <1>3, <1>4, <2>1, AppendTo
  <2>. HIDE DEF c, n
  <2>3. /\ \A i \in DOMAIN cmdQueue' : FrameAt(i)' <=> i \in DOMAIN cmdQueue /\ FrameAt(i)
        /\ \A i \in DOMAIN cmdQueue' : ListSignalAt(i)' <=> i \in DOMAIN cmdQueue /\ ListSignalAt(i)
        /\ \A i \in DOMAIN cmdQueue' :
             ListsAt(i)' <=> i = n + 1 \/ (i \in DOMAIN cmdQueue /\ ListsAt(i))
    BY <1>3, <2>2 DEF FrameAt, ListsAt, ListSignalAt
  <2>4. ThreadInv'
    BY <1>1, <1>8, <2>1, <2>2 DEF ThreadInv, Painting, Closing
  <2>5. ASSUME NEW i \in DOMAIN cmdQueue', ListsAt(i)'
        PROVE  \/ cmdQueue'[i].slot = Slot' /\ pc' \in Painting \ {"frame", "recorded"}
               \/ \E j \in DOMAIN cmdQueue' :
                    /\ i < j /\ FrameAt(j)'
                    /\ cmdQueue'[j].value <= mFrameDatas'.mFrames[cmdQueue'[i].slot + 1]
    <3>1. CASE i = n + 1
      BY <1>1, <1>3, <2>2, <3>1 DEF Painting
    <3>2. CASE i \in DOMAIN cmdQueue /\ ListsAt(i)
      <4>1. PICK j \in DOMAIN cmdQueue :
              i < j /\ FrameAt(j)
              /\ cmdQueue[j].value <= mFrameDatas.mFrames[cmdQueue[i].slot + 1]
        BY <1>8, <3>2 DEF FrameQueueInv
      <4>2. j \in DOMAIN cmdQueue' /\ FrameAt(j)' /\ cmdQueue'[j] = cmdQueue[j]
        BY <2>2, <2>3, <4>1
      <4>3. QED
        BY <1>1, <2>2, <3>2, <4>1, <4>2
    <3>3. QED
      BY <2>3, <2>5, <3>1, <3>2
  <2>6. FrameQueueInv'
    <3>1. \A i \in DOMAIN cmdQueue' : FrameAt(i)' =>
            /\ frameDone' < cmdQueue'[i].value
            /\ cmdQueue'[i].value <= mFrameDatas'.mCurrentFrame
      BY <1>1, <2>2, <2>3 DEF FrameQueueInv
    <3>2. \A i, j \in DOMAIN cmdQueue' :
            i < j /\ FrameAt(i)' /\ FrameAt(j)' => cmdQueue'[i].value < cmdQueue'[j].value
      BY <2>2, <2>3 DEF FrameQueueInv
    <3>3. QED
      BY <1>1, <2>5, <3>1, <3>2 DEF FrameQueueInv
  <2>7. ListQueueInv'
    BY <1>1, <1>8, <2>1, <2>2, <2>3 DEF ListQueueInv
  <2>8. QED
    BY <1>5, <1>6, <2>4, <2>6, <2>7
<1>9. QED
  BY <1>1, <1>7, <1>8

(* Ending the frame: the slot's lists get the signal that is its new mark. *)
LEMMA EndAndGoNextFrameIInv ==
    ASSUME IInv, EndAndGoNextFrame
    PROVE  IInv'
<1>. USE DEF IInv
<1>. DEFINE m == mFrameDatas
            c == SignalFrame(m.mCurrentFrame + 1)
            n == Len(cmdQueue)
<1>1. /\ UNCHANGED <<style, frameDone, backBuffer, mCmdLists, listDone, recording, toRelease>>
      /\ pc = "presented" /\ pc' = "start" /\ recording = {}
      /\ mFrameDatas' = EndFrame(m)
      /\ backBuffer = (Slot + 1) % BufferCount /\ m.mCurrentFrame < MaxFrame
  BY DEF EndAndGoNextFrame, listVars, ThreadInv, RoundInv, Painting
<1>2. /\ Slot \in Slots /\ BufferCount \in Nat \ {0} /\ m \in Manager(BufferCount)
      /\ Slot = currentFrameIndex(m)
  BY <1>1, CurrentSlot DEF Slot
<1>3. m.mCurrentFrame \in Nat /\ m.mFrames \in [1..BufferCount -> Nat]
  BY <1>2 DEF Manager
<1>4. /\ mFrameDatas' \in Manager(BufferCount)
      /\ mFrameDatas'.mCurrentFrame = m.mCurrentFrame + 1
      /\ \A i \in 1..BufferCount : mFrameDatas'.mFrames[i] =
           IF i = Slot + 1 THEN m.mCurrentFrame + 1 ELSE m.mFrames[i]
      /\ currentFrameIndex(mFrameDatas') = (Slot + 1) % BufferCount
      /\ PrevMark(mFrameDatas') = m.mCurrentFrame + 1
  <2>. HIDE DEF m
  <2>1. QED
    BY <1>1, <1>2, ManagerFacts
<1>5. Slot' = backBuffer /\ mFrameDatas'.mFrames \in [1..BufferCount -> Nat]
  BY <1>1, <1>4 DEF Slot, Manager
<1>6. c \in Command /\ c.kind = "frame" /\ c.value = m.mCurrentFrame + 1
  BY <1>2, <1>3 DEF SignalFrame, Command, Slots
<1>7. /\ cmdQueue \in Seq(Command) /\ cmdQueue' = Append(cmdQueue, c)
  BY <1>1, <1>4 DEF ThreadInv, EndAndGoNextFrame
<1>8. /\ cmdQueue' \in Seq(Command) /\ Len(cmdQueue') = n + 1
      /\ DOMAIN cmdQueue' = DOMAIN cmdQueue \cup {n + 1}
      /\ n + 1 \notin DOMAIN cmdQueue /\ cmdQueue'[n + 1] = c
      /\ \A i \in DOMAIN cmdQueue : cmdQueue'[i] = cmdQueue[i] /\ i < n + 1
  BY <1>6, <1>7, AppendTo
<1>9. n \in Nat /\ \A i \in DOMAIN cmdQueue : i \in Nat /\ cmdQueue[i] \in Command
  BY <1>7, QueueFacts
<1>. HIDE DEF c, n, m
<1>10. /\ \A i \in DOMAIN cmdQueue' : ListsAt(i)' <=> i \in DOMAIN cmdQueue /\ ListsAt(i)
       /\ \A i \in DOMAIN cmdQueue' : ListSignalAt(i)' <=> i \in DOMAIN cmdQueue /\ ListSignalAt(i)
       /\ \A i \in DOMAIN cmdQueue' :
            FrameAt(i)' <=> i = n + 1 \/ (i \in DOMAIN cmdQueue /\ FrameAt(i))
  BY <1>6, <1>8 DEF FrameAt, ListsAt, ListSignalAt
<1>11. TypeOK'
  <2>1. m.mCurrentFrame + 1 \in 0..MaxFrame
    BY <1>1, <1>3, GraphicsAssumption
  <2>2. \A i \in 1..BufferCount : mFrameDatas'.mFrames[i] \in 0..(m.mCurrentFrame + 1)
    <3>1. \A i \in 1..BufferCount : m.mFrames[i] \in 0..m.mCurrentFrame
      BY <1>3 DEF Inv, TypeOK, m
    <3>2. QED
      BY <1>3, <1>4, <3>1
  <2>3. DOMAIN mFrameDatas'.mFrames = 1..BufferCount
    BY <1>5
  <2>4. frameDone \in 0..(m.mCurrentFrame + 1)
    BY <1>3 DEF Inv, TypeOK, m
  <2>5. QED
    BY <1>1, <1>4, <2>1, <2>2, <2>3, <2>4 DEF Inv, TypeOK
<1>12. Inv'
  BY <1>1, <1>11 DEF Inv, OpenListIsIdle, DrawsIntoBackBuffer
<1>13. ThreadInv'
  BY <1>1, <1>4, <1>8 DEF ThreadInv, Painting, Closing
<1>14. RoundInv'
  BY <1>1, <1>4, <1>5 DEF RoundInv, Painting
<1>15. \A i \in DOMAIN cmdQueue : FrameAt(i) =>
         /\ frameDone < cmdQueue[i].value /\ cmdQueue[i].value <= m.mCurrentFrame
         /\ cmdQueue[i].value \in Nat
  BY <1>9 DEF FrameQueueInv, FrameAt, Command, Lists, m
<1>16. FrameQueueInv'
  <2>1. ASSUME NEW i \in DOMAIN cmdQueue', FrameAt(i)'
        PROVE  /\ frameDone' < cmdQueue'[i].value
               /\ cmdQueue'[i].value <= mFrameDatas'.mCurrentFrame
    <3>1. CASE i = n + 1
      <4>1. frameDone \in Int /\ frameDone <= m.mCurrentFrame
        BY <1>3 DEF Inv, TypeOK, m
      <4>2. QED
        BY <1>1, <1>3, <1>4, <1>6, <1>8, <3>1, <4>1
    <3>2. CASE i \in DOMAIN cmdQueue /\ FrameAt(i)
      BY <1>1, <1>3, <1>4, <1>8, <1>15, <3>2
    <3>3. QED
      BY <1>10, <2>1, <3>1, <3>2
  <2>2. ASSUME NEW i \in DOMAIN cmdQueue', NEW j \in DOMAIN cmdQueue',
               i < j, FrameAt(i)', FrameAt(j)'
        PROVE  cmdQueue'[i].value < cmdQueue'[j].value
    <3>1. i # n + 1
      BY <1>8, <1>9, <2>2
    <3>2. i \in DOMAIN cmdQueue /\ FrameAt(i) /\ cmdQueue'[i] = cmdQueue[i]
      BY <1>8, <1>10, <2>2, <3>1
    <3>3. CASE j = n + 1
      BY <1>3, <1>6, <1>8, <1>15, <3>2, <3>3
    <3>4. CASE j \in DOMAIN cmdQueue /\ FrameAt(j)
      BY <1>8, <2>2, <3>2, <3>4 DEF FrameQueueInv
    <3>5. QED
      BY <1>10, <2>2, <3>3, <3>4
  <2>3. ASSUME NEW i \in DOMAIN cmdQueue', ListsAt(i)'
        PROVE  \E j \in DOMAIN cmdQueue' :
                 /\ i < j /\ FrameAt(j)'
                 /\ cmdQueue'[j].value <= mFrameDatas'.mFrames[cmdQueue'[i].slot + 1]
    <3>1. i \in DOMAIN cmdQueue /\ ListsAt(i) /\ cmdQueue'[i] = cmdQueue[i] /\ i < n + 1
      BY <1>8, <1>10, <2>3
    <3>2. cmdQueue[i].slot \in Slots /\ cmdQueue[i].slot + 1 \in 1..BufferCount
      BY <1>2, <1>9, <3>1 DEF Command, Slots
    <3>3. CASE cmdQueue[i].slot = Slot
      <4>1. PICK j \in DOMAIN cmdQueue' : j = n + 1
        BY <1>8
      <4>2. FrameAt(j)' /\ cmdQueue'[j].value = m.mCurrentFrame + 1
        BY <1>6, <1>8, <1>10, <4>1
      <4>3. mFrameDatas'.mFrames[cmdQueue'[i].slot + 1] = m.mCurrentFrame + 1
        BY <1>4, <3>1, <3>2, <3>3
      <4>4. m.mCurrentFrame + 1 <= m.mCurrentFrame + 1
        BY <1>3
      <4>5. QED
        BY <3>1, <4>1, <4>2, <4>3, <4>4
    <3>4. CASE cmdQueue[i].slot # Slot
      <4>1. PICK j \in DOMAIN cmdQueue :
              i < j /\ FrameAt(j) /\ cmdQueue[j].value <= m.mFrames[cmdQueue[i].slot + 1]
        BY <3>1, <3>4 DEF FrameQueueInv, m
      <4>2. j \in DOMAIN cmdQueue' /\ FrameAt(j)' /\ cmdQueue'[j] = cmdQueue[j]
        BY <1>8, <1>10, <4>1
      <4>3. cmdQueue[i].slot + 1 # Slot + 1
        BY <1>2, <3>2, <3>4 DEF Slots
      <4>4. mFrameDatas'.mFrames[cmdQueue'[i].slot + 1] = m.mFrames[cmdQueue[i].slot + 1]
        BY <1>4, <3>1, <3>2, <4>3
      <4>5. QED
        BY <4>1, <4>2, <4>4
    <3>5. QED
      BY <3>3, <3>4
  <2>4. FrameAt(Len(cmdQueue))' /\ cmdQueue'[Len(cmdQueue')].value = mFrameDatas'.mCurrentFrame
    BY <1>4, <1>6, <1>8 DEF FrameAt
  <2>5. QED
    BY <2>1, <2>2, <2>3, <2>4 DEF FrameQueueInv
<1>17. ListQueueInv'
  <2>1. style = "swap" =>
          \A i \in DOMAIN cmdQueue' : ListsAt(i)' =>
            \E j \in DOMAIN cmdQueue' :
              /\ i < j /\ ListSignalAt(j)' /\ cmdQueue'[j].slot = cmdQueue'[i].slot
              /\ cmdQueue'[j].value <= mCmdLists'[cmdQueue'[i].slot].mFrames[cmdQueue'[i].value + 1]
    <3>. SUFFICES ASSUME style = "swap", NEW i \in DOMAIN cmdQueue', ListsAt(i)'
                  PROVE  \E j \in DOMAIN cmdQueue' :
                           /\ i < j /\ ListSignalAt(j)' /\ cmdQueue'[j].slot = cmdQueue'[i].slot
                           /\ cmdQueue'[j].value <=
                                mCmdLists'[cmdQueue'[i].slot].mFrames[cmdQueue'[i].value + 1]
      OBVIOUS
    <3>1. i \in DOMAIN cmdQueue /\ ListsAt(i) /\ cmdQueue'[i] = cmdQueue[i]
      BY <1>8, <1>10
    <3>2. PICK j \in DOMAIN cmdQueue :
            /\ i < j /\ ListSignalAt(j) /\ cmdQueue[j].slot = cmdQueue[i].slot
            /\ cmdQueue[j].value <= mCmdLists[cmdQueue[i].slot].mFrames[cmdQueue[i].value + 1]
      BY <3>1 DEF ListQueueInv
    <3>3. j \in DOMAIN cmdQueue' /\ ListSignalAt(j)' /\ cmdQueue'[j] = cmdQueue[j]
      BY <1>8, <1>10, <3>2
    <3>4. QED
      BY <1>1, <3>1, <3>2, <3>3
  <2>2. QED
    BY <1>1, <1>8, <1>10, <2>1 DEF ListQueueInv
<1>18. QED
  BY <1>12, <1>13, <1>14, <1>16, <1>17

(* The GPU takes the head of the queue: what is left moves up by one, and  *)
(* the fence it sets is still behind the signals that are left.            *)
LEMMA GpuRunsIInv ==
    ASSUME IInv, GpuRuns
    PROVE  IInv'
<1>. USE DEF IInv
<1>. DEFINE h == cmdQueue[1]
<1>1. /\ UNCHANGED <<style, mFrameDatas, backBuffer, mCmdLists, recording, pc, toRelease>>
      /\ cmdQueue # << >> /\ cmdQueue' = Tail(cmdQueue) /\ cmdQueue \in Seq(Command)
      /\ pc \notin Closing
  BY DEF GpuRuns, ThreadInv
<1>2. /\ Len(cmdQueue) \in DOMAIN cmdQueue /\ Head(cmdQueue) = h /\ 1 \in DOMAIN cmdQueue
      /\ cmdQueue' \in Seq(Command)
      /\ DOMAIN cmdQueue = 1..Len(cmdQueue) /\ Len(cmdQueue) \in Nat
      /\ DOMAIN cmdQueue' = 1..(Len(cmdQueue) - 1) /\ Len(cmdQueue') = Len(cmdQueue) - 1
      /\ \A i \in DOMAIN cmdQueue' : /\ cmdQueue'[i] = cmdQueue[i + 1]
                                     /\ i \in Nat /\ i > 0 /\ i + 1 \in DOMAIN cmdQueue
      /\ \A i \in DOMAIN cmdQueue : cmdQueue[i] \in Command
      /\ \A i \in DOMAIN cmdQueue : i > 1 => i - 1 \in DOMAIN cmdQueue'
  BY <1>1, QueueFacts
<1>3. /\ frameDone' = IF FrameAt(1) THEN h.value ELSE frameDone
      /\ listDone' = IF ListSignalAt(1) THEN [listDone EXCEPT ![h.slot] = h.value] ELSE listDone
  BY <1>2 DEF GpuRuns, FrameAt, ListSignalAt
<1>4. /\ \A i \in DOMAIN cmdQueue' : FrameAt(i)' <=> FrameAt(i + 1)
      /\ \A i \in DOMAIN cmdQueue' : ListsAt(i)' <=> ListsAt(i + 1)
      /\ \A i \in DOMAIN cmdQueue' : ListSignalAt(i)' <=> ListSignalAt(i + 1)
  BY <1>2 DEF FrameAt, ListsAt, ListSignalAt
<1>5. /\ pc \notin {"release", "closed"} /\ pc # "closed"
      /\ Slot \in Slots /\ mCmdLists \in [Slots -> Manager(2)]
      /\ Slot' = Slot /\ List(Slot)' = List(Slot)
  BY <1>1, CurrentSlot DEF Closing, Slot, List
<1>6. /\ frameDone \in Nat /\ mFrameDatas.mCurrentFrame \in Nat
      /\ frameDone <= mFrameDatas.mCurrentFrame
  BY DEF Inv, TypeOK
<1>7. /\ frameDone' \in Nat /\ frameDone <= frameDone'
      /\ frameDone' <= mFrameDatas.mCurrentFrame
      /\ \A i \in DOMAIN cmdQueue : i > 1 /\ FrameAt(i) => frameDone' < cmdQueue[i].value
  <2>1. CASE FrameAt(1)
    <3>1. frameDone < h.value /\ h.value <= mFrameDatas.mCurrentFrame
      BY <1>2, <2>1 DEF FrameQueueInv
    <3>2. h \in Command
      BY <1>2
    <3>3. h.value \in Nat
      BY <3>2 DEF Command, Lists
    <3>4. \A i \in DOMAIN cmdQueue : i > 1 /\ FrameAt(i) => h.value < cmdQueue[i].value
      BY <1>2, <2>1 DEF FrameQueueInv
    <3>5. QED
      BY <1>3, <1>6, <2>1, <3>1, <3>3, <3>4
  <2>2. CASE ~FrameAt(1)
    BY <1>3, <1>6, <2>2 DEF FrameQueueInv
  <2>3. QED
    BY <2>1, <2>2
<1>8. listDone \in [Slots -> Nat]
  BY DEF Inv, TypeOK
<1>9. \A s \in Slots : mCmdLists[s].mCurrentFrame \in Nat
  BY <1>5 DEF Manager
<1>10. /\ listDone' \in [Slots -> Nat]
       /\ \A s \in Slots : listDone'[s] <= mCmdLists[s].mCurrentFrame
       /\ \A i \in DOMAIN cmdQueue : i > 1 /\ ListSignalAt(i) =>
            listDone'[cmdQueue[i].slot] < cmdQueue[i].value
  <2>1. CASE ListSignalAt(1)
    <3>1. h \in Command /\ h.kind = "list"
      BY <1>2, <2>1 DEF ListSignalAt
    <3>2. h.slot \in Slots /\ h.value \in Nat
      BY <3>1 DEF Command, Lists
    <3>3. h.value <= mCmdLists[h.slot].mCurrentFrame
      BY <1>2, <2>1 DEF ListQueueInv
    <3>4. listDone' = [listDone EXCEPT ![h.slot] = h.value]
      BY <1>3, <2>1
    <3>. HIDE DEF h
    <3>5. listDone' \in [Slots -> Nat]
      BY <1>8, <3>2, <3>4
    <3>6. ASSUME NEW s \in Slots
          PROVE  listDone'[s] <= mCmdLists[s].mCurrentFrame
      BY <1>5, <1>8, <3>2, <3>3, <3>4 DEF ListQueueInv
    <3>7. ASSUME NEW i \in DOMAIN cmdQueue, i > 1, ListSignalAt(i)
          PROVE  listDone'[cmdQueue[i].slot] < cmdQueue[i].value
      <4>1. cmdQueue[i] \in Command /\ cmdQueue[i].kind = "list"
        BY <1>2, <3>7 DEF ListSignalAt
      <4>2. cmdQueue[i].slot \in Slots
        BY <4>1 DEF Command
      <4>3. CASE cmdQueue[i].slot = h.slot
        <5>1. h.value < cmdQueue[i].value
          BY <1>2, <2>1, <3>7, <4>3 DEF ListQueueInv, h
        <5>2. listDone'[cmdQueue[i].slot] = h.value
          BY <1>8, <3>2, <3>4, <4>3
        <5>3. QED
          BY <5>1, <5>2
      <4>4. CASE cmdQueue[i].slot # h.slot
        <5>1. listDone'[cmdQueue[i].slot] = listDone[cmdQueue[i].slot]
          BY <1>8, <3>4, <4>2, <4>4
        <5>2. QED
          BY <3>7, <5>1 DEF ListQueueInv
      <4>5. QED
        BY <4>3, <4>4
    <3>8. QED
      BY <3>5, <3>6, <3>7
  <2>2. CASE ~ListSignalAt(1)
    BY <1>3, <1>5, <1>8, <2>2 DEF ListQueueInv
  <2>3. QED
    BY <2>1, <2>2
<1>. HIDE DEF h
<1>11. TypeOK'
  BY <1>1, <1>6, <1>7, <1>10 DEF Inv, TypeOK
<1>12. OpenListIsIdle'
  <2>1. ASSUME NEW s, NEW v, v \in PendingLists(s)'
        PROVE  v \in PendingLists(s)
    <3>1. PICK i \in DOMAIN cmdQueue' :
            cmdQueue'[i].kind = "lists" /\ cmdQueue'[i].slot = s /\ cmdQueue'[i].value = v
      BY <2>1 DEF PendingLists, Pending
    <3>2. /\ i + 1 \in DOMAIN cmdQueue /\ ListsAt(i + 1)
          /\ cmdQueue[i + 1].slot = s /\ cmdQueue[i + 1].value = v
      BY <1>2, <3>1 DEF ListsAt
    <3>3. QED
      BY <3>2, PendingIs
  <2>2. QED
    BY <1>1, <2>1 DEF Inv, OpenListIsIdle
<1>13. Inv' /\ RoundInv'
  BY <1>1, <1>5, <1>11, <1>12 DEF Inv, DrawsIntoBackBuffer, RoundInv
<1>14. ThreadInv'
  <2>1. pc = "frame" => frameDone' >= CurrentMark(mFrameDatas)
    <3>1. CurrentMark(mFrameDatas) \in Nat
      BY <1>5, GraphicsAssumption, ManagerFacts DEF ThreadInv
    <3>2. QED
      BY <1>6, <1>7, <3>1 DEF ThreadInv
  <2>2. QED
    BY <1>1, <1>2, <1>5, <2>1 DEF ThreadInv
<1>15. FrameQueueInv'
  <2>1. \A i \in DOMAIN cmdQueue' : FrameAt(i)' =>
          /\ frameDone' < cmdQueue'[i].value
          /\ cmdQueue'[i].value <= mFrameDatas'.mCurrentFrame
    BY <1>1, <1>2, <1>4, <1>7 DEF FrameQueueInv
  <2>2. \A i, j \in DOMAIN cmdQueue' :
          i < j /\ FrameAt(i)' /\ FrameAt(j)' => cmdQueue'[i].value < cmdQueue'[j].value
    BY <1>2, <1>4 DEF FrameQueueInv
  <2>3. ASSUME NEW i \in DOMAIN cmdQueue', ListsAt(i)'
        PROVE  \/ cmdQueue'[i].slot = Slot' /\ pc' \in Painting \ {"frame", "recorded"}
               \/ \E j \in DOMAIN cmdQueue' :
                    /\ i < j /\ FrameAt(j)'
                    /\ cmdQueue'[j].value <= mFrameDatas'.mFrames[cmdQueue'[i].slot + 1]
    <3>1. i + 1 \in DOMAIN cmdQueue /\ ListsAt(i + 1) /\ cmdQueue'[i] = cmdQueue[i + 1]
      BY <1>2, <1>4, <2>3
    <3>2. CASE cmdQueue[i + 1].slot = Slot /\ pc \in Painting \ {"frame", "recorded"}
      BY <1>1, <1>5, <3>1, <3>2
    <3>3. CASE \E j \in DOMAIN cmdQueue :
                 /\ i + 1 < j /\ FrameAt(j)
                 /\ cmdQueue[j].value <= mFrameDatas.mFrames[cmdQueue[i + 1].slot + 1]
      <4>1. PICK j \in DOMAIN cmdQueue :
                 /\ i + 1 < j /\ FrameAt(j)
                 /\ cmdQueue[j].value <= mFrameDatas.mFrames[cmdQueue[i + 1].slot + 1]
        BY <3>3
      <4>2. PICK k \in DOMAIN cmdQueue' : k = j - 1
        BY <1>2, <4>1
      <4>3. i < k /\ j = k + 1 /\ FrameAt(k)' /\ cmdQueue'[k] = cmdQueue[j]
        BY <1>2, <1>4, <4>1, <4>2
      <4>4. QED
        BY <1>1, <3>1, <4>1, <4>3
    <3>4. QED
      BY <3>1, <3>2, <3>3 DEF FrameQueueInv
  <2>4. pc' \in {"start", "close"} /\ cmdQueue' # << >> =>
          /\ FrameAt(Len(cmdQueue))'
          /\ cmdQueue'[Len(cmdQueue')].value = mFrameDatas'.mCurrentFrame
    <3>. SUFFICES ASSUME pc' \in {"start", "close"}, cmdQueue' # << >>
                  PROVE  /\ FrameAt(Len(cmdQueue))'
                         /\ cmdQueue'[Len(cmdQueue')].value = mFrameDatas'.mCurrentFrame
      OBVIOUS
    <3>1. Len(cmdQueue') \in DOMAIN cmdQueue'
      BY <1>2, QueueFacts
    <3>2. cmdQueue'[Len(cmdQueue')] = cmdQueue[Len(cmdQueue)]
      <4>1. PICK k \in DOMAIN cmdQueue' : k = Len(cmdQueue')
        BY <3>1
      <4>2. cmdQueue'[k] = cmdQueue[k + 1]
        BY <1>2
      <4>3. Len(cmdQueue') = Len(cmdQueue) - 1 /\ Len(cmdQueue) \in Nat
        BY <1>2
      <4>4. k + 1 = Len(cmdQueue)
        BY <4>1, <4>3
      <4>5. QED
        BY <4>1, <4>2, <4>4
    <3>3. QED
      BY <1>1, <3>2 DEF FrameQueueInv, FrameAt
  <2>5. QED
    BY <2>1, <2>2, <2>3, <2>4 DEF FrameQueueInv
<1>16. ListQueueInv'
  <2>1. \A s \in Slots : listDone'[s] <= mCmdLists'[s].mCurrentFrame
    BY <1>1, <1>10
  <2>2. \A i \in DOMAIN cmdQueue' : ListSignalAt(i)' =>
          /\ listDone'[cmdQueue'[i].slot] < cmdQueue'[i].value
          /\ cmdQueue'[i].value <= mCmdLists'[cmdQueue'[i].slot].mCurrentFrame
    BY <1>1, <1>2, <1>4, <1>10 DEF ListQueueInv
  <2>3. \A i, j \in DOMAIN cmdQueue' :
          i < j /\ ListSignalAt(i)' /\ ListSignalAt(j)' /\ cmdQueue'[i].slot = cmdQueue'[j].slot
            => cmdQueue'[i].value < cmdQueue'[j].value
    BY <1>2, <1>4 DEF ListQueueInv
  <2>4. ASSUME style = "swap", NEW i \in DOMAIN cmdQueue', ListsAt(i)'
        PROVE  \E j \in DOMAIN cmdQueue' :
                 /\ i < j /\ ListSignalAt(j)' /\ cmdQueue'[j].slot = cmdQueue'[i].slot
                 /\ cmdQueue'[j].value <=
                      mCmdLists'[cmdQueue'[i].slot].mFrames[cmdQueue'[i].value + 1]
    <3>1. i + 1 \in DOMAIN cmdQueue /\ ListsAt(i + 1) /\ cmdQueue'[i] = cmdQueue[i + 1]
      BY <1>2, <1>4, <2>4
    <3>2. PICK j \in DOMAIN cmdQueue :
            /\ i + 1 < j /\ ListSignalAt(j) /\ cmdQueue[j].slot = cmdQueue[i + 1].slot
            /\ cmdQueue[j].value <=
                 mCmdLists[cmdQueue[i + 1].slot].mFrames[cmdQueue[i + 1].value + 1]
      BY <2>4, <3>1 DEF ListQueueInv
    <3>3. PICK k \in DOMAIN cmdQueue' : k = j - 1
      BY <1>2, <3>2
    <3>4. i < k /\ j = k + 1 /\ ListSignalAt(k)' /\ cmdQueue'[k] = cmdQueue[j]
      BY <1>2, <1>4, <3>2, <3>3
    <3>5. QED
      BY <1>1, <3>1, <3>2, <3>4
  <2>5. QED
    BY <1>1, <2>1, <2>2, <2>3, <2>4 DEF ListQueueInv
<1>17. QED
  BY <1>13, <1>14, <1>15, <1>16
-----------------------------------------------------------------------------
(* The frame loop and its shutdown keep the invariant. *)
THEOREM GraphicsInvariant == Spec => []IInv
<1>1. Init => IInv
  BY InitIInv
<1>2. IInv /\ [Next]_vars => IInv'
  <2>. SUFFICES ASSUME IInv, [Next]_vars PROVE IInv'
    OBVIOUS
  <2>1. CASE Paint
    BY <2>1, WaitForCurrentFrameIInv, BeginIInv, WaitForListIInv, EndOfListIInv, PresentIInv,
       EndAndGoNextFrameIInv DEF Paint
  <2>2. CASE Close
    BY <2>2, CloseIInv
  <2>3. CASE Shutdown
    BY <2>3, DrainIInv, ReleaseSlotIInv DEF Shutdown
  <2>4. CASE GpuRuns
    BY <2>4, GpuRunsIInv
  <2>5. CASE UNCHANGED vars
    BY <2>5 DEF vars, frameVars, listVars, IInv, Inv, TypeOK, OpenListIsIdle, DrawsIntoBackBuffer,
                PendingLists, Pending, ThreadInv, RoundInv, FrameQueueInv, ListQueueInv,
                FrameAt, ListsAt, ListSignalAt, Slot, List
  <2>6. QED
    BY <2>1, <2>2, <2>3, <2>4, <2>5 DEF Next
<1>3. QED
  BY <1>1, <1>2, PTL DEF Spec

(* Graphics::present, Context and commandQueue: the numbers are what the   *)
(* model says, no list is open while the GPU has yet to run it and its     *)
(* sister is not open with it, and the slot drawn into is the back buffer. *)
THEOREM GraphicsIsSound == Spec => []Inv
<1>1. IInv => Inv
  BY DEF IInv
<1>2. QED
  BY <1>1, GraphicsInvariant, PTL

(* Context::record and beginRecord reset the allocator only when the GPU   *)
(* has run every list of it, with any number of back buffers and swaps.    *)
THEOREM AllocatorsAreIdle == Spec => AllocatorIsIdle
<1>1. ASSUME IInv, Record \/ BeginRecord
      PROVE  PendingLists(Slot) = {}
  <2>1. pc = "frame"
    BY <1>1 DEF Record, BeginRecord
  <2>2. /\ frameDone >= CurrentMark(mFrameDatas) /\ Slot \in Slots
        /\ CurrentMark(mFrameDatas) = mFrameDatas.mFrames[Slot + 1]
    BY <1>1, <2>1, CurrentSlot DEF IInv, ThreadInv
  <2>3. QED
    BY <1>1, <2>1, <2>2, FrameIsDone
<1>2. IInv => [Record \/ BeginRecord => PendingLists(Slot) = {}]_vars
  BY <1>1
<1>3. QED
  BY <1>2, GraphicsInvariant, PTL DEF AllocatorIsIdle

(* DXWindow::clear: when Graphics::clear releases the frame data, and each *)
(* slot after it, the GPU has run everything: waitPrevFrame is enough.     *)
THEOREM ReleasesAreQuiet == Spec => ReleaseIsQuiet
<1>1. IInv => [ClearFrameDatas \/ ReleaseSlot => cmdQueue = << >>]_vars
  BY DrainIInv, ReleaseSlotIInv
<1>2. QED
  BY <1>1, GraphicsInvariant, PTL DEF ReleaseIsQuiet
-----------------------------------------------------------------------------
(* What flies is what is in the queue.                                     *)
LEMMA FlyingIs ==
    \A s \in Slots, l \in Lists : <<s, l>> \in Flying <=> l \in PendingLists(s)
  BY DEF Flying

(* Nothing flies or lands without a step of the queue.                     *)
LEMMA SameQueueFlies == UNCHANGED cmdQueue => Flying' = Flying
  BY DEF Flying, PendingLists, Pending

(* A list that is handed over flies, ...                                   *)
LEMMA ListFlies ==
    ASSUME NEW s \in Slots, NEW l \in Lists,
           Pending \subseteq Pending', RunList(s, l) \in Pending',
           \A e \in Pending' : e \in Pending \/ e = RunList(s, l) \/ e.kind # "lists"
    PROVE  Flying' = Flying \cup {<<s, l>>}
<1>1. \A t, v : v \in PendingLists(t)' <=> v \in PendingLists(t) \/ (t = s /\ v = l)
  <2>1. RunList(s, l).kind = "lists" /\ RunList(s, l).slot = s /\ RunList(s, l).value = l
    BY DEF RunList
  <2>2. \A t, v : v \in PendingLists(t) <=>
            \E e \in Pending : e.kind = "lists" /\ e.slot = t /\ e.value = v
    BY DEF PendingLists
  <2>3. \A t, v : v \in PendingLists(t)' <=>
            \E e \in Pending' : e.kind = "lists" /\ e.slot = t /\ e.value = v
    BY DEF PendingLists
  <2> HIDE DEF Pending
  <2> QED
    BY <2>1, <2>2, <2>3
<1>2. \A x \in Slots \X Lists : x[1] = s /\ x[2] = l <=> x = <<s, l>>
  OBVIOUS
<1> QED
  BY <1>1, <1>2 DEF Flying

(* ... a signal changes nothing, ...                                       *)
LEMMA SignalDoesNotFly ==
    ASSUME NEW d, d.kind # "lists", Pending' = Pending \cup {d}
    PROVE  Flying' = Flying
<1>1. \A t : PendingLists(t)' = PendingLists(t)
  BY DEF PendingLists
<1> QED
  BY <1>1 DEF Flying

(* ... and what the GPU takes from the queue is the end of at most one.    *)
LEMMA OneLands ==
    ASSUME NEW d \in Command, Pending = Pending' \cup {d}
    PROVE  \/ Flying' = Flying
           \/ \E list \in Flying : Flying' = Flying \ {list}
<1>1. \A t, v : v \in PendingLists(t) <=>
          v \in PendingLists(t)' \/ (d.kind = "lists" /\ d.slot = t /\ d.value = v)
  BY DEF PendingLists
<1>2. CASE d.kind # "lists"
  BY <1>1, <1>2 DEF Flying
<1>3. CASE d.kind = "lists"
  <2> DEFINE list == <<d.slot, d.value>>
  <2>1. d.slot \in Slots /\ d.value \in Lists
    BY <1>3 DEF Command
  <2>2. \A x \in Slots \X Lists : x[1] = d.slot /\ x[2] = d.value <=> x = list
    OBVIOUS
  <2>3. list \in Flying
    BY <1>1, <1>3, <2>1 DEF Flying
  <2>4. \A x \in Slots \X Lists : x \in Flying <=> x \in Flying' \/ x = list
    BY <1>1, <1>3, <2>2 DEF Flying
  <2>5. Flying \subseteq Slots \X Lists /\ Flying' \subseteq Slots \X Lists
    BY DEF Flying
  <2> HIDE DEF list
  <2>6. Flying' = Flying \/ Flying' = Flying \ {list}
    BY <2>3, <2>4, <2>5
  <2> QED
    BY <2>3, <2>6
<1> QED
  BY <1>2, <1>3
-----------------------------------------------------------------------------
(* The steps as steps of CommandMemory.                                    *)
LEMMA InitMemory == Init => Memory!Init
<1> SUFFICES ASSUME Init  PROVE Memory!Init
  OBVIOUS
<1>1. Pending = {} /\ recording = {} /\ pc = "start"
  BY DEF Init, Pending
<1>2. Flying = {}
  BY <1>1 DEF Flying, PendingLists
<1> QED
  BY <1>1, <1>2 DEF Memory!Init, Taken, Recorded, Released

(* A thread that waits or signals leaves the memory as it is.              *)
LEMMA MemoryStays ==
    ASSUME UNCHANGED <<mFrameDatas, mCmdLists, recording, toRelease>>, Flying' = Flying,
           \/ pc' = pc
           \/ pc = "start" /\ pc' \in {"frame", "close"}
           \/ pc = "present" /\ pc' = "presented"
    PROVE  UNCHANGED Memory!vars
<1>1. Slot' = Slot /\ List(Slot)' = List(Slot)
  BY DEF Slot, List
<1> QED
  BY <1>1 DEF Memory!vars, Taken, Recorded, Released

(* The wait for the frame of Graphics is what the reset of the allocator   *)
(* needs, ...                                                              *)
LEMMA BeginTakes ==
    ASSUME IInv, Record \/ BeginRecord
    PROVE  Memory!Take
<1>1. /\ pc = "frame" /\ pc' \in {"recorded", "waitList"}
      /\ UNCHANGED <<mFrameDatas, mCmdLists, recording, cmdQueue, toRelease>>
  BY DEF Record, BeginRecord, frameVars, listVars
<1>2. Slot \in Slots /\ List(Slot) \in Lists /\ Slot' = Slot /\ List(Slot)' = List(Slot)
  BY <1>1, CurrentSlot DEF IInv, Slot, List
<1>3. PendingLists(Slot) = {}
  BY <1>1, <1>2, CurrentSlot, FrameIsDone DEF IInv, ThreadInv
<1>4. Memory!ListsOf(Slot) \cap Flying = {}
  BY <1>2, <1>3, FlyingIs DEF Memory!ListsOf
<1>5. Flying' = Flying /\ Released' = Released /\ Released = {} /\ Taken = {} /\ Taken' = {Slot}
  BY <1>1, <1>2, SameQueueFlies DEF Released, Taken
<1>6. Recorded' = {} \/ Recorded' = {<<Slot, List(Slot)>>}
  BY <1>1, <1>2 DEF Recorded, IInv, ThreadInv
<1>7. <<Slot, List(Slot)>> \in Memory!ListsOf(Slot)
  BY <1>2 DEF Memory!ListsOf
<1> QED
  BY <1>2, <1>4, <1>5, <1>6, <1>7 DEF Memory!Take

(* ... and the wait for the frame of the Context what the list needs.      *)
LEMMA WaitForListOpens ==
    ASSUME IInv, WaitForList
    PROVE  Memory!Open
<1>1. /\ pc = "waitList" /\ pc' = "recording" /\ style = "swap"
      /\ listDone[Slot] >= CurrentMark(mCmdLists[Slot])
      /\ recording = {} /\ recording' = {<<Slot, List(Slot)>>}
      /\ UNCHANGED <<mFrameDatas, mCmdLists, cmdQueue, toRelease>>
  BY DEF WaitForList, frameVars, IInv, ThreadInv
<1>2. Slot \in Slots /\ List(Slot) \in Lists
  BY <1>1, CurrentSlot DEF IInv
<1>3. List(Slot) \notin PendingLists(Slot)
  BY <1>1, <1>2, CurrentSlot, ListIsDone DEF IInv
<1>4. <<Slot, List(Slot)>> \in Memory!ListsOf(Slot) \ Flying
  BY <1>2, <1>3, FlyingIs DEF Memory!ListsOf
<1>5. Slot' = Slot /\ Flying' = Flying
  BY <1>1, SameQueueFlies DEF Slot
<1>6. Taken = {Slot} /\ Taken' = Taken /\ Released' = Released
  BY <1>1, <1>5 DEF Taken, Released
<1>7. Recorded = {} /\ Recorded' = {<<Slot, List(Slot)>>}
  BY <1>1 DEF Recorded
<1> QED
  BY <1>2, <1>4, <1>5, <1>6, <1>7 DEF Memory!Open

(* The slot changes with the frame only.                                   *)
LEMMA SlotStays ==
    ASSUME UNCHANGED mFrameDatas
    PROVE  Slot' = Slot
  BY DEF Slot

(* executeAndSwap and endRecord hand the list over themselves, ...         *)
LEMMA ExecuteHandsOver ==
    ASSUME IInv, ExecuteAndSwap \/ EndRecord
    PROVE  Memory!HandOver
<1> DEFINE s == Slot
           l == List(Slot)
           c == RunList(Slot, List(Slot))
           d == SignalList(Slot, mCmdLists'[Slot].mCurrentFrame)
<1>1. /\ pc = "recording" /\ pc' \in {"waitList", "present"} /\ recording = {<<s, l>>}
      /\ recording' = {}
      /\ cmdQueue' = cmdQueue \o <<c, d>>
      /\ UNCHANGED <<mFrameDatas, toRelease>>
  BY DEF ExecuteAndSwap, EndRecord, ExecuteList, frameVars, IInv, ThreadInv
<1>2. s \in Slots /\ l \in Lists /\ cmdQueue \in Seq(Command)
  BY <1>1, CurrentSlot DEF IInv, ThreadInv
<1>3. Slot' = Slot
  BY <1>1, SlotStays
<1>4. c.kind = "lists" /\ d.kind = "list"
  BY DEF RunList, SignalList
<1>5. c \in Command /\ d \in Command
  <2>1. c \in Command
    BY <1>2 DEF RunList, Command
  <2>2. mCmdLists'[Slot].mCurrentFrame \in Nat
    <3>1. IInv'
      BY EndOfListIInv
    <3>2. mCmdLists' \in [Slots -> Manager(2)]
      BY <1>1, <3>1 DEF IInv, ThreadInv
    <3> QED
      BY <1>2, <3>2 DEF Manager
  <2>3. d \in Command
    BY <1>2, <2>2 DEF SignalList, Command
  <2> QED
    BY <2>1, <2>3
<1> HIDE DEF c, d, s, l
<1>6. /\ DOMAIN cmdQueue' = DOMAIN cmdQueue \cup {Len(cmdQueue) + 1, Len(cmdQueue) + 2}
      /\ cmdQueue'[Len(cmdQueue) + 1] = c /\ cmdQueue'[Len(cmdQueue) + 2] = d
      /\ \A i \in DOMAIN cmdQueue : cmdQueue'[i] = cmdQueue[i]
  BY <1>1, <1>2, <1>5, AppendTwo
<1>7. /\ Pending \subseteq Pending' /\ c \in Pending'
      /\ \A e \in Pending' : e \in Pending \/ e = c \/ e = d
  BY <1>6 DEF Pending
<1>8. Flying' = Flying \cup {<<s, l>>}
  BY <1>2, <1>4, <1>7, ListFlies DEF c, s, l
<1>9. Taken' = Taken /\ Released' = Released /\ Recorded = {<<s, l>>} /\ Recorded' = {}
  BY <1>1, <1>3 DEF Taken, Released, Recorded
<1> QED
  BY <1>8, <1>9 DEF Memory!HandOver

(* ... record leaves that to present.                                      *)
LEMMA PresentHandsOver ==
    ASSUME IInv, Present
    PROVE  Memory!HandOver \/ UNCHANGED Memory!vars
<1>1. /\ pc \in {"recorded", "present"} /\ pc' = "presented" /\ recording = {}
      /\ UNCHANGED <<mFrameDatas, mCmdLists, recording, toRelease>>
  BY DEF Present, listVars, IInv, ThreadInv
<1>2. CASE pc = "present"
  <2>1. cmdQueue' = cmdQueue
    BY <1>2 DEF Present
  <2> QED
    BY <1>1, <1>2, <2>1, SameQueueFlies, MemoryStays
<1>3. CASE pc = "recorded"
  <2> DEFINE c == RunList(Slot, List(Slot))
  <2>1. cmdQueue' = Append(cmdQueue, c)
    BY <1>3 DEF Present
  <2>2. Slot \in Slots /\ List(Slot) \in Lists /\ cmdQueue \in Seq(Command)
    BY <1>3, CurrentSlot DEF IInv, ThreadInv
  <2>3. c \in Command
    BY <2>2 DEF RunList, Command
  <2> HIDE DEF c
  <2>4. /\ DOMAIN cmdQueue' = DOMAIN cmdQueue \cup {Len(cmdQueue) + 1}
        /\ cmdQueue'[Len(cmdQueue) + 1] = c
        /\ \A i \in DOMAIN cmdQueue : cmdQueue'[i] = cmdQueue[i]
    BY <2>1, <2>2, <2>3, AppendTo
  <2>5. /\ Pending \subseteq Pending' /\ c \in Pending'
        /\ \A e \in Pending' : e \in Pending \/ e = c
    BY <2>4 DEF Pending
  <2>6. Flying' = Flying \cup {<<Slot, List(Slot)>>}
    BY <2>2, <2>5, ListFlies DEF c
  <2>7. /\ Taken' = Taken /\ Released' = Released
        /\ Recorded = {<<Slot, List(Slot)>>} /\ Recorded' = {}
    BY <1>1, <1>3, SlotStays DEF Taken, Released, Recorded
  <2> QED
    BY <2>6, <2>7 DEF Memory!HandOver
<1> QED
  BY <1>1, <1>2, <1>3

(* A frame ends when all that it recorded is handed over.                  *)
LEMMA EndOfFrameYields ==
    ASSUME IInv, EndAndGoNextFrame
    PROVE  Memory!EndFrame
<1> DEFINE d == SignalFrame(mFrameDatas'.mCurrentFrame)
<1>1. /\ pc = "presented" /\ pc' = "start" /\ recording = {} /\ recording' = {}
      /\ cmdQueue' = Append(cmdQueue, d)
      /\ UNCHANGED toRelease
  BY DEF EndAndGoNextFrame, listVars, IInv, ThreadInv
<1>2. d \in Command /\ d.kind # "lists" /\ cmdQueue \in Seq(Command)
  <2>1. IInv'
    BY EndAndGoNextFrameIInv
  <2>2. mFrameDatas'.mCurrentFrame \in Nat
    BY <1>1, <2>1 DEF IInv, ThreadInv, Manager
  <2>3. Slot \in Slots /\ 0 \in Slots
    BY <1>1, CurrentSlot, GraphicsAssumption DEF IInv, Slots
  <2> QED
    BY <2>2, <2>3 DEF IInv, ThreadInv, SignalFrame, Command
<1> HIDE DEF d
<1>3. /\ DOMAIN cmdQueue' = DOMAIN cmdQueue \cup {Len(cmdQueue) + 1}
      /\ cmdQueue'[Len(cmdQueue) + 1] = d
      /\ \A i \in DOMAIN cmdQueue : cmdQueue'[i] = cmdQueue[i]
  BY <1>1, <1>2, AppendTo
<1>4. Pending' = Pending \cup {d}
  BY <1>3 DEF Pending
<1>5. Flying' = Flying
  BY <1>2, <1>4, SignalDoesNotFly
<1>6. Taken # {} /\ Taken' = {} /\ Recorded = {} /\ Recorded' = {} /\ Released' = Released
  BY <1>1 DEF Taken, Recorded, Released
<1> QED
  BY <1>5, <1>6 DEF Memory!EndFrame
(* An empty queue.                                                         *)
LEMMA QuietFliesNothing == cmdQueue = << >> => Flying = {}
<1> SUFFICES ASSUME cmdQueue = << >>  PROVE Flying = {}
  OBVIOUS
<1>1. Pending = {}
  BY DEF Pending
<1> QED
  BY <1>1 DEF Flying, PendingLists

(* The shutdown releases nothing before the queue is empty.                *)
LEMMA ClearKeepsMemory ==
    ASSUME IInv, WaitPrevFrame \/ ClearFrameDatas
    PROVE  UNCHANGED Memory!vars
<1>1. /\ UNCHANGED <<mFrameDatas, mCmdLists, recording, cmdQueue>>
      /\ \/ pc = "close" /\ pc' = "clear" /\ UNCHANGED toRelease
         \/ pc = "clear" /\ pc' = "release" /\ toRelease' = Slots
  BY DEF WaitPrevFrame, ClearFrameDatas, frameVars, listVars
<1>2. Flying' = Flying
  BY <1>1, SameQueueFlies
<1>3. /\ Taken = {} /\ Taken' = {} /\ Released = {} /\ Released' = {}
      /\ Recorded = recording /\ Recorded' = recording
  BY <1>1 DEF Taken, Released, Recorded
<1> QED
  BY <1>2, <1>3, <1>1 DEF Memory!vars, Recorded

(* A slot is released when nothing flies.                                  *)
LEMMA SlotIsReleased ==
    ASSUME IInv, ReleaseSlot
    PROVE  Memory!Release
<1>1. cmdQueue = << >> /\ cmdQueue' = cmdQueue /\ recording' = recording /\ pc = "release"
  BY ReleaseSlotIInv DEF ReleaseSlot
<1>2. Flying = {} /\ Flying' = {}
  BY <1>1, QuietFliesNothing, SameQueueFlies
<1>3. pc' \in {"release", "closed"}
  BY <1>1 DEF ReleaseSlot
<1>4. PICK s \in toRelease : toRelease' = toRelease \ {s}
  BY DEF ReleaseSlot
<1>5. toRelease \subseteq Slots
  BY DEF IInv, Inv, TypeOK
<1>6. s \in Slots \ Released /\ Released' = Released \cup {s}
  BY <1>1, <1>3, <1>4, <1>5 DEF Released
<1>7. Taken = {} /\ Taken' = {} /\ Recorded' = Recorded
  BY <1>1, <1>3 DEF Taken, Recorded
<1> QED
  BY <1>2, <1>6, <1>7 DEF Memory!Release

(* The GPU ends a list, or reaches a signal.                               *)
LEMMA GpuRunsOne ==
    ASSUME IInv, GpuRuns
    PROVE  Memory!Run \/ UNCHANGED Memory!vars
<1>1. /\ cmdQueue # << >> /\ cmdQueue' = Tail(cmdQueue)
      /\ UNCHANGED <<mFrameDatas, mCmdLists, recording, pc, toRelease>>
  BY DEF GpuRuns
<1>2. cmdQueue \in Seq(Command)
  BY DEF IInv, ThreadInv
<1> DEFINE d == cmdQueue[1]
<1>3. d \in Command /\ Pending = Pending' \cup {d}
  <2>1. /\ 1 \in DOMAIN cmdQueue
        /\ \A i \in DOMAIN cmdQueue' :
             cmdQueue'[i] = cmdQueue[i + 1] /\ i + 1 \in DOMAIN cmdQueue
        /\ \A i \in DOMAIN cmdQueue : i > 1 => i - 1 \in DOMAIN cmdQueue'
        /\ DOMAIN cmdQueue = 1..Len(cmdQueue) /\ d \in Command
    BY <1>1, <1>2, QueueFacts
  <2>2. \A i \in DOMAIN cmdQueue : i = 1 \/ i > 1
    BY <2>1
  <2>3. \A i \in DOMAIN cmdQueue : i > 1 => cmdQueue[i] = cmdQueue'[i - 1]
    <3> SUFFICES ASSUME NEW i \in DOMAIN cmdQueue, i > 1
                 PROVE  cmdQueue[i] = cmdQueue'[i - 1]
      OBVIOUS
    <3>1. i - 1 \in DOMAIN cmdQueue' /\ (i - 1) + 1 = i
      BY <2>1
    <3> QED
      BY <2>1, <3>1
  <2>4. Pending \subseteq Pending' \cup {d}
    BY <2>1, <2>2, <2>3 DEF Pending
  <2>5. Pending' \cup {d} \subseteq Pending
    BY <2>1 DEF Pending
  <2> QED
    BY <2>1, <2>4, <2>5
<1>4. \/ Flying' = Flying
      \/ \E list \in Flying : Flying' = Flying \ {list}
  BY <1>3, OneLands
<1>5. Taken' = Taken /\ Recorded' = Recorded /\ Released' = Released
  BY <1>1 DEF Taken, Recorded, Released, Slot, List
<1> QED
  BY <1>4, <1>5 DEF Memory!Run, Memory!vars

(* Every step of the frame loop is one of the memory, or none.             *)
LEMMA NextMemory == IInv /\ [Next]_vars => [Memory!Next]_Memory!vars
<1> SUFFICES ASSUME IInv, [Next]_vars  PROVE [Memory!Next]_Memory!vars
  OBVIOUS
<1>1. CASE WaitForCurrentFrame \/ Close
  <2>1. /\ pc = "start" /\ pc' \in {"frame", "close"}
        /\ UNCHANGED <<mFrameDatas, mCmdLists, recording, cmdQueue, toRelease>>
    BY <1>1 DEF WaitForCurrentFrame, Close, frameVars, listVars
  <2> QED
    BY <2>1, SameQueueFlies, MemoryStays
<1>2. CASE Record \/ BeginRecord
  BY <1>2, BeginTakes DEF Memory!Next
<1>3. CASE WaitForList
  BY <1>3, WaitForListOpens DEF Memory!Next
<1>4. CASE ExecuteAndSwap \/ EndRecord
  BY <1>4, ExecuteHandsOver DEF Memory!Next
<1>5. CASE Present
  BY <1>5, PresentHandsOver DEF Memory!Next
<1>6. CASE EndAndGoNextFrame
  BY <1>6, EndOfFrameYields DEF Memory!Next
<1>7. CASE WaitPrevFrame \/ ClearFrameDatas
  BY <1>7, ClearKeepsMemory
<1>8. CASE ReleaseSlot
  BY <1>8, SlotIsReleased DEF Memory!Next
<1>9. CASE GpuRuns
  BY <1>9, GpuRunsOne DEF Memory!Next
<1>10. CASE UNCHANGED vars
  BY <1>10, SameQueueFlies, MemoryStays DEF vars, frameVars, listVars
<1> QED
  BY <1>1, <1>2, <1>3, <1>4, <1>5, <1>6, <1>7, <1>8, <1>9, <1>10 DEF Next, Paint, Shutdown

(* The frame loop keeps the memory behind its command lists as D3D12 asks  *)
(* for (Context.cpp:56, FrameDataManager.cpp:51): with any number of slots *)
(* and swaps, resets and releases only follow what the GPU has run.        *)
THEOREM GraphicsImplementsCommandMemory == Spec => ImplementsCommandMemory
  BY InitMemory, NextMemory, GraphicsInvariant, PTL
  DEF Spec, ImplementsCommandMemory, Memory!Spec
=============================================================================
