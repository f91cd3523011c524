----------------------- MODULE ResourceUploaderProofs -----------------------
(***************************************************************************)
(* Proofs about ResourceUploader and DX12Fence for every set of targets,   *)
(* every layout of the entries and every bound.                            *)
(*                                                                         *)
(* The fence has no counter of its own in sSignalAndWait: its value is 1   *)
(* more than a value read before.  That is enough because the invariant    *)
(* says what the queue of the GPU looks like whenever the thread is in     *)
(* there: nothing, or lists and this one signal behind them.  From it      *)
(* follows that an upload returns with the queue empty, and from that,     *)
(* with the copy each target waits for, that the data is there.            *)
(***************************************************************************)
EXTENDS ResourceUploader, SequenceTheorems, FiniteSetTheorems,
        WellFoundedInduction, TLAPS

(* The signals in the queue of an owner that counts follow on the value of *)
(* the fence.                                                              *)
CounterInv ==
    owner = "counter" =>
        /\ last = completed + Len(queue)
        /\ \A i \in 1..Len(queue) : queue[i] = completed + i
        /\ pc # "signalled" /\ ~failed

(* Until a registration fails, there is a signal in the queue of the other *)
(* only inside sSignalAndWait, behind everything else, and when the fence  *)
(* has its value the queue is empty.                                       *)
DrainInv ==
    owner = "drain" =>
        /\ limit = "INFINITE" /\ ~timedOut
        /\ ~failed /\ pc = "idle" => \A i \in 1..Len(queue) : queue[i] = Work
        /\ ~failed /\ pc # "idle" =>
             \/ completed >= target /\ queue = << >>
             \/ /\ completed < target /\ queue # << >>
                /\ queue[Len(queue)] = target
                /\ \A i \in 1..Len(queue) - 1 : queue[i] = Work

(* The event is tied to nothing but the wait that goes on.                 *)
EventInv ==
    ~timedOut /\ ~failed =>
        /\ pc # "waiting" => armed = {} /\ ~event
        /\ pc = "waiting" => armed \subseteq {target} /\ (event => completed >= target)

FenceInv == TypeOK /\ CounterInv /\ DrainInv /\ EventInv

Copy == {c \in [id : 1..MaxCopies, target : Targets, intact : BOOLEAN] :
            c.intact = (c.target \in Intact)}

WorkIn(q) == {i \in DOMAIN q : q[i] = Work}

CopiesInv ==
    /\ recorded \in Seq(Copy)
    /\ lists \in Seq(Seq(Copy))
    /\ \A i \in 1..Len(recorded) : recorded[i].id \in mCopySrc

(* Where upload is, and what it has recorded.                              *)
StepInv ==
    /\ ready \/ mIsRecording \/ closing \/ step # "idle" \/ lists # << >>
         => owner = "drain"
    /\ step # "idle" => mIsRecording /\ recorded = << >>
    /\ recorded # << >> => mIsRecording
    /\ lost # {} => reinit

(* After the copies of the list target t holds the copy that is wanted.    *)
Brings(list, t) ==
    IF CopiesTo(list, t) = {}
    THEN content[t] = wanted[t]
    ELSE list[Max(CopiesTo(list, t))].id = wanted[t]

(* Until something fails there is a list in the queue only between the     *)
(* execution and the end of the wait, and it or the recording brings every *)
(* target the copy that is wanted, from sources that are alive.            *)
ArrivalInv ==
    ~Failed =>
        /\ owner = "drain" /\ step \in {"idle", "release"} => queue = << >>
        /\ Len(lists) <= 1
        /\ lists = << >> => \A t \in Targets \cap Intact : Brings(recorded, t)
        /\ lists # << >> =>
             /\ \A t \in Targets \cap Intact : Brings(lists[1], t)
             /\ \A i \in 1..Len(lists[1]) : lists[1][i].id \in mCopySrc

(* The inductive invariant. *)
IInv == FenceInv /\ UploaderTypeOK /\ CopiesInv /\ StepInv /\ ArrivalInv
-----------------------------------------------------------------------------
(* What the actions do to a sequence, element by element. *)
LEMMA AppendTo ==
    ASSUME NEW S, NEW q \in Seq(S), NEW e \in S
    PROVE  /\ Append(q, e) \in Seq(S)
           /\ Append(q, e) # << >>
           /\ Len(Append(q, e)) = Len(q) + 1
           /\ Append(q, e)[Len(q) + 1] = e
           /\ \A i \in 1..Len(q) : Append(q, e)[i] = q[i]
BY AppendProperties

LEMMA TailOf ==
    ASSUME NEW S, NEW q \in Seq(S), q # << >>
    PROVE  /\ Len(q) \in Nat \ {0}
           /\ Tail(q) \in Seq(S)
           /\ Len(Tail(q)) = Len(q) - 1
           /\ Head(q) = q[1] /\ q[1] \in S
           /\ \A i \in 1..Len(q) - 1 : Tail(q)[i] = q[i + 1]
BY HeadTailProperties, EmptySeq, ElementOfSeq

LEMMA EmptyIffNone ==
    ASSUME NEW S, NEW q \in Seq(S)
    PROVE  Len(q) \in Nat /\ (q = << >>) = (Len(q) = 0)
BY EmptySeq, LenProperties
-----------------------------------------------------------------------------
(* Each step of the fence keeps its part of the invariant. *)
LEMMA CreateFenceInv ==
    ASSUME FenceInv, NEW v \in {0, 1}, Create(v)
    PROVE  FenceInv'
<1>1. v \in 0..MaxSignals /\ << >> \in Seq(0..MaxSignals)
  BY FenceAssumption, EmptySeq
<1>2. TypeOK'
  BY <1>1 DEF FenceInv, TypeOK, Create
<1>3. CounterInv' /\ DrainInv' /\ EventInv'
  BY DEF FenceInv, TypeOK, Create, CounterInv, DrainInv, EventInv
<1>4. QED
  BY <1>2, <1>3 DEF FenceInv

LEMMA ExecuteFenceInv ==
    ASSUME FenceInv, Execute
    PROVE  FenceInv'
<1>1. Work \in 0..MaxSignals
  BY FenceAssumption DEF Work
<1>2. TypeOK'
  BY <1>1, AppendTo DEF FenceInv, TypeOK, Execute, history
<1>3. CounterInv' /\ EventInv'
  BY DEF FenceInv, TypeOK, Execute, history, CounterInv, EventInv
<1>4. DrainInv'
  BY <1>1, AppendTo, EmptyIffNone DEF FenceInv, TypeOK, Execute, history, DrainInv
<1>5. QED
  BY <1>2, <1>3, <1>4 DEF FenceInv

LEMMA SignalCounterFenceInv ==
    ASSUME FenceInv, SignalCounter
    PROVE  FenceInv'
<1>1. last + 1 \in 0..MaxSignals
  BY FenceAssumption DEF FenceInv, TypeOK, SignalCounter
<1>2. TypeOK'
  BY <1>1, AppendTo DEF FenceInv, TypeOK, SignalCounter, history
<1>3. CounterInv'
  <2>1. last \in Int /\ completed \in Int /\ Len(queue) \in Nat
    BY EmptyIffNone DEF FenceInv, TypeOK
  <2>2. /\ Len(queue') = Len(queue) + 1
        /\ queue'[Len(queue) + 1] = last + 1
        /\ \A i \in 1..Len(queue) : queue'[i] = queue[i]
    BY <1>1, AppendTo DEF FenceInv, TypeOK, SignalCounter
  <2>3. QED
    BY <2>1, <2>2 DEF FenceInv, SignalCounter, history, CounterInv
<1>4. DrainInv' /\ EventInv'
  BY DEF FenceInv, TypeOK, SignalCounter, history, DrainInv, EventInv
<1>5. QED
  BY <1>2, <1>3, <1>4 DEF FenceInv

LEMMA BeginWaitFenceInv ==
    ASSUME FenceInv, NEW value \in 0..last, NEW ms \in Waits, BeginWait(value, ms)
    PROVE  FenceInv'
<1>1. value \in 0..MaxSignals /\ ms \in {"INFINITE", "finite"}
  BY FenceAssumption DEF FenceInv, TypeOK
<1>2. TypeOK'
  <2>1. CASE completed >= value
    BY <1>1, <2>1 DEF FenceInv, TypeOK, BeginWait, ArmEvent, history
  <2>2. CASE ~(completed >= value)
    <3>1. value \in (completed + 1)..MaxSignals
      BY <1>1, <2>2, FenceAssumption DEF FenceInv, TypeOK
    <3>2. armed' = armed \cup {value} /\ event' = event
      BY <2>2 DEF BeginWait, ArmEvent
    <3>3. QED
      BY <1>1, <3>1, <3>2 DEF FenceInv, TypeOK, BeginWait, history
  <2>3. QED
    BY <2>1, <2>2
<1>3. CounterInv' /\ DrainInv'
  BY DEF FenceInv, TypeOK, BeginWait, history, CounterInv, DrainInv
<1>4. EventInv'
  BY DEF FenceInv, TypeOK, BeginWait, ArmEvent, history, EventInv
<1>5. QED
  BY <1>2, <1>3, <1>4 DEF FenceInv

LEMMA EndWaitFenceInv ==
    ASSUME FenceInv, EndWait
    PROVE  FenceInv' /\ (owner = "drain" /\ ~failed => queue = << >>)
<1>1. TypeOK' /\ CounterInv'
  BY DEF FenceInv, TypeOK, EndWait, history, CounterInv
<1>2. EventInv'
  BY DEF FenceInv, TypeOK, EndWait, history, EventInv
<1>3. ASSUME owner = "drain", ~failed
      PROVE  queue = << >>
  BY <1>3 DEF FenceInv, TypeOK, EndWait, EventInv, DrainInv
<1>4. DrainInv'
  BY <1>3 DEF FenceInv, TypeOK, EndWait, history, DrainInv
<1>5. QED
  BY <1>1, <1>2, <1>3, <1>4 DEF FenceInv

LEMMA TimeOutFenceInv ==
    ASSUME FenceInv, TimeOut
    PROVE  FenceInv'
<1>1. TypeOK'
  BY DEF FenceInv, TypeOK, TimeOut
<1>2. CounterInv' /\ DrainInv' /\ EventInv'
  BY DEF FenceInv, TypeOK, TimeOut, CounterInv, DrainInv, EventInv
<1>3. QED
  BY <1>1, <1>2 DEF FenceInv

LEMMA SignalNextFenceInv ==
    ASSUME FenceInv, SignalNext
    PROVE  FenceInv'
<1>1. completed + 1 \in 0..MaxSignals
  BY FenceAssumption DEF FenceInv, TypeOK, SignalNext
<1>2. TypeOK'
  BY <1>1, AppendTo DEF FenceInv, TypeOK, SignalNext, history
<1>3. CounterInv' /\ EventInv'
  BY DEF FenceInv, TypeOK, SignalNext, history, CounterInv, EventInv
<1>4. DrainInv'
  <2>1. Len(queue) \in Nat /\ completed \in Int
    BY EmptyIffNone DEF FenceInv, TypeOK
  <2>2. /\ queue' # << >>
        /\ Len(queue') = Len(queue) + 1
        /\ queue'[Len(queue) + 1] = completed + 1
        /\ \A i \in 1..Len(queue) : queue'[i] = queue[i]
    BY <1>1, AppendTo DEF FenceInv, TypeOK, SignalNext
  <2>3. QED
    BY <2>1, <2>2 DEF FenceInv, SignalNext, history, DrainInv
<1>5. QED
  BY <1>2, <1>3, <1>4 DEF FenceInv

(* sSignalAndWait that finds the fence at its value has an empty queue. *)
LEMMA SkipWaitFenceInv ==
    ASSUME FenceInv, SkipWait
    PROVE  FenceInv' /\ (owner = "drain" /\ ~failed => queue = << >>)
<1>1. TypeOK' /\ CounterInv' /\ EventInv'
  BY DEF FenceInv, TypeOK, SkipWait, history, CounterInv, EventInv
<1>2. ASSUME owner = "drain", ~failed
      PROVE  queue = << >>
  BY <1>2 DEF FenceInv, TypeOK, SkipWait, DrainInv
<1>3. DrainInv'
  BY <1>2 DEF FenceInv, TypeOK, SkipWait, history, DrainInv
<1>4. QED
  BY <1>1, <1>2, <1>3 DEF FenceInv

LEMMA WaitForNextFenceInv ==
    ASSUME FenceInv, WaitForNext
    PROVE  FenceInv'
<1>1. TypeOK'
  <2>1. CASE completed >= target
    BY <2>1 DEF FenceInv, TypeOK, WaitForNext, ArmEvent, history
  <2>2. CASE ~(completed >= target)
    <3>1. target \in (completed + 1)..MaxSignals
      BY <2>2, FenceAssumption DEF FenceInv, TypeOK
    <3>2. armed' = armed \cup {target} /\ event' = event
      BY <2>2 DEF WaitForNext, ArmEvent
    <3>3. QED
      BY <3>1, <3>2 DEF FenceInv, TypeOK, WaitForNext, history
  <2>3. QED
    BY <2>1, <2>2
<1>2. CounterInv' /\ DrainInv'
  BY DEF FenceInv, TypeOK, WaitForNext, history, CounterInv, DrainInv
<1>3. EventInv'
  BY DEF FenceInv, TypeOK, WaitForNext, ArmEvent, history, EventInv
<1>4. QED
  BY <1>1, <1>2, <1>3 DEF FenceInv

LEMMA WaitFailsFenceInv ==
    ASSUME FenceInv, WaitFails
    PROVE  FenceInv'
<1>1. TypeOK' /\ CounterInv' /\ EventInv'
  BY DEF FenceInv, TypeOK, WaitFails, CounterInv, EventInv
<1>2. DrainInv'
  BY DEF FenceInv, TypeOK, WaitFails, DrainInv
<1>3. QED
  BY <1>1, <1>2 DEF FenceInv

LEMMA GpuRunsWorkFenceInv ==
    ASSUME FenceInv, GpuRunsWork
    PROVE  FenceInv'
<1>1. /\ Len(queue) \in Nat \ {0} /\ completed \in Nat
      /\ queue' = Tail(queue) /\ queue' \in Seq(0..MaxSignals)
      /\ Len(queue') = Len(queue) - 1
      /\ queue[1] = Work
      /\ \A i \in 1..Len(queue') : queue'[i] = queue[i + 1]
  BY TailOf DEF FenceInv, TypeOK, GpuRunsWork
<1>2. TypeOK'
  BY <1>1 DEF FenceInv, TypeOK, GpuRunsWork, history
<1>3. owner # "counter"
  BY <1>1 DEF FenceInv, CounterInv, Work
<1>4. CounterInv' /\ EventInv'
  BY <1>3 DEF FenceInv, TypeOK, GpuRunsWork, history, CounterInv, EventInv
<1>5. DrainInv'
  <2>1. CASE pc = "idle"
    BY <1>1, <2>1 DEF FenceInv, GpuRunsWork, history, DrainInv
  <2>2. CASE pc # "idle" /\ ~failed /\ owner = "drain"
    <3>1. /\ completed < target /\ queue[Len(queue)] = target
          /\ \A i \in 1..Len(queue) - 1 : queue[i] = Work
      BY <1>1, <2>2 DEF FenceInv, DrainInv, GpuRunsWork
    <3>2. Len(queue) # 1
      BY <1>1, <3>1 DEF Work
    <3>3. queue' # << >>
      <4>1. Len(queue') # 0
        BY <1>1, <3>2
      <4>2. QED
        BY <4>1, EmptySeq
    <3>4. /\ queue'[Len(queue')] = target
          /\ \A i \in 1..Len(queue') - 1 : queue'[i] = Work
      BY <1>1, <3>1, <3>2
    <3>5. QED
      BY <2>2, <3>1, <3>3, <3>4 DEF FenceInv, GpuRunsWork, history, DrainInv
  <2>3. QED
    BY <2>1, <2>2 DEF FenceInv, GpuRunsWork, history, DrainInv
<1>6. QED
  BY <1>2, <1>4, <1>5 DEF FenceInv

LEMMA GpuSignalsFenceInv ==
    ASSUME FenceInv, GpuSignals
    PROVE  FenceInv'
<1>1. /\ Len(queue) \in Nat \ {0} /\ completed \in Nat
      /\ queue' = Tail(queue) /\ queue' \in Seq(0..MaxSignals)
      /\ Len(queue') = Len(queue) - 1
      /\ completed' = queue[1] /\ queue[1] \in 0..MaxSignals
      /\ queue[1] # Work
      /\ \A i \in 1..Len(queue') : queue'[i] = queue[i + 1]
  <2>1. queue \in Seq(0..MaxSignals) /\ completed \in Nat
    BY DEF FenceInv, TypeOK
  <2>2. /\ queue # << >> /\ Head(queue) # Work
        /\ queue' = Tail(queue) /\ completed' = Head(queue)
    BY DEF GpuSignals
  <2>3. QED
    BY <2>1, <2>2, TailOf
<1>2. TypeOK'
  <2>1. armed' \subseteq (completed' + 1)..MaxSignals
    <3>1. armed' = {v \in armed : v > completed'}
      BY DEF GpuSignals
    <3>2. \A v \in armed : v \in Int /\ v <= MaxSignals
      BY FenceAssumption DEF FenceInv, TypeOK
    <3>3. QED
      BY <1>1, <3>1, <3>2, FenceAssumption
  <2>2. event' \in BOOLEAN
    BY DEF GpuSignals
  <2>3. QED
    BY <1>1, <2>1, <2>2 DEF FenceInv, TypeOK, GpuSignals, history
<1>3. CounterInv'
  BY <1>1 DEF FenceInv, TypeOK, GpuSignals, history, CounterInv
<1>4. ASSUME owner = "drain", ~failed
      PROVE  pc # "idle" /\ completed < target /\ completed' = target /\ queue' = << >>
  <2>1. /\ pc # "idle" /\ completed < target
        /\ queue[Len(queue)] = target
        /\ \A i \in 1..Len(queue) - 1 : queue[i] = Work
    BY <1>1, <1>4 DEF FenceInv, DrainInv, GpuSignals
  <2>2. Len(queue) = 1
    BY <1>1, <2>1
  <2>3. QED
    BY <1>1, <2>1, <2>2, EmptyIffNone
<1>5. DrainInv'
  BY <1>4 DEF FenceInv, TypeOK, GpuSignals, history, DrainInv
<1>6. ASSUME ~timedOut, ~failed
      PROVE  completed <= completed'
  <2>1. CASE owner = "counter"
    BY <1>1, <2>1 DEF FenceInv, CounterInv
  <2>2. CASE owner = "drain"
    BY <1>1, <1>4, <1>6, <2>2 DEF FenceInv, TypeOK
  <2>3. QED
    BY <2>1, <2>2 DEF FenceInv, TypeOK
<1>7. EventInv'
  <2>1. SUFFICES ASSUME ~timedOut, ~failed
                 PROVE  EventInv'
    BY DEF EventInv, GpuSignals, history
  <2>2. CASE pc # "waiting"
    BY <2>1, <2>2 DEF FenceInv, EventInv, GpuSignals, history
  <2>3. CASE pc = "waiting"
    <3>1. armed \subseteq {target} /\ (event => completed >= target)
      BY <2>1, <2>3 DEF FenceInv, EventInv
    <3>2. armed' \subseteq {target}
      BY <3>1 DEF GpuSignals
    <3>3. ASSUME event' PROVE completed' >= target
      <4>1. CASE event
        BY <1>1, <1>6, <2>1, <3>1, <4>1 DEF FenceInv, TypeOK
      <4>2. CASE ~event
        <5>1. armed' # armed
          BY <3>3, <4>2 DEF GpuSignals
        <5>2. ~(target > completed')
          BY <3>1, <5>1 DEF GpuSignals
        <5>3. QED
          BY <1>1, <5>2 DEF FenceInv, TypeOK
      <4>3. QED
        BY <4>1, <4>2
    <3>4. QED
      BY <2>1, <2>3, <3>2, <3>3 DEF EventInv, GpuSignals, history
  <2>4. QED
    BY <2>2, <2>3
<1>8. QED
  BY <1>2, <1>3, <1>5, <1>7 DEF FenceInv

LEMMA ReleaseQueueFenceInv ==
    ASSUME FenceInv, owner = "drain", pc = "idle", ReleaseQueue
    PROVE  FenceInv'
<1>1. TypeOK'
  BY EmptySeq DEF FenceInv, TypeOK, ReleaseQueue, history
<1>2. CounterInv' /\ DrainInv' /\ EventInv'
  BY EmptySeq DEF FenceInv, ReleaseQueue, history, CounterInv, DrainInv, EventInv
<1>3. QED
  BY <1>1, <1>2 DEF FenceInv

LEMMA CounterFenceInv ==
    ASSUME FenceInv, CounterNext
    PROVE  FenceInv'
BY CreateFenceInv, SignalCounterFenceInv, BeginWaitFenceInv, EndWaitFenceInv,
   TimeOutFenceInv, GpuSignalsFenceInv DEF CounterNext

LEMMA StutterFenceInv ==
    ASSUME FenceInv, UNCHANGED vars
    PROVE  FenceInv'
<1>1. TypeOK'
  BY DEF FenceInv, TypeOK, vars, history
<1>2. CounterInv' /\ DrainInv' /\ EventInv'
  BY DEF FenceInv, vars, history, CounterInv, DrainInv, EventInv
<1>3. QED
  BY <1>1, <1>2 DEF FenceInv
-----------------------------------------------------------------------------
(* A set of indices that is not empty has a last one.                      *)
LEMMA MaxOf ==
    ASSUME NEW n \in Nat, NEW S \in SUBSET (1..n), S # {}
    PROVE  Max(S) \in S /\ \A i \in S : i <= Max(S)
<1>. DEFINE T == {k \in 0..n : n - k \in S}
<1>1. IsWellFoundedOn(OpToRel(<, Nat), Nat)
  BY NatLessThanWellFounded
<1>2. T \subseteq Nat
  OBVIOUS
<1>3. PICK i \in S : TRUE
  OBVIOUS
<1>4. n - i \in T
  BY <1>3
<1>5. T # {}
  BY <1>4
<1>. HIDE DEF T
<1>6. PICK x \in T : \A y \in T : ~ (<<y, x>> \in OpToRel(<, Nat))
  BY <1>1, <1>2, <1>5, WFMin
<1>7. \A y \in T : ~ (y < x)
  BY <1>2, <1>6 DEF OpToRel
<1>8. n - x \in S /\ \A j \in S : n - x >= j
  <2>1. n - x \in S /\ x \in 0..n
    BY DEF T
  <2>2. ASSUME NEW j \in S PROVE n - x >= j
    <3>1. n - j \in T
      BY DEF T
    <3>2. QED
      BY <3>1, <2>1, <1>7
  <2>3. QED
    BY <2>1, <2>2
<1>9. QED
  BY <1>8 DEF Max

(* The last copy of a list to a target.                                    *)
LEMMA LastCopy ==
    ASSUME NEW list \in Seq(Copy), NEW t, CopiesTo(list, t) # {}
    PROVE  /\ Max(CopiesTo(list, t)) \in 1..Len(list)
           /\ list[Max(CopiesTo(list, t))] \in Copy
           /\ list[Max(CopiesTo(list, t))].target = t
<1>1. CopiesTo(list, t) \in SUBSET (1..Len(list)) /\ Len(list) \in Nat
  BY LenProperties DEF CopiesTo
<1>2. Max(CopiesTo(list, t)) \in CopiesTo(list, t)
  BY <1>1, MaxOf
<1>3. QED
  BY <1>1, <1>2, ElementOfSeq DEF CopiesTo

(* A new copy is the last one to its target, and changes no other's.       *)
LEMMA LastCopyOfAppend ==
    ASSUME NEW list \in Seq(Copy), NEW copy \in Copy, NEW t \in Targets
    PROVE  /\ t = copy.target =>
                /\ CopiesTo(Append(list, copy), t) # {}
                /\ Append(list, copy)[Max(CopiesTo(Append(list, copy), t))] = copy
           /\ t # copy.target =>
                /\ CopiesTo(Append(list, copy), t) = CopiesTo(list, t)
                /\ CopiesTo(list, t) # {} =>
                     Append(list, copy)[Max(CopiesTo(list, t))] =
                       list[Max(CopiesTo(list, t))]
<1>. DEFINE longer == Append(list, copy)
            n == Len(list)
<1>1. /\ n \in Nat /\ DOMAIN list = 1..n
      /\ DOMAIN longer = 1..(n + 1)
      /\ longer[n + 1] = copy
      /\ \A i \in 1..n : longer[i] = list[i]
  BY AppendTo, LenProperties
<1>. HIDE DEF longer, n
<1>2. ASSUME t = copy.target
      PROVE  CopiesTo(longer, t) # {} /\ longer[Max(CopiesTo(longer, t))] = copy
  <2>1. /\ n + 1 \in CopiesTo(longer, t)
        /\ CopiesTo(longer, t) \in SUBSET (1..(n + 1))
    BY <1>1, <1>2 DEF CopiesTo
  <2>2. /\ Max(CopiesTo(longer, t)) \in CopiesTo(longer, t)
        /\ \A i \in CopiesTo(longer, t) : i <= Max(CopiesTo(longer, t))
    BY <1>1, <2>1, MaxOf, n + 1 \in Nat
  <2>3. Max(CopiesTo(longer, t)) = n + 1
    BY <1>1, <2>1, <2>2
  <2>4. QED
    BY <1>1, <2>1, <2>3
<1>3. ASSUME t # copy.target
      PROVE  /\ CopiesTo(longer, t) = CopiesTo(list, t)
             /\ CopiesTo(list, t) # {} =>
                  longer[Max(CopiesTo(list, t))] = list[Max(CopiesTo(list, t))]
  <2>1. CopiesTo(longer, t) = CopiesTo(list, t)
    BY <1>1, <1>3 DEF CopiesTo
  <2>2. QED
    BY <1>1, <2>1, LastCopy DEF n
<1>4. QED
  BY <1>2, <1>3 DEF longer
-----------------------------------------------------------------------------
(* The lists in the queue of the GPU, and what the steps do to their       *)
(* number.                                                                 *)
LEMMA WorkInFinite ==
    ASSUME NEW q \in Seq(0..MaxSignals)
    PROVE  IsFiniteSet(WorkIn(q)) /\ Cardinality(WorkIn(q)) \in Nat
<1>1. Len(q) \in Nat /\ WorkIn(q) \subseteq 1..Len(q)
  BY LenProperties DEF WorkIn
<1>2. IsFiniteSet(WorkIn(q))
  <2>1. IsFiniteSet(1..Len(q))
    BY <1>1, FS_Interval
  <2>2. QED
    BY <1>1, <2>1, FS_Subset
<1>3. QED
  BY <1>2, FS_CardinalityType

LEMMA WorkInAppend ==
    ASSUME NEW q \in Seq(0..MaxSignals), NEW e \in 0..MaxSignals
    PROVE  Cardinality(WorkIn(Append(q, e))) =
             Cardinality(WorkIn(q)) + (IF e = Work THEN 1 ELSE 0)
<1>1. /\ Len(q) \in Nat /\ DOMAIN q = 1..Len(q)
      /\ DOMAIN Append(q, e) = 1..(Len(q) + 1)
      /\ Append(q, e)[Len(q) + 1] = e
      /\ \A i \in 1..Len(q) : Append(q, e)[i] = q[i]
  BY AppendTo, LenProperties
<1>2. WorkIn(Append(q, e)) =
        IF e = Work THEN WorkIn(q) \cup {Len(q) + 1} ELSE WorkIn(q)
  BY <1>1 DEF WorkIn
<1>3. Len(q) + 1 \notin WorkIn(q)
  BY <1>1 DEF WorkIn
<1>4. /\ IsFiniteSet(WorkIn(q)) /\ Cardinality(WorkIn(q)) \in Nat
      /\ Cardinality(WorkIn(q) \cup {Len(q) + 1}) = Cardinality(WorkIn(q)) + 1
  BY <1>3, WorkInFinite, FS_AddElement
<1>5. QED
  BY <1>2, <1>4

LEMMA WorkInTail ==
    ASSUME NEW q \in Seq(0..MaxSignals), q # << >>
    PROVE  Cardinality(WorkIn(q)) =
             Cardinality(WorkIn(Tail(q))) + (IF q[1] = Work THEN 1 ELSE 0)
<1>1. /\ Len(q) \in Nat \ {0} /\ DOMAIN q = 1..Len(q)
      /\ DOMAIN Tail(q) = 1..(Len(q) - 1)
      /\ \A i \in 1..Len(q) - 1 : Tail(q)[i] = q[i + 1]
  BY TailOf, LenProperties
<1>. DEFINE later == WorkIn(q) \ {1}
            shift == [i \in later |-> i - 1]
<1>2. IsFiniteSet(later)
      /\ Cardinality(WorkIn(q)) = Cardinality(later) + (IF q[1] = Work THEN 1 ELSE 0)
  <2>1. 1 \in WorkIn(q) <=> q[1] = Work
    BY <1>1 DEF WorkIn
  <2>2. IsFiniteSet(WorkIn(q)) /\ Cardinality(WorkIn(q)) \in Nat
    BY WorkInFinite
  <2>3. /\ IsFiniteSet(later)
        /\ Cardinality(later) = IF 1 \in WorkIn(q) THEN Cardinality(WorkIn(q)) - 1
                                                   ELSE Cardinality(WorkIn(q))
    BY <2>2, FS_RemoveElement
  <2>4. QED
    BY <2>1, <2>2, <2>3
<1>3. shift \in Surjection(later, WorkIn(Tail(q)))
  <2>1. \A i \in later : i - 1 \in WorkIn(Tail(q))
    BY <1>1 DEF WorkIn
  <2>2. \A i \in WorkIn(Tail(q)) : i + 1 \in later /\ (i + 1) - 1 = i
    BY <1>1 DEF WorkIn
  <2>3. QED
    BY <2>1, <2>2 DEF Surjection
<1>4. shift \in Injection(later, WorkIn(Tail(q)))
  <2>1. \A i \in later : i \in Int
    BY <1>1 DEF WorkIn
  <2>2. QED
    BY <1>3, <2>1 DEF Surjection, Injection, IsInjective
<1>5. Cardinality(WorkIn(Tail(q))) = Cardinality(later)
  BY <1>2, <1>3, <1>4, FS_Surjection
<1>6. QED
  BY <1>2, <1>5
-----------------------------------------------------------------------------
(* Until something fails, there is nothing in the queue outside of upload. *)
LEMMA QuietOutside ==
    ASSUME IInv, ~Failed, owner = "drain", step \in {"idle", "release"}
    PROVE  queue = << >> /\ lists = << >>
<1>1. queue = << >>
  BY DEF IInv, ArrivalInv
<1>2. WorkIn(queue) = {}
  BY <1>1, EmptySeq DEF WorkIn
<1>3. Len(lists) = 0
  BY <1>2, FS_EmptySet DEF IInv, UploaderTypeOK, WorkIn
<1>4. QED
  BY <1>1, <1>3, EmptyIffNone DEF IInv, CopiesInv

(* The initial state. *)
LEMMA InitIInv == UploaderInit => IInv
<1>. SUFFICES ASSUME UploaderInit PROVE IInv
  OBVIOUS
<1>1. Init
  BY DEF UploaderInit
<1>2. FenceInv
  <2>1. << >> \in Seq(0..MaxSignals) /\ 0 \in 0..MaxSignals
    BY EmptySeq, FenceAssumption
  <2>2. TypeOK
    BY <1>1, <2>1 DEF Init, TypeOK
  <2>3. CounterInv /\ DrainInv /\ EventInv
    BY <1>1, EmptySeq DEF Init, CounterInv, DrainInv, EventInv
  <2>4. QED
    BY <2>2, <2>3 DEF FenceInv
<1>3. UploaderTypeOK
  <2>1. ToSet(recorded) = {} /\ Len(lists) = 0
    BY EmptySeq DEF UploaderInit, ToSet
  <2>2. Cardinality({i \in DOMAIN queue : queue[i] = Work}) = 0
    <3>1. {i \in DOMAIN queue : queue[i] = Work} = {}
      BY <1>1, EmptySeq DEF Init
    <3>2. QED
      BY <3>1, FS_EmptySet
  <2>3. 0 \in 0..MaxCopies
    BY CopiesAssumption
  <2>4. pc = "idle"
    BY <1>1 DEF Init
  <2>5. QED
    BY <1>2, <2>1, <2>2, <2>3, <2>4 DEF FenceInv, UploaderInit, UploaderTypeOK
<1>4. CopiesInv /\ StepInv
  BY EmptySeq DEF UploaderInit, CopiesInv, StepInv
<1>5. ArrivalInv
  <2>1. \A t \in Targets : CopiesTo(recorded, t) = {}
    BY EmptySeq DEF UploaderInit, CopiesTo
  <2>2. QED
    BY <1>1, <2>1, EmptySeq DEF Init, UploaderInit, ArrivalInv, Brings
<1>6. QED
  BY <1>2, <1>3, <1>4, <1>5 DEF IInv

(* What Clear leaves is what the targets hold. *)
LEMMA ClearIsSound ==
    ASSUME IInv, Clear, UNCHANGED <<content, entered>>, owner = "drain", step = "idle"
    PROVE  /\ CopiesInv' /\ WorkIn(<< >>) = {}
           /\ wanted' \in [Targets -> 0..MaxCopies]
           /\ mCopySrc' \subseteq 1..entered'
           /\ ~Failed => \A t \in Targets \cap Intact : content'[t] = wanted'[t]
           /\ recorded = << >> => lost' = lost
           /\ recorded # << >> => mIsRecording
<1>1. CopiesInv' /\ WorkIn(<< >>) = {}
  BY EmptySeq DEF Clear, CopiesInv, WorkIn
<1>2. wanted' \in [Targets -> 0..MaxCopies] /\ mCopySrc' \subseteq 1..entered'
  BY DEF IInv, UploaderTypeOK, Clear
<1>3. ASSUME ~Failed, NEW t \in Targets \cap Intact
      PROVE  content'[t] = wanted'[t]
  <2>1. Brings(recorded, t)
    BY <1>3, QuietOutside DEF IInv, ArrivalInv
  <2>2. (\E c \in ToSet(recorded) : c.target = t) <=> CopiesTo(recorded, t) # {}
    BY DEF ToSet, CopiesTo
  <2>3. QED
    BY <2>1, <2>2 DEF Clear, Brings
<1>4. recorded = << >> => lost' = lost
  BY EmptySeq DEF Clear, ToSet
<1>5. QED
  BY <1>1, <1>2, <1>3, <1>4 DEF IInv, StepInv

(* The rest of the invariant after init, clear or the destructor.          *)
LEMMA ClearedIInv ==
    ASSUME IInv, Clear, UNCHANGED <<content, entered, owner, pc, step>>,
           owner = "drain", step = "idle",
           FenceInv', queue' = << >>, ~Failed' => ~Failed,
           ready' \in BOOLEAN, closing' \in BOOLEAN,
           lost' # lost => reinit', reinit => reinit'
    PROVE  IInv'
<1>. USE ClearIsSound
<1>1. recorded' = << >> /\ lists' = << >> /\ ~mIsRecording'
  BY DEF Clear
<1>2. UploaderTypeOK'
  <2>1. /\ Len(lists') = 0 /\ ToSet(recorded') = {}
        /\ {i \in DOMAIN queue' : queue'[i] = Work} = {}
    BY <1>1, EmptySeq DEF ToSet
  <2>2. TypeOK' /\ mIsRecording' \in BOOLEAN
    BY DEF FenceInv, Clear
  <2>3. /\ step' \in {"idle", "signal", "wait", "release"}
        /\ (step' = "wait") = (owner' = "drain" /\ pc' # "idle")
        /\ entered' \in 0..MaxCopies /\ content' \in [Targets -> 0..MaxCopies]
    BY DEF IInv, UploaderTypeOK
  <2>4. QED
    BY <2>1, <2>2, <2>3, FS_EmptySet DEF UploaderTypeOK
<1>3. StepInv'
  BY <1>1 DEF IInv, StepInv
<1>4. ArrivalInv'
  <2>1. \A t \in Targets : CopiesTo(recorded', t) = {}
    BY <1>1, EmptySeq DEF CopiesTo
  <2>2. QED
    BY <1>1, <2>1, EmptySeq DEF ArrivalInv, Brings
<1>5. QED
  BY <1>2, <1>3, <1>4 DEF IInv
-----------------------------------------------------------------------------
(* Each step keeps the invariant. *)
LEMMA CounterIInv ==
    ASSUME IInv, CounterNext, UNCHANGED uploaderVars
    PROVE  IInv'
<1>. USE DEF uploaderVars
<1>1. FenceInv'
  BY CounterFenceInv DEF IInv
<1>2. owner = "counter" /\ owner' = "counter" /\ ~failed
  BY DEF IInv, FenceInv, DrainInv, CounterInv, TypeOK, CounterNext, Create, SignalCounter,
         BeginWait, EndWait, TimeOut, GpuSignals
<1>3. /\ WorkIn(queue) = {} /\ WorkIn(queue') = {}
  <2>1. ASSUME NEW q \in Seq(0..MaxSignals), NEW c \in Nat,
               \A i \in 1..Len(q) : q[i] = c + i
        PROVE  WorkIn(q) = {}
    BY <2>1, LenProperties DEF WorkIn, Work
  <2>2. /\ queue \in Seq(0..MaxSignals) /\ completed \in Nat
        /\ queue' \in Seq(0..MaxSignals) /\ completed' \in Nat
    BY <1>1 DEF IInv, FenceInv, TypeOK
  <2>3. /\ \A i \in 1..Len(queue) : queue[i] = completed + i
        /\ \A i \in 1..Len(queue') : queue'[i] = completed' + i
    BY <1>1, <1>2 DEF IInv, FenceInv, CounterInv
  <2>4. QED
    BY <2>1, <2>2, <2>3
<1>4. step = "idle" /\ recorded = << >>
  BY <1>2 DEF IInv, StepInv
<1>5. Len(lists) = 0
  BY <1>3, FS_EmptySet DEF IInv, UploaderTypeOK, WorkIn
<1>6. UploaderTypeOK'
  BY <1>1, <1>2, <1>3, <1>4, <1>5, FS_EmptySet
     DEF IInv, FenceInv, UploaderTypeOK, WorkIn
<1>7. CopiesInv' /\ StepInv'
  BY <1>2 DEF IInv, CopiesInv, StepInv
<1>8. ArrivalInv'
  BY <1>2, <1>4, <1>5 DEF IInv, ArrivalInv, Brings, CopiesTo, Failed
<1>9. QED
  BY <1>1, <1>6, <1>7, <1>8 DEF IInv

LEMMA InitUploaderIInv ==
    ASSUME IInv, InitUploader
    PROVE  IInv'
<1>1. owner = "drain" /\ step = "idle" /\ pc = "idle" /\ closing \in BOOLEAN
  BY DEF IInv, UploaderTypeOK, InitUploader
<1>2. /\ FenceInv' /\ queue' = << >> /\ owner' = owner /\ pc' = pc
  <2>1. CASE Create(1)
    BY <2>1, CreateFenceInv DEF IInv, Create
  <2>2. CASE ReleaseQueue
    BY <1>1, <2>2, ReleaseQueueFenceInv DEF IInv, ReleaseQueue
  <2>3. QED
    BY <2>1, <2>2 DEF InitUploader
<1>3. /\ Clear /\ UNCHANGED <<content, entered, step>>
      /\ ready' \in BOOLEAN /\ closing' \in BOOLEAN
      /\ reinit => reinit'
      /\ ~Failed' => ~Failed
  BY <1>1 DEF InitUploader, Failed
<1>4. lost' # lost => reinit'
  BY <1>1, <1>3, ClearIsSound DEF InitUploader
<1>5. QED
  BY <1>1, <1>2, <1>3, <1>4, ClearedIInv

LEMMA ClearUploaderIInv ==
    ASSUME IInv, ClearUploader
    PROVE  IInv'
<1>1. owner = "drain" /\ step = "idle" /\ pc = "idle" /\ closing \in BOOLEAN
  BY DEF IInv, UploaderTypeOK, ClearUploader
<1>2. FenceInv' /\ queue' = << >> /\ owner' = owner /\ pc' = pc
  BY <1>1, ReleaseQueueFenceInv DEF IInv, ClearUploader, ReleaseQueue
<1>3. /\ Clear /\ UNCHANGED <<content, entered, step>>
      /\ ready' \in BOOLEAN /\ closing' \in BOOLEAN
      /\ reinit => reinit'
      /\ ~Failed' => ~Failed
  BY <1>1 DEF ClearUploader, ReleaseQueue, history, Failed
<1>4. lost' # lost => reinit'
  BY <1>1, <1>3, ClearIsSound DEF ClearUploader
<1>5. QED
  BY <1>1, <1>2, <1>3, <1>4, ClearedIInv

LEMMA EndDestroyIInv ==
    ASSUME IInv, EndDestroy
    PROVE  IInv'
<1>1. owner = "drain" /\ step = "idle" /\ pc = "idle" /\ ~mIsRecording
  BY DEF IInv, UploaderTypeOK, StepInv, EndDestroy, MayRelease
<1>2. FenceInv' /\ queue' = << >> /\ owner' = owner /\ pc' = pc
  BY <1>1, ReleaseQueueFenceInv DEF IInv, EndDestroy, ReleaseQueue
<1>3. /\ Clear /\ UNCHANGED <<content, entered, step>>
      /\ ready' \in BOOLEAN /\ closing' \in BOOLEAN
      /\ reinit => reinit'
      /\ ~Failed' => ~Failed
  BY <1>1 DEF EndDestroy, ReleaseQueue, history, Failed
<1>4. lost' = lost
  BY <1>1, <1>3, ClearIsSound DEF EndDestroy
<1>5. QED
  BY <1>1, <1>2, <1>3, <1>4, ClearedIInv

LEMMA BeginDestroyIInv ==
    ASSUME IInv, BeginDestroy
    PROVE  IInv'
<1>1. FenceInv'
  BY StutterFenceInv DEF IInv, BeginDestroy
<1>2. UploaderTypeOK' /\ CopiesInv' /\ StepInv'
  BY <1>1 DEF IInv, FenceInv, UploaderTypeOK, CopiesInv, StepInv, BeginDestroy, vars, history
<1>3. ArrivalInv'
  BY DEF IInv, ArrivalInv, Brings, CopiesTo, Failed, BeginDestroy, vars, history
<1>4. QED
  BY <1>1, <1>2, <1>3 DEF IInv

LEMMA EndUploadIInv ==
    ASSUME IInv, EndUpload
    PROVE  IInv'
<1>1. FenceInv' /\ owner = "drain" /\ recorded = << >>
  BY StutterFenceInv DEF IInv, StepInv, EndUpload
<1>2. ToSet(recorded) = {}
  BY <1>1, EmptySeq DEF ToSet
<1>3. UploaderTypeOK'
  BY <1>1, <1>2 DEF IInv, FenceInv, UploaderTypeOK, EndUpload, vars, history
<1>4. CopiesInv' /\ StepInv'
  BY <1>1, EmptySeq DEF IInv, CopiesInv, StepInv, EndUpload, vars, history
<1>5. ArrivalInv'
  BY <1>1, QuietOutside
     DEF IInv, ArrivalInv, Brings, CopiesTo, Failed, EndUpload, vars, history
<1>6. QED
  BY <1>1, <1>3, <1>4, <1>5 DEF IInv

LEMMA SignalFailsIInv ==
    ASSUME IInv, SignalFails
    PROVE  IInv'
<1>1. FenceInv' /\ owner = "drain"
  BY StutterFenceInv DEF IInv, StepInv, SignalFails
<1>2. UploaderTypeOK' /\ CopiesInv' /\ StepInv'
  BY <1>1 DEF IInv, FenceInv, UploaderTypeOK, CopiesInv, StepInv, SignalFails, vars, history
<1>3. ArrivalInv'
  BY DEF ArrivalInv, Failed, SignalFails
<1>4. QED
  BY <1>1, <1>2, <1>3 DEF IInv

LEMMA EntryCopyIInv ==
    ASSUME IInv, NEW t \in Targets, EntryCopy(t)
    PROVE  IInv'
<1>. DEFINE copy == [id |-> entered + 1, target |-> t, intact |-> t \in Intact]
<1>0. copy.id = entered + 1 /\ copy.target = t
  OBVIOUS
<1>1. /\ FenceInv' /\ owner = "drain" /\ step = "idle"
      /\ entered \in Nat /\ entered + 1 \in 1..MaxCopies
      /\ UNCHANGED <<owner, queue, pc>>
  BY StutterFenceInv, CopiesAssumption
     DEF IInv, StepInv, UploaderTypeOK, EntryCopy, vars, history
<1>2. copy \in Copy
  BY <1>1 DEF Copy
<1>3. /\ recorded' = Append(recorded, copy)
      /\ mCopySrc' = mCopySrc \cup {copy.id}
      /\ wanted' = [wanted EXCEPT ![t] = copy.id]
      /\ UNCHANGED <<lists, content, step, closing, ready, lost, reinit, trouble, failed>>
      /\ entered' = entered + 1 /\ mIsRecording'
  BY DEF EntryCopy, vars, history
<1>. HIDE DEF copy
<1>4. /\ recorded \in Seq(Copy) /\ recorded' \in Seq(Copy) /\ recorded' # << >>
      /\ Len(recorded) \in Nat /\ Len(recorded') = Len(recorded) + 1
      /\ recorded'[Len(recorded) + 1] = copy
      /\ \A i \in 1..Len(recorded) : recorded'[i] = recorded[i]
  BY <1>2, <1>3, AppendTo, EmptyIffNone DEF IInv, CopiesInv
<1>5. \A i \in 1..Len(recorded') : recorded'[i] \in Copy /\ recorded'[i].id \in mCopySrc'
  <2>1. \A i \in 1..Len(recorded) : recorded'[i].id \in mCopySrc'
    BY <1>3, <1>4 DEF IInv, CopiesInv
  <2>2. copy.id \in mCopySrc'
    BY <1>3
  <2>3. QED
    BY <1>4, <2>1, <2>2, ElementOfSeq
<1>6. CopiesInv'
  BY <1>3, <1>4, <1>5 DEF IInv, CopiesInv
<1>7. UploaderTypeOK'
  <2>1. \A c \in ToSet(recorded') : c.id \in mCopySrc' /\ c.target \in Targets
    BY <1>4, <1>5, LenProperties DEF ToSet, Copy
  <2>2. wanted' \in [Targets -> 0..MaxCopies] /\ mCopySrc' \subseteq 1..entered'
    <3>1. wanted \in [Targets -> 0..MaxCopies] /\ mCopySrc \subseteq 1..entered
      BY DEF IInv, UploaderTypeOK
    <3>2. copy.id \in 0..MaxCopies /\ copy.id \in 1..entered'
      BY <1>0, <1>1, <1>3
    <3>3. 1..entered \subseteq 1..entered'
      BY <1>1, <1>3
    <3>4. QED
      BY <1>3, <3>1, <3>2, <3>3
  <2>3. QED
    BY <1>1, <1>3, <2>1, <2>2 DEF IInv, FenceInv, UploaderTypeOK, EntryCopy
<1>8. StepInv'
  BY <1>1, <1>3, <1>4 DEF IInv, StepInv
<1>9. ArrivalInv'
  <2>1. SUFFICES ASSUME ~Failed
                 PROVE  ArrivalInv'
    BY <1>3 DEF ArrivalInv, Failed
  <2>2. queue = << >> /\ lists = << >>
    BY <1>1, <2>1, QuietOutside
  <2>3. ASSUME NEW u \in Targets \cap Intact
        PROVE  Brings(recorded, u)'
    <3>1. Brings(recorded, u)
      BY <2>1, <2>2, <2>3 DEF IInv, ArrivalInv
    <3>2. CASE u = t
      <4>1. /\ CopiesTo(recorded', u) # {}
            /\ recorded'[Max(CopiesTo(recorded', u))] = copy
        <5>1. u \in Targets /\ u = copy.target /\ recorded \in Seq(Copy)
          BY <1>0, <1>4, <3>2
        <5>2. /\ CopiesTo(Append(recorded, copy), u) # {}
              /\ Append(recorded, copy)[Max(CopiesTo(Append(recorded, copy), u))] = copy
          BY <1>2, <5>1, LastCopyOfAppend
        <5>3. QED
          BY <1>3, <5>2
      <4>2. wanted'[u] = copy.id
        BY <1>3, <3>2 DEF IInv, UploaderTypeOK
      <4>3. QED
        BY <4>1, <4>2 DEF Brings
    <3>3. CASE u # t
      <4>1. /\ CopiesTo(recorded', u) = CopiesTo(recorded, u)
            /\ CopiesTo(recorded, u) # {} =>
                 recorded'[Max(CopiesTo(recorded, u))] = recorded[Max(CopiesTo(recorded, u))]
        <5>1. u \in Targets /\ u # copy.target
          BY <1>0, <3>3
        <5>2. QED
          BY <1>2, <1>3, <1>4, <5>1, LastCopyOfAppend
      <4>2. wanted'[u] = wanted[u] /\ content' = content
        BY <1>3, <3>3 DEF IInv, UploaderTypeOK
      <4>3. QED
        BY <3>1, <4>1, <4>2 DEF Brings
    <3>4. QED
      BY <3>2, <3>3
  <2>4. QED
    BY <1>1, <1>3, <2>1, <2>2, <2>3 DEF IInv, ArrivalInv
<1>10. QED
  BY <1>1, <1>6, <1>7, <1>8, <1>9 DEF IInv

LEMMA BeginUploadIInv ==
    ASSUME IInv, BeginUpload
    PROVE  IInv'
<1>1. /\ FenceInv' /\ owner = "drain" /\ step = "idle" /\ step' = "signal" /\ mIsRecording
      /\ owner' = owner /\ pc' = pc /\ pc = "idle" /\ queue' = Append(queue, Work)
      /\ lists' = Append(lists, recorded) /\ recorded' = << >>
      /\ UNCHANGED <<ready, mIsRecording, mCopySrc, closing, entered,
                     wanted, content, lost, reinit, trouble, failed>>
  BY ExecuteFenceInv DEF IInv, BeginUpload, Execute, history
<1>2. /\ lists' \in Seq(Seq(Copy)) /\ lists' # << >>
      /\ Len(lists') = Len(lists) + 1 /\ lists'[Len(lists) + 1] = recorded
  BY <1>1, AppendTo DEF IInv, CopiesInv
<1>3. ToSet(recorded') = {} /\ Len(recorded') = 0 /\ recorded' \in Seq(Copy)
  BY <1>1, EmptySeq DEF ToSet
<1>4. Len(lists') = Cardinality(WorkIn(queue'))
  <2>1. Work \in 0..MaxSignals /\ queue \in Seq(0..MaxSignals)
    BY FenceAssumption DEF IInv, FenceInv, TypeOK, Work
  <2>2. Cardinality(WorkIn(queue')) = Cardinality(WorkIn(queue)) + 1
    BY <1>1, <2>1, WorkInAppend
  <2>3. QED
    BY <1>2, <2>2 DEF IInv, UploaderTypeOK, WorkIn
<1>5. UploaderTypeOK'
  BY <1>1, <1>3, <1>4 DEF IInv, FenceInv, UploaderTypeOK, WorkIn
<1>6. CopiesInv'
  BY <1>2, <1>3 DEF CopiesInv
<1>7. StepInv'
  BY <1>1 DEF IInv, StepInv
<1>8. ArrivalInv'
  <2>1. SUFFICES ASSUME ~Failed
                 PROVE  ArrivalInv'
    BY <1>1 DEF ArrivalInv, Failed
  <2>2. lists = << >> /\ Len(lists) = 0
    BY <1>1, <2>1, QuietOutside, EmptySeq
  <2>3. lists'[1] = recorded /\ Len(lists') = 1
    BY <1>2, <2>2
  <2>4. ASSUME NEW u \in Targets \cap Intact
        PROVE  Brings(lists[1], u)'
    BY <1>1, <2>1, <2>2, <2>3 DEF IInv, ArrivalInv, Brings
  <2>5. \A i \in 1..Len(lists'[1]) : lists'[1][i].id \in mCopySrc'
    BY <1>1, <2>3 DEF IInv, CopiesInv
  <2>6. QED
    BY <1>1, <1>2, <2>3, <2>4, <2>5 DEF ArrivalInv
<1>9. QED
  BY <1>1, <1>5, <1>6, <1>7, <1>8 DEF IInv

LEMMA UploadSignalsIInv ==
    ASSUME IInv, UploadSignals
    PROVE  IInv'
<1>1. /\ FenceInv' /\ owner = "drain" /\ owner' = "drain"
      /\ step' = "wait" /\ pc' # "idle" /\ completed + 1 \in 0..MaxSignals
      /\ completed + 1 # Work
      /\ queue' = Append(queue, completed + 1)
      /\ UNCHANGED <<ready, mIsRecording, recorded, mCopySrc, lists, closing, entered,
                     wanted, content, lost, reinit, trouble, failed>>
  <2>1. FenceInv'
    BY SignalNextFenceInv DEF IInv, UploadSignals
  <2>2. completed \in 0..MaxSignals /\ MaxSignals \in Nat
    BY FenceAssumption DEF IInv, FenceInv, TypeOK
  <2>3. QED
    BY <2>1, <2>2 DEF UploadSignals, SignalNext, history, Work
<1>2. Cardinality(WorkIn(queue')) = Cardinality(WorkIn(queue))
  <2>1. queue \in Seq(0..MaxSignals)
    BY DEF IInv, FenceInv, TypeOK
  <2>2. Cardinality(WorkIn(queue)) \in Nat
    BY <2>1, WorkInFinite
  <2>3. QED
    BY <1>1, <2>1, <2>2, WorkInAppend
<1>3. UploaderTypeOK'
  BY <1>1, <1>2 DEF IInv, FenceInv, UploaderTypeOK, WorkIn
<1>4. CopiesInv' /\ StepInv'
  BY <1>1 DEF IInv, CopiesInv, StepInv, UploadSignals
<1>5. ArrivalInv'
  BY <1>1 DEF IInv, ArrivalInv, Brings, CopiesTo, Failed
<1>6. QED
  BY <1>1, <1>3, <1>4, <1>5 DEF IInv

LEMMA UploadWaitsIInv ==
    ASSUME IInv, UploadWaits
    PROVE  IInv'
<1>1. /\ owner = "drain" /\ owner' = "drain"
      /\ step' = IF pc' = "idle" THEN "release" ELSE "wait"
      /\ queue' = queue
      /\ UNCHANGED <<ready, mIsRecording, recorded, mCopySrc, lists, closing, entered,
                     wanted, content, lost, reinit, trouble>>
      /\ failed => failed'
  BY DEF IInv, StepInv, UploadWaits, SkipWait, WaitForNext, WaitFails, EndWait, history
<1>2. FenceInv' /\ (pc' = "idle" /\ ~failed' => queue = << >>)
  <2>1. CASE SkipWait
    BY <1>1, <2>1, SkipWaitFenceInv DEF IInv
  <2>2. CASE WaitForNext
    BY <2>2, WaitForNextFenceInv DEF IInv, WaitForNext
  <2>3. CASE WaitFails
    BY <2>3, WaitFailsFenceInv DEF IInv, WaitFails
  <2>4. CASE EndWait
    BY <1>1, <2>4, EndWaitFenceInv DEF IInv
  <2>5. QED
    BY <2>1, <2>2, <2>3, <2>4 DEF UploadWaits
<1>3. UploaderTypeOK'
  BY <1>1, <1>2 DEF IInv, FenceInv, UploaderTypeOK
<1>4. CopiesInv' /\ StepInv'
  BY <1>1 DEF IInv, CopiesInv, StepInv, UploadWaits
<1>5. ArrivalInv'
  BY <1>1, <1>2 DEF IInv, ArrivalInv, Brings, CopiesTo, Failed
<1>6. QED
  BY <1>2, <1>3, <1>4, <1>5 DEF IInv

LEMMA GpuReachesSignalIInv ==
    ASSUME IInv, GpuReachesSignal
    PROVE  IInv'
<1>1. /\ FenceInv' /\ owner = "drain" /\ UNCHANGED <<owner, pc, failed, uploaderVars>>
      /\ queue # << >> /\ Head(queue) # Work /\ queue' = Tail(queue)
  BY GpuSignalsFenceInv DEF IInv, GpuReachesSignal, GpuSignals, history
<1>2. Cardinality(WorkIn(queue')) = Cardinality(WorkIn(queue))
  <2>1. queue \in Seq(0..MaxSignals) /\ queue' \in Seq(0..MaxSignals)
    BY <1>1 DEF IInv, FenceInv, TypeOK
  <2>2. Cardinality(WorkIn(queue')) \in Nat /\ queue[1] # Work
    BY <1>1, <2>1, WorkInFinite, TailOf
  <2>3. QED
    BY <1>1, <2>1, <2>2, WorkInTail
<1>3. UploaderTypeOK'
  BY <1>1, <1>2 DEF IInv, FenceInv, UploaderTypeOK, WorkIn, uploaderVars
<1>4. CopiesInv' /\ StepInv'
  BY <1>1 DEF IInv, CopiesInv, StepInv, uploaderVars
<1>5. ArrivalInv'
  BY <1>1 DEF IInv, ArrivalInv, Brings, CopiesTo, Failed, uploaderVars
<1>6. QED
  BY <1>1, <1>3, <1>4, <1>5 DEF IInv

LEMMA GpuCopiesIInv ==
    ASSUME IInv, GpuCopies
    PROVE  IInv'
<1>1. /\ FenceInv' /\ queue # << >> /\ Head(queue) = Work /\ queue' = Tail(queue)
      /\ lists' = Tail(lists)
      /\ UNCHANGED <<owner, pc, failed, ready, mIsRecording, recorded, mCopySrc, step,
                     closing, entered, wanted, lost, reinit, trouble>>
  BY GpuRunsWorkFenceInv DEF IInv, GpuCopies, GpuRunsWork, history
<1>2. /\ queue \in Seq(0..MaxSignals) /\ queue' \in Seq(0..MaxSignals) /\ queue[1] = Work
  BY <1>1, TailOf DEF IInv, FenceInv, TypeOK
<1>3. /\ Cardinality(WorkIn(queue')) \in Nat
      /\ Cardinality(WorkIn(queue)) = Cardinality(WorkIn(queue')) + 1
  BY <1>1, <1>2, WorkInFinite, WorkInTail
<1>4. lists # << >>
  BY <1>3, EmptySeq DEF IInv, UploaderTypeOK, WorkIn
<1>5. /\ lists' \in Seq(Seq(Copy)) /\ Len(lists') = Len(lists) - 1
      /\ Head(lists) = lists[1] /\ lists[1] \in Seq(Copy) /\ Len(lists) \in Nat
  BY <1>1, <1>4, TailOf DEF IInv, CopiesInv
<1>6. owner = "drain"
  BY <1>1, <1>2, EmptyIffNone DEF IInv, FenceInv, TypeOK, CounterInv, Work
<1>7. \A t \in Targets :
        content'[t] = IF CopiesTo(lists[1], t) = {}
                      THEN content[t]
                      ELSE Arrives(lists[1][Max(CopiesTo(lists[1], t))])
  BY <1>5 DEF GpuCopies
<1>8. content' \in [Targets -> 0..MaxCopies]
  <2>1. \A c \in Copy : Arrives(c) \in 0..MaxCopies
    BY CopiesAssumption DEF Arrives, Copy
  <2>2. content \in [Targets -> 0..MaxCopies]
    BY DEF IInv, UploaderTypeOK
  <2>3. \A t \in Targets : content'[t] \in 0..MaxCopies
    BY <1>5, <1>7, <2>1, <2>2, LastCopy
  <2>4. QED
    BY <2>3 DEF GpuCopies
<1>9. UploaderTypeOK'
  <2>1. Len(lists') = Cardinality(WorkIn(queue'))
    BY <1>3, <1>5 DEF IInv, UploaderTypeOK, WorkIn
  <2>2. QED
    BY <1>1, <1>8, <2>1 DEF IInv, FenceInv, UploaderTypeOK, WorkIn
<1>10. CopiesInv' /\ StepInv'
  BY <1>1, <1>5 DEF IInv, CopiesInv, StepInv
<1>11. ArrivalInv'
  <2>1. SUFFICES ASSUME ~Failed
                 PROVE  ArrivalInv'
    BY <1>1 DEF ArrivalInv, Failed
  <2>2. step \notin {"idle", "release"} /\ recorded = << >>
    BY <1>1, <1>6, <2>1 DEF IInv, ArrivalInv, StepInv, UploaderTypeOK
  <2>3. Len(lists') = 0 /\ lists' = << >>
    BY <1>3, <1>4, <1>5, <2>1, EmptyIffNone DEF IInv, ArrivalInv
  <2>4. ASSUME NEW t \in Targets \cap Intact
        PROVE  Brings(recorded, t)'
    <3>1. Brings(lists[1], t) /\ \A i \in 1..Len(lists[1]) : lists[1][i].id \in mCopySrc
      BY <1>4, <2>1 DEF IInv, ArrivalInv
    <3>2. content'[t] = wanted[t]
      <4>1. CASE CopiesTo(lists[1], t) = {}
        BY <1>7, <3>1, <4>1 DEF Brings
      <4>2. CASE CopiesTo(lists[1], t) # {}
        <5>. DEFINE final == Max(CopiesTo(lists[1], t))
        <5>1. /\ final \in 1..Len(lists[1]) /\ lists[1][final] \in Copy
              /\ lists[1][final].target = t
          BY <1>5, <4>2, LastCopy
        <5>2. /\ content'[t] = Arrives(lists[1][final])
              /\ lists[1][final].id = wanted[t]
          BY <1>7, <3>1, <4>2 DEF Brings
        <5>3. lists[1][final].intact /\ lists[1][final].id \in mCopySrc
          BY <3>1, <5>1, <2>4 DEF Copy
        <5>4. QED
          BY <5>2, <5>3 DEF Arrives
      <4>3. QED
        BY <4>1, <4>2
    <3>3. recorded' = << >> /\ CopiesTo(<< >>, t) = {}
      BY <1>1, <2>2, EmptySeq DEF CopiesTo
    <3>4. QED
      BY <1>1, <3>2, <3>3 DEF Brings
  <2>5. step' \notin {"idle", "release"} /\ Len(lists') <= 1 /\ lists' = << >>
    BY <1>1, <2>2, <2>3
  <2>6. QED
    BY <2>4, <2>5 DEF ArrivalInv
<1>12. QED
  BY <1>1, <1>9, <1>10, <1>11 DEF IInv

LEMMA NextIInv ==
    ASSUME IInv, [UploaderNext]_allVars
    PROVE  IInv'
<1>1. CASE UploaderNext
  BY <1>1, CounterIInv, InitUploaderIInv, EntryCopyIInv, BeginUploadIInv, UploadSignalsIInv,
     SignalFailsIInv, UploadWaitsIInv, EndUploadIInv, ClearUploaderIInv, BeginDestroyIInv,
     EndDestroyIInv, GpuCopiesIInv, GpuReachesSignalIInv DEF UploaderNext
<1>2. CASE UNCHANGED allVars
  <2>. USE <1>2 DEF allVars, uploaderVars
  <2>1. FenceInv'
    BY StutterFenceInv DEF IInv
  <2>2. UploaderTypeOK'
    BY <2>1 DEF IInv, FenceInv, UploaderTypeOK, vars, history
  <2>3. CopiesInv' /\ StepInv'
    BY DEF IInv, CopiesInv, StepInv, vars, history
  <2>4. ArrivalInv'
    BY DEF IInv, ArrivalInv, Brings, CopiesTo, Failed, vars, history
  <2>5. QED
    BY <2>1, <2>2, <2>3, <2>4 DEF IInv
<1>3. QED
  BY <1>1, <1>2
-----------------------------------------------------------------------------
(* The invariant of the fence and of the uploader over it.                 *)
THEOREM UploaderInvariant == Spec => []IInv
<1>1. UploaderInit => IInv
  BY InitIInv
<1>2. IInv /\ [UploaderNext]_allVars => IInv'
  BY NextIInv
<1>3. QED
  BY <1>1, <1>2, PTL DEF Spec

(* The states of both: there are as many lists as ExecuteCommandLists has  *)
(* put in the queue, and the thread waits only inside upload.              *)
THEOREM UploaderTypes == Spec => []UploaderTypeOK
<1>1. IInv => UploaderTypeOK
  BY DEF IInv
<1>2. QED
  BY <1>1, UploaderInvariant, PTL

(* The data of every entry that CopySource lays out so that its copies     *)
(* read it is there when upload has returned, and no copy is lost but by   *)
(* an init or clear that the user calls with an open recording.            *)
THEOREM UploaderDelivers ==
    ASSUME Targets \subseteq Intact
    PROVE  Spec => []UploadedIsThere
<1>1. IInv => UploadedIsThere
  <2>1. SUFFICES ASSUME IInv PROVE UploadedIsThere
    OBVIOUS
  <2>2. ASSUME ~Failed, ~mIsRecording
        PROVE  content = wanted
    <3>1. ASSUME NEW t \in Targets
          PROVE  content[t] = wanted[t]
      <4>1. step = "idle" /\ recorded = << >>
        BY <2>1, <2>2 DEF IInv, StepInv
      <4>2. CASE owner = "drain"
        <5>1. lists = << >>
          BY <2>1, <2>2, <4>1, <4>2, QuietOutside
        <5>2. CopiesTo(recorded, t) = {}
          BY <4>1, EmptySeq DEF CopiesTo
        <5>3. QED
          BY <2>1, <2>2, <5>1, <5>2 DEF IInv, ArrivalInv, Brings
      <4>3. CASE owner # "drain"
        <5>1. lists = << >>
          BY <2>1, <4>3 DEF IInv, StepInv
        <5>2. CopiesTo(recorded, t) = {}
          BY <4>1, EmptySeq DEF CopiesTo
        <5>3. QED
          BY <2>1, <2>2, <5>1, <5>2 DEF IInv, ArrivalInv, Brings
      <4>4. QED
        BY <4>2, <4>3
    <3>2. QED
      BY <2>1, <3>1 DEF IInv, UploaderTypeOK
  <2>3. QED
    BY <2>1, <2>2 DEF UploadedIsThere, IInv, StepInv
<1>2. QED
  BY <1>1, UploaderInvariant, PTL

(* A wait that the event ends has waited for its value, until a wait has   *)
(* timed out or a registration has failed.                                 *)
THEOREM FenceWaitReachesValue == Spec => WaitReachesValue
<1>1. IInv => [EndWait /\ ~timedOut /\ ~failed => completed >= target]_vars
  BY DEF IInv, FenceInv, EventInv, EndWait
<1>2. QED
  BY <1>1, UploaderInvariant, PTL DEF WaitReachesValue

(* When sSignalAndWait returns, the queue has run all that was executed.   *)
THEOREM FenceDrains == Spec => SignalAndWaitDrains
<1>1. IInv /\ [UploaderNext]_allVars =>
        [owner = "drain" /\ pc # "idle" /\ pc' = "idle" /\ ~failed' => queue = << >>]_vars
  <2>1. SUFFICES ASSUME IInv, UploaderNext,
                        owner = "drain", pc # "idle", pc' = "idle", ~failed'
                 PROVE  queue = << >>
    BY DEF allVars, vars
  <2>2. FenceInv
    BY <2>1 DEF IInv
  <2>3. EndWait \/ SkipWait
    BY <2>1, <2>2
       DEF UploaderNext, CounterNext, Create, SignalCounter, BeginWait, TimeOut, GpuSignals,
           InitUploader, ReleaseQueue, EntryCopy, BeginUpload, Execute, UploadSignals,
           SignalNext, SignalFails, UploadWaits, WaitForNext, WaitFails, EndUpload,
           ClearUploader, BeginDestroy, EndDestroy, GpuCopies, GpuRunsWork, GpuReachesSignal,
           FenceInv, DrainInv, vars, history
  <2>4. ~failed
    BY <2>1, <2>3 DEF EndWait, SkipWait, history
  <2>5. QED
    BY <2>1, <2>2, <2>3, <2>4, EndWaitFenceInv, SkipWaitFenceInv
<1>2. QED
  BY <1>1, UploaderInvariant, PTL DEF Spec, SignalAndWaitDrains
=============================================================================
