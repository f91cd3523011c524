----------------------------- MODULE DX12Fence ------------------------------
(***************************************************************************)
(* hinode::graphics::DX12Fence (dx12/graphics/dx12/fence).                 *)
(*                                                                         *)
(* A fence that the GPU queue sets when it reaches a Signal, and one       *)
(* auto-reset event on which the CPU thread waits for it.  Its owners use  *)
(* it in one of two ways: RingBuffer and FrameDataManager signal a counter *)
(* and wait for values they have signalled; ResourceUploader executes work *)
(* and calls sSignalAndWait.                                               *)
(*                                                                         *)
(* The thread and the queue interleave.  wait is three steps: arming the   *)
(* event, then either its signal or the time-out.  This module has the     *)
(* steps and their properties; ResourceUploader composes them.             *)
(***************************************************************************)
EXTENDS Integers, Sequences

CONSTANTS
    Waits,      \* the kinds of waitMilliseconds: "INFINITE", "finite"
    MaxSignals  \* bound of the values signalled

ASSUME FenceAssumption == Waits \subseteq {"INFINITE", "finite"} /\ MaxSignals \in Nat \ {0}

VARIABLES
    owner,      \* how the fence is used: "counter" or "drain"
    last,       \* the last value the owner signalled
    queue,      \* what the GPU queue has not reached: values to signal, or Work
    completed,  \* GetCompletedValue of mpFence
    event,      \* mHandle is signalled
    armed,      \* the values SetEventOnCompletion has tied to mHandle
    pc,         \* where the thread is: "idle", "signalled", "waiting"
    target,     \* the value it waits for
    limit,      \* its waitMilliseconds
    timedOut,   \* history: some wait has timed out
    failed      \* history: some SetEventOnCompletion has failed

history == <<timedOut, failed>>
vars == <<owner, last, queue, completed, event, armed, pc, target, limit, history>>

Work == 0  \* command lists given to the queue between two signals

Init ==
    /\ owner \in {"counter", "drain"}
    /\ last = 0
    /\ queue = << >>
    /\ completed = 0
    /\ event = FALSE
    /\ armed = {}
    /\ pc = "idle"
    /\ target = 0
    /\ limit = "INFINITE"
    /\ timedOut = FALSE
    /\ failed = FALSE
-----------------------------------------------------------------------------
(* create: clear, a new fence at its initial value, a new event.  What the *)
(* queue has not reached is for the fence that was released.               *)
Create(initValue) ==
    /\ pc = "idle"
    /\ last' = initValue
    /\ queue' = << >>
    /\ completed' = initValue
    /\ event' = FALSE
    /\ armed' = {}
    /\ timedOut' = FALSE
    /\ failed' = FALSE
    /\ UNCHANGED <<owner, pc, target, limit>>

(* ID3D12CommandQueue::ExecuteCommandLists, of ResourceUploader::upload.   *)
Execute ==
    /\ owner = "drain"
    /\ pc = "idle"
    /\ Len(queue) < MaxSignals
    /\ queue' = Append(queue, Work)
    /\ UNCHANGED <<owner, last, completed, event, armed, pc, target, limit, history>>

(* ID3D12CommandQueue::Signal of the owner's counter.                      *)
SignalCounter ==
    /\ owner = "counter"
    /\ pc = "idle"
    /\ last < MaxSignals
    /\ last' = last + 1
    /\ queue' = Append(queue, last + 1)
    /\ UNCHANGED <<owner, completed, event, armed, pc, target, limit, history>>

(* SetEventOnCompletion: sets the event at once when the fence has reached *)
(* the value, else when it does.                                           *)
ArmEvent(value) ==
    IF completed >= value
    THEN event' = TRUE /\ UNCHANGED armed
    ELSE armed' = armed \cup {value} /\ UNCHANGED event

(* wait(value, waitMilliseconds), up to WaitForSingleObject.               *)
BeginWait(value, ms) ==
    /\ owner = "counter"
    /\ pc = "idle"
    /\ ArmEvent(value)
    /\ pc' = "waiting"
    /\ target' = value
    /\ limit' = ms
    /\ UNCHANGED <<owner, last, queue, completed, history>>

(* Mutant of EndWait: CreateEvent made an event that is reset by hand.     *)
EndWaitManualReset ==
    /\ pc = "waiting"
    /\ event
    /\ pc' = "idle"
    /\ UNCHANGED <<owner, last, queue, completed, event, armed, target, limit, history>>

(* WaitForSingleObject takes the signal, and the event resets itself.      *)
EndWait ==
    /\ pc = "waiting"
    /\ event
    /\ event' = FALSE
    /\ pc' = "idle"
    /\ UNCHANGED <<owner, last, queue, completed, armed, target, limit, history>>

(* WaitForSingleObject gives up.  wait returns S_OK all the same, and the  *)
(* event stays tied to the value.                                          *)
TimeOut ==
    /\ pc = "waiting"
    /\ limit = "finite"
    /\ ~event
    /\ timedOut' = TRUE
    /\ pc' = "idle"
    /\ UNCHANGED <<owner, last, queue, completed, event, armed, target, limit, failed>>
-----------------------------------------------------------------------------
(* Mutant of SignalNext: the completed value is signalled again.           *)
SignalNextSameValue ==
    /\ owner = "drain"
    /\ pc = "idle"
    /\ completed < MaxSignals
    /\ Len(queue) < MaxSignals
    /\ target' = completed
    /\ last' = completed
    /\ queue' = Append(queue, completed)
    /\ pc' = "signalled"
    /\ UNCHANGED <<owner, completed, event, armed, limit, history>>

(* Mutant of SignalNext: the value is signalled before it is counted up.   *)
SignalNextSignalsOld ==
    /\ owner = "drain"
    /\ pc = "idle"
    /\ completed < MaxSignals
    /\ Len(queue) < MaxSignals
    /\ target' = completed + 1
    /\ last' = completed
    /\ queue' = Append(queue, completed)
    /\ pc' = "signalled"
    /\ UNCHANGED <<owner, completed, event, armed, limit, history>>

(* sSignalAndWait: the value after the one that is completed, signalled.   *)
SignalNext ==
    /\ owner = "drain"
    /\ pc = "idle"
    /\ completed < MaxSignals
    /\ Len(queue) < MaxSignals
    /\ target' = completed + 1
    /\ last' = completed + 1
    /\ queue' = Append(queue, completed + 1)
    /\ pc' = "signalled"
    /\ UNCHANGED <<owner, completed, event, armed, limit, history>>

(* The fence is there already: sSignalAndWait returns true without a wait. *)
SkipWait ==
    /\ pc = "signalled"
    /\ completed >= target
    /\ pc' = "idle"
    /\ UNCHANGED <<owner, last, queue, completed, event, armed, target, limit, history>>

(* It is not: wait(value), for ever.  The GPU may reach the value between  *)
(* the check and the call.                                                 *)
WaitForNext ==
    /\ pc = "signalled"
    /\ ArmEvent(target)
    /\ pc' = "waiting"
    /\ limit' = "INFINITE"
    /\ UNCHANGED <<owner, last, queue, completed, target, history>>

(* SetEventOnCompletion fails: wait returns its HRESULT, which             *)
(* sSignalAndWait ignores, and it returns true.                            *)
WaitFails ==
    /\ pc = "signalled"
    /\ completed < target
    /\ failed' = TRUE
    /\ pc' = "idle"
    /\ UNCHANGED <<owner, last, queue, completed, event, armed, target, limit, timedOut>>
-----------------------------------------------------------------------------
(* The GPU runs the command lists at the head of its queue, ...            *)
GpuRunsWork ==
    /\ queue # << >> /\ Head(queue) = Work
    /\ queue' = Tail(queue)
    /\ UNCHANGED <<owner, last, completed, event, armed, pc, target, limit, history>>

(* ... or sets the fence to the value there, which fires the events tied   *)
(* to it or to less.                                                       *)
GpuSignals ==
    /\ queue # << >> /\ Head(queue) # Work
    /\ queue' = Tail(queue)
    /\ completed' = Head(queue)
    /\ armed' = {v \in armed : v > completed'}
    /\ event' = (event \/ armed' # armed)
    /\ UNCHANGED <<owner, last, pc, target, limit, history>>

(* What an owner with a counter, RingBuffer or FrameDataManager, does.     *)
CounterNext ==
    \/ owner = "counter" /\ Create(0)
    \/ SignalCounter
    \/ \E value \in 0..last, ms \in Waits : BeginWait(value, ms)
    \/ owner = "counter" /\ EndWait
    \/ TimeOut
    \/ owner = "counter" /\ GpuSignals
-----------------------------------------------------------------------------
TypeOK ==
    /\ owner \in {"counter", "drain"}
    /\ last \in 0..MaxSignals
    /\ queue \in Seq(0..MaxSignals)
    /\ completed \in 0..MaxSignals
    /\ event \in BOOLEAN
    /\ armed \subseteq (completed + 1)..MaxSignals
    /\ pc \in {"idle", "signalled", "waiting"}
    /\ target \in 0..MaxSignals
    /\ limit \in {"INFINITE", "finite"}
    /\ timedOut \in BOOLEAN /\ failed \in BOOLEAN

(* While no wait has timed out, a wait that the event ends has waited for  *)
(* its value: the event that fires is the one this wait armed.             *)
WaitReachesValue == [][EndWait /\ ~timedOut /\ ~failed => completed >= target]_vars

(* sSignalAndWait returns true only when the queue has run everything that *)
(* was executed before, although its value is 1 more than a value it read, *)
(* and not a counter of its own; ResourceUploader frees the copy sources   *)
(* right after it (ResourceUploader.cpp:231-232).                          *)
SignalAndWaitDrains ==
    [][owner = "drain" /\ pc # "idle" /\ pc' = "idle" /\ ~failed' => queue = << >>]_vars

(* A wait for a value that was signalled ends: the signal cannot be lost   *)
(* between the check, the arming and the wait, nor taken by an earlier     *)
(* wait.                                                                   *)
WaitEnds == pc # "idle" ~> pc = "idle"
=============================================================================
