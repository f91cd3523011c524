--------------------------- MODULE ResourceUploader ---------------------------
(* hinode::graphics::utility::ResourceUploader over DX12Fence: copies are    *)
(* recorded with a source of their own, upload executes them on the copy     *)
(* queue, waits with sSignalAndWait and frees the sources.  Its users make   *)
(* one in an init function, enter copies, and let upload or the destructor   *)
(* run them.  The targets outlive it in all of them.                         *)
(*                                                                           *)
(* Specifications of the fence's other owners are steps of the same Next, so *)
(* that one run checks both ways of using a fence.                           *)
EXTENDS DX12Fence, CopySource, FiniteSets, SequencesExt

CONSTANTS
    Targets,    \* resources of the GPU copies are made to
    MaxCopies   \* bound on the copies entered

ASSUME CopiesAssumption == Targets = DOMAIN Entry /\ MaxCopies \in Nat

VARIABLES
    ready,          \* the queue, the allocator and the list exist
    mIsRecording,
    recorded,       \* copies in the open mCmdList, in order
    mCopySrc,       \* copies whose source is alive
    lists,          \* lists the copy queue has not run
    step,           \* where upload is: "idle", "signal", "wait", "release"
    closing,        \* inside the destructor
    entered,        \* number of copies entered so far
    wanted,         \* the copy each target shall hold
    content,        \* the copy each target holds
    lost,           \* history: copies released before they were executed
    reinit,         \* history: init or clear with an open recording
    trouble         \* history: a Signal or a registration has failed

uploaderVars == <<ready, mIsRecording, recorded, mCopySrc, lists, step, closing,
                  entered, wanted, content, lost, reinit, trouble>>
allVars == <<vars, uploaderVars>>

Failed == failed \/ trouble

UploaderInit ==
    /\ Init
    /\ ready = FALSE /\ mIsRecording = FALSE
    /\ recorded = << >> /\ mCopySrc = {} /\ lists = << >>
    /\ step = "idle" /\ closing = FALSE
    /\ entered = 0
    /\ wanted = [t \in Targets |-> 0] /\ content = [t \in Targets |-> 0]
    /\ lost = {} /\ reinit = FALSE /\ trouble = FALSE
-----------------------------------------------------------------------------
(* clear: the recording is dropped, the sources freed, the list, the       *)
(* allocator and the queue released.  The fence stays.                     *)
Clear ==
    /\ mIsRecording' = FALSE
    /\ recorded' = << >>
    /\ mCopySrc' = {}
    /\ lists' = << >>
    /\ lost' = lost \cup {c.id : c \in ToSet(recorded)}
    /\ wanted' = [t \in Targets |->
                    IF \E c \in ToSet(recorded) : c.target = t
                    THEN content[t] ELSE wanted[t]]

ReleaseQueue ==
    /\ queue' = << >>
    /\ UNCHANGED <<owner, last, completed, event, armed, pc, target, limit, history>>

(* init: clear, then the queue, the allocator, a closed list and a fence   *)
(* at 1, or an exception somewhere in between.                             *)
InitUploader ==
    /\ owner = "drain" /\ step = "idle" /\ ~closing
    /\ Clear
    /\ reinit' = (reinit \/ mIsRecording)
    /\ ready' \in BOOLEAN
    /\ \/ ready' /\ Create(1)
       \/ ~ready' /\ ReleaseQueue
    /\ trouble' = Failed
    /\ UNCHANGED <<step, closing, entered, content>>

(* Mutant of EntryCopy: the source is a local that the entry frees.        *)
EntryKeepsNoSource(t) ==
    /\ ready /\ step = "idle" /\ ~closing
    /\ entered < MaxCopies
    /\ recorded' = Append(recorded, [id |-> entered + 1, target |-> t, intact |-> t \in Intact])
    /\ wanted' = [wanted EXCEPT ![t] = entered + 1]
    /\ entered' = entered + 1
    /\ mIsRecording' = TRUE
    /\ UNCHANGED <<vars, ready, mCopySrc, lists, step, closing, content, lost, reinit, trouble>>

(* entryBuffer, entryTexture and the loaders, when nothing throws: the     *)
(* source is made and filled as CopySource says, and the recording started *)
(* unless it is open.                                                      *)
EntryCopy(t) ==
    /\ ready /\ step = "idle" /\ ~closing
    /\ entered < MaxCopies
    /\ LET copy == [id |-> entered + 1, target |-> t, intact |-> t \in Intact] IN
       /\ recorded' = Append(recorded, copy)
       /\ mCopySrc' = mCopySrc \cup {copy.id}
       /\ wanted' = [wanted EXCEPT ![t] = copy.id]
    /\ entered' = entered + 1
    /\ mIsRecording' = TRUE
    /\ UNCHANGED <<vars, ready, lists, step, closing, content, lost, reinit, trouble>>

(* upload, up to the call of sSignalAndWait: close, executeCommandLists.   *)
BeginUpload ==
    /\ step = "idle" /\ mIsRecording
    /\ Execute
    /\ lists' = Append(lists, recorded)
    /\ recorded' = << >>
    /\ step' = "signal"
    /\ UNCHANGED <<ready, mIsRecording, mCopySrc, closing, entered,
                   wanted, content, lost, reinit, trouble>>

UploadSignals ==
    /\ step = "signal"
    /\ SignalNext
    /\ step' = "wait"
    /\ UNCHANGED <<ready, mIsRecording, recorded, mCopySrc, lists, closing, entered,
                   wanted, content, lost, reinit, trouble>>

(* Signal fails: sSignalAndWait returns false at once, which upload ignores. *)
SignalFails ==
    /\ step = "signal"
    /\ trouble' = TRUE
    /\ step' = "release"
    /\ UNCHANGED <<vars, ready, mIsRecording, recorded, mCopySrc, lists, closing,
                   entered, wanted, content, lost, reinit>>

(* The rest of sSignalAndWait.                                             *)
UploadWaits ==
    /\ step = "wait"
    /\ SkipWait \/ WaitForNext \/ WaitFails \/ EndWait
    /\ step' = IF pc' = "idle" THEN "release" ELSE "wait"
    /\ UNCHANGED <<ready, mIsRecording, recorded, mCopySrc, lists, closing, entered,
                   wanted, content, lost, reinit, trouble>>

(* The rest of upload: the sources are freed.                              *)
EndUpload ==
    /\ step = "release"
    /\ mCopySrc' = {}
    /\ mIsRecording' = FALSE
    /\ step' = "idle"
    /\ UNCHANGED <<vars, ready, recorded, lists, closing, entered, wanted, content,
                   lost, reinit, trouble>>

(* clear, called by the user.                                              *)
ClearUploader ==
    /\ owner = "drain" /\ ready /\ step = "idle" /\ ~closing
    /\ Clear
    /\ reinit' = (reinit \/ mIsRecording)
    /\ ready' = FALSE
    /\ ReleaseQueue
    /\ UNCHANGED <<step, closing, entered, content, trouble>>

(* ~ResourceUploader: upload when the recording is open, ...               *)
BeginDestroy ==
    /\ ready /\ step = "idle" /\ ~closing
    /\ closing' = TRUE
    /\ UNCHANGED <<vars, ready, mIsRecording, recorded, mCopySrc, lists, step, entered,
                   wanted, content, lost, reinit, trouble>>

MayRelease == closing /\ step = "idle" /\ ~mIsRecording

(* ... then clear.  The next init function constructs another uploader.    *)
EndDestroy ==
    /\ MayRelease
    /\ Clear
    /\ closing' = FALSE
    /\ ready' = FALSE
    /\ ReleaseQueue
    /\ UNCHANGED <<step, entered, content, reinit, trouble>>

(* The copy queue runs a list: a target holds what the last copy to it has *)
(* read.  What a copy reads from a source that was freed, or from where    *)
(* the data was not written, is not what was entered.                      *)
CopiesTo(list, t) == {i \in DOMAIN list : list[i].target = t}

Arrives(copy) == IF copy.intact /\ copy.id \in mCopySrc THEN copy.id ELSE 0

GpuCopies ==
    /\ GpuRunsWork
    /\ lists' = Tail(lists)
    /\ content' = [t \in Targets |->
                     IF CopiesTo(Head(lists), t) = {}
                     THEN content[t]
                     ELSE Arrives(Head(lists)[Max(CopiesTo(Head(lists), t))])]
    /\ UNCHANGED <<ready, mIsRecording, recorded, mCopySrc, step, closing, entered,
                   wanted, lost, reinit, trouble>>

GpuReachesSignal == owner = "drain" /\ GpuSignals /\ UNCHANGED uploaderVars

UploaderNext ==
    \/ CounterNext /\ UNCHANGED uploaderVars
    \/ InitUploader
    \/ \E t \in Targets : EntryCopy(t)
    \/ BeginUpload \/ UploadSignals \/ SignalFails \/ UploadWaits \/ EndUpload
    \/ ClearUploader \/ BeginDestroy \/ EndDestroy
    \/ GpuCopies \/ GpuReachesSignal

(* The GPU gets through its queue; a thread that may return from a wait,   *)
(* or is inside upload, runs on; the function that made the uploader       *)
(* returns or throws.                                                      *)
Fairness ==
    /\ WF_allVars(GpuCopies \/ GpuReachesSignal \/ (GpuSignals /\ UNCHANGED uploaderVars))
    /\ WF_allVars(owner = "counter" /\ EndWait /\ UNCHANGED uploaderVars)
    /\ WF_allVars(UploadSignals \/ SignalFails)
    /\ WF_allVars(UploadWaits)
    /\ WF_allVars(EndUpload)
    /\ WF_allVars(closing /\ BeginUpload)
    /\ WF_allVars(BeginDestroy)
    /\ WF_allVars(EndDestroy)

Spec == UploaderInit /\ [][UploaderNext]_allVars /\ Fairness
-----------------------------------------------------------------------------
(* The states of both.                                                     *)
UploaderTypeOK ==
    /\ TypeOK
    /\ ready \in BOOLEAN /\ mIsRecording \in BOOLEAN /\ closing \in BOOLEAN
    /\ \A c \in ToSet(recorded) : c.id \in mCopySrc /\ c.target \in Targets
    /\ mCopySrc \subseteq 1..entered
    /\ Len(lists) = Cardinality({i \in DOMAIN queue : queue[i] = Work})
    /\ step \in {"idle", "signal", "wait", "release"}
    /\ (step = "wait") = (owner = "drain" /\ pc # "idle")
    /\ entered \in 0..MaxCopies
    /\ wanted \in [Targets -> 0..MaxCopies] /\ content \in [Targets -> 0..MaxCopies]

(* Between recordings every target holds the last copy entered for it: the *)
(* data is there when upload returns, without another wait, and its source *)
(* was alive when the GPU read it (SceneInfo.cpp:88, ResourceUploader.h:83,*)
(* ResourceUploader.cpp:231-232).  Only a failed Signal or                 *)
(* SetEventOnCompletion, which upload ignores, ends that.  No copy is lost *)
(* but by init or clear with an open recording: the destructor runs what   *)
(* upload was not called for (ResourceUploader.cpp:19-26, 39).             *)
UploadedIsThere ==
    /\ ~Failed /\ ~mIsRecording => content = wanted
    /\ lost # {} => reinit
=============================================================================
