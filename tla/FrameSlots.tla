----------------------------- MODULE FrameSlots -----------------------------
(***************************************************************************)
(* The state of a hinode::graphics::utility::FrameDataManager as a value,  *)
(* and what its methods compute from it                                    *)
(* (dx12/graphics/dx12/utility/FrameDataManager).                          *)
(*                                                                         *)
(* mFrames is the vector of the frame data: for each slot the value its    *)
(* last frame signalled, 0 before the first.  An index of the code is one  *)
(* less than the index of the sequence.                                    *)
(***************************************************************************)
EXTENDS Integers, Sequences

(* The constructor, and what clear leaves behind.                          *)
NoFrames == [mCurrentFrame |-> 0, mFrames |-> << >>]

(* create: frameCount slots, none of them used yet.                        *)
NewFrames(frameCount) ==
    [mCurrentFrame |-> 0, mFrames |-> [i \in 1..frameCount |-> 0]]

currentFrameIndex(m) == m.mCurrentFrame % Len(m.mFrames)

(* Mutant of prevFrameIndex: the frame before the one that was ended last. *)
prevFrameIndexOneTooFar(m) ==
    (IF m.mCurrentFrame <= 2 THEN 0 ELSE m.mCurrentFrame - 2) % Len(m.mFrames)

(* The local f of waitPrevFrame: (max(1, mCurrentFrame) - 1) % size.       *)
prevFrameIndex(m) ==
    (IF m.mCurrentFrame = 0 THEN 0 ELSE m.mCurrentFrame - 1) % Len(m.mFrames)

(* endAndGoNextFrame: the slot of the frame that ends is marked with the   *)
(* value that is signalled for it, which is the new mCurrentFrame.         *)
EndFrame(m) ==
    [mCurrentFrame |-> m.mCurrentFrame + 1,
     mFrames |-> [m.mFrames EXCEPT ![currentFrameIndex(m) + 1] = m.mCurrentFrame + 1]]

(* The values waitForCurrent and waitPrevFrame wait for.                   *)
CurrentMark(m) == m.mFrames[currentFrameIndex(m) + 1]
PrevMark(m) == m.mFrames[prevFrameIndex(m) + 1]

(* clear waits for mCurrentFrame - 1 in 64 bits: before the first frame    *)
(* that is 2^64 - 1, which no frame signals.                               *)
ClearMark(m, completed) == m.mCurrentFrame # 0 /\ completed >= m.mCurrentFrame - 1
=============================================================================
