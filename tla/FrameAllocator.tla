--------------------------- MODULE FrameAllocator ---------------------------
(***************************************************************************)
(* What a pool that serves a GPU frame by frame promises, without saying   *)
(* how it finds room: a region lies inside the pool, overlaps no region    *)
(* that is still live, and stays live until the GPU has completed the      *)
(* frame it was allocated in; the pool is reset only when the GPU has      *)
(* completed every frame that was ended.  RingBuffer implements it.        *)
(***************************************************************************)
EXTENDS Integers

CONSTANTS PoolSize, Sizes

VARIABLES
    capacity,  \* PoolSize, or 0 while there is no pool
    frame,     \* the frame that allocates
    ended,     \* the last frame handed to the GPU
    done,      \* the last frame the GPU has completed
    live       \* the regions in use

vars == <<capacity, frame, ended, done, live>>

Apart(r, s) == r.from + r.size <= s.from \/ s.from + s.size <= r.from

Init == capacity = 0 /\ frame = 0 /\ ended = 0 /\ done = 0 /\ live = {}

Allocate ==
    /\ \E from \in 0..PoolSize, size \in Sizes :
         LET new == [frame |-> frame, from |-> from, size |-> size]
         IN  /\ from + size <= capacity
             /\ \A r \in live : Apart(r, new)
             /\ live' = live \cup {new}
    /\ UNCHANGED <<capacity, frame, ended, done>>

EndFrame ==
    /\ capacity # 0
    /\ ended' = frame
    /\ frame' = frame + 1
    /\ UNCHANGED <<capacity, done, live>>

Complete ==
    /\ done < ended
    /\ done' = done + 1
    /\ live' = {r \in live : r.frame > done + 1}
    /\ UNCHANGED <<capacity, frame, ended>>

Reset ==
    /\ done = ended
    /\ \/ capacity' = 0 /\ frame' = 0
       \/ capacity' = PoolSize /\ frame' = 1
    /\ ended' = 0
    /\ done' = 0
    /\ live' = {}

Next == Allocate \/ EndFrame \/ Complete \/ Reset

Spec == Init /\ [][Next]_vars
=============================================================================
