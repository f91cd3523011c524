--------------------------- MODULE CommandMemory ---------------------------
(***************************************************************************)
(* What a frame loop promises about the memory behind its command lists,   *)
(* without saying by which waits: the allocator of a slot is reset for a   *)
(* frame only when the GPU has run every list that was recorded in it, a   *)
(* list is opened again only when the GPU has run it, at most one list is  *)
(* recorded at a time, all that is recorded is handed over before the      *)
(* frame ends, and slots are released only when nothing is left to run.    *)
(* Graphics implements it.                                                 *)
(***************************************************************************)
CONSTANTS Slots, Lists

VARIABLES
    taken,    \* the slot of the frame that is being recorded, if any
    held,     \* the list that is recorded and not yet handed over, if any
    flying,   \* the lists that the GPU has not run
    released  \* the slots that are gone

vars == <<taken, held, flying, released>>

ListsOf(slot) == {<<slot, list>> : list \in Lists}

Init == taken = {} /\ held = {} /\ flying = {} /\ released = {}

(* The frame resets the allocator, and may open its first list with it.    *)
Take ==
    /\ taken = {}
    /\ \E slot \in Slots \ released :
         /\ ListsOf(slot) \cap flying = {}
         /\ taken' = {slot}
         /\ held' \in {{}} \cup {{list} : list \in ListsOf(slot)}
    /\ UNCHANGED <<flying, released>>

Open ==
    /\ held = {}
    /\ \E slot \in taken : \E list \in ListsOf(slot) \ flying : held' = {list}
    /\ UNCHANGED <<taken, flying, released>>

HandOver ==
    /\ held # {}
    /\ flying' = flying \cup held
    /\ held' = {}
    /\ UNCHANGED <<taken, released>>

EndFrame ==
    /\ taken # {}
    /\ held = {}
    /\ taken' = {}
    /\ UNCHANGED <<held, flying, released>>

Run ==
    /\ \E list \in flying : flying' = flying \ {list}
    /\ UNCHANGED <<taken, held, released>>

Release ==
    /\ taken = {}
    /\ flying = {}
    /\ \E slot \in Slots \ released : released' = released \cup {slot}
    /\ UNCHANGED <<taken, held, flying>>

Next == Take \/ Open \/ HandOver \/ EndFrame \/ Run \/ Release

Spec == Init /\ [][Next]_vars
=============================================================================
