----------------------------- MODULE Swapchain ------------------------------
(***************************************************************************)
(* Swapchain (src/swapchain.rs): which of the two buffer slots is current, *)
(* and the release point a slot has to wait for before it is drawn into    *)
(* again.                                                                  *)
(***************************************************************************)
EXTENDS Timeline

VARIABLES
    release_points,     \* per slot, the release point of its last frame
    current_idx,        \* the slot in use
    presented           \* per slot, whether it has ever been presented

swapchainVars == <<release_points, current_idx, presented>>

SwapchainTypeOK ==
    /\ release_points \in [Slot -> Option(Nat)]
    /\ current_idx \in Slot
    /\ presented \in [Slot -> BOOLEAN]

SwapchainInit ==
    /\ release_points = [s \in Slot |-> None]
    /\ current_idx = 0
    /\ presented = [s \in Slot |-> FALSE]

-----------------------------------------------------------------------------
NextSlot == (current_idx + 1) % 2

(***************************************************************************)
(* The wait of acquire would block on slot s.                              *)
(***************************************************************************)
Blocked(s) ==
    /\ presented[s]
    /\ release_points[s] # None
    /\ ~Available(release_points[s])

Rotate ==
    /\ current_idx' = NextSlot
    /\ UNCHANGED <<release_points, presented>>

(***************************************************************************)
(* acquire: rotate, then wait for the slot's release point, if it has one. *)
(***************************************************************************)
Acquire ==
    /\ ~Blocked(NextSlot)
    /\ Rotate

AcquireWaitsForever == FALSE            \* mutant: the wait has no timeout

(***************************************************************************)
(* acquire returns the error of the timed-out wait; the rotation stays.    *)
(***************************************************************************)
AcquireTimesOut ==
    /\ Blocked(NextSlot)
    /\ Rotate

MarkPresented(slot, release_point) ==
    /\ release_points' = [release_points EXCEPT ![slot] = release_point]
    /\ presented' = [presented EXCEPT ![slot] = TRUE]
    /\ UNCHANGED current_idx
=============================================================================
