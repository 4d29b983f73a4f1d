------------------------------ MODULE Timeline ------------------------------
(***************************************************************************)
(* DrmSyncobj (src/drm/mod.rs): one DRM syncobj timeline, shared with the  *)
(* compositor.  The client adds the fence of every rendered frame at an    *)
(* odd "acquire" point taken from a process-wide counter; the compositor   *)
(* adds a fence at the even "release" point that follows it.               *)
(*                                                                         *)
(* The kernel keeps the points as a chain of fences whose sequence number  *)
(* never falls: a point is available as soon as some fence with that       *)
(* number or a higher one has been added, whether or not it has signalled. *)
(***************************************************************************)
EXTENDS Frames

VARIABLES
    counter,    \* the static COUNTER of next_point
    head,       \* highest point added to the kernel's timeline, 0 at first
    temps       \* temporary binary syncobjs left behind by failed imports

timelineVars == <<counter, head, temps>>

TimelineTypeOK ==
    /\ counter \in Nat
    /\ head \in Nat
    /\ temps \in Nat

TimelineInit ==
    /\ counter = 1
    /\ head = 0
    /\ temps = 0

-----------------------------------------------------------------------------
(***************************************************************************)
(* What DRM_SYNCOBJ_WAIT_FLAGS_WAIT_AVAILABLE waits for.                   *)
(***************************************************************************)
Available(point) == head >= point

(***************************************************************************)
(* The kernel adds a fence at a point.  A point that is not above the last *)
(* one leaves the sequence number of the chain where it was.               *)
(***************************************************************************)
AddPoint(point) == head' = IF point > head THEN point ELSE head

ImportWithoutTransfer ==                \* mutant: the fence is not transferred
    /\ counter' = counter + 2
    /\ UNCHANGED <<head, temps>>

(***************************************************************************)
(* import_sync_file: take the next point, go through a temporary syncobj   *)
(* and transfer the fence onto the timeline at that point.                 *)
(***************************************************************************)
ImportSyncFile ==
    /\ counter' = counter + 2
    /\ AddPoint(counter)
    /\ UNCHANGED temps

(***************************************************************************)
(* import_sync_file fails in one of its three ioctls.  The point is spent; *)
(* the temporary syncobj exists already unless the first ioctl failed, and *)
(* nothing destroys it.                                                    *)
(***************************************************************************)
ImportFails ==
    /\ counter' = counter + 2
    /\ temps' \in {temps, temps + 1}
    /\ UNCHANGED head

(***************************************************************************)
(* The compositor adds its release fence.                                  *)
(***************************************************************************)
SignalRelease(point) ==
    /\ AddPoint(point)
    /\ UNCHANGED <<counter, temps>>
=============================================================================
