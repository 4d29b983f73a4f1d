--------------------------- MODULE FrameInvariant ---------------------------
(***************************************************************************)
(* The inductive invariant behind the safety properties of FrameSafety.    *)
(***************************************************************************)
EXTENDS FrameSafety

(***************************************************************************)
(* What is known of a frame while it is being drawn, and of the images     *)
(* between frames.                                                         *)
(***************************************************************************)
FrameInProgress ==
    /\ pc \in {"acquire", "draw", "buffer", "record", "bridge"} =>
          target # None
    /\ pc \in {"buffer", "record", "bridge"} => extent = target
    /\ pc \in {"record", "bridge"} => buffers[current_idx] # None
    /\ \A s \in Slot : buffers[s] # None => frame /\ buffers[s].size = extent

(***************************************************************************)
(* Every point that has been handed out lies below the counter, acquire    *)
(* points are on the timeline before they are handed out, and buffers      *)
(* still asked for are no newer than the pending points.                   *)
(***************************************************************************)
CommitSound(c) ==
    /\ c.acquire <= head
    /\ c.release = c.acquire + 1
    /\ c.release < counter
    /\ c.own <= c.acquire

PointsHandedOut ==
    /\ head < counter
    /\ pending_acquire # None =>
          /\ pending_release = pending_acquire + 1
          /\ pending_acquire <= head
          /\ pending_acquire + 1 < counter
    /\ \A r \in Requested :
          /\ r.own < counter
          /\ pending_acquire # None => r.own <= pending_acquire
    /\ \A c \in Commits : CommitSound(c)

(***************************************************************************)
(* A presented slot's release point is at most one above the timeline, and *)
(* no two slots have the same.                                             *)
(***************************************************************************)
SlotPoints ==
    /\ \A s \in Slot : presented[s] =>
          /\ release_points[s] # None
          /\ release_points[s] < counter
          /\ release_points[s] <= head + 1
    /\ presented[0] /\ presented[1] => release_points[0] # release_points[1]

IInv ==
    /\ TypeOK
    /\ FrameInProgress
    /\ PointsHandedOut
    /\ SlotPoints
    /\ GpuWritesLiveImages
    /\ ReadsOnlyFinishedFrames
=============================================================================
