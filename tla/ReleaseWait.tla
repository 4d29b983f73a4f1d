---------------------------- MODULE ReleaseWait -----------------------------
(***************************************************************************)
(* How long Swapchain::acquire waits (src/swapchain.rs, src/drm/mod.rs).   *)
(* wait_available hands WAIT_RELEASE_TIMEOUT_NS to the kernel as it is,    *)
(* and DRM_IOCTL_SYNCOBJ_TIMELINE_WAIT takes its timeout_nsec for a point  *)
(* in time on CLOCK_MONOTONIC, which counts from boot.                     *)
(*                                                                         *)
(* FrameLoop has no clock: there a wait may time out whenever it blocks.   *)
(***************************************************************************)
EXTENDS Swapchain

CONSTANTS
    Timeout,        \* WAIT_RELEASE_TIMEOUT_NS
    MaxClock,       \* bound: the clock
    MaxFrames       \* bound: frames presented

VARIABLES
    clock,          \* CLOCK_MONOTONIC
    since,          \* when the wait under way began, None without one
    waited          \* how long the last wait that timed out took

vars == <<clock, since, waited, timelineVars, swapchainVars>>

Init ==
    /\ TimelineInit
    /\ SwapchainInit
    /\ clock \in 0..MaxClock
    /\ since = None
    /\ waited = None

Tick ==
    /\ clock < MaxClock
    /\ clock' = clock + 1
    /\ UNCHANGED <<since, waited, timelineVars, swapchainVars>>

(***************************************************************************)
(* A frame begins with acquire.                                            *)
(***************************************************************************)
EnterWait ==
    /\ since = None
    /\ counter < 2 * MaxFrames
    /\ since' = clock
    /\ UNCHANGED <<clock, waited, timelineVars, swapchainVars>>

(***************************************************************************)
(* It gets its slot, is rendered and presented.                            *)
(***************************************************************************)
PresentNext ==
    /\ since # None
    /\ ~Blocked(NextSlot)
    /\ ImportSyncFile
    /\ current_idx' = NextSlot
    /\ release_points' = [release_points EXCEPT ![NextSlot] = counter + 1]
    /\ presented' = [presented EXCEPT ![NextSlot] = TRUE]
    /\ since' = None
    /\ UNCHANGED <<clock, waited>>

(***************************************************************************)
(* It gets its slot and the frame fails before it is imported.  Only after *)
(* such a frame does a wait block: otherwise the other slot has already    *)
(* added a higher point.                                                   *)
(***************************************************************************)
LoseFrame ==
    /\ since # None
    /\ Acquire
    /\ since' = None
    /\ UNCHANGED <<clock, waited, timelineVars>>

(***************************************************************************)
(* The kernel gives up when the clock has passed the deadline.             *)
(***************************************************************************)
TimesOut ==
    /\ since # None
    /\ AcquireTimesOut
    /\ clock >= Timeout
    /\ waited' = clock - since
    /\ since' = None
    /\ UNCHANGED <<clock, timelineVars>>

Release ==
    /\ \E s \in Slot : Blocked(s) /\ SignalRelease(release_points[s])
    /\ UNCHANGED <<clock, since, waited, swapchainVars>>

Next == Tick \/ EnterWait \/ PresentNext \/ LoseFrame \/ TimesOut \/ Release

Spec == Init /\ [][Next]_vars

-----------------------------------------------------------------------------
(***************************************************************************)
(* drm/mod.rs, WAIT_RELEASE_TIMEOUT_NS: "How long to wait for the          *)
(* compositor to release a buffer (10s) before giving up".                 *)
(***************************************************************************)
WaitsForTimeout == waited # None => waited >= Timeout
=============================================================================
