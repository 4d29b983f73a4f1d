---------------------------- MODULE FrameSafety -----------------------------
(***************************************************************************)
(* What must hold of the frame path, as state predicates, as a refinement  *)
(* and as eventualities; and, at the end, what the comments of the code    *)
(* say of it that does not hold.                                           *)
(***************************************************************************)
EXTENDS FrameLoop, Queues

-----------------------------------------------------------------------------
(* Where the frames are.                                                   *)

(***************************************************************************)
(* Requests of one type on their way to the compositor.                    *)
(***************************************************************************)
Queued(type) == {r \in Elements(sendbuf) \cup Elements(wire) : r.type = type}

Arrived(type) == {e \in Elements(inbox) : e.type = type}

(***************************************************************************)
(* Every commit the client has made and the compositor is not done with.   *)
(***************************************************************************)
Commits == Queued("commit") \cup Elements(cq) \cup Reading

(***************************************************************************)
(* wl_buffers asked for whose Created event has not been handled.          *)
(***************************************************************************)
Requested == Queued("create") \cup Arrived("created")

-----------------------------------------------------------------------------
(* Safety.                                                                 *)

(***************************************************************************)
(* Whatever frame's points the Created handler finds pending, a commit     *)
(* carries an acquire point whose fence is already on the timeline, the    *)
(* release point right above it, and a point no older than the one its     *)
(* buffer was rendered under (import_sync_file, the frame closure of main, *)
(* commit and the Created handler).                                        *)
(***************************************************************************)
CommitPointsSound ==
    \A c \in Commits :
        /\ c.acquire <= head
        /\ c.acquire < counter
        /\ c.release = c.acquire + 1
        /\ c.own <= c.acquire

(***************************************************************************)
(* The compositor never reads an image before the submission that draws    *)
(* the frame it stands for has completed, though the commit may carry the  *)
(* acquire point of another frame.                                         *)
(***************************************************************************)
ReadsOnlyFinishedFrames ==
    \A c \in Reading : \A i \in DOMAIN gpu : gpu[i].point > c.own

(***************************************************************************)
(* xdg_surface: no buffer is committed ahead of the first ack_configure.   *)
(* The handlers and the loop only ever append to one send buffer, in an    *)
(* order that keeps this true.                                             *)
(***************************************************************************)
NoBufferBeforeFirstAck ==
    LET stream == wire \o sendbuf IN
    /\ (Elements(cq) \cup Reading # {}) => acked > 0
    /\ \A i \in DOMAIN stream :
          stream[i].type = "commit" =>
             \/ acked > 0
             \/ \E j \in 1..(i - 1) : stream[j].type = "ack"

(***************************************************************************)
(* Pending points are never orphaned: they belong to the newest frame, the *)
(* release point goes with the acquire point, the damage size is that of a *)
(* buffer, and either the frame's own buffer is still to come or a Failed  *)
(* event is to be handled, which clears the points whichever buffer it is  *)
(* about: the event does not say.                                          *)
(***************************************************************************)
PendingPointsAwaitTheirBuffer ==
    IF pending_acquire = None
    THEN pending_release = None /\ create_size = None
    ELSE /\ pending_release = pending_acquire + 1
         /\ create_size # None
         /\ \A r \in Requested : r.own <= pending_acquire
         /\ \/ \E r \in Requested : r.own = pending_acquire
            \/ Arrived("failed") # {}

(***************************************************************************)
(* The two slots never wait at once: of two presented slots one has an     *)
(* acquire point above the other's release point.  So a frame lost to the  *)
(* wait of acquire is never followed by a second one.                      *)
(***************************************************************************)
SomeSlotAvailable == \E s \in Slot : ~Blocked(s)

(***************************************************************************)
(* The GPU never holds a submission that writes an image draw has dropped, *)
(* also when the command buffer was recorded over while it was pending.    *)
(***************************************************************************)
GpuWritesLiveImages ==
    \A i \in DOMAIN gpu : \E s \in Slot : buffers[s] = gpu[i].image

(***************************************************************************)
(* After any history of resizes and failed draws: a frame is recorded into *)
(* an image of exactly the size asked for, the command buffer exists (the  *)
(* unwraps of draw succeed), and no slot keeps an image of another size.   *)
(***************************************************************************)
RecordsAtRequestedSize ==
    /\ pc \in {"record", "bridge"} =>
          /\ frame
          /\ buffers[current_idx] # None
          /\ buffers[current_idx].size = target
    /\ \A s \in Slot : buffers[s] # None => buffers[s].size = extent

(***************************************************************************)
(* Though commits swap points, no step puts an older rendering on screen   *)
(* in place of a newer one: buffers are asked for, answered and committed  *)
(* in the order they were drawn.                                           *)
(***************************************************************************)
ScreenNeverGoesBack ==
    [][current # None /\ current' # current => current'.own > current.own]_vars

-----------------------------------------------------------------------------
(* The abstract specification it implements.                               *)

(***************************************************************************)
(* The acquire points of the commits in a stream of requests.              *)
(***************************************************************************)
PointsOf(requests) ==
    LET commits == OfType(requests, {"commit"})
    IN  [i \in DOMAIN commits |-> commits[i].acquire]

Stream == INSTANCE FrameStream WITH
    next    <- counter,
    mailbox <- pending_acquire,
    queue   <- PointsOf(cq \o wire \o sendbuf),
    shown   <- IF current = None THEN 0 ELSE current.acquire

(***************************************************************************)
(* The counter, the pending point, the three queues and the screen form a  *)
(* FrameStream: a point reaches the screen at most once and never after a  *)
(* later one, whatever is coalesced, dropped, failed or lost.              *)
(***************************************************************************)
ImplementsFrameStream == Stream!Spec

-----------------------------------------------------------------------------
(* Liveness, under FairSpec.                                               *)

Stopped == ~Alive

(***************************************************************************)
(* Every configure is acknowledged: the ack that a handler leaves in the   *)
(* send buffer is flushed even if nothing else ever happens, and no failed *)
(* frame keeps the loop from handling events.                              *)
(***************************************************************************)
EveryConfigureAcked ==
    \A n \in 1..MaxConfigures : (sent >= n) ~> (acked >= n \/ Stopped)

(***************************************************************************)
(* acquire always comes back.  The buffer it waits for may be the one on   *)
(* screen, which only a next frame could replace: then it is the timeout   *)
(* that ends the wait.                                                     *)
(***************************************************************************)
AcquireReturns == (pc = "acquire") ~> (pc # "acquire")

(***************************************************************************)
(* Without faults the window appears: a first configure leads to a commit  *)
(* on screen, however many configures follow and overwrite its points.     *)
(***************************************************************************)
WindowAppears == (sent > 0) ~> (current # None \/ Stopped)

(***************************************************************************)
(* Without faults the renderer ends up at the size of the last configure,  *)
(* however configures are batched.                                         *)
(***************************************************************************)
LastSizeRendered == <>[](sent = 0 \/ extent = size \/ Stopped)

-----------------------------------------------------------------------------
(* What the comments say and the code does not do.                         *)

(***************************************************************************)
(* swapchain.rs, acquire: "If the slot was previously presented it waits   *)
(* for the compositor to release it ... before returning the slot index."  *)
(***************************************************************************)
AcquiredSlotIsReleased ==
    [][pc = "acquire" /\ pc' = "draw" =>
          \A c \in Reading : c.image # buffers[current_idx']]_vars

(***************************************************************************)
(* vulkan.rs, draw: the "release-point wait guarantees the previous        *)
(* frame's GPU work is complete before we reuse this command buffer".      *)
(***************************************************************************)
CommandBufferIdleWhenBegun == pc = "record" => gpu = <<>>

(***************************************************************************)
(* drm/mod.rs, WAIT_RELEASE_TIMEOUT_NS: wait "(10s) before giving up and   *)
(* reusing it anyway".                                                     *)
(***************************************************************************)
TimeoutReusesSlot ==
    [][pc = "acquire" /\ pc' # "acquire" => pc' = "draw"]_vars

(***************************************************************************)
(* lib.rs, ExplicitSync: the points are those "for a single frame",        *)
(* applied "at surface commit time".                                       *)
(***************************************************************************)
CommitCarriesItsOwnPoints ==
    \A c \in Queued("commit") : c.own = c.acquire

(***************************************************************************)
(* wayland/mod.rs, commit: "Wrap the DMA-BUF in a wl_buffer and commit it  *)
(* to the compositor with explicit synchronization points."                *)
(***************************************************************************)
EveryFrameIsCommitted ==
    \A n \in 1..MaxConfigures :
        (pending_acquire = 2 * n - 1)
            ~> ((\E c \in Commits : c.own = 2 * n - 1) \/ Stopped)
=============================================================================
