--------------------------- MODULE WaylandSurface ---------------------------
(***************************************************************************)
(* The frame path of WaylandState (src/backend/wayland/mod.rs): what the   *)
(* event handlers and commit() do to its fields, and the requests they     *)
(* leave in the connection's send buffer.                                  *)
(*                                                                         *)
(* A wl_buffer is asked for with zwp_linux_buffer_params_v1.create and     *)
(* comes back in a Created event; only that event attaches and commits it, *)
(* with whatever points are pending then.  A DmaFrame's `own` is a history *)
(* tag, the point its completion fence is meant for, so that properties    *)
(* can tell the frames apart.  No code reads it.                           *)
(***************************************************************************)
EXTENDS Frames

VARIABLES
    running,            \* cleared when the toplevel is closed
    size,               \* last usable size of the toplevel
    pending_render,     \* size to render, set by xdg_surface.configure
    pending_acquire,    \* points waiting for a Created event
    pending_release,
    create_size,        \* size of the last buffer asked for
    inbox,              \* events that have arrived on the socket
    sendbuf             \* requests not flushed to the socket yet

surfaceFields == <<running, size, pending_render, pending_acquire,
                   pending_release, create_size>>
surfaceVars == <<surfaceFields, inbox, sendbuf>>

DmaFrame == [image : Image, own : Nat]

(***************************************************************************)
(* Events.  A toplevel configure carries None when a dimension is zero.    *)
(***************************************************************************)
ToplevelEvent == [type : {"toplevel"}, size : Option(Sizes)]
ConfigureEvent == [type : {"configure"}, serial : Nat]
CloseEvent == [type : {"close"}]
CreatedEvent == [type : {"created"}, image : Image, own : Nat]
FailedEvent == [type : {"failed"}]

Event == ToplevelEvent \cup ConfigureEvent \cup CloseEvent
             \cup CreatedEvent \cup FailedEvent

(***************************************************************************)
(* Requests.  A commit stands for set_acquire_point, set_release_point,    *)
(* attach, damage_buffer and commit, which the handler makes in one go.    *)
(***************************************************************************)
InitialRequest == [type : {"initial"}]
AckRequest == [type : {"ack"}, serial : Nat]
CreateRequest == [type : {"create"}, image : Image, own : Nat]
Commit == [type : {"commit"}, image : Image, own : Nat, acquire : Nat,
           release : Nat, damage : Option(Sizes)]

ASSUME NoneIsNoCommit == None \notin Commit

Request == InitialRequest \cup AckRequest \cup CreateRequest \cup Commit

SurfaceTypeOK ==
    /\ running \in BOOLEAN
    /\ size \in Sizes
    /\ pending_render \in Option(Sizes)
    /\ pending_acquire \in Option(Nat)
    /\ pending_release \in Option(Nat)
    /\ create_size \in Option(Sizes)
    /\ inbox \in Seq(Event)
    /\ sendbuf \in Seq(Request)

(***************************************************************************)
(* The state the main loop starts in: init_window has queued the surface's *)
(* first, bufferless commit, and nothing has flushed it.                   *)
(***************************************************************************)
SurfaceInit ==
    /\ running = TRUE
    /\ size = DefaultSize
    /\ pending_render = None
    /\ pending_acquire = None
    /\ pending_release = None
    /\ create_size = None
    /\ inbox = <<>>
    /\ sendbuf = <<[type |-> "initial"]>>

-----------------------------------------------------------------------------
Send(request) == sendbuf' = Append(sendbuf, request)

(***************************************************************************)
(* commit: remember the points, over any that are still pending, and ask   *)
(* for a wl_buffer.                                                        *)
(***************************************************************************)
CommitFrame(frm, acquire_point, release_point) ==
    /\ pending_acquire' = acquire_point
    /\ pending_release' = release_point
    /\ Send([type |-> "create", image |-> frm.image, own |-> frm.own])
    /\ create_size' = frm.image.size
    /\ UNCHANGED <<running, size, pending_render, inbox>>

-----------------------------------------------------------------------------
(***************************************************************************)
(* Event handlers, one per event.  FrameLoop takes the event off the inbox.*)
(***************************************************************************)
OnToplevelConfigureZero(event) ==       \* mutant: takes a zero dimension
    /\ event.type = "toplevel"
    /\ size' = event.size
    /\ UNCHANGED <<running, pending_render, pending_acquire, pending_release,
                   create_size, sendbuf>>

OnToplevelConfigure(event) ==
    /\ event.type = "toplevel"
    /\ size' = IF event.size # None THEN event.size ELSE size
    /\ UNCHANGED <<running, pending_render, pending_acquire, pending_release,
                   create_size, sendbuf>>

OnClose(event) ==
    /\ event.type = "close"
    /\ running' = FALSE
    /\ UNCHANGED <<size, pending_render, pending_acquire, pending_release,
                   create_size, sendbuf>>

OnConfigureNoAck(event) ==              \* mutant: ack_configure forgotten
    /\ event.type = "configure"
    /\ pending_render' = size
    /\ UNCHANGED <<running, size, pending_acquire, pending_release,
                   create_size, sendbuf>>

OnConfigureFirstWins(event) ==          \* mutant: a set pending_render stays
    /\ event.type = "configure"
    /\ Send([type |-> "ack", serial |-> event.serial])
    /\ pending_render' = IF pending_render = None THEN size
                                                  ELSE pending_render
    /\ UNCHANGED <<running, size, pending_acquire, pending_release,
                   create_size>>

OnConfigure(event) ==
    /\ event.type = "configure"
    /\ Send([type |-> "ack", serial |-> event.serial])
    /\ pending_render' = size
    /\ UNCHANGED <<running, size, pending_acquire, pending_release,
                   create_size>>

CommitBuffer(event) ==
    Send([type |-> "commit", image |-> event.image, own |-> event.own,
          acquire |-> pending_acquire, release |-> pending_release,
          damage |-> create_size])

(***************************************************************************)
(* Created, both points pending: they go on the surface with this buffer.  *)
(***************************************************************************)
OnCreatedKeepsPoints(event) ==          \* mutant: points read, not taken
    /\ event.type = "created"
    /\ pending_acquire # None
    /\ pending_release # None
    /\ CommitBuffer(event)
    /\ create_size' = None
    /\ UNCHANGED <<running, size, pending_render, pending_acquire,
                   pending_release>>

OnCreatedMatches(event) ==              \* mutant: foreign points are dropped
    /\ event.type = "created"
    /\ pending_acquire # None
    /\ pending_release # None
    /\ IF event.own = pending_acquire THEN CommitBuffer(event)
                                      ELSE UNCHANGED sendbuf
    /\ pending_acquire' = None
    /\ pending_release' = None
    /\ create_size' = None
    /\ UNCHANGED <<running, size, pending_render>>

OnCreatedCommits(event) ==
    /\ event.type = "created"
    /\ pending_acquire # None
    /\ pending_release # None
    /\ CommitBuffer(event)
    /\ pending_acquire' = None
    /\ pending_release' = None
    /\ create_size' = None
    /\ UNCHANGED <<running, size, pending_render>>

(***************************************************************************)
(* Created, a point is missing: the buffer is dropped.  An acquire point   *)
(* without a release point would be taken all the same.                    *)
(***************************************************************************)
OnCreatedDrops(event) ==
    /\ event.type = "created"
    /\ pending_acquire = None \/ pending_release = None
    /\ pending_acquire' = None
    /\ create_size' = None
    /\ UNCHANGED <<running, size, pending_render, pending_release, sendbuf>>

OnFailedKeepsPoints(event) ==           \* mutant: points not cleared
    /\ event.type = "failed"
    /\ create_size' = None
    /\ UNCHANGED <<running, size, pending_render, pending_acquire,
                   pending_release, sendbuf>>

OnFailed(event) ==
    /\ event.type = "failed"
    /\ create_size' = None
    /\ pending_acquire' = None
    /\ pending_release' = None
    /\ UNCHANGED <<running, size, pending_render, sendbuf>>

OnEvent(event) ==
    \/ OnToplevelConfigure(event)
    \/ OnClose(event)
    \/ OnConfigure(event)
    \/ OnCreatedCommits(event)
    \/ OnCreatedDrops(event)
    \/ OnFailed(event)
=============================================================================
