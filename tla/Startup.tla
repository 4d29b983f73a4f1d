------------------------------ MODULE Startup -------------------------------
(***************************************************************************)
(* main before its loop (examples/wayvek.rs): two roundtrips that discover *)
(* the globals and the dmabuf feedback, then the device, the negotiation,  *)
(* the timeline and the window, each of which may end the program.         *)
(*                                                                         *)
(* As in FrameLoop, requests wait in sendbuf until a dispatch flushes them *)
(* and a dispatch handles every event its read has brought in.  The        *)
(* compositor is external code.                                            *)
(***************************************************************************)
EXTENDS Negotiation, Queues, FiniteSets

CONSTANTS
    Feedbacks,      \* the dmabuf feedback a compositor may send
    Versions,       \* the versions of zwp_linux_dmabuf_v1 it may have
    MaxFaults,      \* bound: failing calls
    MaxLate         \* bound: globals announced after the first ones

(***************************************************************************)
(* The globals the program needs.  (zxdg_decoration_manager_v1 is optional *)
(* and changes nothing else.)                                              *)
(***************************************************************************)
Globals == {"wl_compositor", "xdg_wm_base", "zwp_linux_dmabuf_v1",
            "wp_linux_drm_syncobj_manager_v1"}

ASSUME StartupAssumption ==
    /\ \A f \in Feedbacks : /\ f.device \in Devices
                            /\ f.table \in Seq(Entry)
                            /\ f.tranches \in Seq(Seq(Nat))
    /\ None \notin Feedbacks
    /\ Versions \subseteq Nat
    /\ MaxFaults \in Nat /\ MaxLate \in Nat

VARIABLES
    stage,              \* what main does next
    done,               \* whether the current roundtrip has its answer
    bound,              \* the globals WaylandState holds a proxy of
    surface,            \* whether init_window made a surface
    surface_sync,       \* and its explicit synchronization object
    syncobj_timeline,   \* whether import_timeline sent the timeline
    sendbuf,            \* requests not flushed yet
    inbox,              \* events read, not handled yet
    requests,           \* requests on their way to the compositor
    events,             \* events on their way to the client
    early,              \* the globals there from the start
    announced,          \* the globals announced so far
    version,            \* the compositor's version of zwp_linux_dmabuf_v1
    offer,              \* the feedback it chose to send, None before that
    window,             \* whether it has seen the window's initial commit
    faults              \* calls that have failed

windowVars == <<surface, surface_sync, syncobj_timeline>>
mainVars == <<stage, done, bound, windowVars>>
compositorVars == <<early, announced, version, offer, window>>

vars == <<feedbackVars, negotiationVars, mainVars, sendbuf, inbox, requests,
          events, compositorVars, faults>>

Stopped == {"exited", "panicked"}

Stages == {"globals", "feedback", "device", "renderer", "negotiate",
           "syncobj", "window", "pipeline", "loop"} \cup Stopped

StartupTypeOK ==
    /\ FeedbackTypeOK
    /\ NegotiationTypeOK
    /\ stage \in Stages
    /\ {done, surface, surface_sync, syncobj_timeline, window} \subseteq BOOLEAN
    /\ bound \subseteq announced /\ early \subseteq Globals
    /\ announced \subseteq Globals
    /\ version \in Versions
    /\ offer \in Feedbacks \cup {None}
    /\ faults \in 0..MaxFaults

Message(type, arg) == [type |-> type, arg |-> arg]

Sync == Message("sync", None)
Bind(global, v) == Message("bind", [global |-> global, version |-> v])

Init ==
    /\ FeedbackInit
    /\ NegotiationInit
    /\ stage = "globals"
    /\ done = FALSE
    /\ bound = {}
    /\ surface = FALSE
    /\ surface_sync = FALSE
    /\ syncobj_timeline = FALSE
    /\ sendbuf = <<Message("get_registry", None), Sync>>
    /\ inbox = <<>>
    /\ requests = <<>>
    /\ events = <<>>
    /\ early \in SUBSET Globals
    /\ announced = {}
    /\ version \in Versions
    /\ offer = None
    /\ window = FALSE
    /\ faults = 0

-----------------------------------------------------------------------------
(***************************************************************************)
(* The roundtrips, and the dispatches of the loop that follows.            *)
(***************************************************************************)
InRoundtrip == stage \in {"globals", "feedback"}

Dispatching == ((InRoundtrip /\ ~done) \/ stage = "loop") /\ inbox = <<>>

FlushAtFirst ==                         \* mutant: only the first roundtrip flushes
    /\ Dispatching
    /\ sendbuf # <<>>
    /\ stage = "globals"
    /\ requests' = requests \o sendbuf
    /\ sendbuf' = <<>>
    /\ UNCHANGED <<feedbackVars, negotiationVars, mainVars, inbox, events,
                   compositorVars, faults>>

(***************************************************************************)
(* A dispatch with nothing to handle flushes, then waits for events.       *)
(***************************************************************************)
Flush ==
    /\ Dispatching
    /\ sendbuf # <<>>
    /\ requests' = requests \o sendbuf
    /\ sendbuf' = <<>>
    /\ UNCHANGED <<feedbackVars, negotiationVars, mainVars, inbox, events,
                   compositorVars, faults>>

EventTypes == {"global", "main_device", "format_table", "tranche_formats"}

HasType(queue, type) == \E i \in DOMAIN queue : queue[i].type = type

(***************************************************************************)
(* The read takes what has arrived, a prefix of what was sent.  The answer *)
(* to the sync request sets the flag of the roundtrip at once; the rest,   *)
(* events after the answer included, is handled before the roundtrip looks *)
(* at that flag.                                                           *)
(***************************************************************************)
Read(n) ==
    /\ Dispatching
    /\ sendbuf = <<>>
    /\ LET batch == SubSeq(events, 1, n)
       IN  /\ ~HasType(batch, "error")
           /\ inbox' = OfType(batch, EventTypes)
           /\ done' = (done \/ HasType(batch, "done"))
    /\ events' = SubSeq(events, n + 1, Len(events))
    /\ UNCHANGED <<feedbackVars, negotiationVars, stage, bound, windowVars,
                   sendbuf, requests, compositorVars, faults>>

(***************************************************************************)
(* A protocol error ends main through the `?` of the roundtrip.            *)
(***************************************************************************)
ReadError ==
    /\ Dispatching
    /\ sendbuf = <<>>
    /\ HasType(events, "error")
    /\ stage' = "exited"
    /\ UNCHANGED <<feedbackVars, negotiationVars, done, bound, windowVars,
                   sendbuf, inbox, requests, events, compositorVars, faults>>

(***************************************************************************)
(* The registry handler binds a global; for zwp_linux_dmabuf_v1 it asks    *)
(* for version 5, whatever is on offer, and for the default feedback.  The *)
(* versions it asks for of the others are always on offer; 1 stands for    *)
(* them.                                                                   *)
(***************************************************************************)
OnGlobal(global) ==
    /\ bound' = bound \cup {global}
    /\ sendbuf' = sendbuf \o
         IF global = "zwp_linux_dmabuf_v1"
         THEN <<Bind(global, 5), Message("get_default_feedback", None)>>
         ELSE <<Bind(global, 1)>>
    /\ UNCHANGED <<feedbackVars, faults>>

(***************************************************************************)
(* Mapping the format table may fail.                                      *)
(***************************************************************************)
OnFeedback(e) ==
    /\ \/ e.type = "main_device"     /\ OnMainDevice(e.arg) /\ UNCHANGED faults
       \/ e.type = "format_table"    /\ OnFormatTable(e.arg) /\ UNCHANGED faults
       \/ e.type = "format_table"    /\ faults < MaxFaults
                                     /\ OnFormatTableFails
                                     /\ faults' = faults + 1
       \/ e.type = "tranche_formats" /\ OnTrancheFormats(e.arg)
                                     /\ UNCHANGED faults
    /\ UNCHANGED <<bound, sendbuf>>

HandleEvent ==
    /\ inbox # <<>>
    /\ \/ inbox[1].type = "global" /\ OnGlobal(inbox[1].arg)
       \/ OnFeedback(inbox[1])
    /\ inbox' = Tail(inbox)
    /\ UNCHANGED <<negotiationVars, stage, done, windowVars, requests, events,
                   compositorVars>>

RoundtripOnce ==                        \* mutant: there is no second roundtrip
    /\ InRoundtrip /\ done /\ inbox = <<>>
    /\ stage' = "device"
    /\ UNCHANGED <<done, sendbuf>>
    /\ UNCHANGED <<feedbackVars, negotiationVars, bound, windowVars, inbox,
                   requests, events, compositorVars, faults>>

RoundtripReturns ==
    /\ InRoundtrip /\ done /\ inbox = <<>>
    /\ \/ /\ stage = "globals"
          /\ stage' = "feedback"
          /\ done' = FALSE
          /\ sendbuf' = Append(sendbuf, Sync)
       \/ /\ stage = "feedback"
          /\ stage' = "device"
          /\ UNCHANGED <<done, sendbuf>>
    /\ UNCHANGED <<feedbackVars, negotiationVars, bound, windowVars, inbox,
                   requests, events, compositorVars, faults>>

-----------------------------------------------------------------------------
(***************************************************************************)
(* The steps after the roundtrips.                                         *)
(***************************************************************************)
Step(from, to) ==
    /\ stage = from
    /\ stage' = to
    /\ UNCHANGED <<feedbackVars, done, bound, inbox, requests, events,
                   compositorVars>>

(***************************************************************************)
(* "no main DRM device" ends main when no feedback has named one.          *)
(***************************************************************************)
ChooseDevice ==
    /\ Step("device", IF main_device = None THEN "exited" ELSE "renderer")
    /\ UNCHANGED <<negotiationVars, windowVars, sendbuf, faults>>

(***************************************************************************)
(* Vulkan::new: whatever the device supports is fixed from here on.        *)
(***************************************************************************)
NewRenderer ==
    /\ Step("renderer", "negotiate")
    /\ device_mods' \in Capabilities
    /\ UNCHANGED <<buffer_fmt, windowVars, sendbuf, faults>>

NegotiateFormat ==
    /\ stage = "negotiate"
    /\ \E pair \in {Negotiate(dmabuf_formats)} :
          \/ /\ pair = None
             /\ Step("negotiate", "exited")
             /\ UNCHANGED negotiationVars
          \/ /\ pair # None
             /\ Step("negotiate", "syncobj")
             /\ SetBufferFormat(pair)
    /\ UNCHANGED <<windowVars, sendbuf, faults>>

(***************************************************************************)
(* DrmSyncobj::create, export_fd and import_timeline; without a manager    *)
(* the last does nothing.                                                  *)
(***************************************************************************)
ImportTimeline ==
    /\ Step("syncobj", "window")
    /\ IF "wp_linux_drm_syncobj_manager_v1" \in bound
       THEN /\ syncobj_timeline' = TRUE
            /\ sendbuf' = Append(sendbuf, Message("import_timeline", None))
       ELSE UNCHANGED <<syncobj_timeline, sendbuf>>
    /\ UNCHANGED <<negotiationVars, surface, surface_sync, faults>>

WindowRequests ==
    <<Message("get_toplevel", None), Message("get_surface", None),
      Message("commit", None)>>

InitWindowLenient ==                    \* mutant: no panic without a manager
    /\ Step("window", "pipeline")
    /\ IF {"wl_compositor", "xdg_wm_base"} \subseteq bound
       THEN /\ surface' = TRUE
            /\ surface_sync' =
                  ("wp_linux_drm_syncobj_manager_v1" \in bound)
            /\ sendbuf' = sendbuf \o WindowRequests
       ELSE UNCHANGED <<surface, surface_sync, sendbuf>>
    /\ UNCHANGED <<negotiationVars, syncobj_timeline, faults>>

InitWindowForgetsCommit ==              \* mutant: no initial commit
    /\ Step("window", "pipeline")
    /\ surface' = TRUE
    /\ surface_sync' = TRUE
    /\ sendbuf' = sendbuf \o SubSeq(WindowRequests, 1, 2)
    /\ UNCHANGED <<negotiationVars, syncobj_timeline, faults>>

(***************************************************************************)
(* init_window: returns silently without wl_compositor or xdg_wm_base, and *)
(* panics, the surface made, without a syncobj manager.                    *)
(***************************************************************************)
InitWindow ==
    /\ \/ /\ ~ {"wl_compositor", "xdg_wm_base"} \subseteq bound
          /\ Step("window", "pipeline")
          /\ UNCHANGED <<surface, surface_sync, sendbuf>>
       \/ /\ {"wl_compositor", "xdg_wm_base"} \subseteq bound
          /\ "wp_linux_drm_syncobj_manager_v1" \notin bound
          /\ Step("window", "panicked")
          /\ surface' = TRUE
          /\ sendbuf' = Append(sendbuf, WindowRequests[1])
          /\ UNCHANGED surface_sync
       \/ /\ {"wl_compositor", "xdg_wm_base",
              "wp_linux_drm_syncobj_manager_v1"} \subseteq bound
          /\ Step("window", "pipeline")
          /\ surface' = TRUE
          /\ surface_sync' = TRUE
          /\ sendbuf' = sendbuf \o WindowRequests
    /\ UNCHANGED <<negotiationVars, syncobj_timeline, faults>>

(***************************************************************************)
(* create_triangle_pipeline; the format it expects has been set.           *)
(***************************************************************************)
BuildPipeline ==
    /\ Step("pipeline", IF buffer_fmt = None THEN "panicked" ELSE "loop")
    /\ UNCHANGED <<negotiationVars, windowVars, sendbuf, faults>>

(***************************************************************************)
(* Every other `?` before the loop: the connection is lost, there is no    *)
(* matching device, no render node, no pipeline...                         *)
(***************************************************************************)
StepFails ==
    /\ faults < MaxFaults
    /\ faults' = faults + 1
    /\ \/ InRoundtrip /\ ~done /\ inbox = <<>>
       \/ stage \in {"renderer", "syncobj", "pipeline"}
    /\ Step(stage, "exited")
    /\ UNCHANGED <<negotiationVars, windowVars, sendbuf>>

-----------------------------------------------------------------------------
(***************************************************************************)
(* The compositor.                                                         *)
(***************************************************************************)
Announce(order) == [k \in DOMAIN order |-> Message("global", order[k])]

FeedbackEvents(f) ==
    <<Message("main_device", f.device), Message("format_table", f.table)>>
    \o [k \in DOMAIN f.tranches |-> Message("tranche_formats", f.tranches[k])]

(***************************************************************************)
(* The answer to a request, and what it leaves behind.  Binding a version  *)
(* that was not announced is a protocol error.                             *)
(***************************************************************************)
Answer(r) ==
    \/ /\ r.type = "get_registry"
       /\ \E order \in SetToSeqs(early) : events' = events \o Announce(order)
       /\ announced' = early
       /\ UNCHANGED <<offer, window>>
    \/ /\ r.type = "sync"
       /\ events' = Append(events, Message("done", None))
       /\ UNCHANGED <<announced, offer, window>>
    \/ /\ r.type = "bind"
       /\ events' =
            IF r.arg.global = "zwp_linux_dmabuf_v1" /\ r.arg.version > version
            THEN Append(events, Message("error", None)) ELSE events
       /\ UNCHANGED <<announced, offer, window>>
    \/ /\ r.type = "get_default_feedback"
       /\ \E f \in Feedbacks : /\ offer' = f
                               /\ events' = events \o FeedbackEvents(f)
       /\ UNCHANGED <<announced, window>>
    \/ /\ r.type \in {"import_timeline", "get_toplevel", "get_surface"}
       /\ UNCHANGED <<events, announced, offer, window>>
    \/ /\ r.type = "commit"
       /\ window' = TRUE
       /\ UNCHANGED <<events, announced, offer>>

(***************************************************************************)
(* After an error the compositor has hung up.                              *)
(***************************************************************************)
HungUp == HasType(events, "error")

NextRequest ==
    /\ requests # <<>>
    /\ ~HungUp
    /\ Answer(requests[1])
    /\ requests' = Tail(requests)
    /\ UNCHANGED <<feedbackVars, negotiationVars, mainVars, sendbuf, inbox,
                   early, version, faults>>

LateGlobal ==
    /\ \A r \in ToSet(requests \o sendbuf) : r.type # "get_registry"
    /\ ~HungUp
    /\ Cardinality(announced \ early) < MaxLate
    /\ \E g \in Globals \ announced :
          /\ announced' = announced \cup {g}
          /\ events' = Append(events, Message("global", g))
    /\ UNCHANGED <<feedbackVars, negotiationVars, mainVars, sendbuf, inbox,
                   requests, early, version, offer, window, faults>>

-----------------------------------------------------------------------------
Main ==
    \/ Flush
    \/ \E n \in 1..Len(events) : Read(n)
    \/ ReadError
    \/ HandleEvent
    \/ RoundtripReturns
    \/ ChooseDevice
    \/ NewRenderer
    \/ NegotiateFormat
    \/ ImportTimeline
    \/ InitWindow
    \/ BuildPipeline

(***************************************************************************)
(* main has stopped, or its loop waits for events.                         *)
(***************************************************************************)
AtRest ==
    /\ \/ stage \in Stopped
       \/ stage = "loop" /\ <<sendbuf, inbox, requests, events>>
                              = <<<<>>, <<>>, <<>>, <<>>>>
    /\ UNCHANGED vars

Next == Main \/ StepFails \/ NextRequest \/ LateGlobal \/ AtRest

(***************************************************************************)
(* main runs whenever it can, and the compositor goes on reading requests. *)
(***************************************************************************)
Spec == Init /\ [][Next]_vars /\ WF_vars(Main) /\ WF_vars(NextRequest)
=============================================================================
