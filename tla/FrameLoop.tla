----------------------------- MODULE FrameLoop ------------------------------
(***************************************************************************)
(* The program: the main loop of examples/wayvek.rs driving the swapchain, *)
(* the renderer, the timeline and the Wayland state, next to the two       *)
(* actors it shares them with, the GPU and the compositor.                 *)
(*                                                                         *)
(*   loop      at the `while` test                                         *)
(*   dispatch  in blocking_dispatch, nothing handled yet                   *)
(*   handling  in blocking_dispatch, some event handled                    *)
(*   acquire   in Swapchain::acquire, for a frame of size `target`         *)
(*   draw      in Vulkan::draw, before the size check                      *)
(*   buffer    ... before the buffer of the slot is looked up              *)
(*   record    ... before the command buffer is begun                      *)
(*   bridge    ... after queue_submit2, fence not exported yet             *)
(*   exited    main has returned; panicked: it has unwound                 *)
(***************************************************************************)
EXTENDS Swapchain, Compositor

CONSTANT Faults     \* the calls that may fail, a subset of FaultKinds

FaultKinds == {"connection", "wait_idle", "create", "submit", "export",
               "signalled_fd", "import", "buffer"}

ASSUME FaultsAssumption == Faults \subseteq FaultKinds
ASSUME MaxConfiguresAssumption == MaxConfigures \in Nat

VARIABLES
    pc,         \* where the client's only thread is
    target      \* the (w, h) of the frame being drawn

vars == <<timelineVars, swapchainVars, rendererVars, surfaceVars,
          compositorVars, pc, target>>

Stages == {"loop", "dispatch", "handling", "acquire", "draw", "buffer",
           "record", "bridge", "exited", "panicked"}

TypeOK ==
    /\ TimelineTypeOK
    /\ SwapchainTypeOK
    /\ RendererTypeOK
    /\ SurfaceTypeOK
    /\ CompositorTypeOK
    /\ pc \in Stages
    /\ target \in Option(Sizes)

Init ==
    /\ TimelineInit
    /\ SwapchainInit
    /\ RendererInit
    /\ SurfaceInit
    /\ CompositorInit
    /\ pc = "loop"
    /\ target = None

Alive == pc \notin {"exited", "panicked"}

-----------------------------------------------------------------------------
(***************************************************************************)
(* blocking_dispatch.                                                      *)
(***************************************************************************)
compositorSide == <<mapped, sent, acked, closed, cq, current, retired,
                    draining>>

FlushOnlyFrames ==                      \* mutant: commit() flushes instead
    /\ pc = "loop"
    /\ running
    /\ IF \E r \in Elements(sendbuf) : r.type \in {"initial", "create"}
       THEN wire' = wire \o sendbuf /\ sendbuf' = <<>>
       ELSE UNCHANGED <<wire, sendbuf>>
    /\ pc' = "dispatch"
    /\ UNCHANGED <<target, surfaceFields, inbox, compositorSide, timelineVars,
                   swapchainVars, rendererVars>>

FlushOvertakes ==                       \* mutant: new requests go first
    /\ pc = "loop"
    /\ running
    /\ wire' = sendbuf \o wire
    /\ sendbuf' = <<>>
    /\ pc' = "dispatch"
    /\ UNCHANGED <<target, surfaceFields, inbox, compositorSide, timelineVars,
                   swapchainVars, rendererVars>>

(***************************************************************************)
(* blocking_dispatch first flushes the send buffer, then blocks.           *)
(***************************************************************************)
EnterDispatch ==
    /\ pc = "loop"
    /\ running
    /\ wire' = wire \o sendbuf
    /\ sendbuf' = <<>>
    /\ pc' = "dispatch"
    /\ UNCHANGED <<target, surfaceFields, inbox, compositorSide, timelineVars,
                   swapchainVars, rendererVars>>

LeaveLoop ==
    /\ pc = "loop"
    /\ ~running
    /\ pc' = "exited"
    /\ UNCHANGED <<target, surfaceVars, compositorVars, timelineVars,
                   swapchainVars, rendererVars>>

(***************************************************************************)
(* A broken connection: `?` ends main.                                     *)
(***************************************************************************)
ConnectionLost ==
    /\ "connection" \in Faults
    /\ pc = "dispatch"
    /\ pc' = "exited"
    /\ UNCHANGED <<target, surfaceVars, compositorVars, timelineVars,
                   swapchainVars, rendererVars>>

HandleEvent ==
    /\ pc \in {"dispatch", "handling"}
    /\ inbox # <<>>
    /\ inbox' = Tail(inbox)
    /\ OnEvent(Head(inbox))
    /\ pc' = "handling"
    /\ UNCHANGED <<target, compositorVars, timelineVars, swapchainVars,
                   rendererVars>>

(***************************************************************************)
(* The batch of events that was read has been handled (it may end after    *)
(* any event); pending_render.take() decides whether to render.            *)
(***************************************************************************)
DispatchReturns ==
    /\ pc = "handling"
    /\ pending_render = None
    /\ pc' = "loop"
    /\ UNCHANGED <<target, surfaceVars, compositorVars, timelineVars,
                   swapchainVars, rendererVars>>

StartFrame ==
    /\ pc = "handling"
    /\ pending_render # None
    /\ target' = pending_render
    /\ pending_render' = None
    /\ pc' = "acquire"
    /\ UNCHANGED <<running, size, pending_acquire, pending_release,
                   create_size, inbox, sendbuf, compositorVars, timelineVars,
                   swapchainVars, rendererVars>>

-----------------------------------------------------------------------------
(***************************************************************************)
(* The frame closure.  Whatever fails is logged, the frame is given up and *)
(* the loop goes on.                                                       *)
(***************************************************************************)
GoTo(stage) ==
    /\ pc' = stage
    /\ UNCHANGED <<target, surfaceVars, compositorVars>>

AcquireSlot ==
    /\ pc = "acquire"
    /\ Acquire
    /\ GoTo("draw")
    /\ UNCHANGED <<timelineVars, rendererVars>>

LoseFrameToTimeout ==
    /\ pc = "acquire"
    /\ AcquireTimesOut
    /\ GoTo("loop")
    /\ UNCHANGED <<timelineVars, rendererVars>>

(***************************************************************************)
(* The draw of slot current_idx.                                           *)
(***************************************************************************)
ResizeImages ==
    /\ pc = "draw"
    /\ Resize(target)
    /\ GoTo("buffer")
    /\ UNCHANGED <<timelineVars, swapchainVars>>

KeepImages ==
    /\ pc = "draw"
    /\ extent = target
    /\ GoTo("buffer")
    /\ UNCHANGED <<timelineVars, swapchainVars, rendererVars>>

WaitIdleFails ==
    /\ "wait_idle" \in Faults
    /\ pc = "draw"
    /\ extent # target
    /\ GoTo("loop")
    /\ UNCHANGED <<timelineVars, swapchainVars, rendererVars>>

PrepareBuffer ==
    /\ pc = "buffer"
    /\ CreateBuffer(current_idx, target) \/ ReuseBuffer(current_idx, target)
    /\ GoTo("record")
    /\ UNCHANGED <<timelineVars, swapchainVars>>

BufferFails ==
    /\ "create" \in Faults
    /\ pc = "buffer"
    /\ CreateBufferFails(current_idx, target)
    /\ GoTo("loop")
    /\ UNCHANGED <<timelineVars, swapchainVars>>

(***************************************************************************)
(* The submission is tagged with the point import_sync_file takes next.    *)
(***************************************************************************)
RecordAndSubmit ==
    /\ pc = "record"
    /\ Submit(current_idx, counter)
    /\ GoTo("bridge")
    /\ UNCHANGED <<timelineVars, swapchainVars>>

RecordFails ==
    /\ "submit" \in Faults
    /\ pc = "record"
    /\ SubmitFails(current_idx)
    /\ GoTo("loop")
    /\ UNCHANGED <<timelineVars, swapchainVars>>

(***************************************************************************)
(* get_fence_fd or try_clone returns an error.                             *)
(***************************************************************************)
ExportFails ==
    /\ "export" \in Faults
    /\ pc = "bridge"
    /\ GoTo("loop")
    /\ UNCHANGED <<timelineVars, swapchainVars, rendererVars>>

(***************************************************************************)
(* For a fence that has signalled already Vulkan may export the sync file  *)
(* -1, which OwnedFd::from_raw_fd rejects with a panic.                    *)
(***************************************************************************)
ExportPanics ==
    /\ "signalled_fd" \in Faults
    /\ pc = "bridge"
    /\ gpu = <<>>
    /\ GoTo("panicked")
    /\ UNCHANGED <<timelineVars, swapchainVars, rendererVars>>

BridgeFails ==
    /\ "import" \in Faults
    /\ pc = "bridge"
    /\ ImportFails
    /\ GoTo("loop")
    /\ UNCHANGED <<swapchainVars, rendererVars>>

DrawnFrame == [image |-> buffers[current_idx], own |-> counter]

PresentAtOldPoint ==                    \* mutant: the last point added is used
    /\ pc = "bridge"
    /\ ImportSyncFile
    /\ MarkPresented(current_idx, head + 1)
    /\ CommitFrame(DrawnFrame, head, head + 1)
    /\ pc' = "loop"
    /\ UNCHANGED <<target, compositorVars, rendererVars>>

(***************************************************************************)
(* Export the fence, import it at the acquire point, record the release    *)
(* point of the slot and hand the frame to the Wayland state.              *)
(***************************************************************************)
PresentFrame ==
    /\ pc = "bridge"
    /\ ImportSyncFile
    /\ MarkPresented(current_idx, counter + 1)
    /\ CommitFrame(DrawnFrame, counter, counter + 1)
    /\ pc' = "loop"
    /\ UNCHANGED <<target, compositorVars, rendererVars>>

-----------------------------------------------------------------------------
Dispatch == EnterDispatch \/ LeaveLoop \/ HandleEvent \/ DispatchReturns
                \/ StartFrame

RenderFrame ==
    \/ AcquireSlot \/ LoseFrameToTimeout
    \/ ResizeImages \/ KeepImages \/ WaitIdleFails
    \/ PrepareBuffer \/ BufferFails
    \/ RecordAndSubmit \/ RecordFails
    \/ ExportFails \/ ExportPanics \/ BridgeFails \/ PresentFrame

ClientStep == Dispatch \/ RenderFrame

GpuStep ==
    /\ Alive
    /\ GpuCompletes
    /\ UNCHANGED <<pc, target, timelineVars, swapchainVars, surfaceVars,
                   compositorVars>>

(***************************************************************************)
(* Buffer import by the compositor fails only as a fault.                  *)
(***************************************************************************)
ReadRequest ==
    \/ TakeInitialCommit
    \/ TakeAck
    \/ AnswerCreated
    \/ "buffer" \in Faults /\ AnswerFailed
    \/ TakeCommit

ReleaseBuffer == \E commit \in Reading : Materialise(commit) \/ Drain(commit)

Configure == \E newSize \in Option(Sizes) : SendConfigure(newSize)

OnCompositor(step) ==
    /\ Alive
    /\ step
    /\ UNCHANGED <<pc, target, swapchainVars>>

CompositorStep ==
    OnCompositor(Configure \/ SendClose \/ ReadRequest \/ Latch
                     \/ ReleaseBuffer)

(***************************************************************************)
(* The process is gone and its objects with it.                            *)
(***************************************************************************)
Terminated == ~Alive /\ UNCHANGED vars

Next == ClientStep \/ ConnectionLost \/ GpuStep \/ CompositorStep
            \/ Terminated

Spec == Init /\ [][Next]_vars

(***************************************************************************)
(* Fairness: the client's thread runs, the GPU completes what it was given *)
(* and the compositor reads its socket, shows what is ready and releases   *)
(* what it replaced.  The user owes nothing: configures and the close may  *)
(* never come, and no fault has to happen.                                 *)
(***************************************************************************)
Fairness ==
    /\ WF_vars(ClientStep)
    /\ WF_vars(GpuStep)
    /\ WF_vars(OnCompositor(ReadRequest))
    /\ WF_vars(OnCompositor(Latch))
    /\ WF_vars(OnCompositor(ReleaseBuffer))

FairSpec == Spec /\ Fairness
=============================================================================
