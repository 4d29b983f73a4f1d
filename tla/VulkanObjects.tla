--------------------------- MODULE VulkanObjects ----------------------------
(***************************************************************************)
(* The life of the objects the program creates: Vulkan's, from Vulkan::new *)
(* to its Drop (src/renderer/vulkan.rs), the handles of the triangle       *)
(* pipeline and the DRM syncobj main owns (examples/wayvek.rs).            *)
(*                                                                         *)
(* Ash handles have no destructors: what a failing call leaves behind in   *)
(* no field of any struct stays allocated.                                 *)
(*                                                                         *)
(* The frames drawn are those of Renderer, in alternating slots and of any *)
(* size.  When a slot may be drawn into again is Swapchain's and FrameLoop *)
(* shows that it does not imply an idle GPU, so here it may be any time.   *)
(***************************************************************************)
EXTENDS Renderer

CONSTANTS
    MaxDraws,       \* bound: calls of draw
    Faults          \* the calls that may fail

FaultKinds == {"instance", "device", "setup", "pipeline", "wait_idle", "create",
               "submit", "export", "final_wait"}

ASSUME ObjectsAssumption == MaxDraws \in Nat /\ Faults \subseteq FaultKinds

VARIABLES
    pc,         \* where main is
    slot,       \* the slot of the draw under way
    draws,      \* calls of draw so far
    live,       \* objects that exist and are owned by a struct
    leaked,     \* kinds of objects that exist and are owned by none
    fence,      \* state of the fence, None before it is created
    failed,     \* the calls that have failed
    exported    \* history: whether the last get_fence_fd succeeded

objects == <<live, leaked, fence>>
vars == <<pc, slot, draws, objects, failed, exported, rendererVars>>

(***************************************************************************)
(* An object is a kind and the id of the image it belongs to, or 0.        *)
(***************************************************************************)
Single(kind) == <<kind, 0>>

ImageParts == <<"image", "memory", "view">>
PipelineHandles == <<"vert", "frag", "layout", "pipeline">>

Parts(image) == {<<kind, image.id>> : kind \in Elements(ImageParts)}
PartsIn(slots) == UNION {Parts(slots[s]) : s \in {t \in Slot : slots[t] # None}}
Pipeline == {Single(kind) : kind \in Elements(PipelineHandles)}

Kinds == {"instance", "device", "syncobj", "pool", "fence"}
            \cup Elements(ImageParts) \cup Elements(PipelineHandles)

ObjectsTypeOK ==
    /\ RendererTypeOK
    /\ pc \in {"new", "device", "syncobj", "setup", "pipeline", "loop",
               "resize", "buffer", "record", "export", "drop_pipeline",
               "drop_syncobj", "drop_renderer", "gone"}
    /\ slot \in Slot
    /\ draws \in 0..MaxDraws
    /\ live \subseteq Kinds \X Nat
    /\ leaked \subseteq Kinds
    /\ fence \in {None, "unsignalled", "pending", "signalled"}
    /\ failed \subseteq Faults
    /\ exported \in BOOLEAN

Init ==
    /\ RendererInit
    /\ pc = "new"
    /\ slot = 0
    /\ draws = 0
    /\ live = {}
    /\ leaked = {}
    /\ fence = None
    /\ failed = {}
    /\ exported = TRUE

-----------------------------------------------------------------------------
Moves(from, to) ==
    /\ pc = from
    /\ pc' = to
    /\ UNCHANGED <<slot, draws>>

GoTo(from, to) ==
    /\ Moves(from, to)
    /\ exported' = (exported \/ from = "export")
    /\ UNCHANGED failed

Fails(kind, from, to) ==
    /\ Moves(from, to)
    /\ kind \in Faults
    /\ failed' = failed \cup {kind}
    /\ exported' = (exported /\ kind # "export")

(***************************************************************************)
(* One object outside draw is created, or some are destroyed.              *)
(***************************************************************************)
Create(kind) ==
    /\ live' = live \cup {Single(kind)}
    /\ UNCHANGED <<leaked, fence, rendererVars>>

Destroy(things) ==
    /\ live' = live \ things
    /\ UNCHANGED <<leaked, fence, rendererVars>>

(***************************************************************************)
(* Objects lose their owner.                                               *)
(***************************************************************************)
Leak(kinds) ==
    /\ live' = {o \in live : o[1] \notin kinds}
    /\ leaked' = leaked \cup kinds
    /\ UNCHANGED <<fence, rendererVars>>

(***************************************************************************)
(* Vulkan::new.  Without an instance there is nothing to destroy; when no  *)
(* device matches or it cannot be created, the instance is not destroyed.  *)
(***************************************************************************)
CreateInstance ==
    /\ GoTo("new", "device")
    /\ Create("instance")

NoInstance ==
    /\ Fails("instance", "new", "gone")
    /\ UNCHANGED <<objects, rendererVars>>

CreateDevice ==
    /\ GoTo("device", "syncobj")
    /\ Create("device")

NoDevice ==
    /\ Fails("device", "device", "gone")
    /\ Leak({"instance"})

(***************************************************************************)
(* The steps of main from there to the pipeline.  The syncobj exists from  *)
(* the middle of them on; an error drops what exists.                      *)
(***************************************************************************)
CreateSyncobj ==
    /\ GoTo("syncobj", "setup")
    /\ Create("syncobj")

SetupDone ==
    /\ GoTo("setup", "pipeline")
    /\ UNCHANGED <<objects, rendererVars>>

SetupFails ==
    /\ \/ Fails("setup", "syncobj", "drop_renderer")
       \/ Fails("setup", "setup", "drop_syncobj")
    /\ UNCHANGED <<objects, rendererVars>>

(***************************************************************************)
(* create_triangle_pipeline makes four handles in turn; when one cannot be *)
(* made, those made before it have no owner.                               *)
(***************************************************************************)
HandlesMade == {kind \in Elements(PipelineHandles) : Single(kind) \in live}

CreateHandle ==
    \E n \in DOMAIN PipelineHandles :
       /\ HandlesMade = {PipelineHandles[i] : i \in 1..(n - 1)}
       /\ GoTo("pipeline", IF n = 4 THEN "loop" ELSE "pipeline")
       /\ Create(PipelineHandles[n])

CreateHandleFails ==
    /\ Fails("pipeline", "pipeline", "drop_syncobj")
    /\ Leak(HandlesMade)

-----------------------------------------------------------------------------
StartDrawNoWrap ==                      \* mutant: the rotation lacks its % 2
    /\ pc = "loop"
    /\ draws < MaxDraws
    /\ pc' = "resize"
    /\ draws' = draws + 1
    /\ slot' = slot + 1
    /\ UNCHANGED <<objects, failed, exported, rendererVars>>

(***************************************************************************)
(* draw.  Its size is the one it last resized to.                          *)
(***************************************************************************)
StartDraw ==
    /\ pc = "loop"
    /\ draws < MaxDraws
    /\ pc' = "resize"
    /\ draws' = draws + 1
    /\ slot' = 1 - slot
    /\ UNCHANGED <<objects, failed, exported, rendererVars>>

(***************************************************************************)
(* An image that no slot holds any longer is dropped with its parts.       *)
(***************************************************************************)
DropImages == live' = live \ (PartsIn(buffers) \ PartsIn(buffers'))

ResizeImages ==
    /\ GoTo("resize", "buffer")
    /\ \E size \in Sizes : Resize(size)
    /\ DropImages
    /\ UNCHANGED <<leaked, fence>>

KeepImages ==
    /\ GoTo("resize", "buffer")
    /\ extent # None
    /\ UNCHANGED <<objects, rendererVars>>

WaitIdleFails ==
    /\ Fails("wait_idle", "resize", "loop")
    /\ \E size \in Sizes : extent # size
    /\ UNCHANGED <<objects, rendererVars>>

(***************************************************************************)
(* create_buffer, with the command pool and the fence when there are none. *)
(***************************************************************************)
MakeBuffer ==
    /\ GoTo("buffer", "record")
    /\ CreateBuffer(slot, extent)
    /\ live' = live \cup Parts(buffers'[slot])
                    \cup {Single("pool"), Single("fence")}
    /\ fence' = IF frame THEN fence ELSE "signalled"
    /\ UNCHANGED leaked

KeepBuffer ==
    /\ GoTo("buffer", "record")
    /\ ReuseBuffer(slot, extent)
    /\ UNCHANGED objects

(***************************************************************************)
(* create_buffer fails, leaving behind what it has made of the image.  The *)
(* last calls, for pool and fence, are made only the first time, and the   *)
(* pool stays for the next attempt.                                        *)
(***************************************************************************)
MakeBufferFails ==
    /\ Fails("create", "buffer", "loop")
    /\ CreateBufferFails(slot, extent)
    /\ \/ /\ \E n \in 0..2 :
                leaked' = leaked \cup Elements(SubSeq(ImageParts, 1, n))
          /\ UNCHANGED live
       \/ /\ ~frame
          /\ leaked' = leaked \cup Elements(ImageParts)
          /\ live' \in {live, live \cup {Single("pool")}}
    /\ UNCHANGED fence

(***************************************************************************)
(* Record, reset the fence, submit.                                        *)
(***************************************************************************)
SubmitFrame ==
    /\ GoTo("record", "export")
    /\ Submit(slot, draws)
    /\ fence' = "pending"
    /\ UNCHANGED <<live, leaked>>

SubmitFrameFails ==
    /\ Fails("submit", "record", "loop")
    /\ SubmitFails(slot)
    /\ fence' \in {fence, "unsignalled"}
    /\ UNCHANGED <<live, leaked>>

ExportOpaque ==                         \* mutant: a handle that shares the
    /\ GoTo("export", "loop")           \* fence instead of a SYNC_FD
    /\ UNCHANGED <<objects, rendererVars>>

(***************************************************************************)
(* get_fence_fd: exporting a SYNC_FD also resets the fence, a failure      *)
(* leaves it in use.                                                       *)
(***************************************************************************)
ExportFence ==
    /\ GoTo("export", "loop")
    /\ fence' = "unsignalled"
    /\ UNCHANGED <<live, leaked, rendererVars>>

ExportFails ==
    /\ Fails("export", "export", "loop")
    /\ UNCHANGED <<objects, rendererVars>>

(***************************************************************************)
(* The fence is always that of the last submission.                        *)
(***************************************************************************)
GpuStep ==
    /\ GpuCompletes
    /\ fence' = IF fence = "pending" /\ gpu' = <<>> THEN "signalled" ELSE fence
    /\ UNCHANGED <<pc, slot, draws, live, leaked, failed, exported>>

-----------------------------------------------------------------------------
(***************************************************************************)
(* main returns, or ends on an error of the connection; its locals are     *)
(* dropped in reverse order: pipeline, syncobj, renderer.                  *)
(***************************************************************************)
LeaveMain ==
    /\ GoTo("loop", "drop_pipeline")
    /\ UNCHANGED <<objects, rendererVars>>

(***************************************************************************)
(* TrianglePipeline::drop does not wait for the GPU.                       *)
(***************************************************************************)
DropPipeline ==
    /\ GoTo("drop_pipeline", "drop_syncobj")
    /\ Destroy(Pipeline)

DropSyncobj ==
    /\ GoTo("drop_syncobj", "drop_renderer")
    /\ Destroy({Single("syncobj")})

DestroyAll(kinds) ==
    /\ buffers' = NoBuffers
    /\ frame' = FALSE
    /\ live' = {o \in live \ PartsIn(buffers) : o[1] \notin kinds}
    /\ fence' = IF frame /\ "fence" \in kinds THEN None ELSE fence
    /\ UNCHANGED <<leaked, extent, gpu, made>>

DropKeepsPool ==                        \* mutant: the pool is forgotten
    /\ GoTo("drop_renderer", "gone")
    /\ gpu = <<>>
    /\ DestroyAll({"fence", "device", "instance"})

DropAtOnce ==                           \* mutant: no device_wait_idle
    /\ GoTo("drop_renderer", "gone")
    /\ DestroyAll({"fence", "pool", "device", "instance"})

(***************************************************************************)
(* Vulkan::drop waits for the GPU, goes on when that fails, and destroys   *)
(* fence, images, pool, device and instance.                               *)
(***************************************************************************)
DropRenderer ==
    /\ \/ gpu = <<>> /\ GoTo("drop_renderer", "gone")
       \/ gpu # <<>> /\ Fails("final_wait", "drop_renderer", "gone")
    /\ DestroyAll({"fence", "pool", "device", "instance"})

Terminated ==
    /\ pc = "gone"
    /\ UNCHANGED vars

Next ==
    \/ CreateInstance \/ NoInstance \/ CreateDevice \/ NoDevice
    \/ CreateSyncobj \/ SetupDone \/ SetupFails
    \/ CreateHandle \/ CreateHandleFails
    \/ StartDraw \/ ResizeImages \/ KeepImages \/ WaitIdleFails
    \/ MakeBuffer \/ KeepBuffer \/ MakeBufferFails
    \/ SubmitFrame \/ SubmitFrameFails \/ ExportFence \/ ExportFails
    \/ GpuStep
    \/ LeaveMain \/ DropPipeline \/ DropSyncobj \/ DropRenderer
    \/ Terminated

Spec == Init /\ [][Next]_vars

-----------------------------------------------------------------------------
(***************************************************************************)
(* Until main is gone, everything a pending submission uses exists: the    *)
(* image it writes with its memory and view, the pool of its command       *)
(* buffer, its fence, the device and the instance, whatever is resized or  *)
(* fails (draw's device_wait_idle).  When main is gone nothing is pending, *)
(* unless the device_wait_idle of Vulkan::drop failed, which it ignores.   *)
(* The pipeline exists only until main drops it: TrianglePipeline::drop    *)
(* does not wait, so a submission may lose the pipeline it uses.           *)
(***************************************************************************)
PendingWorkKeepsItsObjects ==
    /\ pc # "gone" =>
          \A i \in DOMAIN gpu :
             /\ Parts(gpu[i].image) \subseteq live
             /\ {Single("pool"), Single("fence"), Single("device"),
                 Single("instance")} \subseteq live
             /\ pc \notin {"drop_syncobj", "drop_renderer"} =>
                   Pipeline \subseteq live
    /\ pc = "gone" /\ gpu # <<>> => "final_wait" \in failed

(***************************************************************************)
(* What each creation that fails half-way leaves without an owner.         *)
(***************************************************************************)
LeftBehind ==
    [device   |-> {"instance"},
     pipeline |-> Elements(PipelineHandles) \ {"pipeline"},
     create   |-> Elements(ImageParts)]

Leftovers == UNION {LeftBehind[kind] : kind \in failed \cap DOMAIN LeftBehind}

(***************************************************************************)
(* When the program is gone nothing is left of what it created but what    *)
(* the creations that failed left behind: never a syncobj, pool, fence or  *)
(* device, and the instance only for want of a device.                     *)
(***************************************************************************)
CleanExit ==
    pc = "gone" => live = {} /\ leaked \subseteq Leftovers

(***************************************************************************)
(* draw resets and submits a fence only when no submission has it pending  *)
(* (vulkan.rs:194-201), however far the GPU is behind, unless the export   *)
(* of the submission just before failed: an earlier failure does no harm.  *)
(***************************************************************************)
FenceFreeWhenReset ==
    pc = "record" => \/ fence \in {"unsignalled", "signalled"}
                     \/ fence = "pending" /\ ~exported

(***************************************************************************)
(* "Created handles are destroyed either by the returned struct's Drop or, *)
(* on the create_graphics_pipelines error path, explicitly below."         *)
(* (examples/wayvek.rs:51-54)                                              *)
(***************************************************************************)
HandlesDestroyed ==
    pc = "gone" => leaked \cap Elements(PipelineHandles) = {}
=============================================================================
