------------------------ MODULE VulkanObjectsProofs -------------------------
(***************************************************************************)
(* Proofs about the objects the program creates, for every set of sizes,   *)
(* any number of draws and every combination of failing calls.             *)
(***************************************************************************)
EXTENDS VulkanObjects, RendererProofs, TLAPS

-----------------------------------------------------------------------------
(* The inductive invariant.                                                *)

BeforeLoop == {"new", "device", "syncobj", "setup", "pipeline"}

(***************************************************************************)
(* Every image a submission writes is still in its slot, and submissions   *)
(* are made only in the loop, with the objects of the first create_buffer. *)
(***************************************************************************)
WorkOwned ==
    /\ pc # "gone" =>
          /\ \A i \in DOMAIN gpu : \E s \in Slot : buffers[s] = gpu[i].image
          /\ gpu # <<>> => frame /\ pc \notin BeforeLoop
          /\ \A s \in Slot : buffers[s] # None => frame
          /\ pc = "record" => frame
          /\ pc = "buffer" => extent # None
    /\ pc = "gone" /\ gpu # <<>> => "final_wait" \in failed

(***************************************************************************)
(* What the structs hold exists.                                           *)
(***************************************************************************)
HeldExists ==
    pc # "gone" =>
        /\ \A s \in Slot : buffers[s] # None => Parts(buffers[s]) \subseteq live
        /\ frame => {Single("pool"), Single("fence")} \subseteq live
        /\ pc # "new" => Single("instance") \in live
        /\ pc \notin {"new", "device"} => Single("device") \in live
        /\ pc \notin BeforeLoop \cup {"drop_syncobj", "drop_renderer"} =>
              Pipeline \subseteq live

SingleKinds == {"instance", "device", "syncobj", "pool", "fence"}

(***************************************************************************)
(* Nothing exists besides, each stage of the exit leaves only what the     *)
(* stages after it destroy, and what has no owner is what failed creations *)
(* left behind.                                                            *)
(***************************************************************************)
OnlyHeldExists ==
    /\ live \subseteq PartsIn(buffers) \cup Pipeline
                        \cup {Single(kind) : kind \in SingleKinds}
    /\ pc \in {"new", "device", "syncobj", "setup", "drop_syncobj",
               "drop_renderer", "gone"} => live \cap Pipeline = {}
    /\ pc \in {"new", "device", "syncobj", "drop_renderer"} =>
          Single("syncobj") \notin live
    /\ pc = "new" => live = {}
    /\ pc = "device" => live = {Single("instance")}
    /\ pc = "gone" => live = {}
    /\ pc = "pipeline" => Single("pipeline") \notin live
    /\ leaked \subseteq Leftovers

(***************************************************************************)
(* The fence exists with the command buffer, and is in use only between    *)
(* its submission and its export, unless that export failed.               *)
(***************************************************************************)
FenceExported ==
    pc # "gone" /\ frame =>
        /\ fence \in {"unsignalled", "pending", "signalled"}
        /\ fence = "pending" => pc = "export" \/ ~exported

ObjectsIInv ==
    /\ ObjectsTypeOK
    /\ WorkOwned
    /\ HeldExists
    /\ OnlyHeldExists
    /\ FenceExported

-----------------------------------------------------------------------------
(* Parts and handles.                                                      *)

(***************************************************************************)
(* The kinds a create_buffer and a create_triangle_pipeline make.          *)
(***************************************************************************)
LEMMA PartKinds ==
    /\ Elements(ImageParts) = {"image", "memory", "view"}
    /\ Elements(PipelineHandles) = {"vert", "frag", "layout", "pipeline"}
    /\ Pipeline = {Single("vert"), Single("frag"), Single("layout"),
                   Single("pipeline")}
<1>1. DOMAIN ImageParts = {1, 2, 3} /\ DOMAIN PipelineHandles = {1, 2, 3, 4}
  BY DEF ImageParts, PipelineHandles
<1>2. Elements(ImageParts) = {"image", "memory", "view"}
  BY <1>1 DEF ImageParts, Elements
<1>3. Elements(PipelineHandles) = {"vert", "frag", "layout", "pipeline"}
  BY <1>1 DEF PipelineHandles, Elements
<1> QED
  BY <1>2, <1>3 DEF Pipeline

(***************************************************************************)
(* An object of an image is of one of the three kinds, one of a set of     *)
(* slots belongs to the image of one of them.                              *)
(***************************************************************************)
LEMMA PartsOfImages ==
    /\ \A image : \A o \in Parts(image) :
          o[1] \in {"image", "memory", "view"} /\ o = <<o[1], image.id>>
    /\ \A f, o : o \in PartsIn(f) <=>
          \E s \in Slot : f[s] # None /\ o \in Parts(f[s])
    /\ PartsIn(NoBuffers) = {}
<1>1. \A image : \A o \in Parts(image) :
         o[1] \in {"image", "memory", "view"} /\ o = <<o[1], image.id>>
  BY PartKinds DEF Parts
<1>2. \A f, o : o \in PartsIn(f) <=>
         \E s \in Slot : f[s] # None /\ o \in Parts(f[s])
  BY DEF PartsIn
<1>3. PartsIn(NoBuffers) = {}
  BY <1>2 DEF NoBuffers
<1> QED
  BY <1>1, <1>2, <1>3

(***************************************************************************)
(* No object of an image is one of the pipeline or of another single kind. *)
(***************************************************************************)
LEMMA PartsApart ==
    \A f : \A o \in PartsIn(f) :
       /\ o \notin Pipeline
       /\ o[1] \notin SingleKinds
<1> SUFFICES ASSUME NEW f, NEW o \in PartsIn(f)
             PROVE  o \notin Pipeline /\ o[1] \notin SingleKinds
  OBVIOUS
<1>1. o[1] \in {"image", "memory", "view"}
  BY PartsOfImages
<1> QED
  BY <1>1, PartKinds DEF SingleKinds, Single

-----------------------------------------------------------------------------
(* Types.                                                                  *)

(***************************************************************************)
(* Whatever the actions of draw and the GPU do to the renderer, its fields *)
(* keep their types, and each image of the queue was in it or is the one   *)
(* of the slot.                                                            *)
(***************************************************************************)
LEMMA RendererStep ==
    ASSUME RendererTypeOK, slot \in Slot, draws \in Nat,
           \/ \E size \in Sizes : Resize(size)
           \/ extent \in Sizes /\ CreateBuffer(slot, extent)
           \/ Submit(slot, draws)
           \/ SubmitFails(slot)
           \/ GpuCompletes
    PROVE  /\ RendererTypeOK'
           /\ \A i \in DOMAIN gpu' :
                 \/ \E j \in DOMAIN gpu : gpu'[i].image = gpu[j].image
                 \/ /\ frame /\ buffers[slot] # None
                    /\ gpu'[i].image = buffers[slot]
<1>1. CASE \E size \in Sizes : Resize(size)
  BY <1>1 DEF Resize, RendererTypeOK, NoBuffers, Option
<1>2. CASE extent \in Sizes /\ CreateBuffer(slot, extent)
  BY <1>2 DEF CreateBuffer, RendererTypeOK, Option, Image
<1>3. ASSUME buffers[slot] # None, frame, NEW g \in Rerecorded(buffers[slot])
      PROVE  /\ buffers[slot] \in Image
             /\ g \in Seq(Job)
             /\ \A i \in DOMAIN g :
                   \/ \E j \in DOMAIN gpu : g[i].image = gpu[j].image
                   \/ g[i].image = buffers[slot]
  <2>1. buffers[slot] \in Image
    BY <1>3 DEF RendererTypeOK, Option
  <2>2. /\ g \in Seq(Job)
        /\ DOMAIN g = DOMAIN gpu
        /\ \A i \in DOMAIN gpu : g[i].image \in {buffers[slot], gpu[i].image}
    BY <1>3, <2>1, RerecordedJobs
  <2> QED
    BY <2>1, <2>2
<1>4. CASE Submit(slot, draws)
  <2>1. PICK g \in Rerecorded(buffers[slot]) :
           gpu' = Append(g, [image |-> buffers[slot], point |-> draws])
    BY <1>4 DEF Submit
  <2>2. buffers[slot] # None /\ frame
    BY <1>4 DEF Submit
  <2>3. /\ buffers[slot] \in Image
        /\ g \in Seq(Job)
        /\ \A i \in DOMAIN g :
              \/ \E j \in DOMAIN gpu : g[i].image = gpu[j].image
              \/ g[i].image = buffers[slot]
    BY <1>3, <2>2
  <2>4. [image |-> buffers[slot], point |-> draws] \in Job
    BY <2>3 DEF Job
  <2>5. /\ gpu' \in Seq(Job)
        /\ DOMAIN gpu' = DOMAIN g \cup {Len(g) + 1}
        /\ \A i \in DOMAIN g : gpu'[i] = g[i]
        /\ gpu'[Len(g) + 1] = [image |-> buffers[slot], point |-> draws]
    BY <2>1, <2>3, <2>4
  <2>6. RendererTypeOK'
    BY <1>4, <2>5 DEF Submit, RendererTypeOK
  <2> QED
    BY <2>2, <2>3, <2>5, <2>6
<1>5. CASE SubmitFails(slot)
  <2>1. buffers[slot] # None /\ frame /\ gpu' \in Rerecorded(buffers[slot])
    BY <1>5 DEF SubmitFails
  <2>2. /\ gpu' \in Seq(Job)
        /\ \A i \in DOMAIN gpu' :
              \/ \E j \in DOMAIN gpu : gpu'[i].image = gpu[j].image
              \/ gpu'[i].image = buffers[slot]
    BY <1>3, <2>1
  <2>3. RendererTypeOK'
    BY <1>5, <2>2 DEF SubmitFails, RendererTypeOK
  <2> QED
    BY <2>1, <2>2, <2>3
<1>6. CASE GpuCompletes
  <2>1. gpu \in Seq(Job) /\ gpu # <<>> /\ gpu' = Tail(gpu)
    BY <1>6 DEF GpuCompletes, RendererTypeOK
  <2>2. /\ gpu' \in Seq(Job)
        /\ \A i \in DOMAIN gpu' : i + 1 \in DOMAIN gpu /\ gpu'[i] = gpu[i + 1]
    BY <2>1
  <2>3. RendererTypeOK'
    BY <1>6, <2>2 DEF GpuCompletes, RendererTypeOK
  <2> QED
    BY <2>2, <2>3
<1> QED
  BY <1>1, <1>2, <1>4, <1>5, <1>6

(***************************************************************************)
(* The bookkeeping of a step of main.                                      *)
(***************************************************************************)
LEMMA MovesTyped ==
    ASSUME ObjectsTypeOK, NEW from, NEW to, NEW kind,
           \/ GoTo(from, to)
           \/ Fails(kind, from, to)
    PROVE  /\ pc = from /\ pc' = to
           /\ slot' = slot /\ draws' = draws
           /\ slot' \in Slot /\ draws' \in 0..MaxDraws
           /\ failed' \subseteq Faults
           /\ failed \subseteq failed'
           /\ exported' \in BOOLEAN
  BY DEF ObjectsTypeOK, GoTo, Fails, Moves

(***************************************************************************)
(* create_buffer leaves behind no more than the parts of one image.        *)
(***************************************************************************)
LEMMA MadeParts ==
    \A n \in 0..2 : Elements(SubSeq(ImageParts, 1, n)) \subseteq
                       {"image", "memory", "view"}
<1> SUFFICES ASSUME NEW n \in 0..2
             PROVE  Elements(SubSeq(ImageParts, 1, n)) \subseteq
                       {"image", "memory", "view"}
  OBVIOUS
<1>1. /\ ImageParts \in Seq({"image", "memory", "view"})
      /\ Len(ImageParts) = 3
  BY DEF ImageParts
<1>2. SubSeq(ImageParts, 1, n) \in Seq({"image", "memory", "view"})
  BY <1>1
<1> QED
  BY <1>2 DEF Elements

(***************************************************************************)
(* Every object is of a kind and every image has its parts.                *)
(***************************************************************************)
LEMMA KindsOfObjects ==
    /\ \A kind \in Kinds : Single(kind) \in Kinds \X Nat
    /\ {"image", "memory", "view"} \subseteq Kinds
    /\ {"vert", "frag", "layout", "pipeline"} \subseteq Kinds
    /\ SingleKinds \subseteq Kinds
    /\ \A image \in Image : Parts(image) \subseteq Kinds \X Nat
<1>1. /\ {"image", "memory", "view"} \subseteq Kinds
      /\ {"vert", "frag", "layout", "pipeline"} \subseteq Kinds
      /\ SingleKinds \subseteq Kinds
  BY PartKinds DEF Kinds, SingleKinds
<1>2. \A kind \in Kinds : Single(kind) \in Kinds \X Nat
  BY DEF Single
<1>3. \A image \in Image : Parts(image) \subseteq Kinds \X Nat
  BY <1>1, PartsOfImages DEF Image
<1> QED
  BY <1>1, <1>2, <1>3

(***************************************************************************)
(* The steps before the loop keep every type; they leave the renderer be.  *)
(***************************************************************************)
LEMMA SetupTypes ==
    ASSUME ObjectsTypeOK,
           \/ CreateInstance \/ NoInstance \/ CreateDevice \/ NoDevice
           \/ CreateSyncobj \/ SetupDone \/ SetupFails
           \/ CreateHandle \/ CreateHandleFails
    PROVE  ObjectsTypeOK'
<1> USE DEF ObjectsTypeOK
<1>0. UNCHANGED rendererVars => RendererTypeOK'
  BY DEF RendererTypeOK, rendererVars
<1>1. ASSUME NEW kind \in Kinds, Create(kind)
      PROVE  /\ RendererTypeOK'
             /\ live' \subseteq Kinds \X Nat
             /\ leaked' \subseteq Kinds
             /\ fence' \in {None, "unsignalled", "pending", "signalled"}
  BY <1>0, <1>1, KindsOfObjects DEF Create
<1>2. ASSUME NEW kinds, kinds \subseteq Kinds, Leak(kinds)
      PROVE  /\ RendererTypeOK'
             /\ live' \subseteq Kinds \X Nat
             /\ leaked' \subseteq Kinds
             /\ fence' \in {None, "unsignalled", "pending", "signalled"}
  BY <1>0, <1>2 DEF Leak
<1>3. CASE CreateInstance
  BY <1>1, <1>3, MovesTyped DEF CreateInstance, Kinds
<1>4. CASE CreateDevice
  BY <1>1, <1>4, MovesTyped DEF CreateDevice, Kinds
<1>5. CASE NoDevice
  <2>1. {"instance"} \subseteq Kinds
    BY DEF Kinds
  <2> QED
    BY <1>2, <1>5, <2>1, MovesTyped DEF NoDevice
<1>6. CASE CreateSyncobj
  BY <1>1, <1>6, MovesTyped DEF CreateSyncobj, Kinds
<1>7. CASE NoInstance \/ SetupDone \/ SetupFails
  BY <1>0, <1>7, MovesTyped DEF NoInstance, SetupDone, SetupFails, objects
<1>8. CASE CreateHandle
  <2>1. PICK n \in DOMAIN PipelineHandles :
           /\ GoTo("pipeline", IF n = 4 THEN "loop" ELSE "pipeline")
           /\ Create(PipelineHandles[n])
    BY <1>8 DEF CreateHandle
  <2>2. PipelineHandles[n] \in Kinds
    BY PartKinds DEF Elements, Kinds
  <2>3. pc' \in {"loop", "pipeline"}
    BY <2>1, MovesTyped
  <2> QED
    BY <1>1, <2>1, <2>2, <2>3, MovesTyped
<1>9. CASE CreateHandleFails
  <2>1. HandlesMade \subseteq Kinds
    BY PartKinds, KindsOfObjects DEF HandlesMade
  <2> QED
    BY <1>2, <1>9, <2>1, MovesTyped DEF CreateHandleFails
<1> QED
  BY <1>3, <1>4, <1>5, <1>6, <1>7, <1>8, <1>9

(***************************************************************************)
(* So do the steps of draw and of the GPU.                                 *)
(***************************************************************************)
LEMMA DrawTypes ==
    ASSUME ObjectsTypeOK, WorkOwned,
           \/ StartDraw \/ ResizeImages \/ KeepImages \/ WaitIdleFails
           \/ MakeBuffer \/ KeepBuffer \/ MakeBufferFails
           \/ SubmitFrame \/ SubmitFrameFails \/ ExportFence \/ ExportFails
           \/ GpuStep
    PROVE  ObjectsTypeOK'
<1> USE DEF ObjectsTypeOK
<1>0. UNCHANGED rendererVars => RendererTypeOK'
  BY DEF RendererTypeOK, rendererVars
<1>1. CASE StartDraw
  BY <1>0, <1>1, ObjectsAssumption DEF StartDraw, objects, Slot
<1>2. CASE ResizeImages
  <2>1. RendererTypeOK'
    BY <1>2, RendererStep DEF ResizeImages
  <2> QED
    BY <1>2, <2>1, MovesTyped DEF ResizeImages, DropImages
<1>3. CASE KeepImages \/ WaitIdleFails
  BY <1>0, <1>3, MovesTyped DEF KeepImages, WaitIdleFails, objects
<1>4. CASE MakeBuffer
  <2>1. CreateBuffer(slot, extent)
    BY <1>4 DEF MakeBuffer
  <2>2. extent \in Sizes
    BY <1>4 DEF MakeBuffer, GoTo, Moves, WorkOwned, RendererTypeOK, Option
  <2>5. RendererTypeOK'
    BY <2>1, <2>2, RendererStep, ObjectsAssumption
  <2>3. buffers'[slot] \in Image
    BY <2>1, <2>2 DEF CreateBuffer, RendererTypeOK, Image
  <2>4. Parts(buffers'[slot]) \cup {Single("pool"), Single("fence")}
           \subseteq Kinds \X Nat
    BY <2>3, KindsOfObjects DEF Kinds
  <2> QED
    BY <1>4, <2>4, <2>5, MovesTyped DEF MakeBuffer
<1>5. CASE KeepBuffer
  BY <1>0, <1>5, MovesTyped DEF KeepBuffer, ReuseBuffer, objects
<1>6. CASE MakeBufferFails
  <2>1. UNCHANGED rendererVars
    BY <1>6 DEF MakeBufferFails, CreateBufferFails
  <2>2. leaked' \subseteq Kinds
    BY <1>6, MadeParts, KindsOfObjects, PartKinds DEF MakeBufferFails
  <2>3. live' \subseteq Kinds \X Nat
    BY <1>6, KindsOfObjects DEF MakeBufferFails, Kinds
  <2> QED
    BY <1>0, <1>6, <2>1, <2>2, <2>3, MovesTyped DEF MakeBufferFails
<1>7. CASE SubmitFrame
  <2>1. RendererTypeOK'
    BY <1>7, RendererStep, ObjectsAssumption DEF SubmitFrame
  <2> QED
    BY <1>7, <2>1, MovesTyped DEF SubmitFrame
<1>8. CASE SubmitFrameFails
  <2>1. RendererTypeOK'
    BY <1>8, RendererStep, ObjectsAssumption DEF SubmitFrameFails
  <2> QED
    BY <1>8, <2>1, MovesTyped DEF SubmitFrameFails
<1>9. CASE ExportFence \/ ExportFails
  BY <1>0, <1>9, MovesTyped DEF ExportFence, ExportFails, objects
<1>10. CASE GpuStep
  <2>1. RendererTypeOK'
    BY <1>10, RendererStep, ObjectsAssumption DEF GpuStep
  <2> QED
    BY <1>10, <2>1 DEF GpuStep
<1> QED
  BY <1>1, <1>2, <1>3, <1>4, <1>5, <1>6, <1>7, <1>8, <1>9, <1>10

(***************************************************************************)
(* And the steps of the exit.                                              *)
(***************************************************************************)
LEMMA ExitTypes ==
    ASSUME ObjectsTypeOK,
           LeaveMain \/ DropPipeline \/ DropSyncobj \/ DropRenderer
    PROVE  ObjectsTypeOK'
<1> USE DEF ObjectsTypeOK
<1>0. UNCHANGED rendererVars => RendererTypeOK'
  BY DEF RendererTypeOK, rendererVars
<1>1. CASE LeaveMain
  BY <1>0, <1>1, MovesTyped DEF LeaveMain, objects
<1>2. CASE DropPipeline \/ DropSyncobj
  BY <1>0, <1>2, MovesTyped DEF DropPipeline, DropSyncobj, Destroy
<1>3. CASE DropRenderer
  <2>1. RendererTypeOK'
    BY <1>3 DEF DropRenderer, DestroyAll, RendererTypeOK, NoBuffers, Option
  <2> QED
    BY <1>3, <2>1, MovesTyped DEF DropRenderer, DestroyAll
<1> QED
  BY <1>1, <1>2, <1>3

(***************************************************************************)
(* Every step keeps every type.                                            *)
(***************************************************************************)
LEMMA ObjectsTypeStep ==
    ASSUME ObjectsTypeOK, WorkOwned, [Next]_vars
    PROVE  ObjectsTypeOK'
<1>1. CASE UNCHANGED vars
  BY <1>1 DEF vars, objects, rendererVars, ObjectsTypeOK, RendererTypeOK
<1>2. CASE Terminated
  BY <1>1, <1>2 DEF Terminated
<1> QED
  BY <1>1, <1>2, SetupTypes, DrawTypes, ExitTypes DEF Next

-----------------------------------------------------------------------------
(* The parts of the invariant, step by step.                               *)

(***************************************************************************)
(* The images of pending submissions stay in their slots: a slot is filled *)
(* when it is empty, and both are emptied only when nothing is pending.    *)
(***************************************************************************)
LEMMA WorkStep ==
    ASSUME ObjectsTypeOK, WorkOwned, [Next]_vars
    PROVE  WorkOwned'
<1> USE DEF WorkOwned, BeforeLoop, GoTo, Fails, Moves, rendererVars, objects
<1>1. CASE \/ CreateInstance \/ NoInstance \/ CreateDevice \/ NoDevice
           \/ CreateSyncobj \/ SetupDone \/ SetupFails \/ CreateHandleFails
  BY <1>1 DEF CreateInstance, NoInstance, CreateDevice, NoDevice,
     CreateSyncobj, SetupDone, SetupFails, CreateHandleFails, Create, Leak
<1>2. CASE CreateHandle
  BY <1>2 DEF CreateHandle, Create
<1>3. CASE \/ StartDraw \/ KeepImages \/ WaitIdleFails
           \/ ExportFence \/ ExportFails
  BY <1>3 DEF StartDraw, KeepImages, WaitIdleFails, ExportFence, ExportFails
<1>4. CASE ResizeImages
  <2>1. PICK size \in Sizes : Resize(size)
    BY <1>4 DEF ResizeImages
  <2>2. extent' # None
    BY <2>1, SizesAssumption DEF Resize
  <2> QED
    BY <1>4, <2>1, <2>2 DEF ResizeImages, Resize, NoBuffers
<1>5. CASE MakeBuffer
  <2>1. /\ pc = "buffer" /\ pc' = "record"
        /\ frame' /\ gpu' = gpu
        /\ buffers[slot] = None
        /\ \A s \in Slot \ {slot} : buffers'[s] = buffers[s]
    BY <1>5 DEF MakeBuffer, CreateBuffer, ObjectsTypeOK, RendererTypeOK
  <2>2. \A i \in DOMAIN gpu : gpu[i].image # None
    <3>1. \A i \in DOMAIN gpu : gpu[i] \in Job
      BY DEF ObjectsTypeOK, RendererTypeOK
    <3> QED
      BY <3>1, NoneAssumption DEF Job
  <2>3. \A i \in DOMAIN gpu : \E s \in Slot : buffers'[s] = gpu[i].image
    BY <2>1, <2>2
  <2> QED
    BY <2>1, <2>3
<1>6. CASE KeepBuffer \/ MakeBufferFails
  BY <1>6 DEF KeepBuffer, ReuseBuffer, MakeBufferFails, CreateBufferFails,
     ObjectsTypeOK
<1>7. CASE SubmitFrame \/ SubmitFrameFails
  <2>1. Submit(slot, draws) \/ SubmitFails(slot)
    BY <1>7 DEF SubmitFrame, SubmitFrameFails
  <2>2. \A i \in DOMAIN gpu' :
           \/ \E j \in DOMAIN gpu : gpu'[i].image = gpu[j].image
           \/ frame /\ buffers[slot] # None /\ gpu'[i].image = buffers[slot]
    BY <2>1, RendererStep, ObjectsAssumption DEF ObjectsTypeOK
  <2>3. frame /\ UNCHANGED <<extent, buffers, frame>>
    BY <2>1 DEF Submit, SubmitFails
  <2>4. pc = "record" /\ pc' \in {"export", "loop"}
    BY <1>7 DEF SubmitFrame, SubmitFrameFails
  <2> QED
    BY <2>2, <2>3, <2>4 DEF ObjectsTypeOK
<1>8. CASE GpuStep
  <2>1. \A i \in DOMAIN gpu' :
           \/ \E j \in DOMAIN gpu : gpu'[i].image = gpu[j].image
           \/ frame /\ buffers[slot] # None /\ gpu'[i].image = buffers[slot]
    BY <1>8, RendererStep, ObjectsAssumption DEF GpuStep, ObjectsTypeOK
  <2>2. /\ gpu # <<>>
        /\ UNCHANGED <<extent, buffers, frame, pc, failed>>
    BY <1>8 DEF GpuStep, GpuCompletes
  <2> QED
    BY <2>1, <2>2 DEF ObjectsTypeOK
<1>9. CASE LeaveMain \/ DropPipeline \/ DropSyncobj
  BY <1>9 DEF LeaveMain, DropPipeline, DropSyncobj, Destroy
<1>10. CASE DropRenderer
  BY <1>10 DEF DropRenderer, DestroyAll
<1>11. CASE Terminated \/ UNCHANGED vars
  BY <1>11 DEF Terminated, vars
<1> QED
  BY <1>1, <1>2, <1>3, <1>4, <1>5, <1>6, <1>7, <1>8, <1>9, <1>10, <1>11
     DEF Next

(***************************************************************************)
(* The fence and the export.                                               *)
(***************************************************************************)
LEMMA FenceStep ==
    ASSUME ObjectsTypeOK, WorkOwned, FenceExported, [Next]_vars
    PROVE  FenceExported'
<1> USE DEF FenceExported, GoTo, Fails, Moves, rendererVars, objects
<1>1. CASE \/ CreateInstance \/ NoInstance \/ CreateDevice \/ NoDevice
           \/ CreateSyncobj \/ SetupDone \/ SetupFails \/ CreateHandleFails
  BY <1>1 DEF CreateInstance, NoInstance, CreateDevice, NoDevice,
     CreateSyncobj, SetupDone, SetupFails, CreateHandleFails, Create, Leak
<1>2. CASE CreateHandle
  <2>1. PICK to : GoTo("pipeline", to) /\ UNCHANGED <<fence, frame>>
    BY <1>2 DEF CreateHandle, Create
  <2>2. /\ pc = "pipeline" /\ UNCHANGED <<fence, frame>>
        /\ exported' => exported
    BY <2>1
  <2> QED
    BY <2>2
<1>3. CASE StartDraw \/ KeepImages \/ WaitIdleFails \/ ResizeImages
  BY <1>3 DEF StartDraw, KeepImages, WaitIdleFails, ResizeImages, Resize
<1>4. CASE MakeBuffer \/ KeepBuffer \/ MakeBufferFails
  BY <1>4 DEF MakeBuffer, CreateBuffer, KeepBuffer,
     ReuseBuffer, MakeBufferFails, CreateBufferFails, ObjectsTypeOK,
     RendererTypeOK
<1>5. CASE SubmitFrame \/ SubmitFrameFails
  BY <1>5 DEF SubmitFrame, SubmitFrameFails, Submit, SubmitFails
<1>6. CASE ExportFence \/ ExportFails \/ GpuStep
  BY <1>6 DEF ExportFence, ExportFails, GpuStep, GpuCompletes
<1>7. CASE LeaveMain \/ DropPipeline \/ DropSyncobj \/ DropRenderer
  BY <1>7 DEF LeaveMain, DropPipeline, DropSyncobj, Destroy, DropRenderer
<1>8. CASE Terminated \/ UNCHANGED vars
  BY <1>8 DEF Terminated, vars
<1> QED
  BY <1>1, <1>2, <1>3, <1>4, <1>5, <1>6, <1>7, <1>8 DEF Next

(***************************************************************************)
(* The handles of the pipeline that exist are made in their order, so the  *)
(* last one completes it.                                                  *)
(***************************************************************************)
LEMMA HandleSteps ==
    /\ HandlesMade \subseteq {"vert", "frag", "layout", "pipeline"}
    /\ CreateHandle => /\ \E kind \in {"vert", "frag", "layout", "pipeline"} :
                             /\ live' = live \cup {Single(kind)}
                             /\ pc' = "pipeline" => kind # "pipeline"
                       /\ pc = "pipeline" /\ pc' \in {"pipeline", "loop"}
                       /\ pc' = "loop" => Pipeline \subseteq live'
                       /\ UNCHANGED <<failed, leaked, fence, rendererVars>>
<1>1. HandlesMade \subseteq {"vert", "frag", "layout", "pipeline"}
  BY PartKinds DEF HandlesMade
<1>2. DOMAIN PipelineHandles = 1..4
  BY DEF PipelineHandles
<1>3. SUFFICES ASSUME CreateHandle
               PROVE  /\ \E kind \in {"vert", "frag", "layout", "pipeline"} :
                            /\ live' = live \cup {Single(kind)}
                            /\ pc' = "pipeline" => kind # "pipeline"
                      /\ pc = "pipeline" /\ pc' \in {"pipeline", "loop"}
                      /\ pc' = "loop" => Pipeline \subseteq live'
                      /\ UNCHANGED <<failed, leaked, fence, rendererVars>>
  BY <1>1
<1>4. PICK n \in 1..4 :
         /\ HandlesMade = {PipelineHandles[i] : i \in 1..(n - 1)}
         /\ GoTo("pipeline", IF n = 4 THEN "loop" ELSE "pipeline")
         /\ Create(PipelineHandles[n])
  BY <1>2, <1>3 DEF CreateHandle
<1>5. PipelineHandles[n] \in {"vert", "frag", "layout", "pipeline"}
  BY <1>2, PartKinds DEF Elements
<1>6. /\ pc = "pipeline" /\ pc' = IF n = 4 THEN "loop" ELSE "pipeline"
      /\ live' = live \cup {Single(PipelineHandles[n])}
      /\ UNCHANGED <<failed, leaked, fence, rendererVars>>
  BY <1>4 DEF GoTo, Moves, Create
<1>7. ASSUME n = 4 PROVE Pipeline \subseteq live'
  <2>1. HandlesMade = {PipelineHandles[i] : i \in 1..3}
    BY <1>4, <1>7
  <2>2. {"vert", "frag", "layout"} \subseteq HandlesMade
    BY <2>1 DEF PipelineHandles
  <2>3. {Single("vert"), Single("frag"), Single("layout")} \subseteq live
    BY <2>2 DEF HandlesMade
  <2>4. Single("pipeline") \in live'
    BY <1>6, <1>7 DEF PipelineHandles
  <2> QED
    BY <1>6, <2>3, <2>4, PartKinds
<1>8. n # 4 => PipelineHandles[n] # "pipeline"
  BY DEF PipelineHandles
<1> QED
  BY <1>5, <1>6, <1>7, <1>8

(***************************************************************************)
(* Only what nobody holds any longer is destroyed.                         *)
(***************************************************************************)
LEMMA HeldStep ==
    ASSUME ObjectsTypeOK, WorkOwned, HeldExists, [Next]_vars
    PROVE  HeldExists'
<1> USE DEF HeldExists, BeforeLoop, GoTo, Fails, Moves, rendererVars, objects
<1>1. CASE \/ CreateInstance \/ NoInstance \/ CreateDevice \/ NoDevice
           \/ CreateSyncobj \/ SetupDone \/ SetupFails
  BY <1>1 DEF CreateInstance, NoInstance, CreateDevice, NoDevice,
     CreateSyncobj, SetupDone, SetupFails, Create, Leak
<1>2. CASE CreateHandle
  BY <1>2, HandleSteps
<1>3. CASE CreateHandleFails
  <2>1. /\ live' = {o \in live : o[1] \notin HandlesMade}
        /\ UNCHANGED <<buffers, frame>>
        /\ pc = "pipeline" /\ pc' = "drop_syncobj"
    BY <1>3 DEF CreateHandleFails, Leak
  <2>2. \A s \in Slot : buffers[s] # None => Parts(buffers[s]) \subseteq live'
    BY <2>1, HandleSteps, PartsOfImages
  <2>3. \A kind \in SingleKinds :
           Single(kind) \in live => Single(kind) \in live'
    BY <2>1, HandleSteps DEF SingleKinds, Single
  <2> QED
    BY <2>1, <2>2, <2>3 DEF SingleKinds
<1>4. CASE \/ StartDraw \/ KeepImages \/ WaitIdleFails \/ ExportFence
           \/ ExportFails
  BY <1>4 DEF StartDraw, KeepImages, WaitIdleFails, ExportFence, ExportFails
<1>5. CASE ResizeImages
  <2>1. /\ buffers' = NoBuffers /\ frame' = frame
        /\ live' = live \ PartsIn(buffers)
        /\ pc = "resize" /\ pc' = "buffer"
    BY <1>5, PartsOfImages DEF ResizeImages, Resize, DropImages
  <2>2. Pipeline \subseteq live'
    BY <2>1, PartsApart
  <2>3. \A kind \in SingleKinds :
           Single(kind) \in live => Single(kind) \in live'
    BY <2>1, PartsApart DEF Single
  <2> QED
    BY <2>1, <2>2, <2>3 DEF NoBuffers, SingleKinds
<1>6. CASE MakeBuffer
  <2>1. /\ pc = "buffer" /\ pc' = "record"
        /\ live' = live \cup Parts(buffers'[slot])
                      \cup {Single("pool"), Single("fence")}
        /\ \A s \in Slot \ {slot} : buffers'[s] = buffers[s]
    BY <1>6 DEF MakeBuffer, CreateBuffer, ObjectsTypeOK, RendererTypeOK
  <2> QED
    BY <2>1
<1>7. CASE KeepBuffer \/ MakeBufferFails
  BY <1>7 DEF KeepBuffer, ReuseBuffer, MakeBufferFails, CreateBufferFails
<1>8. CASE SubmitFrame \/ SubmitFrameFails \/ GpuStep
  BY <1>8 DEF SubmitFrame, SubmitFrameFails, GpuStep, Submit, SubmitFails,
     GpuCompletes
<1>9. CASE LeaveMain
  BY <1>9 DEF LeaveMain
<1>10. CASE DropPipeline
  <2>1. /\ live' = live \ Pipeline /\ UNCHANGED <<buffers, frame>>
        /\ pc = "drop_pipeline" /\ pc' = "drop_syncobj"
    BY <1>10 DEF DropPipeline, Destroy
  <2>2. \A s \in Slot : buffers[s] # None => Parts(buffers[s]) \subseteq live'
    BY <2>1, PartsOfImages, PartsApart
  <2>3. \A kind \in SingleKinds :
           Single(kind) \in live => Single(kind) \in live'
    BY <2>1, PartKinds DEF SingleKinds, Single
  <2> QED
    BY <2>1, <2>2, <2>3 DEF SingleKinds
<1>11. CASE DropSyncobj
  <2>1. /\ live' = live \ {Single("syncobj")} /\ UNCHANGED <<buffers, frame>>
        /\ pc = "drop_syncobj" /\ pc' = "drop_renderer"
    BY <1>11 DEF DropSyncobj, Destroy
  <2>2. \A s \in Slot : buffers[s] # None => Parts(buffers[s]) \subseteq live'
    BY <2>1, PartsOfImages DEF Single
  <2>3. \A kind \in SingleKinds \ {"syncobj"} :
           Single(kind) \in live => Single(kind) \in live'
    BY <2>1 DEF SingleKinds, Single
  <2> QED
    BY <2>1, <2>2, <2>3 DEF SingleKinds
<1>12. CASE DropRenderer
  BY <1>12 DEF DropRenderer
<1>13. CASE Terminated \/ UNCHANGED vars
  BY <1>13 DEF Terminated, vars
<1> QED
  BY <1>1, <1>2, <1>3, <1>4, <1>5, <1>6, <1>7, <1>8, <1>9, <1>10, <1>11, <1>12,
     <1>13 DEF Next

(***************************************************************************)
(* What a step leaves without an owner, its failed creation accounts for;  *)
(* the pipeline handle itself is made last, so it is never among it.       *)
(***************************************************************************)
LEMMA LeftoversStep ==
    ASSUME ObjectsTypeOK, OnlyHeldExists, [Next]_vars
    PROVE  leaked' \subseteq Leftovers'
<1> DEFINE kinds == {"device", "pipeline", "create"}
<1>1. /\ DOMAIN LeftBehind = kinds
      /\ LeftBehind["device"] = {"instance"}
      /\ LeftBehind["pipeline"] = {"vert", "frag", "layout"}
      /\ LeftBehind["create"] = {"image", "memory", "view"}
  BY PartKinds DEF LeftBehind
<1>2. /\ leaked \subseteq Leftovers
      /\ pc = "pipeline" => Single("pipeline") \notin live
  BY DEF OnlyHeldExists
<1>3. ASSUME failed \subseteq failed' PROVE Leftovers \subseteq Leftovers'
  BY <1>3 DEF Leftovers
<1>4. ASSUME NEW kind \in kinds, kind \in failed'
      PROVE  LeftBehind[kind] \subseteq Leftovers'
  BY <1>1, <1>4 DEF Leftovers
<1>5. \/ UNCHANGED leaked /\ failed \subseteq failed'
      \/ NoDevice \/ CreateHandleFails \/ MakeBufferFails
  <2> USE DEF GoTo, Fails, Moves, objects
  <2>1. CASE \/ CreateInstance \/ NoInstance \/ CreateDevice
             \/ CreateSyncobj \/ SetupDone \/ SetupFails
    BY <2>1 DEF CreateInstance, NoInstance, CreateDevice, CreateSyncobj,
       SetupDone, SetupFails, Create
  <2>2. CASE CreateHandle
    BY <2>2, HandleSteps
  <2>3. CASE \/ StartDraw \/ ResizeImages \/ KeepImages \/ WaitIdleFails
             \/ MakeBuffer \/ KeepBuffer \/ GpuStep
    BY <2>3 DEF StartDraw, ResizeImages, KeepImages, WaitIdleFails, MakeBuffer,
       KeepBuffer, GpuStep
  <2>4. CASE \/ SubmitFrame \/ SubmitFrameFails \/ ExportFence
             \/ ExportFails
    BY <2>4 DEF SubmitFrame, SubmitFrameFails, ExportFence, ExportFails
  <2>5. CASE LeaveMain \/ DropPipeline \/ DropSyncobj \/ DropRenderer
    BY <2>5 DEF LeaveMain, DropPipeline, DropSyncobj, DropRenderer, Destroy,
       DestroyAll
  <2>6. CASE Terminated \/ UNCHANGED vars
    BY <2>6 DEF Terminated, vars
  <2> QED
    BY <2>1, <2>2, <2>3, <2>4, <2>5, <2>6 DEF Next
<1>6. CASE UNCHANGED leaked /\ failed \subseteq failed'
  BY <1>2, <1>3, <1>6
<1>7. CASE NoDevice
  <2>1. /\ leaked' = leaked \cup {"instance"}
        /\ failed' = failed \cup {"device"}
    BY <1>7 DEF NoDevice, Fails, Leak
  <2> QED
    BY <1>1, <1>2, <1>3, <1>4, <2>1
<1>8. CASE CreateHandleFails
  <2>1. /\ leaked' = leaked \cup HandlesMade
        /\ failed' = failed \cup {"pipeline"}
        /\ pc = "pipeline"
    BY <1>8 DEF CreateHandleFails, Fails, Moves, Leak
  <2>2. HandlesMade \subseteq {"vert", "frag", "layout"}
    BY <1>2, <2>1, HandleSteps DEF HandlesMade
  <2> QED
    BY <1>1, <1>2, <1>3, <1>4, <2>1, <2>2
<1>9. CASE MakeBufferFails
  <2>1. failed' = failed \cup {"create"}
    BY <1>9 DEF MakeBufferFails, Fails
  <2>2. \/ \E n \in 0..2 :
              leaked' = leaked \cup Elements(SubSeq(ImageParts, 1, n))
        \/ leaked' = leaked \cup Elements(ImageParts)
    BY <1>9 DEF MakeBufferFails
  <2>3. leaked' \subseteq leaked \cup {"image", "memory", "view"}
    BY <2>2, MadeParts, PartKinds
  <2> QED
    BY <1>1, <1>2, <1>3, <1>4, <2>1, <2>3
<1> QED
  BY <1>5, <1>6, <1>7, <1>8, <1>9

(***************************************************************************)
(* Nothing is made that is not held or counted as leaked, and the steps of *)
(* the exit destroy everything between them.                               *)
(***************************************************************************)
LEMMA OnlyHeldStep ==
    ASSUME ObjectsTypeOK, WorkOwned, OnlyHeldExists, [Next]_vars
    PROVE  OnlyHeldExists'
<1>0. leaked' \subseteq Leftovers'
  BY LeftoversStep
<1> USE DEF OnlyHeldExists, GoTo, Fails, Moves, rendererVars, objects
<1>1. CASE CreateInstance \/ NoInstance \/ CreateDevice \/ NoDevice
  BY <1>0, <1>1, PartKinds DEF CreateInstance, NoInstance, CreateDevice,
     NoDevice, Create, Leak, Single, SingleKinds
<1>2. CASE CreateSyncobj \/ SetupDone \/ SetupFails
  BY <1>0, <1>2, PartKinds DEF CreateSyncobj, SetupDone, SetupFails, Create, Single,
     SingleKinds
<1>3. CASE CreateHandle
  <2>1. PICK kind \in {"vert", "frag", "layout", "pipeline"} :
           /\ live' = live \cup {Single(kind)}
           /\ pc' = "pipeline" => kind # "pipeline"
    BY <1>3, HandleSteps
  <2>2. pc = "pipeline" /\ pc' \in {"pipeline", "loop"}
    BY <1>3, HandleSteps
  <2>3. Single(kind) \in Pipeline /\ buffers' = buffers
    BY <1>3, HandleSteps, PartKinds
  <2>4. Single(kind) # Single("syncobj")
    BY DEF Single
  <2>5. pc' = "pipeline" => Single("pipeline") \notin live'
    BY <2>1, <2>2 DEF Single
  <2> QED
    BY <1>0, <2>1, <2>2, <2>3, <2>5
<1>4. CASE CreateHandleFails
  <2>1. /\ live' = {o \in live : o[1] \notin HandlesMade}
        /\ buffers' = buffers
        /\ pc' = "drop_syncobj"
    BY <1>4 DEF CreateHandleFails, Leak
  <2>2. live' \cap Pipeline = {}
    BY <2>1 DEF HandlesMade, Pipeline, Single
  <2> QED
    BY <1>0, <2>1, <2>2
<1>5. CASE \/ StartDraw \/ KeepImages \/ WaitIdleFails \/ ExportFence
           \/ ExportFails
  BY <1>0, <1>5 DEF StartDraw, KeepImages, WaitIdleFails, ExportFence, ExportFails
<1>6. CASE ResizeImages
  <2>1. /\ buffers' = NoBuffers
        /\ live' = live \ PartsIn(buffers)
        /\ pc' = "buffer"
    BY <1>6, PartsOfImages DEF ResizeImages, Resize, DropImages
  <2> QED
    BY <1>0, <2>1
<1>7. CASE MakeBuffer
  <2>1. /\ pc' = "record"
        /\ buffers[slot] = None
        /\ live' = live \cup Parts(buffers'[slot])
                      \cup {Single("pool"), Single("fence")}
        /\ buffers'[slot] = [id |-> made + 1, size |-> extent]
        /\ \A s \in Slot \ {slot} : buffers'[s] = buffers[s]
    BY <1>7 DEF MakeBuffer, CreateBuffer, ObjectsTypeOK, RendererTypeOK
  <2>2. PartsIn(buffers) \subseteq PartsIn(buffers')
    BY <2>1, PartsOfImages
  <2>3. buffers'[slot] # None
    <3>1. extent \in Sizes
      BY <1>7 DEF MakeBuffer, WorkOwned, ObjectsTypeOK, RendererTypeOK, Option
    <3>2. buffers'[slot] \in Image
      BY <2>1, <3>1 DEF ObjectsTypeOK, RendererTypeOK, Image
    <3> QED
      BY <3>2, NoneAssumption
  <2>4. Parts(buffers'[slot]) \subseteq PartsIn(buffers')
    BY <2>3, PartsOfImages DEF ObjectsTypeOK
  <2> QED
    BY <1>0, <2>1, <2>2, <2>4 DEF SingleKinds
<1>8. CASE KeepBuffer
  BY <1>0, <1>8 DEF KeepBuffer, ReuseBuffer
<1>9. CASE MakeBufferFails
  <2>1. /\ live' \in {live, live \cup {Single("pool")}}
        /\ buffers' = buffers
        /\ pc' = "loop"
    BY <1>9 DEF MakeBufferFails, CreateBufferFails
  <2> QED
    BY <1>0, <2>1 DEF SingleKinds
<1>10. CASE SubmitFrame \/ SubmitFrameFails \/ GpuStep
  BY <1>0, <1>10 DEF SubmitFrame, SubmitFrameFails, GpuStep, Submit, SubmitFails,
     GpuCompletes
<1>11. CASE LeaveMain
  BY <1>0, <1>11 DEF LeaveMain
<1>12. CASE DropPipeline
  BY <1>0, <1>12 DEF DropPipeline, Destroy
<1>13. CASE DropSyncobj
  <2>1. /\ live' = live \ {Single("syncobj")}
        /\ buffers' = buffers
        /\ pc = "drop_syncobj" /\ pc' = "drop_renderer"
    BY <1>13 DEF DropSyncobj, Destroy
  <2> QED
    BY <1>0, <2>1
<1>14. CASE DropRenderer
  <2>1. /\ live' = {o \in live \ PartsIn(buffers) :
                      o[1] \notin {"fence", "pool", "device", "instance"}}
        /\ pc = "drop_renderer" /\ pc' = "gone"
    BY <1>14 DEF DropRenderer, DestroyAll
  <2>2. live' = {}
    BY <2>1 DEF SingleKinds, Single
  <2> QED
    BY <1>0, <2>1, <2>2
<1>15. CASE Terminated \/ UNCHANGED vars
  BY <1>0, <1>15 DEF Terminated, vars
<1> QED
  BY <1>1, <1>2, <1>3, <1>4, <1>5, <1>6, <1>7, <1>8, <1>9, <1>10, <1>11, <1>12,
     <1>13, <1>14, <1>15 DEF Next

-----------------------------------------------------------------------------
(* The theorems.                                                           *)

(***************************************************************************)
(* It holds before Vulkan::new.                                            *)
(***************************************************************************)
LEMMA ObjectsInit == Init => ObjectsIInv
<1> SUFFICES ASSUME Init PROVE ObjectsIInv
  OBVIOUS
<1> USE DEF Init, RendererInit
<1>1. ObjectsTypeOK
  BY DEF ObjectsTypeOK, RendererTypeOK, NoBuffers, Option, Slot
<1>2. WorkOwned /\ HeldExists /\ FenceExported
  BY DEF WorkOwned, HeldExists, FenceExported, BeforeLoop, NoBuffers
<1>3. OnlyHeldExists
  BY DEF OnlyHeldExists
<1> QED
  BY <1>1, <1>2, <1>3 DEF ObjectsIInv

(***************************************************************************)
(* The invariant holds in every reachable state.                           *)
(***************************************************************************)
THEOREM ObjectsInvariance == Spec => []ObjectsIInv
<1>1. Init => ObjectsIInv
  BY ObjectsInit
<1>2. ObjectsIInv /\ [Next]_vars => ObjectsIInv'
  BY ObjectsTypeStep, WorkStep, HeldStep, OnlyHeldStep, FenceStep
     DEF ObjectsIInv
<1> QED
  BY <1>1, <1>2, PTL DEF Spec

(***************************************************************************)
(* Every variable keeps its type.                                          *)
(***************************************************************************)
THEOREM ObjectsTyped == Spec => []ObjectsTypeOK
<1>1. ObjectsIInv => ObjectsTypeOK
  BY DEF ObjectsIInv
<1> QED
  BY <1>1, ObjectsInvariance, PTL

(***************************************************************************)
(* As long as main is not gone, no resize, failure or exit destroys the    *)
(* image, pool, fence, device or instance a pending submission uses, and   *)
(* nothing is pending when main is gone.  Two cases are exempt: the        *)
(* pipeline, which main destroys before it waits, and a last               *)
(* device_wait_idle that fails, which the code ignores.                    *)
(***************************************************************************)
THEOREM WorkKeepsItsObjects == Spec => []PendingWorkKeepsItsObjects
<1>1. ASSUME ObjectsIInv, pc # "gone", NEW i \in DOMAIN gpu
      PROVE  /\ Parts(gpu[i].image) \subseteq live
             /\ {Single("pool"), Single("fence"), Single("device"),
                 Single("instance")} \subseteq live
             /\ pc \notin {"drop_syncobj", "drop_renderer"} =>
                   Pipeline \subseteq live
  <2>1. gpu # <<>>
    OBVIOUS
  <2>2. gpu[i] \in Job
    BY <1>1 DEF ObjectsIInv, ObjectsTypeOK, RendererTypeOK
  <2>3. PICK s \in Slot : buffers[s] = gpu[i].image
    BY <1>1 DEF ObjectsIInv, WorkOwned
  <2>4. buffers[s] # None
    BY <2>2, <2>3, NoneAssumption DEF Job
  <2>5. frame /\ pc \notin BeforeLoop
    BY <1>1, <2>1 DEF ObjectsIInv, WorkOwned
  <2> QED
    BY <1>1, <2>3, <2>4, <2>5 DEF ObjectsIInv, HeldExists, BeforeLoop
<1>2. ObjectsIInv => PendingWorkKeepsItsObjects
  BY <1>1 DEF PendingWorkKeepsItsObjects, ObjectsIInv, WorkOwned
<1> QED
  BY <1>2, ObjectsInvariance, PTL

(***************************************************************************)
(* The program leaves nothing behind but what failed creations left.       *)
(***************************************************************************)
THEOREM ExitIsClean == Spec => []CleanExit
<1>1. ObjectsIInv => CleanExit
  BY DEF ObjectsIInv, OnlyHeldExists, CleanExit
<1> QED
  BY <1>1, ObjectsInvariance, PTL

(***************************************************************************)
(* draw resets a fence that is free, unless the export before it failed.   *)
(***************************************************************************)
THEOREM FenceIsFree == Spec => []FenceFreeWhenReset
<1>1. ObjectsIInv => FenceFreeWhenReset
  BY DEF ObjectsIInv, WorkOwned, FenceExported, FenceFreeWhenReset
<1> QED
  BY <1>1, ObjectsInvariance, PTL
=============================================================================
