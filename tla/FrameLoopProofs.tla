-------------------------- MODULE FrameLoopProofs ---------------------------
(***************************************************************************)
(* Proofs about the frame loop, for every set of sizes, every number of    *)
(* configures and every combination of faults.                             *)
(***************************************************************************)
EXTENDS FrameInvariant, RendererProofs, TLAPS

-----------------------------------------------------------------------------
(* The elements of a queue.                                                *)

(***************************************************************************)
(* What is appended to a queue is added to its elements.                   *)
(***************************************************************************)
LEMMA ElementsAppend ==
    ASSUME NEW S, NEW s \in Seq(S), NEW x \in S
    PROVE  Elements(Append(s, x)) = Elements(s) \cup {x}
<1>1. /\ DOMAIN Append(s, x) = 1..(Len(s) + 1)
      /\ DOMAIN s = 1..Len(s)
      /\ Len(s) \in Nat
  OBVIOUS
<1>2. \A i \in 1..Len(s) : Append(s, x)[i] = s[i]
  OBVIOUS
<1>3. Append(s, x)[Len(s) + 1] = x
  OBVIOUS
<1>4. 1..(Len(s) + 1) = 1..Len(s) \cup {Len(s) + 1}
  BY <1>1
<1> QED
  BY <1>1, <1>2, <1>3, <1>4 DEF Elements

(***************************************************************************)
(* The head of a queue is one of its elements, its tail brings no others.  *)
(***************************************************************************)
LEMMA ElementsHeadTail ==
    ASSUME NEW S, NEW s \in Seq(S), s # <<>>
    PROVE  /\ Head(s) \in Elements(s)
           /\ Elements(Tail(s)) \subseteq Elements(s)
           /\ Head(s) \in S
           /\ Tail(s) \in Seq(S)
<1>1. /\ Len(s) \in Nat /\ Len(s) > 0
      /\ DOMAIN s = 1..Len(s)
      /\ Head(s) = s[1]
  OBVIOUS
<1>2. /\ DOMAIN Tail(s) = 1..(Len(s) - 1)
      /\ \A i \in 1..(Len(s) - 1) : Tail(s)[i] = s[i + 1] /\ i + 1 \in 1..Len(s)
  BY <1>1
<1> QED
  BY <1>1, <1>2 DEF Elements

(***************************************************************************)
(* A flush moves requests from one queue to the next and makes up none.    *)
(***************************************************************************)
LEMMA ElementsConcat ==
    ASSUME NEW S, NEW s \in Seq(S), NEW t \in Seq(S)
    PROVE  Elements(s \o t) = Elements(s) \cup Elements(t)
<1>1. /\ Len(s) \in Nat /\ Len(t) \in Nat
      /\ DOMAIN s = 1..Len(s) /\ DOMAIN t = 1..Len(t)
      /\ DOMAIN (s \o t) = 1..(Len(s) + Len(t))
  OBVIOUS
<1>2. \A i \in 1..Len(s) : (s \o t)[i] = s[i]
  OBVIOUS
<1>3. \A i \in 1..Len(t) : (s \o t)[Len(s) + i] = t[i]
  BY <1>1
<1>4. \A i \in 1..(Len(s) + Len(t)) :
         i \in 1..Len(s) \/ \E j \in 1..Len(t) : i = Len(s) + j
  <2> TAKE i \in 1..(Len(s) + Len(t))
  <2>1. CASE i <= Len(s)
    BY <1>1, <2>1
  <2>2. CASE i > Len(s)
    <3>1. i - Len(s) \in 1..Len(t) /\ i = Len(s) + (i - Len(s))
      BY <1>1, <2>2
    <3> QED BY <3>1
  <2> QED BY <1>1, <2>1, <2>2
<1>5. \A j \in 1..Len(t) : Len(s) + j \in 1..(Len(s) + Len(t))
  BY <1>1
<1>6. \A i \in 1..Len(s) : i \in 1..(Len(s) + Len(t))
  BY <1>1
<1>7. Elements(s \o t) \subseteq Elements(s) \cup Elements(t)
  <2>1. \A i \in 1..(Len(s) + Len(t)) :
           \/ \E j \in 1..Len(s) : (s \o t)[i] = s[j]
           \/ \E j \in 1..Len(t) : (s \o t)[i] = t[j]
    BY <1>2, <1>3, <1>4
  <2> QED
    BY <1>1, <2>1 DEF Elements
<1>8. Elements(s) \subseteq Elements(s \o t)
  BY <1>1, <1>2, <1>6 DEF Elements
<1>9. Elements(t) \subseteq Elements(s \o t)
  BY <1>1, <1>3, <1>5 DEF Elements
<1> QED
  BY <1>7, <1>8, <1>9

(***************************************************************************)
(* The tag of a request tells which fields it has.                         *)
(***************************************************************************)
LEMMA RequestFields ==
    ASSUME NEW r \in Request
    PROVE  /\ r.type = "ack" => r.serial \in Nat
           /\ r.type = "create" => r \in CreateRequest
           /\ r.type = "commit" => r \in Commit
<1>1. CASE r \in InitialRequest
  BY <1>1 DEF InitialRequest
<1>2. CASE r \in AckRequest
  BY <1>2 DEF AckRequest
<1>3. CASE r \in CreateRequest
  <2>1. r.type = "create"
    BY <1>3 DEF CreateRequest
  <2> QED
    BY <1>3, <2>1
<1>4. CASE r \in Commit
  <2>1. r.type = "commit"
    BY <1>4 DEF Commit
  <2> QED
    BY <1>4, <2>1
<1> QED
  BY <1>1, <1>2, <1>3, <1>4 DEF Request

(***************************************************************************)
(* So does the tag of an event.                                            *)
(***************************************************************************)
LEMMA EventFields ==
    ASSUME NEW e \in Event
    PROVE  /\ e.type = "toplevel" => e.size \in Option(Sizes)
           /\ e.type = "configure" => e.serial \in Nat
           /\ e.type = "created" => e.image \in Image /\ e.own \in Nat
<1>1. CASE e \in ToplevelEvent
  BY <1>1 DEF ToplevelEvent
<1>2. CASE e \in ConfigureEvent
  BY <1>2 DEF ConfigureEvent
<1>3. CASE e \in CloseEvent \cup FailedEvent
  BY <1>3 DEF CloseEvent, FailedEvent
<1>4. CASE e \in CreatedEvent
  BY <1>4 DEF CreatedEvent
<1> QED
  BY <1>1, <1>2, <1>3, <1>4 DEF Event

-----------------------------------------------------------------------------
(* Types.                                                                  *)

(***************************************************************************)
(* The handlers keep the fields and the send buffer typed.                 *)
(***************************************************************************)
LEMMA HandlerType ==
    ASSUME SurfaceTypeOK, NEW e \in Event, OnEvent(e)
    PROVE  /\ running' \in BOOLEAN
           /\ size' \in Sizes
           /\ pending_render' \in Option(Sizes)
           /\ pending_acquire' \in Option(Nat)
           /\ pending_release' \in Option(Nat)
           /\ create_size' \in Option(Sizes)
           /\ sendbuf' \in Seq(Request)
<1> USE DEF SurfaceTypeOK, Option
<1>1. CASE OnToplevelConfigure(e)
  BY <1>1, EventFields DEF OnToplevelConfigure
<1>2. CASE OnClose(e)
  BY <1>2 DEF OnClose
<1>3. CASE OnConfigure(e)
  <2>1. [type |-> "ack", serial |-> e.serial] \in Request
    BY <1>3, EventFields DEF OnConfigure, Request, AckRequest
  <2> QED
    BY <1>3, <2>1 DEF OnConfigure, Send
<1>4. CASE OnCreatedCommits(e)
  <2>1. [type |-> "commit", image |-> e.image, own |-> e.own,
         acquire |-> pending_acquire, release |-> pending_release,
         damage |-> create_size] \in Request
    BY <1>4, EventFields DEF OnCreatedCommits, Request, Commit
  <2> QED
    BY <1>4, <2>1 DEF OnCreatedCommits, CommitBuffer, Send
<1>5. CASE OnCreatedDrops(e)
  BY <1>5 DEF OnCreatedDrops
<1>6. CASE OnFailed(e)
  BY <1>6 DEF OnFailed
<1> QED
  BY <1>1, <1>2, <1>3, <1>4, <1>5, <1>6 DEF OnEvent

(***************************************************************************)
(* A part whose variables do not change keeps its type.                    *)
(***************************************************************************)
LEMMA UnchangedTypes ==
    ASSUME TypeOK
    PROVE  /\ UNCHANGED timelineVars => TimelineTypeOK'
           /\ UNCHANGED swapchainVars => SwapchainTypeOK'
           /\ UNCHANGED rendererVars => RendererTypeOK'
           /\ UNCHANGED surfaceVars => SurfaceTypeOK'
           /\ UNCHANGED compositorVars => CompositorTypeOK'
<1> USE DEF TypeOK
<1>1. UNCHANGED timelineVars => TimelineTypeOK'
  BY DEF timelineVars, TimelineTypeOK
<1>2. UNCHANGED swapchainVars => SwapchainTypeOK'
  BY DEF swapchainVars, SwapchainTypeOK
<1>3. UNCHANGED rendererVars => RendererTypeOK'
  BY DEF rendererVars, RendererTypeOK
<1>4. UNCHANGED surfaceVars => SurfaceTypeOK'
  BY DEF surfaceVars, surfaceFields, SurfaceTypeOK
<1>5. UNCHANGED compositorVars => CompositorTypeOK'
  BY DEF compositorVars, CompositorTypeOK
<1> QED
  BY <1>1, <1>2, <1>3, <1>4, <1>5

(***************************************************************************)
(* The dispatch half of the loop keeps every variable typed.               *)
(***************************************************************************)
LEMMA DispatchType ==
    ASSUME TypeOK, Dispatch \/ ConnectionLost
    PROVE  TypeOK'
<1> USE DEF TypeOK, Stages
<1>1. CASE EnterDispatch
  <2>1. wire \o sendbuf \in Seq(Request) /\ <<>> \in Seq(Request)
    BY DEF CompositorTypeOK, SurfaceTypeOK
  <2>2. SurfaceTypeOK'
    BY <1>1, <2>1 DEF EnterDispatch, SurfaceTypeOK, surfaceFields
  <2>3. CompositorTypeOK'
    BY <1>1, <2>1 DEF EnterDispatch, CompositorTypeOK, compositorSide
  <2> QED
    BY <1>1, <2>2, <2>3, UnchangedTypes DEF EnterDispatch
<1>2. CASE LeaveLoop \/ ConnectionLost \/ DispatchReturns
  BY <1>2, UnchangedTypes DEF LeaveLoop, ConnectionLost, DispatchReturns
<1>3. CASE HandleEvent
  <2>1. /\ Head(inbox) \in Event
        /\ inbox' \in Seq(Event)
    BY <1>3, ElementsHeadTail DEF HandleEvent, SurfaceTypeOK
  <2>2. SurfaceTypeOK'
    BY <1>3, <2>1, HandlerType DEF HandleEvent, SurfaceTypeOK
  <2> QED
    BY <1>3, <2>2, UnchangedTypes DEF HandleEvent
<1>4. CASE StartFrame
  <2>1. SurfaceTypeOK' /\ target' \in Option(Sizes)
    BY <1>4 DEF StartFrame, SurfaceTypeOK, Option
  <2> QED
    BY <1>4, <2>1, UnchangedTypes DEF StartFrame
<1> QED
  BY <1>1, <1>2, <1>3, <1>4 DEF Dispatch

(***************************************************************************)
(* So does the frame closure, given what is known of a frame in progress.  *)
(***************************************************************************)
LEMMA RenderType ==
    ASSUME TypeOK, FrameInProgress, RenderFrame
    PROVE  TypeOK'
<1> USE DEF TypeOK, Stages, GoTo
<1>1. CASE AcquireSlot \/ LoseFrameToTimeout
  <2>1. SwapchainTypeOK'
    BY <1>1 DEF AcquireSlot, LoseFrameToTimeout, Acquire, AcquireTimesOut,
                Rotate, NextSlot, SwapchainTypeOK, Slot
  <2> QED
    BY <1>1, <2>1, UnchangedTypes DEF AcquireSlot, LoseFrameToTimeout
<1>2. CASE ResizeImages
  <2>1. RendererTypeOK'
    BY <1>2 DEF ResizeImages, Resize, RendererTypeOK, FrameInProgress,
                NoBuffers, Option
  <2> QED
    BY <1>2, <2>1, UnchangedTypes DEF ResizeImages
<1>3. CASE KeepImages \/ WaitIdleFails \/ ExportFails \/ ExportPanics
  BY <1>3, UnchangedTypes DEF KeepImages, WaitIdleFails, ExportFails,
     ExportPanics
<1>4. CASE PrepareBuffer
  <2>1. CASE CreateBuffer(current_idx, target)
    <3>1. [id |-> made + 1, size |-> target] \in Image
      BY <1>4 DEF PrepareBuffer, FrameInProgress, RendererTypeOK, Image, Option
    <3>2. RendererTypeOK'
      BY <1>4, <2>1, <3>1 DEF PrepareBuffer, CreateBuffer, FrameInProgress,
         RendererTypeOK, SwapchainTypeOK, Option
    <3> QED
      BY <1>4, <3>2, UnchangedTypes DEF PrepareBuffer
  <2>2. CASE ReuseBuffer(current_idx, target)
    BY <1>4, <2>2, UnchangedTypes DEF PrepareBuffer, ReuseBuffer
  <2> QED
    BY <1>4, <2>1, <2>2 DEF PrepareBuffer
<1>5. CASE BufferFails
  BY <1>5, UnchangedTypes DEF BufferFails, CreateBufferFails
<1>6. CASE RecordAndSubmit
  <2>1. buffers[current_idx] \in Image
    BY <1>6 DEF RecordAndSubmit, Submit, RendererTypeOK, SwapchainTypeOK,
                Option
  <2>2. PICK g \in Rerecorded(buffers[current_idx]) :
           gpu' = Append(g, [image |-> buffers[current_idx],
                             point |-> counter])
    BY <1>6 DEF RecordAndSubmit, Submit
  <2>3. g \in Seq(Job)
    BY <2>1, RerecordedJobs
  <2>4. gpu' \in Seq(Job)
    BY <2>1, <2>2, <2>3 DEF Job, TimelineTypeOK
  <2>5. RendererTypeOK'
    BY <1>6, <2>4 DEF RecordAndSubmit, Submit, RendererTypeOK
  <2> QED
    BY <1>6, <2>5, UnchangedTypes DEF RecordAndSubmit
<1>7. CASE RecordFails
  <2>1. buffers[current_idx] \in Image
    BY <1>7 DEF RecordFails, SubmitFails, RendererTypeOK, SwapchainTypeOK,
                Option
  <2>2. gpu' \in Seq(Job)
    BY <1>7, <2>1, RerecordedJobs DEF RecordFails, SubmitFails
  <2>3. RendererTypeOK'
    BY <1>7, <2>2 DEF RecordFails, SubmitFails, RendererTypeOK
  <2> QED
    BY <1>7, <2>3, UnchangedTypes DEF RecordFails
<1>8. CASE BridgeFails
  <2>1. TimelineTypeOK'
    BY <1>8 DEF BridgeFails, ImportFails, TimelineTypeOK
  <2> QED
    BY <1>8, <2>1, UnchangedTypes DEF BridgeFails
<1>9. CASE PresentFrame
  <2>1. buffers[current_idx] \in Image
    BY <1>9 DEF PresentFrame, FrameInProgress, RendererTypeOK,
                SwapchainTypeOK, Option
  <2>2. TimelineTypeOK'
    BY <1>9 DEF PresentFrame, ImportSyncFile, AddPoint, TimelineTypeOK
  <2>3. SwapchainTypeOK'
    BY <1>9 DEF PresentFrame, MarkPresented, TimelineTypeOK, SwapchainTypeOK,
                Option
  <2>4. [type |-> "create", image |-> buffers[current_idx],
         own |-> counter] \in Request
    BY <2>1 DEF Request, CreateRequest, TimelineTypeOK
  <2>5. SurfaceTypeOK'
    BY <1>9, <2>1, <2>4 DEF PresentFrame, CommitFrame, DrawnFrame, Send,
       SurfaceTypeOK, TimelineTypeOK, Option, Image
  <2> QED
    BY <1>9, <2>2, <2>3, <2>5, UnchangedTypes DEF PresentFrame
<1> QED
  BY <1>1, <1>2, <1>3, <1>4, <1>5, <1>6, <1>7, <1>8, <1>9 DEF RenderFrame

(***************************************************************************)
(* The compositor keeps every variable typed.                              *)
(***************************************************************************)
LEMMA CompositorType ==
    ASSUME TypeOK, CompositorStep
    PROVE  TypeOK'
<1> USE DEF TypeOK
<1>0. UNCHANGED <<pc, target, swapchainVars>> /\ SwapchainTypeOK'
  BY UnchangedTypes DEF CompositorStep, OnCompositor
<1>1. CASE Configure
  <2>1. PICK newSize \in Option(Sizes) : SendConfigure(newSize)
    BY <1>1 DEF Configure
  <2>2. /\ [type |-> "toplevel", size |-> newSize] \in Event
        /\ [type |-> "configure", serial |-> sent + 1] \in Event
    BY DEF Event, ToplevelEvent, ConfigureEvent, CompositorTypeOK
  <2>3. inbox' \in Seq(Event) /\ sent' \in Nat
    BY <2>1, <2>2 DEF SendConfigure, SurfaceTypeOK, CompositorTypeOK
  <2>4. SurfaceTypeOK' /\ CompositorTypeOK'
    BY <2>1, <2>3 DEF SendConfigure, SurfaceTypeOK, surfaceFields,
       CompositorTypeOK
  <2> QED
    BY <1>0, <2>1, <2>4, UnchangedTypes DEF SendConfigure
<1>2. CASE SendClose
  <2>1. [type |-> "close"] \in Event
    BY DEF Event, CloseEvent
  <2>2. inbox' \in Seq(Event)
    BY <1>2, <2>1 DEF SendClose, SurfaceTypeOK
  <2>3. SurfaceTypeOK' /\ CompositorTypeOK'
    BY <1>2, <2>2 DEF SendClose, SurfaceTypeOK, surfaceFields,
       CompositorTypeOK
  <2> QED
    BY <1>0, <1>2, <2>3, UnchangedTypes DEF SendClose
<1>3. CASE ReadRequest
  <2>1. PICK type : NextRequest(type)
    BY <1>3 DEF ReadRequest, TakeInitialCommit, TakeAck, AnswerCreated,
                AnswerFailed, TakeCommit
  <2>2. /\ Head(wire) \in Request
        /\ wire' \in Seq(Request)
    BY <2>1, ElementsHeadTail DEF NextRequest, CompositorTypeOK
  <2>3. CASE TakeInitialCommit
    <3>1. CompositorTypeOK'
      BY <2>2, <2>3 DEF TakeInitialCommit, CompositorTypeOK
    <3> QED
      BY <1>0, <2>3, <3>1, UnchangedTypes DEF TakeInitialCommit
  <2>4. CASE TakeAck
    <3>1. CompositorTypeOK'
      BY <2>2, <2>4, RequestFields DEF TakeAck, NextRequest, CompositorTypeOK
    <3> QED
      BY <1>0, <2>4, <3>1, UnchangedTypes DEF TakeAck
  <2>5. CASE AnswerCreated
    <3>1. [type |-> "created", image |-> Head(wire).image,
           own |-> Head(wire).own] \in Event
      BY <2>2, <2>5, RequestFields DEF AnswerCreated, NextRequest,
         CreateRequest, Event, CreatedEvent
    <3>2. inbox' \in Seq(Event)
      BY <2>5, <3>1 DEF AnswerCreated, SurfaceTypeOK
    <3>3. SurfaceTypeOK' /\ CompositorTypeOK'
      BY <2>2, <2>5, <3>2 DEF AnswerCreated, SurfaceTypeOK, surfaceFields,
         CompositorTypeOK
    <3> QED
      BY <1>0, <2>5, <3>3, UnchangedTypes DEF AnswerCreated
  <2>6. CASE AnswerFailed
    <3>1. [type |-> "failed"] \in Event
      BY DEF Event, FailedEvent
    <3>2. inbox' \in Seq(Event)
      BY <2>6, <3>1 DEF AnswerFailed, SurfaceTypeOK
    <3>3. SurfaceTypeOK' /\ CompositorTypeOK'
      BY <2>2, <2>6, <3>2 DEF AnswerFailed, SurfaceTypeOK, surfaceFields,
         CompositorTypeOK
    <3> QED
      BY <1>0, <2>6, <3>3, UnchangedTypes DEF AnswerFailed
  <2>7. CASE TakeCommit
    <3>1. Head(wire) \in Commit
      BY <2>2, <2>7, RequestFields DEF TakeCommit, NextRequest
    <3>2. CompositorTypeOK'
      BY <2>2, <2>7, <3>1 DEF TakeCommit, CompositorTypeOK
    <3> QED
      BY <1>0, <2>7, <3>2, UnchangedTypes DEF TakeCommit
  <2> QED
    BY <1>3, <2>3, <2>4, <2>5, <2>6, <2>7 DEF ReadRequest
<1>4. CASE Latch
  <2>1. /\ Head(cq) \in Commit
        /\ cq' \in Seq(Commit)
    BY <1>4, ElementsHeadTail DEF Latch, CompositorTypeOK
  <2>2. CompositorTypeOK'
    BY <1>4, <2>1 DEF Latch, CompositorTypeOK, Option
  <2> QED
    BY <1>0, <1>4, <2>2, UnchangedTypes DEF Latch
<1>5. CASE ReleaseBuffer
  <2>1. PICK c \in Reading : Materialise(c) \/ Drain(c)
    BY <1>5 DEF ReleaseBuffer
  <2>2. CASE Materialise(c)
    <3>1. c \in Commit
      BY <2>2 DEF Materialise, CompositorTypeOK
    <3>2. CompositorTypeOK'
      BY <2>2, <3>1 DEF Materialise, CompositorTypeOK
    <3>3. TimelineTypeOK'
      BY <2>2, <3>1 DEF Materialise, SignalRelease, AddPoint, TimelineTypeOK,
         Commit
    <3> QED
      BY <1>0, <2>2, <3>2, <3>3, UnchangedTypes DEF Materialise
  <2>3. CASE Drain(c)
    <3>1. CompositorTypeOK'
      BY <2>3 DEF Drain, CompositorTypeOK
    <3> QED
      BY <1>0, <2>3, <3>1, UnchangedTypes DEF Drain
  <2> QED
    BY <2>1, <2>2, <2>3
<1> QED
  BY <1>1, <1>2, <1>3, <1>4, <1>5 DEF CompositorStep, OnCompositor

(***************************************************************************)
(* Every step keeps every variable typed.                                  *)
(***************************************************************************)
LEMMA TypeStep ==
    ASSUME TypeOK, FrameInProgress, [Next]_vars
    PROVE  TypeOK'
<1>1. CASE ClientStep \/ ConnectionLost
  BY <1>1, DispatchType, RenderType DEF ClientStep
<1>2. CASE GpuStep
  <2>1. gpu' \in Seq(Job)
    BY <1>2, ElementsHeadTail DEF GpuStep, GpuCompletes, TypeOK, RendererTypeOK
  <2>2. RendererTypeOK'
    BY <1>2, <2>1 DEF GpuStep, GpuCompletes, TypeOK, RendererTypeOK
  <2> QED
    BY <1>2, <2>2, UnchangedTypes DEF GpuStep, TypeOK
<1>3. CASE CompositorStep
  BY <1>3, CompositorType
<1>4. CASE Terminated \/ UNCHANGED vars
  BY <1>4, UnchangedTypes DEF Terminated, vars, TypeOK
<1> QED
  BY <1>1, <1>2, <1>3, <1>4 DEF Next

-----------------------------------------------------------------------------
(* The renderer.                                                           *)

(***************************************************************************)
(* Outside the frame closure the renderer's facts carry over, the GPU's    *)
(* progress included.                                                      *)
(***************************************************************************)
LEMMA FrameStepElsewhere ==
    ASSUME TypeOK, FrameInProgress, GpuWritesLiveImages,
           [Next]_vars, ~RenderFrame
    PROVE  FrameInProgress' /\ GpuWritesLiveImages'
<1>1. CASE Dispatch \/ ConnectionLost
  <2>1. UNCHANGED <<current_idx, rendererVars>>
    BY <1>1 DEF Dispatch, EnterDispatch, LeaveLoop, HandleEvent,
                DispatchReturns, StartFrame, ConnectionLost, swapchainVars
  <2>2. \/ pc' \in {"loop", "dispatch", "handling", "exited"}
        \/ pc' = "acquire" /\ target' # None
    BY <1>1 DEF Dispatch, EnterDispatch, LeaveLoop, HandleEvent,
                DispatchReturns, StartFrame, ConnectionLost
  <2> QED
    BY <2>1, <2>2 DEF FrameInProgress, GpuWritesLiveImages, rendererVars
<1>2. CASE GpuStep
  <2>1. UNCHANGED <<pc, target, current_idx, extent, buffers, frame>>
    BY <1>2 DEF GpuStep, GpuCompletes, swapchainVars
  <2>2. \A i \in DOMAIN gpu' : \E j \in DOMAIN gpu : gpu'[i] = gpu[j]
    <3>1. gpu \in Seq(Job) /\ gpu # <<>> /\ gpu' = Tail(gpu)
      BY <1>2 DEF GpuStep, GpuCompletes, TypeOK, RendererTypeOK
    <3>2. \A i \in 1..(Len(gpu) - 1) :
             gpu'[i] = gpu[i + 1] /\ i + 1 \in 1..Len(gpu)
      BY <3>1
    <3> QED
      BY <3>1, <3>2
  <2> QED
    BY <2>1, <2>2 DEF FrameInProgress, GpuWritesLiveImages
<1>3. CASE CompositorStep \/ Terminated \/ UNCHANGED vars
  <2>1. UNCHANGED <<pc, target, current_idx>>
    BY <1>3 DEF CompositorStep, OnCompositor, Terminated, vars, swapchainVars
  <2>2. UNCHANGED rendererVars
    BY <1>3 DEF CompositorStep, OnCompositor, Configure, SendConfigure,
                SendClose, ReadRequest, TakeInitialCommit, TakeAck,
                AnswerCreated, AnswerFailed, TakeCommit, Latch, ReleaseBuffer,
                Materialise, Drain, Terminated, vars
  <2> QED
    BY <2>1, <2>2 DEF FrameInProgress, GpuWritesLiveImages, rendererVars
<1> QED
  BY <1>1, <1>2, <1>3 DEF Next, ClientStep

(***************************************************************************)
(* A recording, submitted or not, leaves submissions that write images     *)
(* still held by a slot.                                                   *)
(***************************************************************************)
LEMMA RecordingLive ==
    ASSUME TypeOK, GpuWritesLiveImages, NEW slot \in Slot,
           buffers[slot] # None,
           UNCHANGED buffers,
           NEW g \in Rerecorded(buffers[slot]),
           \/ gpu' = g
           \/ gpu' = Append(g, [image |-> buffers[slot], point |-> counter])
    PROVE  GpuWritesLiveImages'
<1>1. buffers[slot] \in Image
  BY DEF TypeOK, RendererTypeOK, Option
<1>2. /\ g \in Seq(Job)
      /\ DOMAIN g = DOMAIN gpu
      /\ \A i \in DOMAIN gpu : g[i].image \in {buffers[slot], gpu[i].image}
  BY <1>1, RerecordedJobs DEF TypeOK
<1>3. \A i \in DOMAIN g : \E s \in Slot : buffers[s] = g[i].image
  BY <1>2 DEF GpuWritesLiveImages
<1>4. CASE gpu' = g
  BY <1>3, <1>4 DEF GpuWritesLiveImages
<1>5. CASE gpu' = Append(g, [image |-> buffers[slot], point |-> counter])
  <2>1. /\ DOMAIN gpu' = 1..(Len(g) + 1) /\ DOMAIN g = 1..Len(g)
        /\ Len(g) \in Nat
        /\ \A i \in 1..Len(g) : gpu'[i] = g[i]
        /\ gpu'[Len(g) + 1] = [image |-> buffers[slot], point |-> counter]
    BY <1>2, <1>5
  <2>2. \A i \in DOMAIN gpu' : i \in 1..Len(g) \/ i = Len(g) + 1
    BY <2>1
  <2> QED
    BY <1>3, <2>1, <2>2 DEF GpuWritesLiveImages
<1> QED
  BY <1>4, <1>5

(***************************************************************************)
(* The steps of the frame closure: device_wait_idle comes before the       *)
(* images are dropped, buffers are made at the size of the frame, and      *)
(* nothing is recorded without one.                                        *)
(***************************************************************************)
LEMMA FrameStepRender ==
    ASSUME TypeOK, FrameInProgress, GpuWritesLiveImages, RenderFrame
    PROVE  FrameInProgress' /\ GpuWritesLiveImages'
<1> USE DEF GoTo
<1>1. CASE AcquireSlot \/ LoseFrameToTimeout
  <2>1. UNCHANGED rendererVars /\ UNCHANGED target /\ target # None
    BY <1>1 DEF AcquireSlot, LoseFrameToTimeout, FrameInProgress
  <2>2. pc' \in {"draw", "loop"}
    BY <1>1 DEF AcquireSlot, LoseFrameToTimeout
  <2> QED
    BY <2>1, <2>2 DEF FrameInProgress, GpuWritesLiveImages, rendererVars
<1>2. CASE ResizeImages
  <2>1. gpu' = <<>> /\ GpuWritesLiveImages'
    BY <1>2 DEF ResizeImages, Resize, GpuWritesLiveImages
  <2> QED
    BY <1>2, <2>1 DEF ResizeImages, Resize, NoBuffers, FrameInProgress
<1>3. CASE \/ KeepImages \/ WaitIdleFails \/ BufferFails
           \/ ExportFails \/ ExportPanics \/ BridgeFails
  <2>1. UNCHANGED <<rendererVars, target, current_idx>>
    BY <1>3 DEF KeepImages, WaitIdleFails, BufferFails, CreateBufferFails,
                ExportFails, ExportPanics, BridgeFails, swapchainVars
  <2>2. \/ pc' \in {"loop", "panicked"}
        \/ pc' = "buffer" /\ extent = target /\ target # None
    BY <1>3 DEF KeepImages, WaitIdleFails, BufferFails, ExportFails,
                ExportPanics, BridgeFails, FrameInProgress
  <2>3. FrameInProgress'
    BY <2>1, <2>2 DEF FrameInProgress, rendererVars
  <2> QED
    BY <2>1, <2>3 DEF GpuWritesLiveImages, rendererVars
<1>4. CASE PrepareBuffer
  <2>1. CASE CreateBuffer(current_idx, target)
    <3>1. \A s \in Slot : s # current_idx => buffers'[s] = buffers[s]
      BY <2>1 DEF CreateBuffer, TypeOK, RendererTypeOK
    <3>2. buffers'[current_idx] = [id |-> made + 1, size |-> target]
      BY <2>1 DEF CreateBuffer, TypeOK, RendererTypeOK, SwapchainTypeOK
    <3>3. [id |-> made + 1, size |-> target] \in Image
      BY <1>4 DEF PrepareBuffer, FrameInProgress, TypeOK, RendererTypeOK,
                  Image, Option
    <3>4. FrameInProgress'
      BY <1>4, <2>1, <3>1, <3>2, <3>3, NoneAssumption DEF PrepareBuffer,
         CreateBuffer, FrameInProgress, swapchainVars
    <3>5. \A i \in DOMAIN gpu : gpu[i].image # None
      <4>1. \A i \in DOMAIN gpu : gpu[i] \in Job
        BY DEF TypeOK, RendererTypeOK
      <4> QED
        BY <4>1, NoneAssumption DEF Job
    <3>6. \A i \in DOMAIN gpu : \E s \in Slot : buffers'[s] = gpu[i].image
      <4> TAKE i \in DOMAIN gpu
      <4>1. PICK s \in Slot : buffers[s] = gpu[i].image
        BY DEF GpuWritesLiveImages
      <4>2. s # current_idx
        BY <2>1, <3>5, <4>1 DEF CreateBuffer
      <4> QED
        BY <3>1, <4>1, <4>2
    <3>7. GpuWritesLiveImages'
      BY <2>1, <3>6 DEF CreateBuffer, GpuWritesLiveImages
    <3> QED
      BY <3>4, <3>7
  <2>2. CASE ReuseBuffer(current_idx, target)
    BY <1>4, <2>2 DEF PrepareBuffer, ReuseBuffer, FrameInProgress,
       GpuWritesLiveImages, rendererVars, swapchainVars
  <2> QED
    BY <1>4, <2>1, <2>2 DEF PrepareBuffer
<1>5. CASE RecordAndSubmit
  <2>1. UNCHANGED <<extent, buffers, frame, target, current_idx>>
    BY <1>5 DEF RecordAndSubmit, Submit, swapchainVars
  <2>2. FrameInProgress'
    BY <1>5, <2>1 DEF RecordAndSubmit, FrameInProgress
  <2>3. GpuWritesLiveImages'
    <3>1. PICK g \in Rerecorded(buffers[current_idx]) :
             gpu' = Append(g, [image |-> buffers[current_idx],
                               point |-> counter])
      BY <1>5 DEF RecordAndSubmit, Submit
    <3> QED
      BY <1>5, <2>1, <3>1, RecordingLive DEF RecordAndSubmit, Submit, TypeOK,
         SwapchainTypeOK
  <2> QED
    BY <2>2, <2>3
<1>6. CASE RecordFails
  <2>1. UNCHANGED <<extent, buffers, frame, target, current_idx>>
    BY <1>6 DEF RecordFails, SubmitFails, swapchainVars
  <2>2. FrameInProgress'
    BY <1>6, <2>1 DEF RecordFails, FrameInProgress
  <2>3. GpuWritesLiveImages'
    BY <1>6, <2>1, RecordingLive DEF RecordFails, SubmitFails, TypeOK,
       SwapchainTypeOK
  <2> QED
    BY <2>2, <2>3
<1>7. CASE PresentFrame
  BY <1>7 DEF PresentFrame, FrameInProgress, GpuWritesLiveImages, rendererVars
<1> QED
  BY <1>1, <1>2, <1>3, <1>4, <1>5, <1>6, <1>7 DEF RenderFrame

-----------------------------------------------------------------------------
(* What holds initially.                                                   *)

(***************************************************************************)
(* The state init_window leaves satisfies the invariant.                   *)
(***************************************************************************)
LEMMA InitInvariant == Init => IInv
<1> SUFFICES ASSUME Init PROVE IInv
  OBVIOUS
<1> USE DEF Init, TimelineInit, SwapchainInit, RendererInit, SurfaceInit,
            CompositorInit
<1>1. TypeOK
  <2>1. [type |-> "initial"] \in Request
    BY DEF Request, InitialRequest
  <2>2. TimelineTypeOK /\ SwapchainTypeOK /\ RendererTypeOK
    BY DEF TimelineTypeOK, SwapchainTypeOK, RendererTypeOK, Slot, Option,
           NoBuffers
  <2>3. SurfaceTypeOK
    BY <2>1, SizesAssumption DEF SurfaceTypeOK, Option
  <2>4. <<>> \in Seq(Request) /\ <<>> \in Seq(Commit)
    OBVIOUS
  <2>5. CompositorTypeOK
    BY <2>4 DEF CompositorTypeOK, Option
  <2> QED
    BY <2>2, <2>3, <2>5 DEF TypeOK, Stages, Option
<1>2. FrameInProgress /\ SlotPoints
  BY DEF FrameInProgress, SlotPoints, NoBuffers, Slot
<1>3. Reading = {} /\ Elements(gpu) = {} /\ Elements(wire) = {}
         /\ Elements(inbox) = {} /\ Elements(cq) = {}
         /\ Elements(sendbuf) = {[type |-> "initial"]}
  BY DEF Reading, Elements
<1>4. GpuWritesLiveImages /\ ReadsOnlyFinishedFrames
  BY <1>3 DEF GpuWritesLiveImages, ReadsOnlyFinishedFrames
<1>5. Requested = {} /\ Commits = {}
  BY <1>3 DEF Requested, Commits, Queued, Arrived
<1>6. PointsHandedOut
  BY <1>5 DEF PointsHandedOut
<1> QED
  BY <1>1, <1>2, <1>4, <1>6 DEF IInv

-----------------------------------------------------------------------------
(* The timeline points.                                                    *)

(***************************************************************************)
(* The requests, events and commits in flight are typed.                   *)
(***************************************************************************)
LEMMA InFlightTyped ==
    ASSUME TypeOK
    PROVE  /\ Elements(sendbuf) \cup Elements(wire) \subseteq Request
           /\ Elements(inbox) \subseteq Event
           /\ Elements(cq) \subseteq Commit
           /\ Reading \subseteq Commit
           /\ Commits \subseteq Commit
           /\ \A r \in Requested : r.own \in Nat
<1>1. Elements(sendbuf) \subseteq Request /\ Elements(wire) \subseteq Request
  BY DEF TypeOK, SurfaceTypeOK, CompositorTypeOK, Elements
<1>2. Elements(inbox) \subseteq Event
  BY DEF TypeOK, SurfaceTypeOK, Elements
<1>3. Elements(cq) \subseteq Commit
  BY DEF TypeOK, CompositorTypeOK, Elements
<1>4. Reading \subseteq Commit
  BY DEF TypeOK, CompositorTypeOK, Option, Reading
<1>5. Queued("commit") \subseteq Commit
  BY <1>1, RequestFields DEF Queued
<1>6. \A r \in Queued("create") : r.own \in Nat
  BY <1>1, RequestFields DEF Queued, CreateRequest
<1>7. \A r \in Arrived("created") : r.own \in Nat
  BY <1>2, EventFields DEF Arrived
<1> QED
  BY <1>1, <1>2, <1>3, <1>4, <1>5, <1>6, <1>7 DEF Commits, Requested

(***************************************************************************)
(* The points stay sound when the timeline and the counter only grow, no   *)
(* commit and no buffer is added, and the pending points stay or go.       *)
(***************************************************************************)
LEMMA PointsCarryOver ==
    ASSUME TypeOK, TypeOK', PointsHandedOut,
           counter <= counter', head <= head', head' < counter',
           Commits' \subseteq Commits,
           \A r \in Requested' : \E q \in Requested : r.own = q.own,
           \/ pending_acquire' = None
           \/ UNCHANGED <<pending_acquire, pending_release>>
    PROVE  PointsHandedOut'
<1>1. /\ counter \in Nat /\ counter' \in Nat
      /\ head \in Nat /\ head' \in Nat
      /\ pending_acquire \in Option(Nat)
  BY DEF TypeOK, TimelineTypeOK, SurfaceTypeOK
<1>2. \A c \in Commits' : CommitSound(c)'
  <2> TAKE c \in Commits'
  <2>1. c \in Commit /\ CommitSound(c)
    BY InFlightTyped DEF PointsHandedOut
  <2> QED
    BY <1>1, <2>1 DEF CommitSound, Commit
<1>3. \A r \in Requested' :
         /\ r.own < counter'
         /\ pending_acquire' # None => r.own <= pending_acquire'
  <2> TAKE r \in Requested'
  <2>1. PICK q \in Requested : r.own = q.own
    OBVIOUS
  <2>2. /\ r.own \in Nat /\ r.own < counter
        /\ pending_acquire # None => r.own <= pending_acquire
    BY <2>1, InFlightTyped DEF PointsHandedOut
  <2> QED
    BY <1>1, <2>2
<1>4. pending_acquire' # None =>
         /\ pending_release' = pending_acquire' + 1
         /\ pending_acquire' <= head'
         /\ pending_acquire' + 1 < counter'
  BY <1>1 DEF PointsHandedOut, Option
<1> QED
  BY <1>2, <1>3, <1>4 DEF PointsHandedOut

(***************************************************************************)
(* A flush changes neither the commits nor the buffers in flight.          *)
(***************************************************************************)
LEMMA FlushKeepsAll ==
    ASSUME TypeOK, EnterDispatch
    PROVE  Commits' = Commits /\ Requested' = Requested
<1>1. Elements(sendbuf') \cup Elements(wire')
         = Elements(sendbuf) \cup Elements(wire)
  <2>1. Elements(wire \o sendbuf) = Elements(wire) \cup Elements(sendbuf)
    BY ElementsConcat DEF TypeOK, SurfaceTypeOK, CompositorTypeOK
  <2>2. Elements(<<>>) = {}
    BY DEF Elements
  <2> QED
    BY <2>1, <2>2 DEF EnterDispatch
<1>2. UNCHANGED <<inbox, cq, current, retired, draining>>
  BY DEF EnterDispatch, compositorSide
<1>3. /\ Queued("commit")' = Queued("commit")
      /\ Queued("create")' = Queued("create")
  BY <1>1 DEF Queued
<1>4. /\ Elements(cq)' = Elements(cq) /\ Reading' = Reading
      /\ Arrived("created")' = Arrived("created")
  BY <1>2 DEF Elements, Reading, Arrived
<1> QED
  BY <1>3, <1>4 DEF Commits, Requested

(***************************************************************************)
(* What a handler adds to the send buffer: nothing, an ack, or a commit of *)
(* the buffer the event names with the pending points.                     *)
(***************************************************************************)
LEMMA HandlerSends ==
    ASSUME TypeOK, HandleEvent
    PROVE  /\ \/ Commits' \subseteq Commits
              \/ /\ pending_acquire # None
                 /\ \E e \in Requested : \E d \in Option(Sizes) :
                       Commits' \subseteq Commits \cup
                          {[type |-> "commit", image |-> e.image,
                            own |-> e.own, acquire |-> pending_acquire,
                            release |-> pending_release, damage |-> d]}
           /\ Requested' \subseteq Requested
           /\ \/ pending_acquire' = None
              \/ UNCHANGED <<pending_acquire, pending_release>>
<1> DEFINE e == Head(inbox)
<1>1. /\ e \in Elements(inbox) /\ e \in Event
      /\ Elements(inbox') \subseteq Elements(inbox)
  BY ElementsHeadTail DEF HandleEvent, TypeOK, SurfaceTypeOK
<1>2. UNCHANGED <<wire, cq, current, retired, draining>>
  BY DEF HandleEvent, compositorVars
<1>3. Elements(cq)' = Elements(cq) /\ Reading' = Reading
  BY <1>2 DEF Elements, Reading
<1>4. Arrived("created")' \subseteq Arrived("created")
  BY <1>1 DEF Arrived
<1>5. ASSUME NEW r \in Request, Send(r)
      PROVE  Elements(sendbuf') = Elements(sendbuf) \cup {r}
  BY <1>5, ElementsAppend DEF Send, TypeOK, SurfaceTypeOK
<1>6. CASE UNCHANGED sendbuf
  <2>1. /\ Queued("commit")' = Queued("commit")
        /\ Queued("create")' = Queued("create")
    BY <1>2, <1>6 DEF Queued, Elements
  <2>2. Commits' \subseteq Commits /\ Requested' \subseteq Requested
    BY <1>3, <1>4, <2>1 DEF Commits, Requested
  <2>3. \/ pending_acquire' = None
        \/ UNCHANGED <<pending_acquire, pending_release>>
    BY <1>6 DEF HandleEvent, OnEvent, OnToplevelConfigure, OnClose,
       OnConfigure, OnCreatedCommits, OnCreatedDrops, OnFailed
  <2> QED
    BY <2>2, <2>3
<1>7. CASE OnConfigure(e)
  <2>1. [type |-> "ack", serial |-> e.serial] \in Request
    BY <1>1, <1>7, EventFields DEF OnConfigure, Request, AckRequest
  <2>2. Elements(sendbuf')
           = Elements(sendbuf) \cup {[type |-> "ack", serial |-> e.serial]}
    BY <1>5, <1>7, <2>1 DEF OnConfigure
  <2>3. Elements(wire') = Elements(wire)
    BY <1>2
  <2>4. /\ Queued("commit")' = Queued("commit")
        /\ Queued("create")' = Queued("create")
    BY <2>2, <2>3 DEF Queued
  <2> QED
    BY <1>3, <1>4, <1>7, <2>4 DEF Commits, Requested, OnConfigure
<1>8. CASE OnCreatedCommits(e)
  <2> DEFINE c == [type |-> "commit", image |-> e.image, own |-> e.own,
                   acquire |-> pending_acquire, release |-> pending_release,
                   damage |-> create_size]
  <2>1. /\ e \in Requested
        /\ pending_acquire # None
        /\ create_size \in Option(Sizes)
        /\ pending_acquire' = None
    BY <1>1, <1>8 DEF OnCreatedCommits, Requested, Arrived, TypeOK,
       SurfaceTypeOK
  <2>2. c \in Request /\ c.type = "commit"
    BY <1>1, <1>8, EventFields DEF OnCreatedCommits, Request, Commit, TypeOK,
       SurfaceTypeOK, Option
  <2>3. Elements(sendbuf') = Elements(sendbuf) \cup {c}
    BY <1>5, <1>8, <2>2 DEF OnCreatedCommits, CommitBuffer
  <2>4. Elements(wire') = Elements(wire)
    BY <1>2
  <2>5. /\ Queued("commit")' \subseteq Queued("commit") \cup {c}
        /\ Queued("create")' = Queued("create")
    BY <2>2, <2>3, <2>4 DEF Queued
  <2>6. Commits' \subseteq Commits \cup {c} /\ Requested' \subseteq Requested
    BY <1>3, <1>4, <2>5 DEF Commits, Requested
  <2> QED
    BY <2>1, <2>6
<1>9. \/ UNCHANGED sendbuf \/ OnConfigure(e) \/ OnCreatedCommits(e)
  BY DEF HandleEvent, OnEvent, OnToplevelConfigure, OnClose, OnCreatedDrops,
         OnFailed
<1> QED
  BY <1>6, <1>7, <1>8, <1>9

(***************************************************************************)
(* The compositor moves commits along and turns requested buffers into     *)
(* events; it makes up neither.                                            *)
(***************************************************************************)
LEMMA CompositorMoves ==
    ASSUME TypeOK, CompositorStep
    PROVE  /\ Commits' \subseteq Commits
           /\ \A r \in Requested' : \E q \in Requested : r.own = q.own
<1>1. CASE Configure \/ SendClose
  <2>1. UNCHANGED <<sendbuf, wire, cq, current, retired, draining>>
    BY <1>1 DEF Configure, SendConfigure, SendClose
  <2>2. Commits' = Commits /\ Queued("create")' = Queued("create")
    BY <2>1 DEF Commits, Queued, Elements, Reading
  <2>3. Arrived("created")' \subseteq Arrived("created")
    <3>1. CASE Configure
      <4>1. PICK newSize \in Option(Sizes) : SendConfigure(newSize)
        BY <3>1 DEF Configure
      <4> DEFINE t == [type |-> "toplevel", size |-> newSize]
                 u == [type |-> "configure", serial |-> sent + 1]
      <4>2. t \in Event /\ u \in Event
        BY DEF Event, ToplevelEvent, ConfigureEvent, TypeOK, CompositorTypeOK
      <4>3. <<t, u>> \in Seq(Event) /\ inbox \in Seq(Event)
        BY <4>2 DEF TypeOK, SurfaceTypeOK
      <4>4. Elements(inbox') = Elements(inbox) \cup Elements(<<t, u>>)
        BY <4>1, <4>3, ElementsConcat DEF SendConfigure
      <4>5. Elements(<<t, u>>) = {t, u}
        BY DEF Elements
      <4> QED
        BY <4>4, <4>5 DEF Arrived
    <3>2. CASE SendClose
      <4>1. [type |-> "close"] \in Event /\ inbox \in Seq(Event)
        BY DEF Event, CloseEvent, TypeOK, SurfaceTypeOK
      <4>2. Elements(inbox') = Elements(inbox) \cup {[type |-> "close"]}
        BY <3>2, <4>1, ElementsAppend DEF SendClose
      <4> QED
        BY <4>2 DEF Arrived
    <3> QED BY <1>1, <3>1, <3>2
  <2> QED
    BY <2>2, <2>3 DEF Requested
<1>2. CASE ReadRequest
  <2> DEFINE r == Head(wire)
  <2>1. /\ UNCHANGED <<sendbuf, current, retired, draining>>
        /\ wire # <<>> /\ wire' = Tail(wire)
    BY <1>2 DEF ReadRequest, TakeInitialCommit, TakeAck, AnswerCreated,
                AnswerFailed, TakeCommit, NextRequest, surfaceVars
  <2>2. /\ r \in Elements(wire) /\ r \in Request
        /\ Elements(wire') \subseteq Elements(wire)
    BY <2>1, ElementsHeadTail DEF TypeOK, CompositorTypeOK
  <2>3. /\ Queued("commit")' \subseteq Queued("commit")
        /\ Queued("create")' \subseteq Queued("create")
        /\ Reading' = Reading
    BY <2>1, <2>2 DEF Queued, Reading
  <2>4. CASE UNCHANGED <<inbox, cq>>
    BY <2>3, <2>4 DEF Commits, Requested, Arrived, Elements
  <2>5. CASE AnswerCreated
    <3> DEFINE e == [type |-> "created", image |-> r.image, own |-> r.own]
    <3>1. r \in Requested /\ e \in Event
      BY <2>2, <2>5, RequestFields DEF AnswerCreated, NextRequest, Requested,
         Queued, CreateRequest, Event, CreatedEvent
    <3>2. Elements(inbox') = Elements(inbox) \cup {e} /\ cq' = cq
      BY <2>5, <3>1, ElementsAppend DEF AnswerCreated, TypeOK, SurfaceTypeOK
    <3>3. Requested' \subseteq Requested \cup {e} /\ e.own = r.own
      BY <2>3, <3>2 DEF Requested, Arrived
    <3>4. Commits' \subseteq Commits
      BY <2>3, <3>2 DEF Commits, Elements
    <3> QED
      BY <3>1, <3>3, <3>4
  <2>6. CASE AnswerFailed
    <3>1. [type |-> "failed"] \in Event
      BY DEF Event, FailedEvent
    <3>2. /\ Elements(inbox') = Elements(inbox) \cup {[type |-> "failed"]}
          /\ cq' = cq
      BY <2>6, <3>1, ElementsAppend DEF AnswerFailed, TypeOK, SurfaceTypeOK
    <3> QED
      BY <2>3, <3>2 DEF Commits, Requested, Arrived, Elements
  <2>7. CASE TakeCommit
    <3>1. r \in Queued("commit") /\ r \in Commit
      BY <2>2, <2>7, RequestFields DEF TakeCommit, NextRequest, Queued
    <3>2. Elements(cq') = Elements(cq) \cup {r} /\ inbox' = inbox
      BY <2>7, <3>1, ElementsAppend DEF TakeCommit, surfaceVars, TypeOK,
         CompositorTypeOK
    <3> QED
      BY <2>3, <3>1, <3>2 DEF Commits, Requested, Arrived, Elements
  <2> QED
    BY <1>2, <2>4, <2>5, <2>6, <2>7 DEF ReadRequest, TakeInitialCommit,
       TakeAck, surfaceVars
<1>3. CASE Latch
  <2>1. Head(cq) \in Elements(cq) /\ Elements(cq') \subseteq Elements(cq)
    BY <1>3, ElementsHeadTail DEF Latch, TypeOK, CompositorTypeOK
  <2>2. Reading' \subseteq Reading \cup {Head(cq)}
    BY <1>3 DEF Latch, Reading
  <2>3. UNCHANGED <<sendbuf, wire, inbox>>
    BY <1>3 DEF Latch, surfaceVars
  <2> QED
    BY <2>1, <2>2, <2>3 DEF Commits, Requested, Queued, Arrived
<1>4. CASE ReleaseBuffer
  <2>1. /\ UNCHANGED <<sendbuf, wire, inbox, cq, current>>
        /\ retired' \cup draining' \subseteq retired \cup draining
    BY <1>4 DEF ReleaseBuffer, Materialise, Drain, surfaceVars
  <2>2. Reading' \subseteq Reading
    BY <2>1 DEF Reading
  <2> QED
    BY <2>1, <2>2 DEF Commits, Requested, Queued, Arrived, Elements
<1> QED
  BY <1>1, <1>2, <1>3, <1>4 DEF CompositorStep, OnCompositor

(***************************************************************************)
(* The timeline and the counter only grow.  The compositor adds the        *)
(* release point of a commit, which lies below the counter.                *)
(***************************************************************************)
LEMMA TimelineGrows ==
    ASSUME TypeOK, PointsHandedOut, [Next]_vars
    PROVE  counter <= counter' /\ head <= head' /\ head' < counter'
<1>1. counter \in Nat /\ head \in Nat /\ head < counter
  BY DEF TypeOK, TimelineTypeOK, PointsHandedOut
<1>2. CASE PresentFrame
  BY <1>1, <1>2 DEF PresentFrame, ImportSyncFile, AddPoint
<1>3. CASE BridgeFails
  BY <1>1, <1>3 DEF BridgeFails, ImportFails
<1>4. CASE ReleaseBuffer
  <2>1. PICK c \in Reading : Materialise(c) \/ Drain(c)
    BY <1>4 DEF ReleaseBuffer
  <2>2. c.release \in Nat /\ c.release < counter
    BY <2>1, InFlightTyped DEF PointsHandedOut, CommitSound, Commits, Commit
  <2>3. CASE Materialise(c)
    BY <1>1, <2>2, <2>3 DEF Materialise, SignalRelease, AddPoint
  <2>4. CASE Drain(c)
    BY <1>1, <2>4 DEF Drain, timelineVars
  <2> QED
    BY <2>1, <2>3, <2>4
<1>5. CASE UNCHANGED timelineVars
  BY <1>1, <1>5 DEF timelineVars
<1>6. Next => \/ PresentFrame \/ BridgeFails \/ ReleaseBuffer
              \/ UNCHANGED timelineVars
  BY DEF Next, ClientStep, Dispatch, EnterDispatch, LeaveLoop, HandleEvent,
     DispatchReturns, StartFrame, RenderFrame, AcquireSlot, LoseFrameToTimeout,
     ResizeImages, KeepImages, WaitIdleFails, PrepareBuffer, BufferFails,
     RecordAndSubmit, RecordFails, ExportFails, ExportPanics, ConnectionLost,
     GpuStep, CompositorStep, OnCompositor, Configure, SendConfigure,
     SendClose, ReadRequest, TakeInitialCommit, TakeAck, AnswerCreated,
     AnswerFailed, TakeCommit, Latch, Terminated, vars
<1> QED
  BY <1>2, <1>3, <1>4, <1>5, <1>6 DEF vars

(***************************************************************************)
(* Presenting a frame asks for one more buffer, at the points the counter  *)
(* gave it.                                                                *)
(***************************************************************************)
LEMMA PresentMoves ==
    ASSUME TypeOK, TypeOK', PointsHandedOut, PresentFrame
    PROVE  PointsHandedOut'
<1> DEFINE r == [type |-> "create", image |-> buffers[current_idx],
                 own |-> counter]
<1>1. /\ counter \in Nat /\ head \in Nat /\ head < counter
      /\ counter' = counter + 2 /\ head' = counter
      /\ pending_acquire' = counter /\ pending_release' = counter + 1
  BY DEF PresentFrame, ImportSyncFile, AddPoint, CommitFrame, TypeOK,
         TimelineTypeOK, PointsHandedOut
<1>2. UNCHANGED <<wire, inbox, cq, current, retired, draining>>
  BY DEF PresentFrame, CommitFrame, compositorVars
<1>3. Elements(sendbuf') = Elements(sendbuf) \cup {r}
  <2>1. sendbuf' = Append(sendbuf, r) /\ sendbuf \in Seq(Request)
    BY DEF PresentFrame, CommitFrame, DrawnFrame, Send, TypeOK, SurfaceTypeOK
  <2>2. /\ sendbuf' \in Seq(Request)
        /\ sendbuf'[Len(sendbuf) + 1] = r
        /\ Len(sendbuf) + 1 \in DOMAIN sendbuf'
    BY <2>1 DEF TypeOK, SurfaceTypeOK
  <2>3. r \in Request
    BY <2>2
  <2> QED
    BY <2>1, <2>3, ElementsAppend
<1>4. Commits' \subseteq Commits /\ Requested' \subseteq Requested \cup {r}
  <2>1. Elements(wire') = Elements(wire)
    BY <1>2
  <2>2. /\ Queued("commit")' \subseteq Queued("commit")
        /\ Queued("create")' \subseteq Queued("create") \cup {r}
    BY <1>3, <2>1 DEF Queued
  <2>3. /\ Elements(cq)' = Elements(cq) /\ Reading' = Reading
        /\ Arrived("created")' = Arrived("created")
    BY <1>2 DEF Elements, Reading, Arrived
  <2> QED
    BY <2>2, <2>3 DEF Commits, Requested
<1>5. \A c \in Commits' : CommitSound(c)'
  <2> TAKE c \in Commits'
  <2>1. c \in Commit /\ CommitSound(c)
    BY <1>4, InFlightTyped DEF PointsHandedOut
  <2> QED
    BY <1>1, <2>1 DEF CommitSound, Commit
<1>6. \A q \in Requested' : q.own < counter' /\ q.own <= pending_acquire'
  <2> TAKE q \in Requested'
  <2>1. CASE q = r
    BY <1>1, <2>1
  <2>2. CASE q \in Requested
    <3>1. q.own \in Nat /\ q.own < counter
      BY <2>2, InFlightTyped DEF PointsHandedOut
    <3> QED
      BY <1>1, <3>1
  <2> QED
    BY <1>4, <2>1, <2>2
<1> QED
  BY <1>1, <1>5, <1>6 DEF PointsHandedOut

(***************************************************************************)
(* The Created handler commits whatever points are pending; they are no    *)
(* older than the buffer.                                                  *)
(***************************************************************************)
LEMMA HandlePoints ==
    ASSUME TypeOK, TypeOK', PointsHandedOut, HandleEvent
    PROVE  PointsHandedOut'
<1>1. UNCHANGED <<counter, head>>
  BY DEF HandleEvent, timelineVars
<1>2. counter \in Nat /\ head \in Nat /\ head < counter
  BY DEF TypeOK, TimelineTypeOK, PointsHandedOut
<1>3. /\ Requested' \subseteq Requested
      /\ \/ pending_acquire' = None
         \/ UNCHANGED <<pending_acquire, pending_release>>
  BY HandlerSends
<1>4. CASE Commits' \subseteq Commits
  BY <1>1, <1>2, <1>3, <1>4, PointsCarryOver
<1>5. CASE ~(Commits' \subseteq Commits)
  <2>1. PICK e \in Requested, d \in Option(Sizes) :
           /\ pending_acquire # None
           /\ Commits' \subseteq Commits \cup
                 {[type |-> "commit", image |-> e.image, own |-> e.own,
                   acquire |-> pending_acquire, release |-> pending_release,
                   damage |-> d]}
    BY <1>5, HandlerSends
  <2>2. /\ pending_release = pending_acquire + 1
        /\ pending_acquire <= head /\ pending_acquire + 1 < counter
        /\ e.own <= pending_acquire
    BY <2>1 DEF PointsHandedOut
  <2>3. \A c \in Commits' : CommitSound(c)'
    <3> TAKE c \in Commits'
    <3>1. CASE c \in Commits
      BY <1>1, <3>1 DEF PointsHandedOut, CommitSound
    <3>2. CASE c \notin Commits
      BY <1>1, <2>1, <2>2, <3>2 DEF CommitSound
    <3> QED
      BY <3>1, <3>2
  <2> QED
    BY <1>1, <1>2, <1>3, <2>3 DEF PointsHandedOut
<1> QED
  BY <1>4, <1>5

(***************************************************************************)
(* Every step keeps the points sound.                                      *)
(***************************************************************************)
LEMMA PointsStep ==
    ASSUME TypeOK, TypeOK', PointsHandedOut, [Next]_vars
    PROVE  PointsHandedOut'
<1>1. counter <= counter' /\ head <= head' /\ head' < counter'
  BY TimelineGrows
<1>2. CASE PresentFrame
  BY <1>2, PresentMoves
<1>3. CASE HandleEvent
  BY <1>3, HandlePoints
<1>4. CASE EnterDispatch
  <2>1. UNCHANGED <<pending_acquire, pending_release>>
    BY <1>4 DEF EnterDispatch, surfaceFields
  <2> QED
    BY <1>1, <1>4, <2>1, FlushKeepsAll, PointsCarryOver
<1>5. CASE CompositorStep
  <2>1. UNCHANGED <<pending_acquire, pending_release>>
    BY <1>5 DEF CompositorStep, OnCompositor, Configure, SendConfigure,
       SendClose, ReadRequest, TakeInitialCommit, TakeAck, AnswerCreated,
       AnswerFailed, TakeCommit, Latch, ReleaseBuffer, Materialise, Drain,
       surfaceVars, surfaceFields
  <2> QED
    BY <1>1, <1>5, <2>1, CompositorMoves, PointsCarryOver
<1>6. CASE /\ UNCHANGED <<pending_acquire, pending_release, inbox, sendbuf>>
           /\ UNCHANGED compositorVars
  <2>1. Commits' = Commits /\ Requested' = Requested
    BY <1>6 DEF Commits, Requested, Queued, Arrived, Reading, Elements,
       compositorVars
  <2> QED
    BY <1>1, <1>6, <2>1, PointsCarryOver
<1>7. \/ PresentFrame \/ HandleEvent \/ EnterDispatch \/ CompositorStep
      \/ /\ UNCHANGED <<pending_acquire, pending_release, inbox, sendbuf>>
         /\ UNCHANGED compositorVars
  BY DEF Next, ClientStep, Dispatch, LeaveLoop, DispatchReturns, StartFrame,
     RenderFrame, GoTo, AcquireSlot, LoseFrameToTimeout, ResizeImages,
     KeepImages, WaitIdleFails, PrepareBuffer, BufferFails, RecordAndSubmit,
     RecordFails, ExportFails, ExportPanics, BridgeFails, ConnectionLost,
     GpuStep, Terminated, vars, surfaceVars, surfaceFields
<1> QED
  BY <1>2, <1>3, <1>4, <1>5, <1>6, <1>7

(***************************************************************************)
(* A slot's release point changes only when a frame is presented, and then *)
(* lies above every point handed out before.                               *)
(***************************************************************************)
LEMMA SlotStep ==
    ASSUME TypeOK, TypeOK', PointsHandedOut, SlotPoints, [Next]_vars
    PROVE  SlotPoints'
<1>1. /\ counter \in Nat /\ head \in Nat /\ head < counter
      /\ release_points \in [Slot -> Option(Nat)]
      /\ presented \in [Slot -> BOOLEAN]
      /\ current_idx \in Slot
  BY DEF TypeOK, TimelineTypeOK, SwapchainTypeOK, PointsHandedOut
<1>2. CASE PresentFrame
  <2>1. counter' = counter + 2 /\ head' = counter
    BY <1>1, <1>2 DEF PresentFrame, ImportSyncFile, AddPoint
  <2>2. /\ release_points'
             = [release_points EXCEPT ![current_idx] = counter + 1]
        /\ presented' = [presented EXCEPT ![current_idx] = TRUE]
    BY <1>2 DEF PresentFrame, MarkPresented
  <2>3. ASSUME NEW s \in Slot, presented'[s]
        PROVE  /\ release_points'[s] # None
               /\ release_points'[s] < counter'
               /\ release_points'[s] <= head' + 1
    <3>1. CASE s = current_idx
      BY <1>1, <2>1, <2>2, <3>1, NoneAssumption
    <3>2. CASE s # current_idx
      <4>1. presented[s] /\ release_points'[s] = release_points[s]
        BY <1>1, <2>2, <2>3, <3>2
      <4>2. /\ release_points[s] \in Nat
            /\ release_points[s] < counter
        BY <1>1, <4>1 DEF SlotPoints, Option
      <4> QED
        BY <1>1, <2>1, <4>1, <4>2, NoneAssumption
    <3> QED BY <3>1, <3>2
  <2>4. presented'[0] /\ presented'[1] =>
           release_points'[0] # release_points'[1]
    <3> SUFFICES ASSUME presented'[0], presented'[1]
                 PROVE  release_points'[0] # release_points'[1]
      OBVIOUS
    <3>1. current_idx = 0 \/ current_idx = 1
      BY <1>1 DEF Slot
    <3>2. ASSUME NEW s \in Slot, s # current_idx, presented'[s]
          PROVE  release_points'[s] \in Nat /\ release_points'[s] < counter
      <4>1. presented[s] /\ release_points'[s] = release_points[s]
        BY <1>1, <2>2, <3>2
      <4> QED
        BY <1>1, <3>2, <4>1 DEF SlotPoints, Option
    <3>3. release_points'[current_idx] = counter + 1
      BY <1>1, <2>2
    <3>4. 0 \in Slot /\ 1 \in Slot
      BY DEF Slot
    <3>5. CASE current_idx = 0
      BY <1>1, <3>2, <3>3, <3>4, <3>5
    <3>6. CASE current_idx = 1
      BY <1>1, <3>2, <3>3, <3>4, <3>6
    <3> QED
      BY <3>1, <3>5, <3>6
  <2> QED
    BY <2>3, <2>4 DEF SlotPoints
<1>3. CASE UNCHANGED <<release_points, presented>>
  <2>1. /\ counter <= counter' /\ head <= head'
        /\ counter' \in Int /\ head' \in Int
    <3>1. counter' \in Nat /\ head' \in Nat
      BY DEF TypeOK, TimelineTypeOK
    <3> QED
      BY <3>1, TimelineGrows
  <2> QED
    BY <1>1, <1>3, <2>1 DEF SlotPoints, Option
<1>4. PresentFrame \/ UNCHANGED <<release_points, presented>>
  BY DEF Next, ClientStep, Dispatch, EnterDispatch, LeaveLoop, HandleEvent,
     DispatchReturns, StartFrame, RenderFrame, AcquireSlot, LoseFrameToTimeout,
     Acquire, AcquireTimesOut, Rotate, ResizeImages, KeepImages,
     WaitIdleFails, PrepareBuffer, BufferFails, RecordAndSubmit, RecordFails,
     ExportFails, ExportPanics, BridgeFails, ConnectionLost, GpuStep,
     CompositorStep, OnCompositor, Terminated, vars, swapchainVars
<1> QED
  BY <1>2, <1>3, <1>4

(***************************************************************************)
(* Of two blocked slots both would wait for the point right above the      *)
(* timeline.                                                               *)
(***************************************************************************)
LEMMA SlotPointsSuffice ==
    ASSUME TypeOK, SlotPoints
    PROVE  SomeSlotAvailable
<1>1. ASSUME NEW s \in Slot, Blocked(s)
      PROVE  release_points[s] = head + 1 /\ presented[s]
  <2>1. /\ presented[s] /\ release_points[s] \in Nat /\ head \in Nat
        /\ ~(head >= release_points[s])
        /\ release_points[s] <= head + 1
    BY <1>1 DEF Blocked, Available, SlotPoints, TypeOK, TimelineTypeOK,
       SwapchainTypeOK, Option
  <2> QED
    BY <2>1
<1>2. 0 \in Slot /\ 1 \in Slot
  BY DEF Slot
<1>3. ~(Blocked(0) /\ Blocked(1))
  BY <1>1, <1>2 DEF SlotPoints
<1> QED
  BY <1>2, <1>3 DEF SomeSlotAvailable

-----------------------------------------------------------------------------
(* What the compositor reads.                                              *)

(***************************************************************************)
(* Every step keeps the compositor off images that are still being drawn:  *)
(* it latches a commit only when all submissions up to the acquire point   *)
(* are complete, and a new submission carries a point no commit has yet.   *)
(***************************************************************************)
LEMMA ReadsStep ==
    ASSUME TypeOK, PointsHandedOut, ReadsOnlyFinishedFrames, [Next]_vars
    PROVE  ReadsOnlyFinishedFrames'
<1>1. /\ gpu \in Seq(Job) /\ counter \in Nat
      /\ \A i \in DOMAIN gpu : gpu[i].point \in Nat
  <2>1. gpu \in Seq(Job) /\ counter \in Nat
    BY DEF TypeOK, RendererTypeOK, TimelineTypeOK
  <2>2. \A i \in DOMAIN gpu : gpu[i] \in Job
    BY <2>1
  <2> QED
    BY <2>1, <2>2 DEF Job
<1>2. \A c \in Commits : /\ c.own \in Nat /\ c.acquire \in Nat
                         /\ c.own <= c.acquire /\ c.own < counter
  <2> TAKE c \in Commits
  <2>1. c \in Commit /\ CommitSound(c)
    BY InFlightTyped DEF PointsHandedOut
  <2> QED
    BY <1>1, <2>1 DEF CommitSound, Commit
<1>3. CASE Latch
  <2>1. /\ Head(cq) \in Commits /\ UNCHANGED gpu
        /\ Reading' \subseteq Reading \cup {Head(cq)}
    BY <1>3, ElementsHeadTail DEF Latch, Commits, Reading, rendererVars,
       TypeOK, CompositorTypeOK
  <2>2. \A i \in DOMAIN gpu : gpu[i].point > Head(cq).acquire
    BY <1>3 DEF Latch, Signalled
  <2>3. \A i \in DOMAIN gpu : gpu[i].point > Head(cq).own
    BY <1>1, <1>2, <2>1, <2>2
  <2> QED
    BY <2>1, <2>3 DEF ReadsOnlyFinishedFrames
<1>4. ASSUME Reading' = Reading, NEW slot \in Slot, buffers[slot] # None,
             NEW g \in Rerecorded(buffers[slot]),
             \/ gpu' = g
             \/ gpu' = Append(g, [image |-> buffers[slot], point |-> counter])
      PROVE  ReadsOnlyFinishedFrames'
  <2>1. buffers[slot] \in Image
    BY <1>4 DEF TypeOK, RendererTypeOK, Option
  <2>2. /\ g \in Seq(Job) /\ DOMAIN g = DOMAIN gpu
        /\ \A i \in DOMAIN g : g[i].point = gpu[i].point
    BY <1>4, <2>1, RerecordedJobs DEF TypeOK
  <2>3. \A c \in Reading : \A i \in DOMAIN g : g[i].point > c.own
    BY <2>2 DEF ReadsOnlyFinishedFrames
  <2>4. CASE gpu' = g
    BY <1>4, <2>3, <2>4 DEF ReadsOnlyFinishedFrames
  <2>5. CASE gpu' = Append(g, [image |-> buffers[slot], point |-> counter])
    <3>1. /\ DOMAIN gpu' = 1..(Len(g) + 1) /\ DOMAIN g = 1..Len(g)
          /\ Len(g) \in Nat
          /\ \A i \in 1..Len(g) : gpu'[i] = g[i]
          /\ gpu'[Len(g) + 1] = [image |-> buffers[slot], point |-> counter]
      BY <2>2, <2>5
    <3>2. \A i \in DOMAIN gpu' : i \in 1..Len(g) \/ i = Len(g) + 1
      BY <3>1
    <3>3. \A c \in Reading : counter > c.own
      BY <1>1, <1>2 DEF Commits
    <3> QED
      BY <1>4, <2>3, <3>1, <3>2, <3>3 DEF ReadsOnlyFinishedFrames
  <2> QED
    BY <1>4, <2>4, <2>5
<1>5. CASE RecordAndSubmit \/ RecordFails
  <2>1. /\ Reading' = Reading /\ current_idx \in Slot
        /\ buffers[current_idx] # None
    BY <1>5 DEF RecordAndSubmit, RecordFails, Submit, SubmitFails, GoTo,
       compositorVars, Reading, TypeOK, SwapchainTypeOK
  <2>2. \E g \in Rerecorded(buffers[current_idx]) :
           \/ gpu' = g
           \/ gpu' = Append(g, [image |-> buffers[current_idx],
                                point |-> counter])
    BY <1>5 DEF RecordAndSubmit, RecordFails, Submit, SubmitFails
  <2> QED
    BY <1>4, <2>1, <2>2
<1>6. CASE GpuStep
  <2>1. /\ Reading' = Reading
        /\ gpu # <<>> /\ gpu' = Tail(gpu)
    BY <1>6 DEF GpuStep, GpuCompletes, compositorVars, Reading
  <2>2. /\ DOMAIN gpu' = 1..(Len(gpu) - 1) /\ DOMAIN gpu = 1..Len(gpu)
        /\ \A i \in 1..(Len(gpu) - 1) :
              gpu'[i] = gpu[i + 1] /\ i + 1 \in 1..Len(gpu)
    BY <1>1, <2>1
  <2> QED
    BY <2>1, <2>2 DEF ReadsOnlyFinishedFrames
<1>7. CASE Reading' \subseteq Reading /\ UNCHANGED gpu
  BY <1>7 DEF ReadsOnlyFinishedFrames
<1>8. CASE ReleaseBuffer /\ CompositorStep
  BY <1>7, <1>8 DEF ReleaseBuffer, Materialise, Drain, Reading, rendererVars
<1>9. CASE ClientStep \/ ConnectionLost \/ Terminated \/ UNCHANGED vars
  <2>1. UNCHANGED <<current, retired, draining>>
    BY <1>9 DEF ClientStep, Dispatch, EnterDispatch, LeaveLoop, HandleEvent,
       DispatchReturns, StartFrame, RenderFrame, GoTo, AcquireSlot,
       LoseFrameToTimeout, ResizeImages, KeepImages, WaitIdleFails,
       PrepareBuffer, BufferFails, RecordAndSubmit, RecordFails, ExportFails,
       ExportPanics, BridgeFails, PresentFrame, ConnectionLost, Terminated,
       vars, compositorVars, compositorSide
  <2>2. RecordAndSubmit \/ RecordFails \/ UNCHANGED gpu
    BY <1>9 DEF ClientStep, Dispatch, EnterDispatch, LeaveLoop, HandleEvent,
       DispatchReturns, StartFrame, RenderFrame, AcquireSlot,
       LoseFrameToTimeout, ResizeImages, Resize, KeepImages, WaitIdleFails,
       PrepareBuffer, CreateBuffer, ReuseBuffer, BufferFails,
       CreateBufferFails, ExportFails, ExportPanics, BridgeFails,
       PresentFrame, ConnectionLost, Terminated, vars, rendererVars
  <2> QED
    BY <1>5, <1>7, <2>1, <2>2 DEF Reading
<1>10. CASE CompositorStep /\ (Configure \/ SendClose \/ ReadRequest)
  <2>1. UNCHANGED <<gpu, current, retired, draining>>
    BY <1>10 DEF Configure, SendConfigure, SendClose, ReadRequest,
       TakeInitialCommit, TakeAck, AnswerCreated, AnswerFailed, TakeCommit,
       rendererVars
  <2> QED
    BY <1>7, <2>1 DEF Reading
<1> QED
  BY <1>3, <1>6, <1>8, <1>9, <1>10 DEF Next, CompositorStep, OnCompositor

-----------------------------------------------------------------------------
(* The theorems.                                                           *)

(***************************************************************************)
(* The invariant is inductive: every reachable state of the frame loop     *)
(* satisfies it.                                                           *)
(***************************************************************************)
THEOREM Invariance == Spec => []IInv
<1>1. Init => IInv
  BY InitInvariant
<1>2. IInv /\ [Next]_vars => IInv'
  <2> SUFFICES ASSUME IInv, [Next]_vars PROVE IInv'
    OBVIOUS
  <2> USE DEF IInv
  <2>1. TypeOK'
    BY TypeStep
  <2>2. FrameInProgress' /\ GpuWritesLiveImages'
    BY FrameStepElsewhere, FrameStepRender
  <2>3. PointsHandedOut'
    BY <2>1, PointsStep
  <2>4. SlotPoints'
    BY <2>1, SlotStep
  <2>5. ReadsOnlyFinishedFrames'
    BY ReadsStep
  <2> QED
    BY <2>1, <2>2, <2>3, <2>4, <2>5
<1> QED
  BY <1>1, <1>2, PTL DEF Spec

(***************************************************************************)
(* Every field of the program, the kernel's timeline and the queues keep   *)
(* their types; in particular a frame is never drawn at a zero size.       *)
(***************************************************************************)
THEOREM TypeCorrect == Spec => []TypeOK
<1>1. IInv => TypeOK
  BY DEF IInv
<1> QED
  BY <1>1, Invariance, PTL

(***************************************************************************)
(* A commit's acquire fence is on the timeline, its release point is the   *)
(* next one up, and its points are no older than its buffer: for every     *)
(* interleaving of Created, Failed and commit().                           *)
(***************************************************************************)
THEOREM CommitsSound == Spec => []CommitPointsSound
<1>1. IInv => CommitPointsSound
  <2> SUFFICES ASSUME IInv, NEW c \in Commits
               PROVE  /\ c.acquire <= head
                      /\ c.acquire < counter
                      /\ c.release = c.acquire + 1
                      /\ c.own <= c.acquire
    BY DEF CommitPointsSound
  <2>1. c \in Commit /\ CommitSound(c) /\ counter \in Nat
    BY InFlightTyped DEF IInv, PointsHandedOut, TypeOK, TimelineTypeOK
  <2> QED
    BY <2>1 DEF CommitSound, Commit
<1> QED
  BY <1>1, Invariance, PTL

(***************************************************************************)
(* The compositor reads an image only after the frame it stands for has    *)
(* been drawn.                                                             *)
(***************************************************************************)
THEOREM ReadsFinished == Spec => []ReadsOnlyFinishedFrames
<1>1. IInv => ReadsOnlyFinishedFrames
  BY DEF IInv
<1> QED
  BY <1>1, Invariance, PTL

(***************************************************************************)
(* The GPU never holds a submission that writes a dropped image.           *)
(***************************************************************************)
THEOREM GpuSafe == Spec => []GpuWritesLiveImages
<1>1. IInv => GpuWritesLiveImages
  BY DEF IInv
<1> QED
  BY <1>1, Invariance, PTL

(***************************************************************************)
(* The unwraps of draw succeed and frames are drawn at the size asked for. *)
(***************************************************************************)
THEOREM DrawsAtSize == Spec => []RecordsAtRequestedSize
<1>1. IInv => RecordsAtRequestedSize
  BY DEF IInv, TypeOK, SwapchainTypeOK, FrameInProgress,
         RecordsAtRequestedSize
<1> QED
  BY <1>1, Invariance, PTL

(***************************************************************************)
(* The two slots never wait at once.                                       *)
(***************************************************************************)
THEOREM OneSlotFree == Spec => []SomeSlotAvailable
<1>1. IInv => SomeSlotAvailable
  BY SlotPointsSuffice DEF IInv
<1> QED
  BY <1>1, Invariance, PTL
=============================================================================
