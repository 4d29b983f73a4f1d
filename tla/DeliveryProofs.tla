--------------------------- MODULE DeliveryProofs ---------------------------
(***************************************************************************)
(* Proofs about what travels between the client and the compositor: the    *)
(* pending points and their buffer, the order of acks and commits, and the *)
(* order of the frames, and that the frame path implements FrameStream:    *)
(* the points of the commits on their way, over all the queues they pass,  *)
(* are the queue of the stream.                                            *)
(***************************************************************************)
EXTENDS FrameLoopProofs, QueueProofs

-----------------------------------------------------------------------------
(* The pending points.                                                     *)

(***************************************************************************)
(* Taking the head off a queue loses nothing else.                         *)
(***************************************************************************)
LEMMA ElementsTail ==
    ASSUME NEW S, NEW s \in Seq(S), s # <<>>
    PROVE  Elements(s) \subseteq Elements(Tail(s)) \cup {Head(s)}
<1>1. /\ Len(s) \in Nat /\ Len(s) > 0
      /\ DOMAIN s = 1..Len(s)
      /\ Head(s) = s[1]
  OBVIOUS
<1>2. /\ DOMAIN Tail(s) = 1..(Len(s) - 1)
      /\ \A i \in 1..(Len(s) - 1) : Tail(s)[i] = s[i + 1]
  BY <1>1
<1>3. \A i \in 1..Len(s) :
         i = 1 \/ (i - 1 \in 1..(Len(s) - 1) /\ Tail(s)[i - 1] = s[i])
  BY <1>1, <1>2
<1>4. \A i \in 1..Len(s) : s[i] \in Elements(Tail(s)) \cup {Head(s)}
  BY <1>1, <1>2, <1>3 DEF Elements
<1> QED
  BY <1>1, <1>4 DEF Elements

(***************************************************************************)
(* The buffer of the newest frame is still to come, or its failure.        *)
(***************************************************************************)
BufferComing ==
    \/ \E r \in Requested : r.own = pending_acquire
    \/ Arrived("failed") # {}

(***************************************************************************)
(* The handlers that leave the pending points alone take neither a created *)
(* buffer nor a failure off the inbox, and no request.                     *)
(***************************************************************************)
LEMMA HandlerKeepsBuffer ==
    ASSUME TypeOK, HandleEvent, BufferComing,
           Head(inbox).type \notin {"created", "failed"},
           pending_acquire' = pending_acquire
    PROVE  BufferComing'
<1>1. Elements(inbox) \subseteq Elements(inbox') \cup {Head(inbox)}
  BY ElementsTail DEF HandleEvent, TypeOK, SurfaceTypeOK
<1>2. /\ Arrived("created") \subseteq Arrived("created")'
      /\ Arrived("failed") \subseteq Arrived("failed")'
  BY <1>1 DEF Arrived
<1>3. Elements(sendbuf) \subseteq Elements(sendbuf') /\ wire' = wire
  <2>1. CASE UNCHANGED sendbuf
    BY <2>1 DEF HandleEvent, compositorVars
  <2>2. CASE OnConfigure(Head(inbox))
    <3>1. Head(inbox) \in Event
      BY ElementsHeadTail DEF HandleEvent, TypeOK, SurfaceTypeOK
    <3>2. [type |-> "ack", serial |-> Head(inbox).serial] \in Request
      BY <2>2, <3>1, EventFields DEF OnConfigure, Request, AckRequest
    <3> QED
      BY <2>2, <3>2, ElementsAppend DEF OnConfigure, Send, TypeOK,
         SurfaceTypeOK, HandleEvent, compositorVars
  <2> QED
    BY <2>1, <2>2 DEF HandleEvent, OnEvent, OnToplevelConfigure, OnClose,
       OnCreatedCommits, OnCreatedDrops, OnFailed
<1>4. Queued("create") \subseteq Queued("create")'
  BY <1>3 DEF Queued, Elements
<1>5. Requested \subseteq Requested'
  BY <1>2, <1>4 DEF Requested
<1> QED
  BY <1>2, <1>5 DEF BufferComing

(***************************************************************************)
(* The compositor answers a request for a buffer with the buffer or with a *)
(* failure.                                                                *)
(***************************************************************************)
LEMMA CompositorKeepsBuffer ==
    ASSUME TypeOK, CompositorStep, BufferComing
    PROVE  BufferComing'
<1>1. UNCHANGED <<sendbuf, pending_acquire>>
  BY DEF CompositorStep, OnCompositor, Configure, SendConfigure, SendClose,
     ReadRequest, TakeInitialCommit, TakeAck, AnswerCreated, AnswerFailed,
     TakeCommit, Latch, ReleaseBuffer, Materialise, Drain, surfaceVars,
     surfaceFields
<1>2. Elements(inbox) \subseteq Elements(inbox')
  <2>1. CASE Configure
    <3>1. PICK newSize \in Option(Sizes) : SendConfigure(newSize)
      BY <2>1 DEF Configure
    <3> DEFINE t == [type |-> "toplevel", size |-> newSize]
               u == [type |-> "configure", serial |-> sent + 1]
    <3>2. t \in Event /\ u \in Event
      BY DEF Event, ToplevelEvent, ConfigureEvent, TypeOK, CompositorTypeOK
    <3>3. <<t, u>> \in Seq(Event) /\ inbox \in Seq(Event)
      BY <3>2 DEF TypeOK, SurfaceTypeOK
    <3>4. inbox' = inbox \o <<t, u>>
      BY Zenon, <3>1 DEF SendConfigure
    <3>5. Elements(inbox') = Elements(inbox) \cup Elements(<<t, u>>)
      <4> HIDE DEF t, u
      <4> QED
        BY Zenon, <3>3, <3>4, ElementsConcat
    <3> QED
      BY <3>5
  <2>2. CASE SendClose
    <3>1. [type |-> "close"] \in Event /\ inbox \in Seq(Event)
      BY DEF Event, CloseEvent, TypeOK, SurfaceTypeOK
    <3> QED
      BY <2>2, <3>1, ElementsAppend DEF SendClose
  <2>3. CASE AnswerCreated
    <3> DEFINE e == [type |-> "created", image |-> Head(wire).image,
                     own |-> Head(wire).own]
    <3>1. Head(wire) \in Request
      BY <2>3, ElementsHeadTail DEF AnswerCreated, NextRequest, TypeOK,
         CompositorTypeOK
    <3>2. e \in Event
      BY <2>3, <3>1, RequestFields DEF AnswerCreated, NextRequest,
         CreateRequest, Event, CreatedEvent
    <3> QED
      BY <2>3, <3>2, ElementsAppend DEF AnswerCreated, TypeOK, SurfaceTypeOK
  <2>4. CASE AnswerFailed
    <3>1. [type |-> "failed"] \in Event
      BY DEF Event, FailedEvent
    <3> QED
      BY <2>4, <3>1, ElementsAppend DEF AnswerFailed, TypeOK, SurfaceTypeOK
  <2>5. CASE UNCHANGED inbox
    BY <2>5
  <2> QED
    BY <2>1, <2>2, <2>3, <2>4, <2>5 DEF CompositorStep, OnCompositor,
       ReadRequest, TakeInitialCommit, TakeAck, TakeCommit, Latch,
       ReleaseBuffer, Materialise, Drain, surfaceVars
<1>3. /\ Arrived("created") \subseteq Arrived("created")'
      /\ Arrived("failed") \subseteq Arrived("failed")'
  BY <1>2 DEF Arrived
<1>4. CASE UNCHANGED wire
  <2>1. Queued("create") = Queued("create")'
    BY <1>1, <1>4 DEF Queued, Elements
  <2> QED
    BY <1>1, <1>3, <2>1 DEF BufferComing, Requested
<1>5. CASE ReadRequest
  <2>1. wire # <<>> /\ wire' = Tail(wire)
    BY <1>5 DEF ReadRequest, TakeInitialCommit, TakeAck, AnswerCreated,
       AnswerFailed, TakeCommit, NextRequest
  <2>2. Elements(wire) \subseteq Elements(wire') \cup {Head(wire)}
    BY <2>1, ElementsTail DEF TypeOK, CompositorTypeOK
  <2>3. CASE Head(wire).type # "create"
    <3>1. Queued("create") \subseteq Queued("create")'
      BY <1>1, <2>2, <2>3 DEF Queued, Elements
    <3> QED
      BY <1>1, <1>3, <3>1 DEF BufferComing, Requested
  <2>4. CASE AnswerFailed
    <3>1. [type |-> "failed"] \in Event
      BY DEF Event, FailedEvent
    <3>2. [type |-> "failed"] \in Elements(inbox')
      BY <2>4, <3>1, ElementsAppend DEF AnswerFailed, TypeOK, SurfaceTypeOK
    <3> QED
      BY <3>2 DEF BufferComing, Arrived
  <2>5. CASE AnswerCreated
    <3> DEFINE r == Head(wire)
               e == [type |-> "created", image |-> r.image, own |-> r.own]
    <3>1. r \in Request
      BY <2>1, ElementsHeadTail DEF TypeOK, CompositorTypeOK
    <3>2. e \in Event
      BY <2>5, <3>1, RequestFields DEF AnswerCreated, NextRequest,
         CreateRequest, Event, CreatedEvent
    <3>3. e \in Elements(inbox')
      BY <2>5, <3>2, ElementsAppend DEF AnswerCreated, TypeOK, SurfaceTypeOK
    <3>4. e \in Requested' /\ e.own = r.own
      BY <3>3 DEF Requested, Arrived
    <3>5. Queued("create") \subseteq Queued("create")' \cup {r}
      BY <1>1, <2>2 DEF Queued, Elements
    <3> QED
      BY <1>1, <1>3, <3>4, <3>5 DEF BufferComing, Requested
  <2> QED
    BY <1>5, <2>3, <2>4, <2>5 DEF ReadRequest, TakeInitialCommit, TakeAck,
       TakeCommit, NextRequest
<1> QED
  BY <1>4, <1>5 DEF CompositorStep, OnCompositor, Configure, SendConfigure,
     SendClose, Latch, ReleaseBuffer, Materialise, Drain

(***************************************************************************)
(* Points and damage size come and go together, and never without their    *)
(* buffer.                                                                 *)
(***************************************************************************)
PendingTogether ==
    /\ pending_acquire = None => pending_release = None /\ create_size = None
    /\ pending_acquire # None => create_size # None /\ BufferComing

(***************************************************************************)
(* A handler that takes the points commits them with their buffer, or drops *)
(* them because its creation failed; no other handler meets that buffer.   *)
(***************************************************************************)
LEMMA HandlePending ==
    ASSUME IInv, PendingTogether, HandleEvent
    PROVE  PendingTogether'
<1> DEFINE e == Head(inbox)
<1>1. CASE OnCreatedCommits(e)
  BY <1>1 DEF OnCreatedCommits, PendingTogether
<1>2. CASE OnFailed(e)
  BY <1>2 DEF OnFailed, PendingTogether
<1>3. CASE OnCreatedDrops(e)
  <2>1. pending_acquire # None => pending_release \in Nat
    BY DEF IInv, PointsHandedOut, TypeOK, SurfaceTypeOK, Option
  <2>2. pending_acquire = None /\ pending_release = None
    BY <1>3, <2>1, NoneAssumption DEF OnCreatedDrops, PendingTogether
  <2> QED
    BY <1>3, <2>2 DEF OnCreatedDrops, PendingTogether
<1>4. CASE OnToplevelConfigure(e) \/ OnClose(e) \/ OnConfigure(e)
  <2>1. /\ UNCHANGED <<pending_acquire, pending_release, create_size>>
        /\ e.type \notin {"created", "failed"}
    BY <1>4 DEF OnToplevelConfigure, OnClose, OnConfigure
  <2> QED
    BY <2>1, HandlerKeepsBuffer DEF IInv, PendingTogether
<1> QED
  BY <1>1, <1>2, <1>3, <1>4 DEF HandleEvent, OnEvent

(***************************************************************************)
(* A presented frame asks for the buffer its points wait for.              *)
(***************************************************************************)
LEMMA PresentPending ==
    ASSUME IInv, PresentFrame
    PROVE  PendingTogether'
<1> DEFINE r == [type |-> "create", image |-> buffers[current_idx],
                 own |-> counter]
<1>1. buffers[current_idx] \in Image /\ counter \in Nat
  BY DEF IInv, PresentFrame, FrameInProgress, TypeOK, TimelineTypeOK,
     RendererTypeOK, SwapchainTypeOK, Option
<1>2. r \in Request
  BY <1>1 DEF Request, CreateRequest
<1>3. r \in Elements(sendbuf')
  BY <1>2, ElementsAppend DEF PresentFrame, CommitFrame, DrawnFrame, Send,
     IInv, TypeOK, SurfaceTypeOK
<1>4. r \in Requested' /\ r.own = pending_acquire'
  BY <1>3 DEF Requested, Queued, PresentFrame, CommitFrame
<1>5. create_size' \in Sizes /\ pending_acquire' \in Nat
  BY <1>1 DEF PresentFrame, CommitFrame, DrawnFrame, Image
<1> QED
  BY <1>4, <1>5, SizesAssumption, NoneAssumption DEF PendingTogether,
     BufferComing

(***************************************************************************)
(* No step separates the points from their buffer.                         *)
(***************************************************************************)
LEMMA PendingStep ==
    ASSUME IInv, PendingTogether, [Next]_vars
    PROVE  PendingTogether'
<1>1. CASE HandleEvent
  BY <1>1, HandlePending
<1>2. CASE PresentFrame
  BY <1>2, PresentPending
<1>3. CASE EnterDispatch
  <2>1. UNCHANGED <<pending_acquire, pending_release, create_size, inbox>>
    BY <1>3 DEF EnterDispatch, surfaceFields
  <2>2. Requested' = Requested
    BY <1>3, FlushKeepsAll DEF IInv
  <2>3. Arrived("failed")' = Arrived("failed")
    BY <2>1 DEF Arrived, Elements
  <2> QED
    BY <2>1, <2>2, <2>3 DEF PendingTogether, BufferComing
<1>4. CASE CompositorStep
  <2>1. UNCHANGED <<pending_acquire, pending_release, create_size>>
    BY <1>4 DEF CompositorStep, OnCompositor, Configure, SendConfigure,
       SendClose, ReadRequest, TakeInitialCommit, TakeAck, AnswerCreated,
       AnswerFailed, TakeCommit, Latch, ReleaseBuffer, Materialise, Drain,
       surfaceVars, surfaceFields
  <2> QED
    BY <1>4, <2>1, CompositorKeepsBuffer DEF PendingTogether, IInv
<1>5. CASE UNCHANGED <<pending_acquire, pending_release, create_size, inbox,
                       sendbuf, wire>>
  BY <1>5 DEF PendingTogether, BufferComing, Requested, Queued, Arrived,
     Elements
<1> QED
  BY <1>1, <1>2, <1>3, <1>4, <1>5 DEF Next, ClientStep, Dispatch, LeaveLoop,
     DispatchReturns, StartFrame, RenderFrame, GoTo, AcquireSlot,
     LoseFrameToTimeout, ResizeImages, KeepImages, WaitIdleFails,
     PrepareBuffer, BufferFails, RecordAndSubmit, RecordFails, ExportFails,
     ExportPanics, BridgeFails, ConnectionLost, GpuStep, Terminated, vars,
     surfaceVars, surfaceFields, compositorVars

(***************************************************************************)
(* The mailbox of one frame is never blocked by points nobody will         *)
(* collect, whatever fails.                                                *)
(***************************************************************************)
THEOREM PointsAwaitBuffer == Spec => []PendingPointsAwaitTheirBuffer
<1>1. Init => PendingTogether
  BY DEF Init, SurfaceInit, PendingTogether
<1>2. IInv /\ PendingTogether /\ [Next]_vars => PendingTogether'
  BY PendingStep
<1>3. IInv /\ PendingTogether => PendingPointsAwaitTheirBuffer
  BY DEF IInv, PointsHandedOut, PendingTogether, BufferComing,
     PendingPointsAwaitTheirBuffer
<1> QED
  BY <1>1, <1>2, <1>3, Invariance, PTL DEF Spec

-----------------------------------------------------------------------------
(* Acks and commits, in the order the client sent them.                    *)

Outgoing == wire \o sendbuf

AckAmong(requests) ==
    acked > 0 \/ \E j \in DOMAIN requests : requests[j].type = "ack"

(***************************************************************************)
(* No commit is ahead of the first ack; a commit the compositor has read   *)
(* was not either; and serials count from 1.                               *)
(***************************************************************************)
AckedFirst ==
    /\ (Elements(cq) \cup Reading # {}) => acked > 0
    /\ \A i \in DOMAIN Outgoing :
          Outgoing[i].type = "commit" =>
             \/ acked > 0
             \/ \E j \in 1..(i - 1) : Outgoing[j].type = "ack"
    /\ \A r \in Elements(sendbuf) \cup Elements(wire) :
          r.type = "ack" => r.serial > 0
    /\ \A e \in Elements(inbox) : e.type = "configure" => e.serial > 0

(***************************************************************************)
(* A frame is drawn only for a configure, whose ack is on its way first.   *)
(***************************************************************************)
FrameAfterAck ==
    \/ pending_render # None
    \/ pending_acquire # None
    \/ pc \in {"acquire", "draw", "buffer", "record", "bridge"}
    => AckAmong(Outgoing)

(***************************************************************************)
(* A flush sends the requests in their order.                              *)
(***************************************************************************)
LEMMA QueueFlush ==
    ASSUME NEW S, NEW s \in Seq(S), NEW t \in Seq(S)
    PROVE  (s \o t) \o <<>> = s \o t
OBVIOUS

(***************************************************************************)
(* The compositor reads the oldest of all requests.                        *)
(***************************************************************************)
LEMMA QueueTail ==
    ASSUME NEW S, NEW s \in Seq(S), NEW t \in Seq(S), s # <<>>
    PROVE  /\ Tail(s) \o t = Tail(s \o t)
           /\ Head(s \o t) = Head(s)
           /\ s \o t # <<>>
OBVIOUS

(***************************************************************************)
(* What the compositor reads is the head of all requests on their way.     *)
(***************************************************************************)
LEMMA ReadOutgoing ==
    ASSUME wire \in Seq(Request), sendbuf \in Seq(Request),
           wire # <<>>, wire' = Tail(wire), sendbuf' = sendbuf
    PROVE  /\ Outgoing \in Seq(Request) /\ Outgoing # <<>>
           /\ Outgoing' = Tail(Outgoing) /\ Head(Outgoing) = Head(wire)
<1>1. /\ Tail(wire) \o sendbuf = Tail(wire \o sendbuf)
      /\ Head(wire \o sendbuf) = Head(wire)
      /\ wire \o sendbuf # <<>>
  BY QueueTail
<1>2. wire \o sendbuf \in Seq(Request)
  OBVIOUS
<1>3. Outgoing' = Tail(wire) \o sendbuf
  BY Zenon DEF Outgoing
<1> QED
  BY Zenon, <1>1, <1>2, <1>3 DEF Outgoing

(***************************************************************************)
(* The client adds a request behind all others.                            *)
(***************************************************************************)
LEMMA QueueAppend ==
    ASSUME NEW S, NEW s \in Seq(S), NEW t \in Seq(S), NEW x \in S
    PROVE  s \o Append(t, x) = Append(s \o t, x)
OBVIOUS

(***************************************************************************)
(* A request sent behind all others keeps the order, if it is no commit or *)
(* an ack is among the others.                                             *)
(***************************************************************************)
LEMMA SendKeepsOrder ==
    ASSUME TypeOK, AckedFirst, NEW r \in Request, Send(r),
           UNCHANGED <<wire, acked, cq, current, retired, draining>>,
           r.type = "commit" => AckAmong(Outgoing),
           r.type = "ack" => r.serial > 0,
           Elements(inbox') \subseteq Elements(inbox)
    PROVE  /\ AckedFirst'
           /\ AckAmong(Outgoing) => AckAmong(Outgoing)'
           /\ r.type = "ack" => AckAmong(Outgoing)'
<1>1. sendbuf \in Seq(Request) /\ wire \in Seq(Request)
  BY DEF TypeOK, SurfaceTypeOK, CompositorTypeOK
<1>2. Outgoing \in Seq(Request) /\ Outgoing' = Append(Outgoing, r)
  BY <1>1, QueueAppend DEF Outgoing, Send
<1>3. /\ Len(Outgoing) \in Nat /\ DOMAIN Outgoing = 1..Len(Outgoing)
      /\ DOMAIN Outgoing' = 1..(Len(Outgoing) + 1)
      /\ \A i \in 1..Len(Outgoing) : Outgoing'[i] = Outgoing[i]
      /\ Outgoing'[Len(Outgoing) + 1] = r
  BY <1>2
<1>4. Elements(sendbuf') = Elements(sendbuf) \cup {r}
  BY <1>1, ElementsAppend DEF Send
<1>5. /\ AckAmong(Outgoing) => AckAmong(Outgoing)'
      /\ r.type = "ack" => AckAmong(Outgoing)'
  BY <1>3 DEF AckAmong
<1>6. ASSUME NEW i \in DOMAIN Outgoing', Outgoing'[i].type = "commit"
      PROVE  \/ acked > 0
             \/ \E j \in 1..(i - 1) : Outgoing'[j].type = "ack"
  <2>1. CASE i \in 1..Len(Outgoing)
    <3>1. \/ acked > 0
          \/ \E j \in 1..(i - 1) : Outgoing[j].type = "ack"
      BY <1>3, <1>6, <2>1 DEF AckedFirst
    <3>2. \A j \in 1..(i - 1) : Outgoing'[j] = Outgoing[j]
      BY <1>3, <2>1
    <3> QED
      BY <3>1, <3>2
  <2>2. CASE i = Len(Outgoing) + 1
    <3>1. acked > 0 \/ \E j \in 1..Len(Outgoing) : Outgoing[j].type = "ack"
      BY <1>3, <1>6, <2>2 DEF AckAmong
    <3>2. 1..(i - 1) = 1..Len(Outgoing)
      BY <1>3, <2>2
    <3> QED
      BY <1>3, <3>1, <3>2
  <2> QED
    BY <1>3, <2>1, <2>2
<1>7. (Elements(cq) \cup Reading)' = Elements(cq) \cup Reading
  BY DEF Reading, Elements
<1> QED
  BY <1>4, <1>5, <1>6, <1>7 DEF AckedFirst, Elements

(***************************************************************************)
(* A request the compositor reads is at the head of them all; the order    *)
(* of the others stays, and only an ack takes an ack away.                 *)
(***************************************************************************)
LEMMA ReadKeepsOrder ==
    ASSUME TypeOK, AckedFirst, wire # <<>>, wire' = Tail(wire),
           sendbuf' = sendbuf, acked' \in Nat,
           \/ Head(wire).type = "ack" /\ acked' > 0
           \/ Head(wire).type # "ack" /\ acked' = acked
    PROVE  /\ \A i \in DOMAIN Outgoing' :
                 Outgoing'[i].type = "commit" =>
                    \/ acked' > 0
                    \/ \E j \in 1..(i - 1) : Outgoing'[j].type = "ack"
           /\ AckAmong(Outgoing) => AckAmong(Outgoing)'
           /\ Head(wire).type = "commit" => acked > 0
<1>1. sendbuf \in Seq(Request) /\ wire \in Seq(Request)
  BY DEF TypeOK, SurfaceTypeOK, CompositorTypeOK
<1>2. /\ Outgoing \in Seq(Request) /\ Outgoing # <<>>
      /\ Outgoing' = Tail(Outgoing) /\ Head(Outgoing) = Head(wire)
  BY Zenon, <1>1, ReadOutgoing
<1>3. /\ Len(Outgoing) \in Nat \ {0} /\ DOMAIN Outgoing = 1..Len(Outgoing)
      /\ DOMAIN Outgoing' = 1..(Len(Outgoing) - 1)
      /\ \A i \in 1..(Len(Outgoing) - 1) : Outgoing'[i] = Outgoing[i + 1]
      /\ Outgoing[1] = Head(wire)
  BY <1>2
<1>4. Head(wire).type = "commit" => acked > 0
  BY <1>3 DEF AckedFirst
<1>5. CASE Head(wire).type = "ack" /\ acked' > 0
  BY <1>4, <1>5 DEF AckAmong
<1>6. CASE Head(wire).type # "ack" /\ acked' = acked
  <2>1. ASSUME NEW k \in DOMAIN Outgoing, Outgoing[k].type = "ack"
        PROVE  k - 1 \in DOMAIN Outgoing' /\ Outgoing'[k - 1].type = "ack"
    <3>1. k # 1
      BY <1>3, <1>6, <2>1
    <3>2. k - 1 \in 1..(Len(Outgoing) - 1) /\ (k - 1) + 1 = k
      BY <1>3, <3>1
    <3> QED
      BY <1>3, <2>1, <3>2
  <2>2. ASSUME NEW i \in DOMAIN Outgoing', Outgoing'[i].type = "commit",
               ~(acked > 0)
        PROVE  \E j \in 1..(i - 1) : Outgoing'[j].type = "ack"
    <3>1. i + 1 \in DOMAIN Outgoing /\ Outgoing[i + 1].type = "commit"
      BY <1>3, <2>2
    <3>2. PICK k \in 1..i : Outgoing[k].type = "ack"
      <4>1. \E k \in 1..((i + 1) - 1) : Outgoing[k].type = "ack"
        BY <2>2, <3>1 DEF AckedFirst
      <4>2. (i + 1) - 1 = i
        BY <1>3
      <4> QED
        BY <4>1, <4>2
    <3>3. k \in DOMAIN Outgoing
      BY <1>3
    <3>4. k - 1 \in DOMAIN Outgoing' /\ Outgoing'[k - 1].type = "ack"
      BY <2>1, <3>2, <3>3
    <3>5. k - 1 \in 1..(i - 1)
      BY <1>3, <3>4
    <3> QED
      BY <3>4, <3>5
  <2>3. AckAmong(Outgoing) => AckAmong(Outgoing)'
    BY <1>6, <2>1 DEF AckAmong
  <2> QED
    BY <1>4, <1>6, <2>2, <2>3
<1> QED
  BY <1>5, <1>6

(***************************************************************************)
(* A configure is acknowledged before anything else is made of it, and a   *)
(* buffer is committed only when a frame has been drawn.                   *)
(***************************************************************************)
LEMMA HandleOrder ==
    ASSUME TypeOK, AckedFirst, FrameAfterAck, HandleEvent
    PROVE  AckedFirst' /\ FrameAfterAck'
<1> DEFINE e == Head(inbox)
<1>1. /\ e \in Elements(inbox) /\ e \in Event
      /\ Elements(inbox') \subseteq Elements(inbox)
  BY ElementsHeadTail DEF HandleEvent, TypeOK, SurfaceTypeOK
<1>2. /\ UNCHANGED <<wire, acked, cq, current, retired, draining>>
      /\ pc \in {"dispatch", "handling"} /\ pc' = "handling"
  BY DEF HandleEvent, compositorVars
<1>3. CASE OnConfigure(e)
  <2> DEFINE r == [type |-> "ack", serial |-> e.serial]
  <2>1. Send(r) /\ e.type = "configure"
    BY <1>3 DEF OnConfigure
  <2>2. r \in Request /\ r.type = "ack" /\ r.serial > 0
    BY <1>1, <2>1, EventFields DEF Request, AckRequest, AckedFirst
  <2>3. AckedFirst' /\ AckAmong(Outgoing)'
    BY <1>1, <1>2, <2>1, <2>2, SendKeepsOrder
  <2> QED
    BY <2>3 DEF FrameAfterAck
<1>4. CASE OnCreatedCommits(e)
  <2> DEFINE r == [type |-> "commit", image |-> e.image, own |-> e.own,
                   acquire |-> pending_acquire, release |-> pending_release,
                   damage |-> create_size]
  <2>1. Send(r) /\ e.type = "created" /\ AckAmong(Outgoing)
    BY <1>4 DEF OnCreatedCommits, CommitBuffer, FrameAfterAck
  <2>2. r \in Request /\ r.type = "commit"
    BY <1>1, <1>4, <2>1, EventFields DEF OnCreatedCommits, Request, Commit,
       TypeOK, SurfaceTypeOK, Option
  <2>3. AckedFirst' /\ AckAmong(Outgoing)'
    BY <1>1, <1>2, <2>1, <2>2, SendKeepsOrder
  <2> QED
    BY <2>3 DEF FrameAfterAck
<1>5. CASE \/ OnToplevelConfigure(e) \/ OnClose(e)
           \/ OnCreatedDrops(e) \/ OnFailed(e)
  <2>1. /\ UNCHANGED <<sendbuf, pending_render>>
        /\ pending_acquire' # None => pending_acquire # None
    BY <1>5 DEF OnToplevelConfigure, OnClose, OnCreatedDrops, OnFailed
  <2>2. UNCHANGED Outgoing /\ (AckAmong(Outgoing) => AckAmong(Outgoing)')
    BY <1>2, <2>1 DEF Outgoing, AckAmong
  <2>3. (Elements(cq) \cup Reading)' = Elements(cq) \cup Reading
    BY <1>2 DEF Reading, Elements
  <2>4. (Elements(sendbuf) \cup Elements(wire))'
           = Elements(sendbuf) \cup Elements(wire)
    BY <1>2, <2>1 DEF Elements
  <2>5. AckedFirst'
    BY <1>1, <1>2, <2>2, <2>3, <2>4 DEF AckedFirst
  <2>6. FrameAfterAck'
    BY <1>2, <2>1, <2>2 DEF FrameAfterAck
  <2> QED
    BY <2>5, <2>6
<1> QED
  BY <1>3, <1>4, <1>5 DEF HandleEvent, OnEvent

(***************************************************************************)
(* The frame asked for follows the ack of its configure.                   *)
(***************************************************************************)
LEMMA PresentOrder ==
    ASSUME IInv, AckedFirst, FrameAfterAck, PresentFrame
    PROVE  AckedFirst' /\ FrameAfterAck'
<1> DEFINE r == [type |-> "create", image |-> buffers[current_idx],
                 own |-> counter]
<1>1. buffers[current_idx] \in Image /\ counter \in Nat
  BY DEF IInv, PresentFrame, FrameInProgress, TypeOK, TimelineTypeOK,
     RendererTypeOK, SwapchainTypeOK, Option
<1>2. r \in Request /\ r.type = "create"
  BY <1>1 DEF Request, CreateRequest
<1>3. /\ Send(r) /\ UNCHANGED <<inbox, pending_render>>
      /\ UNCHANGED <<wire, acked, cq, current, retired, draining>>
  BY DEF PresentFrame, CommitFrame, DrawnFrame, compositorVars
<1>4. AckAmong(Outgoing)
  BY DEF PresentFrame, FrameAfterAck
<1>5. AckedFirst' /\ AckAmong(Outgoing)'
  BY <1>2, <1>3, <1>4, SendKeepsOrder DEF IInv, Elements
<1> QED
  BY <1>5 DEF FrameAfterAck

(***************************************************************************)
(* The compositor reads in order, and its configures count from 1.         *)
(***************************************************************************)
LEMMA CompositorOrder ==
    ASSUME TypeOK, TypeOK', AckedFirst, FrameAfterAck, CompositorStep
    PROVE  AckedFirst' /\ FrameAfterAck'
<1>1. UNCHANGED <<sendbuf, pending_render, pending_acquire, pc>>
  BY DEF CompositorStep, OnCompositor, Configure, SendConfigure, SendClose,
     ReadRequest, TakeInitialCommit, TakeAck, AnswerCreated, AnswerFailed,
     TakeCommit, Latch, ReleaseBuffer, Materialise, Drain, surfaceVars,
     surfaceFields
<1>2. CASE ReadRequest
  <2> DEFINE r == Head(wire)
  <2>1. /\ wire # <<>> /\ wire' = Tail(wire)
        /\ UNCHANGED <<current, retired, draining>>
    BY <1>2 DEF ReadRequest, TakeInitialCommit, TakeAck, AnswerCreated,
       AnswerFailed, TakeCommit, NextRequest
  <2>2. /\ r \in Elements(wire) /\ r \in Request
        /\ Elements(wire') \subseteq Elements(wire)
    BY <2>1, ElementsHeadTail DEF TypeOK, CompositorTypeOK
  <2>3. /\ acked' \in Nat
        /\ \/ r.type = "ack" /\ acked' > 0
           \/ r.type # "ack" /\ acked' = acked
    BY <1>2, <2>2 DEF ReadRequest, TakeInitialCommit, TakeAck, AnswerCreated,
       AnswerFailed, TakeCommit, NextRequest, AckedFirst, TypeOK,
       CompositorTypeOK
  <2>4. /\ \A i \in DOMAIN Outgoing' :
              Outgoing'[i].type = "commit" =>
                 \/ acked' > 0
                 \/ \E j \in 1..(i - 1) : Outgoing'[j].type = "ack"
        /\ AckAmong(Outgoing) => AckAmong(Outgoing)'
        /\ r.type = "commit" => acked > 0
    BY <1>1, <2>1, <2>3, ReadKeepsOrder
  <2>5. FrameAfterAck'
    BY <1>1, <2>4 DEF FrameAfterAck
  <2>6. (Elements(cq) \cup Reading)' # {} => acked' > 0
    <3>1. CASE UNCHANGED cq
      BY <2>1, <2>3, <3>1 DEF AckedFirst, Reading, Elements
    <3>2. CASE TakeCommit
      BY <2>3, <2>4, <3>2 DEF TakeCommit, NextRequest
    <3> QED
      BY <1>2, <3>1, <3>2 DEF ReadRequest, TakeInitialCommit, TakeAck,
         AnswerCreated, AnswerFailed
  <2>7. \A e \in Elements(inbox') : e.type = "configure" => e.serial > 0
    <3>1. CASE UNCHANGED inbox
      BY <3>1 DEF AckedFirst, Elements
    <3>2. CASE AnswerCreated
      <4> DEFINE e == [type |-> "created", image |-> r.image, own |-> r.own]
      <4>1. e \in Event
        BY <2>2, <3>2, RequestFields DEF AnswerCreated, NextRequest,
           CreateRequest, Event, CreatedEvent
      <4>2. Elements(inbox') = Elements(inbox) \cup {e}
        BY <3>2, <4>1, ElementsAppend DEF AnswerCreated, TypeOK, SurfaceTypeOK
      <4> QED
        BY <4>2 DEF AckedFirst
    <3>3. CASE AnswerFailed
      <4>1. [type |-> "failed"] \in Event
        BY DEF Event, FailedEvent
      <4>2. Elements(inbox') = Elements(inbox) \cup {[type |-> "failed"]}
        BY <3>3, <4>1, ElementsAppend DEF AnswerFailed, TypeOK, SurfaceTypeOK
      <4> QED
        BY <4>2 DEF AckedFirst
    <3> QED
      BY <1>2, <3>1, <3>2, <3>3 DEF ReadRequest, TakeInitialCommit, TakeAck,
         TakeCommit, surfaceVars
  <2>8. \A q \in Elements(sendbuf') \cup Elements(wire') :
           q.type = "ack" => q.serial > 0
    BY <1>1, <2>2 DEF AckedFirst, Elements
  <2> QED
    BY <2>4, <2>5, <2>6, <2>7, <2>8 DEF AckedFirst
<1>3. CASE UNCHANGED <<wire, acked>>
           /\ (Elements(cq) \cup Reading)' \subseteq Elements(cq) \cup Reading
           /\ \A e \in Elements(inbox') :
                 \/ e \in Elements(inbox)
                 \/ e.type = "configure" => e.serial > 0
  <2>1. UNCHANGED Outgoing /\ (AckAmong(Outgoing) => AckAmong(Outgoing)')
    BY <1>1, <1>3 DEF Outgoing, AckAmong
  <2>2. (Elements(sendbuf) \cup Elements(wire))'
           = Elements(sendbuf) \cup Elements(wire)
    BY <1>1, <1>3 DEF Elements
  <2>3. AckedFirst'
    BY <1>3, <2>1, <2>2 DEF AckedFirst
  <2> QED
    BY <1>1, <2>1, <2>3 DEF FrameAfterAck
<1>4. CASE Configure
  <2>1. PICK newSize \in Option(Sizes) : SendConfigure(newSize)
    BY <1>4 DEF Configure
  <2> DEFINE t == [type |-> "toplevel", size |-> newSize]
             u == [type |-> "configure", serial |-> sent + 1]
  <2>2. t \in Event /\ u \in Event /\ u.serial > 0
    BY DEF Event, ToplevelEvent, ConfigureEvent, TypeOK, CompositorTypeOK
  <2>3. <<t, u>> \in Seq(Event) /\ inbox \in Seq(Event)
    BY <2>2 DEF TypeOK, SurfaceTypeOK
  <2>4. Elements(inbox') = Elements(inbox) \cup Elements(<<t, u>>)
    <3> DEFINE new == <<t, u>>
    <3>1. new \in Seq(Event) /\ inbox' = inbox \o new
      BY <2>1, <2>3 DEF SendConfigure
    <3> HIDE DEF new
    <3>2. Elements(inbox') = Elements(inbox) \cup Elements(new)
      BY <2>3, <3>1, ElementsConcat
    <3> QED
      BY <3>2 DEF new
  <2>5. Elements(<<t, u>>) = {t, u}
    BY DEF Elements
  <2>6. UNCHANGED <<wire, acked, cq, current, retired, draining>>
    BY <2>1 DEF SendConfigure
  <2>7. (Elements(cq) \cup Reading)' = Elements(cq) \cup Reading
    BY <2>6 DEF Elements, Reading
  <2> QED
    BY <1>3, <2>2, <2>4, <2>5, <2>6, <2>7
<1>5. CASE SendClose
  <2>1. [type |-> "close"] \in Event /\ inbox \in Seq(Event)
    BY DEF Event, CloseEvent, TypeOK, SurfaceTypeOK
  <2>2. Elements(inbox') = Elements(inbox) \cup {[type |-> "close"]}
    BY <1>5, <2>1, ElementsAppend DEF SendClose
  <2>3. UNCHANGED <<wire, acked, cq, current, retired, draining>>
    BY <1>5 DEF SendClose
  <2>4. (Elements(cq) \cup Reading)' = Elements(cq) \cup Reading
    BY <2>3 DEF Elements, Reading
  <2> QED
    BY <1>3, <2>2, <2>3, <2>4
<1>6. CASE Latch
  <2>1. Head(cq) \in Elements(cq) /\ Elements(cq') \subseteq Elements(cq)
    BY <1>6, ElementsHeadTail DEF Latch, TypeOK, CompositorTypeOK
  <2>2. (Elements(cq) \cup Reading)' \subseteq Elements(cq) \cup Reading
    BY <1>6, <2>1 DEF Latch, Reading
  <2>3. UNCHANGED <<wire, acked>> /\ Elements(inbox') = Elements(inbox)
    BY <1>6 DEF Latch, surfaceVars, Elements
  <2> QED
    BY <1>3, <2>2, <2>3
<1>7. CASE ReleaseBuffer
  <2>1. /\ UNCHANGED <<wire, acked, inbox, cq, current>>
        /\ retired' \cup draining' \subseteq retired \cup draining
    BY <1>7 DEF ReleaseBuffer, Materialise, Drain, surfaceVars
  <2>2. (Elements(cq) \cup Reading)' \subseteq Elements(cq) \cup Reading
    BY <2>1 DEF Reading, Elements
  <2>3. Elements(inbox') = Elements(inbox)
    BY <2>1 DEF Elements
  <2> QED
    BY <1>3, <2>1, <2>2, <2>3
<1> QED
  BY <1>2, <1>4, <1>5, <1>6, <1>7 DEF CompositorStep, OnCompositor

(***************************************************************************)
(* No step moves a commit ahead of the first ack.                          *)
(***************************************************************************)
LEMMA OrderStep ==
    ASSUME IInv, IInv', AckedFirst, FrameAfterAck, [Next]_vars
    PROVE  AckedFirst' /\ FrameAfterAck'
<1>1. CASE HandleEvent
  BY <1>1, HandleOrder DEF IInv
<1>2. CASE PresentFrame
  BY <1>2, PresentOrder
<1>3. CASE CompositorStep
  BY <1>3, CompositorOrder DEF IInv
<1>4. CASE EnterDispatch
  <2>1. /\ UNCHANGED <<inbox, pending_render, pending_acquire>>
        /\ UNCHANGED <<acked, cq, current, retired, draining>>
        /\ pc = "loop" /\ pc' = "dispatch"
    BY <1>4 DEF EnterDispatch, surfaceFields, compositorSide
  <2>2. wire \in Seq(Request) /\ sendbuf \in Seq(Request)
    BY DEF IInv, TypeOK, SurfaceTypeOK, CompositorTypeOK
  <2>3. UNCHANGED Outgoing
    BY <1>4, <2>2, QueueFlush DEF EnterDispatch, Outgoing
  <2>4. /\ (Elements(cq) \cup Reading)' = Elements(cq) \cup Reading
        /\ Elements(inbox)' = Elements(inbox)
    BY <2>1 DEF Elements, Reading
  <2>5. (Elements(sendbuf) \cup Elements(wire))'
           = Elements(sendbuf) \cup Elements(wire)
    <3>1. Elements(wire \o sendbuf) = Elements(wire) \cup Elements(sendbuf)
      BY <2>2, ElementsConcat
    <3>2. Elements(<<>>) = {}
      BY DEF Elements
    <3> QED
      BY <1>4, <3>1, <3>2 DEF EnterDispatch
  <2>6. AckedFirst'
    BY <2>1, <2>3, <2>4, <2>5 DEF AckedFirst
  <2> QED
    BY <2>1, <2>3, <2>6 DEF FrameAfterAck, AckAmong
<1>5. CASE /\ UNCHANGED <<inbox, sendbuf, pending_acquire>>
           /\ UNCHANGED compositorVars
           /\ \/ pending_render # None \/ pc # "handling"
              \/ pc' \notin {"acquire", "draw", "buffer", "record", "bridge"}
           /\ \/ pc = pc' \/ pc \in {"handling", "acquire", "draw", "buffer",
                                     "record", "bridge"}
              \/ pc' \in {"exited", "panicked"}
           /\ pending_render' \in {pending_render, None}
  <2>1. UNCHANGED Outgoing /\ (AckAmong(Outgoing) => AckAmong(Outgoing)')
    BY <1>5 DEF Outgoing, AckAmong, compositorVars
  <2>2. AckedFirst'
    BY <1>5, <2>1 DEF AckedFirst, Elements, Reading, compositorVars
  <2> QED
    BY <1>5, <2>1, <2>2 DEF FrameAfterAck
<1> QED
  BY <1>1, <1>2, <1>3, <1>4, <1>5 DEF Next, ClientStep, Dispatch, LeaveLoop,
     DispatchReturns, StartFrame, RenderFrame, GoTo, AcquireSlot,
     LoseFrameToTimeout, ResizeImages, KeepImages, WaitIdleFails,
     PrepareBuffer, BufferFails, RecordAndSubmit, RecordFails, ExportFails,
     ExportPanics, BridgeFails, ConnectionLost, GpuStep, Terminated, vars,
     surfaceVars, surfaceFields

(***************************************************************************)
(* No buffer is committed ahead of the first ack_configure.                *)
(***************************************************************************)
THEOREM NoEarlyBuffer == Spec => []NoBufferBeforeFirstAck
<1>1. Init => AckedFirst /\ FrameAfterAck
  <2> SUFFICES ASSUME Init PROVE AckedFirst /\ FrameAfterAck
    OBVIOUS
  <2> USE DEF Init, SurfaceInit, CompositorInit
  <2>1. Outgoing = <<[type |-> "initial"]>>
    BY DEF Outgoing
  <2>2. Elements(cq) \cup Reading = {} /\ Elements(inbox) = {}
    BY DEF Elements, Reading
  <2>3. Elements(sendbuf) \cup Elements(wire) = {[type |-> "initial"]}
    BY DEF Elements
  <2>4. \A i \in DOMAIN Outgoing : Outgoing[i].type = "initial"
    BY <2>1
  <2> QED
    BY <2>2, <2>3, <2>4 DEF AckedFirst, FrameAfterAck
<1>2. IInv /\ IInv' /\ AckedFirst /\ FrameAfterAck /\ [Next]_vars
         => AckedFirst' /\ FrameAfterAck'
  BY OrderStep
<1>3. AckedFirst => NoBufferBeforeFirstAck
  BY DEF AckedFirst, NoBufferBeforeFirstAck, Outgoing
<1> QED
  BY <1>1, <1>2, <1>3, Invariance, PTL DEF Spec

-----------------------------------------------------------------------------
(* The order of frames.  Between draw and screen a frame passes five       *)
(* stations: its buffer is asked for, the buffer has arrived, it is        *)
(* committed, the compositor has the commit, the commit is current.  Each  *)
(* station keeps the order of the frames, and what is further on is older. *)

InOrder(s, type) ==
    \A i, j \in DOMAIN s :
        i < j /\ s[i].type = type /\ s[j].type = type => s[i].own < s[j].own

Older(S, T) == \A x \in S, y \in T : x.own < y.own

Shown == {current} \ {None}

(***************************************************************************)
(* Each of the queues is in the order of drawing.                          *)
(***************************************************************************)
QueuesInOrder ==
    /\ InOrder(Outgoing, "create")
    /\ InOrder(Outgoing, "commit")
    /\ InOrder(inbox, "created")
    /\ InOrder(cq, "commit")

(***************************************************************************)
(* A frame that is further on its way is older.                            *)
(***************************************************************************)
FurtherIsOlder ==
    /\ Older(Shown, Elements(cq) \cup Queued("commit") \cup Requested)
    /\ Older(Elements(cq), Queued("commit") \cup Requested)
    /\ Older(Queued("commit"), Requested)
    /\ Older(Arrived("created"), Queued("create"))

(***************************************************************************)
(* The head of an ordered queue is older than the rest, which stays in     *)
(* order.                                                                  *)
(***************************************************************************)
LEMMA InOrderTail ==
    ASSUME NEW S, NEW s \in Seq(S), s # <<>>, NEW type, InOrder(s, type)
    PROVE  /\ InOrder(Tail(s), type)
           /\ Head(s).type = type =>
                 \A x \in Elements(Tail(s)) :
                    x.type = type => Head(s).own < x.own
<1>1. /\ Len(s) \in Nat /\ Len(s) > 0
      /\ DOMAIN s = 1..Len(s)
      /\ Head(s) = s[1]
  OBVIOUS
<1>2. /\ DOMAIN Tail(s) = 1..(Len(s) - 1)
      /\ \A i \in 1..(Len(s) - 1) : Tail(s)[i] = s[i + 1]
  BY <1>1
<1>3. ASSUME NEW i \in DOMAIN Tail(s), NEW j \in DOMAIN Tail(s), i < j,
             Tail(s)[i].type = type, Tail(s)[j].type = type
      PROVE  Tail(s)[i].own < Tail(s)[j].own
  <2>1. /\ i + 1 \in DOMAIN s /\ j + 1 \in DOMAIN s /\ i + 1 < j + 1
        /\ Tail(s)[i] = s[i + 1] /\ Tail(s)[j] = s[j + 1]
    BY <1>1, <1>2, <1>3
  <2> QED
    BY <1>3, <2>1 DEF InOrder
<1>4. ASSUME NEW i \in DOMAIN Tail(s), Tail(s)[i].type = type,
             Head(s).type = type
      PROVE  Head(s).own < Tail(s)[i].own
  <2>1. /\ i + 1 \in DOMAIN s /\ 1 \in DOMAIN s /\ 1 < i + 1
        /\ Tail(s)[i] = s[i + 1]
    BY <1>1, <1>2
  <2> QED
    BY <1>1, <1>4, <2>1 DEF InOrder
<1> QED
  BY <1>3, <1>4 DEF InOrder, Elements

(***************************************************************************)
(* A queue stays in order when what joins it is newer than all in it.      *)
(***************************************************************************)
LEMMA InOrderAppend ==
    ASSUME NEW S, NEW s \in Seq(S), NEW x \in S, NEW type, InOrder(s, type),
           x.type = type =>
              \A y \in Elements(s) : y.type = type => y.own < x.own
    PROVE  InOrder(Append(s, x), type)
<1> DEFINE t == Append(s, x)
<1>1. /\ Len(s) \in Nat
      /\ DOMAIN s = 1..Len(s)
      /\ DOMAIN t = 1..(Len(s) + 1)
      /\ \A i \in 1..Len(s) : t[i] = s[i]
      /\ t[Len(s) + 1] = x
  OBVIOUS
<1>2. ASSUME NEW i \in DOMAIN t, NEW j \in DOMAIN t, i < j,
             t[i].type = type, t[j].type = type
      PROVE  t[i].own < t[j].own
  <2>1. i \in DOMAIN s /\ t[i] = s[i]
    BY <1>1, <1>2
  <2>2. CASE j \in DOMAIN s
    <3>1. t[j] = s[j]
      BY <1>1, <2>2
    <3> QED
      BY <1>2, <2>1, <2>2, <3>1 DEF InOrder
  <2>3. CASE j = Len(s) + 1
    <3>1. t[j] = x /\ s[i] \in Elements(s)
      BY <1>1, <2>1, <2>3 DEF Elements
    <3> QED
      BY <1>2, <2>1, <3>1
  <2> QED
    BY <1>1, <2>2, <2>3
<1> QED
  BY <1>2 DEF InOrder

(***************************************************************************)
(* The requests on their way, as one queue.                                *)
(***************************************************************************)
LEMMA OutgoingTyped ==
    ASSUME TypeOK
    PROVE  /\ Outgoing \in Seq(Request)
           /\ Elements(Outgoing) = Elements(sendbuf) \cup Elements(wire)
           /\ inbox \in Seq(Event) /\ cq \in Seq(Commit)
           /\ \A c \in Elements(cq) : c.type = "commit"
<1>1. sendbuf \in Seq(Request) /\ wire \in Seq(Request)
  BY DEF TypeOK, SurfaceTypeOK, CompositorTypeOK
<1>2. inbox \in Seq(Event) /\ cq \in Seq(Commit)
  BY DEF TypeOK, SurfaceTypeOK, CompositorTypeOK
<1>3. \A c \in Elements(cq) : c.type = "commit"
  <2>1. \A i \in DOMAIN cq : cq[i] \in Commit
    BY <1>2
  <2>2. \A c \in Commit : c.type = "commit"
    BY DEF Commit
  <2> QED
    BY <2>1, <2>2 DEF Elements
<1>4. Elements(wire \o sendbuf) = Elements(wire) \cup Elements(sendbuf)
  BY <1>1, ElementsConcat
<1>5. wire \o sendbuf \in Seq(Request)
  BY <1>1
<1> QED
  BY <1>2, <1>3, <1>4, <1>5 DEF Outgoing

(***************************************************************************)
(* Every frame on its way is below the counter.                            *)
(***************************************************************************)
LEMMA DrawnBefore ==
    ASSUME TypeOK, PointsHandedOut
    PROVE  \A x \in Shown \cup Elements(cq) \cup Queued("commit")
                          \cup Requested : x.own < counter
<1>1. Shown \cup Elements(cq) \cup Queued("commit") \subseteq Commits
  BY DEF Shown, Commits, Reading
<1>2. ASSUME NEW c \in Commits PROVE c.own < counter
  <2>1. /\ c.own \in Nat /\ c.acquire \in Nat /\ counter \in Nat
    BY <1>2, InFlightTyped DEF TypeOK, TimelineTypeOK, Commit
  <2>2. c.own <= c.acquire /\ c.acquire + 1 < counter
    BY <1>2 DEF PointsHandedOut, CommitSound
  <2> QED
    BY <2>1, <2>2
<1> QED
  BY <1>1, <1>2 DEF PointsHandedOut

(***************************************************************************)
(* An event that is handled leaves the inbox; a created buffer that is     *)
(* committed goes behind the commits before it.                            *)
(***************************************************************************)
LEMMA HandleDrawn ==
    ASSUME TypeOK, QueuesInOrder, FurtherIsOlder, HandleEvent
    PROVE  QueuesInOrder' /\ FurtherIsOlder'
<1> DEFINE e == Head(inbox)
<1>1. /\ inbox \in Seq(Event) /\ inbox # <<>> /\ inbox' = Tail(inbox)
      /\ UNCHANGED <<wire, cq, current>>
  BY OutgoingTyped DEF HandleEvent, compositorVars
<1>2. /\ e \in Elements(inbox) /\ e \in Event
      /\ Elements(inbox') \subseteq Elements(inbox)
  BY <1>1, ElementsHeadTail
<1>3. /\ InOrder(inbox', "created")
      /\ e.type = "created" =>
            \A x \in Arrived("created")' : e.own < x.own
  BY <1>1, InOrderTail DEF QueuesInOrder, Arrived
<1>4. Arrived("created")' \subseteq Arrived("created")
  BY <1>2 DEF Arrived
<1>5. /\ Shown' = Shown /\ Elements(cq') = Elements(cq)
      /\ InOrder(cq', "commit")
  BY <1>1 DEF Shown, Elements, QueuesInOrder, InOrder
<1>6. ASSUME NEW r \in Request, Send(r), r.type # "create",
             r.type = "commit" => e.type = "created" /\ r.own = e.own
      PROVE  QueuesInOrder' /\ FurtherIsOlder'
  <2>1. /\ Outgoing \in Seq(Request) /\ Outgoing' = Append(Outgoing, r)
    BY <1>1, <1>6, OutgoingTyped, QueueAppend DEF Send, Outgoing, TypeOK,
       SurfaceTypeOK, CompositorTypeOK
  <2>2. /\ Elements(sendbuf') = Elements(sendbuf) \cup {r}
        /\ Elements(wire') = Elements(wire)
    <3>1. sendbuf \in Seq(Request) /\ sendbuf' = Append(sendbuf, r)
      BY <1>1, <1>6 DEF Send, TypeOK, SurfaceTypeOK
    <3>2. Elements(wire') = Elements(wire)
      BY <1>1 DEF Elements
    <3> QED
      BY <3>1, <3>2, ElementsAppend
  <2>3. /\ Queued("create")' = Queued("create")
        /\ r.type = "commit" => Queued("commit")' = Queued("commit") \cup {r}
        /\ r.type # "commit" => Queued("commit")' = Queued("commit")
    BY <1>6, <2>2 DEF Queued
  <2>4. r.type = "commit" => e \in Arrived("created")
    BY <1>2, <1>6 DEF Arrived
  <2>5. FurtherIsOlder'
    BY <1>3, <1>4, <1>5, <1>6, <2>3, <2>4 DEF FurtherIsOlder, Older, Requested
  <2>6. r.type = "commit" =>
           \A y \in Elements(Outgoing) : y.type = "commit" => y.own < r.own
    BY <1>6, <2>4, OutgoingTyped DEF FurtherIsOlder, Older, Requested, Queued
  <2>7. InOrder(Outgoing', "commit") /\ InOrder(Outgoing', "create")
    BY <1>6, <2>1, <2>6, InOrderAppend DEF QueuesInOrder
  <2> QED
    BY <1>3, <1>5, <2>5, <2>7 DEF QueuesInOrder
<1>7. CASE OnConfigure(e)
  <2> DEFINE r == [type |-> "ack", serial |-> e.serial]
  <2>1. r \in Request /\ Send(r) /\ r.type = "ack"
    BY <1>2, <1>7, EventFields DEF OnConfigure, Request, AckRequest
  <2> QED
    BY <1>6, <2>1
<1>8. CASE OnCreatedCommits(e)
  <2> DEFINE r == [type |-> "commit", image |-> e.image, own |-> e.own,
                   acquire |-> pending_acquire, release |-> pending_release,
                   damage |-> create_size]
  <2>1. Send(r) /\ e.type = "created"
    BY <1>8 DEF OnCreatedCommits, CommitBuffer
  <2>2. r \in Request /\ r.type = "commit" /\ r.own = e.own
    BY <1>2, <1>8, <2>1, EventFields DEF OnCreatedCommits, Request, Commit,
       TypeOK, SurfaceTypeOK, Option
  <2> QED
    BY <1>6, <2>1, <2>2
<1>9. CASE \/ OnToplevelConfigure(e) \/ OnClose(e)
           \/ OnCreatedDrops(e) \/ OnFailed(e)
  <2>1. UNCHANGED sendbuf
    BY <1>9 DEF OnToplevelConfigure, OnClose, OnCreatedDrops, OnFailed
  <2>2. \A type : Queued(type)' = Queued(type)
    BY <1>1, <2>1 DEF Queued, Elements
  <2>3. FurtherIsOlder'
    BY <1>4, <1>5, <2>2 DEF FurtherIsOlder, Older, Requested
  <2>4. InOrder(Outgoing', "commit") /\ InOrder(Outgoing', "create")
    BY <1>1, <2>1 DEF QueuesInOrder, Outgoing
  <2> QED
    BY <1>3, <1>5, <2>3, <2>4 DEF QueuesInOrder
<1> QED
  BY <1>7, <1>8, <1>9 DEF HandleEvent, OnEvent

(***************************************************************************)
(* The frame that is presented is newer than all on their way.             *)
(***************************************************************************)
LEMMA PresentDrawn ==
    ASSUME IInv, QueuesInOrder, FurtherIsOlder, PresentFrame
    PROVE  QueuesInOrder' /\ FurtherIsOlder'
<1> DEFINE r == [type |-> "create", image |-> buffers[current_idx],
                 own |-> counter]
<1>1. buffers[current_idx] \in Image /\ counter \in Nat
  BY DEF IInv, PresentFrame, FrameInProgress, TypeOK, TimelineTypeOK,
     RendererTypeOK, SwapchainTypeOK, Option
<1>2. r \in Request /\ r.type = "create" /\ r.own = counter
  BY <1>1 DEF Request, CreateRequest
<1>3. Send(r) /\ UNCHANGED <<inbox, wire, cq, current>>
  BY DEF PresentFrame, CommitFrame, DrawnFrame, compositorVars
<1>4. Outgoing \in Seq(Request) /\ Outgoing' = Append(Outgoing, r)
  BY <1>2, <1>3, OutgoingTyped, QueueAppend DEF Send, Outgoing, IInv, TypeOK,
     SurfaceTypeOK, CompositorTypeOK
<1>5. /\ Elements(sendbuf') = Elements(sendbuf) \cup {r}
      /\ Elements(wire') = Elements(wire)
  <2>1. sendbuf \in Seq(Request) /\ sendbuf' = Append(sendbuf, r)
    BY <1>3 DEF Send, IInv, TypeOK, SurfaceTypeOK
  <2>2. Elements(wire') = Elements(wire)
    BY <1>3 DEF Elements
  <2> HIDE DEF r
  <2> QED
    BY <1>2, <2>1, <2>2, ElementsAppend
<1>6. /\ Queued("create")' = Queued("create") \cup {r}
      /\ Queued("commit")' = Queued("commit")
  BY <1>2, <1>5 DEF Queued
<1>7. /\ Arrived("created")' = Arrived("created")
      /\ Shown' = Shown /\ Elements(cq') = Elements(cq)
  BY <1>3 DEF Arrived, Shown, Elements
<1>8. \A x \in Shown \cup Elements(cq) \cup Queued("commit")
                     \cup Requested : x.own < r.own
  BY <1>2, DrawnBefore DEF IInv
<1>9. FurtherIsOlder'
  BY <1>6, <1>7, <1>8 DEF FurtherIsOlder, Older, Requested
<1>10. \A y \in Elements(Outgoing) : y.type = "create" => y.own < r.own
  BY <1>8, OutgoingTyped DEF IInv, Requested, Queued
<1>11. InOrder(Outgoing', "commit") /\ InOrder(Outgoing', "create")
  BY <1>2, <1>4, <1>10, InOrderAppend DEF QueuesInOrder
<1> QED
  BY <1>3, <1>9, <1>11 DEF QueuesInOrder

(***************************************************************************)
(* A request the compositor reads was the oldest of its kind.              *)
(***************************************************************************)
LEMMA ReadDrawn ==
    ASSUME TypeOK, QueuesInOrder, FurtherIsOlder, ReadRequest
    PROVE  QueuesInOrder' /\ FurtherIsOlder'
<1> DEFINE r == Head(wire)
<1>1. /\ wire # <<>> /\ wire' = Tail(wire)
      /\ UNCHANGED <<sendbuf, current>>
  BY DEF ReadRequest, TakeInitialCommit, TakeAck, AnswerCreated,
     AnswerFailed, TakeCommit, NextRequest, surfaceVars
<1>2. /\ wire \in Seq(Request) /\ sendbuf \in Seq(Request)
      /\ inbox \in Seq(Event) /\ cq \in Seq(Commit)
  BY DEF TypeOK, SurfaceTypeOK, CompositorTypeOK
<1>3. /\ Outgoing \in Seq(Request) /\ Outgoing # <<>>
      /\ Outgoing' = Tail(Outgoing) /\ Head(Outgoing) = r
  BY Zenon, <1>1, <1>2, ReadOutgoing
<1>4. /\ r \in Elements(wire) /\ r \in Request
      /\ Elements(wire') \subseteq Elements(wire)
      /\ Elements(sendbuf') = Elements(sendbuf)
  BY <1>1, <1>2, ElementsHeadTail DEF Elements
<1>5. Elements(Outgoing') = Elements(sendbuf') \cup Elements(wire')
  <2> DEFINE rest == Tail(wire)
  <2>1. rest \in Seq(Request) /\ sendbuf \in Seq(Request)
    BY <1>1, <1>2
  <2>2. Elements(rest \o sendbuf) = Elements(rest) \cup Elements(sendbuf)
    <3> HIDE DEF rest
    <3> QED
      BY <2>1, ElementsConcat
  <2> QED
    BY <1>1, <2>2 DEF Outgoing
<1>6. /\ Queued("create")' \subseteq Queued("create")
      /\ Queued("commit")' \subseteq Queued("commit")
  BY <1>4 DEF Queued
<1>7. /\ InOrder(Outgoing', "create")
      /\ InOrder(Outgoing', "commit")
      /\ r.type = "create" => \A x \in Queued("create")' : r.own < x.own
      /\ r.type = "commit" => \A x \in Queued("commit")' : r.own < x.own
  BY <1>3, <1>5, InOrderTail DEF QueuesInOrder, Queued
<1>8. Shown' = Shown
  BY <1>1 DEF Shown
<1>9. CASE TakeCommit
  <2>1. r.type = "commit" /\ cq' = Append(cq, r) /\ inbox' = inbox
    BY <1>9 DEF TakeCommit, NextRequest, surfaceVars
  <2>2. r \in Queued("commit") /\ r \in Commit
    BY <1>4, <2>1, RequestFields DEF Queued
  <2>3. Elements(cq') = Elements(cq) \cup {r}
    BY <1>2, <2>1, <2>2, ElementsAppend
  <2>4. Arrived("created")' = Arrived("created")
    BY <2>1 DEF Arrived, Elements
  <2>5. \A y \in Elements(cq) : y.own < r.own
    BY <2>2 DEF FurtherIsOlder, Older
  <2>6. InOrder(cq', "commit")
    BY <1>2, <2>1, <2>2, <2>5, InOrderAppend DEF QueuesInOrder
  <2>7. FurtherIsOlder'
    BY <1>6, <1>7, <1>8, <2>1, <2>2, <2>3, <2>4 DEF FurtherIsOlder, Older,
       Requested
  <2> QED
    BY <1>7, <2>1, <2>6, <2>7 DEF QueuesInOrder
<1>10. CASE AnswerCreated
  <2> DEFINE e == [type |-> "created", image |-> r.image, own |-> r.own]
  <2>1. r.type = "create" /\ cq' = cq /\ inbox' = Append(inbox, e)
    BY <1>10 DEF AnswerCreated, NextRequest
  <2>2. r \in Queued("create") /\ e \in Event
    BY <1>4, <2>1, RequestFields DEF Queued, CreateRequest, Event,
       CreatedEvent
  <2>3. Arrived("created")' = Arrived("created") \cup {e}
    BY <1>2, <2>1, <2>2, ElementsAppend DEF Arrived
  <2>4. \A y \in Elements(inbox) : y.type = "created" => y.own < e.own
    BY <2>2 DEF FurtherIsOlder, Older, Arrived
  <2>5. InOrder(inbox', "created")
    BY <1>2, <2>1, <2>2, <2>4, InOrderAppend DEF QueuesInOrder
  <2>6. Elements(cq') = Elements(cq)
    BY <2>1 DEF Elements
  <2>7. FurtherIsOlder'
    BY <1>6, <1>7, <1>8, <2>1, <2>2, <2>3, <2>6 DEF FurtherIsOlder, Older,
       Requested
  <2> QED
    BY <1>7, <2>1, <2>5, <2>7 DEF QueuesInOrder
<1>11. CASE TakeInitialCommit \/ TakeAck \/ AnswerFailed
  <2>1. /\ cq' = cq
        /\ inbox' = inbox \/ inbox' = Append(inbox, [type |-> "failed"])
    BY <1>11 DEF TakeInitialCommit, TakeAck, AnswerFailed, surfaceVars
  <2>2. [type |-> "failed"] \in Event
    BY DEF Event, FailedEvent
  <2>3. /\ Arrived("created")' = Arrived("created")
        /\ InOrder(inbox', "created")
    <3>1. CASE inbox' = inbox
      BY <3>1 DEF Arrived, Elements, QueuesInOrder
    <3>2. CASE inbox' = Append(inbox, [type |-> "failed"])
      <4>1. Elements(inbox') = Elements(inbox) \cup {[type |-> "failed"]}
        BY <1>2, <2>2, <3>2, ElementsAppend
      <4>2. InOrder(inbox', "created")
        BY <1>2, <2>2, <3>2, InOrderAppend DEF QueuesInOrder
      <4> QED
        BY <4>1, <4>2 DEF Arrived
    <3> QED
      BY <2>1, <3>1, <3>2
  <2>4. Elements(cq') = Elements(cq)
    BY <2>1 DEF Elements
  <2>5. FurtherIsOlder'
    BY <1>6, <1>8, <2>3, <2>4 DEF FurtherIsOlder, Older, Requested
  <2> QED
    BY <1>7, <2>1, <2>3, <2>5 DEF QueuesInOrder
<1> QED
  BY <1>9, <1>10, <1>11 DEF ReadRequest

(***************************************************************************)
(* The commit shown next was the oldest the compositor had.                *)
(***************************************************************************)
LEMMA LatchDrawn ==
    ASSUME TypeOK, QueuesInOrder, FurtherIsOlder, Latch
    PROVE  /\ QueuesInOrder' /\ FurtherIsOlder'
           /\ current # None => current'.own > current.own
<1>1. /\ cq \in Seq(Commit) /\ cq # <<>> /\ cq' = Tail(cq)
      /\ current' = Head(cq) /\ UNCHANGED <<wire, sendbuf, inbox>>
  BY OutgoingTyped DEF Latch, surfaceVars
<1>2. /\ Head(cq) \in Elements(cq) /\ Head(cq) \in Commit
      /\ Elements(cq') \subseteq Elements(cq)
      /\ \A c \in Elements(cq) : c.type = "commit"
  BY <1>1, ElementsHeadTail, OutgoingTyped
<1>3. /\ InOrder(cq', "commit")
      /\ \A x \in Elements(cq') : Head(cq).own < x.own
  BY <1>1, <1>2, InOrderTail DEF QueuesInOrder
<1>4. \A type : Queued(type)' = Queued(type) /\ Arrived(type)' = Arrived(type)
  BY <1>1 DEF Queued, Arrived, Elements
<1>5. Shown' \subseteq {Head(cq)}
  BY <1>1 DEF Shown
<1>6. FurtherIsOlder'
  BY <1>2, <1>3, <1>4, <1>5 DEF FurtherIsOlder, Older, Requested
<1>7. InOrder(Outgoing', "create") /\ InOrder(Outgoing', "commit")
  BY <1>1 DEF QueuesInOrder, Outgoing
<1>8. current # None => current'.own > current.own
  <2> SUFFICES ASSUME current # None PROVE current'.own > current.own
    OBVIOUS
  <2>1. current.own < Head(cq).own
    BY <1>2 DEF FurtherIsOlder, Older, Shown
  <2>2. current.own \in Nat /\ Head(cq).own \in Nat
    BY <1>2 DEF TypeOK, CompositorTypeOK, Option, Commit
  <2> QED
    BY <1>1, <2>1, <2>2
<1> QED
  BY <1>1, <1>3, <1>6, <1>7, <1>8 DEF QueuesInOrder

(***************************************************************************)
(* Every step keeps the order, and what it shows is newer.                 *)
(***************************************************************************)
LEMMA DrawnStep ==
    ASSUME IInv, QueuesInOrder, FurtherIsOlder, [Next]_vars
    PROVE  /\ QueuesInOrder' /\ FurtherIsOlder'
           /\ current # None /\ current' # current =>
                 current'.own > current.own
<1>1. CASE HandleEvent
  BY <1>1, HandleDrawn DEF IInv, HandleEvent, compositorVars
<1>2. CASE PresentFrame
  BY <1>2, PresentDrawn DEF PresentFrame, compositorVars
<1>3. CASE ReadRequest
  <2>1. current' = current
    BY <1>3 DEF ReadRequest, TakeInitialCommit, TakeAck, AnswerCreated,
       AnswerFailed, TakeCommit
  <2> QED
    BY <1>3, <2>1, ReadDrawn DEF IInv
<1>4. CASE Latch
  BY <1>4, LatchDrawn DEF IInv
<1>5. CASE EnterDispatch
  <2>1. UNCHANGED <<inbox, cq, current>>
    BY <1>5 DEF EnterDispatch, compositorSide
  <2>2. Outgoing \in Seq(Request) /\ wire' = Outgoing /\ sendbuf' = <<>>
    BY <1>5, OutgoingTyped DEF EnterDispatch, Outgoing, IInv
  <2>3. Outgoing' = Outgoing
    BY <2>2 DEF Outgoing
  <2>4. Elements(sendbuf') \cup Elements(wire')
           = Elements(sendbuf) \cup Elements(wire)
    <3>1. Elements(<<>>) = {}
      BY DEF Elements
    <3> QED
      BY <2>2, <3>1, OutgoingTyped DEF IInv
  <2>5. /\ Queued("create")' = Queued("create")
        /\ Queued("commit")' = Queued("commit")
    BY <2>4 DEF Queued
  <2>6. QueuesInOrder'
    BY <2>1, <2>3 DEF QueuesInOrder
  <2>7. FurtherIsOlder'
    BY <2>1, <2>5 DEF FurtherIsOlder, Requested, Arrived, Shown, Elements
  <2> QED
    BY <2>1, <2>6, <2>7
<1>6. CASE UNCHANGED <<sendbuf, wire, inbox, cq, current>>
  BY <1>6 DEF QueuesInOrder, FurtherIsOlder, Outgoing, Queued, Requested,
     Arrived, Shown, Elements
<1>7. CASE /\ UNCHANGED <<sendbuf, wire, cq, current>>
           /\ InOrder(inbox', "created")
           /\ Arrived("created")' = Arrived("created")
  <2>1. Outgoing' = Outgoing /\ Shown' = Shown
    BY <1>7 DEF Outgoing, Shown
  <2>2. \A type : Queued(type)' = Queued(type)
    BY <1>7 DEF Queued, Elements
  <2>3. Elements(cq') = Elements(cq)
    BY <1>7 DEF Elements
  <2>4. QueuesInOrder'
    BY <1>7, <2>1 DEF QueuesInOrder
  <2>5. FurtherIsOlder'
    BY <1>7, <2>1, <2>2, <2>3 DEF FurtherIsOlder, Requested
  <2> QED
    BY <1>7, <2>4, <2>5
<1>8. CASE CompositorStep /\ SendClose
  <2> DEFINE e == [type |-> "close"]
  <2>1. /\ inbox' = Append(inbox, e) /\ e \in Event /\ inbox \in Seq(Event)
        /\ UNCHANGED <<sendbuf, wire, cq, current>>
    BY <1>8, OutgoingTyped DEF SendClose, Event, CloseEvent, IInv
  <2>2. /\ InOrder(inbox', "created")
        /\ Elements(inbox') = Elements(inbox) \cup {e}
    BY <2>1, InOrderAppend, ElementsAppend DEF QueuesInOrder
  <2>3. Arrived("created")' = Arrived("created")
    BY <2>2 DEF Arrived
  <2> QED
    BY <1>7, <2>1, <2>2, <2>3
<1>9. CASE CompositorStep /\ Configure
  <2>1. PICK newSize \in Option(Sizes) : SendConfigure(newSize)
    BY <1>9 DEF Configure
  <2> DEFINE t == [type |-> "toplevel", size |-> newSize]
             u == [type |-> "configure", serial |-> sent + 1]
             s == Append(inbox, t)
  <2>2. t \in Event /\ u \in Event /\ inbox \in Seq(Event)
    BY OutgoingTyped DEF Event, ToplevelEvent, ConfigureEvent, IInv, TypeOK,
       CompositorTypeOK
  <2>3. /\ s \in Seq(Event) /\ inbox' = Append(s, u)
        /\ UNCHANGED <<sendbuf, wire, cq, current>>
    BY <2>1, <2>2 DEF SendConfigure
  <2>4. t.type # "created" /\ u.type # "created"
    OBVIOUS
  <2>5. InOrder(s, "created") /\ Elements(s) = Elements(inbox) \cup {t}
    BY <2>2, InOrderAppend, ElementsAppend DEF QueuesInOrder
  <2> HIDE DEF t, u, s
  <2>6. InOrder(Append(s, u), "created")
    BY <2>2, <2>3, <2>4, <2>5, InOrderAppend
  <2>7. Elements(Append(s, u)) = Elements(s) \cup {u}
    BY <2>2, <2>3, ElementsAppend
  <2>8. Arrived("created")' = Arrived("created")
    BY <2>3, <2>4, <2>5, <2>7 DEF Arrived
  <2> QED
    BY <1>7, <2>3, <2>6, <2>8
<1> QED
  BY <1>1, <1>2, <1>3, <1>4, <1>5, <1>6, <1>8, <1>9 DEF Next, ClientStep,
     Dispatch, LeaveLoop, DispatchReturns, StartFrame, RenderFrame, GoTo,
     AcquireSlot, LoseFrameToTimeout, ResizeImages, KeepImages,
     WaitIdleFails, PrepareBuffer, BufferFails, RecordAndSubmit,
     RecordFails, ExportFails, ExportPanics, BridgeFails, ConnectionLost,
     GpuStep, Terminated, CompositorStep, OnCompositor, Configure,
     SendConfigure, SendClose, ReleaseBuffer, Materialise, Drain, vars,
     surfaceVars, compositorVars

-----------------------------------------------------------------------------
(***************************************************************************)
(* A frame that replaces another on screen is the newer rendering, though  *)
(* buffers and points are paired as they meet.                             *)
(***************************************************************************)
THEOREM ScreenInOrder == Spec => ScreenNeverGoesBack
<1>1. Init => QueuesInOrder /\ FurtherIsOlder
  <2> SUFFICES ASSUME Init PROVE QueuesInOrder /\ FurtherIsOlder
    OBVIOUS
  <2> USE DEF Init, SurfaceInit, CompositorInit
  <2>1. Outgoing = <<[type |-> "initial"]>> /\ inbox = <<>> /\ cq = <<>>
    BY DEF Outgoing
  <2>2. QueuesInOrder
    BY <2>1 DEF QueuesInOrder, InOrder
  <2>3. /\ Shown = {} /\ Elements(cq) = {} /\ Elements(inbox) = {}
        /\ Queued("commit") = {}
    BY DEF Shown, Elements, Queued
  <2> QED
    BY <2>2, <2>3 DEF FurtherIsOlder, Older, Arrived
<1>2. IInv /\ QueuesInOrder /\ FurtherIsOlder /\ [Next]_vars
         => /\ QueuesInOrder' /\ FurtherIsOlder'
            /\ current # None /\ current' # current =>
                  current'.own > current.own
  BY DrawnStep
<1> QED
  BY <1>1, <1>2, Invariance, PTL DEF Spec, ScreenNeverGoesBack

-----------------------------------------------------------------------------
(* The points of a queue of requests.                                      *)

(***************************************************************************)
(* The points of a queue are points.                                       *)
(***************************************************************************)
LEMMA PointsTyped ==
    ASSUME NEW s \in Seq(Request)
    PROVE  PointsOf(s) \in Seq(Nat)
<1> DEFINE c == OfType(s, {"commit"})
           C == {r \in Request : r.type \in {"commit"}}
<1>1. c \in Seq(C)
  BY OfTypeKeeps
<1>2. \A r \in C : r.acquire \in Nat
  BY RequestFields DEF Commit
<1> HIDE DEF c, C
<1>3. [i \in DOMAIN c |-> c[i].acquire] \in Seq(Nat)
  <2>1. DOMAIN c = 1..Len(c) /\ Len(c) \in Nat /\ \A i \in DOMAIN c : c[i] \in C
    BY <1>1
  <2>2. \A i \in 1..Len(c) : c[i].acquire \in Nat
    BY <2>1, <1>2
  <2> QED
    BY <2>1, <2>2
<1> QED
  BY <1>3 DEF PointsOf, c

(***************************************************************************)
(* No request has no points, one request has one if it is a commit.        *)
(***************************************************************************)
LEMMA PointsOfFew ==
    /\ PointsOf(<<>>) = <<>>
    /\ \A r \in Request :
          PointsOf(<<r>>) = IF r.type = "commit" THEN <<r.acquire>> ELSE <<>>
<1>1. [i \in DOMAIN <<>> |-> <<>>[i].acquire] = <<>>
  OBVIOUS
<1>2. \A r : [i \in DOMAIN <<r>> |-> <<r>>[i].acquire] = <<r.acquire>>
  OBVIOUS
<1>3. PointsOf(<<>>) = <<>>
  BY <1>1, OfTypeEmpty DEF PointsOf
<1>4. ASSUME NEW r \in Request
      PROVE  PointsOf(<<r>>)
                = IF r.type = "commit" THEN <<r.acquire>> ELSE <<>>
  <2>1. CASE r.type = "commit"
    <3>1. OfType(<<r>>, {"commit"}) = <<r>>
      BY <2>1, OfTypeOne
    <3> QED
      BY <2>1, <3>1, <1>2 DEF PointsOf
  <2>2. CASE r.type # "commit"
    <3>1. OfType(<<r>>, {"commit"}) = <<>>
      BY <2>2, OfTypeOne
    <3> QED
      BY <2>2, <3>1, <1>1 DEF PointsOf
  <2> QED
    BY <2>1, <2>2
<1> QED
  BY <1>3, <1>4

(***************************************************************************)
(* The points of one queue behind another.                                 *)
(***************************************************************************)
LEMMA PointsConcat ==
    ASSUME NEW s \in Seq(Request), NEW t \in Seq(Request)
    PROVE  PointsOf(s \o t) = PointsOf(s) \o PointsOf(t)
<1> DEFINE c == OfType(s, {"commit"})
           d == OfType(t, {"commit"})
           C == {r \in Request : r.type \in {"commit"}}
<1>1. c \in Seq(C) /\ d \in Seq(C)
  BY OfTypeKeeps
<1>2. OfType(s \o t, {"commit"}) = c \o d
  BY OfTypeConcat
<1>3. /\ PointsOf(s) = [i \in DOMAIN c |-> c[i].acquire]
      /\ PointsOf(t) = [i \in DOMAIN d |-> d[i].acquire]
      /\ PointsOf(s \o t) = [i \in DOMAIN (c \o d) |-> (c \o d)[i].acquire]
  BY <1>2 DEF PointsOf
<1> HIDE DEF c, d, C
<1> DEFINE a == [i \in DOMAIN c |-> c[i].acquire]
           b == [i \in DOMAIN d |-> d[i].acquire]
           u == [i \in DOMAIN (c \o d) |-> (c \o d)[i].acquire]
<1>4. /\ DOMAIN c = 1..Len(c) /\ DOMAIN d = 1..Len(d)
      /\ Len(c) \in Nat /\ Len(d) \in Nat
      /\ DOMAIN (c \o d) = 1..(Len(c) + Len(d))
      /\ \A i \in 1..Len(c) : (c \o d)[i] = c[i]
      /\ \A i \in 1..(Len(c) + Len(d)) :
            i \notin 1..Len(c) => /\ i - Len(c) \in 1..Len(d)
                                  /\ (c \o d)[i] = d[i - Len(c)]
  BY <1>1
<1>5. a \in Seq(Nat) /\ b \in Seq(Nat) /\ Len(a) = Len(c) /\ Len(b) = Len(d)
  <2>1. a \in Seq(Nat) /\ b \in Seq(Nat)
    BY <1>3, PointsTyped
  <2>2. DOMAIN a = 1..Len(c) /\ DOMAIN b = 1..Len(d)
    BY <1>4
  <2> HIDE DEF a, b
  <2> QED
    BY <2>1, <2>2, <1>4
<1>6. /\ \A i \in 1..Len(c) : a[i] = c[i].acquire
      /\ \A i \in 1..Len(d) : b[i] = d[i].acquire
      /\ \A i \in 1..(Len(c) + Len(d)) : u[i] = (c \o d)[i].acquire
      /\ u = [i \in 1..(Len(c) + Len(d)) |-> u[i]]
  BY <1>4
<1>7. u = a \o b
  <2> HIDE DEF a, b, u
  <2>1. \A v, w \in Seq(Nat) :
           /\ v \o w \in Seq(Nat) /\ Len(v \o w) = Len(v) + Len(w)
           /\ \A i \in 1..(Len(v) + Len(w)) :
                 (v \o w)[i] = IF i \in 1..Len(v) THEN v[i]
                                                  ELSE w[i - Len(v)]
    OBVIOUS
  <2>2. \A v \in Seq(Nat) : v = [i \in 1..Len(v) |-> v[i]]
    OBVIOUS
  <2>3. \A i \in 1..(Len(c) + Len(d)) :
              (a \o b)[i] = IF i \in 1..Len(c) THEN a[i] ELSE b[i - Len(c)]
    BY <2>1, <1>5
  <2> DEFINE w == a \o b
  <2>4. w \in Seq(Nat) /\ Len(w) = Len(c) + Len(d)
    BY <2>1, <1>5
  <2>5. \A i \in 1..(Len(c) + Len(d)) : u[i] = w[i]
    <3> TAKE i \in 1..(Len(c) + Len(d))
    <3> DEFINE e == (c \o d)[i]
    <3>1. /\ u[i] = e.acquire
          /\ w[i] = IF i \in 1..Len(c) THEN a[i] ELSE b[i - Len(c)]
          /\ i \in 1..Len(c) => e = c[i]
          /\ i \notin 1..Len(c) => /\ i - Len(c) \in 1..Len(d)
                                   /\ e = d[i - Len(c)]
      BY <1>4, <1>6, <2>3
    <3> HIDE DEF e, w
    <3>2. CASE i \in 1..Len(c)
      BY <1>6, <3>1, <3>2
    <3>3. CASE i \notin 1..Len(c)
      BY <1>6, <3>1, <3>3
    <3> QED
      BY <3>2, <3>3
  <2> HIDE DEF w
  <2>6. w = [i \in 1..(Len(c) + Len(d)) |-> w[i]]
    BY <2>2, <2>4
  <2> QED
    BY <1>6, <2>5, <2>6 DEF w
<1> QED
  BY <1>3, <1>7

-----------------------------------------------------------------------------
(* The points on their way to the screen.                                  *)

(***************************************************************************)
(* All that is on its way to the screen: requests on their way to the      *)
(* compositor, behind the commits it has read.                             *)
(***************************************************************************)
Pipe == cq \o wire \o sendbuf

(***************************************************************************)
(* Both halves of the pipe have points of their own.                       *)
(***************************************************************************)
LEMMA PipePoints ==
    ASSUME TypeOK
    PROVE  /\ PointsOf(Pipe) = PointsOf(cq) \o PointsOf(Outgoing)
           /\ PointsOf(cq) \in Seq(Nat) /\ PointsOf(Outgoing) \in Seq(Nat)
           /\ cq \in Seq(Commit) /\ cq \in Seq(Request)
           /\ Outgoing \in Seq(Request)
<1>1. wire \in Seq(Request) /\ sendbuf \in Seq(Request) /\ cq \in Seq(Commit)
  BY DEF TypeOK, SurfaceTypeOK, CompositorTypeOK
<1>2. cq \in Seq(Request)
  <2>1. \A c \in Commit : c \in Request
    BY DEF Request
  <2>2. \A i \in 1..Len(cq) : cq[i] \in Request
    BY <1>1, <2>1
  <2> QED
    BY <1>1, <2>2
<1>3. Outgoing \in Seq(Request) /\ Pipe = cq \o Outgoing
  BY <1>1, <1>2 DEF Outgoing, Pipe
<1> QED
  BY <1>1, <1>2, <1>3, PointsConcat, PointsTyped

(***************************************************************************)
(* A request behind all others adds its points to theirs.                  *)
(***************************************************************************)
LEMMA PointsAppend ==
    ASSUME NEW s \in Seq(Request), NEW r \in Request
    PROVE  PointsOf(Append(s, r)) = PointsOf(s) \o PointsOf(<<r>>)
<1>1. Append(s, r) = s \o <<r>> /\ <<r>> \in Seq(Request)
  OBVIOUS
<1> QED
  BY <1>1, PointsConcat

(***************************************************************************)
(* The oldest request has the first points.                                *)
(***************************************************************************)
LEMMA PointsHeadTail ==
    ASSUME NEW s \in Seq(Request), s # <<>>
    PROVE  /\ Tail(s) \in Seq(Request) /\ Head(s) \in Request
           /\ PointsOf(s) = PointsOf(<<Head(s)>>) \o PointsOf(Tail(s))
<1>1. /\ Tail(s) \in Seq(Request) /\ Head(s) \in Request
      /\ <<Head(s)>> \in Seq(Request) /\ s = <<Head(s)>> \o Tail(s)
  OBVIOUS
<1> QED
  BY <1>1, PointsConcat

(***************************************************************************)
(* Lists of points.                                                        *)
(***************************************************************************)
LEMMA PointLists ==
    /\ \A a, b, c \in Seq(Nat) : (a \o b) \o c = a \o (b \o c)
    /\ \A x \in Nat, s \in Seq(Nat) : /\ <<x>> \in Seq(Nat)
                                      /\ <<x>> \o s # <<>>
                                      /\ Head(<<x>> \o s) = x
                                      /\ Tail(<<x>> \o s) = s
<1>1. \A a, b, c \in Seq(Nat) : (a \o b) \o c = a \o (b \o c)
  OBVIOUS
<1>2. \A x \in Nat, s \in Seq(Nat) : /\ <<x>> \in Seq(Nat)
                                     /\ <<x>> \o s # <<>>
                                     /\ Head(<<x>> \o s) = x
                                     /\ Tail(<<x>> \o s) = s
  OBVIOUS
<1> QED
  BY <1>1, <1>2

(***************************************************************************)
(* Three queues in a row are joined in either order.                       *)
(***************************************************************************)
LEMMA JoinedQueues ==
    ASSUME NEW S, NEW s \in Seq(S), NEW t \in Seq(S), NEW u \in Seq(S)
    PROVE  (s \o t) \o u = s \o (t \o u)
OBVIOUS

(***************************************************************************)
(* The client sends a request.                                             *)
(***************************************************************************)
LEMMA SendPoints ==
    ASSUME TypeOK, NEW r \in Request, Send(r), UNCHANGED <<wire, cq>>
    PROVE  PointsOf(Pipe') = IF r.type = "commit"
                             THEN Append(PointsOf(Pipe), r.acquire)
                             ELSE PointsOf(Pipe)
<1>1. wire \in Seq(Request) /\ sendbuf \in Seq(Request) /\ cq \in Seq(Commit)
  BY DEF TypeOK, SurfaceTypeOK, CompositorTypeOK
<1>2. cq \in Seq(Request) /\ Pipe \in Seq(Request)
  BY <1>1, PipePoints DEF Pipe
<1>3. Pipe' = Append(Pipe, r)
  BY <1>1, <1>2 DEF Pipe, Send
<1>4. PointsOf(Pipe') = PointsOf(Pipe) \o PointsOf(<<r>>)
  BY <1>2, <1>3, PointsAppend
<1>5. /\ PointsOf(<<r>>) = IF r.type = "commit" THEN <<r.acquire>> ELSE <<>>
      /\ PointsOf(Pipe) \in Seq(Nat)
  BY <1>2, PointsOfFew, PointsTyped
<1>6. r.type = "commit" => r.acquire \in Nat
  BY RequestFields DEF Commit
<1>7. \A s \in Seq(Nat), x \in Nat : s \o <<x>> = Append(s, x) /\ s \o <<>> = s
  OBVIOUS
<1> QED
  BY <1>4, <1>5, <1>6, <1>7

(***************************************************************************)
(* Whatever request the compositor reads, no point is lost or moved: a     *)
(* commit takes its points along, no other request has any.                *)
(***************************************************************************)
LEMMA ReadPoints ==
    ASSUME TypeOK, ReadRequest
    PROVE  PointsOf(Pipe') = PointsOf(Pipe)
<1> DEFINE r == Head(wire)
<1>1. /\ wire # <<>> /\ wire' = Tail(wire) /\ UNCHANGED sendbuf
      /\ \/ r.type # "commit" /\ cq' = cq
         \/ r.type = "commit" /\ cq' = Append(cq, r)
  BY DEF ReadRequest, TakeInitialCommit, TakeAck, AnswerCreated,
     AnswerFailed, TakeCommit, NextRequest, surfaceVars
<1>2. wire \in Seq(Request) /\ sendbuf \in Seq(Request)
  BY DEF TypeOK, SurfaceTypeOK, CompositorTypeOK
<1>3. /\ Outgoing \in Seq(Request) /\ Outgoing # <<>>
      /\ Outgoing' = Tail(Outgoing) /\ Head(Outgoing) = r
  BY Zenon, <1>1, <1>2, ReadOutgoing
<1>4. /\ PointsOf(Outgoing) = PointsOf(<<r>>) \o PointsOf(Outgoing')
      /\ r \in Request /\ Outgoing' \in Seq(Request)
  BY <1>3, PointsHeadTail
<1>5. cq \in Seq(Request) /\ cq' \in Seq(Request)
  <2>1. cq \in Seq(Request)
    BY PipePoints
  <2>2. Append(cq, r) \in Seq(Request)
    BY <1>4, <2>1
  <2> QED
    BY <1>1, <2>1, <2>2
<1>6. Pipe' = cq' \o Outgoing'
  <2>1. wire' \in Seq(Request) /\ sendbuf' \in Seq(Request)
    BY <1>1, <1>2
  <2> QED
    BY <1>5, <2>1, JoinedQueues DEF Pipe, Outgoing
<1>7. PointsOf(Pipe') = PointsOf(cq') \o PointsOf(Outgoing')
  BY <1>4, <1>5, <1>6, PointsConcat
<1>8. PointsOf(Pipe)
         = PointsOf(cq) \o (PointsOf(<<r>>) \o PointsOf(Outgoing'))
  BY <1>4, PipePoints
<1>9. PointsOf(cq') = PointsOf(cq) \o PointsOf(<<r>>)
  <2>1. PointsOf(cq) \in Seq(Nat)
    BY <1>5, PointsTyped
  <2>2. PointsOf(cq) \o <<>> = PointsOf(cq)
    BY <2>1
  <2>3. r.type # "commit" => PointsOf(<<r>>) = <<>>
    BY <1>4, PointsOfFew
  <2> QED
    BY <1>1, <1>4, <1>5, <2>2, <2>3, PointsAppend
<1>10. /\ PointsOf(cq) \in Seq(Nat) /\ PointsOf(Outgoing') \in Seq(Nat)
       /\ PointsOf(<<r>>) \in Seq(Nat)
  <2>1. <<r>> \in Seq(Request)
    BY <1>4
  <2> QED
    BY <2>1, <1>4, <1>5, PointsTyped
<1>11. PointsOf(cq) \o (PointsOf(<<r>>) \o PointsOf(Outgoing'))
          = (PointsOf(cq) \o PointsOf(<<r>>)) \o PointsOf(Outgoing')
  BY Zenon, <1>10, PointLists
<1> QED
  BY <1>7, <1>8, <1>9, <1>11

(***************************************************************************)
(* The commit that goes on screen has the oldest point.                    *)
(***************************************************************************)
LEMMA LatchPoints ==
    ASSUME TypeOK, Latch
    PROVE  /\ PointsOf(Pipe) # <<>>
           /\ Head(PointsOf(Pipe)) = current'.acquire
           /\ current' # None
           /\ PointsOf(Pipe') = Tail(PointsOf(Pipe))
<1> DEFINE c == Head(cq)
           p == PointsOf(Tail(cq)) \o PointsOf(Outgoing)
<1>1. /\ cq # <<>> /\ cq' = Tail(cq) /\ current' = c
      /\ UNCHANGED <<wire, sendbuf>>
  BY DEF Latch, surfaceVars
<1>2. /\ wire \in Seq(Request) /\ sendbuf \in Seq(Request)
      /\ cq \in Seq(Commit) /\ cq \in Seq(Request)
      /\ Outgoing \in Seq(Request)
  BY PipePoints DEF TypeOK, SurfaceTypeOK, CompositorTypeOK
<1>3. /\ c \in Commit /\ c # None /\ c.type = "commit" /\ c.acquire \in Nat
      /\ c \in Request
  <2>1. c \in Commit
    BY <1>1, <1>2
  <2> QED
    BY <2>1, NoneIsNoCommit DEF Commit, Request
<1>4. /\ Tail(cq) \in Seq(Request)
      /\ PointsOf(cq) = <<c.acquire>> \o PointsOf(Tail(cq))
  BY <1>1, <1>2, <1>3, PointsHeadTail, PointsOfFew
<1>5. Pipe' = Tail(cq) \o Outgoing
  <2> DEFINE rest == Tail(cq)
  <2>1. Pipe' = (rest \o wire) \o sendbuf
    BY Zenon, <1>1 DEF Pipe
  <2>2. rest \in Seq(Request) /\ wire \in Seq(Request)
        /\ sendbuf \in Seq(Request)
    BY Zenon, <1>2, <1>4
  <2>3. (rest \o wire) \o sendbuf = rest \o (wire \o sendbuf)
    <3> HIDE DEF rest
    <3> QED
      BY <2>2
  <2> QED
    BY Zenon, <2>1, <2>3 DEF Outgoing
<1>6. /\ <<c.acquire>> \in Seq(Nat) /\ PointsOf(Tail(cq)) \in Seq(Nat)
      /\ PointsOf(Outgoing) \in Seq(Nat)
  BY <1>2, <1>3, <1>4, PointsTyped, PointLists
<1>7. PointsOf(Pipe) = (<<c.acquire>> \o PointsOf(Tail(cq)))
                           \o PointsOf(Outgoing)
  BY <1>4, PipePoints
<1>8. PointsOf(Pipe') = p
  BY <1>2, <1>4, <1>5, PointsConcat
<1>9. p \in Seq(Nat)
  BY <1>6
<1>10. PointsOf(Pipe) = <<c.acquire>> \o p
  BY <1>6, <1>7, PointLists
<1> HIDE DEF c, p
<1> QED
  BY <1>1, <1>3, <1>8, <1>9, <1>10, PointLists

(***************************************************************************)
(* Every step of the frame path is a step of the stream, or none.          *)
(***************************************************************************)
LEMMA StreamStep ==
    ASSUME TypeOK, FrameInProgress, [Next]_vars
    PROVE  [Stream!Next]_(Stream!streamVars)
<1> DEFINE queue == PointsOf(Pipe)
           shown == IF current = None THEN 0 ELSE current.acquire
<1>1. ASSUME UNCHANGED <<counter, pending_acquire, current>>,
             PointsOf(Pipe') = PointsOf(Pipe)
      PROVE  UNCHANGED Stream!streamVars
  BY <1>1 DEF Stream!streamVars, Pipe
<1>2. CASE HandleEvent
  <2> DEFINE e == Head(inbox)
  <2>1. /\ e \in Event
        /\ UNCHANGED <<counter, current, wire, cq>>
        /\ OnEvent(e)
    BY <1>2, ElementsHeadTail DEF HandleEvent, compositorVars, timelineVars,
       TypeOK, SurfaceTypeOK
  <2>2. pending_acquire \in Option(Nat)
    BY DEF TypeOK, SurfaceTypeOK
  <2> HIDE DEF e
  <2>3. UNCHANGED sendbuf => PointsOf(Pipe') = PointsOf(Pipe)
    BY <2>1 DEF Pipe
  <2>4. CASE \/ OnToplevelConfigure(e) \/ OnClose(e)
             \/ OnFailed(e) \/ OnCreatedDrops(e)
    <3>1. UNCHANGED sendbuf
          /\ (pending_acquire' = pending_acquire \/ pending_acquire' = None)
      BY <2>4 DEF OnToplevelConfigure, OnClose, OnFailed, OnCreatedDrops
    <3>2. CASE pending_acquire' = pending_acquire
      BY <1>1, <2>1, <2>3, <3>1, <3>2
    <3>3. CASE pending_acquire # None /\ pending_acquire' = None
      <4>1. Stream!Withdraw
        BY <2>1, <2>3, <3>1, <3>3 DEF Stream!Withdraw, Pipe
      <4> QED
        BY <4>1 DEF Stream!Next
    <3> QED
      BY <3>1, <3>2, <3>3
  <2>5. CASE OnConfigure(e)
    <3> DEFINE r == [type |-> "ack", serial |-> e.serial]
    <3>1. /\ r \in Request /\ Send(r) /\ r.type # "commit"
          /\ UNCHANGED pending_acquire
      BY <2>1, <2>5, EventFields DEF OnConfigure, Request, AckRequest
    <3>2. PointsOf(Pipe') = PointsOf(Pipe)
      BY <2>1, <3>1, SendPoints
    <3> QED
      BY <1>1, <2>1, <3>1, <3>2
  <2>6. CASE OnCreatedCommits(e)
    <3> DEFINE r == [type |-> "commit", image |-> e.image, own |-> e.own,
                     acquire |-> pending_acquire,
                     release |-> pending_release, damage |-> create_size]
    <3>1. /\ pending_acquire # None /\ pending_acquire' = None
          /\ pending_release # None
          /\ e.image \in Image /\ e.own \in Nat /\ Send(r)
      BY <2>1, <2>6, EventFields DEF OnCreatedCommits, CommitBuffer
    <3>2. /\ r.type = "commit" /\ r.acquire = pending_acquire
          /\ r \in Request
      BY <2>2, <3>1 DEF Request, Commit, Option, TypeOK, SurfaceTypeOK
    <3> HIDE DEF r
    <3>3. PointsOf(Pipe') = Append(PointsOf(Pipe), pending_acquire)
      BY <2>1, <3>1, <3>2, SendPoints
    <3>4. Stream!Post
      BY <2>1, <3>1, <3>3 DEF Stream!Post, Pipe
    <3> QED
      BY <3>4 DEF Stream!Next
  <2> QED
    BY <2>1, <2>4, <2>5, <2>6 DEF OnEvent
<1>3. CASE PresentFrame
  <2> DEFINE r == [type |-> "create", image |-> buffers[current_idx],
                   own |-> counter]
  <2>1. /\ buffers[current_idx] \in Image /\ counter \in Nat
    BY <1>3 DEF PresentFrame, FrameInProgress, TypeOK, RendererTypeOK,
       SwapchainTypeOK, TimelineTypeOK, Option
  <2>2. /\ counter' = counter + 2 /\ pending_acquire' = counter
        /\ UNCHANGED <<wire, cq, current>> /\ Send(r)
    BY <1>3 DEF PresentFrame, ImportSyncFile, MarkPresented, CommitFrame,
       DrawnFrame, compositorVars
  <2>3. r \in Request /\ r.type # "commit"
    BY <2>1 DEF Request, CreateRequest
  <2>4. PointsOf(Pipe') = PointsOf(Pipe)
    BY <2>2, <2>3, SendPoints
  <2>5. Stream!Offer
    BY <2>2, <2>4 DEF Stream!Offer, Pipe
  <2> QED
    BY <2>5 DEF Stream!Next
<1>4. CASE BridgeFails
  <2>1. /\ counter' = counter + 2
        /\ UNCHANGED <<pending_acquire, wire, sendbuf, cq, current>>
    BY <1>4 DEF BridgeFails, ImportFails, GoTo, surfaceVars, surfaceFields,
       compositorVars
  <2>2. Stream!Lose
    BY <2>1 DEF Stream!Lose
  <2> QED
    BY <2>2 DEF Stream!Next
<1>5. CASE CompositorStep /\ ReadRequest
  <2>1. UNCHANGED <<counter, pending_acquire, current>>
    BY <1>5 DEF ReadRequest, TakeInitialCommit, TakeAck, AnswerCreated,
       AnswerFailed, TakeCommit, surfaceVars, surfaceFields, timelineVars
  <2> QED
    BY <1>1, <1>5, <2>1, ReadPoints
<1>6. CASE CompositorStep /\ Latch
  <2>1. UNCHANGED <<counter, pending_acquire>>
    BY <1>6 DEF Latch, surfaceVars, surfaceFields, timelineVars
  <2>2. Stream!Show
    BY <1>6, <2>1, LatchPoints DEF Stream!Show, Pipe
  <2> QED
    BY <2>2 DEF Stream!Next
<1>7. CASE EnterDispatch
  <2>1. /\ UNCHANGED <<counter, pending_acquire, cq, current>>
        /\ wire' = wire \o sendbuf /\ sendbuf' = <<>>
    BY <1>7 DEF EnterDispatch, compositorSide, surfaceFields, timelineVars
  <2>2. /\ wire \in Seq(Request) /\ sendbuf \in Seq(Request)
        /\ cq \in Seq(Request)
    BY PipePoints DEF TypeOK, SurfaceTypeOK, CompositorTypeOK
  <2>3. Pipe' = Pipe
    BY <2>1, <2>2 DEF Pipe
  <2> QED
    BY <1>1, <2>1, <2>3
<1>8. CASE UNCHANGED <<counter, pending_acquire, sendbuf, wire, cq, current>>
  BY <1>1, <1>8 DEF Pipe
<1> QED
  BY <1>2, <1>3, <1>4, <1>5, <1>6, <1>7, <1>8 DEF Next, ClientStep,
     Dispatch, LeaveLoop, DispatchReturns, StartFrame, RenderFrame, GoTo,
     AcquireSlot, LoseFrameToTimeout, ResizeImages, KeepImages,
     WaitIdleFails, PrepareBuffer, BufferFails, RecordAndSubmit,
     RecordFails, ExportFails, ExportPanics, ConnectionLost,
     GpuStep, Terminated, CompositorStep, OnCompositor, Configure,
     SendConfigure, SendClose, ReleaseBuffer, Materialise, SignalRelease,
     Drain, vars, surfaceVars, surfaceFields, compositorVars, timelineVars

(***************************************************************************)
(* The frame path implements the frame stream: whatever is coalesced,      *)
(* dropped, failed or lost, a point reaches the screen at most once and    *)
(* never after a later one.                                                *)
(***************************************************************************)
THEOREM FramePathIsStream == Spec => ImplementsFrameStream
<1>1. Init => Stream!Init
  <2> SUFFICES ASSUME Init PROVE Stream!Init
    OBVIOUS
  <2>1. /\ counter = 1 /\ pending_acquire = None /\ current = None
        /\ cq = <<>> /\ wire = <<>> /\ sendbuf = <<[type |-> "initial"]>>
    BY DEF Init, TimelineInit, SurfaceInit, CompositorInit
  <2>2. [type |-> "initial"] \in Request
    BY DEF Request, InitialRequest
  <2>3. cq \o wire \o sendbuf = <<[type |-> "initial"]>>
    BY <2>1
  <2>4. PointsOf(cq \o wire \o sendbuf) = <<>>
    BY <2>2, <2>3, PointsOfFew
  <2> QED
    BY <2>1, <2>4 DEF Stream!Init
<1>2. IInv /\ [Next]_vars => [Stream!Next]_(Stream!streamVars)
  BY StreamStep DEF IInv
<1> QED
  BY <1>1, <1>2, Invariance, PTL DEF Spec, ImplementsFrameStream, Stream!Spec

-----------------------------------------------------------------------------
(* What the refinement brings.                                             *)

Ordering == INSTANCE FrameStreamProofs WITH
    next    <- counter,
    mailbox <- pending_acquire,
    queue   <- PointsOf(cq \o wire \o sendbuf),
    shown   <- IF current = None THEN 0 ELSE current.acquire

(***************************************************************************)
(* The order of points that the stream keeps is kept by the frame path:    *)
(* in the requests not flushed, on the wire, in the compositor's queue and *)
(* on screen, acquire points only go up, and none is in two places.        *)
(***************************************************************************)
THEOREM PointsInOrder == Spec => []Stream!Ordered
<1>1. ImplementsFrameStream => Ordering!Spec
  BY PTL DEF ImplementsFrameStream, Ordering!Spec, Stream!Spec,
     Ordering!Init, Stream!Init, Ordering!Next, Stream!Next,
     Ordering!streamVars, Stream!streamVars, Ordering!Offer, Stream!Offer,
     Ordering!Lose, Stream!Lose, Ordering!Post, Stream!Post,
     Ordering!Withdraw, Stream!Withdraw, Ordering!Show, Stream!Show
<1>2. Ordering!Ordered => Stream!Ordered
  BY DEF Ordering!Ordered, Stream!Ordered
<1> QED
  BY <1>1, <1>2, Ordering!StreamOrdered, FramePathIsStream, PTL
=============================================================================
