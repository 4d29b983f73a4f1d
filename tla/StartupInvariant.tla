-------------------------- MODULE StartupInvariant ---------------------------
(***************************************************************************)
(* The inductive invariant behind the safety properties of StartupSafety.  *)
(***************************************************************************)
EXTENDS StartupSafety

-----------------------------------------------------------------------------
(* What travels between the two sides, oldest first.                       *)

Up == requests \o sendbuf
Down == inbox \o events

Tranche == Seq(Nat)

Dmabuf == "zwp_linux_dmabuf_v1"
SyncobjManager == "wp_linux_drm_syncobj_manager_v1"

PlainRequests == {"get_registry", "sync", "get_default_feedback",
                  "import_timeline", "get_toplevel", "get_surface", "commit"}

RequestMessage ==
    [type : PlainRequests, arg : {None}]
        \cup [type : {"bind"}, arg : [global : Globals, version : Nat]]

EventMessage ==
    [type : {"global"}, arg : Globals]
        \cup [type : {"main_device"}, arg : Devices]
        \cup [type : {"format_table"}, arg : Seq(Entry)]
        \cup [type : {"tranche_formats"}, arg : Seq(Nat)]
        \cup [type : {"done", "error"}, arg : {None}]

MessagesOK ==
    /\ requests \in Seq(RequestMessage) /\ sendbuf \in Seq(RequestMessage)
    /\ inbox \in Seq({e \in EventMessage : e.type \in EventTypes})
    /\ events \in Seq(EventMessage)

-----------------------------------------------------------------------------
(* Globals.                                                                *)

(***************************************************************************)
(* Before the compositor has read get_registry, nothing has happened.      *)
(***************************************************************************)
Unread ==
    /\ Up = <<Message("get_registry", None), Sync>>
    /\ Down = <<>>
    /\ stage \in {"globals", "exited"} /\ ~done
    /\ announced = {} /\ bound = {} /\ offer = None

RegistryRead == ~HasType(Up, "get_registry")

Pending == OfType(Down, {"global"})

ListsOnce(queue, globals) ==
    /\ \A g \in globals : \E i \in DOMAIN queue : queue[i].arg = g
    /\ \A i \in DOMAIN queue :
          /\ queue[i].arg \in globals
          /\ \A j \in DOMAIN queue : queue[i].arg = queue[j].arg => i = j

(***************************************************************************)
(* Every global that is announced is bound, or on its way, and then only   *)
(* once.                                                                   *)
(***************************************************************************)
GlobalsOnce ==
    /\ bound \subseteq announced
    /\ RegistryRead => early \subseteq announced
    /\ ListsOnce(Pending, announced \ bound)

RegistryInv ==
    /\ StartupTypeOK
    /\ MessagesOK
    /\ Unread \/ RegistryRead
    /\ GlobalsOnce

-----------------------------------------------------------------------------
(* The feedback.                                                           *)

Asked == OfType(Up, {"get_default_feedback"})

(***************************************************************************)
(* The feedback is asked for once, by binding dmabuf.                      *)
(***************************************************************************)
FeedbackOnce ==
    /\ Len(Asked) <= 1
    /\ offer # None => Asked = <<>>
    /\ Dmabuf \in bound <=> (Asked # <<>> \/ offer # None)

(***************************************************************************)
(* Until the compositor has answered, nothing of it is there.              *)
(***************************************************************************)
NothingYet ==
    offer = None =>
        /\ Unhandled = <<>>
        /\ main_device = None /\ format_table = None /\ dmabuf_formats = <<>>

(***************************************************************************)
(* A place of the feedback names the m-th pair of the i-th format.         *)
(***************************************************************************)
Names(p, formats, i, m) ==
    /\ EntryAt(p).format = formats[i].code
    /\ EntryAt(p).modifier = formats[i].modifiers[m]

(***************************************************************************)
(* Lists(k), said of any places of the feedback and without naming the     *)
(* first of them: a format or pair listed earlier than another has been    *)
(* mentioned before each mention of the other.                             *)
(***************************************************************************)
InOrder(formats, places) ==
    /\ \A p \in places :
          \E i \in DOMAIN formats : \E m \in DOMAIN formats[i].modifiers :
             Names(p, formats, i, m)
    /\ \A i \in DOMAIN formats :
          /\ formats[i].modifiers # <<>>
          /\ \A m \in DOMAIN formats[i].modifiers :
                \E p \in places : Names(p, formats, i, m)
    /\ \A i, j \in DOMAIN formats :
          formats[i].code = formats[j].code => i = j
    /\ \A i \in DOMAIN formats :
          \A m, n \in DOMAIN formats[i].modifiers :
             formats[i].modifiers[m] = formats[i].modifiers[n] => m = n
    /\ \A i, j \in DOMAIN formats : \A q \in places :
          i < j /\ EntryAt(q).format = formats[j].code =>
             \E p \in places : /\ EntryAt(p).format = formats[i].code
                               /\ Before(p, q)
    /\ \A i \in DOMAIN formats :
          \A m, n \in DOMAIN formats[i].modifiers : \A q \in places :
             m < n /\ Names(q, formats, i, n) =>
                \E p \in places : Names(p, formats, i, m) /\ Before(p, q)

(***************************************************************************)
(* What the handlers have made of the first n events of the feedback.      *)
(***************************************************************************)
Handled(n) ==
    /\ main_device = IF n >= 1 THEN offer.device ELSE None
    /\ n < 2 => format_table = None
    /\ n >= 2 => \/ format_table = offer.table
                 \/ format_table = None /\ faults > 0
    /\ IF format_table = None THEN dmabuf_formats = <<>>
                              ELSE InOrder(dmabuf_formats,
                                           OfferPlaces(n - 2))

FeedbackHandled ==
    offer # None =>
        \E n \in 0..Len(FeedbackEvents(offer)) :
            /\ Unhandled = SubSeq(FeedbackEvents(offer), n + 1,
                                 Len(FeedbackEvents(offer)))
            /\ Handled(n)

-----------------------------------------------------------------------------
(* The roundtrips.                                                         *)

Count(queue, type) == Len(OfType(queue, {type}))

(***************************************************************************)
(* A roundtrip has one sync request under way until it is done.            *)
(***************************************************************************)
OneAnswer ==
    InRoundtrip =>
        Count(Up, "sync") + Count(events, "done") = IF done THEN 0 ELSE 1

(***************************************************************************)
(* A message has none of a type before it.                                 *)
(***************************************************************************)
Ahead(queue, m, type) ==
    \E i \in DOMAIN queue : /\ queue[i] = m
                            /\ \A j \in 1..(i - 1) : queue[j].type # type

(***************************************************************************)
(* The first roundtrip comes back after each of the globals that were      *)
(* there at first was announced.                                           *)
(***************************************************************************)
GlobalInTime ==
    RegistryRead /\ stage = "globals" =>
        \A g \in early :
           \/ g \in bound
           \/ \E i \in DOMAIN inbox : inbox[i] = Message("global", g)
           \/ ~done /\ Ahead(events, Message("global", g), "done")

(***************************************************************************)
(* After that they are bound.                                              *)
(***************************************************************************)
EarlyBound == stage \notin {"globals", "exited"} => early \subseteq bound

(***************************************************************************)
(* No answer comes before an event of the feedback.                        *)
(***************************************************************************)
AnswerLast(queue) ==
    \A i, j \in DOMAIN queue :
        queue[i].type = "done" /\ queue[j].type \in FeedbackTypes => j < i

(***************************************************************************)
(* The second one comes back after the whole feedback.                     *)
(***************************************************************************)
FeedbackInTime ==
    Dmabuf \in early /\ stage = "feedback" =>
        /\ Dmabuf \in bound
        /\ \/ /\ ~done
              /\ ~HasType(events, "done")
              /\ Ahead(Up, Message("get_default_feedback", None), "sync")
           \/ /\ offer # None
              /\ done => OfType(events, FeedbackTypes) = <<>>
              /\ AnswerLast(events)

(***************************************************************************)
(* After that nothing of it is left.                                       *)
(***************************************************************************)
FeedbackComplete ==
    Dmabuf \in early /\ stage \notin {"globals", "feedback"} \cup Stopped =>
        offer # None /\ Unhandled = <<>>

-----------------------------------------------------------------------------
(* The steps after the roundtrips.                                         *)

LateStages == {"renderer", "negotiate", "syncobj", "window", "pipeline",
               "loop"}

StepsInOrder ==
    /\ stage \in LateStages => main_device # None
    /\ stage \in LateStages \ {"renderer", "negotiate"} =>
          buffer_fmt # None /\ Supported(buffer_fmt)
    /\ stage \in LateStages \ {"renderer"} => device_mods # None
    /\ stage \notin {"globals", "feedback", "loop"} => inbox = <<>>
    /\ stage = "window" /\ SyncobjManager \in bound => syncobj_timeline
    /\ surface => stage \in {"pipeline", "loop"} \cup Stopped
    /\ surface /\ stage \in {"pipeline", "loop"} =>
          surface_sync /\ syncobj_timeline

(***************************************************************************)
(* The window is made, with the globals there at first.                    *)
(***************************************************************************)
WindowMade ==
    /\ stage \in {"pipeline", "loop"} /\ WindowGlobals \subseteq early
          => surface
    /\ stage = "panicked" => SyncobjManager \notin early

(***************************************************************************)
(* The compositor hangs up on binding a version of dmabuf that it has not, *)
(* before it reads the request for the feedback.                           *)
(***************************************************************************)
VersionBound ==
    /\ offer # None => version >= 5
    /\ Asked # <<>> =>
          version >= 5 \/ HungUp
             \/ Ahead(Up, Bind(Dmabuf, 5), "get_default_feedback")

(***************************************************************************)
(* The negotiation comes after the device and, with dmabuf among the first *)
(* globals, after the whole feedback.                                      *)
(***************************************************************************)
EarlyStages == {"globals", "feedback", "device", "renderer"}

Negotiated ==
    /\ stage \in EarlyStages => device_mods = None
    /\ stage \in EarlyStages \cup {"negotiate"} => buffer_fmt = None
    /\ device_mods # None =>
          offer # None /\ (Dmabuf \in early => Unhandled = <<>>)
    /\ NegotiatesBestOffer

SInv ==
    /\ RegistryInv
    /\ FeedbackOnce
    /\ NothingYet
    /\ FeedbackHandled
    /\ OneAnswer
    /\ GlobalInTime
    /\ EarlyBound
    /\ FeedbackInTime
    /\ FeedbackComplete
    /\ StepsInOrder
    /\ WindowMade
    /\ VersionBound
    /\ Negotiated
=============================================================================
