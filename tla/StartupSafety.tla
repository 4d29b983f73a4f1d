--------------------------- MODULE StartupSafety ----------------------------
(***************************************************************************)
(* What makes the start-up correct: the negotiation works on the whole     *)
(* feedback, in the compositor's order, picks the pair it should, and the  *)
(* loop starts with everything a frame needs.                              *)
(*                                                                         *)
(* The list of formats is compared with the feedback as the compositor     *)
(* sent it: the places <<tranche, position>> of its tranches.              *)
(***************************************************************************)
EXTENDS Startup

EntryAt(p) == offer.table[offer.tranches[p[1]][p[2]] + 1]

(***************************************************************************)
(* The places of the first k tranches that name a format one can use.      *)
(***************************************************************************)
OfferPlaces(k) ==
    {p \in UNION {{t} \X DOMAIN offer.tranches[t] : t \in 1..k} :
        /\ offer.tranches[p[1]][p[2]] < Len(offer.table)
        /\ EntryAt(p).format \in KnownFourccs}

Before(p, q) == NotAfter(p, q) /\ p # q

(***************************************************************************)
(* Where the first k tranches first mention a format, and a pair.          *)
(***************************************************************************)
FirstOfFormat(k, code) ==
    First({p \in OfferPlaces(k) : EntryAt(p).format = code})

FirstOfPair(k, pair) == First({p \in OfferPlaces(k) : EntryAt(p) = pair})

(***************************************************************************)
(* dmabuf_formats lists the offers of the first k tranches: those pairs    *)
(* and no others, each once, formats in the order of their first mention   *)
(* and the modifiers of each in the order of theirs.                       *)
(***************************************************************************)
Lists(k) ==
    LET pair(i, j) == PairAt(dmabuf_formats, <<i, j>>)
    IN  /\ {PairAt(dmabuf_formats, p) : p \in Places(dmabuf_formats)}
              = {EntryAt(p) : p \in OfferPlaces(k)}
        /\ \A i, j \in DOMAIN dmabuf_formats :
              i < j => Before(FirstOfFormat(k, dmabuf_formats[i].code),
                              FirstOfFormat(k, dmabuf_formats[j].code))
        /\ \A i \in DOMAIN dmabuf_formats :
              \A m, n \in DOMAIN dmabuf_formats[i].modifiers :
                 m < n => Before(FirstOfPair(k, pair(i, m)),
                                 FirstOfPair(k, pair(i, n)))

(***************************************************************************)
(* The tranches handled so far: none without a table; with one, what is    *)
(* still to come of the feedback is tranches only.                         *)
(***************************************************************************)
FeedbackTypes == {"main_device", "format_table", "tranche_formats"}

Unhandled == OfType(inbox \o events, FeedbackTypes)

HandledTranches ==
    IF format_table = None THEN 0
                           ELSE Len(offer.tranches) - Len(Unhandled)

(***************************************************************************)
(* The formats advertised are, in tranche order (dmabuf.rs:80), those of   *)
(* exactly the tranches handled so far, however these repeat entries,      *)
(* point past the table or name unknown formats (add_wayland_modifier);    *)
(* without a table there are none.                                         *)
(***************************************************************************)
AdvertisesInTrancheOrder ==
    IF offer = None THEN dmabuf_formats = <<>>
    ELSE /\ HandledTranches \in 0..Len(offer.tranches)
         /\ Lists(HandledTranches)

AllTranches == IF format_table = None THEN 0 ELSE Len(offer.tranches)

(***************************************************************************)
(* main does not go past the roundtrips before it has handled the whole    *)
(* feedback, when dmabuf is among the globals announced at first; a table  *)
(* that cannot be mapped leaves it with no format.                         *)
(***************************************************************************)
WholeFeedbackNegotiated ==
    stage \notin {"globals", "feedback"} \cup Stopped
    /\ "zwp_linux_dmabuf_v1" \in early =>
        /\ offer # None
        /\ main_device = offer.device
        /\ Lists(AllTranches)

Common(k) == {p \in OfferPlaces(k) : Supported(EntryAt(p))}

(***************************************************************************)
(* In the order of the list: by format, then by modifier.                  *)
(***************************************************************************)
Precedes(k, p, q) ==
    LET P == EntryAt(p)
        Q == EntryAt(q)
    IN  IF P.format = Q.format
        THEN Before(FirstOfPair(k, P), FirstOfPair(k, Q))
        ELSE Before(FirstOfFormat(k, P.format), FirstOfFormat(k, Q.format))

(***************************************************************************)
(* Of the pairs that both sides have, a tiled one if there is any, and of  *)
(* these the first.                                                        *)
(***************************************************************************)
Best(k, pair) ==
    \E p \in Common(k) :
       /\ EntryAt(p) = pair
       /\ \A q \in Common(k) :
             /\ Tiled(EntryAt(q)) => Tiled(EntryAt(p))
             /\ Tiled(EntryAt(q)) = Tiled(EntryAt(p)) => ~Precedes(k, q, p)

(***************************************************************************)
(* The tranches the negotiation can have worked on: all of them when       *)
(* dmabuf is among the first globals, else those handled at that moment;   *)
(* only the loop, that is after a success, handles more.                   *)
(***************************************************************************)
Negotiable ==
    {k \in 0..HandledTranches :
        /\ "zwp_linux_dmabuf_v1" \in early => k = AllTranches
        /\ stage \notin {"loop", "exited"} \/ buffer_fmt = None
              => k = HandledTranches}

(***************************************************************************)
(* negotiate takes the best pair of the offer (lib.rs:54-56), and it fails *)
(* only when both sides have none in common, in particular when the table  *)
(* could not be mapped.                                                    *)
(***************************************************************************)
NegotiatesBestOffer ==
    device_mods # None =>
        \E k \in Negotiable :
           /\ buffer_fmt # None => Best(k, buffer_fmt)
           /\ stage = "exited" /\ buffer_fmt = None => Common(k) = {}

WindowGlobals == {"wl_compositor", "xdg_wm_base"}

(***************************************************************************)
(* main gets past "no main DRM device" only with a compositor whose dmabuf *)
(* is of version 5 (it binds no other), and when the loop starts the       *)
(* renderer has a format its device supports and there is a dmabuf global  *)
(* to wrap images with.  The window is made unless one of its globals was  *)
(* not among the first, and has its synchronization object and an imported *)
(* timeline, without which the Created handler would drop every frame      *)
(* (mod.rs:372-387); main panics only when the syncobj manager was not     *)
(* among the first.                                                        *)
(***************************************************************************)
LoopStartsReady ==
    /\ stage \in {"renderer", "negotiate", "syncobj", "window", "pipeline",
                  "loop"} => version >= 5
    /\ stage \in {"pipeline", "loop"} =>
          /\ buffer_fmt # None /\ Supported(buffer_fmt)
          /\ "zwp_linux_dmabuf_v1" \in bound
          /\ WindowGlobals \subseteq early => surface
          /\ surface => surface_sync /\ syncobj_timeline
    /\ stage = "panicked" => "wp_linux_drm_syncobj_manager_v1" \notin early

-----------------------------------------------------------------------------
(***************************************************************************)
(* The two roundtrips come back, with their answers or with an error, and  *)
(* main gets through: the initial commit of the window reaches the         *)
(* compositor, main stops, or it waits in its loop without a window, which *)
(* LoopStartsReady allows only for want of a global.                       *)
(***************************************************************************)
StartupEnds ==
    <>(window \/ stage \in Stopped \/ (stage = "loop" /\ ~surface))

NothingNegotiated ==
    stage = "exited" /\ device_mods # None /\ buffer_fmt = None

(***************************************************************************)
(* On a compositor that announces every global at first, with a dmabuf     *)
(* version the program can bind, the initial commit arrives unless a call  *)
(* fails or the negotiation finds nothing, which NegotiatesBestOffer       *)
(* allows only when there is nothing.                                      *)
(***************************************************************************)
WindowRequested ==
    early = Globals /\ version >= 5
        => <>(window \/ faults > 0 \/ NothingNegotiated)
=============================================================================
