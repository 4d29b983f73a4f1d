----------------------------- MODULE Compositor -----------------------------
(***************************************************************************)
(* The compositor, as wayvek uses it (external: xdg-shell, linux-dmabuf    *)
(* and linux-drm-syncobj, version 1).  It configures the window as often   *)
(* as it likes, answers every params.create in order, shows a commit once  *)
(* its acquire point has signalled, and holds a buffer until the next one  *)
(* replaces it.  The release point of a replaced buffer is then added to   *)
(* the timeline, possibly while the last read of the buffer still runs.    *)
(***************************************************************************)
EXTENDS Timeline, Renderer, WaylandSurface

CONSTANT MaxConfigures      \* bound on the configure sequences sent

VARIABLES
    wire,       \* requests flushed by the client, not read yet
    mapped,     \* the initial commit has been read
    sent,       \* configure sequences sent, the serial of the last one
    acked,      \* configure sequences the client has acknowledged
    closed,     \* the close event has been sent
    cq,         \* commits read, waiting for their acquire point
    current,    \* the commit on screen
    retired,    \* replaced, release point not on the timeline yet
    draining    \* release point on the timeline, last read still running

compositorVars == <<wire, mapped, sent, acked, closed, cq, current, retired,
                    draining>>

CompositorTypeOK ==
    /\ wire \in Seq(Request)
    /\ mapped \in BOOLEAN
    /\ sent \in Nat
    /\ acked \in Nat
    /\ closed \in BOOLEAN
    /\ cq \in Seq(Commit)
    /\ current \in Option(Commit)
    /\ retired \subseteq Commit
    /\ draining \subseteq Commit

CompositorInit ==
    /\ wire = <<>>
    /\ mapped = FALSE
    /\ sent = 0
    /\ acked = 0
    /\ closed = FALSE
    /\ cq = <<>>
    /\ current = None
    /\ retired = {}
    /\ draining = {}

(***************************************************************************)
(* The commits whose image the compositor may be reading.                  *)
(***************************************************************************)
Reading == ({current} \ {None}) \cup retired \cup draining

(***************************************************************************)
(* The fence at a point has signalled: it is there and every submission it *)
(* stands for has completed.                                               *)
(***************************************************************************)
Signalled(point) ==
    /\ Available(point)
    /\ \A i \in DOMAIN gpu : gpu[i].point > point

-----------------------------------------------------------------------------
SendConfigure(newSize) ==
    /\ mapped
    /\ sent < MaxConfigures
    /\ sent' = sent + 1
    /\ inbox' = inbox \o <<[type |-> "toplevel", size |-> newSize],
                           [type |-> "configure", serial |-> sent + 1]>>
    /\ UNCHANGED <<wire, mapped, acked, closed, cq, current, retired, draining,
                   surfaceFields, sendbuf, timelineVars, rendererVars>>

SendClose ==
    /\ mapped
    /\ ~closed
    /\ closed' = TRUE
    /\ inbox' = Append(inbox, [type |-> "close"])
    /\ UNCHANGED <<wire, mapped, sent, acked, cq, current, retired, draining,
                   surfaceFields, sendbuf, timelineVars, rendererVars>>

NextRequest(type) ==
    /\ wire # <<>>
    /\ Head(wire).type = type
    /\ wire' = Tail(wire)

TakeInitialCommit ==
    /\ NextRequest("initial")
    /\ mapped' = TRUE
    /\ UNCHANGED <<sent, acked, closed, cq, current, retired, draining,
                   surfaceVars, timelineVars, rendererVars>>

TakeAck ==
    /\ NextRequest("ack")
    /\ acked' = Head(wire).serial
    /\ UNCHANGED <<mapped, sent, closed, cq, current, retired, draining,
                   surfaceVars, timelineVars, rendererVars>>

(***************************************************************************)
(* params.create: the import of the DMA-BUF succeeds or fails.             *)
(***************************************************************************)
AnswerCreated ==
    /\ NextRequest("create")
    /\ inbox' = Append(inbox, [type |-> "created", image |-> Head(wire).image,
                               own |-> Head(wire).own])
    /\ UNCHANGED <<mapped, sent, acked, closed, cq, current, retired, draining,
                   surfaceFields, sendbuf, timelineVars, rendererVars>>

AnswerFailed ==
    /\ NextRequest("create")
    /\ inbox' = Append(inbox, [type |-> "failed"])
    /\ UNCHANGED <<mapped, sent, acked, closed, cq, current, retired, draining,
                   surfaceFields, sendbuf, timelineVars, rendererVars>>

TakeCommit ==
    /\ NextRequest("commit")
    /\ cq' = Append(cq, Head(wire))
    /\ UNCHANGED <<mapped, sent, acked, closed, current, retired, draining,
                   surfaceVars, timelineVars, rendererVars>>

(***************************************************************************)
(* The oldest queued commit becomes current once its acquire point has     *)
(* signalled; the compositor is done with the one before, bar its reads.   *)
(***************************************************************************)
Latch ==
    /\ cq # <<>>
    /\ Signalled(Head(cq).acquire)
    /\ cq' = Tail(cq)
    /\ current' = Head(cq)
    /\ retired' = retired \cup ({current} \ {None})
    /\ UNCHANGED <<wire, mapped, sent, acked, closed, draining,
                   surfaceVars, timelineVars, rendererVars>>

Materialise(commit) ==
    /\ commit \in retired
    /\ SignalRelease(commit.release)
    /\ retired' = retired \ {commit}
    /\ draining' = draining \cup {commit}
    /\ UNCHANGED <<wire, mapped, sent, acked, closed, cq, current,
                   surfaceVars, rendererVars>>

Drain(commit) ==
    /\ commit \in draining
    /\ draining' = draining \ {commit}
    /\ UNCHANGED <<wire, mapped, sent, acked, closed, cq, current, retired,
                   surfaceVars, timelineVars, rendererVars>>
=============================================================================
