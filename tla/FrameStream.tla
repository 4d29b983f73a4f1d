---------------------------- MODULE FrameStream -----------------------------
(***************************************************************************)
(* What the frame path promises the screen, with slots, images, buffers    *)
(* and messages left out.  Frames are known by their acquire points, drawn *)
(* from an ever growing supply.  A finished frame is offered in a mailbox  *)
(* that holds one: a newer frame replaces an offer nobody took.  Offers    *)
(* that are taken are posted, in order, and shown, in order.  So a point   *)
(* is shown at most once, never after a later one and never invented.      *)
(***************************************************************************)
EXTENDS Naturals, Sequences

CONSTANT None

VARIABLES
    next,       \* the point the next frame will take
    mailbox,    \* the frame on offer
    queue,      \* frames posted, not shown yet
    shown       \* the frame on screen, 0 for none

streamVars == <<next, mailbox, queue, shown>>

Init ==
    /\ next = 1
    /\ mailbox = None
    /\ queue = <<>>
    /\ shown = 0

(***************************************************************************)
(* A frame is finished; it is offered, or lost to an error.                *)
(***************************************************************************)
Offer ==
    /\ mailbox' = next
    /\ next' = next + 2
    /\ UNCHANGED <<queue, shown>>

Lose ==
    /\ next' = next + 2
    /\ UNCHANGED <<mailbox, queue, shown>>

(***************************************************************************)
(* The window system answers: the offer is posted, or withdrawn.           *)
(***************************************************************************)
Post ==
    /\ mailbox # None
    /\ queue' = Append(queue, mailbox)
    /\ mailbox' = None
    /\ UNCHANGED <<next, shown>>

Withdraw ==
    /\ mailbox # None
    /\ mailbox' = None
    /\ UNCHANGED <<next, queue, shown>>

Show ==
    /\ queue # <<>>
    /\ shown' = Head(queue)
    /\ queue' = Tail(queue)
    /\ UNCHANGED <<next, mailbox>>

Next == Offer \/ Lose \/ Post \/ Withdraw \/ Show

Spec == Init /\ [][Next]_streamVars

-----------------------------------------------------------------------------
TypeOK ==
    /\ next \in Nat
    /\ mailbox \in Nat \cup {None}
    /\ queue \in Seq(Nat)
    /\ shown \in Nat

(***************************************************************************)
(* Points only go up on their way to the screen: what is shown is older    *)
(* than what is queued, which is older than what is on offer, and each     *)
(* point is in one place only.                                             *)
(***************************************************************************)
Ordered ==
    /\ \A i \in DOMAIN queue : shown < queue[i] /\ queue[i] < next
    /\ \A i, j \in DOMAIN queue : i < j => queue[i] < queue[j]
    /\ shown < next
    /\ mailbox # None =>
          /\ mailbox < next
          /\ shown < mailbox
          /\ \A i \in DOMAIN queue : queue[i] < mailbox
=============================================================================
