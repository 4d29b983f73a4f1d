------------------------- MODULE FrameStreamProofs --------------------------
(***************************************************************************)
(* What a specification gains by implementing FrameStream: points keep     *)
(* their order on the way to the screen.                                   *)
(***************************************************************************)
EXTENDS FrameStream, TLAPS

(***************************************************************************)
(* Every step keeps the variables typed and the points in order.           *)
(***************************************************************************)
LEMMA OrderedStep ==
    ASSUME TypeOK, Ordered, [Next]_streamVars
    PROVE  TypeOK' /\ Ordered'
<1> USE DEF TypeOK
<1>0. /\ DOMAIN queue = 1..Len(queue) /\ Len(queue) \in Nat
      /\ \A i \in DOMAIN queue : queue[i] \in Nat
  OBVIOUS
<1>1. CASE Offer
  <2>1. /\ UNCHANGED <<queue, shown>> /\ mailbox' = next /\ next' = next + 2
    BY <1>1 DEF Offer
  <2> QED
    BY <1>0, <2>1 DEF Ordered
<1>2. CASE Lose
  <2>1. /\ UNCHANGED <<queue, shown, mailbox>> /\ next' = next + 2
    BY <1>2 DEF Lose
  <2> QED
    BY <1>0, <2>1 DEF Ordered
<1>3. CASE Post
  <2>1. /\ mailbox \in Nat /\ mailbox < next /\ shown < mailbox
        /\ \A i \in DOMAIN queue : queue[i] < mailbox
    BY <1>3 DEF Post, Ordered
  <2>2. /\ queue' = Append(queue, mailbox)
        /\ mailbox' = None /\ UNCHANGED <<next, shown>>
    BY <1>3 DEF Post
  <2>3. /\ queue' \in Seq(Nat)
        /\ DOMAIN queue' = 1..(Len(queue) + 1)
        /\ \A i \in 1..Len(queue) : queue'[i] = queue[i]
        /\ queue'[Len(queue) + 1] = mailbox
    BY <2>1, <2>2
  <2>4. \A i \in DOMAIN queue' : i \in 1..Len(queue) \/ i = Len(queue) + 1
    BY <1>0, <2>3
  <2>5. \A i \in DOMAIN queue' : shown < queue'[i] /\ queue'[i] < next
    BY <1>0, <2>1, <2>3, <2>4 DEF Ordered
  <2>6. \A i, j \in DOMAIN queue' : i < j => queue'[i] < queue'[j]
    <3> SUFFICES ASSUME NEW i \in DOMAIN queue', NEW j \in DOMAIN queue', i < j
                 PROVE  queue'[i] < queue'[j]
      OBVIOUS
    <3>1. i \in 1..Len(queue) /\ queue'[i] = queue[i]
      BY <1>0, <2>3, <2>4
    <3>2. CASE j = Len(queue) + 1
      BY <1>0, <2>1, <2>3, <3>1, <3>2
    <3>3. CASE j \in 1..Len(queue)
      BY <1>0, <2>3, <3>1, <3>3 DEF Ordered
    <3> QED
      BY <2>4, <3>2, <3>3
  <2>7. shown' < next' /\ ~(mailbox' # None)
    BY <2>2 DEF Ordered
  <2> QED
    BY <2>2, <2>3, <2>5, <2>6, <2>7 DEF Ordered
<1>4. CASE Withdraw
  BY <1>4 DEF Withdraw, Ordered
<1>5. CASE Show
  <2>1. /\ queue # <<>> /\ queue' = Tail(queue) /\ shown' = queue[1]
        /\ UNCHANGED <<next, mailbox>> /\ Len(queue) > 0
    BY <1>0, <1>5 DEF Show
  <2>2. /\ queue' \in Seq(Nat)
        /\ DOMAIN queue' = 1..(Len(queue) - 1)
        /\ \A i \in 1..(Len(queue) - 1) :
              queue'[i] = queue[i + 1] /\ i + 1 \in 1..Len(queue)
    BY <1>0, <2>1
  <2>3. 1 \in DOMAIN queue
    BY <1>0, <2>1
  <2>4. /\ shown' \in Nat /\ shown' < next
        /\ mailbox # None => shown' < mailbox
    BY <1>0, <2>1, <2>3 DEF Ordered
  <2>5. \A i \in DOMAIN queue' : shown' < queue'[i] /\ queue'[i] < next
    <3> TAKE i \in DOMAIN queue'
    <3>1. i \in Nat /\ 1 < i + 1 /\ i + 1 \in DOMAIN queue
             /\ queue'[i] = queue[i + 1]
      BY <1>0, <2>2
    <3>2. queue[1] < queue[i + 1] /\ queue[i + 1] < next
      BY <2>3, <3>1 DEF Ordered
    <3> QED
      BY <2>1, <3>1, <3>2
  <2>6. \A i, j \in DOMAIN queue' : i < j => queue'[i] < queue'[j]
    <3> SUFFICES ASSUME NEW i \in DOMAIN queue', NEW j \in DOMAIN queue', i < j
                 PROVE  queue'[i] < queue'[j]
      OBVIOUS
    <3>1. i \in 1..(Len(queue) - 1) /\ j \in 1..(Len(queue) - 1)
      BY <2>2
    <3>2. /\ i + 1 \in DOMAIN queue /\ queue'[i] = queue[i + 1]
          /\ j + 1 \in DOMAIN queue /\ queue'[j] = queue[j + 1]
      BY <1>0, <2>2, <3>1
    <3>3. i + 1 < j + 1
      BY <1>0, <3>1
    <3> QED
      BY <3>2, <3>3 DEF Ordered
  <2>7. mailbox # None => /\ mailbox < next
                          /\ \A i \in DOMAIN queue' : queue'[i] < mailbox
    BY <1>0, <2>2 DEF Ordered
  <2> QED
    BY <2>1, <2>2, <2>4, <2>5, <2>6, <2>7 DEF Ordered
<1>6. CASE UNCHANGED streamVars
  BY <1>6 DEF streamVars, Ordered
<1> QED
  BY <1>1, <1>2, <1>3, <1>4, <1>5, <1>6 DEF Next

(***************************************************************************)
(* On the way from the frame closure through commit and the Created        *)
(* handler to the screen, points are never reordered, repeated or made up. *)
(***************************************************************************)
THEOREM StreamOrdered == Spec => []Ordered
<1>1. Init => TypeOK /\ Ordered
  BY DEF Init, TypeOK, Ordered
<1>2. TypeOK /\ Ordered /\ [Next]_streamVars => TypeOK' /\ Ordered'
  BY OrderedStep
<1> QED
  BY <1>1, <1>2, PTL DEF Spec
=============================================================================
