------------------------------- MODULE Queues -------------------------------
(***************************************************************************)
(* Queues of messages, which are records with a type.                      *)
(***************************************************************************)
EXTENDS Naturals, Sequences

(***************************************************************************)
(* The messages of some types, in their order.                             *)
(***************************************************************************)
OfType(queue, types) ==
    LET kept[i \in 0..Len(queue)] ==
            IF i = 0 THEN <<>>
            ELSE IF queue[i].type \in types THEN Append(kept[i - 1], queue[i])
            ELSE kept[i - 1]
    IN  kept[Len(queue)]
=============================================================================
