------------------------------ MODULE WordLink ------------------------------
(***************************************************************************)
(* What the FIFO from one CPU of the NDS to the other promises: a bounded  *)
(* queue of words.  got is what a receiver reads when there is nothing to  *)
(* take: the last word it took, or Nothing after a flush.                  *)
(***************************************************************************)
EXTENDS Naturals, Sequences

CONSTANTS Words, Nothing, Limit

VARIABLES queue, got

linkVars == <<queue, got>>

Init == queue = <<>> /\ got = Nothing

Put ==
    /\ Len(queue) < Limit
    /\ \E w \in Words : queue' = Append(queue, w)
    /\ UNCHANGED got

Take ==
    /\ queue # <<>>
    /\ got' = Head(queue)
    /\ queue' = Tail(queue)

Flush == queue' = <<>> /\ got' = Nothing

Next == Put \/ Take \/ Flush

Spec == Init /\ [][Next]_linkVars
=============================================================================
