----------------------------- MODULE AudioQueue -----------------------------
(***************************************************************************)
(* What one audio stream promises, without positions, slots or threads: a  *)
(* bounded queue of stereo pairs.  The emulator appends; the audio thread  *)
(* takes from the front, and only while the stream is open; whatever is    *)
(* thrown away is the oldest.                                              *)
(*                                                                         *)
(* A ramp goes in front only while the stream is closed, and only when at  *)
(* most Limit pairs wait.  Where those and the ramp exceed Limit, it       *)
(* spoils the newest pairs, as many as do not fit and no others.           *)
(*                                                                         *)
(* taken is what the audio thread has copied out so far: it may copy at    *)
(* its leisure, but what it consumes must be what was in front.            *)
(***************************************************************************)
EXTENDS Integers, Sequences

CONSTANTS Limit, RampLength, RampPair

VARIABLES queue, taken, open

queueVars == <<queue, taken, open>>

Init == queue = <<>> /\ taken = <<>> /\ open = FALSE

Add ==
    /\ Len(queue) < Limit
    /\ Len(queue') = Len(queue) + 1
    /\ SubSeq(queue', 1, Len(queue)) = queue
    /\ UNCHANGED <<taken, open>>

Copy == queue # <<>> /\ UNCHANGED <<queue, open>>

Consume ==
    /\ open
    /\ queue = taken \o queue'
    /\ taken' = <<>>
    /\ UNCHANGED open

Discard ==
    /\ \E n \in 1..Len(queue) : queue' = SubSeq(queue, n + 1, Len(queue))
    /\ UNCHANGED <<taken, open>>

Spoil ==
    /\ ~open /\ Len(queue) <= Limit
    /\ queue' = [i \in 1..Len(queue) |-> IF i + RampLength > Limit THEN RampPair ELSE queue[i]]
    /\ UNCHANGED <<taken, open>>

Prepend ==
    /\ ~open /\ Len(queue) <= Limit
    /\ queue' = [i \in 1..RampLength |-> RampPair] \o queue
    /\ UNCHANGED <<taken, open>>

OpenOrClose ==
    /\ open' # open
    /\ UNCHANGED <<queue, taken>>

Next == Add \/ Copy \/ Consume \/ Discard \/ Spoil \/ Prepend \/ OpenOrClose

Spec == Init /\ [][Next]_queueVars
=============================================================================
