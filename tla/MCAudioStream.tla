---------------------------- MODULE MCAudioStream ----------------------------
(***************************************************************************)
(* AudioStream on a ring of two pairs (of four where a pop() in flight is  *)
(* the question), frames of one pair, of which a turn may push more than   *)
(* the ring holds, and positions that wrap after two rounds of the ring.   *)
(***************************************************************************)
EXTENDS AudioStream
=============================================================================
