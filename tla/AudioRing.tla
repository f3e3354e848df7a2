------------------------------ MODULE AudioRing ------------------------------
(***************************************************************************)
(* audio_output_ring (jocasta-lib helpers/audio_ring.h): a ring of stereo  *)
(* pairs between the emulator thread, which pushes, and the audio thread,  *)
(* which pops.  The positions are u32 that only ever grow, modulo 2^32;    *)
(* here they wrap at Width.  Every definition below is one access to the   *)
(* shared memory; the modules that use the ring order them.                *)
(*                                                                         *)
(* A sample is the era of the emulated sound it belongs to, or Ramp for    *)
(* the start-up ramp, or Silence.                                          *)
(***************************************************************************)
EXTENDS Integers, Sequences

CONSTANTS
    Capacity,  \* stereo pairs in the ring, a power of two
    Width      \* positions wrap here (2^32 in the code)

ASSUME RingAssumption ==
    /\ Capacity \in Nat \ {0} /\ Width \in Nat
    /\ Width > Capacity /\ Width % Capacity = 0

VARIABLES data, writePos, readPos

ringVars == <<data, writePos, readPos>>

Eras == {0, 1}
Ramp == 2
Silence == 3
Samples == Eras \cup {Ramp, Silence}
Pair == [l : Samples, r : Samples]

Wrap(position) == position % Width
Slot(position) == position % Capacity

\* queued() and available(): w - r in u32.
Queued == Wrap(writePos - readPos)
\* Mutant: one pair too many.
FullMutant == Queued > Capacity
Full == Queued >= Capacity

\* What the consumer has yet to hear, oldest first.
Live == [i \in 1..Queued |-> data[Slot(readPos + i - 1)]]

RingInit ==
    /\ data = [i \in 0..(Capacity - 1) |-> [l |-> Silence, r |-> Silence]]
    /\ writePos = 0
    /\ readPos = 0

(* push(), past the test for a full ring: two stores and the publication.  *)
WriteLeft(s) == data' = [data EXCEPT ![Slot(writePos)].l = s]
WriteRight(s) == data' = [data EXCEPT ![Slot(writePos)].r = s]
Publish == writePos' = Wrap(writePos + 1)

(* The stores to read_pos: drain() takes the write position it loaded,     *)
(* keep_latest() steps back from it, pop() moves past what it copied, and  *)
(* prepend_ramp() steps back in front of the pairs it wrote.               *)
DrainTo(w) == readPos' = w
KeepLatest(keep) == readPos' = Wrap(writePos - keep)
Consume(r, count) == readPos' = Wrap(r + count)
StepBack(pad) == readPos' = Wrap(readPos - pad)

(* prepend_ramp() writes `pad' pairs behind the read position.             *)
WriteRamp(pad) ==
    LET behind == {Slot(readPos - pad + i) : i \in 0..(pad - 1)} IN
    data' = [i \in DOMAIN data |->
               IF i \in behind THEN [l |-> Ramp, r |-> Ramp] ELSE data[i]]

RingTypeOK ==
    /\ data \in [0..(Capacity - 1) -> Pair]
    /\ writePos \in 0..(Width - 1)
    /\ readPos \in 0..(Width - 1)
=============================================================================
