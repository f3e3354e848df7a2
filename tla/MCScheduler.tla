----------------------------- MODULE MCScheduler -----------------------------
(***************************************************************************)
(* Scheduler on a small instance: two devices, of which with run.func one  *)
(* is a timer that arms itself, frames of two or three cycles, a pool of   *)
(* two, and two to four ids for the devices to use up.                     *)
(***************************************************************************)
EXTENDS Scheduler, TLC

MCTags == {1, 2}
MCFrameOnly == {2}
Symmetry == Permutations(Holders)
=============================================================================
