----------------------------- MODULE MCBlockCache ---------------------------
(***************************************************************************)
(* BlockCache for the two CPUs of the NDS.                                 *)
(***************************************************************************)
EXTENDS BlockCache, TLC

Symmetry == Permutations(Cpus)
=============================================================================
