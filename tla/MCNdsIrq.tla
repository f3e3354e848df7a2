------------------------------ MODULE MCNdsIrq ------------------------------
(***************************************************************************)
(* NdsIrq for either CPU and two interrupts, with decoded blocks, which    *)
(* are the default.                                                        *)
(***************************************************************************)
EXTENDS NdsIrq
=============================================================================
