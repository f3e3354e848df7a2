------------------------------ MODULE MCNdsIpc ------------------------------
(***************************************************************************)
(* NdsIpc with FIFOs of three words and two words to send.                 *)
(***************************************************************************)
EXTENDS NdsIpc
=============================================================================
