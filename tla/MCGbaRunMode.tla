---------------------------- MODULE MCGbaRunMode ----------------------------
(***************************************************************************)
(* GbaRunMode with the DMA channels 1 (sound FIFO) and 3 (video capture),  *)
(* and the control values that matter for them.                            *)
(***************************************************************************)
EXTENDS GbaRunMode

Control(timing, repeat, irq) ==
    [enable |-> TRUE, timing |-> timing, repeat |-> repeat, irq |-> irq]

ControlValues ==
    {Control(0, FALSE, TRUE), Control(0, TRUE, FALSE), Control(1, FALSE, FALSE),
     Control(2, TRUE, FALSE), Control(3, TRUE, FALSE),
     [Control(0, FALSE, FALSE) EXCEPT !.enable = FALSE]}
=============================================================================
