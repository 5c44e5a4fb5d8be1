---------------------------- MODULE MCInterrupts ----------------------------
(* One channel, which is a wire with a script of two bytes on top, and a   *)
(* load of the two sources above the disk that but for those is just below *)
(* what the CPU can take: three iterations a handler, six between wire     *)
(* polls and at least seven between ticks.                                 *)
EXTENDS VectorGuest

MCChain == <<"A">>
MCChip == [c \in {"A"} |-> 0]
=============================================================================
