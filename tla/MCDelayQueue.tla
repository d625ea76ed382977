---------------------------- MODULE MCDelayQueue ----------------------------
(* DelayQueue on three calls of Offer, one of them made by the wheel's loop. *)
EXTENDS DelayQueue

CONSTANTS i1, i2, i3

MCItem == {i1, i2, i3}
MCLoopItem == {i3}
MCPrio == 0 .. 2
=============================================================================
