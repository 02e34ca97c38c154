---------------------------- MODULE MCRingQueue ----------------------------
(* A ring of three slots: the smallest in which front, rear and the slot in *)
(* between are different slots.                                             *)
EXTENDS RingQueue, TLC

CONSTANTS a, b, zero

MCValue == {a, b, zero}
=============================================================================
