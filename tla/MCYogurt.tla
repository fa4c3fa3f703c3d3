------------------------------ MODULE MCYogurt ------------------------------
(***************************************************************************)
(* Yogurt with two-second minutes, a counter of two one-bit bytes and room *)
(* for every task in the queue.                                            *)
(***************************************************************************)
EXTENDS Yogurt

MCCycles == {3}
=============================================================================
