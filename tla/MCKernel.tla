------------------------------ MODULE MCKernel -------------------------------
(***************************************************************************)
(* Kernel on a ring that suffices for the thread, the keypad and one cycle *)
(* but not for an extras timer beside them, and stacks with no cell to     *)
(* spare.                                                                  *)
(***************************************************************************)
EXTENDS Kernel

MCValues == Tasks
=============================================================================
