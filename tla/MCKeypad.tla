------------------------------ MODULE MCKeypad ------------------------------
(***************************************************************************)
(* Keypad with two rows and two columns and a narrow sample counter.       *)
(***************************************************************************)
EXTENDS Keypad

MCKeys == [row : {1, 2}, col : {1, 2}]
=============================================================================
