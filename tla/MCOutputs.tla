----------------------------- MODULE MCOutputs ------------------------------
(***************************************************************************)
(* Outputs with two places on the display, a counter of ten, three blocks  *)
(* and cells, and a target of 113 degrees F, 720: readings far below it,   *)
(* where its laws wind the integral up, just above it and far above.       *)
(***************************************************************************)
EXTENDS Outputs

MCTemps == {-720, 600, 730, 870}
MCTexts == {<<>>, <<".", ":", "1">>}
MCValues == Blocks
=============================================================================
