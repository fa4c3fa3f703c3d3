---------------------------- MODULE MCTwiMaster -----------------------------
(***************************************************************************)
(* TwiMaster with the transfers of ds2483.c: a command, a command with its *)
(* argument, a register read; and one that reads two bytes.                *)
(***************************************************************************)
EXTENDS TwiMaster

MCTransfers == {[tx |-> 1, rx |-> 0], [tx |-> 2, rx |-> 0], [tx |-> 2, rx |-> 1],
                [tx |-> 1, rx |-> 2]}
=============================================================================
