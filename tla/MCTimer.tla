------------------------------ MODULE MCTimer -------------------------------
(***************************************************************************)
(* TimerList with few timers and a narrow counter: a periodic timer due at *)
(* every count, and a one-shot one that waits for several.                 *)
(***************************************************************************)
EXTENDS TimerList

CONSTANTS p, q

MCRequests == {[cb |-> p, freq |-> 1, lifetime |-> TIMER_RUN_UNLIMITED],
               [cb |-> q, freq |-> 3, lifetime |-> 1]}
=============================================================================
