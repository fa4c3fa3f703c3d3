------------------------------ MODULE TaskFifo ------------------------------
(***************************************************************************)
(* What tasks.c promises its callers, whatever the event queue is made of: *)
(* callbacks posted while there is room are run one at a time, each once,  *)
(* in the order they were posted.  A callback is dropped only while        *)
(* Capacity are waiting: a drop is an outcome of its own here, so that one *)
(* with room left is no behaviour of this specification.                   *)
(***************************************************************************)
EXTENDS Naturals, Sequences

CONSTANTS Tasks,      \* callbacks that may be posted
          Capacity,   \* callbacks that can wait
          NoTask      \* no callback is running

VARIABLES pending,    \* the callbacks that wait, oldest first
          running,    \* the callback main_thread is executing, or NoTask
          dropped     \* the last operation was a post that was dropped

vars == <<pending, running, dropped>>

Init == /\ pending = <<>>
        /\ running = NoTask
        /\ dropped = FALSE

Accept(t) == /\ Len(pending) < Capacity
             /\ pending' = Append(pending, t)
             /\ dropped' = FALSE
             /\ UNCHANGED running

Drop == /\ Len(pending) = Capacity
        /\ dropped' = TRUE
        /\ UNCHANGED <<pending, running>>

Run == /\ running = NoTask
       /\ pending # <<>>
       /\ running' = Head(pending)
       /\ pending' = Tail(pending)
       /\ dropped' = FALSE

Return == /\ running # NoTask
          /\ running' = NoTask
          /\ dropped' = FALSE
          /\ UNCHANGED pending

Next == \/ \E t \in Tasks : Accept(t)
        \/ Drop
        \/ Run
        \/ Return

\* A callback need not return, so nothing is promised of when one runs.
Spec == Init /\ [][Next]_vars
=============================================================================
