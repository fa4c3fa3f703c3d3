----------------------------- MODULE TaskQueue ------------------------------
(***************************************************************************)
(* tasks.c on top of queue.c: the event queue that carries work from the   *)
(* interrupt handlers to main_thread.  Interrupts post at any moment, also *)
(* between the poll and the callback it returned and while that callback   *)
(* runs; callbacks post too.                                               *)
(***************************************************************************)
EXTENDS RingQueue

VARIABLES running,    \* the callback tasks_run is executing, or NULL
          dropped     \* the last operation was an offer that returned 0

vars == <<items, read, write, running, dropped>>

Init == QueueInit /\ running = NULL /\ dropped = FALSE

\* task_schedule ignores the result of queue_offer: a callback posted to a
\* full queue disappears.
TaskSchedule(t) == /\ \/ OfferAccepted(t) /\ dropped' = FALSE
                      \/ OfferRejected /\ dropped' = TRUE
                   /\ UNCHANGED running

\* tasks_run: poll, then call.  An empty poll returns to main_thread's loop.
TasksRun == /\ running = NULL
            /\ Poll
            /\ running' = items[read]
            /\ dropped' = FALSE

TaskReturns == /\ running # NULL
               /\ running' = NULL
               /\ dropped' = FALSE
               /\ UNCHANGED queueVars

Next == \/ \E t \in Values : TaskSchedule(t)
        \/ TasksRun
        \/ TaskReturns

\* main_thread loops over tasks_run for ever; a callback need not return.
Spec == Init /\ [][Next]_vars /\ WF_vars(TasksRun)

-----------------------------------------------------------------------------
\* Type correctness of the ring's cells and indices, of the running callback
\* and of the result of the last offer.
TypeOK == QueueTypeOK /\ running \in Values \cup {NULL} /\ dropped \in BOOLEAN

\* queue.c keeps no count: the occupied cells must stay one window that starts
\* at read and ends at write, or offer overwrites a task or poll skips one.
RingWindow == Window

Fifo == INSTANCE TaskFifo WITH Tasks <- Values, Capacity <- Size,
                               NoTask <- NULL, pending <- Contents

\* task_schedule and tasks_run implement the bounded FIFO: an accepted task is
\* run at most once and in order, and one is dropped (tasks.c:20 ignores what
\* queue_offer returns) only when Size are waiting.
ImplementsFifo == Fifo!Spec
=============================================================================
