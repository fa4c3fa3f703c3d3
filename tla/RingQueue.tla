----------------------------- MODULE RingQueue ------------------------------
(***************************************************************************)
(* queue.c: a ring of Size cells.  A cell that holds NULL is empty; there  *)
(* is no count of the occupied cells, so full and empty are told apart by  *)
(* the cells alone.  Each operation is one ATOMIC_BLOCK of the code, hence *)
(* one action that any interrupt level or thread may take.                 *)
(***************************************************************************)
EXTENDS Integers, Sequences

CONSTANTS Values,     \* pointers that are queued
          NULL,       \* the null pointer
          Size        \* queue->size

\* A NULL that is offered advances write without filling a cell.
ASSUME NullAssumption == NULL \notin Values
ASSUME SizeAssumption == Size \in Nat \ {0}

VARIABLES items, read, write

queueVars == <<items, read, write>>

Cells == 0 .. Size - 1

\* Slip: the index wraps one cell too late.
NextIdxLate(i) == IF i = Size THEN 0 ELSE i + 1

NextIdx(i) == IF i = Size - 1 THEN 0 ELSE i + 1

QueueInit == /\ items = [c \in Cells |-> NULL]
             /\ read = 0
             /\ write = 0

OfferAccepted(v) == /\ items[write] = NULL
                    /\ items' = [items EXCEPT ![write] = v]
                    /\ write' = NextIdx(write)
                    /\ UNCHANGED read

\* Slip: one cell is kept free, as in a ring that tells full from empty by its
\* indices, and an offer that would fill it is rejected.
OfferRejectedEarly == /\ items[write] # NULL \/ NextIdx(write) = read
                      /\ UNCHANGED queueVars

OfferRejected == /\ items[write] # NULL
                 /\ UNCHANGED queueVars

\* The poll that finds a value; an empty queue makes it return NULL.
Poll == /\ items[read] # NULL
        /\ items' = [items EXCEPT ![read] = NULL]
        /\ read' = NextIdx(read)
        /\ UNCHANGED write

-----------------------------------------------------------------------------
\* The values in the ring, oldest first.

Count == IF items[read] = NULL THEN 0
         ELSE IF read < write THEN write - read
         ELSE Size - read + write

\* The cell i places after read.
Cell(i) == IF read + i < Size THEN read + i ELSE read + i - Size

Contents == [i \in 1 .. Count |-> items[Cell(i - 1)]]

QueueTypeOK == /\ items \in [Cells -> Values \cup {NULL}]
               /\ read \in Cells
               /\ write \in Cells

\* The occupied cells are exactly the Count cells that follow read, so a
\* NULL cell at write means room, one at read means empty, and neither
\* index has run past the other.
Window == /\ Cell(Count) = write
          /\ \A i \in 0 .. Size - 1 : items[Cell(i)] # NULL <=> i < Count
=============================================================================
