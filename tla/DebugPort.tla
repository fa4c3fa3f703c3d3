----------------------------- MODULE DebugPort ------------------------------
(***************************************************************************)
(* debug.c on a memory pool (mempool.c) and a ring of its own (queue.c):   *)
(* main_thread copies a message into a block and queues it, the USART's    *)
(* interrupt sends it byte by byte, gives the block back and polls for the *)
(* next.  The pool has as many blocks as the ring has cells.               *)
(***************************************************************************)
EXTENDS RingQueue

CONSTANTS Length  \* bytes of a message

ASSUME LengthAssumption == Length \in Nat \ {0}

Blocks == 1 .. Size

ASSUME BlockAssumption == Blocks \subseteq Values

VARIABLES
    refcnt,     \* the blocks' reference counts
    at,         \* __debug_write: "idle", "copied", "offered"
    copied,     \* its block
    status,     \* uart.status
    sent,       \* uart.buf_pos
    sending,    \* uart.buf, or NULL when it is a block given back
    txinten,    \* the interrupt's enable
    exhausted   \* history: a message found no block

portVars == <<status, sent, sending, txinten>>
debugVars == <<queueVars, refcnt, at, copied, portVars, exhausted>>

\* debug_init.
DebugInit == /\ QueueInit
             /\ refcnt = [b \in Blocks |-> 0]
             /\ at = "idle" /\ copied = NULL
             /\ status = "IDLE" /\ sent = 0 /\ sending = NULL /\ txinten = FALSE
             /\ exhausted = FALSE

-----------------------------------------------------------------------------
Free == {b \in Blocks : refcnt[b] = 0}

\* mempool_alloc takes the first free block, or returns NULL.
Allocated(b) == IF Free = {} THEN b = NULL
                ELSE b \in Free /\ \A c \in Free : b <= c

\* mempool_alloc and memcpy: with NULL the message goes to address 1, where
\* the XMEGA has general purpose registers that nobody uses.
DebugWrite == /\ at = "idle" /\ at' = "copied"
              /\ \E b \in Blocks \cup {NULL} :
                    /\ Allocated(b) /\ copied' = b
                    /\ refcnt' = IF b = NULL THEN refcnt ELSE [refcnt EXCEPT ![b] = 1]
              /\ exhausted' = (exhausted \/ Free = {})
              /\ UNCHANGED <<queueVars, portVars>>

\* queue_offer, its result ignored.  A NULL moves write beyond an empty cell.
Offered == /\ at = "copied" /\ at' = "offered"
           /\ OfferAccepted(copied) \/ OfferRejected
           /\ copied' = NULL
           /\ UNCHANGED <<refcnt, portVars, exhausted>>

\* Slip: a transfer begun does not enable the interrupt.
BeginTxSilently ==
    \/ /\ items[read] = NULL
       /\ status' = "IDLE" /\ txinten' = FALSE /\ sending' = NULL
       /\ UNCHANGED <<queueVars, sent>>
    \/ /\ Poll
       /\ status' = "BUSY" /\ sending' = items[read] /\ sent' = 0
       /\ UNCHANGED txinten

\* uart_begin_tx, called with the interrupt disabled.
BeginTx ==
    \/ /\ items[read] = NULL
       /\ status' = "IDLE" /\ txinten' = FALSE /\ sending' = NULL
       /\ UNCHANGED <<queueVars, sent>>
    \/ /\ Poll
       /\ status' = "BUSY" /\ sending' = items[read] /\ sent' = 0
       /\ txinten' = TRUE

Started == /\ at = "offered" /\ at' = "idle"
           /\ \/ status = "IDLE" /\ BeginTx
              \/ status = "BUSY" /\ UNCHANGED <<queueVars, portVars>>
           /\ UNCHANGED <<refcnt, copied, exhausted>>

SendByte == /\ txinten /\ sent + 1 < Length
            /\ sent' = sent + 1
            /\ UNCHANGED <<queueVars, refcnt, at, copied, status, sending, txinten, exhausted>>

\* Slip: the block is not given back.
SendLastKeepsBlock == /\ txinten /\ sent + 1 >= Length
                      /\ BeginTx
                      /\ UNCHANGED <<refcnt, at, copied, exhausted>>

\* mempool_putref, and the next message if there is one.
SendLast == /\ txinten /\ sent + 1 >= Length
            /\ refcnt' = [refcnt EXCEPT ![sending] = @ - 1]
            /\ BeginTx
            /\ UNCHANGED <<at, copied, exhausted>>

\* USARTD0_DRE_vect.
SendInterrupt == SendByte \/ SendLast

DebugNext == DebugWrite \/ Offered \/ Started \/ SendInterrupt

\* __debug_write comes to its end and the port is ready for another byte.
DebugSpec == /\ DebugInit /\ [][DebugNext]_debugVars
             /\ WF_debugVars(Offered \/ Started) /\ WF_debugVars(SendInterrupt)

-----------------------------------------------------------------------------
One(condition) == IF condition THEN 1 ELSE 0

\* As long as no message finds the pool empty, a block's count is the number of
\* parties that have it: the writer, the ring, the interrupt.  Too small and it
\* is overwritten while it is sent, too large and it is lost.
BlocksAccounted ==
    ~exhausted => \A b \in Blocks :
        refcnt[b] = One(copied = b) + One(\E c \in Cells : items[c] = b) + One(sending = b)

\* As long as no message finds the pool empty, each is sent.  Once one has, the
\* NULL that is queued in its place stops the port before the messages behind
\* it, for good if the writer meets the others first.
MessagesSent ==
    []~exhausted => \A b \in Blocks : (copied = b) ~> (sending = b)
=============================================================================
