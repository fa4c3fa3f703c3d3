------------------------------- MODULE Keypad --------------------------------
(***************************************************************************)
(* keypad.c: one scanner shared by the pin interrupt, two one-shot timers  *)
(* and a task of main_thread.  The pin interrupt may preempt the task once *)
(* the task has enabled it, the timers' interrupt may preempt everything.  *)
(*                                                                         *)
(* A key joins a row to a column.  The port's lines are read as the set of *)
(* columns or rows pulled low by the keys that are down; contacts open and *)
(* close at any time.  The event queue has room for the keypad's tasks:    *)
(* TwoCells says how much.                                                 *)
(***************************************************************************)
EXTENDS Integers, Sequences

CONSTANTS Keys,     \* the keys, records [row, col]
          Samples,  \* KEYPAD_SCAN_SAMPLES
          Byte,     \* 2^8: samples wraps at this value
          MaxMoves  \* bound: contacts opened or closed in a behaviour

ASSUME SampleAssumption == Samples \in Nat \ {0, 1}
ASSUME ByteAssumption == Byte \in Nat /\ Byte > Samples
ASSUME MoveAssumption == MaxMoves \in Nat
\* A key is where its row meets its column.
ASSUME MatrixAssumption == \A j, k \in Keys : j.row = k.row /\ j.col = k.col => j = k

ColumnsOf(keys) == {k.col : k \in keys}
RowsOf(keys) == {k.row : k \in keys}

VARIABLES
    state,           \* keypad_scanner.state
    samples,         \* keypad_scanner.samples
    colmask,         \* keypad_scanner.colmask
    keymask,         \* keymask: columns and rows of the key read
    scanning,        \* "cols" when the columns are inputs, else "rows"
    inten, intif,    \* the pin interrupt's enable and its flag
    scanTimers,      \* registered timers of keypad_scan_timer
    endTimers,       \* registered timers of keypad_scan_end
    queue,           \* the keypad's tasks in the event queue
    pc, reg,         \* main_thread's position in keypad_scan; samples as loaded
    down, moves,     \* the keys whose contact is closed; movements so far
    seen             \* history: keys down when the columns were read

scannerVars == <<state, samples, colmask>>
portVars == <<scanning, inten, intif>>
timerVars == <<scanTimers, endTimers>>
keyVars == <<down, moves>>
vars == <<scannerVars, keymask, portVars, timerVars, queue, pc, reg, keyVars, seen>>

NoMask == [cols |-> {}, rows |-> {}]

\* keypad_init.
Init == /\ state = "IDLE" /\ samples = 0 /\ colmask = {} /\ keymask = NoMask
        /\ scanning = "cols" /\ inten = TRUE /\ intif = FALSE
        /\ scanTimers = 0 /\ endTimers = 0 /\ queue = <<>>
        /\ pc = "loop" /\ reg = 0 /\ down = {} /\ moves = 0
        /\ seen = {}

-----------------------------------------------------------------------------
\* The user.  A falling edge on a column raises the flag, enabled or not.
Move(k) ==
    /\ moves < MaxMoves /\ moves' = moves + 1
    /\ down' = IF k \in down THEN down \ {k} ELSE down \cup {k}
    /\ intif' = (intif \/ (scanning = "cols" /\ ColumnsOf(down') \ ColumnsOf(down) # {}))
    /\ UNCHANGED <<scannerVars, keymask, scanning, inten, timerVars, queue, pc, reg,
                   seen>>

-----------------------------------------------------------------------------
\* Slip: the interrupt stays enabled during the scan.
IsrKeepsEnabled == /\ inten /\ intif
                   /\ intif' = FALSE
                   /\ state' = "COLSCAN" /\ samples' = 0 /\ colmask' = {}
                   /\ scanTimers' = scanTimers + 1
                   /\ UNCHANGED <<keymask, scanning, inten, endTimers, queue, pc, reg, keyVars,
                                  seen>>

\* KEYPAD_ISR; rowmask, which it clears too, is only used where it is read.
PinInterrupt == /\ inten /\ intif
                /\ intif' = FALSE
                /\ state' = "COLSCAN" /\ samples' = 0 /\ colmask' = {}
                /\ inten' = FALSE
                /\ scanTimers' = scanTimers + 1
                /\ UNCHANGED <<keymask, scanning, endTimers, queue, pc, reg, keyVars,
                               seen>>

\* keypad_scan_timer.
ScanTimer == /\ scanTimers > 0
             /\ scanTimers' = scanTimers - 1
             /\ queue' = Append(queue, "scan")
             /\ UNCHANGED <<scannerVars, keymask, portVars, endTimers, pc, reg, keyVars, seen>>

\* keypad_scan_end: the columns become inputs again and the interrupt is on.
ScanEnd == scanning' = "cols" /\ inten' = TRUE

\* Slip: the flag is cleared when the interrupt is enabled again.
EndTimerClearsFlag == /\ endTimers > 0
                      /\ endTimers' = endTimers - 1
                      /\ ScanEnd /\ intif' = FALSE
                      /\ UNCHANGED <<scannerVars, keymask, scanTimers, queue, pc, reg, keyVars,
                                     seen>>

\* keypad_scan_end as the timer's callback.
EndTimer == /\ endTimers > 0
            /\ endTimers' = endTimers - 1
            /\ ScanEnd
            /\ UNCHANGED <<scannerVars, keymask, intif, scanTimers, queue, pc, reg, keyVars,
                           seen>>

-----------------------------------------------------------------------------
\* tasks_run polls keypad_scan, which goes by the scanner's state.  In IDLE it
\* would do nothing: ScanToken says that it never finds it there.
RunScan(s) == /\ pc = "loop" /\ queue # <<>> /\ Head(queue) = "scan"
              /\ state = s
              /\ reg' = 0

LastSample == samples = Samples - 1
BumpedWide == samples + 1  \* Slip: the counter is wider than a byte.
Bumped == (samples + 1) % Byte

\* Slip: of several columns read only one is kept.
ColumnReadOne ==
    /\ RunScan("COLSCAN")
    /\ \E c \in ColumnsOf(down) : colmask' = {c}
    /\ state' = "ROWSCAN" /\ samples' = 1
    /\ scanning' = "rows"
    /\ intif' = (intif \/ ColumnsOf(Keys) # ColumnsOf(down))
    /\ scanTimers' = scanTimers + 1
    /\ queue' = Tail(queue)
    /\ seen' = down
    /\ UNCHANGED <<keymask, inten, endTimers, pc, keyVars>>

\* A column was read: the columns become outputs driven low, an edge for each
\* that was not low already, and the rows are tried next.  samples is reset and
\* then incremented by line 177.
ColumnRead ==
    /\ RunScan("COLSCAN")
    /\ ColumnsOf(down) # {}
    /\ colmask' = ColumnsOf(down)
    /\ state' = "ROWSCAN" /\ samples' = 1
    /\ scanning' = "rows"
    /\ intif' = (intif \/ ColumnsOf(Keys) # ColumnsOf(down))
    /\ scanTimers' = scanTimers + 1
    /\ queue' = Tail(queue)
    /\ seen' = down
    /\ UNCHANGED <<keymask, inten, endTimers, pc, keyVars>>

ColumnRetry ==
    /\ RunScan("COLSCAN")
    /\ ColumnsOf(down) = {} /\ ~LastSample
    /\ colmask' = {}
    /\ samples' = Bumped
    /\ scanTimers' = scanTimers + 1
    /\ queue' = Tail(queue)
    /\ UNCHANGED <<state, keymask, portVars, endTimers, pc, keyVars, seen>>

\* Slip: the last failed sample does not turn the interrupt on again.
ColumnAbortStaysOff ==
    /\ RunScan("COLSCAN")
    /\ ColumnsOf(down) = {} /\ LastSample
    /\ colmask' = {}
    /\ scanning' = "cols"
    /\ pc' = "ended"
    /\ queue' = Tail(queue)
    /\ UNCHANGED <<state, samples, keymask, inten, intif, timerVars, keyVars, seen>>

\* No column: the interrupt is on before samples is incremented.
ColumnAbort ==
    /\ RunScan("COLSCAN")
    /\ ColumnsOf(down) = {} /\ LastSample
    /\ colmask' = {}
    /\ ScanEnd
    /\ pc' = "ended"
    /\ queue' = Tail(queue)
    /\ UNCHANGED <<state, samples, keymask, intif, timerVars, keyVars, seen>>

\* Slip: the scan goes on beside the pause, so a second key may come at once.
RowReadScansOn ==
    /\ RunScan("ROWSCAN")
    /\ RowsOf(down) # {}
    /\ keymask' = [cols |-> colmask, rows |-> RowsOf(down)]
    /\ samples' = Bumped
    /\ queue' = Append(Append(Tail(queue), "scan"), "key")
    /\ UNCHANGED <<state, colmask, portVars, timerVars, pc, keyVars, seen>>

\* A row was read: the key is stored, its handler posted, and the keypad left
\* alone for KEYPAD_REPEAT_RATE.
RowRead ==
    /\ RunScan("ROWSCAN")
    /\ RowsOf(down) # {}
    /\ state' = "IDLE"
    /\ keymask' = [cols |-> colmask, rows |-> RowsOf(down)]
    /\ samples' = Bumped
    /\ endTimers' = endTimers + 1
    /\ queue' = Append(Tail(queue), "key")
    /\ UNCHANGED <<colmask, portVars, scanTimers, pc, keyVars, seen>>

RowRetry ==
    /\ RunScan("ROWSCAN")
    /\ RowsOf(down) = {} /\ ~LastSample
    /\ samples' = Bumped
    /\ scanTimers' = scanTimers + 1
    /\ queue' = Tail(queue)
    /\ UNCHANGED <<state, colmask, keymask, portVars, endTimers, pc, keyVars, seen>>

RowAbort ==
    /\ RunScan("ROWSCAN")
    /\ RowsOf(down) = {} /\ LastSample
    /\ state' = "IDLE"
    /\ ScanEnd
    /\ pc' = "ended"
    /\ queue' = Tail(queue)
    /\ UNCHANGED <<samples, colmask, keymask, intif, timerVars, keyVars, seen>>

\* Line 177 after an abort: samples is loaded, incremented and stored, and the
\* pin interrupt may come in between and start a scan.
LoadSamples == /\ pc = "ended" /\ pc' = "loaded"
               /\ reg' = samples
               /\ UNCHANGED <<scannerVars, keymask, portVars, timerVars, queue, keyVars, seen>>

StoreSamples == /\ pc = "loaded" /\ pc' = "loop"
                /\ samples' = (reg + 1) % Byte
                /\ reg' = 0
                /\ UNCHANGED <<state, colmask, keymask, portVars, timerVars, queue, keyVars,
                               seen>>

\* The key handler's keypad_getc takes the key.
TakeKey == /\ pc = "loop" /\ queue # <<>> /\ Head(queue) = "key"
           /\ keymask' = NoMask
           /\ queue' = Tail(queue)
           /\ UNCHANGED <<scannerVars, portVars, timerVars, pc, reg, keyVars, seen>>

Main == \/ ColumnRead \/ ColumnRetry \/ ColumnAbort
        \/ RowRead \/ RowRetry \/ RowAbort
        \/ LoadSamples \/ StoreSamples
        \/ TakeKey

Next == \/ Main \/ PinInterrupt \/ ScanTimer \/ EndTimer
        \/ \E k \in Keys : Move(k)

\* main_thread polls for ever, interrupts that may be taken are, timers fire.
Spec == /\ Init /\ [][Next]_vars
        /\ WF_vars(Main) /\ WF_vars(PinInterrupt) /\ WF_vars(ScanTimer) /\ WF_vars(EndTimer)

-----------------------------------------------------------------------------
\* Type correctness of the scanner, the port, the queue and the main thread's
\* position.
TypeOK ==
    /\ state \in {"IDLE", "COLSCAN", "ROWSCAN"}
    /\ samples \in 0 .. Byte - 1 /\ reg \in 0 .. Byte - 1
    /\ colmask \subseteq ColumnsOf(Keys)
    /\ keymask \in [cols : SUBSET ColumnsOf(Keys), rows : SUBSET RowsOf(Keys)]
    /\ scanning \in {"cols", "rows"} /\ inten \in BOOLEAN /\ intif \in BOOLEAN
    /\ scanTimers \in Nat /\ endTimers \in Nat
    /\ queue \in Seq({"scan", "key"})
    /\ pc \in {"loop", "ended", "loaded"}
    /\ down \subseteq Keys /\ moves \in 0 .. MaxMoves
    /\ seen \subseteq Keys

\* Exactly one thing is due to go on with the keypad: the enabled interrupt, a
\* timer or a queued scan.  None and the keypad is dead, two and they would
\* scan at once.  A queued or timed scan finds the scanner scanning.
Queued(t) == \E i \in 1 .. Len(queue) : queue[i] = t

ScanToken ==
    /\ inten => scanTimers = 0 /\ endTimers = 0 /\ ~Queued("scan")
    /\ ~inten => \/ scanTimers = 1 /\ endTimers = 0 /\ ~Queued("scan")
                 \/ scanTimers = 0 /\ endTimers = 1 /\ ~Queued("scan")
                 \/ scanTimers = 0 /\ endTimers = 0 /\ Queued("scan")
    /\ scanTimers = 1 \/ Queued("scan") =>
          state = (IF scanning = "cols" THEN "COLSCAN" ELSE "ROWSCAN")

\* The keypad never has more than its handler and then one scan in the queue.
TwoCells == queue \in {<<>>, <<"scan">>, <<"key">>, <<"key", "scan">>}

\* A key is stored only after the handler has taken the one before: the scan
\* that reads it is queued behind that handler.
NoKeyLost == [][keymask' # NoMask /\ keymask' # keymask => keymask = NoMask]_vars

\* Since the columns were read a key in k's column has opened and one in k's row
\* has closed.
Mixed(k) == \E i \in seen \ down, j \in down \ seen : i.col = k.col /\ j.row = k.row

\* A single row and column are "a unique key" (keypad.c:22-23), but they are read
\* at different times and any contact may move between.  The key they stand for
\* was down at one of the two reads; or a key in its column was let go and one in
\* its row pressed between them, and nobody need have touched the key itself.
KeyWasDown ==
    [][\A k \in Keys :
          RowRead /\ keymask' = [cols |-> {k.col}, rows |-> {k.row}]
              => k \in down \cup seen \/ Mixed(k)]_vars

\* Every scan ends with the interrupt enabled again; the one whose sample count
\* an interrupted samples++ (line 177) has overwritten, when the byte has wrapped.
ScanEnds == ~inten ~> inten

\* A key that stays down alone is read, and read again at the repeat rate,
\* whatever bounced before: driving the other columns low raises the flag.  If
\* every column was held when they were read there is no other, and the keypad
\* waits for an edge.
HeldKeyRead ==
    \A k \in Keys :
       <>[](down = {k} /\ ColumnsOf(seen) # ColumnsOf(Keys))
          => []<>(keymask = [cols |-> {k.col}, rows |-> {k.row}])

=============================================================================
