---------------------------- MODULE KeypadProofs ----------------------------
(***************************************************************************)
(* What Keypad promises for every matrix of keys, number of samples and    *)
(* width of their counter: the one thing that is due to go on with the     *)
(* keypad, the room it needs in the event queue, that no key replaces one  *)
(* that was not taken yet, and how one can be stored that was not down.    *)
(***************************************************************************)
EXTENDS Keypad, SequenceTheorems, TLAPS

-----------------------------------------------------------------------------
\* While a key is stored its handler is the first of the keypad's tasks, so
\* the scan that could replace it is behind that handler.
KeyFirst == keymask # NoMask => queue # <<>> /\ Head(queue) = "key"

\* The interrupt is only on while the columns are inputs.
IntOnColumns == inten => scanning = "cols"

\* While the rows are tried, colmask is that of the keys that were down when the
\* columns were read.
ColumnsSeen == state = "ROWSCAN" => colmask = ColumnsOf(seen)

\* The inductive invariant.
IInv == TypeOK /\ ScanToken /\ TwoCells /\ KeyFirst /\ IntOnColumns

\* Of the four queues the keypad can have, two hold a scan, and what
\* tasks_run and task_schedule make of each is again one of the four.
LEMMA QueueShapes ==
    ASSUME TwoCells
    PROVE  /\ Queued("scan") <=> queue \in {<<"scan">>, <<"key", "scan">>}
           /\ Queued("scan") /\ Head(queue) = "scan" => queue = <<"scan">>
           /\ queue # <<>> /\ Head(queue) = "scan" => queue = <<"scan">>
           /\ ~Queued("scan") => queue \in {<<>>, <<"key">>}
<1>1. CASE queue = <<>>
  BY <1>1 DEF Queued
<1>2. CASE queue = <<"scan">>
  BY <1>2 DEF Queued
<1>3. CASE queue = <<"key">>
  BY <1>3 DEF Queued
<1>4. CASE queue = <<"key", "scan">>
  <2>1. queue[2] = "scan" /\ 2 \in 1 .. Len(queue)
    BY <1>4
  <2> QED
    BY <1>4, <2>1 DEF Queued
<1> QED
  BY <1>1, <1>2, <1>3, <1>4 DEF TwoCells

LEMMA Shapes ==
    /\ Tail(<<"scan">>) = <<>> /\ Tail(<<"key">>) = <<>>
    /\ Append(<<>>, "scan") = <<"scan">> /\ Append(<<>>, "key") = <<"key">>
    /\ Append(<<"key">>, "scan") = <<"key", "scan">>
    /\ Tail(<<"key", "scan">>) = <<"scan">>
<1>1. Tail(<<"scan">>) = <<>>
  OBVIOUS
<1>2. Tail(<<"key">>) = <<>>
  OBVIOUS
<1>3. Append(<<>>, "scan") = <<"scan">>
  OBVIOUS
<1>4. Append(<<>>, "key") = <<"key">>
  OBVIOUS
<1>5. Append(<<"key">>, "scan") = <<"key", "scan">>
  <2> DEFINE s == Append(<<"key">>, "scan")
             t == <<"key", "scan">>
  <2>1. s \in Seq({"scan", "key"}) /\ t \in Seq({"scan", "key"})
    OBVIOUS
  <2>2. Len(s) = Len(t) /\ Len(s) = 2
    OBVIOUS
  <2>3. s[1] = t[1] /\ s[2] = t[2]
    OBVIOUS
  <2>4. \A i \in 1 .. Len(s) : s[i] = t[i]
    BY <2>2, <2>3
  <2> QED
    BY <2>1, <2>2, <2>4, SeqEqual
<1>6. Tail(<<"key", "scan">>) = <<"scan">>
  OBVIOUS
<1> QED
  BY <1>1, <1>2, <1>3, <1>4, <1>5, <1>6

\* What a task that runs keypad_scan finds: no other token, and no key stored.
LEMMA AtScan ==
    ASSUME IInv, NEW s, RunScan(s)
    PROVE  /\ queue = <<"scan">> /\ Tail(queue) = <<>>
           /\ ~inten /\ scanTimers = 0 /\ endTimers = 0
           /\ keymask = NoMask
           /\ scanning = "cols" <=> s = "COLSCAN"
<1>1. queue = <<"scan">> /\ Queued("scan")
  BY QueueShapes DEF IInv, RunScan
<1>2. Tail(queue) = <<>>
  BY <1>1, Shapes
<1>3. ~inten /\ scanTimers = 0 /\ endTimers = 0
  BY <1>1 DEF IInv, ScanToken, TypeOK
<1>4. keymask = NoMask
  BY <1>1 DEF IInv, KeyFirst
<1>5. scanning = "cols" <=> s = "COLSCAN"
  BY <1>1 DEF IInv, ScanToken, RunScan, TypeOK
<1> QED
  BY <1>1, <1>2, <1>3, <1>4, <1>5

\* keypad_init leaves the interrupt as the only token.
LEMMA InitHolds == Init => IInv
<1> SUFFICES ASSUME Init
             PROVE  IInv
  OBVIOUS
<1>1. TypeOK
  <2>1. keymask \in [cols : SUBSET ColumnsOf(Keys), rows : SUBSET RowsOf(Keys)]
    BY DEF Init, NoMask
  <2>2. 0 \in 0 .. Byte - 1 /\ 0 \in 0 .. MaxMoves
    BY SampleAssumption, ByteAssumption, MoveAssumption
  <2>3. queue \in Seq({"scan", "key"})
    BY DEF Init
  <2> QED
    BY <2>1, <2>2, <2>3 DEF Init, TypeOK
<1>2. TwoCells /\ KeyFirst /\ IntOnColumns
  BY DEF Init, TwoCells, KeyFirst, IntOnColumns
<1>3. ~Queued("scan")
  BY <1>2, QueueShapes DEF Init
<1>4. ScanToken
  BY <1>3 DEF Init, ScanToken
<1> QED
  BY <1>1, <1>2, <1>4 DEF IInv

\* The token is where the next state's variables say, once the next queue is
\* one of the four.
TokenFrom(q, on, st, et, s, sc) ==
    LET scan == q \in {<<"scan">>, <<"key", "scan">>}
    IN  /\ on => st = 0 /\ et = 0 /\ ~scan
        /\ ~on => \/ st = 1 /\ et = 0 /\ ~scan
                  \/ st = 0 /\ et = 1 /\ ~scan
                  \/ st = 0 /\ et = 0 /\ scan
        /\ st = 1 \/ scan => s = (IF sc = "cols" THEN "COLSCAN" ELSE "ROWSCAN")

LEMMA TokenShape ==
    ASSUME TwoCells
    PROVE  ScanToken <=> TokenFrom(queue, inten, scanTimers, endTimers, state, scanning)
  BY QueueShapes DEF ScanToken, TokenFrom

LEMMA TokenShapeNext ==
    ASSUME TwoCells'
    PROVE  ScanToken' <=> TokenFrom(queue', inten', scanTimers', endTimers', state', scanning')
<1>1. Queued("scan")' <=> queue' \in {<<"scan">>, <<"key", "scan">>}
  <2>1. CASE queue' = <<>>
    BY <2>1 DEF Queued
  <2>2. CASE queue' = <<"scan">>
    BY <2>2 DEF Queued
  <2>3. CASE queue' = <<"key">>
    BY <2>3 DEF Queued
  <2>4. CASE queue' = <<"key", "scan">>
    <3>1. queue'[2] = "scan" /\ 2 \in 1 .. Len(queue')
      BY <2>4
    <3> QED
      BY <2>4, <3>1 DEF Queued
  <2> QED
    BY <2>1, <2>2, <2>3, <2>4 DEF TwoCells
<1> QED
  BY <1>1 DEF ScanToken, TokenFrom

\* Every action keeps the invariant: the parts first, put together here.
LEMMA Together ==
    ASSUME TwoCells', KeyFirst', IntOnColumns',
           TokenFrom(queue', inten', scanTimers', endTimers', state', scanning'),
           queue' \in Seq({"scan", "key"}) => TypeOK'
    PROVE  IInv'
<1>1. queue' \in Seq({"scan", "key"})
  <2>1. CASE queue' = <<>>
    BY <2>1
  <2>2. CASE queue' = <<"scan">>
    BY <2>2
  <2>3. CASE queue' = <<"key">>
    BY <2>3
  <2>4. CASE queue' = <<"key", "scan">>
    BY <2>4
  <2> QED
    BY <2>1, <2>2, <2>3, <2>4 DEF TwoCells
<1> QED
  BY <1>1, TokenShapeNext DEF IInv

\* samples stays a byte, whichever value is incremented.
LEMMA ByteKept ==
    ASSUME NEW x \in 0 .. Byte - 1
    PROVE  (x + 1) % Byte \in 0 .. Byte - 1
<1>1. Byte \in Nat \ {0} /\ x + 1 \in Int
  BY SampleAssumption, ByteAssumption
<1> QED
  BY <1>1

\* A column was read: the timer takes the token.
LEMMA ColumnReadKeeps == ASSUME IInv, ColumnRead PROVE IInv'
<1> TypeOK
  BY DEF IInv
<1>1. /\ queue = <<"scan">> /\ Tail(queue) = <<>>
      /\ ~inten /\ scanTimers = 0 /\ endTimers = 0
      /\ keymask = NoMask
      /\ scanning = "cols" /\ state = "COLSCAN"
  BY AtScan DEF ColumnRead, RunScan, TypeOK, IInv
<1>2. queue' = <<>>
  BY <1>1 DEF ColumnRead
<1>3. TwoCells' /\ IntOnColumns'
  BY <1>1, <1>2 DEF ColumnRead, RunScan, TwoCells, IntOnColumns, portVars
<1>4. KeyFirst'
  BY <1>1, <1>2 DEF ColumnRead, RunScan, KeyFirst, NoMask
<1>5. TokenFrom(queue', inten', scanTimers', endTimers', state', scanning')
  BY <1>1, <1>2 DEF ColumnRead, RunScan, TokenFrom, portVars, timerVars
<1>6. samples' \in 0 .. Byte - 1 /\ reg' \in 0 .. Byte - 1
  BY ByteKept, SampleAssumption, ByteAssumption DEF ColumnRead, RunScan, Bumped, TypeOK, scannerVars
<1>7. colmask' \subseteq ColumnsOf(Keys) /\ ColumnsOf(down) \subseteq ColumnsOf(Keys)
  BY DEF ColumnRead, TypeOK, ColumnsOf, scannerVars
<1>9. queue' \in Seq({"scan", "key"}) => TypeOK'
  BY <1>6, <1>7, <1>1 DEF ColumnRead, RunScan, TypeOK, keyVars, scannerVars,
     portVars, timerVars
<1> QED
  BY <1>3, <1>4, <1>5, <1>9, Together

\* A failed column sample.
LEMMA ColumnRetryKeeps == ASSUME IInv, ColumnRetry PROVE IInv'
<1> TypeOK
  BY DEF IInv
<1>1. /\ queue = <<"scan">> /\ Tail(queue) = <<>>
      /\ ~inten /\ scanTimers = 0 /\ endTimers = 0
      /\ keymask = NoMask
      /\ scanning = "cols" /\ state = "COLSCAN"
  BY AtScan DEF ColumnRetry, RunScan, TypeOK, IInv
<1>2. queue' = <<>>
  BY <1>1 DEF ColumnRetry
<1>3. TwoCells' /\ IntOnColumns'
  BY <1>1, <1>2 DEF ColumnRetry, RunScan, TwoCells, IntOnColumns, portVars
<1>4. KeyFirst'
  BY <1>1, <1>2 DEF ColumnRetry, RunScan, KeyFirst, NoMask
<1>5. TokenFrom(queue', inten', scanTimers', endTimers', state', scanning')
  BY <1>1, <1>2 DEF ColumnRetry, RunScan, TokenFrom, portVars, timerVars
<1>6. samples' \in 0 .. Byte - 1 /\ reg' \in 0 .. Byte - 1
  BY ByteKept, SampleAssumption, ByteAssumption DEF ColumnRetry, RunScan, Bumped, TypeOK, scannerVars
<1>7. colmask' \subseteq ColumnsOf(Keys) /\ ColumnsOf(down) \subseteq ColumnsOf(Keys)
  BY DEF ColumnRetry, TypeOK, ColumnsOf, scannerVars
<1>9. queue' \in Seq({"scan", "key"}) => TypeOK'
  BY <1>6, <1>7, <1>1 DEF ColumnRetry, RunScan, TypeOK, keyVars, scannerVars,
     portVars, timerVars
<1> QED
  BY <1>3, <1>4, <1>5, <1>9, Together

\* The last column sample: the interrupt takes the token.
LEMMA ColumnAbortKeeps == ASSUME IInv, ColumnAbort PROVE IInv'
<1> TypeOK
  BY DEF IInv
<1>1. /\ queue = <<"scan">> /\ Tail(queue) = <<>>
      /\ ~inten /\ scanTimers = 0 /\ endTimers = 0
      /\ keymask = NoMask
      /\ scanning = "cols" /\ state = "COLSCAN"
  BY AtScan DEF ColumnAbort, RunScan, TypeOK, IInv
<1>2. queue' = <<>>
  BY <1>1 DEF ColumnAbort
<1>3. TwoCells' /\ IntOnColumns'
  BY <1>1, <1>2 DEF ColumnAbort, RunScan, ScanEnd, TwoCells, IntOnColumns, portVars
<1>4. KeyFirst'
  BY <1>1, <1>2 DEF ColumnAbort, RunScan, ScanEnd, KeyFirst, NoMask
<1>5. TokenFrom(queue', inten', scanTimers', endTimers', state', scanning')
  BY <1>1, <1>2 DEF ColumnAbort, RunScan, ScanEnd, TokenFrom, portVars, timerVars
<1>6. samples' \in 0 .. Byte - 1 /\ reg' \in 0 .. Byte - 1
  BY ByteKept, SampleAssumption, ByteAssumption DEF ColumnAbort, RunScan, Bumped, TypeOK, scannerVars
<1>7. colmask' \subseteq ColumnsOf(Keys) /\ ColumnsOf(down) \subseteq ColumnsOf(Keys)
  BY DEF ColumnAbort, TypeOK, ColumnsOf, scannerVars
<1>9. queue' \in Seq({"scan", "key"}) => TypeOK'
  BY <1>6, <1>7, <1>1 DEF ColumnAbort, RunScan, ScanEnd, TypeOK, keyVars, scannerVars,
     portVars, timerVars
<1> QED
  BY <1>3, <1>4, <1>5, <1>9, Together

\* A row was read: the pause takes the token, the handler the queue.
LEMMA RowReadKeeps == ASSUME IInv, RowRead PROVE IInv'
<1> TypeOK
  BY DEF IInv
<1>1. /\ queue = <<"scan">> /\ Tail(queue) = <<>>
      /\ ~inten /\ scanTimers = 0 /\ endTimers = 0
      /\ keymask = NoMask
      /\ scanning = "rows" /\ state = "ROWSCAN"
  BY AtScan DEF RowRead, RunScan, TypeOK, IInv
<1>2. queue' = <<"key">>
  BY <1>1, Shapes DEF RowRead
<1>3. TwoCells' /\ IntOnColumns'
  BY <1>1, <1>2 DEF RowRead, RunScan, TwoCells, IntOnColumns, portVars
<1>4. KeyFirst'
  BY <1>1, <1>2 DEF RowRead, RunScan, KeyFirst, NoMask
<1>5. TokenFrom(queue', inten', scanTimers', endTimers', state', scanning')
  BY <1>1, <1>2 DEF RowRead, RunScan, TokenFrom, portVars, timerVars
<1>6. samples' \in 0 .. Byte - 1 /\ reg' \in 0 .. Byte - 1
  BY ByteKept, SampleAssumption, ByteAssumption DEF RowRead, RunScan, Bumped, TypeOK, scannerVars
<1>7. colmask' \subseteq ColumnsOf(Keys) /\ ColumnsOf(down) \subseteq ColumnsOf(Keys)
  BY DEF RowRead, TypeOK, ColumnsOf, scannerVars
<1>8. keymask' \in [cols : SUBSET ColumnsOf(Keys), rows : SUBSET RowsOf(Keys)]
  BY DEF RowRead, TypeOK, RowsOf
<1>9. queue' \in Seq({"scan", "key"}) => TypeOK'
  BY <1>6, <1>7, <1>8, <1>1 DEF RowRead, RunScan, TypeOK, keyVars, scannerVars,
     portVars, timerVars
<1> QED
  BY <1>3, <1>4, <1>5, <1>9, Together

\* A failed row sample.
LEMMA RowRetryKeeps == ASSUME IInv, RowRetry PROVE IInv'
<1> TypeOK
  BY DEF IInv
<1>1. /\ queue = <<"scan">> /\ Tail(queue) = <<>>
      /\ ~inten /\ scanTimers = 0 /\ endTimers = 0
      /\ keymask = NoMask
      /\ scanning = "rows" /\ state = "ROWSCAN"
  BY AtScan DEF RowRetry, RunScan, TypeOK, IInv
<1>2. queue' = <<>>
  BY <1>1 DEF RowRetry
<1>3. TwoCells' /\ IntOnColumns'
  BY <1>1, <1>2 DEF RowRetry, RunScan, TwoCells, IntOnColumns, portVars
<1>4. KeyFirst'
  BY <1>1, <1>2 DEF RowRetry, RunScan, KeyFirst, NoMask
<1>5. TokenFrom(queue', inten', scanTimers', endTimers', state', scanning')
  BY <1>1, <1>2 DEF RowRetry, RunScan, TokenFrom, portVars, timerVars
<1>6. samples' \in 0 .. Byte - 1 /\ reg' \in 0 .. Byte - 1
  BY ByteKept, SampleAssumption, ByteAssumption DEF RowRetry, RunScan, Bumped, TypeOK, scannerVars
<1>7. colmask' \subseteq ColumnsOf(Keys) /\ ColumnsOf(down) \subseteq ColumnsOf(Keys)
  BY DEF RowRetry, TypeOK, ColumnsOf, scannerVars
<1>9. queue' \in Seq({"scan", "key"}) => TypeOK'
  BY <1>6, <1>7, <1>1 DEF RowRetry, RunScan, TypeOK, keyVars, scannerVars,
     portVars, timerVars
<1> QED
  BY <1>3, <1>4, <1>5, <1>9, Together

\* The last row sample.
LEMMA RowAbortKeeps == ASSUME IInv, RowAbort PROVE IInv'
<1> TypeOK
  BY DEF IInv
<1>1. /\ queue = <<"scan">> /\ Tail(queue) = <<>>
      /\ ~inten /\ scanTimers = 0 /\ endTimers = 0
      /\ keymask = NoMask
      /\ scanning = "rows" /\ state = "ROWSCAN"
  BY AtScan DEF RowAbort, RunScan, TypeOK, IInv
<1>2. queue' = <<>>
  BY <1>1 DEF RowAbort
<1>3. TwoCells' /\ IntOnColumns'
  BY <1>1, <1>2 DEF RowAbort, RunScan, ScanEnd, TwoCells, IntOnColumns, portVars
<1>4. KeyFirst'
  BY <1>1, <1>2 DEF RowAbort, RunScan, ScanEnd, KeyFirst, NoMask
<1>5. TokenFrom(queue', inten', scanTimers', endTimers', state', scanning')
  BY <1>1, <1>2 DEF RowAbort, RunScan, ScanEnd, TokenFrom, portVars, timerVars
<1>6. samples' \in 0 .. Byte - 1 /\ reg' \in 0 .. Byte - 1
  BY ByteKept, SampleAssumption, ByteAssumption DEF RowAbort, RunScan, Bumped, TypeOK, scannerVars
<1>7. colmask' \subseteq ColumnsOf(Keys) /\ ColumnsOf(down) \subseteq ColumnsOf(Keys)
  BY DEF RowAbort, TypeOK, ColumnsOf, scannerVars
<1>9. queue' \in Seq({"scan", "key"}) => TypeOK'
  BY <1>6, <1>7, <1>1 DEF RowAbort, RunScan, ScanEnd, TypeOK, keyVars, scannerVars,
     portVars, timerVars
<1> QED
  BY <1>3, <1>4, <1>5, <1>9, Together

\* samples is loaded after an abort.
LEMMA LoadSamplesKeeps == ASSUME IInv, LoadSamples PROVE IInv'
<1> TypeOK /\ TwoCells
  BY DEF IInv
<1>1. TokenFrom(queue, inten, scanTimers, endTimers, state, scanning)
  BY TokenShape DEF IInv
<1>3. TwoCells' /\ IntOnColumns'
  BY DEF LoadSamples, IInv, TwoCells, IntOnColumns, portVars
<1>4. KeyFirst'
  BY DEF LoadSamples, IInv, KeyFirst
<1>5. TokenFrom(queue', inten', scanTimers', endTimers', state', scanning')
  BY <1>1 DEF LoadSamples, IInv, IntOnColumns, TokenFrom, TypeOK, scannerVars, portVars, timerVars
<1>9. queue' \in Seq({"scan", "key"}) => TypeOK'
  BY DEF LoadSamples, TypeOK, keyVars, scannerVars, portVars,
     timerVars
<1> QED
  BY <1>3, <1>4, <1>5, <1>9, Together

\* samples is stored, whatever scan runs by now.
LEMMA StoreSamplesKeeps == ASSUME IInv, StoreSamples PROVE IInv'
<1> TypeOK /\ TwoCells
  BY DEF IInv
<1>1. TokenFrom(queue, inten, scanTimers, endTimers, state, scanning)
  BY TokenShape DEF IInv
<1>3. TwoCells' /\ IntOnColumns'
  BY DEF StoreSamples, IInv, TwoCells, IntOnColumns, portVars
<1>4. KeyFirst'
  BY DEF StoreSamples, IInv, KeyFirst
<1>5. TokenFrom(queue', inten', scanTimers', endTimers', state', scanning')
  BY <1>1 DEF StoreSamples, IInv, IntOnColumns, TokenFrom, TypeOK, scannerVars, portVars, timerVars
<1>6. samples' \in 0 .. Byte - 1 /\ reg' \in 0 .. Byte - 1
  BY ByteKept, SampleAssumption, ByteAssumption DEF StoreSamples, TypeOK
<1>9. queue' \in Seq({"scan", "key"}) => TypeOK'
  BY <1>6 DEF StoreSamples, TypeOK, keyVars, scannerVars, portVars,
     timerVars
<1> QED
  BY <1>3, <1>4, <1>5, <1>9, Together

\* The handler takes the key and leaves the queue to the scan.
LEMMA TakeKeyKeeps == ASSUME IInv, TakeKey PROVE IInv'
<1> TypeOK /\ TwoCells
  BY DEF IInv
<1>1. TokenFrom(queue, inten, scanTimers, endTimers, state, scanning)
  BY TokenShape DEF IInv
<1>2. \/ queue = <<"key">> /\ queue' = <<>>
      \/ queue = <<"key", "scan">> /\ queue' = <<"scan">>
  <2>1. CASE queue = <<"key">>
    BY <2>1, Shapes DEF TakeKey
  <2>2. CASE queue = <<"key", "scan">>
    BY <2>2, Shapes DEF TakeKey
  <2>3. CASE queue = <<"scan">>
    BY <2>3 DEF TakeKey
  <2> QED
    BY <2>1, <2>2, <2>3 DEF TakeKey, TwoCells
<1>3. TwoCells' /\ IntOnColumns'
  BY <1>2 DEF TakeKey, IInv, TwoCells, IntOnColumns, portVars
<1>4. KeyFirst'
  BY DEF TakeKey, KeyFirst
<1>5. TokenFrom(queue', inten', scanTimers', endTimers', state', scanning')
  <2>1. UNCHANGED <<inten, scanTimers, endTimers, state, scanning>>
    BY DEF TakeKey, scannerVars, portVars, timerVars
  <2>2. <<>> # <<"scan">> /\ <<"key">> # <<"scan">>
    OBVIOUS
  <2>3. <<>> # <<"key", "scan">> /\ <<"key">> # <<"key", "scan">>
    OBVIOUS
  <2> QED
    BY <1>1, <1>2, <2>1, <2>2, <2>3 DEF TokenFrom
<1>6. keymask' \in [cols : SUBSET ColumnsOf(Keys), rows : SUBSET RowsOf(Keys)]
  BY DEF TakeKey, NoMask
<1>9. queue' \in Seq({"scan", "key"}) => TypeOK'
  BY <1>6 DEF TakeKey, TypeOK, keyVars, scannerVars, portVars,
     timerVars
<1> QED
  BY <1>3, <1>4, <1>5, <1>9, Together

\* The interrupt hands its token to the timer.
LEMMA PinInterruptKeeps == ASSUME IInv, PinInterrupt PROVE IInv'
<1> TypeOK /\ TwoCells
  BY DEF IInv
<1>1. TokenFrom(queue, inten, scanTimers, endTimers, state, scanning)
  BY TokenShape DEF IInv
<1>3. TwoCells' /\ IntOnColumns'
  BY DEF PinInterrupt, IInv, TwoCells, IntOnColumns, portVars
<1>4. KeyFirst'
  BY DEF PinInterrupt, IInv, KeyFirst
<1>5. TokenFrom(queue', inten', scanTimers', endTimers', state', scanning')
  BY <1>1 DEF PinInterrupt, IInv, IntOnColumns, TokenFrom, TypeOK, scannerVars, portVars, timerVars
<1>6. samples' \in 0 .. Byte - 1 /\ scanTimers' \in Nat
  BY SampleAssumption, ByteAssumption DEF PinInterrupt, TypeOK
<1>9. queue' \in Seq({"scan", "key"}) => TypeOK'
  BY <1>6 DEF PinInterrupt, TypeOK, keyVars, scannerVars, portVars,
     timerVars
<1> QED
  BY <1>3, <1>4, <1>5, <1>9, Together

\* The timer hands its token to the queue.
LEMMA ScanTimerKeeps == ASSUME IInv, ScanTimer PROVE IInv'
<1> TypeOK /\ TwoCells
  BY DEF IInv
<1>1. TokenFrom(queue, inten, scanTimers, endTimers, state, scanning)
  BY TokenShape DEF IInv
<1>2. \/ queue = <<>> /\ queue' = <<"scan">>
      \/ queue = <<"key">> /\ queue' = <<"key", "scan">>
  <2>1. queue \notin {<<"scan">>, <<"key", "scan">>}
    BY <1>1 DEF ScanTimer, TokenFrom, TypeOK
  <2>2. CASE queue = <<>>
    BY <2>2, Shapes DEF ScanTimer
  <2>3. CASE queue = <<"key">>
    BY <2>3, Shapes DEF ScanTimer
  <2> QED
    BY <2>1, <2>2, <2>3 DEF TwoCells
<1>3. TwoCells' /\ IntOnColumns'
  BY <1>2 DEF ScanTimer, IInv, TwoCells, IntOnColumns, portVars
<1>4. KeyFirst'
  BY <1>2 DEF ScanTimer, IInv, KeyFirst
<1>5. TokenFrom(queue', inten', scanTimers', endTimers', state', scanning')
  BY <1>1, <1>2 DEF ScanTimer, TokenFrom, TypeOK, scannerVars, portVars
<1>6. scanTimers' \in Nat
  BY DEF ScanTimer, TypeOK
<1>9. queue' \in Seq({"scan", "key"}) => TypeOK'
  BY <1>6 DEF ScanTimer, TypeOK, keyVars, scannerVars, portVars,
     timerVars
<1> QED
  BY <1>3, <1>4, <1>5, <1>9, Together

\* The pause ends and the interrupt has the token.
LEMMA EndTimerKeeps == ASSUME IInv, EndTimer PROVE IInv'
<1> TypeOK /\ TwoCells
  BY DEF IInv
<1>1. TokenFrom(queue, inten, scanTimers, endTimers, state, scanning)
  BY TokenShape DEF IInv
<1>3. TwoCells' /\ IntOnColumns'
  BY DEF EndTimer, IInv, TwoCells, IntOnColumns, portVars, ScanEnd
<1>4. KeyFirst'
  BY DEF EndTimer, IInv, KeyFirst, ScanEnd
<1>5. TokenFrom(queue', inten', scanTimers', endTimers', state', scanning')
  BY <1>1 DEF EndTimer, IInv, IntOnColumns, TokenFrom, TypeOK, scannerVars, portVars, timerVars, ScanEnd
<1>6. endTimers' \in Nat
  BY DEF EndTimer, TypeOK
<1>9. queue' \in Seq({"scan", "key"}) => TypeOK'
  BY <1>6 DEF EndTimer, ScanEnd, TypeOK, keyVars, scannerVars,
     portVars, timerVars
<1> QED
  BY <1>3, <1>4, <1>5, <1>9, Together

\* Contacts move without disturbing the token.
LEMMA MoveKeeps == ASSUME IInv, NEW k \in Keys, Move(k) PROVE IInv'
<1> TypeOK /\ TwoCells
  BY DEF IInv
<1>1. TokenFrom(queue, inten, scanTimers, endTimers, state, scanning)
  BY TokenShape DEF IInv
<1>3. TwoCells' /\ IntOnColumns'
  BY DEF Move, IInv, TwoCells, IntOnColumns, portVars
<1>4. KeyFirst'
  BY DEF Move, IInv, KeyFirst
<1>5. TokenFrom(queue', inten', scanTimers', endTimers', state', scanning')
  BY <1>1 DEF Move, IInv, IntOnColumns, TokenFrom, TypeOK, scannerVars, portVars, timerVars
<1>6. moves' \in 0 .. MaxMoves
  BY MoveAssumption DEF Move, TypeOK
<1>9. queue' \in Seq({"scan", "key"}) => TypeOK'
  BY <1>6 DEF Move, TypeOK, keyVars, scannerVars, portVars,
     timerVars
<1> QED
  BY <1>3, <1>4, <1>5, <1>9, Together

-----------------------------------------------------------------------------
LEMMA NextKeeps == IInv /\ [Next]_vars => IInv'
<1> SUFFICES ASSUME IInv, [Next]_vars
             PROVE  IInv'
  OBVIOUS
<1>1. CASE ColumnRead
  BY <1>1, ColumnReadKeeps
<1>2. CASE ColumnRetry
  BY <1>2, ColumnRetryKeeps
<1>3. CASE ColumnAbort
  BY <1>3, ColumnAbortKeeps
<1>4. CASE RowRead
  BY <1>4, RowReadKeeps
<1>5. CASE RowRetry
  BY <1>5, RowRetryKeeps
<1>6. CASE RowAbort
  BY <1>6, RowAbortKeeps
<1>7. CASE LoadSamples
  BY <1>7, LoadSamplesKeeps
<1>8. CASE StoreSamples
  BY <1>8, StoreSamplesKeeps
<1>9. CASE TakeKey
  BY <1>9, TakeKeyKeeps
<1>10. CASE PinInterrupt
  BY <1>10, PinInterruptKeeps
<1>11. CASE ScanTimer
  BY <1>11, ScanTimerKeeps
<1>12. CASE EndTimer
  BY <1>12, EndTimerKeeps
<1>13. CASE \E k \in Keys : Move(k)
  BY <1>13, MoveKeeps
<1>14. CASE UNCHANGED vars
  BY <1>14 DEF vars, scannerVars, portVars, timerVars, keyVars, IInv, TypeOK,
     ScanToken, Queued, TwoCells, KeyFirst, IntOnColumns
<1> QED
  BY <1>1, <1>2, <1>3, <1>4, <1>5, <1>6, <1>7, <1>8, <1>9, <1>10, <1>11, <1>12, <1>13, <1>14
     DEF Next, Main

\* The keypad's invariant, for every matrix, sample count and counter width.
THEOREM Invariance == Spec => []IInv
  BY InitHolds, NextKeeps, PTL DEF Spec

\* Every variable keeps its type; samples in particular stays a byte however
\* often a late increment overwrites it.
THEOREM TypeCorrect == Spec => []TypeOK
<1>1. IInv => TypeOK
  BY DEF IInv
<1> QED
  BY <1>1, Invariance, PTL

\* Exactly one of the interrupt, the two timers and the queued task is due to
\* go on with the keypad: it is never dead and never scanned twice at once.
THEOREM OneToken == Spec => []ScanToken
<1>1. IInv => ScanToken
  BY DEF IInv
<1> QED
  BY <1>1, Invariance, PTL

\* Two cells of the event queue are enough for the keypad's tasks.
THEOREM TwoCellsEnough == Spec => []TwoCells
<1>1. IInv => TwoCells
  BY DEF IInv
<1> QED
  BY <1>1, Invariance, PTL

\* keypad_scan never stores a key over one that the handler has not taken.
THEOREM NoKeyReplaced == Spec => NoKeyLost
<1>1. IInv /\ [Next]_vars => [keymask' # NoMask /\ keymask' # keymask => keymask = NoMask]_vars
  <2> SUFFICES ASSUME IInv, Next, keymask' # NoMask, keymask' # keymask
               PROVE  keymask = NoMask
    OBVIOUS
  <2>1. RowRead
    BY DEF Next, Main, ColumnRead, ColumnRetry, ColumnAbort, RowRetry, RowAbort, LoadSamples,
       StoreSamples, TakeKey, PinInterrupt, ScanTimer, EndTimer, Move
  <2> QED
    BY <2>1, AtScan DEF RowRead
<1> QED
  BY <1>1, Invariance, PTL DEF Spec, NoKeyLost

-----------------------------------------------------------------------------
\* Only the read of the columns begins ROWSCAN, and nothing changes colmask in it.
LEMMA ColumnsSeenKept ==
    ASSUME ColumnsSeen, [Next]_vars
    PROVE  ColumnsSeen'
<1> SUFFICES ASSUME state' = "ROWSCAN"
             PROVE  colmask' = ColumnsOf(seen')
  BY DEF ColumnsSeen, ColumnsOf
<1>1. CASE ColumnRead
  BY <1>1 DEF ColumnRead
<1>2. CASE ColumnRetry \/ ColumnAbort \/ RowRead \/ RowAbort \/ PinInterrupt
  BY <1>2 DEF ColumnRetry, ColumnAbort, RowRead, RowAbort, PinInterrupt, RunScan
<1>3. CASE \/ RowRetry \/ LoadSamples \/ StoreSamples \/ TakeKey \/ ScanTimer \/ EndTimer
           \/ UNCHANGED vars \/ \E k \in Keys : Move(k)
  <2>1. UNCHANGED <<state, colmask, seen>>
    BY <1>3 DEF RowRetry, LoadSamples, StoreSamples, TakeKey, ScanTimer, EndTimer, Move, vars,
       scannerVars
  <2> QED
    BY <2>1 DEF ColumnsSeen
<1> QED
  BY <1>1, <1>2, <1>3 DEF Next, Main

\* A single column and row that are stored are those of a key that was down when
\* the columns or when the rows were read, unless a key of its column opened and
\* one of its row closed between: no other movement makes a key up, and neither
\* do bounces, retries or the order of the interrupts.
THEOREM KeyReadWasDown == Spec => KeyWasDown
<1> DEFINE Was(k) == RowRead /\ keymask' = [cols |-> {k.col}, rows |-> {k.row}]
                         => k \in down \cup seen \/ Mixed(k)
           Read == \A k \in Keys : Was(k)
<1>1. Init => ColumnsSeen
  BY DEF Init, ColumnsSeen
<1>2. ColumnsSeen /\ [Next]_vars => ColumnsSeen'
  BY ColumnsSeenKept
<1>3. ASSUME IInv, ColumnsSeen, RowRead, NEW k \in Keys,
             keymask' = [cols |-> {k.col}, rows |-> {k.row}],
             k \notin down, k \notin seen
      PROVE  Mixed(k)
  <2>1. colmask = {k.col} /\ RowsOf(down) = {k.row}
    BY <1>3 DEF RowRead
  <2>2. ColumnsOf(seen) = {k.col} /\ seen \subseteq Keys /\ down \subseteq Keys
    BY <1>3, <2>1 DEF ColumnsSeen, RowRead, RunScan, IInv, TypeOK
  <2>3. PICK i \in seen : i.col = k.col
    BY <2>2 DEF ColumnsOf
  <2>4. PICK j \in down : j.row = k.row
    BY <2>1 DEF RowsOf
  <2>5. i \notin down
    <3>1. SUFFICES ASSUME i \in down PROVE i = k
      BY <1>3, <2>3
    <3>2. i.row = k.row
      BY <2>1, <3>1 DEF RowsOf
    <3> QED
      BY <2>2, <2>3, <3>2, MatrixAssumption
  <2>6. j \notin seen
    <3>1. SUFFICES ASSUME j \in seen PROVE j = k
      BY <1>3, <2>4
    <3>2. j.col = k.col
      BY <2>2, <3>1 DEF ColumnsOf
    <3> QED
      BY <2>2, <2>4, <3>2, MatrixAssumption
  <2> QED
    BY <2>3, <2>4, <2>5, <2>6 DEF Mixed
<1>4. IInv /\ ColumnsSeen => Read
  BY <1>3
<1>5. KeyWasDown <=> [][Read]_vars
  BY DEF KeyWasDown
<1> HIDE DEF Read
<1>6. IInv /\ ColumnsSeen /\ [Next]_vars => [Read]_vars
  BY <1>4
<1> QED
  BY <1>1, <1>2, <1>5, <1>6, Invariance, PTL DEF Spec
=============================================================================
