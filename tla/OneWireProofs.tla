---------------------------- MODULE OneWireProofs ---------------------------
(***************************************************************************)
(* The temperature thread for every number of retries and of polls: it     *)
(* always waits for exactly one wake-up, and what it stores without error  *)
(* was converted in this round.                                            *)
(***************************************************************************)
EXTENDS OneWire, TLAPS

\* The event queue as far as the thread's tasks are in it, and what the thread
\* has under way at each operation.
Waits == /\ queue \in {<<>>, <<"schedule">>, <<"resume">>}
         /\ active => queue = <<>> /\ ~sleeping
         /\ sleeping => queue = <<>>
         /\ ~active /\ ~sleeping => queue # <<>>
         /\ queue = <<"schedule">> => pos = 0
         /\ pos = 0 => step = "cmd" /\ ~active /\ ~sleeping

\* Only a command is followed by polls, only a read by a fetch.
Steps == /\ step \in {"cmd", "status", "data"}
         /\ step = "status" => Script[pos] \notin {"bridge", "sleep"}
         /\ step = "data" => Script[pos] \in Reads

\* TypeOK in the parts that one action or another disturbs.
ThreadType == /\ pos \in 0 .. 17 /\ tries \in 0 .. WaitTimeout
              /\ low \in BOOLEAN /\ high \in BOOLEAN
Flags == active \in BOOLEAN /\ reading \in BOOLEAN /\ stored \in BOOLEAN
TransferType == Flags /\ taken \in 0 .. MaxRetries + 1
TempType == temp_error \in {"ok", "ENODEV", "EINVAL"} /\ temp \in {"good", "bad"}
BridgeType == /\ readData \in Bytes /\ presence \in BOOLEAN /\ plugged \in BOOLEAN
              /\ sensor \in {"off", "rom", "function", "write", "read"} /\ index \in 0 .. 4
              /\ marks \in [{2, 3} -> {"mark", "other"}]

WParts == /\ ThreadType /\ TransferType /\ TempType /\ BridgeType
          /\ sleeping \in BOOLEAN /\ result \in Bytes
          /\ fresh \in BOOLEAN /\ clean \in BOOLEAN

WInv == WParts /\ Waits /\ Steps

LEMMA ScriptFacts == /\ Len(Script) = 17 /\ Loop \in 1 .. 17
                     /\ Script[Loop] = "reset"
                     /\ \A p \in 1 .. 17 : Script[p] = "check" <=> p = 17
                     /\ \A p \in 1 .. 17 : Script[p] = "sleep" => p = 11
                     /\ \A p \in 1 .. 17 : Script[p] = "bridge" => p = 1
                     /\ Script[17] \in Reads
  BY DEF Script, Loop, Reads

LEMMA QueueFacts == /\ Append(<<>>, "resume") = <<"resume">>
                    /\ Head(<<"resume">>) = "resume" /\ Tail(<<"resume">>) = <<>>
                    /\ Head(<<"schedule">>) = "schedule" /\ Tail(<<"schedule">>) = <<>>
                    /\ <<"schedule">> # <<"resume">>
                    /\ <<"schedule">> # <<>> /\ <<"resume">> # <<>>
                    /\ Len(<<>>) = 0 /\ Len(<<"schedule">>) = 1 /\ Len(<<"resume">>) = 1
                    /\ <<>> \in Seq({"schedule", "resume"})
                    /\ <<"schedule">> \in Seq({"schedule", "resume"})
                    /\ <<"resume">> \in Seq({"schedule", "resume"})
  OBVIOUS

LEMMA WaitsForOne == WInv => OneWakeUp
  BY QueueFacts DEF WInv, Waits, OneWakeUp

LEMMA TypesFromParts == WInv => TypeOK
  BY ScriptFacts, QueueFacts
     DEF WInv, TypeOK, WParts, ThreadType, TransferType, Flags, TempType, BridgeType, Waits,
         Steps

LEMMA Initially == Init => WInv
  <1> SUFFICES ASSUME Init PROVE WParts /\ Waits /\ Steps
    BY DEF WInv
  <1>1. ThreadType
    <2>1. low \in BOOLEAN /\ high \in BOOLEAN
      BY Zenon DEF Init
    <2>2. pos = 0 /\ tries = 0
      BY DEF Init
    <2> QED BY <2>1, <2>2, TimeoutAssumption DEF ThreadType
  <1>2. TransferType
    <2>1. Flags
      BY Zenon DEF Init, TransferInit, Flags
    <2>2. taken = 0
      BY DEF Init, TransferInit
    <2> QED BY <2>1, <2>2, RetryAssumption DEF TransferType
  <1>3. TempType /\ BridgeType
    <2>1. /\ presence \in BOOLEAN /\ plugged \in BOOLEAN
          /\ sensor = "off" /\ readData = "other"
          /\ temp_error = "EINVAL" /\ temp = "bad"
      BY Zenon DEF Init
    <2>2. index = 0 /\ marks = [i \in {2, 3} |-> "other"]
      BY DEF Init
    <2> QED BY <2>1, <2>2 DEF TempType, BridgeType, Bytes
  <1>4. WParts
    BY <1>1, <1>2, <1>3, Zenon DEF Init, WParts, Bytes
  <1>5. Waits /\ Steps
    BY QueueFacts DEF Init, Waits, Steps, TransferInit
  <1> QED BY <1>5, <1>4

-----------------------------------------------------------------------------
LEMMA WhenResumed ==
  ASSUME Waits, Resumed
  PROVE  queue = <<"resume">> /\ queue' = <<>> /\ ~active /\ ~sleeping
  BY QueueFacts DEF Waits, Resumed

\* An operation starts a transfer or the sleep, never both.
LEMMA Starts ==
  ASSUME WParts, Waits, Resumed, NEW p \in 1 .. 17, Start(p)
  PROVE  /\ pos' \in 0 .. 17 /\ tries' \in 0 .. WaitTimeout
         /\ TransferType' /\ sleeping' \in BOOLEAN
         /\ Waits' /\ Steps'
  <1>1. queue' = <<>> /\ ~active /\ ~sleeping
    BY WhenResumed
  <1>2. /\ pos' = p /\ step' = "cmd" /\ tries' = 0
        /\ \/ sleeping' = TRUE /\ UNCHANGED transferVars
           \/ Begin(FALSE) /\ UNCHANGED sleeping
    BY DEF Start
  <1>3. TransferType' /\ sleeping' \in BOOLEAN /\ active' # sleeping'
    <2>1. Flags' /\ sleeping' \in BOOLEAN /\ active' # sleeping'
      <3>1. CASE sleeping' = TRUE /\ UNCHANGED transferVars
        BY <1>1, <3>1, Zenon DEF WParts, TransferType, Flags, transferVars
      <3>2. CASE Begin(FALSE) /\ UNCHANGED sleeping
        BY <1>1, <3>2, Zenon DEF WParts, TransferType, Flags, Begin
      <3> QED BY <1>2, <3>1, <3>2
    <2>2. taken' \in 0 .. MaxRetries + 1
      BY <1>2, RetryAssumption DEF WParts, TransferType, Begin, transferVars
    <2> QED BY <2>1, <2>2 DEF TransferType
  <1> QED BY <1>1, <1>2, <1>3, QueueFacts, TimeoutAssumption
          DEF Waits, Steps, TransferType, Flags

LEMMA ReadStarts ==
  ASSUME WParts, Waits, Resumed, ReadRegister, pos # 0, UNCHANGED pos
  PROVE  TransferType' /\ sleeping' \in BOOLEAN /\ Waits'
  <1>1. queue' = <<>> /\ ~active /\ ~sleeping
    BY WhenResumed
  <1>2. active' = TRUE /\ reading' = TRUE /\ taken' = 0 /\ stored' = FALSE
        /\ sleeping' = sleeping
    BY DEF ReadRegister, Begin
  <1>3. Flags' /\ sleeping' \in BOOLEAN
    BY <1>2, Zenon DEF Flags, WParts
  <1>4. Waits'
    BY <1>1, <1>2, QueueFacts DEF Waits
  <1> QED BY <1>2, <1>3, <1>4, RetryAssumption DEF TransferType

LEMMA ThreadKeeps == WInv /\ Thread => WInv'
  <1> SUFFICES ASSUME WParts, Waits, Steps, Thread PROVE (WParts /\ Waits /\ Steps)'
    BY DEF WInv
  <1>0. TempType /\ BridgeType /\ pos \in 0 .. 17
    BY DEF WParts, ThreadType
  <1>1. CASE FirstRun \/ AfterSleep \/ OperationDone
    <2>1. Resumed /\ Start(pos + 1)
      BY <1>1 DEF FirstRun, AfterSleep, OperationDone, WaitOver, NextOperation
    <2>2. pos + 1 \in 1 .. 17
      BY <1>0, <1>1, ScriptFacts
         DEF FirstRun, AfterSleep, OperationDone, WaitOver, Waits
    <2>3. /\ UNCHANGED <<low, high, fresh, clean>> /\ UNCHANGED <<result, tempVars, bridgeVars>>
      BY <1>1 DEF FirstRun, AfterSleep, OperationDone, NextOperation
    <2>4. TempType' /\ BridgeType'
      BY <1>0, <2>3 DEF TempType, BridgeType, tempVars, bridgeVars
    <2> QED BY <2>1, <2>2, <2>3, <2>4, Starts DEF WParts, ThreadType
  <1>2. CASE BridgeReset \/ NoDevice \/ ReadingDone
    <2>1. Resumed /\ Again
      BY <1>2 DEF BridgeReset, NoDevice, ReadingDone, WaitOver
    <2>2. Loop \in 1 .. 17 /\ Start(Loop)
      BY <2>1, ScriptFacts DEF Again
    <2>3. BridgeType'
      BY <1>0, <1>2 DEF BridgeReset, NoDevice, ReadingDone, bridgeVars, BridgeType
    <2>4. TempType'
      BY <1>0, <1>2 DEF BridgeReset, NoDevice, ReadingDone, TempType, tempVars
    <2>5. result' = result
      BY <1>2 DEF BridgeReset, NoDevice, ReadingDone
    <2> QED BY <2>1, <2>2, <2>3, <2>4, <2>5, Starts DEF WParts, ThreadType, Again
  <1>3. CASE ByteRead
    <2>1. pos + 1 \in 1 .. 17
      BY <1>0, <1>3, ScriptFacts DEF ByteRead, Waits
    <2>2. Resumed /\ Start(pos + 1) /\ low' \in BOOLEAN /\ high' \in BOOLEAN
      BY <1>3 DEF ByteRead, WParts, ThreadType
    <2>3. UNCHANGED <<result, tempVars, sensorVars, clean>>
      BY <1>3 DEF ByteRead
    <2>4. TempType' /\ BridgeType'
      BY <1>0, <2>3 DEF TempType, BridgeType, tempVars, sensorVars
    <2> QED BY <2>1, <2>2, <2>3, <2>4, Starts DEF WParts, ThreadType, sensorVars
  <1>4. CASE CommandSent \/ StillBusy \/ FetchByte
    <2>1. /\ Resumed /\ ReadRegister /\ pos' = pos /\ pos # 0
          /\ UNCHANGED <<low, high, result, tempVars, sensorVars, clean>>
      BY <1>0, <1>4 DEF CommandSent, StillBusy, FetchByte, Sent, WaitOver, Waits
    <2>2. tries' \in 0 .. WaitTimeout /\ Steps'
      BY <1>4, TimeoutAssumption
         DEF CommandSent, StillBusy, FetchByte, Sent, WaitOver, WParts, ThreadType, Steps
    <2>3. TempType' /\ BridgeType'
      BY <1>0, <2>1 DEF TempType, BridgeType, tempVars, sensorVars
    <2> QED BY <2>1, <2>2, <2>3, ReadStarts DEF WParts, ThreadType, sensorVars
  <1> QED BY <1>1, <1>2, <1>3, <1>4 DEF Thread

-----------------------------------------------------------------------------
\* The bytes the bridge and the sensor come to hold.
LEMMA ExecutedType ==
  ASSUME BridgeType, fresh \in BOOLEAN, Executed
  PROVE  BridgeType' /\ fresh' \in BOOLEAN
  <1>1. CASE UNCHANGED sensorVars
    BY <1>1 DEF sensorVars, BridgeType
  <1>2. CASE SensorReset
    BY <1>2 DEF SensorReset, BridgeType
  <1>3. CASE SensorRead
    <2>1. Scratchpad(index) \in Bytes
      BY DEF Scratchpad, BridgeType, Bytes
    <2> QED BY <1>3, <2>1 DEF SensorRead, BridgeType, Bytes
  <1>4. ASSUME NEW b, SensorWrite(b) PROVE BridgeType' /\ fresh' \in BOOLEAN
    <2>1. readData' \in Bytes /\ presence' \in BOOLEAN /\ plugged' \in BOOLEAN
      BY <1>4 DEF SensorWrite, BridgeType
    <2>2. sensor' \in {"off", "rom", "function", "write", "read"}
      BY <1>4 DEF SensorWrite, BridgeType
    <2>3. index' \in 0 .. 4
      BY <1>4 DEF SensorWrite, BridgeType
    <2>4. marks' \in [{2, 3} -> {"mark", "other"}]
      BY <1>4 DEF SensorWrite, BridgeType
    <2>5. fresh' \in BOOLEAN
      BY <1>4, Zenon DEF SensorWrite
    <2> QED BY <2>1, <2>2, <2>3, <2>4, <2>5 DEF BridgeType
  <1> QED BY <1>1, <1>2, <1>3, <1>4 DEF Executed

LEMMA StepKeeps == WInv /\ [Next]_vars => WInv'
  <1> SUFFICES ASSUME WParts, Waits, Steps, [Next]_vars PROVE (WParts /\ Waits /\ Steps)'
    BY DEF WInv
  <1>0. ThreadType /\ TransferType /\ TempType /\ BridgeType
    BY DEF WParts
  <1>1. CASE Thread
    BY <1>1, ThreadKeeps DEF WInv
  <1>2. CASE Schedule \/ SleepOver
    <2>1. queue' = <<"resume">> /\ ~active /\ ~sleeping' /\ sleeping' \in BOOLEAN
      <3>1. CASE Schedule
        BY <3>1, QueueFacts DEF Schedule, Waits, WParts
      <3>2. CASE SleepOver
        BY <3>2, QueueFacts DEF SleepOver, Waits, WParts
      <3> QED BY <1>2, <3>1, <3>2
    <2>2. UNCHANGED <<threadVars, result, transferVars, tempVars, sensorVars, clean>>
      BY <1>2 DEF Schedule, SleepOver
    <2>3. ThreadType' /\ TransferType' /\ TempType' /\ BridgeType'
      BY <1>0, <2>2 DEF ThreadType, TransferType, Flags, TempType, BridgeType, threadVars,
         transferVars, tempVars, sensorVars
    <2>4. Waits' /\ Steps'
      BY <2>1, <2>2, QueueFacts DEF Waits, Steps, threadVars, transferVars
    <2> QED BY <2>1, <2>2, <2>3, <2>4 DEF WParts, sensorVars
  <1>3. CASE CommandTaken
    <2>1. Take /\ UNCHANGED <<threadVars, result, wakeVars, tempVars, clean>>
      BY <1>3 DEF CommandTaken
    <2>2. TransferType' /\ active' = active
      BY <1>0, <2>1, RetryAssumption DEF Take, TransferType, Flags
    <2>3. BridgeType' /\ fresh' \in BOOLEAN
      BY <1>0, <1>3, ExecutedType DEF CommandTaken, WParts
    <2>4. ThreadType' /\ TempType'
      BY <1>0, <2>1 DEF ThreadType, TempType, threadVars, tempVars
    <2>5. Waits' /\ Steps'
      BY <2>1, <2>2 DEF Waits, Steps, threadVars, wakeVars
    <2> QED BY <2>1, <2>2, <2>3, <2>4, <2>5 DEF WParts, wakeVars
  <1>4. CASE TransferDone
    <2>1. /\ Complete /\ UNCHANGED <<threadVars, sleeping, tempVars, sensorVars>>
          /\ queue' = Append(queue, "resume")
      BY <1>4 DEF TransferDone
    <2>2. /\ queue' = <<"resume">> /\ ~active' /\ ~sleeping
      BY <2>1, QueueFacts DEF Complete, Waits
    <2>3. TransferType'
      <3>1. stored' \in BOOLEAN
        BY <1>0, <2>1, Zenon DEF Complete, TransferType, Flags
      <3>2. Flags'
        BY <1>0, <2>1, <3>1, Zenon DEF Complete, TransferType, Flags
      <3> QED BY <2>1, <3>2, RetryAssumption DEF Complete, TransferType
    <2>4. result' \in Bytes
      BY <1>0, <1>4 DEF TransferDone, Registers, Status, BridgeType, Bytes, WParts
    <2>5. clean' \in BOOLEAN
      <3>1. clean' = (clean /\ IF reading THEN stored' ELSE taken = 1)
        BY <1>4 DEF TransferDone
      <3> QED BY <2>3, <3>1, Zenon DEF WParts, TransferType, Flags
    <2>6. ThreadType' /\ TempType' /\ BridgeType'
      BY <1>0, <2>1 DEF ThreadType, TempType, BridgeType, threadVars, tempVars, sensorVars
    <2>7. Waits' /\ Steps'
      BY <2>1, <2>2, QueueFacts DEF Waits, Steps, threadVars, Complete
    <2> QED BY <2>1, <2>3, <2>4, <2>5, <2>6, <2>7 DEF WParts, sensorVars
  <1>5. CASE Plug
    <2>1. UNCHANGED <<threadVars, result, transferVars, wakeVars, tempVars, clean>>
      BY <1>5 DEF Plug
    <2>2. BridgeType' /\ fresh' \in BOOLEAN
      <3>1. plugged' \in BOOLEAN /\ fresh' \in BOOLEAN /\ presence' \in BOOLEAN
        BY <1>0, <1>5, Zenon DEF Plug, BridgeType
      <3> QED BY <1>0, <1>5, <3>1 DEF Plug, BridgeType
    <2>3. ThreadType' /\ TransferType' /\ TempType'
      BY <1>0, <2>1 DEF ThreadType, TransferType, Flags, TempType, threadVars, transferVars,
         tempVars
    <2>4. Waits' /\ Steps'
      BY <2>1 DEF Waits, Steps, threadVars, transferVars, wakeVars
    <2> QED BY <2>1, <2>2, <2>3, <2>4 DEF WParts, wakeVars
  <1>6. CASE UNCHANGED vars
    BY <1>6 DEF vars, WParts, ThreadType, TransferType, Flags, TempType, BridgeType, Waits, Steps,
       threadVars, transferVars, wakeVars, tempVars, sensorVars
  <1> QED BY <1>1, <1>2, <1>3, <1>4, <1>5, <1>6 DEF Next

LEMMA WInvHolds == Spec => []WInv
  BY Initially, StepKeeps, PTL DEF Spec

-----------------------------------------------------------------------------
\* The types of the temperature thread, its bridge and its sensor, for every
\* number of retries and polls.
THEOREM TypeCorrect == Spec => []TypeOK
  BY TypesFromParts, WInvHolds, PTL

\* temp_run waits for one thing at any time: it is never resumed twice and never
\* forgotten, however transfers end (temp.c, ds2483.c:107-118).
THEOREM WokenOnce == Spec => []OneWakeUp
  BY WaitsForOne, WInvHolds, PTL

-----------------------------------------------------------------------------
\* The bytes a reading is made of.  A mark in the scratchpad is the proof that the
\* sensor has kept its power since; then the sensor is where the round's commands,
\* each taken once, have brought it.
Marked == marks[2] = "mark" \/ marks[3] = "mark"

\* The sensor after each operation of Script.
SensorAfter == <<"off", "rom", "function", "write", "write", "write", "off", "rom", "function",
                 "off", "off", "rom", "function", "read", "read", "read", "read">>
IndexAfter == <<0, 0, 0, 2, 3, 4, 0, 0, 0, 0, 0, 0, 0, 0, 1, 2, 3>>

\* The operations whose command the bridge has taken in this round.
Done == IF step = "cmd" /\ active /\ taken = 0 THEN pos - 1 ELSE pos

\* No command of the round was repeated and none was lost.
InOrder == clean /\ Done >= Loop /\ (step = "cmd" /\ active => taken <= 1)

Unplugged == ~plugged => sensor = "off" /\ ~Marked

Reading == active => (reading <=> step # "cmd") /\ pos # 11

Follows == sensor = SensorAfter[Done] /\ index = IndexAfter[Done]

Position == sensor # "off" \/ Marked => Follows

Converted == Marked /\ Done >= 10 => fresh

Fetched == /\ Marked /\ Done = 15 => readData = "low"
           /\ Marked /\ Done = 16 => readData = "high"
           /\ step = "data" /\ ~active => result = readData

Kept == /\ Marked /\ pos >= 16 => low
        /\ Marked /\ pos = 17 => high
        /\ Done = 17 /\ readData = "mark" => low /\ high

RoundInv == /\ Unplugged /\ Reading
            /\ InOrder => Position /\ Converted /\ Fetched /\ Kept

LEMMA Operations ==
          /\ Script[1] = "bridge" /\ Script[2] = "reset" /\ Script[3] = "skip"
          /\ Script[4] = "config" /\ Script[5] = "mark" /\ Script[6] = "mark"
          /\ Script[7] = "resolution" /\ Script[8] = "reset" /\ Script[9] = "skip"
          /\ Script[10] = "convert" /\ Script[11] = "sleep" /\ Script[12] = "reset"
          /\ Script[13] = "skip" /\ Script[14] = "scratchpad" /\ Script[15] = "low"
          /\ Script[16] = "high" /\ Script[17] = "check"
  BY DEF Script

LEMMA SensorTable ==
          /\ SensorAfter[1] = "off" /\ SensorAfter[2] = "rom"
          /\ SensorAfter[3] = "function" /\ SensorAfter[4] = "write"
          /\ SensorAfter[5] = "write" /\ SensorAfter[6] = "write"
          /\ SensorAfter[7] = "off" /\ SensorAfter[8] = "rom"
          /\ SensorAfter[9] = "function" /\ SensorAfter[10] = "off"
          /\ SensorAfter[11] = "off" /\ SensorAfter[12] = "rom"
          /\ SensorAfter[13] = "function" /\ SensorAfter[14] = "read"
          /\ SensorAfter[15] = "read" /\ SensorAfter[16] = "read"
          /\ SensorAfter[17] = "read"
  BY DEF SensorAfter

LEMMA IndexTable ==
          /\ IndexAfter[1] = 0 /\ IndexAfter[2] = 0 /\ IndexAfter[3] = 0
          /\ IndexAfter[4] = 2 /\ IndexAfter[5] = 3 /\ IndexAfter[6] = 4
          /\ IndexAfter[7] = 0 /\ IndexAfter[8] = 0 /\ IndexAfter[9] = 0
          /\ IndexAfter[10] = 0 /\ IndexAfter[11] = 0 /\ IndexAfter[12] = 0
          /\ IndexAfter[13] = 0 /\ IndexAfter[14] = 0 /\ IndexAfter[15] = 1
          /\ IndexAfter[16] = 2 /\ IndexAfter[17] = 3
  BY DEF IndexAfter

\* Nothing but the sensor's own reset wakes it, nothing but a write marks it.
LEMMA UnpluggedKept ==
  ASSUME WParts, Unplugged, Executed
  PROVE  Unplugged'
  <1>1. CASE UNCHANGED sensorVars
    BY <1>1 DEF sensorVars, Unplugged, Marked
  <1>2. CASE SensorReset \/ SensorRead
    BY <1>2 DEF SensorReset, SensorRead, Unplugged, Marked
  <1>3. ASSUME NEW b, SensorWrite(b) PROVE Unplugged'
    BY <1>3 DEF SensorWrite, Unplugged, Marked
  <1> QED BY <1>1, <1>2, <1>3 DEF Executed

RoundParts == Position /\ Converted /\ Fetched /\ Kept

LEMMA ResetTaken ==
  ASSUME WParts, Unplugged, pos \in {2, 8, 12}, Done' = pos, UNCHANGED pos,
         step = "cmd", step' = "cmd",
         pos # 2 => Converted, SensorReset
  PROVE  RoundParts'
  <1>1. Position'
    BY Operations, SensorTable, IndexTable
       DEF SensorReset, Position, Follows, Unplugged, Marked
  <1>2. Converted'
    BY DEF SensorReset, Converted, Marked, Done
  <1>3. Fetched' /\ Kept'
    BY DEF Fetched, Kept
  <1> QED BY <1>1, <1>2, <1>3 DEF RoundParts

\* A byte written: an addressed sensor follows, one without power does not hear it.
LEMMA WriteTaken ==
  ASSUME WParts, RoundParts, pos \in 3 .. 14, Script[pos] \notin {"reset", "sleep"},
         Done = pos - 1, Done' = pos, UNCHANGED <<pos, low, high, active>>,
         step = "cmd", step' = "cmd", SensorWrite(Script[pos])
  PROVE  RoundParts'
  <1> USE Operations, SensorTable, IndexTable
  <1>1. pos \in {3, 4, 5, 6, 7, 9, 10, 13, 14}
    OBVIOUS
  <1>2. Position' /\ Converted'
    <2>0. marks \in [{2, 3} -> {"mark", "other"}]
      BY DEF WParts, BridgeType
    <2>1. /\ fresh => fresh'
          /\ sensor = "function" /\ Script[pos] = "convert" => fresh'
      BY Zenon DEF SensorWrite
    <2>2. /\ sensor' = CASE sensor = "rom" /\ Script[pos] = "skip" -> "function"
                        [] sensor = "function" /\ Script[pos] = "config" -> "write"
                        [] sensor = "function" /\ Script[pos] = "scratchpad" -> "read"
                        [] sensor = "write" /\ index < 4 -> "write"
                        [] OTHER -> "off"
          /\ index' = CASE sensor = "function" -> IF Script[pos] = "config" THEN 2 ELSE 0
                       [] sensor = "write" -> IF index < 4 THEN index + 1 ELSE 0
                       [] OTHER -> 0
          /\ sensor # "write" => marks' = marks
      BY DEF SensorWrite
    <2>3. CASE pos = 3
      BY <2>1, <2>2, <2>3 DEF Position, Converted, Follows, Marked, RoundParts
    <2>4. CASE pos = 4
      BY <2>0, <2>2, <2>4 DEF SensorWrite, Position, Converted, Follows, Marked, RoundParts
    <2>5. CASE pos = 5
      BY <2>0, <2>2, <2>5 DEF SensorWrite, Position, Converted, Follows, Marked, RoundParts
    <2>6. CASE pos = 6
      BY <2>0, <2>2, <2>6 DEF SensorWrite, Position, Converted, Follows, Marked, RoundParts
    <2>7. CASE pos = 7
      BY <2>0, <2>2, <2>7 DEF SensorWrite, Position, Converted, Follows, Marked, RoundParts
    <2>8. CASE pos = 9
      BY <2>1, <2>2, <2>8 DEF Position, Converted, Follows, Marked, RoundParts
    <2>9. CASE pos = 10
      BY <2>1, <2>2, <2>9 DEF Position, Converted, Follows, Marked, RoundParts
    <2>10. CASE pos = 13
      BY <2>1, <2>2, <2>10 DEF Position, Converted, Follows, Marked, RoundParts
    <2>11. CASE pos = 14
      BY <2>1, <2>2, <2>11 DEF Position, Converted, Follows, Marked, RoundParts
    <2> QED BY <1>1, <2>3, <2>4, <2>5, <2>6, <2>7, <2>8, <2>9, <2>10, <2>11
  <1>3. Fetched' /\ Kept'
    BY <1>1 DEF Fetched, Kept
  <1> QED BY <1>2, <1>3 DEF RoundParts

\* A byte read: a mark comes from the scratchpad's third byte only, and then the
\* two before it were the temperature.
LEMMA ReadTaken ==
  ASSUME WParts, RoundParts, pos \in {15, 16, 17},
         Done = pos - 1, Done' = pos, UNCHANGED <<pos, low, high, active, step>>,
         step = "cmd", SensorRead
  PROVE  RoundParts'
  <1> USE Operations, SensorTable, IndexTable
  <1>0. /\ UNCHANGED <<sensor, marks, fresh>>
        /\ readData' = IF sensor = "read" THEN Scratchpad(index) ELSE "ones"
        /\ index' = IF sensor = "read" /\ index < 4 THEN index + 1 ELSE index
    BY DEF SensorRead
  <1>1. Position'
    BY <1>0 DEF Position, Follows, Marked, RoundParts
  <1>2. Converted'
    BY <1>0 DEF Converted, Marked, RoundParts
  <1>3. sensor = "read" => index = pos - 15
    BY DEF Position, Follows, RoundParts
  <1>4. Marked => sensor = "read" /\ fresh
    BY DEF Position, Follows, RoundParts, Converted
  <1>5. Fetched'
    BY <1>0, <1>3, <1>4 DEF Fetched, Marked, Scratchpad
  <1>6. pos = 17 /\ readData' = "mark" => Marked
    BY <1>0, <1>3 DEF Scratchpad, Marked
  <1>7. Kept'
    BY <1>0, <1>6 DEF Kept, Marked, RoundParts
  <1> QED BY <1>1, <1>2, <1>5, <1>7 DEF RoundParts

LEMMA TakenKeeps == WInv /\ RoundInv /\ CommandTaken => RoundInv'
  <1> SUFFICES ASSUME WParts, Waits, Steps, RoundInv, CommandTaken PROVE RoundInv'
    BY DEF WInv
  <1>1. /\ Executed /\ active /\ active' = active /\ reading' = reading /\ taken' = taken + 1
        /\ UNCHANGED <<pos, step, tries, low, high, result, clean>>
    BY DEF CommandTaken, Take, threadVars
  <1>2. Unplugged'
    BY <1>1, UnpluggedKept DEF RoundInv
  <1>3. Reading'
    BY <1>1 DEF RoundInv, Reading
  <1>4. /\ taken \in 0 .. MaxRetries + 1 /\ pos \in 0 .. 17 /\ pos # 0
    BY <1>1 DEF WParts, TransferType, ThreadType, Waits
  <1>5. ASSUME InOrder' PROVE RoundParts'
    <2>1. CASE step # "cmd"
      <3>1. UNCHANGED sensorVars
        BY <1>1, <2>1 DEF Executed
      <3>2. InOrder /\ Done' = Done
        BY <1>1, <1>5, <2>1 DEF InOrder, Done
      <3> QED BY <1>1, <3>1, <3>2 DEF sensorVars, RoundInv, RoundParts, Position, Follows, Marked,
              Converted, Fetched, Kept
    <2>2. CASE step = "cmd"
      <3>1. taken = 0 /\ Done = pos - 1 /\ Done' = pos /\ pos >= 2
        BY <1>1, <1>4, <1>5, <2>2, RetryAssumption DEF InOrder, Done, Loop
      <3>2. pos # 2 => InOrder
        BY <1>1, <1>4, <1>5, <2>2, <3>1 DEF InOrder, Loop
      <3>3. pos # 11
        BY <1>1 DEF RoundInv, Reading
      <3>4. pos \in 2 .. 17
        BY <1>4, <3>1
      <3>5. CASE pos \in {2, 8, 12}
        <4>1. SensorReset
          BY <1>1, <2>2, <3>5, Operations DEF Executed, Reads
        <4> QED BY <1>1, <2>2, <3>1, <3>2, <3>5, <4>1, ResetTaken DEF RoundInv
      <3>6. CASE pos \in {15, 16, 17}
        <4>1. SensorRead
          BY <1>1, <2>2, <3>6, Operations DEF Executed, Reads
        <4> QED BY <1>1, <2>2, <3>1, <3>2, <3>6, <4>1, ReadTaken DEF RoundInv, RoundParts
      <3>7. CASE pos \in {3, 4, 5, 6, 7, 9, 10, 13, 14}
        <4>1. SensorWrite(Script[pos]) /\ Script[pos] \notin {"reset", "sleep"}
          BY <1>1, <2>2, <3>7, Operations DEF Executed, Reads
        <4>2. pos \in 3 .. 14
          BY <3>7
        <4> QED BY <1>1, <2>2, <3>1, <3>2, <3>7, <4>1, <4>2, WriteTaken DEF RoundInv, RoundParts
      <3> QED BY <3>3, <3>4, <3>5, <3>6, <3>7
    <2> QED BY <2>1, <2>2
  <1> QED BY <1>2, <1>3, <1>5 DEF RoundInv, RoundParts

LEMMA ReadsLast == \A p \in 1 .. 17 : Script[p] \in Reads => p \in {15, 16, 17}
  BY DEF Script, Reads

\* The thread is resumed after a transfer, so the command of pos has been taken.
LEMMA ThreadKeepsRound == WInv /\ RoundInv /\ Thread => RoundInv'
  <1> SUFFICES ASSUME WParts, Waits, Steps, RoundInv, Thread PROVE RoundInv'
    BY DEF WInv
  <1> USE Operations, SensorTable, IndexTable
  <1>1. /\ Resumed /\ ~active /\ Done = pos /\ pos \in 0 .. 17
        /\ UNCHANGED <<result, bridgeVars>>
    <2>1. Resumed
      BY DEF Thread, FirstRun, AfterSleep, BridgeReset, CommandSent, StillBusy, NoDevice,
         OperationDone, FetchByte, ByteRead, ReadingDone, WaitOver
    <2>2. UNCHANGED <<result, bridgeVars>>
      BY DEF Thread, FirstRun, AfterSleep, BridgeReset, CommandSent, StillBusy, NoDevice,
         OperationDone, FetchByte, ByteRead, ReadingDone, sensorVars, bridgeVars
    <2> QED BY <2>1, <2>2, WhenResumed DEF Done, WParts, ThreadType
  <1>2. Unplugged'
    BY <1>1 DEF RoundInv, Unplugged, Marked, bridgeVars
  <1>3. ASSUME NEW p \in 1 .. 17, Start(p)
        PROVE  /\ pos' = p /\ step' = "cmd" /\ Reading'
               /\ p = 11 => ~active'
               /\ p # 11 => active' /\ taken' = 0
    <2>1. CASE p = 11
      BY <1>1, <1>3, <2>1 DEF Start, transferVars, Reading
    <2>2. CASE p # 11
      <3>1. Begin(FALSE) /\ pos' = p /\ step' = "cmd"
        BY <1>3, <2>2, ScriptFacts DEF Start
      <3> QED BY <2>2, <3>1 DEF Begin, Reading
    <2> QED BY <2>1, <2>2
  <1>4. CASE BridgeReset \/ NoDevice \/ ReadingDone
    <2>1. Start(2)
      BY <1>4 DEF BridgeReset, NoDevice, ReadingDone, Again, Loop
    <2>2. Reading' /\ Done' = 1
      BY <1>3, <2>1 DEF Done
    <2> QED BY <1>2, <2>2 DEF RoundInv, InOrder, Loop
  <1>5. CASE FirstRun \/ AfterSleep \/ OperationDone
    <2>1. /\ Start(pos + 1) /\ UNCHANGED <<low, high, fresh, clean>>
          /\ pos <= 14
      <3>1. pos <= 14
        BY <1>1, <1>5, ScriptFacts
           DEF FirstRun, AfterSleep, OperationDone, WaitOver, Waits, Reads
      <3> QED BY <1>5, <3>1 DEF FirstRun, AfterSleep, OperationDone, NextOperation
    <2>2. pos + 1 \in 1 .. 17
      BY <1>1, <2>1
    <2>3. /\ pos' = pos + 1 /\ step' = "cmd" /\ Reading'
          /\ Done' = IF pos = 10 THEN 11 ELSE pos
      BY <1>1, <1>3, <2>1, <2>2 DEF Done
    <2>4. ASSUME InOrder' PROVE RoundParts'
      <3>1. InOrder /\ pos >= 2
        BY <1>1, <2>1, <2>3, <2>4 DEF InOrder, Loop
      <3>2. Position' /\ Converted'
        BY <1>1, <2>1, <2>3, <3>1
           DEF RoundInv, Position, Follows, Marked, Converted, bridgeVars
      <3>3. Fetched' /\ Kept'
        BY <1>1, <2>1, <2>3 DEF Fetched, Kept
      <3> QED BY <3>2, <3>3 DEF RoundParts
    <2> QED BY <1>2, <2>3, <2>4 DEF RoundInv, RoundParts
  <1>6. CASE CommandSent \/ StillBusy \/ FetchByte
    <2>1. /\ ReadRegister /\ step' \in {"status", "data"}
          /\ UNCHANGED <<pos, low, high, fresh, clean>>
      BY <1>6 DEF CommandSent, StillBusy, FetchByte, sensorVars
    <2>2. /\ active' /\ reading' /\ Done' = Done /\ InOrder' = InOrder
      BY <1>1, <2>1 DEF ReadRegister, Begin, Done, InOrder
    <2>3. pos # 11
      BY <1>1, <1>6 DEF CommandSent, StillBusy, FetchByte, Sent, Steps, WaitOver
    <2>4. Reading'
      BY <2>1, <2>2, <2>3 DEF Reading
    <2>5. RoundParts => RoundParts'
      BY <1>1, <2>1, <2>2
         DEF RoundParts, Position, Follows, Marked, Converted, Fetched, Kept, bridgeVars
    <2> QED BY <1>2, <2>2, <2>4, <2>5 DEF RoundInv, RoundParts
  <1>7. CASE ByteRead
    <2>1. /\ step = "data" /\ pos \in {15, 16} /\ Start(pos + 1)
          /\ UNCHANGED <<fresh, clean>>
          /\ pos = 15 /\ result = "low" => low'
          /\ pos = 16 /\ low => low'
          /\ pos = 16 /\ result = "high" => high'
      <3>1. pos \in {15, 16}
        <4>1. step = "data" /\ Script[pos] # "check"
          BY <1>7 DEF ByteRead
        <4>2. Script[pos] \in Reads /\ pos # 0
          BY <4>1 DEF Steps, Waits
        <4>3. pos \in {15, 16, 17}
          BY <1>1, <4>2, ReadsLast
        <4> QED BY <4>1, <4>3
      <3>2. /\ Script[pos] = "low" /\ result = "low" => low'
            /\ Script[pos] # "low" /\ low => low'
            /\ Script[pos] = "high" /\ result = "high" => high'
        BY <1>7, Zenon DEF ByteRead
      <3>3. pos = 15 => Script[pos] = "low"
        OBVIOUS
      <3>4. pos = 16 => Script[pos] = "high"
        OBVIOUS
      <3>5. step = "data" /\ Start(pos + 1) /\ UNCHANGED <<fresh, clean>>
        BY <1>7 DEF ByteRead, sensorVars
      <3> QED BY <3>1, <3>2, <3>3, <3>4, <3>5
    <2>2. pos' = pos + 1 /\ step' = "cmd" /\ Reading' /\ Done' = pos
      BY <1>3, <2>1 DEF Done
    <2>3. ASSUME InOrder' PROVE RoundParts'
      <3>1. InOrder
        BY <1>1, <2>1, <2>2, <2>3 DEF InOrder, Loop
      <3>2. result = readData
        BY <1>1, <2>1, <3>1 DEF RoundInv, Fetched
      <3>3. Position' /\ Converted'
        BY <1>1, <2>1, <2>2, <3>1
           DEF RoundInv, Position, Follows, Marked, Converted, bridgeVars
      <3>4. Fetched'
        BY <1>1, <2>1, <2>2, <3>1 DEF RoundInv, Fetched, Marked, bridgeVars
      <3>5. Kept'
        <4>1. Marked' = Marked
          BY <1>1 DEF Marked, bridgeVars
        <4>2. CASE pos = 15
          <5>1. Marked => low'
            BY <1>1, <2>1, <3>1, <3>2, <4>2 DEF RoundInv, Fetched
          <5> QED BY <2>2, <4>1, <4>2, <5>1 DEF Kept
        <4>3. CASE pos = 16
          <5>1. Marked => low' /\ high'
            BY <1>1, <2>1, <3>1, <3>2, <4>3 DEF RoundInv, Fetched, Kept
          <5> QED BY <2>2, <4>1, <4>3, <5>1 DEF Kept
        <4> QED BY <2>1, <4>2, <4>3
      <3> QED BY <3>3, <3>4, <3>5 DEF RoundParts
    <2> QED BY <1>2, <2>2, <2>3 DEF RoundInv, RoundParts
  <1> QED BY <1>4, <1>5, <1>6, <1>7 DEF Thread

LEMMA DoneKeepsRound == WInv /\ RoundInv /\ TransferDone => RoundInv'
  <1> SUFFICES ASSUME WParts, Waits, Steps, RoundInv, TransferDone PROVE RoundInv'
    BY DEF WInv
  <1>1. /\ active /\ ~active' /\ taken' = 0
        /\ UNCHANGED <<pos, step, low, high>> /\ UNCHANGED sensorVars
        /\ IF stored' THEN result' \in Registers ELSE UNCHANGED result
        /\ clean' = (clean /\ IF reading THEN stored' ELSE taken = 1)
    BY DEF TransferDone, Complete, threadVars
  <1>2. Unplugged' /\ Reading'
    BY <1>1 DEF RoundInv, Unplugged, Marked, sensorVars, Reading
  <1>3. ASSUME InOrder' PROVE RoundParts'
    <2>1. clean /\ (IF reading THEN stored' ELSE taken = 1) /\ Done' = pos /\ pos >= 2
      BY <1>1, <1>3 DEF InOrder, Done, Loop
    <2>2. Done = pos /\ InOrder
      BY <1>1, <2>1 DEF RoundInv, Reading, Done, InOrder, Loop
    <2>3. step = "data" => result' = readData
      BY <1>1, <2>1 DEF RoundInv, Reading, Registers
    <2>4. Position' /\ Converted' /\ Kept'
      BY <1>1, <2>1, <2>2
         DEF RoundInv, Position, Follows, Marked, Converted, Kept, sensorVars
    <2>5. Fetched'
      BY <1>1, <2>1, <2>2, <2>3 DEF RoundInv, Fetched, Marked, sensorVars
    <2> QED BY <2>4, <2>5 DEF RoundParts
  <1> QED BY <1>2, <1>3 DEF RoundInv, RoundParts

\* Without power there is no mark left, and what was fetched or kept is as it was.
LEMMA PlugKeepsRound == WInv /\ RoundInv /\ Plug => RoundInv'
  <1> SUFFICES ASSUME RoundInv, Plug PROVE RoundInv'
    OBVIOUS
  <1>1. /\ sensor' = "off" /\ ~Marked'
        /\ UNCHANGED <<pos, step, low, high, result, active, reading, taken, readData, clean>>
    BY DEF Plug, Marked, threadVars, transferVars
  <1>2. Unplugged' /\ Reading' /\ Done' = Done /\ InOrder' = InOrder
    BY <1>1 DEF RoundInv, Unplugged, Reading, Done, InOrder
  <1>3. RoundParts => RoundParts'
    BY <1>1, <1>2 DEF RoundParts, Position, Converted, Fetched, Kept
  <1> QED BY <1>2, <1>3 DEF RoundInv, RoundParts

LEMMA RoundInvHolds == Spec => [](WInv /\ RoundInv)
  <1>1. Init => RoundInv
    BY DEF Init, TransferInit, RoundInv, Unplugged, Marked, Reading, InOrder, Done, Loop
  <1>2. WInv /\ RoundInv /\ [Next]_vars => RoundInv'
    <2> SUFFICES ASSUME WInv, RoundInv, [Next]_vars PROVE RoundInv'
      OBVIOUS
    <2>1. CASE Schedule \/ SleepOver \/ UNCHANGED vars
      <3>1. /\ UNCHANGED <<pos, step, low, high, result, active, reading, taken, clean>>
            /\ UNCHANGED sensorVars
        BY <2>1 DEF Schedule, SleepOver, vars, threadVars, transferVars
      <3>2. Unplugged' /\ Reading' /\ Done' = Done /\ InOrder' = InOrder
        BY <3>1 DEF RoundInv, Unplugged, Marked, Reading, Done, InOrder, sensorVars
      <3>3. RoundParts => RoundParts'
        BY <3>1, <3>2
           DEF RoundParts, Position, Follows, Marked, Converted, Fetched, Kept, sensorVars
      <3> QED BY <3>2, <3>3 DEF RoundInv, RoundParts
    <2> QED BY <2>1, TakenKeeps, ThreadKeepsRound, DoneKeepsRound, PlugKeepsRound DEF Next
  <1> QED BY <1>1, <1>2, WInvHolds, PTL DEF Spec

\* What get_temp hands out with error 0 was converted and read in this round by a
\* sensor that has had power ever since it got the check byte, unless a transfer
\* of the round failed or was repeated (temp.c, ds18b20.c), for every number of
\* retries and polls.
THEOREM TemperatureIsFresh == Spec => FreshTemperature
  <1>1. WInv /\ RoundInv /\ [Next]_vars =>
          [ReadingDone /\ temp_error' = "ok" /\ clean => temp' = "good"]_vars
    <2> SUFFICES ASSUME WParts, Waits, Steps, RoundInv, ReadingDone, temp_error' = "ok", clean
                 PROVE  temp' = "good"
      BY DEF WInv
    <2>1. ~active /\ pos \in 0 .. 17 /\ step = "data" /\ Script[pos] = "check"
      BY WhenResumed DEF ReadingDone, WParts, ThreadType
    <2>2. pos = 17 /\ Done = 17 /\ InOrder
      BY <2>1, Operations DEF Waits, Done, InOrder, Loop
    <2>3. result = "mark" /\ temp' = IF low /\ high THEN "good" ELSE "bad"
      BY DEF ReadingDone
    <2> QED BY <2>1, <2>2, <2>3 DEF RoundInv, Fetched, Kept
  <1> QED BY <1>1, RoundInvHolds, PTL DEF Spec, FreshTemperature

=============================================================================
