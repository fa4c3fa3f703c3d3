------------------------------- MODULE OneWire ------------------------------
(***************************************************************************)
(* The temperature thread: temp.c over ds18b20.c and ds2483.c.  The thread *)
(* sends one command after another and blocks for each; the transfers are  *)
(* what Transfer promises (TwiMaster implements it), and the end of each   *)
(* wakes the thread through the event queue, whether it succeeded or not.  *)
(*                                                                         *)
(* A byte is named for what it means to the thread.  The bridge and the    *)
(* sensor are external: they take the commands that reach them, and the    *)
(* sensor may be unplugged at any time.  A one-wire operation ends before  *)
(* wait_idle stops polling for it.                                         *)
(***************************************************************************)
EXTENDS Transfer, Sequences

CONSTANT WaitTimeout   \* DS2483_1W_WAIT_TIMEOUT

ASSUME TimeoutAssumption == WaitTimeout \in Nat \ {0}

\* The operations of temp_run in order; from Loop on they repeat.
Script == <<"bridge",
            "reset", "skip", "config", "mark", "mark", "resolution",
            "reset", "skip", "convert",
            "sleep",
            "reset", "skip", "scratchpad", "low", "high", "check">>
Loop == 2

Reads == {"low", "high", "check"}

\* The bytes a register can hold: of the scratchpad ("low" and "high" are the
\* temperature converted in this round, "mark" is 0x13, "other" anything else),
\* of a silent bus, of the status register.
Bytes == {"low", "high", "mark", "other", "ones", "busy", "present", "absent"}

VARIABLES
    pos, step, tries,   \* the thread: operation, its transfer, wait_idle's count
    low, high,          \* the bytes read are this round's temperature
    result,             \* dev->result
    queue, sleeping,    \* the thread's tasks in the event queue, its timer
    temp_error, temp,   \* what get_temp returns; temp as "good" or "bad"
    readData, presence, \* the bridge's read data register and PPD bit
    plugged, sensor, index, marks, \* the sensor
    fresh, clean        \* history, see FreshTemperature

threadVars == <<pos, step, tries, low, high>>
wakeVars == <<queue, sleeping>>
tempVars == <<temp_error, temp>>
sensorVars == <<readData, presence, plugged, sensor, index, marks, fresh>>
vars == <<threadVars, result, transferVars, wakeVars, tempVars, sensorVars, clean>>

\* temp_init.  The boot allocator does not clear dev->result.
Init == /\ pos = 0 /\ step = "cmd" /\ tries = 0 /\ low = FALSE /\ high = FALSE
        /\ result = "other"
        /\ TransferInit
        /\ queue = <<"schedule">> /\ sleeping = FALSE
        /\ temp_error = "EINVAL" /\ temp = "bad"
        /\ readData = "other" /\ presence = FALSE
        /\ plugged \in BOOLEAN /\ sensor = "off" /\ index = 0
        /\ marks = [i \in {2, 3} |-> "other"]
        /\ fresh = FALSE /\ clean = TRUE

-----------------------------------------------------------------------------
\* onewire_schedule posts onewire_resume: as a task at boot, as the timer's
\* callback when a sleep is over, from twi_master's interrupt.
Schedule == /\ queue # <<>> /\ Head(queue) = "schedule"
            /\ queue' = Append(Tail(queue), "resume")
            /\ UNCHANGED <<threadVars, result, transferVars, sleeping, tempVars, sensorVars, clean>>

\* Slip: the timer is not a single shot.
SleepTimerRepeats == /\ sleeping
                     /\ queue' = Append(queue, "resume")
                     /\ UNCHANGED <<threadVars, result, transferVars, sleeping, tempVars,
                                    sensorVars, clean>>

SleepOver == /\ sleeping
             /\ sleeping' = FALSE
             /\ queue' = Append(queue, "resume")
             /\ UNCHANGED <<threadVars, result, transferVars, tempVars, sensorVars, clean>>

-----------------------------------------------------------------------------
\* The thread, from the task that resumes it to the next block().
Resumed == queue # <<>> /\ Head(queue) = "resume" /\ queue' = Tail(queue)

ReadRegister == Begin(TRUE) /\ UNCHANGED sleeping

\* Operation p: a command, or the sleep.
Start(p) ==
    /\ pos' = p /\ step' = "cmd" /\ tries' = 0
    /\ IF Script[p] = "sleep"
       THEN sleeping' = TRUE /\ UNCHANGED transferVars
       ELSE Begin(FALSE) /\ UNCHANGED sleeping

\* temp_run goes round.
Again == /\ Start(Loop)
         /\ low' = FALSE /\ high' = FALSE
         /\ fresh' = FALSE /\ clean' = TRUE

NextOperation == /\ Start(pos + 1)
                 /\ UNCHANGED <<low, high, fresh, clean>>

bridgeVars == <<readData, presence, plugged, sensor, index, marks>>

FirstRun == /\ Resumed /\ pos = 0
            /\ NextOperation
            /\ UNCHANGED <<result, tempVars, bridgeVars>>

AfterSleep == /\ Resumed /\ pos > 0 /\ Script[pos] = "sleep"
              /\ NextOperation
              /\ UNCHANGED <<result, tempVars, bridgeVars>>

Sent == pos > 0 /\ Script[pos] # "sleep" /\ step = "cmd"

BridgeReset == /\ Resumed /\ Sent /\ Script[pos] = "bridge"
               /\ Again
               /\ UNCHANGED <<result, tempVars, bridgeVars>>

\* Every other command is followed by wait_idle.
CommandSent == /\ Resumed /\ Sent /\ Script[pos] # "bridge"
               /\ step' = "status" /\ tries' = 0
               /\ ReadRegister
               /\ UNCHANGED <<pos, low, high, result, tempVars, sensorVars, clean>>

\* The bits 1WB and PPD of what is taken for the status: the status, or an older
\* byte.  Both bits are set in 0x13 and in 0xff, the others may have any.
Unknown == {"low", "high", "other"}
MayBeBusy == result \in {"busy", "mark", "ones"} \cup Unknown
MayBeIdle == result \in {"present", "absent"} \cup Unknown
MayBePresent == result # "absent"
MayBeAbsent == result \in {"absent", "busy"} \cup Unknown

\* Slip: one poll more than the limit.
StillBusyOneMore == /\ Resumed /\ step = "status"
                    /\ tries <= WaitTimeout /\ MayBeBusy
                    /\ tries' = tries + 1
                    /\ ReadRegister
                    /\ UNCHANGED <<pos, step, low, high, result, tempVars, sensorVars, clean>>

\* Slip: polls are not counted.
StillBusyUncounted == /\ Resumed /\ step = "status"
                      /\ MayBeBusy
                      /\ ReadRegister
                      /\ UNCHANGED <<pos, step, tries, low, high, result, tempVars, sensorVars,
                                     clean>>

StillBusy == /\ Resumed /\ step = "status"
             /\ tries < WaitTimeout /\ MayBeBusy
             /\ tries' = tries + 1
             /\ ReadRegister
             /\ UNCHANGED <<pos, step, low, high, result, tempVars, sensorVars, clean>>

WaitOver == Resumed /\ step = "status" /\ (tries = WaitTimeout \/ MayBeIdle)

\* Slip: the error is not stored.
NoDeviceForgotten == /\ WaitOver /\ Script[pos] = "reset" /\ MayBeAbsent
                     /\ Again
                     /\ UNCHANGED <<result, tempVars, bridgeVars>>

NoDevice == /\ WaitOver /\ Script[pos] = "reset" /\ MayBeAbsent
            /\ temp_error' = "ENODEV"
            /\ Again
            /\ UNCHANGED <<result, temp, bridgeVars>>

OperationDone == /\ WaitOver /\ Script[pos] \notin Reads
                 /\ Script[pos] = "reset" => MayBePresent
                 /\ NextOperation
                 /\ UNCHANGED <<result, tempVars, bridgeVars>>

\* ds2483_1w_read_byte fetches the read data register last.
FetchByte == /\ WaitOver /\ Script[pos] \in Reads
             /\ step' = "data" /\ tries' = 0
             /\ ReadRegister
             /\ UNCHANGED <<pos, low, high, result, tempVars, sensorVars, clean>>

ByteRead == /\ Resumed /\ step = "data" /\ Script[pos] # "check"
            /\ Start(pos + 1)
            /\ low' = (IF Script[pos] = "low" THEN result = "low" ELSE low)
            /\ high' = (IF Script[pos] = "high" THEN result = "high" ELSE high)
            /\ UNCHANGED <<result, tempVars, sensorVars, clean>>

\* Slip: the check byte is read but not looked at.
ReadingDoneUnchecked ==
    /\ Resumed /\ step = "data" /\ Script[pos] = "check"
    /\ temp_error' = "ok"
    /\ temp' = IF low /\ high THEN "good" ELSE "bad"
    /\ Again
    /\ UNCHANGED <<result, bridgeVars>>

ReadingDone ==
    /\ Resumed /\ step = "data" /\ Script[pos] = "check"
    /\ IF result = "mark"
       THEN /\ temp_error' = "ok"
            /\ temp' = IF low /\ high THEN "good" ELSE "bad"
       ELSE temp_error' = "EINVAL" /\ UNCHANGED temp
    /\ Again
    /\ UNCHANGED <<result, bridgeVars>>

Thread == \/ FirstRun \/ AfterSleep \/ BridgeReset \/ CommandSent \/ StillBusy
          \/ NoDevice \/ OperationDone \/ FetchByte \/ ByteRead \/ ReadingDone

-----------------------------------------------------------------------------
\* The bridge and the sensor, as far as the thread relies on them.  index is the
\* scratchpad byte that is next, 4 stands for the ones after the check bytes.
SensorWrite(b) ==
    /\ UNCHANGED <<readData, presence, plugged>>
    /\ sensor' = CASE sensor = "rom" /\ b = "skip" -> "function"
                   [] sensor = "function" /\ b = "config" -> "write"
                   [] sensor = "function" /\ b = "scratchpad" -> "read"
                   [] sensor = "write" /\ index < 4 -> "write"
                   [] OTHER -> "off"
    /\ index' = CASE sensor = "function" -> IF b = "config" THEN 2 ELSE 0
                  [] sensor = "write" -> IF index < 4 THEN index + 1 ELSE 0
                  [] OTHER -> 0
    /\ marks' = IF sensor = "write" /\ index < 4
                THEN [marks EXCEPT ![index] = IF b = "mark" THEN "mark" ELSE "other"]
                ELSE marks
    /\ fresh' = (fresh \/ (sensor = "function" /\ b = "convert"))

Scratchpad(i) == CASE i = 0 /\ fresh -> "low" [] i = 1 /\ fresh -> "high"
                   [] i \in {2, 3} -> marks[i]
                   [] OTHER -> "other"

SensorRead == /\ readData' = IF sensor = "read" THEN Scratchpad(index) ELSE "ones"
              /\ index' = IF sensor = "read" /\ index < 4 THEN index + 1 ELSE index
              /\ UNCHANGED <<presence, plugged, sensor, marks, fresh>>

SensorReset == /\ presence' = plugged
               /\ sensor' = (IF plugged THEN "rom" ELSE "off") /\ index' = 0
               /\ UNCHANGED <<readData, plugged, marks, fresh>>

\* The last byte of a command has arrived: the bridge does what it says.
Executed ==
    IF step # "cmd" \/ Script[pos] = "bridge" THEN UNCHANGED sensorVars
    ELSE IF Script[pos] = "reset" THEN SensorReset
    ELSE IF Script[pos] \in Reads THEN SensorRead
    ELSE SensorWrite(Script[pos])

Status == IF presence THEN "present" ELSE "absent"
Registers == IF step = "data" THEN {readData}
             ELSE {Status} \cup (IF tries < WaitTimeout THEN {"busy"} ELSE {})

\* The sensor loses power or gets it back: all it knew is gone.
Plug == /\ plugged' = ~plugged
        /\ sensor' = "off" /\ index' = 0
        /\ marks' = [i \in {2, 3} |-> "other"] /\ fresh' = FALSE
        /\ UNCHANGED <<threadVars, result, transferVars, wakeVars, tempVars, readData, presence,
                       clean>>

-----------------------------------------------------------------------------
\* The transfer under way.
CommandTaken == /\ Take
                /\ Executed
                /\ UNCHANGED <<threadVars, result, wakeVars, tempVars, clean>>

\* A register read that failed leaves the old byte in dev->result.
TransferDone == /\ Complete
                /\ queue' = Append(queue, "resume")
                /\ IF stored' THEN result' \in Registers ELSE UNCHANGED result
                /\ clean' = (clean /\ IF reading THEN stored' ELSE taken = 1)
                /\ UNCHANGED <<threadVars, sleeping, tempVars, sensorVars>>

Next == Schedule \/ SleepOver \/ Thread \/ CommandTaken \/ TransferDone \/ Plug

\* main_thread polls for ever, timers fire, and transfers end.
Spec == /\ Init /\ [][Next]_vars
        /\ WF_vars(Schedule) /\ WF_vars(SleepOver) /\ WF_vars(Thread) /\ WF_vars(TransferDone)

-----------------------------------------------------------------------------
\* Type correctness of the thread's position, the transfer, the queue and the
\* sensor.
TypeOK ==
    /\ pos \in 0 .. Len(Script) /\ step \in {"cmd", "status", "data"}
    /\ tries \in 0 .. WaitTimeout
    /\ low \in BOOLEAN /\ high \in BOOLEAN
    /\ result \in Bytes /\ readData \in Bytes
    /\ active \in BOOLEAN /\ reading \in BOOLEAN /\ stored \in BOOLEAN
    /\ taken \in 0 .. MaxRetries + 1
    /\ queue \in Seq({"schedule", "resume"}) /\ sleeping \in BOOLEAN
    /\ temp_error \in {"ok", "ENODEV", "EINVAL"} /\ temp \in {"good", "bad"}
    /\ presence \in BOOLEAN /\ plugged \in BOOLEAN
    /\ sensor \in {"off", "rom", "function", "write", "read"} /\ index \in 0 .. 4
    /\ marks \in [{2, 3} -> {"mark", "other"}]
    /\ fresh \in BOOLEAN /\ clean \in BOOLEAN

\* The thread waits for exactly one thing: a transfer, the sleep's timer or one
\* task in the queue.  With none it would never run again; with two it would be
\* resumed in the middle of a transfer and take the old result for the new.
OneWakeUp ==
    \/ active /\ ~sleeping /\ queue = <<>>
    \/ ~active /\ sleeping /\ queue = <<>>
    \/ ~active /\ ~sleeping /\ Len(queue) = 1

\* A temperature stored without error was converted in this round by a sensor
\* that has kept its power since, unless a transfer of the round failed for
\* good or repeated a command that the bridge had taken.
FreshTemperature ==
    [][ReadingDone /\ temp_error' = "ok" /\ clean => temp' = "good"]_vars

\* However many transfers fail, round after round comes to its end: the thread
\* stores a temperature or says why it has none.
ReadingsGoOn == []<><<NoDevice \/ ReadingDone>>_vars

\* A sensor that is gone for good is reported, once transfers work again.
AbsenceReported == <>[](~plugged /\ clean) => <>[](temp_error # "ok")

-----------------------------------------------------------------------------
\* ds2483.c:54-55: "The read data register is then fetched and returned to the
\* caller."
FetchReturnsReadData == [][ByteRead \/ ReadingDone => result = readData]_vars
=============================================================================
