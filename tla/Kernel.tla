------------------------------- MODULE Kernel --------------------------------
(***************************************************************************)
(* The event queue and the two threads with everything that uses them:     *)
(* main_thread runs the queue's tasks; the task onewire_resume gives the   *)
(* processor to temp_run, which arms one wake-up and gives it back; the    *)
(* timers, the keypad and the TWI bus post from interrupts.  A component   *)
(* is reduced here to what it posts and when it may post again: its tokens. *)
(* A callback that calls yogurt_alarm while the alarm is on never returns,  *)
(* and main_thread with it; interrupts go on.                               *)
(***************************************************************************)
EXTENDS TaskQueue, Threads, FiniteSets

CONSTANTS MaxEntries  \* bound: cycles a user enters

ASSUME EntryAssumption == MaxEntries \in Nat

Tasks == {"schedule", "resume", "scan", "key", "start", "lower", "extras"}

ASSUME TaskAssumption == Tasks \subseteq Values

VARIABLES
    called,   \* the running callback has done its work and is to return
    armed,    \* temp_run has started what will wake it, or none of it has run yet
    wake,     \* a sleep timer or a TWI transfer that will wake it is under way
    sensor,   \* get_temp returns no error
    posted,   \* the keypad waits for the keypad_scan it has posted
    clocks,   \* timers registered for yogurt_run_upper
    exts,     \* timers registered for yogurt_extras_timer
    entries,  \* cycles entered
    hung,     \* the running callback is in yogurt_alarm and does not come back
    owed,     \* history: cycles entered that have not begun
    crowded   \* history: more cells may have been needed at once than there are

threadSide == <<armed, wake, sensor>>
cycleSide == <<clocks, exts, entries, owed>>
kvars == <<vars, threadVars, called, threadSide, posted, hung, cycleSide, crowded>>

Waiting(t) == Cardinality({c \in Cells : items[c] = t})
Working(t) == running = t /\ ~called
One(condition) == IF condition THEN 1 ELSE 0

\* Cells that may be needed together: the wake-up, a scan and the key handler
\* before it, the tasks of every timer, also of one deleted meanwhile, and every
\* start that waits for a temperature.
NumberMax(m, n) == IF m > n THEN m ELSE n
Load == 3 + owed + NumberMax(clocks, Waiting("lower")) + NumberMax(exts, Waiting("extras"))
Crowd == crowded' = (crowded \/ Load' > Size)

KernelInit ==
    /\ Init /\ ThreadsInit
    /\ called = FALSE /\ armed = TRUE /\ wake = FALSE /\ sensor = FALSE
    /\ posted = FALSE /\ hung = FALSE
    /\ clocks = 0 /\ exts = 0 /\ entries = 0 /\ owed = 0
    /\ crowded = (3 > Size)

\* main: temp_init posts the first task, then the threads are started.
Boot == /\ TaskSchedule("schedule") /\ StartMain
        /\ UNCHANGED <<called, threadSide, posted, hung, cycleSide>>

-----------------------------------------------------------------------------
\* Interrupts.

\* onewire_schedule, called by TIMER_RUN or at the end of a TWI transfer.
WakeInterrupt == /\ wake /\ wake' = FALSE
                 /\ Interrupt /\ TaskSchedule("resume")
                 /\ UNCHANGED <<called, armed, sensor, posted, hung, cycleSide>>

\* keypad_scan_timer; KEYPAD_ISR and the timers before it post nothing.
ScanInterrupt == /\ ~posted /\ posted' = TRUE
                 /\ Interrupt /\ TaskSchedule("scan")
                 /\ UNCHANGED <<called, threadSide, hung, cycleSide>>

\* yogurt_run_upper and yogurt_extras_timer, a second apart: what one has posted
\* is polled before the next, unless main_thread polls no more.
ClockInterrupt == /\ clocks > 0
                  /\ hung \/ Waiting("lower") < clocks
                  /\ Interrupt /\ TaskSchedule("lower")
                  /\ UNCHANGED <<called, threadSide, posted, hung, cycleSide>>

ExtrasInterrupt == /\ exts > 0
                   /\ hung \/ Waiting("extras") < exts
                   /\ Interrupt /\ TaskSchedule("extras")
                   /\ UNCHANGED <<called, threadSide, posted, hung, cycleSide>>

Interrupts == \/ WakeInterrupt \/ ScanInterrupt \/ ClockInterrupt \/ ExtrasInterrupt

-----------------------------------------------------------------------------
\* main_thread.

Polls == /\ Runs(Main) /\ TasksRun
         /\ called' = FALSE
         /\ UNCHANGED <<threadVars, threadSide, posted, hung, cycleSide>>

Returns == /\ Runs(Main) /\ called /\ TaskReturns
           /\ called' = FALSE
           /\ UNCHANGED <<threadVars, threadSide, posted, hung, cycleSide>>

Does(t) == /\ Runs(Main) /\ Working(t) /\ ~hung
           /\ called' = TRUE

\* The first onewire_schedule runs as a task.
ScheduleTask == /\ Does("schedule")
                /\ TaskSchedule("resume")
                /\ UNCHANGED <<threadVars, threadSide, posted, hung, cycleSide>>

\* onewire_resume.
ResumeTask == /\ Does("resume")
              /\ SwitchTo(Temp)
              /\ armed' = FALSE
              /\ UNCHANGED <<vars, wake, sensor, posted, hung, cycleSide>>

\* keypad_scan: a scan goes on, ends, or reads a key.
ScanTask == /\ Does("scan")
            /\ posted' = FALSE
            /\ TaskSchedule("key") \/ UNCHANGED vars
            /\ UNCHANGED <<threadVars, threadSide, hung, cycleSide>>

\* Slip: a start that finds no temperature gives up.
StartGivesUp == /\ ~sensor
                /\ UNCHANGED <<vars, clocks, owed>>

\* yogurt_start: without a temperature it posts itself again.
StartTries == /\ ~sensor
              /\ TaskSchedule("start")
              /\ UNCHANGED <<clocks, owed>>

StartBegins == /\ sensor
               /\ clocks' = clocks + 1 /\ owed' = owed - 1
               /\ UNCHANGED vars

StartTask == /\ Does("start")
             /\ StartTries \/ StartBegins
             /\ UNCHANGED <<threadVars, threadSide, posted, hung, exts, entries>>

\* yogurt_keyhandler: an entry is completed and yogurt_start called, timers are
\* deleted or added, or nothing changes here.
Enter == /\ entries < MaxEntries /\ entries' = entries + 1
         /\ \/ sensor /\ clocks' = clocks + 1 /\ UNCHANGED <<vars, owed>>
            \/ ~sensor /\ owed' = owed + 1 /\ TaskSchedule("start") /\ UNCHANGED clocks
         /\ UNCHANGED exts

OtherKey == /\ clocks' \in {clocks, NumberMax(clocks - 1, 0)}
            /\ exts' \in {0, 1}
            /\ UNCHANGED <<vars, entries, owed>>

KeyTask == /\ Does("key")
           /\ Enter \/ OtherKey
           /\ UNCHANGED <<threadVars, threadSide, posted, hung>>

\* yogurt_run_lower, which deletes its timer in IDLE, and yogurt_extras, which
\* does so when both switches are off.
LowerTask == /\ Does("lower")
             /\ clocks' \in {clocks, NumberMax(clocks - 1, 0)}
             /\ UNCHANGED <<vars, threadVars, threadSide, posted, hung, exts, entries, owed>>

ExtrasTask == /\ Does("extras")
              /\ exts' \in {exts, 0}
              /\ UNCHANGED <<vars, threadVars, threadSide, posted, hung, clocks, entries, owed>>

\* Either of them calls yogurt_alarm: a target or the end of a cycle is reached,
\* which takes a state with a clock, or a countdown is over.
CallsAlarm == /\ Runs(Main) /\ ~hung
              /\ \/ Working("lower") /\ clocks > 0
                 \/ Working("extras")

\* With extras.alarm on, which a key may have switched at any time before, the
\* call never returns.  One that returns is part of LowerTask and ExtrasTask.
AlarmHangs == /\ CallsAlarm
              /\ hung' = TRUE
              /\ UNCHANGED <<vars, threadVars, called, threadSide, posted, cycleSide>>

\* yogurt_alarm calls yogurt_alarm.
AlarmAgain == hung /\ UNCHANGED kvars

MainThread == \/ Polls \/ Returns \/ ScheduleTask \/ ResumeTask \/ ScanTask
              \/ StartTask \/ KeyTask \/ LowerTask \/ ExtrasTask \/ AlarmHangs \/ AlarmAgain

-----------------------------------------------------------------------------
\* temp_run.

\* Slip: the thread sleeps without a timer.
TempArmsNothing == /\ Runs(Temp) /\ ~armed
                   /\ armed' = TRUE
                   /\ sensor' \in BOOLEAN
                   /\ UNCHANGED <<vars, threadVars, called, wake, posted, hung, cycleSide>>

\* A transfer is started or the sleep timer added, a reading may be done: the
\* wake-up can come before the thread has blocked.
TempArms == /\ Runs(Temp) /\ ~armed
            /\ armed' = TRUE /\ wake' = TRUE
            /\ sensor' \in BOOLEAN
            /\ UNCHANGED <<vars, threadVars, called, posted, hung, cycleSide>>

\* Slip: the thread waits for its wake-up in a loop of its own.
TempSpins == /\ Runs(Temp) /\ armed
             /\ UNCHANGED <<vars, threadVars, called, threadSide, posted, hung, cycleSide>>

\* block.
TempBlocks == /\ Runs(Temp) /\ armed
              /\ SwitchTo(Main)
              /\ UNCHANGED <<vars, called, threadSide, posted, hung, cycleSide>>

Switches == Switching /\ UNCHANGED <<vars, called, threadSide, posted, hung, cycleSide>>

KernelNext == /\ Boot \/ MainThread \/ TempArms \/ TempBlocks \/ Switches \/ Interrupts
              /\ Crowd

\* The processor executes and main_thread loops, with callbacks that return but
\* for a hang; a transfer or a sleep ends.
KernelSpec ==
    /\ KernelInit /\ [][KernelNext]_kvars
    /\ WF_kvars(Boot /\ Crowd)
    /\ WF_kvars((MainThread \/ TempArms \/ TempBlocks \/ Switches) /\ Crowd)
    /\ WF_kvars(WakeInterrupt /\ Crowd)

-----------------------------------------------------------------------------
\* Nothing that goes on by itself is lost as long as the queue's cells suffice
\* for what may wait at once: the temperature thread is awake or has one wake-up,
\* the keypad one scan, and every start that found no temperature is tried again
\* (yogurt.c:92).  One token too few and its owner stops for good.
TokensKept ==
    ~crowded =>
       /\ at # "boot" =>
             One(wake) + One(~armed) + Waiting("schedule") + One(Working("schedule"))
                + Waiting("resume") + One(Working("resume")) = 1
       /\ Waiting("scan") + One(Working("scan")) = One(posted)
       /\ Waiting("start") + One(Working("start")) = owed

\* A task that task_schedule accepted is run by main_thread in the end, although
\* interrupts never stop posting others, unless a callback calls yogurt_alarm
\* with the alarm on: that call (yogurt.c:372-375) never returns, and no task
\* runs after it.
AcceptedTaskRuns ==
    []~hung => \A t \in Tasks : Waiting(t) > 0 ~> running = t

\* While the cells suffice and no callback is caught in yogurt_alarm, the
\* temperature thread gets the processor again and again, whatever else is
\* posted, and interrupts come back on for that.
ThreadGoesOn == [](~crowded /\ ~hung) => []<>Runs(Temp)
=============================================================================
