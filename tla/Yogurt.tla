------------------------------- MODULE Yogurt -------------------------------
(***************************************************************************)
(* yogurt.c: the cycle controller, its clock and its keys.  The tasks run  *)
(* one at a time in main_thread; the timer interrupt runs yogurt_run_upper *)
(* and yogurt_extras_timer between any two of their steps.  The keypad's   *)
(* scan and the temperature thread run in main_thread's time too, so keys  *)
(* arrive and the sensor's verdict changes between tasks.                  *)
(*                                                                         *)
(* Temperatures are reduced to what the control flow tells apart: whether  *)
(* get_temp reports an error, and whether the target lies in the interval  *)
(* just crossed.  The relay is driven or off.  Digits typed on the keypad  *)
(* are the choice of a cycle time when the entry is completed.             *)
(***************************************************************************)
EXTENDS Integers, Sequences, FiniteSets

CONSTANTS Minute,       \* 60: seconds per minute
          MaxMinutes,   \* bound: the minutes counter stops here, see BumpClock
          Byte,         \* 2^8: the minutes are read one byte at a time
          Cycles,       \* cycle times a user may enter, in minutes
          QueueSize,    \* cells of the event queue
          MaxKeys,      \* bound: keys pressed in a behaviour
          NoKey

ASSUME ClockAssumption == Minute \in Nat \ {0, 1}
ASSUME ByteAssumption == Byte \in Nat \ {0}
ASSUME CycleAssumption == MaxMinutes \in Nat /\ Cycles \subseteq 0 .. MaxMinutes
ASSUME SizeAssumption == QueueSize \in Nat \ {0}
ASSUME KeyAssumption == MaxKeys \in Nat

Keys == {"*", "#", "a", "b", "c"}
Tasks == {"start", "lower", "extras", "key"}

VARIABLES
    state,              \* control.state
    minutes, seconds,   \* control.minutes, control.seconds
    cycle,              \* control.cycle.minutes
    target,             \* a temperature has been entered
    extras,             \* the switches timer, thermo and alarm
    step,               \* yogurt_keyhandler_idle's position in an entry
    upper, exts,        \* timers registered for run_upper and extras_timer
    queue,              \* the event queue
    dropped,            \* interrupts' posts that found it full since a task ran
    pc, low,            \* main_thread's position, the low byte it has read
    keymask,            \* the last key the keypad has read
    relay,              \* the relay is driven at some level
    sensor,             \* get_temp returns no error
    pressed,            \* keys pressed so far
    held                \* history: clock interrupts since MAINTAIN began, 0 elsewhere

clockVars == <<minutes, seconds>>
entryVars == <<extras, step, cycle, target>>
timerVars == <<upper, exts>>
envVars == <<keymask, sensor, pressed>>
codeVars == <<state, clockVars, entryVars, timerVars, queue, dropped, pc, low, relay, envVars>>
vars == <<codeVars, held>>

NoneDropped == [lower |-> 0, extras |-> 0]

Init == /\ state = "IDLE" /\ minutes = 0 /\ seconds = 0
        /\ cycle = 0 /\ target = FALSE
        /\ extras = [timer |-> FALSE, thermo |-> FALSE, alarm |-> FALSE]
        /\ step = 0 /\ upper = 0 /\ exts = 0
        /\ queue = <<>> /\ dropped = NoneDropped /\ pc = "loop" /\ low = 0
        /\ keymask = NoKey /\ relay = FALSE /\ sensor = FALSE /\ pressed = 0
        /\ held = 0

-----------------------------------------------------------------------------
\* task_schedule drops the task when the queue is full.
Posted(q, t) == IF Len(q) < QueueSize THEN Append(q, t) ELSE q

\* del_timer removes one timer with the callback, if there is one.
Del(n) == IF n > 0 THEN n - 1 ELSE 0

\* Slip: the seconds are not restarted with the minute.
BumpClockRunsOn == /\ seconds' = seconds + 1
                   /\ minutes' = IF seconds + 1 = Minute THEN minutes + 1 ELSE minutes

\* The 16 bit counter holds 45 days, the longest cycle is a hundred hours: what
\* lies beyond the cycle times is one value, MaxMinutes.
BumpClock ==
    IF seconds + 1 = Minute
    THEN /\ seconds' = 0
         /\ minutes' = IF minutes < MaxMinutes THEN minutes + 1 ELSE minutes
    ELSE seconds' = seconds + 1 /\ UNCHANGED minutes

Waiting(t) == Cardinality({i \in DOMAIN queue : queue[i] = t})

\* A timer's interrupts are a second apart, and main_thread polls what one has
\* posted before the next: only while it hangs do they pile up.
Paced(t, timers) == pc = "hung" \/ Waiting(t) + dropped[t] < timers

Post(t) == /\ queue' = Posted(queue, t)
           /\ dropped' = IF Len(queue) = QueueSize /\ pc # "hung"
                         THEN [dropped EXCEPT ![t] = @ + 1] ELSE dropped

UpperTick == /\ upper > 0 /\ Paced("lower", upper)
             /\ BumpClock
             /\ Post("lower")
             /\ UNCHANGED <<state, entryVars, timerVars, pc, low, relay, envVars>>

\* The extras' timer advances the same counters.
ExtrasTick == /\ exts > 0 /\ Paced("extras", exts)
              /\ BumpClock
              /\ Post("extras")
              /\ UNCHANGED <<state, entryVars, timerVars, pc, low, relay, envVars>>

-----------------------------------------------------------------------------
\* tasks_run.
Poll == /\ pc = "loop" /\ queue # <<>>
        /\ pc' = Head(queue)
        /\ queue' = Tail(queue)
        /\ dropped' = NoneDropped
        /\ UNCHANGED <<state, clockVars, entryVars, timerVars, low, relay, envVars>>

\* yogurt_alarm calls itself for ever when the alarm is on.
AlarmThen(next) == pc' = IF extras.alarm THEN "hung" ELSE next

\* yogurt_temperature_control: off on an error, otherwise the level computed.
\* Before an entry the target is 0 degrees, below any reading: the level is 0.
Control == IF sensor /\ target THEN relay' \in BOOLEAN ELSE relay' = FALSE

\* Slip: the timer that drives the cycle is not added.
StartCycleNoTimer ==
    IF sensor THEN /\ state' = "ATTAIN" /\ minutes' = 0 /\ seconds' = 0
                   /\ UNCHANGED <<upper, queue>>
              ELSE /\ queue' = Posted(queue, "start")
                   /\ UNCHANGED <<state, clockVars, upper>>

\* yogurt_start: begins the cycle, or tries again later without a temperature.
\* A carry between the two stores, which only ATTAIN's count would show, is left out.
StartCycle ==
    IF sensor THEN /\ state' = "ATTAIN" /\ minutes' = 0 /\ seconds' = 0
                   /\ upper' = upper + 1
                   /\ UNCHANGED queue
              ELSE /\ queue' = Posted(queue, "start")
                   /\ UNCHANGED <<state, clockVars, upper>>

StartTask == /\ pc = "start" /\ pc' = "loop"
             /\ StartCycle
             /\ UNCHANGED <<entryVars, exts, low, dropped, relay, envVars>>

-----------------------------------------------------------------------------
\* Slip: yogurt_run_lower leaves its timer registered.
LowerIdleKeepsTimer ==
    /\ pc = "lower" /\ pc' = "loop"
    /\ state = "IDLE"
    /\ relay' = FALSE
    /\ UNCHANGED <<state, clockVars, entryVars, timerVars, queue, low, dropped, envVars>>

\* yogurt_run_lower.
LowerIdle == /\ pc = "lower" /\ pc' = "loop"
             /\ state = "IDLE"
             /\ upper' = Del(upper)
             /\ relay' = FALSE
             /\ UNCHANGED <<state, clockVars, entryVars, exts, queue, low, dropped,
                            envVars>>

\* Control, then on an error the task is over; in MAINTAIN the clock is looked
\* at; in ATTAIN the interval between the last two temperatures decides.
LowerControl ==
    /\ pc = "lower" /\ state # "IDLE"
    /\ Control
    /\ \/ ~sensor /\ pc' = "loop"
       \/ sensor /\ state = "MAINTAIN" /\ pc' = "low"
       \/ sensor /\ state = "ATTAIN" /\ pc' = "loop"
       \/ sensor /\ state = "ATTAIN" /\ target /\ pc' = "attained"
    /\ UNCHANGED <<state, clockVars, entryVars, timerVars, queue, low, dropped, envVars>>

\* Line 200: the two bytes of control.minutes are loaded one after the other.
ReadLow == /\ pc = "low" /\ pc' = "high"
           /\ low' = minutes % Byte
           /\ UNCHANGED <<state, clockVars, entryVars, timerVars, queue, dropped,
                          relay, envVars>>

MinutesRead == (minutes \div Byte) * Byte + low

\* Slip: the last minute is cut off.
EndEarly == /\ pc = "high"
            /\ IF MinutesRead + 1 >= cycle
               THEN /\ relay' = FALSE
                    /\ AlarmThen("loop")
                    /\ state' = IF extras.alarm THEN state ELSE "IDLE"
               ELSE pc' = "loop" /\ UNCHANGED <<state, relay>>
            /\ low' = 0
            /\ UNCHANGED <<clockVars, entryVars, timerVars, queue, dropped, envVars>>

\* Slip: the relay goes off but the state stays.
EndForgetsIdle == /\ pc = "high"
                  /\ IF MinutesRead >= cycle
                     THEN relay' = FALSE /\ AlarmThen("loop")
                     ELSE pc' = "loop" /\ UNCHANGED relay
                  /\ low' = 0
                  /\ UNCHANGED <<state, clockVars, entryVars, timerVars, queue,
                                 dropped, envVars>>

\* Lines 200 to 204.  Line 203 is not reached when the alarm is on.
EndOfCycle == /\ pc = "high"
              /\ IF MinutesRead >= cycle
                 THEN /\ relay' = FALSE
                      /\ AlarmThen("loop")
                      /\ state' = IF extras.alarm THEN state ELSE "IDLE"
                 ELSE pc' = "loop" /\ UNCHANGED <<state, relay>>
              /\ low' = 0
              /\ UNCHANGED <<clockVars, entryVars, timerVars, queue, dropped, envVars>>

\* Lines 211 to 215, with the counters still running between the two stores.
Attained == /\ pc = "attained"
            /\ AlarmThen("restart")
            /\ UNCHANGED <<state, clockVars, entryVars, timerVars, queue, low, dropped,
                           relay, envVars>>

RestartMinutes ==
    /\ pc = "restart" /\ pc' = "maintain"
    /\ minutes' = 0
    /\ UNCHANGED <<state, seconds, entryVars, timerVars, queue, low, dropped, relay,
                   envVars>>

\* Slip: the seconds go on from the previous state.
EnterMaintainNoReset ==
    /\ pc = "maintain" /\ pc' = "loop"
    /\ state' = "MAINTAIN"
    /\ UNCHANGED <<clockVars, entryVars, timerVars, queue, low, dropped, relay, envVars>>

EnterMaintain ==
    /\ pc = "maintain" /\ pc' = "loop"
    /\ seconds' = 0
    /\ state' = "MAINTAIN"
    /\ UNCHANGED <<minutes, entryVars, timerVars, queue, low, dropped, relay, envVars>>

-----------------------------------------------------------------------------
\* yogurt_extras: the kitchen timer, the thermometer, which drives the relay
\* as in a cycle, and the end of the extras' own timer.  minutes is read as one.
ExtrasTask ==
    LET rings == extras.timer /\ minutes >= cycle
        hangs == rings /\ extras.alarm
    IN /\ pc = "extras"
       /\ pc' = IF hangs THEN "hung" ELSE "loop"
       /\ extras' = [extras EXCEPT !.timer = @ /\ ~rings]
       /\ IF extras.thermo /\ ~hangs THEN Control ELSE UNCHANGED relay
       /\ exts' = IF hangs \/ extras'.timer \/ extras.thermo THEN exts ELSE Del(exts)
       /\ UNCHANGED <<state, clockVars, step, cycle, target, upper, queue, low,
                      dropped, envVars>>

-----------------------------------------------------------------------------
\* yogurt_keyhandler.  keypad_getc takes the key and clears keymask.
Key(k) == /\ pc = "key" /\ keymask = k
          /\ pc' = "loop" /\ keymask' = NoKey
          /\ UNCHANGED <<low, dropped, relay, sensor, pressed>>

\* yogurt_clear_state; the relay is not touched.
ClearState ==
    /\ state' = "IDLE"
    /\ extras' = [timer |-> FALSE, thermo |-> FALSE, alarm |-> FALSE]
    /\ upper' = Del(upper)
    /\ exts' = Del(exts)

NothingPressed == /\ Key(NoKey)
                  /\ UNCHANGED <<state, clockVars, entryVars, timerVars, queue>>

AlarmKey == /\ Key("a")
            /\ extras' = [extras EXCEPT !.alarm = ~@]
            /\ UNCHANGED <<state, clockVars, step, cycle, target, timerVars, queue>>

CancelKey == /\ Key("#")
             /\ step' = IF state = "IDLE" THEN 0 ELSE step
             /\ ClearState
             /\ UNCHANGED <<clockVars, cycle, target, queue>>

\* Other keys do nothing while a cycle runs.
IgnoredKey == /\ \E k \in {"*", "b", "c"} : Key(k)
              /\ state # "IDLE"
              /\ UNCHANGED <<state, clockVars, entryVars, timerVars, queue>>

BeginEntry == /\ Key("*") /\ state = "IDLE" /\ step = 0
              /\ step' = 1
              /\ ClearState
              /\ UNCHANGED <<clockVars, cycle, target, queue>>

TemperatureEntered == /\ Key("*") /\ state = "IDLE" /\ step = 1
                      /\ step' = 2
                      /\ target' = TRUE
                      /\ UNCHANGED <<state, clockVars, extras, cycle, timerVars, queue>>

TimeEntered ==
    /\ Key("*") /\ state = "IDLE" /\ step = 2
    /\ step' = 0
    /\ cycle' \in Cycles
    /\ IF extras.timer THEN /\ exts' = Del(exts) + 1
                            /\ minutes' = 0 /\ seconds' = 0
                            /\ UNCHANGED <<state, upper, queue>>
                       ELSE StartCycle /\ UNCHANGED exts
    /\ UNCHANGED <<extras, target>>

\* Slip: a timer is added without deleting the one that may be there.
ThermoKeyAddsAgain ==
    /\ Key("b") /\ state = "IDLE"
    /\ extras' = [extras EXCEPT !.thermo = ~@]
    /\ exts' = IF ~extras.timer THEN exts + 1 ELSE exts
    /\ UNCHANGED <<state, clockVars, step, cycle, target, upper, queue>>

ThermoKey ==
    /\ Key("b") /\ state = "IDLE"
    /\ extras' = [extras EXCEPT !.thermo = ~@]
    /\ exts' = IF extras.timer THEN exts
               ELSE Del(exts) + (IF extras'.thermo THEN 1 ELSE 0)
    /\ UNCHANGED <<state, clockVars, step, cycle, target, upper, queue>>

TimerKey ==
    /\ Key("c") /\ state = "IDLE"
    /\ extras' = [extras EXCEPT !.timer = ~@]
    /\ step' = IF extras'.timer THEN 2 ELSE step
    /\ exts' = Del(exts) + (IF ~extras'.timer /\ extras.thermo THEN 1 ELSE 0)
    /\ UNCHANGED <<state, clockVars, cycle, target, upper, queue>>

-----------------------------------------------------------------------------
\* keypad_scan, a task of main_thread, stores the key and posts the handler.
\* Keys held together read as NoKey.  Keypad's NoKeyLost: never while a handler
\* waits; a handler that the full queue dropped leaves its key to the next.
Press(k) == /\ pc = "loop" /\ pressed < MaxKeys
            /\ \A i \in 1 .. Len(queue) : queue[i] # "key"
            /\ pressed' = pressed + 1
            /\ keymask' = k
            /\ queue' = Posted(queue, "key")
            /\ UNCHANGED <<state, clockVars, entryVars, timerVars, pc, low, dropped,
                           relay, sensor>>

\* temp_run stores the outcome of a reading.
Reading == /\ pc = "loop"
           /\ sensor' = ~sensor
           /\ UNCHANGED <<state, clockVars, entryVars, timerVars, queue, pc, low,
                          dropped, relay,
                          keymask, pressed>>

Handle == \/ NothingPressed \/ AlarmKey \/ CancelKey \/ IgnoredKey
          \/ BeginEntry \/ TemperatureEntered \/ TimeEntered
          \/ ThermoKey \/ TimerKey

Main == \/ Poll \/ StartTask \/ Handle \/ ExtrasTask
        \/ LowerIdle \/ LowerControl \/ ReadLow \/ EndOfCycle
        \/ Attained \/ RestartMinutes \/ EnterMaintain

Steps == \/ Main \/ UpperTick \/ ExtrasTick
         \/ \E k \in Keys \cup {NoKey} : Press(k)
         \/ Reading

\* Only the two interrupts move the counters in MAINTAIN.
Hold == held' = IF state = "MAINTAIN" /\ state' = "MAINTAIN"
                THEN IF clockVars' # clockVars /\ held < MaxMinutes * Minute
                     THEN held + 1 ELSE held
                ELSE 0

Next == Steps /\ Hold

\* main_thread loops for ever and registered periodic timers keep firing.
Spec == /\ Init /\ [][Next]_vars
        /\ WF_vars(Main /\ Hold) /\ WF_vars(UpperTick /\ Hold) /\ WF_vars(ExtrasTick /\ Hold)

-----------------------------------------------------------------------------
\* Type correctness of the control block, the switches, the queue and the
\* main thread's position.
TypeOK ==
    /\ state \in {"IDLE", "ATTAIN", "MAINTAIN"}
    /\ minutes \in 0 .. MaxMinutes /\ seconds \in 0 .. Minute - 1
    /\ cycle \in 0 .. MaxMinutes /\ target \in BOOLEAN
    /\ extras \in [timer : BOOLEAN, thermo : BOOLEAN, alarm : BOOLEAN]
    /\ step \in 0 .. 2 /\ upper \in Nat /\ exts \in Nat
    /\ queue \in Seq(Tasks) /\ Len(queue) <= QueueSize
    /\ dropped \in [lower : Nat, extras : Nat]
    /\ pc \in Tasks \cup {"loop", "low", "high", "attained", "restart", "maintain", "hung"}
    /\ low \in 0 .. Byte - 1
    /\ keymask \in Keys \cup {NoKey}
    /\ relay \in BOOLEAN /\ sensor \in BOOLEAN /\ pressed \in 0 .. MaxKeys
    /\ held \in Nat

\* A cycle in progress has a timer that drives it: without one the relay would
\* stay at its last level and the cycle never end.  Timers are deleted by
\* run_lower, by '#' and by '*', several of which may run late.
DriverAlive == state # "IDLE" => upper >= 1

\* At most one timer runs the extras, whatever the order of the keys that add
\* and delete it and of the tasks that delete it.
OneExtrasTimer == exts <= 1

\* MAINTAIN starts with fresh counters, up to the minute a timer interrupt can
\* add between the stores of minutes and seconds.
CountersRestart ==
    [][state' = "MAINTAIN" /\ state # "MAINTAIN" => minutes' <= 1 /\ seconds' = 0]_vars

\* A cycle that ends by itself has been maintained for its minutes, counted in
\* clock interrupts, less the minute that may be counted when it begins.  The
\* one exception: the interrupt carried into the high byte after a low byte of
\* all ones was read, which takes a cycle of more than Byte minutes.
EndsNotEarly ==
    [][pc = "high" /\ state # "IDLE" /\ state' = "IDLE" =>
           \/ held + Minute >= cycle * Minute
           \/ cycle > Byte /\ low = Byte - 1 /\ minutes % Byte = 0]_vars

\* Once maintained, a cycle ends, provided the sensor recovers for good: unless
\* yogurt_alarm is entered with the alarm on, or a second start, entered while
\* the first waited for a temperature, sends the cycle back to ATTAIN.
CycleEnds ==
    <>[]sensor =>
        (state = "MAINTAIN" ~> (state \in {"IDLE", "ATTAIN"} \/ pc = "hung"))

\* Timers left over in IDLE are deleted by the tasks they post: run_upper's
\* after a cycle ended, the extras' after both switches went off.
LeftoverTimersGo ==
    /\ (state = "IDLE" /\ upper > 0) ~> (upper = 0 \/ state # "IDLE" \/ pc = "hung")
    /\ (exts > 0 /\ ~extras.timer /\ ~extras.thermo)
          ~> (exts = 0 \/ extras.timer \/ extras.thermo \/ pc = "hung")

-----------------------------------------------------------------------------
\* yogurt.c:27-28: "when the target is attained, it is maintained".
AttainedIsMaintained == pc = "attained" ~> state = "MAINTAIN"

\* yogurt.c:240: "always shut the relay off in the event of an error": with the
\* sensor failed for good, the relay ends up off.
RelayOffOnError == <>[]~sensor => <>[]~relay
=============================================================================
