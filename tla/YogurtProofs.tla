---------------------------- MODULE YogurtProofs -----------------------------
(***************************************************************************)
(* The controller for every cycle time, queue size and clock: a cycle in   *)
(* progress always has a timer that drives it, the extras never more than  *)
(* one, and the counters that the timers' interrupts advance between the   *)
(* steps of run_lower are at most a minute ahead when a cycle begins, and  *)
(* end it at most that minute early, but for a torn read of a long one.    *)
(***************************************************************************)
EXTENDS Yogurt, SequenceTheorems, FiniteSetTheorems, TLAPS

\* In the middle of run_lower the state is still the one it branched on: only
\* the main thread changes it.
LowerState == /\ pc \in {"attained", "restart", "maintain"} => state = "ATTAIN"
              /\ pc \in {"low", "high"} => state = "MAINTAIN"

IInv == TypeOK /\ LowerState /\ DriverAlive /\ OneExtrasTimer

LEMMA Products ==
    ASSUME NEW a \in Nat, NEW b \in Nat, NEW c \in Nat
    PROVE  /\ a * b \in Nat /\ (a + 1) * b = a * b + b
           /\ a <= c => a * b <= c * b
<1>1. ASSUME a <= c PROVE a * b <= c * b
  <2>1. (c - a) * b \in Nat /\ (c - a) * b = c * b - a * b
    BY <1>1
  <2>2. a * b \in Nat /\ c * b \in Nat
    OBVIOUS
  <2> QED
    BY <2>1, <2>2
<1> QED
  BY <1>1

USE ClockAssumption, ByteAssumption, CycleAssumption, SizeAssumption, KeyAssumption

\* What task_schedule leaves in the queue is a queue.
LEMMA PostedType ==
    ASSUME queue \in Seq(Tasks), Len(queue) <= QueueSize, NEW t \in Tasks
    PROVE  Posted(queue, t) \in Seq(Tasks) /\ Len(Posted(queue, t)) <= QueueSize
<1>1. /\ Append(queue, t) \in Seq(Tasks)
      /\ Len(Append(queue, t)) = Len(queue) + 1 /\ Len(queue) \in Nat
  BY AppendProperties, LenProperties
<1> QED
  BY <1>1, SMT DEF Posted

LEMMA InitInvariant == Init => IInv
<1> SUFFICES ASSUME Init PROVE IInv
  OBVIOUS
<1>1. <<>> \in Seq(Tasks) /\ Len(<<>>) = 0
  BY EmptySeq
<1>2. TypeOK
  <2>1. /\ minutes \in 0 .. MaxMinutes /\ seconds \in 0 .. Minute - 1
        /\ cycle \in 0 .. MaxMinutes /\ step \in 0 .. 2 /\ upper \in Nat /\ exts \in Nat
        /\ low \in 0 .. Byte - 1 /\ pressed \in 0 .. MaxKeys /\ held \in Nat
    BY SMT DEF Init
  <2>2. queue \in Seq(Tasks) /\ Len(queue) <= QueueSize
    BY <1>1, SMT DEF Init
  <2>3. dropped \in [lower : Nat, extras : Nat]
    BY DEF Init, NoneDropped
  <2> QED
    BY <2>1, <2>2, <2>3 DEF Init, TypeOK
<1> QED
  BY <1>2, SMT DEF Init, IInv, DriverAlive, OneExtrasTimer, LowerState, LowerState

\* The clock's interrupts.
LEMMA ClockStep ==
    ASSUME TypeOK, BumpClock
    PROVE  minutes' \in 0 .. MaxMinutes /\ seconds' \in 0 .. Minute - 1
BY SMT DEF TypeOK, BumpClock

LEMMA TickStep ==
    ASSUME IInv, UpperTick \/ ExtrasTick, held' \in Nat
    PROVE  IInv'
<1>1. minutes' \in 0 .. MaxMinutes /\ seconds' \in 0 .. Minute - 1
  BY ClockStep DEF IInv, UpperTick, ExtrasTick
<1>2. queue' \in Seq(Tasks) /\ Len(queue') <= QueueSize
  BY PostedType DEF IInv, TypeOK, UpperTick, ExtrasTick, Post, Tasks
<1>5. dropped' \in [lower : Nat, extras : Nat]
  <2>1. dropped' \in {dropped, [dropped EXCEPT !["lower"] = @ + 1],
                      [dropped EXCEPT !["extras"] = @ + 1]}
    BY DEF UpperTick, ExtrasTick, Post
  <2> QED
    BY <2>1 DEF IInv, TypeOK
<1>3. UNCHANGED <<state, entryVars, timerVars, pc, low, relay, envVars>>
  BY DEF UpperTick, ExtrasTick
<1>4. TypeOK'
  BY <1>1, <1>2, <1>3, <1>5 DEF IInv, TypeOK, entryVars, timerVars, envVars
<1> QED
  BY <1>3, <1>4 DEF IInv, DriverAlive, OneExtrasTimer, LowerState, timerVars

\* Setting one of the extras' switches.
LEMMA SwitchType ==
    ASSUME extras \in [timer : BOOLEAN, thermo : BOOLEAN, alarm : BOOLEAN],
           NEW v \in BOOLEAN
    PROVE  /\ [extras EXCEPT !.timer = v]
                 \in [timer : BOOLEAN, thermo : BOOLEAN, alarm : BOOLEAN]
           /\ [extras EXCEPT !.thermo = v]
                 \in [timer : BOOLEAN, thermo : BOOLEAN, alarm : BOOLEAN]
           /\ [extras EXCEPT !.alarm = v]
                 \in [timer : BOOLEAN, thermo : BOOLEAN, alarm : BOOLEAN]
OBVIOUS

\* A start adds the timer in the step that leaves IDLE, or changes nothing
\* but the queue.
LEMMA StartStep ==
    ASSUME IInv, StartCycle
    PROVE  /\ state' \in {"IDLE", "ATTAIN", "MAINTAIN"}
           /\ minutes' \in 0 .. MaxMinutes /\ seconds' \in 0 .. Minute - 1
           /\ upper' \in Nat
           /\ queue' \in Seq(Tasks) /\ Len(queue') <= QueueSize
           /\ DriverAlive'
<1>1. CASE sensor
  <2>1. state' = "ATTAIN" /\ minutes' = 0 /\ seconds' = 0 /\ upper' = upper + 1
        /\ queue' = queue
    BY <1>1 DEF StartCycle
  <2>2. upper + 1 \in Nat /\ upper + 1 >= 1
    BY SMT DEF IInv, TypeOK
  <2> QED
    BY <2>1, <2>2 DEF IInv, TypeOK, DriverAlive
<1>2. CASE ~sensor
  <2>1. /\ queue' = Posted(queue, "start")
        /\ UNCHANGED <<state, minutes, seconds, upper>>
    BY <1>2 DEF StartCycle, clockVars
  <2> QED
    BY <2>1, PostedType DEF IInv, TypeOK, Tasks, DriverAlive
<1> QED
  BY <1>1, <1>2

\* The main thread's tasks other than the key handler.
LEMMA TaskStep ==
    ASSUME IInv, held' \in Nat,
           \/ Poll \/ StartTask \/ ExtrasTask \/ LowerIdle \/ LowerControl \/ ReadLow
           \/ EndOfCycle \/ Attained \/ RestartMinutes \/ EnterMaintain
    PROVE  IInv'
<1> USE DEF entryVars, timerVars, envVars, clockVars
<1>1. CASE Poll
  <2>1. queue' \in Seq(Tasks) /\ Len(queue') <= QueueSize /\ pc' \in Tasks
    BY <1>1, HeadTailProperties, EmptySeq, SMT DEF Poll, IInv, TypeOK
  <2>2. dropped' \in [lower : Nat, extras : Nat]
    BY <1>1 DEF Poll, NoneDropped
  <2> QED
    BY <1>1, <2>1, <2>2 DEF Poll, Tasks, IInv, TypeOK, DriverAlive, OneExtrasTimer, LowerState
<1>2. CASE StartTask
  BY <1>2, StartStep DEF StartTask, IInv, TypeOK, OneExtrasTimer, LowerState
<1>3. CASE ExtrasTask
  <2>1. extras' \in [timer : BOOLEAN, thermo : BOOLEAN, alarm : BOOLEAN]
    <3>1. \A v \in BOOLEAN : [extras EXCEPT !.timer = v]
                            \in [timer : BOOLEAN, thermo : BOOLEAN, alarm : BOOLEAN]
      BY SwitchType DEF IInv, TypeOK
    <3> DEFINE v == extras.timer /\ ~(extras.timer /\ minutes >= cycle)
    <3>2. v \in BOOLEAN /\ extras' = [extras EXCEPT !.timer = v]
      BY <1>3 DEF ExtrasTask
    <3> HIDE DEF v
    <3> QED
      BY <3>1, <3>2
  <2>2. relay' \in BOOLEAN
    BY <1>3 DEF ExtrasTask, Control, IInv, TypeOK
  <2>3. exts' \in Nat /\ exts' <= exts
    <3>1. exts \in Nat /\ (exts' = exts \/ exts' = Del(exts))
      BY <1>3 DEF ExtrasTask, IInv, TypeOK
    <3> QED
      BY <3>1, SMT DEF Del
  <2>4. pc' \in {"loop", "hung"} /\ UNCHANGED <<state, clockVars, step, cycle, target, upper, queue, low,
                                             dropped, envVars>>
    BY <1>3 DEF ExtrasTask
  <2>5. OneExtrasTimer'
    BY <2>3, SMT DEF IInv, TypeOK, OneExtrasTimer, LowerState
  <2> QED
    BY <2>1, <2>2, <2>3, <2>4, <2>5 DEF IInv, TypeOK, DriverAlive, LowerState
<1>4. CASE LowerIdle
  <2>1. upper' \in Nat
    <3>1. upper \in Nat /\ upper' = Del(upper)
      BY <1>4 DEF LowerIdle, IInv, TypeOK
    <3> QED
      BY <3>1, SMT DEF Del
  <2> QED
    BY <1>4, <2>1 DEF LowerIdle, IInv, TypeOK, DriverAlive, OneExtrasTimer, LowerState
<1>5. CASE LowerControl
  <2>1. relay' \in BOOLEAN
    BY <1>5 DEF LowerControl, Control
  <2> QED
    BY <1>5, <2>1 DEF LowerControl, IInv, TypeOK, DriverAlive, OneExtrasTimer, LowerState
<1>6. CASE ReadLow
  <2>1. low' \in 0 .. Byte - 1
    BY <1>6, SMT DEF ReadLow, IInv, TypeOK
  <2> QED
    BY <1>6, <2>1 DEF ReadLow, IInv, TypeOK, DriverAlive, OneExtrasTimer, LowerState
<1>7. CASE EndOfCycle
  <2>1. 0 \in 0 .. Byte - 1
    BY SMT
  <2> QED
    BY <1>7, <2>1 DEF EndOfCycle, AlarmThen, IInv, TypeOK, DriverAlive, OneExtrasTimer, LowerState
<1>8. CASE Attained
  BY <1>8 DEF Attained, AlarmThen, IInv, TypeOK, DriverAlive, OneExtrasTimer, LowerState
<1>9. CASE RestartMinutes \/ EnterMaintain
  <2>1. 0 \in 0 .. MaxMinutes /\ 0 \in 0 .. Minute - 1
    BY SMT
  <2>2. CASE RestartMinutes
    BY <2>1, <2>2 DEF RestartMinutes, IInv, TypeOK, DriverAlive, OneExtrasTimer, LowerState
  <2>3. CASE EnterMaintain
    <3>1. upper >= 1 /\ upper' = upper
      BY <2>3 DEF EnterMaintain, IInv, LowerState, DriverAlive
    <3> QED
      BY <2>1, <2>3, <3>1 DEF EnterMaintain, IInv, TypeOK, DriverAlive, OneExtrasTimer, LowerState
  <2> QED
    BY <1>9, <2>2, <2>3
<1> QED
  BY <1>1, <1>2, <1>3, <1>4, <1>5, <1>6, <1>7, <1>8, <1>9

\* The key handler.
LEMMA KeyStep ==
    ASSUME IInv, Handle, held' \in Nat
    PROVE  IInv'
<1> USE DEF entryVars, timerVars, envVars, clockVars
<1> DEFINE Switches == [timer : BOOLEAN, thermo : BOOLEAN, alarm : BOOLEAN]
<1>k. ASSUME NEW k, Key(k)
      PROVE  pc' = "loop" /\ keymask' = NoKey /\ UNCHANGED <<low, dropped, relay, sensor, pressed>>
  BY <1>k DEF Key
<1>n. exts \in Nat /\ exts <= 1 /\ upper \in Nat /\ extras \in Switches
  BY DEF IInv, TypeOK, OneExtrasTimer
<1>1. CASE NothingPressed \/ IgnoredKey
  BY <1>1, <1>k DEF NothingPressed, IgnoredKey, IInv, TypeOK, DriverAlive, OneExtrasTimer,
                    LowerState
<1>2. CASE AlarmKey
  <2>1. extras' \in Switches
    <3>1. (~extras.alarm) \in BOOLEAN /\ extras' = [extras EXCEPT !.alarm = ~extras.alarm]
      BY <1>2 DEF AlarmKey
    <3> QED
      BY <1>n, <3>1, SwitchType
  <2> QED
    BY <1>2, <1>k, <2>1 DEF AlarmKey, IInv, TypeOK, DriverAlive, OneExtrasTimer, LowerState
<1>3. CASE CancelKey \/ BeginEntry
  <2>1. /\ state' = "IDLE" /\ extras' \in Switches
        /\ upper' \in Nat /\ exts' \in Nat /\ exts' <= 1
    <3>1. /\ state' = "IDLE" /\ upper' = Del(upper) /\ exts' = Del(exts)
          /\ extras' = [timer |-> FALSE, thermo |-> FALSE, alarm |-> FALSE]
      BY <1>3 DEF CancelKey, BeginEntry, ClearState
    <3>2. Del(upper) \in Nat /\ Del(exts) \in Nat /\ Del(exts) <= 1
      BY <1>n, SMT DEF Del
    <3>3. extras' \in Switches
      BY <3>1
    <3> QED
      BY <3>1, <3>2, <3>3
  <2>2. step' \in 0 .. 2
    BY <1>3 DEF CancelKey, BeginEntry, IInv, TypeOK
  <2>3. UNCHANGED <<clockVars, cycle, target, queue>>
    BY <1>3 DEF CancelKey, BeginEntry
  <2> QED
    BY <1>3, <1>k, <2>1, <2>2, <2>3
       DEF CancelKey, BeginEntry, IInv, TypeOK, DriverAlive, OneExtrasTimer, LowerState
<1>4. CASE TemperatureEntered
  BY <1>4, <1>k DEF TemperatureEntered, IInv, TypeOK, DriverAlive, OneExtrasTimer, LowerState
<1>5. CASE TimeEntered
  <2>1. /\ cycle' \in 0 .. MaxMinutes /\ step' = 0
        /\ UNCHANGED <<extras, target>>
    BY <1>5 DEF TimeEntered
  <2>2. pc' = "loop" /\ keymask' = NoKey /\ UNCHANGED <<low, dropped, relay, sensor, pressed>>
    BY <1>5, <1>k DEF TimeEntered
  <2>3. CASE extras.timer
    <3>1. exts' = Del(exts) + 1 /\ minutes' = 0 /\ seconds' = 0
          /\ UNCHANGED <<state, upper, queue>>
      BY <1>5, <2>3 DEF TimeEntered
    <3>2. exts' \in Nat /\ exts' <= 1
      BY <1>n, <3>1, SMT DEF Del
    <3>3. 0 \in 0 .. MaxMinutes /\ 0 \in 0 .. Minute - 1
      BY SMT
    <3> QED
      BY <2>1, <2>2, <3>1, <3>2, <3>3
         DEF IInv, TypeOK, DriverAlive, OneExtrasTimer, LowerState
  <2>4. CASE ~extras.timer
    <3>1. StartCycle /\ exts' = exts
      BY <1>5, <2>4 DEF TimeEntered
    <3> QED
      BY <2>1, <2>2, <3>1, StartStep DEF IInv, TypeOK, OneExtrasTimer, LowerState
  <2> QED
    BY <2>3, <2>4
<1>6. CASE ThermoKey
  <2>1. extras' \in Switches
    <3>1. (~extras.thermo) \in BOOLEAN /\ extras' = [extras EXCEPT !.thermo = ~extras.thermo]
      BY <1>6 DEF ThermoKey
    <3> QED
      BY <1>n, <3>1, SwitchType
  <2>2. exts' \in Nat /\ exts' <= 1
    <3>1. exts' = exts \/ exts' = Del(exts) + 1 \/ exts' = Del(exts) + 0
      BY <1>6 DEF ThermoKey
    <3> QED
      BY <1>n, <3>1, SMT DEF Del
  <2> QED
    BY <1>6, <1>k, <2>1, <2>2
       DEF ThermoKey, IInv, TypeOK, DriverAlive, OneExtrasTimer, LowerState
<1>7. CASE TimerKey
  <2>1. extras' \in Switches
    <3>1. (~extras.timer) \in BOOLEAN /\ extras' = [extras EXCEPT !.timer = ~extras.timer]
      BY <1>7 DEF TimerKey
    <3> QED
      BY <1>n, <3>1, SwitchType
  <2>2. exts' \in Nat /\ exts' <= 1
    <3>1. exts' = Del(exts) + 1 \/ exts' = Del(exts) + 0
      BY <1>7 DEF TimerKey
    <3> QED
      BY <1>n, <3>1, SMT DEF Del
  <2>3. step' \in 0 .. 2
    BY <1>7 DEF TimerKey, IInv, TypeOK
  <2> QED
    BY <1>7, <1>k, <2>1, <2>2, <2>3
       DEF TimerKey, IInv, TypeOK, DriverAlive, OneExtrasTimer, LowerState
<1> QED
  BY <1>1, <1>2, <1>3, <1>4, <1>5, <1>6, <1>7 DEF Handle

\* The keypad and the temperature thread.
LEMMA EnvironmentStep ==
    ASSUME IInv, (\E k \in Keys \cup {NoKey} : Press(k)) \/ Reading, held' \in Nat
    PROVE  IInv'
<1> USE DEF entryVars, timerVars, envVars, clockVars
<1>1. ASSUME NEW k \in Keys \cup {NoKey}, Press(k) PROVE IInv'
  <2>1. queue' \in Seq(Tasks) /\ Len(queue') <= QueueSize
    BY <1>1, PostedType DEF Press, IInv, TypeOK, Tasks
  <2>2. pressed' \in 0 .. MaxKeys
    BY <1>1, SMT DEF Press, IInv, TypeOK
  <2> QED
    BY <1>1, <2>1, <2>2 DEF Press, IInv, TypeOK, DriverAlive, OneExtrasTimer, LowerState
<1>2. CASE Reading
  BY <1>2 DEF Reading, IInv, TypeOK, DriverAlive, OneExtrasTimer, LowerState
<1> QED
  BY <1>1, <1>2

THEOREM Invariance == Spec => []IInv
<1>1. IInv /\ [Next]_vars => IInv'
  <2> SUFFICES ASSUME IInv, [Next]_vars PROVE IInv'
    OBVIOUS
  <2>1. CASE UNCHANGED vars
    BY <2>1 DEF vars, codeVars, clockVars, entryVars, timerVars, envVars,
                IInv, TypeOK, DriverAlive, OneExtrasTimer, LowerState
  <2>2. CASE Next
    <3>1. held' \in Nat
      BY <2>2 DEF Next, Hold, IInv, TypeOK
    <3> QED
      BY <2>2, <3>1, TickStep, TaskStep, KeyStep, EnvironmentStep DEF Next, Steps, Main
  <2> QED
    BY <2>1, <2>2
<1> QED
  BY InitInvariant, <1>1, PTL DEF Spec

\* The control block, the queue and the program position keep their types.
THEOREM TypeCorrect == Spec => []TypeOK
BY Invariance, PTL DEF IInv

\* A cycle in progress always has a timer that drives it, however late a
\* run_lower, a start or a key comes.
THEOREM DriverStaysAlive == Spec => []DriverAlive
BY Invariance, PTL DEF IInv

\* No order of keys and tasks adds a second timer for the extras.
THEOREM ExtrasTimerUnique == Spec => []OneExtrasTimer
BY Invariance, PTL DEF IInv

-----------------------------------------------------------------------------
\* The clock inside run_lower.  Between two of its steps a timer's interrupt
\* comes at most once for each of its timers: what they still may add.
Room(t, timers) == LET n == timers - (Waiting(t) + dropped[t]) IN IF n > 0 THEN n ELSE 0
Rooms == Room("lower", upper) + Room("extras", exts)

\* The minutes are still m, or one more, the seconds having begun again since.
Near(m) == \/ minutes = m
           \/ minutes = m + 1 /\ seconds + Rooms < upper + exts

\* With no more timers than seconds in a minute, one minute at most is carried
\* between the stores of minutes and seconds, or between the reads of the two
\* bytes of minutes.
Clocked == upper + exts <= Minute =>
              /\ pc = "maintain" => Near(0)
              /\ pc = "high" => \E m \in Nat : low = m % Byte /\ Near(m)

\* Counting the tasks that wait in the queue.
LEMMA WaitingType ==
    ASSUME NEW q \in Seq(Tasks), NEW t
    PROVE  /\ IsFiniteSet({i \in DOMAIN q : q[i] = t})
           /\ Cardinality({i \in DOMAIN q : q[i] = t}) \in Nat
<1>1. IsFiniteSet(1 .. Len(q)) /\ DOMAIN q = 1 .. Len(q)
  BY FS_Interval, LenProperties
<1> QED
  BY <1>1, FS_Subset, FS_CardinalityType

LEMMA WaitingAppend ==
    ASSUME NEW q \in Seq(Tasks), NEW t \in Tasks, NEW u
    PROVE  Cardinality({i \in DOMAIN Append(q, t) : Append(q, t)[i] = u})
              = Cardinality({i \in DOMAIN q : q[i] = u}) + (IF t = u THEN 1 ELSE 0)
<1> DEFINE A == {i \in DOMAIN q : q[i] = u}
           B == {i \in DOMAIN Append(q, t) : Append(q, t)[i] = u}
<1>1. /\ Append(q, t) \in Seq(Tasks) /\ Len(Append(q, t)) = Len(q) + 1 /\ Len(q) \in Nat
      /\ \A i \in 1 .. Len(q) : Append(q, t)[i] = q[i]
      /\ Append(q, t)[Len(q) + 1] = t
  BY AppendProperties, LenProperties
<1>2. DOMAIN q = 1 .. Len(q) /\ DOMAIN Append(q, t) = 1 .. Len(q) + 1
  BY <1>1, LenProperties
<1>3. IsFiniteSet(A) /\ Cardinality(A) \in Nat
  BY WaitingType
<1>4. Len(q) + 1 \notin A
  BY <1>1, <1>2, SMT
<1>5. CASE t = u
  <2>1. B = A \cup {Len(q) + 1}
    BY <1>1, <1>2, <1>5, SMT
  <2> HIDE DEF A, B
  <2>2. Cardinality(B) = Cardinality(A) + 1
    BY <1>3, <1>4, <2>1, FS_AddElement
  <2> QED
    BY <1>5, <2>2 DEF A, B
<1>6. CASE t # u
  <2>1. B = A
    BY <1>1, <1>2, <1>6, SMT
  <2> HIDE DEF A, B
  <2>2. Cardinality(B) = Cardinality(A) + 0
    BY <1>3, <2>1
  <2> QED
    BY <1>6, <2>2 DEF A, B
<1> QED
  BY <1>5, <1>6

\* An interrupt that finds the main thread at work uses up one of its timer's
\* interrupts, whether or not the queue has room for the task.
LEMMA PostUsesRoom ==
    ASSUME IInv, NEW t \in {"lower", "extras"}, Post(t), pc # "hung",
           NEW u \in {"lower", "extras"}
    PROVE  /\ Waiting(u) + dropped[u] \in Nat
           /\ Waiting(u)' + dropped'[u] = Waiting(u) + dropped[u] + (IF t = u THEN 1 ELSE 0)
<1> USE DEF Waiting
<1>1. /\ queue \in Seq(Tasks) /\ t \in Tasks /\ Len(queue) <= QueueSize /\ Len(queue) \in Nat
      /\ dropped \in [lower : Nat, extras : Nat]
  BY LenProperties DEF IInv, TypeOK, Tasks
<1>2. Waiting(u) \in Nat /\ dropped[u] \in Nat
  BY <1>1, WaitingType
<1>3. CASE Len(queue) = QueueSize
  <2>1. queue' = queue /\ dropped' = [dropped EXCEPT ![t] = @ + 1]
    BY <1>1, <1>3, SMT DEF Post, Posted
  <2>2. Waiting(u)' = Waiting(u)
    BY <2>1
  <2>3. dropped'[u] = dropped[u] + (IF t = u THEN 1 ELSE 0)
    BY <1>1, <2>1
  <2> HIDE DEF Waiting
  <2> QED
    BY <1>2, <2>2, <2>3
<1>4. CASE Len(queue) # QueueSize
  <2>1. queue' = Append(queue, t) /\ dropped' = dropped
    BY <1>1, <1>4, SMT DEF Post, Posted
  <2>2. Waiting(u)' = Waiting(u) + (IF t = u THEN 1 ELSE 0)
    <3>1. Waiting(u)' = Cardinality({i \in DOMAIN Append(queue, t) : Append(queue, t)[i] = u})
      BY <2>1
    <3>2. Cardinality({i \in DOMAIN Append(queue, t) : Append(queue, t)[i] = u})
             = Cardinality({i \in DOMAIN queue : queue[i] = u}) + (IF t = u THEN 1 ELSE 0)
      BY <1>1, WaitingAppend
    <3> QED
      BY <3>1, <3>2, Zenon
  <2> HIDE DEF Waiting
  <2> QED
    BY <1>2, <2>1, <2>2
<1> QED
  BY <1>3, <1>4

\* An interrupt takes one from what may still come.
LEMMA TickRoom ==
    ASSUME IInv, UpperTick \/ ExtrasTick, pc # "hung"
    PROVE  /\ Rooms \in Nat /\ Rooms' \in Nat
           /\ Rooms' = Rooms - 1 /\ Rooms <= upper + exts
<1> DEFINE a == Waiting("lower") + dropped["lower"]
           b == Waiting("extras") + dropped["extras"]
<1>0. upper \in Nat /\ exts \in Nat /\ upper' = upper /\ exts' = exts
  BY DEF IInv, TypeOK, UpperTick, ExtrasTick, timerVars
<1>1. CASE UpperTick
  <2>1. /\ a \in Nat /\ a' = a + 1 /\ a < upper
        /\ b \in Nat /\ b' = b
    BY <1>1, PostUsesRoom DEF UpperTick, Paced
  <2> HIDE DEF a, b
  <2>2. /\ Rooms = (IF upper - a > 0 THEN upper - a ELSE 0) + (IF exts - b > 0 THEN exts - b ELSE 0)
        /\ Rooms' = (IF upper' - a' > 0 THEN upper' - a' ELSE 0)
                       + (IF exts' - b' > 0 THEN exts' - b' ELSE 0)
    BY DEF Rooms, Room, a, b
  <2> QED
    BY <1>0, <2>1, <2>2, SMT
<1>2. CASE ExtrasTick
  <2>1. /\ a \in Nat /\ a' = a
        /\ b \in Nat /\ b' = b + 1 /\ b < exts
    BY <1>2, PostUsesRoom DEF ExtrasTick, Paced
  <2> HIDE DEF a, b
  <2>2. /\ Rooms = (IF upper - a > 0 THEN upper - a ELSE 0) + (IF exts - b > 0 THEN exts - b ELSE 0)
        /\ Rooms' = (IF upper' - a' > 0 THEN upper' - a' ELSE 0)
                       + (IF exts' - b' > 0 THEN exts' - b' ELSE 0)
    BY DEF Rooms, Room, a, b
  <2> QED
    BY <1>0, <2>1, <2>2, SMT
<1> QED
  BY <1>1, <1>2

LEMMA TickNear ==
    ASSUME IInv, UpperTick \/ ExtrasTick, pc # "hung", upper + exts <= Minute,
           NEW m \in Nat, Near(m)
    PROVE  Near(m)'
<1>1. /\ Rooms \in Nat /\ Rooms' \in Nat /\ Rooms' = Rooms - 1 /\ Rooms <= upper + exts
      /\ upper \in Nat /\ exts \in Nat /\ upper' = upper /\ exts' = exts
      /\ minutes \in Nat /\ seconds \in Nat /\ seconds < Minute
  BY TickRoom DEF IInv, TypeOK, UpperTick, ExtrasTick, timerVars
<1>2. \/ seconds' = seconds + 1 /\ minutes' = minutes
      \/ seconds + 1 = Minute /\ seconds' = 0 /\ minutes' = minutes + 1
      \/ seconds + 1 = Minute /\ seconds' = 0 /\ minutes' = minutes
  BY DEF UpperTick, ExtrasTick, BumpClock
<1>3. Near(m) <=> (minutes = m \/ (minutes = m + 1 /\ seconds + Rooms < upper + exts))
  BY DEF Near
<1>4. Near(m)' <=> (minutes' = m \/ (minutes' = m + 1 /\ seconds' + Rooms' < upper' + exts'))
  BY DEF Near
<1> QED
  BY <1>1, <1>2, <1>3, <1>4, SMT

\* Nothing else moves the counters while run_lower is between its steps.
LEMMA ClockedKept ==
    ASSUME IInv, Clocked, [Next]_vars
    PROVE  Clocked'
<1> SUFFICES ASSUME upper' + exts' <= Minute
             PROVE  /\ pc' = "maintain" => Near(0)'
                    /\ pc' = "high" => \E m \in Nat : low' = m % Byte /\ Near(m)'
  BY DEF Clocked
<1>1. CASE UpperTick \/ ExtrasTick
  <2>1. UNCHANGED <<upper, exts, pc, low>>
    BY <1>1 DEF UpperTick, ExtrasTick, timerVars
  <2>2. ASSUME pc = "maintain" PROVE Near(0)'
    BY <1>1, <2>1, <2>2, TickNear, 0 \in Nat DEF Clocked
  <2>3. ASSUME pc = "high" PROVE \E m \in Nat : low = m % Byte /\ Near(m)'
    <3>1. PICK m \in Nat : low = m % Byte /\ Near(m)
      BY <2>1, <2>3 DEF Clocked
    <3>2. Near(m)'
      BY <1>1, <2>1, <2>3, <3>1, TickNear
    <3> QED
      BY <3>1, <3>2
  <2> QED
    BY <2>1, <2>2, <2>3
<1>2. CASE RestartMinutes
  BY <1>2 DEF RestartMinutes, Near
<1>3. CASE ReadLow
  <2>1. pc' = "high" /\ low' = minutes % Byte /\ minutes' = minutes /\ minutes \in Nat
    BY <1>3 DEF ReadLow, IInv, TypeOK, clockVars
  <2>2. Near(minutes)'
    BY <2>1 DEF Near
  <2> QED
    BY <2>1, <2>2
<1>4. CASE UNCHANGED vars \/ Reading \/ \E k \in Keys \cup {NoKey} : Press(k)
  <2>1. CASE UNCHANGED vars
    BY <2>1 DEF vars, codeVars, clockVars, timerVars, Clocked, Near, Rooms, Room, Waiting
  <2>2. CASE Reading \/ \E k \in Keys \cup {NoKey} : Press(k)
    BY <2>2 DEF Reading, Press
  <2> QED
    BY <1>4, <2>1, <2>2
<1>5. CASE \/ Poll \/ StartTask \/ ExtrasTask \/ LowerIdle \/ LowerControl \/ EndOfCycle
           \/ Attained \/ EnterMaintain
  <2>1. pc' \notin {"maintain", "high"}
    <3>1. ASSUME Poll PROVE pc' \in Tasks
      BY <3>1, HeadTailProperties, EmptySeq, SMT DEF Poll, IInv, TypeOK
    <3> QED
      BY <1>5, <3>1 DEF StartTask, ExtrasTask, LowerIdle, LowerControl, EndOfCycle,
         Attained, EnterMaintain, AlarmThen, Tasks
  <2> QED
    BY <2>1
<1>6. CASE Handle
  BY <1>6 DEF Handle, NothingPressed, AlarmKey, CancelKey, IgnoredKey, BeginEntry,
              TemperatureEntered, TimeEntered, ThermoKey, TimerKey, Key
<1> QED
  BY <1>1, <1>2, <1>3, <1>4, <1>5, <1>6 DEF Next, Steps, Main

THEOREM ClockInvariance == Spec => []Clocked
<1>1. Init => Clocked
  BY DEF Init, Clocked
<1> QED
  BY <1>1, ClockedKept, Invariance, PTL DEF Spec

\* The number put together from the high byte of n and the low byte of m, which
\* is n or the number before it: no more than n, unless a carry came between and
\* n has a high byte.
LEMMA ByteWise ==
    ASSUME NEW b \in Nat \ {0}, NEW m \in Nat, NEW n \in Nat, n = m \/ n = m + 1,
           NEW c \in Nat, ((n \div b) * b) + (m % b) >= c
    PROVE  n >= c \/ (b < c /\ m % b = b - 1 /\ n % b = 0)
<1>1. \A x \in Nat : /\ x = (x \div b) * b + (x % b)
                      /\ x \div b \in Nat /\ x % b \in 0 .. b - 1
  OBVIOUS
<1> DEFINE d == n \div b
           e == m \div b
           r == m % b
           s == n % b
<1>2. /\ d \in Nat /\ e \in Nat /\ r \in 0 .. b - 1 /\ s \in 0 .. b - 1
      /\ n = d * b + s /\ m = e * b + r /\ d * b + r >= c
  BY <1>1
<1> HIDE DEF d, e, r, s
<1>3. CASE n = m
  <2>1. r = s
    BY <1>3 DEF r, s
  <2> QED
    BY <1>2, <2>1
<1>4. CASE n = m + 1
  <2> DEFINE f == d - e
  <2>1. f \in Int /\ f * b = d * b - e * b
    BY <1>2
  <2> HIDE DEF f
  <2>2. f * b = r + 1 - s
    BY <1>2, <1>4, <2>1
  <2>3. f = 0 \/ f * b >= b \/ f * b <= 0 - b
    BY <2>1
  <2>4. CASE r < b - 1
    <3>1. f = 0
      BY <1>2, <2>2, <2>3, <2>4
    <3> QED
      BY <1>2, <1>4, <2>2, <3>1
  <2>5. CASE r = b - 1
    <3>1. f * b = b - s
      BY <1>2, <2>2, <2>5
    <3>2. s = 0 /\ d * b = n /\ n >= 1
      BY <1>2, <1>4, <2>1, <3>1
    <3>3. n >= b
      BY <1>2, <3>2
    <3> QED
      BY <2>5, <3>2, <3>3 DEF r, s
  <2> QED
    BY <1>2, <2>4, <2>5
<1> QED
  BY <1>3, <1>4

\* Only run_lower enters MAINTAIN.
LEMMA OnlyEnterMaintain ==
    ASSUME Steps, state' = "MAINTAIN", state # "MAINTAIN"
    PROVE  EnterMaintain
BY DEF Steps, Main, UpperTick, ExtrasTick, Reading, Press, Poll, StartTask, StartCycle,
   ExtrasTask, LowerIdle, LowerControl, ReadLow, EndOfCycle, Attained, RestartMinutes,
   Handle, NothingPressed, AlarmKey, CancelKey, IgnoredKey, BeginEntry, ClearState,
   TemperatureEntered, TimeEntered, ThermoKey, TimerKey

\* A cycle enters MAINTAIN with no second counted and no minute or one, which an
\* interrupt has carried between the two stores (yogurt.c:212-213), as long as
\* no more timers are registered than a minute has seconds.
THEOREM MaintainStartsWithinAMinute == Spec /\ [](upper + exts <= Minute) => CountersRestart
<1> DEFINE Fresh == state' = "MAINTAIN" /\ state # "MAINTAIN" => minutes' <= 1 /\ seconds' = 0
           Few == upper + exts <= Minute
<1>1. IInv /\ Clocked /\ Few /\ [Next]_vars => [Fresh]_vars
  <2> SUFFICES ASSUME IInv, Clocked, Few, Next, state' = "MAINTAIN", state # "MAINTAIN"
               PROVE  minutes' <= 1 /\ seconds' = 0
    OBVIOUS
  <2>1. EnterMaintain
    BY OnlyEnterMaintain DEF Next
  <2>2. minutes' = minutes /\ seconds' = 0 /\ Near(0)
    BY <2>1 DEF EnterMaintain, Clocked
  <2> QED
    BY <2>2, SMT DEF Near
<1>2. CountersRestart <=> [][Fresh]_vars
  BY DEF CountersRestart
<1> HIDE DEF Fresh, Few
<1>3. Spec /\ []Few => [][Fresh]_vars
  BY <1>1, Invariance, ClockInvariance, PTL DEF Spec
<1> QED
  BY <1>2, <1>3 DEF Few

-----------------------------------------------------------------------------
\* What the counters say of a cycle that is maintained is never more than a
\* minute ahead of the interrupts that have passed since it began.
Counted == state = "MAINTAIN" => minutes * Minute + seconds <= held + Minute

LEMMA TickCounted ==
    ASSUME IInv, Counted, UpperTick \/ ExtrasTick, Hold, state = "MAINTAIN"
    PROVE  Counted'
<1>1. BumpClock /\ state' = state
  BY DEF UpperTick, ExtrasTick
<1>2. /\ minutes \in Nat /\ minutes <= MaxMinutes /\ seconds \in Nat /\ seconds < Minute
      /\ held \in Nat /\ MaxMinutes \in Nat /\ Minute \in Nat /\ Minute > 1
  BY DEF IInv, TypeOK
<1>3. /\ minutes' \in Nat /\ minutes' <= MaxMinutes /\ seconds' \in Nat /\ seconds' < Minute
  BY <1>1, <1>2 DEF BumpClock
<1>4. clockVars' # clockVars
  BY <1>1, <1>2 DEF BumpClock, clockVars
<1>5. held' = IF held < MaxMinutes * Minute THEN held + 1 ELSE held
  BY <1>1, <1>4 DEF Hold
<1>6. /\ minutes * Minute \in Nat /\ minutes' * Minute \in Nat /\ MaxMinutes * Minute \in Nat
      /\ minutes' * Minute <= MaxMinutes * Minute
  BY <1>2, <1>3, Products
<1>7. \/ minutes' * Minute = minutes * Minute /\ (seconds' = seconds + 1 \/ seconds' = 0)
      \/ minutes' * Minute = minutes * Minute + Minute /\ seconds + 1 = Minute /\ seconds' = 0
  <2>1. CASE minutes' = minutes
    BY <1>1, <2>1 DEF BumpClock
  <2>2. CASE minutes' # minutes
    <3>1. minutes' = minutes + 1 /\ seconds + 1 = Minute /\ seconds' = 0
      BY <1>1, <2>2 DEF BumpClock
    <3> QED
      BY <1>2, <3>1, Products
  <2> QED
    BY <2>1, <2>2
<1>8. minutes * Minute + seconds <= held + Minute
  BY DEF Counted
<1>9. PICK p \in Nat, q \in Nat, b \in Nat :
         p = minutes * Minute /\ q = minutes' * Minute /\ b = MaxMinutes * Minute
  BY <1>6, Zenon
<1>10. /\ p \in Nat /\ q \in Nat /\ b \in Nat
       /\ p + seconds <= held + Minute /\ q <= b
       /\ \/ q = p /\ (seconds' = seconds + 1 \/ seconds' = 0)
          \/ q = p + Minute /\ seconds + 1 = Minute /\ seconds' = 0
  BY <1>6, <1>7, <1>8, <1>9, Zenon
<1>11. (held < b /\ held' = held + 1) \/ (~(held < b) /\ held' = held)
  BY <1>5, <1>9, Zenon
<1>12. q + seconds' <= held' + Minute
  <2>1. CASE held < b
    BY <1>2, <1>3, <1>10, <1>11, <2>1
  <2>2. CASE ~(held < b)
    BY <1>2, <1>3, <1>10, <1>11, <2>2
  <2> QED
    BY <2>1, <2>2
<1> QED
  BY <1>9, <1>12, Zenon DEF Counted

LEMMA CountedKept ==
    ASSUME IInv, Clocked, Counted, upper + exts <= Minute, [Next]_vars
    PROVE  Counted'
<1>1. CASE UNCHANGED vars
  BY <1>1 DEF vars, codeVars, clockVars, Counted
<1>2. CASE Next /\ state' = "MAINTAIN" /\ state # "MAINTAIN"
  <2>1. EnterMaintain
    BY <1>2, OnlyEnterMaintain DEF Next
  <2>2. minutes' = minutes /\ seconds' = 0 /\ (minutes = 0 \/ minutes = 1) /\ held' = 0
    BY <1>2, <2>1 DEF EnterMaintain, Clocked, Near, Next, Hold
  <2> QED
    BY <2>2 DEF Counted
<1>3. CASE Next /\ state' = "MAINTAIN" /\ state = "MAINTAIN"
  <2>1. CASE UpperTick \/ ExtrasTick
    BY <1>3, <2>1, TickCounted DEF Next
  <2>2. CASE ~(UpperTick \/ ExtrasTick)
    <3>1. UNCHANGED clockVars
      BY <1>3, <2>2 DEF IInv, LowerState, Next, Steps, Main, Reading, Press, Poll, StartTask,
         StartCycle, ExtrasTask, LowerIdle, LowerControl, ReadLow, EndOfCycle, Attained,
         RestartMinutes, EnterMaintain, Handle, NothingPressed, AlarmKey, CancelKey, IgnoredKey,
         BeginEntry, TemperatureEntered, TimeEntered, ThermoKey, TimerKey
    <3>2. held' = held /\ minutes' = minutes /\ seconds' = seconds
      BY <1>3, <3>1 DEF Next, Hold, clockVars
    <3> QED
      BY <1>3, <3>2 DEF Counted
  <2> QED
    BY <2>1, <2>2
<1>4. CASE Next /\ state' # "MAINTAIN"
  BY <1>4 DEF Counted
<1> QED
  BY <1>1, <1>2, <1>3, <1>4

\* A cycle that ends has been maintained for its minutes less one, whatever the
\* interrupts did between the stores that began it and between the reads of the
\* two bytes of minutes (yogurt.c:200, 212-213).  Excepted is the read that a
\* carry tears, which only a cycle of more minutes than a byte counts can meet.
THEOREM CycleLastsItsMinutes == Spec /\ [](upper + exts <= Minute) => EndsNotEarly
<1> DEFINE Late == pc = "high" /\ state # "IDLE" /\ state' = "IDLE"
                     => \/ held + Minute >= cycle * Minute
                        \/ cycle > Byte /\ low = Byte - 1 /\ minutes % Byte = 0
           Few == upper + exts <= Minute
<1>1. IInv /\ Clocked /\ Counted /\ [Next]_vars /\ Few => [Late]_vars
  <2> SUFFICES ASSUME IInv, Clocked, Counted, Few, Next,
                      pc = "high", state # "IDLE", state' = "IDLE"
               PROVE  \/ held + Minute >= cycle * Minute
                      \/ cycle > Byte /\ low = Byte - 1 /\ minutes % Byte = 0
    OBVIOUS
  <2>1. EndOfCycle /\ MinutesRead >= cycle
    BY DEF Next, Steps, Main, UpperTick, ExtrasTick, Reading, Press, Poll, StartTask, StartCycle,
       ExtrasTask, LowerIdle, LowerControl, ReadLow, EndOfCycle, Attained, RestartMinutes,
       EnterMaintain, Handle, NothingPressed, AlarmKey, CancelKey, IgnoredKey, BeginEntry,
       ClearState, TemperatureEntered, TimeEntered, ThermoKey, TimerKey, Key
  <2>2. PICK m \in Nat : low = m % Byte /\ (minutes = m \/ minutes = m + 1)
    BY DEF Clocked, Near
  <2>3. /\ Byte \in Nat \ {0} /\ cycle \in Nat /\ minutes \in Nat
        /\ (minutes \div Byte) * Byte + low >= cycle
    BY <2>1 DEF IInv, TypeOK, MinutesRead
  <2>4. minutes >= cycle \/ (cycle > Byte /\ low = Byte - 1 /\ minutes % Byte = 0)
    BY <2>2, <2>3, ByteWise
  <2>5. ASSUME minutes >= cycle PROVE held + Minute >= cycle * Minute
    <3>1. minutes * Minute + seconds <= held + Minute
      BY DEF IInv, LowerState, Counted
    <3>2. cycle * Minute <= minutes * Minute
      BY <2>3, <2>5, Products
    <3>3. /\ seconds \in Nat /\ held \in Nat /\ Minute \in Nat
          /\ minutes * Minute \in Nat /\ cycle * Minute \in Nat
      BY <2>3, Products DEF IInv, TypeOK
    <3> QED
      BY <3>1, <3>2, <3>3
  <2> QED
    BY <2>4, <2>5
<1>2. EndsNotEarly <=> [][Late]_vars
  BY DEF EndsNotEarly
<1>3. Init => Counted
  BY DEF Init, Counted
<1>4. IInv /\ Clocked /\ Counted /\ Few /\ [Next]_vars => Counted'
  BY CountedKept
<1> HIDE DEF Late, Few
<1>5. Spec /\ []Few => [][Late]_vars
  BY <1>1, <1>3, <1>4, Invariance, ClockInvariance, PTL DEF Spec
<1> QED
  BY <1>2, <1>5 DEF Few
=============================================================================
