-------------------------------- MODULE Pid ---------------------------------
(***************************************************************************)
(* The arithmetic of yogurt.c that turns readings into the relay's level:  *)
(* yogurt_temperature_control with its two laws as both its callers call   *)
(* it, yogurt_run_lower and yogurt_extras, what they and yogurt_start do   *)
(* to the integral, and the entry of the target.                           *)
(* Temperatures are in 1/16 degree C.  The integral is a word of 16 bits,  *)
(* and so is every sum of ints; levels are computed in 32 bits.            *)
(***************************************************************************)
EXTENDS Integers

CONSTANTS Temps,    \* what the sensor's twelve bits can say
          Entries,  \* numbers of three digits, degrees F
          Streak    \* 60: readings on one side until a law acts on it

ASSUME TempAssumption == \A t \in Temps : t \in Int /\ -2048 <= t /\ t <= 2047
ASSUME EntryAssumption == \A e \in Entries : e \in Nat /\ e <= 999
ASSUME StreakAssumption == Streak \in Nat \ {0}

VARIABLES
    state,               \* control.state
    target,              \* control.cycle.temperature
    last_temp, next_target, integral,  \* control's fields
    diff_pos, diff_neg,  \* statics of yogurt_temperature_control
    power                \* the argument of ssr_level, or 0 after ssr_off

pidVars == <<state, target, last_temp, next_target, integral, diff_pos, diff_neg, power>>

SSR_MAX_LEVEL == 31249
BaseLevel == SSR_MAX_LEVEL \div 60 + 1
AttainGain == SSR_MAX_LEVEL \div 134
MaintainGain == SSR_MAX_LEVEL \div 10

MinOf(a, b) == IF a < b THEN a ELSE b
MaxOf(a, b) == IF a < b THEN b ELSE a

\* An int of AVR, 16 bits wide.
Word(n) == ((n + 32768) % 65536) - 32768

\* (num - 32) * 80.0 / 9 as an int: cut off towards zero.
TargetOf(num) == IF num >= 32 THEN ((num - 32) * 80) \div 9 ELSE -(((32 - num) * 80) \div 9)

\* control is zero at boot, and so is the target until one is entered.
PidInit == /\ state = "IDLE" /\ target = 0
           /\ last_temp = 0 /\ next_target = 0 /\ integral = 0
           /\ diff_pos = Streak /\ diff_neg = 0
           /\ power = 0

-----------------------------------------------------------------------------
\* A user cancels: the relay keeps its level and control its integral.
ClearState == /\ state' = "IDLE"
              /\ UNCHANGED <<target, last_temp, next_target, integral, diff_pos, diff_neg, power>>

\* A user enters another target.
EnterTarget(e) == /\ state = "IDLE" /\ target' = TargetOf(e)
                  /\ UNCHANGED <<state, last_temp, next_target, integral, diff_pos, diff_neg,
                                 power>>

FirstTarget(t) == IF t >= target THEN 0
                  ELSE IF target - t > 134 THEN target - 134
                  ELSE t + 12

\* yogurt_start, also one that comes late.
Start(t) == /\ state' = "ATTAIN"
            /\ last_temp' = t /\ next_target' = FirstTarget(t) /\ integral' = 0
            /\ UNCHANGED <<target, diff_pos, diff_neg, power>>

-----------------------------------------------------------------------------
\* yogurt_temperature_control with a reading t.
Diff(t) == target - t

CountSides(t) ==
    IF Diff(t) <= 0
    THEN diff_neg' = MinOf(diff_neg + 1, Streak) /\ diff_pos' = MaxOf(diff_pos - 1, 0)
    ELSE diff_pos' = MinOf(diff_pos + 1, Streak) /\ diff_neg' = MaxOf(diff_neg - 1, 0)

\* In every second minute, at its first second, the integral follows a target
\* that keeps twelve ahead of the reading.
Adjusts(t, tick) == tick /\ integral < SSR_MAX_LEVEL /\ next_target # 0

\* yogurt_attain_temperature's integral.
AttainIntegral(t, tick) ==
    IF Diff(t) < 134 /\ diff_pos' = Streak
    THEN IF Adjusts(t, tick) THEN Word(integral + (next_target - t) * 180) ELSE integral
    ELSE IF diff_neg' = Streak THEN 0 ELSE integral

AttainNextTarget(t, tick) ==
    IF Diff(t) < 134 /\ diff_pos' = Streak /\ Adjusts(t, tick)
    THEN MinOf(t + 12, target) ELSE next_target

\* Slip: readings above the target do not reset it.
MaintainNoReset(t) ==
    IF Diff(t) > 0 /\ integral <= SSR_MAX_LEVEL - 2 * Diff(t) THEN integral + 2 * Diff(t)
    ELSE integral

\* yogurt_maintain_temperature's integral.
MaintainIntegral(t) ==
    IF diff_neg' = Streak THEN 0
    ELSE IF Diff(t) > 0 /\ integral <= SSR_MAX_LEVEL - 2 * Diff(t) THEN integral + 2 * Diff(t)
    ELSE integral

\* The level, cut off at both ends; both the caller and the law begin with
\* BaseLevel.
Level(t, gain, sum) ==
    MaxOf(MinOf(BaseLevel + BaseLevel + Diff(t) * gain + sum, SSR_MAX_LEVEL), 0)

\* Any state but ATTAIN has the maintaining law, IDLE with the integral that a
\* cancelled cycle has left.
ControlIntegral(t, tick) == IF state = "ATTAIN" THEN AttainIntegral(t, tick)
                            ELSE MaintainIntegral(t)

ControlLevel(t, tick) ==
    Level(t, IF state = "ATTAIN" THEN AttainGain ELSE MaintainGain, ControlIntegral(t, tick))

TemperatureControl(t, tick) ==
    /\ CountSides(t)
    /\ next_target' = IF state = "ATTAIN" THEN AttainNextTarget(t, tick) ELSE next_target
    /\ UNCHANGED target

-----------------------------------------------------------------------------
\* Its callers.
TempInInterval(t, a, b) == \/ t >= a - 8 /\ t <= b + 8
                           \/ t >= b - 8 /\ t <= a + 8

\* yogurt_run_lower in ATTAIN.
AttainControl(t, tick) ==
    /\ state = "ATTAIN"
    /\ TemperatureControl(t, tick)
    /\ power' = ControlLevel(t, tick)
    /\ IF TempInInterval(target, last_temp, t)
       THEN state' = "MAINTAIN" /\ integral' = 0
       ELSE integral' = ControlIntegral(t, tick) /\ UNCHANGED state
    /\ last_temp' = t

\* yogurt_run_lower in MAINTAIN: when the time is over the relay is switched off
\* and the state is IDLE.
MaintainControl(t, tick) ==
    /\ state = "MAINTAIN"
    /\ TemperatureControl(t, tick)
    /\ integral' = ControlIntegral(t, tick)
    /\ \/ power' = ControlLevel(t, tick) /\ UNCHANGED state
       \/ power' = 0 /\ state' = "IDLE"
    /\ last_temp' = t

\* yogurt_extras with the thermometer on, in whatever state: beside run_lower in
\* a cycle, alone in IDLE.
ExtrasControl(t, tick) ==
    /\ TemperatureControl(t, tick)
    /\ integral' = ControlIntegral(t, tick)
    /\ power' = ControlLevel(t, tick)
    /\ UNCHANGED <<state, last_temp>>

Control(t) == \E tick \in BOOLEAN :
                 AttainControl(t, tick) \/ MaintainControl(t, tick) \/ ExtrasControl(t, tick)

\* A reading error in either caller, or run_lower in IDLE.
Off == /\ power' = 0
       /\ UNCHANGED <<state, target, last_temp, next_target, integral, diff_pos, diff_neg>>

PidNext == \/ ClearState
           \/ \E e \in Entries : EnterTarget(e)
           \/ \E t \in Temps : Start(t) \/ Control(t)
           \/ Off

PidSpec == PidInit /\ [][PidNext]_pidVars

-----------------------------------------------------------------------------
\* However far the integral was wound up, also when 16 bits were too few for it
\* or when a cancelled cycle has left it to the extras, a pot that either caller
\* heats is not hot: less than 9.1 degrees above the target in any state, than
\* 0.7 in any but ATTAIN, and after a minute of readings above the target than
\* 0.3 and 0.
HotMeansOff ==
    [][\A t \in Temps :
          LET above == -Diff(t)
          IN power' # 0 /\ Control(t) =>
                /\ above < 146
                /\ state # "ATTAIN" => above < 11
                /\ diff_neg' = Streak => above < 5
                /\ state # "ATTAIN" /\ diff_neg' = Streak => above < 1]_pidVars
=============================================================================
