--------------------------- MODULE OutputsProofs ----------------------------
(***************************************************************************)
(* The control's arithmetic, for every sensor reading and every entry: the *)
(* level keeps its range, the integral its limit while the temperature is  *)
(* maintained, and neither caller heats a hot pot.  The debug port, for every     *)
(* size of its ring and pool: no block is lost or has two owners, and no   *)
(* message lies in the ring while the port is at rest.  The relay: no      *)
(* level is left half stored.  The display, for every text and size: once  *)
(* all is sent and latched it shows the text that was printed last.        *)
(***************************************************************************)
EXTENDS Outputs, RingQueueProofs, FiniteSetTheorems, SequenceTheorems

\* What 16 bits hold.
IsWord(n) == n \in Int /\ -32768 <= n /\ n <= 32767

IsLevel(n) == n \in Int /\ 0 <= n /\ n <= SSR_MAX_LEVEL

\* While it is attained, and once that is cancelled, the integral may be all that
\* 16 bits hold; it is within 0 .. SSR_MAX_LEVEL while it is maintained.
Bounds == /\ state \in {"IDLE", "ATTAIN", "MAINTAIN"}
          /\ target \in Int /\ last_temp \in Int /\ next_target \in Int
          /\ IsWord(integral)
          /\ IsLevel(power)

Limited == state = "MAINTAIN" => IsLevel(integral)

\* The two counts of readings are one: what one gains the other loses.
Sides == /\ diff_pos \in 0 .. Streak /\ diff_neg \in 0 .. Streak
         /\ diff_pos + diff_neg = Streak

PidInv == Bounds /\ Limited /\ Sides

LEMMA ReadingInt ==
  ASSUME Bounds, NEW t \in Temps
  PROVE  t \in Int /\ Diff(t) \in Int
  BY TempAssumption DEF Bounds, Diff

LEMMA Gains == /\ SSR_MAX_LEVEL = 31249 /\ BaseLevel = 521
               /\ AttainGain = 233 /\ MaintainGain = 3124
  BY DEF SSR_MAX_LEVEL, BaseLevel, AttainGain, MaintainGain

LEMMA WordRange == ASSUME NEW n \in Int PROVE IsWord(Word(n))
  <1>1. \A m \in Int : m % 65536 \in Int /\ 0 <= m % 65536 /\ m % 65536 < 65536
    BY SMT
  <1> QED BY <1>1, SMT DEF Word, IsWord

LEMMA TargetInt == ASSUME NEW e \in Entries PROVE TargetOf(e) \in Int
  BY EntryAssumption, SMT DEF TargetOf

LEMMA LevelRange ==
  ASSUME NEW d \in Int, NEW gain \in Int, NEW sum \in Int, NEW t \in Int, Diff(t) = d,
         NEW p \in Int, p = d * gain
  PROVE  /\ IsLevel(Level(t, gain, sum))
         /\ 1042 + p + sum <= 0 => Level(t, gain, sum) = 0
  <1>1. BaseLevel + BaseLevel + Diff(t) * gain + sum = 1042 + p + sum
    BY Gains
  <1> QED BY <1>1, Gains DEF Level, MinOf, MaxOf, IsLevel

-----------------------------------------------------------------------------
LEMMA SidesKept ==
  ASSUME Bounds, Sides, NEW t \in Temps, CountSides(t)
  PROVE  /\ Sides'
         /\ Diff(t) <= 0 => diff_pos' # Streak
         /\ diff_neg' = Streak => diff_pos' # Streak
  <1>1. t \in Int /\ Diff(t) \in Int
    BY TempAssumption DEF Bounds, Diff
  <1> QED BY <1>1, StreakAssumption DEF Sides, CountSides, MinOf, MaxOf

LEMMA AttainWord ==
  ASSUME PidInv, NEW t \in Temps, NEW tick \in BOOLEAN
  PROVE  IsWord(AttainIntegral(t, tick))
  <1>1. integral + (next_target - t) * 180 \in Int
    BY TempAssumption DEF PidInv, Bounds, IsWord
  <1>2. IsWord(Word(integral + (next_target - t) * 180))
    BY <1>1, WordRange
  <1>3. AttainIntegral(t, tick) \in {integral, 0, Word(integral + (next_target - t) * 180)}
    BY DEF AttainIntegral
  <1>4. IsWord(0) /\ IsWord(integral)
    BY DEF IsWord, PidInv, Bounds
  <1> QED BY <1>2, <1>3, <1>4

\* The maintaining law, from whatever it finds: it adds only up to the limit.
LEMMA MaintainWord ==
  ASSUME PidInv, NEW t \in Temps
  PROVE  /\ IsWord(MaintainIntegral(t))
         /\ state = "MAINTAIN" => IsLevel(MaintainIntegral(t))
  <1>1. t \in Int /\ Diff(t) \in Int
    BY ReadingInt DEF PidInv
  <1> QED BY <1>1, Gains DEF MaintainIntegral, PidInv, Bounds, Limited, IsLevel, IsWord

LEMMA ControlWord ==
  ASSUME PidInv, NEW t \in Temps, NEW tick \in BOOLEAN
  PROVE  /\ IsWord(ControlIntegral(t, tick)) /\ ControlIntegral(t, tick) \in Int
         /\ state = "MAINTAIN" => IsLevel(ControlIntegral(t, tick))
  BY AttainWord, MaintainWord DEF ControlIntegral, IsWord

LEMMA ControlGives ==
  ASSUME PidInv, NEW t \in Temps, NEW tick \in BOOLEAN
  PROVE  IsLevel(ControlLevel(t, tick))
  <1>1. Diff(t) \in Int /\ t \in Int
    BY ReadingInt DEF PidInv
  <1> DEFINE gain == IF state = "ATTAIN" THEN AttainGain ELSE MaintainGain
  <1>2. gain \in Int /\ Diff(t) * gain \in Int
    <2>1. gain \in {233, 3124}
      BY Gains
    <2>2. Diff(t) * 233 \in Int /\ Diff(t) * 3124 \in Int
      BY <1>1
    <2> QED BY <2>1, <2>2
  <1>3. ControlIntegral(t, tick) \in Int
    BY ControlWord
  <1>4. ControlLevel(t, tick) = Level(t, gain, ControlIntegral(t, tick))
    BY DEF ControlLevel
  <1> HIDE DEF gain
  <1> QED BY <1>1, <1>2, <1>3, <1>4, LevelRange

\* What each caller does to the rest of control.
LEMMA ControlRest ==
  ASSUME PidInv, NEW t \in Temps, NEW tick \in BOOLEAN, TemperatureControl(t, tick)
  PROVE  Sides' /\ next_target' \in Int /\ target' = target /\ target \in Int
  <1>1. t \in Int
    BY ReadingInt DEF PidInv
  <1>2. Sides'
    BY SidesKept DEF PidInv, TemperatureControl
  <1> QED BY <1>1, <1>2
         DEF PidInv, Bounds, TemperatureControl, AttainNextTarget, MinOf

LEMMA ControlKeeps ==
  ASSUME PidInv, NEW t \in Temps, Control(t)
  PROVE  PidInv'
  <1>1. PICK tick \in BOOLEAN :
           AttainControl(t, tick) \/ MaintainControl(t, tick) \/ ExtrasControl(t, tick)
    BY DEF Control
  <1>2. t \in Int
    BY ReadingInt DEF PidInv
  <1>3. Sides' /\ next_target' \in Int /\ target' \in Int
    BY <1>1, ControlRest DEF AttainControl, MaintainControl, ExtrasControl
  <1> DEFINE sum == ControlIntegral(t, tick)
             power0 == ControlLevel(t, tick)
  <1>4. IsWord(sum) /\ (state = "MAINTAIN" => IsLevel(sum)) /\ IsLevel(power0)
    BY ControlWord, ControlGives
  <1>5. IsWord(0) /\ IsLevel(0)
    BY Gains DEF IsWord, IsLevel
  <1> HIDE DEF sum, power0
  <1>6. /\ IsLevel(power') /\ IsWord(integral') /\ last_temp' \in Int
        /\ state' \in {"IDLE", "ATTAIN", "MAINTAIN"}
        /\ state' = "MAINTAIN" => IsLevel(integral')
    <2>1. CASE AttainControl(t, tick)
      BY <2>1, <1>2, <1>4, <1>5 DEF AttainControl, sum, power0
    <2>2. CASE MaintainControl(t, tick)
      BY <2>2, <1>2, <1>4, <1>5 DEF MaintainControl, sum, power0
    <2>3. CASE ExtrasControl(t, tick)
      BY <2>3, <1>2, <1>4 DEF ExtrasControl, sum, power0, PidInv, Bounds
    <2> QED BY <1>1, <2>1, <2>2, <2>3
  <1> QED BY <1>3, <1>6 DEF PidInv, Bounds, Limited

LEMMA PidInvHolds == PidSpec => []PidInv
  <1>1. PidInit => PidInv
    BY StreakAssumption, Gains
       DEF PidInit, PidInv, Bounds, Limited, Sides, IsWord, IsLevel
  <1>2. PidInv /\ [PidNext]_pidVars => PidInv'
    <2> SUFFICES ASSUME PidInv, [PidNext]_pidVars PROVE PidInv'
      OBVIOUS
    <2>1. ASSUME NEW e \in Entries, EnterTarget(e) PROVE PidInv'
      BY <2>1, TargetInt DEF EnterTarget, PidInv, Bounds, Limited, Sides
    <2>2. ASSUME NEW t \in Temps, Start(t) PROVE PidInv'
      <3>1. t \in Int /\ FirstTarget(t) \in Int
        BY TempAssumption DEF FirstTarget, PidInv, Bounds
      <3> QED BY <2>2, <3>1 DEF Start, PidInv, Bounds, Limited, Sides, IsWord
    <2>3. ASSUME NEW t \in Temps, Control(t) PROVE PidInv'
      BY <2>3, ControlKeeps
    <2>4. CASE Off
      BY <2>4, Gains DEF Off, PidInv, Bounds, Limited, Sides, IsLevel
    <2>5. CASE ClearState
      BY <2>5 DEF ClearState, PidInv, Bounds, Limited, Sides
    <2>6. CASE UNCHANGED pidVars
      BY <2>6 DEF pidVars, PidInv, Bounds, Limited, Sides
    <2> QED BY <2>1, <2>2, <2>3, <2>4, <2>5, <2>6 DEF PidNext
  <1> QED BY <1>1, <1>2, PTL DEF PidSpec

-----------------------------------------------------------------------------
\* Above the target the gain outweighs all that 16 bits hold: 146 of them with
\* the attaining law, 11 with the other.
LEMMA HotLevel ==
  ASSUME PidInv, NEW t \in Temps, NEW tick \in BOOLEAN, TemperatureControl(t, tick),
         ControlLevel(t, tick) # 0
  PROVE  LET above == -Diff(t)
         IN /\ above < 146
            /\ state # "ATTAIN" => above < 11
            /\ diff_neg' = Streak => above < 5
            /\ state # "ATTAIN" /\ diff_neg' = Streak => above < 1
  <1>1. t \in Int /\ Diff(t) \in Int
    BY ReadingInt DEF PidInv
  <1>2. diff_neg' = Streak => ControlIntegral(t, tick) = 0
    BY SidesKept DEF ControlIntegral, AttainIntegral, MaintainIntegral, TemperatureControl, PidInv
  <1>3. ControlIntegral(t, tick) \in Int /\ ControlIntegral(t, tick) <= 32767
    BY ControlWord DEF IsWord
  <1> DEFINE d == Diff(t)
             sum == ControlIntegral(t, tick)
  <1>4. CASE state = "ATTAIN"
    <2> DEFINE p == d * 233
    <2>1. p \in Int /\ p = d * AttainGain /\ AttainGain \in Int
      BY <1>1, Gains
    <2>2. ControlLevel(t, tick) = Level(t, AttainGain, sum)
      BY <1>4 DEF ControlLevel
    <2>3. 1042 + p + sum > 0
      BY <1>1, <1>3, <2>1, <2>2, LevelRange
    <2> QED BY <1>1, <1>2, <1>3, <1>4, <2>3
  <1>5. CASE state # "ATTAIN"
    <2> DEFINE p == d * 3124
    <2>1. p \in Int /\ p = d * MaintainGain /\ MaintainGain \in Int
      BY <1>1, Gains
    <2>2. ControlLevel(t, tick) = Level(t, MaintainGain, sum)
      BY <1>5 DEF ControlLevel
    <2>3. 1042 + p + sum > 0
      BY <1>1, <1>3, <2>1, <2>2, LevelRange
    <2> QED BY <1>1, <1>2, <1>3, <1>5, <2>3
  <1> QED BY <1>4, <1>5

-----------------------------------------------------------------------------
LEMMA ControlRuns == Spec => PidSpec
  <1>1. Init => PidInit
    BY DEF Init
  <1>2. [Next]_outputVars => [PidNext]_pidVars
    BY DEF Next, outputVars, ControlCalled, RelayCalled, DisplayCalled, DebugCalled,
       RelayGoesOn, DisplayGoesOn, DebugGoesOn
  <1> QED BY <1>1, <1>2, PTL DEF Spec, PidSpec

\* The argument of ssr_level is always one the timer can count to, and the
\* integral stays a word that no sum of the maintaining law overflows, also when
\* yogurt_extras runs that law in IDLE on what a cancelled cycle has left; in
\* MAINTAIN it never passes the law's limit (yogurt.c:145, 261-270, 319-321).
THEOREM LevelInRange == Spec => [](power \in 0 .. SSR_MAX_LEVEL /\ IsWord(integral) /\ Limited)
  <1>1. SSR_MAX_LEVEL \in Int
    BY Gains
  <1>2. PidInv => power \in 0 .. SSR_MAX_LEVEL /\ IsWord(integral) /\ Limited
    BY <1>1 DEF PidInv, Bounds, IsLevel
  <1> QED BY <1>2, ControlRuns, PidInvHolds, PTL

\* Neither yogurt_run_lower nor yogurt_extras heats a pot that is hot enough, in
\* any state, for every reading, target and history of the integral.
THEOREM HotPotNotHeated == Spec => HotMeansOff
  <1>1. PidInv /\ [PidNext]_pidVars =>
          [\A t \in Temps :
             LET above == -Diff(t)
             IN power' # 0 /\ Control(t) =>
                   /\ above < 146
                   /\ state # "ATTAIN" => above < 11
                   /\ diff_neg' = Streak => above < 5
                   /\ state # "ATTAIN" /\ diff_neg' = Streak => above < 1]_pidVars
    <2> SUFFICES ASSUME PidInv, NEW t \in Temps, power' # 0, Control(t)
                 PROVE  LET above == -Diff(t)
                        IN /\ above < 146
                           /\ state # "ATTAIN" => above < 11
                           /\ diff_neg' = Streak => above < 5
                           /\ state # "ATTAIN" /\ diff_neg' = Streak => above < 1
      OBVIOUS
    <2>1. PICK tick \in BOOLEAN :
             AttainControl(t, tick) \/ MaintainControl(t, tick) \/ ExtrasControl(t, tick)
      BY DEF Control
    <2>2. TemperatureControl(t, tick) /\ ControlLevel(t, tick) # 0
      BY <2>1 DEF AttainControl, MaintainControl, ExtrasControl
    <2> QED BY <2>2, HotLevel
  <1> QED BY <1>1, ControlRuns, PidInvHolds, PTL DEF HotMeansOff, PidSpec
-----------------------------------------------------------------------------
\* The debug port.  A block in use has one owner: the writer, one cell of the
\* ring, or the interrupt.
InRing(b) == \E c \in Cells : items[c] = b

Owned(b) == copied = b \/ InRing(b) \/ sending = b

OneOwner == /\ \A b \in Blocks : /\ ~(copied = b /\ InRing(b))
                                 /\ ~(copied = b /\ sending = b)
                                 /\ ~(InRing(b) /\ sending = b)
            /\ \A c, d \in Cells : items[c] = items[d] /\ items[c] # NULL => c = d

PortTypes == /\ \A c \in Cells : items[c] \in Blocks \cup {NULL}
             /\ DOMAIN refcnt = Blocks
             /\ copied \in Blocks \cup {NULL} /\ sending \in Blocks \cup {NULL}
             /\ copied # NULL <=> at = "copied"
             /\ txinten <=> sending # NULL
             /\ status = "IDLE" <=> sending = NULL

Counted == \A b \in Blocks : refcnt[b] = IF Owned(b) THEN 1 ELSE 0

PortOK == RingOK /\ PortTypes /\ OneOwner /\ Counted

LEMMA NoBlockIsNull == NULL \notin Blocks
  BY NullAssumption, BlockAssumption

\* The writer's block is not in the ring, so the others leave a cell for it.
LEMMA RingHasRoom ==
  ASSUME PortOK, copied # NULL
  PROVE  items[write] = NULL
  <1> SUFFICES ASSUME items[write] # NULL PROVE FALSE
    OBVIOUS
  <1>1. \A c \in Cells : items[c] \in Blocks \ {copied}
    BY FullRing DEF PortOK, PortTypes, OneOwner, InRing
  <1>2. items \in [Cells -> Blocks \ {copied}]
    BY <1>1 DEF PortOK, RingOK, QueueTypeOK
  <1>3. /\ IsFiniteSet(Cells) /\ Cardinality(Cells) = Size
        /\ IsFiniteSet(Blocks) /\ Cardinality(Blocks) = Size
    BY SizeAssumption, FS_Interval DEF Cells, Blocks
  <1>4. /\ IsFiniteSet(Blocks \ {copied})
        /\ Cardinality(Blocks \ {copied}) < Cardinality(Cells)
    <2>1. copied \in Blocks
      BY DEF PortOK, PortTypes
    <2>2. /\ IsFiniteSet(Blocks \ {copied})
          /\ Cardinality(Blocks \ {copied}) = Cardinality(Blocks) - 1
      BY <1>3, <2>1, FS_RemoveElement
    <2> QED BY <1>3, <2>2, SizeAssumption
  <1>5. \E c, d \in Cells : c # d /\ items[c] = items[d]
    BY <1>2, <1>3, <1>4, FS_PigeonHole
  <1> QED BY <1>1, <1>5, NoBlockIsNull DEF PortOK, OneOwner

LEMMA WriteKeeps == PortOK /\ DebugWrite /\ ~exhausted' => PortOK'
  <1> SUFFICES ASSUME PortOK, DebugWrite, ~exhausted' PROVE PortOK'
    OBVIOUS
  <1>1. PICK b \in Blocks : /\ refcnt[b] = 0 /\ copied' = b
                            /\ refcnt' = [refcnt EXCEPT ![b] = 1]
    BY NoBlockIsNull DEF DebugWrite, Allocated, Free
  <1>2. ~Owned(b)
    BY <1>1 DEF PortOK, Counted
  <1>3. UNCHANGED <<items, read, write, status, sent, sending, txinten>> /\ copied = NULL
        /\ at' = "copied"
    BY DEF DebugWrite, queueVars, portVars, PortOK, PortTypes
  <1>4. RingOK'
    BY <1>3, RingUnchanged DEF PortOK, queueVars
  <1>5. PortTypes'
    BY <1>1, <1>3, NoBlockIsNull DEF PortOK, PortTypes
  <1>6. OneOwner'
    BY <1>1, <1>2, <1>3 DEF PortOK, OneOwner, InRing, Owned
  <1>7. Counted'
    BY <1>1, <1>2, <1>3, NoBlockIsNull DEF PortOK, PortTypes, Counted, InRing, Owned
  <1> QED BY <1>4, <1>5, <1>6, <1>7 DEF PortOK

LEMMA OfferedKeeps == PortOK /\ Offered => PortOK'
  <1> SUFFICES ASSUME PortOK, Offered PROVE PortOK'
    OBVIOUS
  <1>1. copied \in Blocks
    BY DEF Offered, PortOK, PortTypes
  <1>2. OfferAccepted(copied)
    BY <1>1, RingHasRoom, NoBlockIsNull DEF Offered, OfferRejected
  <1>3. RingOK'
    BY <1>1, <1>2, BlockAssumption, OfferStep DEF PortOK
  <1>4. /\ write \in Cells /\ DOMAIN items = Cells /\ items[write] = NULL
        /\ items' = [items EXCEPT ![write] = copied]
        /\ UNCHANGED <<refcnt, status, sent, sending, txinten>>
        /\ copied' = NULL /\ at' = "offered"
    BY <1>2 DEF OfferAccepted, Offered, PortOK, RingOK, QueueTypeOK, portVars
  <1>5. \A c \in Cells : items'[c] = IF c = write THEN copied ELSE items[c]
    BY <1>4
  <1>6. PortTypes'
    BY <1>1, <1>4, <1>5 DEF PortOK, PortTypes
  <1>7. \A b \in Blocks : InRing(b)' <=> InRing(b) \/ b = copied
    BY <1>4, <1>5, NoBlockIsNull DEF InRing
  <1>8. OneOwner'
    <2>1. \A b \in Blocks : /\ ~(copied' = b /\ InRing(b)')
                            /\ ~(copied' = b /\ sending' = b)
                            /\ ~(InRing(b)' /\ sending' = b)
      BY <1>1, <1>4, <1>7, NoBlockIsNull DEF PortOK, OneOwner
    <2>2. ASSUME NEW c \in Cells, NEW d \in Cells, items'[c] = items'[d], items'[c] # NULL
          PROVE  c = d
      BY <1>1, <1>5, <2>2 DEF PortOK, OneOwner, InRing
    <2> QED BY <2>1, <2>2 DEF OneOwner, InRing
  <1>9. Counted'
    BY <1>4, <1>7, NoBlockIsNull DEF PortOK, Counted, Owned
  <1> QED BY <1>3, <1>6, <1>8, <1>9 DEF PortOK

\* The next message, when no block is with the interrupt.
LEMMA BeginKeeps ==
  ASSUME RingOK, PortTypes, OneOwner, BeginTx,
         UNCHANGED copied, at' \in {at, "idle"}, copied = NULL \/ at' = at,
         DOMAIN refcnt' = Blocks,
         \A b \in Blocks : refcnt'[b] = IF copied = b \/ InRing(b) THEN 1 ELSE 0
  PROVE  PortOK'
  <1>1. CASE items[read] = NULL /\ UNCHANGED queueVars /\ sending' = NULL
             /\ status' = "IDLE" /\ txinten' = FALSE
    <2>1. UNCHANGED items /\ RingOK'
      BY <1>1, RingUnchanged DEF queueVars
    <2>2. PortTypes'
      BY <1>1, <2>1 DEF PortTypes
    <2>3. OneOwner'
      BY <1>1, <2>1, NoBlockIsNull DEF OneOwner, InRing
    <2>4. Counted'
      BY <1>1, <2>1, NoBlockIsNull DEF Counted, Owned, InRing
    <2> QED BY <2>1, <2>2, <2>3, <2>4 DEF PortOK
  <1>2. CASE Poll /\ sending' = items[read] /\ status' = "BUSY" /\ txinten' = TRUE
    <2>1. /\ read \in Cells /\ DOMAIN items = Cells /\ items[read] # NULL
          /\ items' = [items EXCEPT ![read] = NULL]
      BY <1>2 DEF Poll, RingOK, QueueTypeOK
    <2>2. RingOK'
      BY <1>2, PollStep
    <2>3. \A c \in Cells : items'[c] = IF c = read THEN NULL ELSE items[c]
      BY <2>1
    <2>4. items[read] \in Blocks
      BY <2>1 DEF PortTypes
    <2>5. PortTypes'
      BY <1>2, <2>1, <2>3, <2>4 DEF PortTypes
    <2>6. \A b \in Blocks : InRing(b)' <=> InRing(b) /\ b # items[read]
      BY <2>1, <2>3, NoBlockIsNull DEF InRing, OneOwner
    <2>7. InRing(items[read])
      BY <2>1 DEF InRing
    <2>8. OneOwner'
      <3>1. \A b \in Blocks : /\ ~(copied' = b /\ InRing(b)')
                              /\ ~(copied' = b /\ sending' = b)
                              /\ ~(InRing(b)' /\ sending' = b)
        BY <1>2, <2>4, <2>6, <2>7 DEF OneOwner
      <3>2. \A c, d \in Cells : items'[c] = items'[d] /\ items'[c] # NULL => c = d
        BY <2>3 DEF OneOwner
      <3> QED BY <3>1, <3>2 DEF OneOwner, InRing
    <2>9. Counted'
      BY <1>2, <2>6, <2>7 DEF Counted, Owned
    <2> QED BY <2>2, <2>5, <2>8, <2>9 DEF PortOK
  <1> QED BY <1>1, <1>2 DEF BeginTx

LEMMA StartedKeeps == PortOK /\ Started => PortOK'
  <1> SUFFICES ASSUME PortOK, Started PROVE PortOK'
    OBVIOUS
  <1>1. copied = NULL /\ UNCHANGED copied /\ at' = "idle" /\ UNCHANGED refcnt
    BY DEF Started, PortOK, PortTypes
  <1>2. CASE status = "IDLE" /\ BeginTx
    <2>1. sending = NULL
      BY <1>2 DEF PortOK, PortTypes
    <2>2. \A b \in Blocks : refcnt'[b] = IF copied = b \/ InRing(b) THEN 1 ELSE 0
      BY <1>1, <2>1, NoBlockIsNull DEF PortOK, Counted, Owned
    <2> QED BY <1>1, <1>2, <2>2, BeginKeeps DEF PortOK, PortTypes
  <1>3. CASE UNCHANGED <<queueVars, portVars>>
    <2>1. UNCHANGED <<items, sending, txinten, status>> /\ RingOK'
      BY <1>3, RingUnchanged DEF queueVars, portVars, PortOK
    <2>2. PortTypes'
      BY <1>1, <2>1 DEF PortOK, PortTypes
    <2>3. OneOwner'
      BY <1>1, <2>1 DEF PortOK, OneOwner, InRing
    <2>4. Counted'
      BY <1>1, <2>1 DEF PortOK, Counted, Owned, InRing
    <2> QED BY <2>1, <2>2, <2>3, <2>4 DEF PortOK
  <1> QED BY <1>2, <1>3 DEF Started

LEMMA InterruptKeeps == PortOK /\ SendInterrupt => PortOK'
  <1> SUFFICES ASSUME PortOK, SendInterrupt PROVE PortOK'
    OBVIOUS
  <1>1. CASE SendByte
    <2>1. UNCHANGED <<items, sending, txinten, status, copied, at, refcnt>> /\ RingOK'
      BY <1>1, RingUnchanged DEF SendByte, queueVars, PortOK
    <2>2. PortTypes'
      BY <2>1 DEF PortOK, PortTypes
    <2>3. OneOwner'
      BY <2>1 DEF PortOK, OneOwner, InRing
    <2>4. Counted'
      BY <2>1 DEF PortOK, Counted, Owned, InRing
    <2> QED BY <2>1, <2>2, <2>3, <2>4 DEF PortOK
  <1>2. CASE SendLast
    <2>1. sending \in Blocks /\ ~InRing(sending) /\ copied # sending /\ refcnt[sending] = 1
      BY <1>2 DEF SendLast, PortOK, PortTypes, OneOwner, Counted, Owned
    <2>2. \A b \in Blocks : refcnt'[b] = IF b = sending THEN 0 ELSE refcnt[b]
      BY <1>2, <2>1 DEF SendLast, PortOK, PortTypes
    <2>3. \A b \in Blocks : refcnt'[b] = IF copied = b \/ InRing(b) THEN 1 ELSE 0
      BY <2>1, <2>2 DEF PortOK, Counted, Owned
    <2>4. DOMAIN refcnt' = Blocks /\ UNCHANGED <<copied, at>> /\ BeginTx
      BY <1>2 DEF SendLast, PortOK, PortTypes
    <2> QED BY <2>3, <2>4, BeginKeeps DEF PortOK
  <1> QED BY <1>1, <1>2 DEF SendInterrupt

LEMMA DebugRuns == Spec => DebugInit /\ [][DebugNext]_debugVars
  <1>1. Init => DebugInit
    BY DEF Init
  <1>2. [Next]_outputVars => [DebugNext]_debugVars
    BY DEF Next, outputVars, ControlCalled, RelayCalled, DisplayCalled, DebugCalled,
       RelayGoesOn, DisplayGoesOn, DebugGoesOn, DebugNext
  <1> QED BY <1>1, <1>2, PTL DEF Spec

LEMMA PortInvariant == Spec => [](~exhausted => PortOK)
  <1>1. DebugInit => PortOK
    <2> SUFFICES ASSUME DebugInit PROVE PortOK
      OBVIOUS
    <2>1. RingOK
      BY InitRing DEF DebugInit
    <2>2. \A c \in Cells : items[c] = NULL
      BY DEF DebugInit, QueueInit
    <2> QED BY <2>1, <2>2, NoBlockIsNull
            DEF DebugInit, PortOK, PortTypes, OneOwner, Counted, Owned, InRing, Cells
  <1>2. (~exhausted => PortOK) /\ [DebugNext]_debugVars => (~exhausted => PortOK)'
    <2> SUFFICES ASSUME ~exhausted => PortOK, [DebugNext]_debugVars, ~exhausted'
                 PROVE  PortOK'
      BY Zenon
    <2>1. ~exhausted
      BY DEF DebugNext, DebugWrite, Offered, Started, SendInterrupt, SendByte, SendLast,
         debugVars
    <2>2. CASE UNCHANGED debugVars
      <3>1. UNCHANGED <<items, sending, txinten, status, copied, at, refcnt>> /\ RingOK'
        BY <2>1, <2>2, RingUnchanged DEF debugVars, portVars, queueVars, PortOK
      <3>2. PortTypes'
        BY <2>1, <3>1 DEF PortOK, PortTypes
      <3>3. OneOwner'
        BY <2>1, <3>1 DEF PortOK, OneOwner, InRing
      <3>4. Counted'
        BY <2>1, <3>1 DEF PortOK, Counted, Owned, InRing
      <3> QED BY <3>1, <3>2, <3>3, <3>4 DEF PortOK
    <2> QED BY <2>1, <2>2, WriteKeeps, OfferedKeeps, StartedKeeps, InterruptKeeps DEF DebugNext
  <1> QED BY <1>1, <1>2, DebugRuns, PTL

\* debug.c neither leaks a block nor sends one that is in use elsewhere, for
\* every size, until a message finds the pool empty: the ring has as many cells
\* as the pool has blocks, so queue_offer's ignored result is never FALSE.
THEOREM BlocksStayAccounted == Spec => []BlocksAccounted
  <1>1. (~exhausted => PortOK) => BlocksAccounted
    BY DEF PortOK, OneOwner, Counted, Owned, InRing, BlocksAccounted, One
  <1> QED BY <1>1, PortInvariant, PTL

\* A poll finds nothing only when no cell holds a message.
LEMMA EmptyRing ==
  ASSUME RingOK, items[read] = NULL
  PROVE  \A c \in Cells : items[c] = NULL
  <1>1. Count = 0 /\ read \in Cells
    BY DEF Count, RingOK, QueueTypeOK
  <1>2. \A n \in 0 .. Size - 1 : items[Cell(n)] = NULL
    BY <1>1 DEF RingOK, Window
  <1> QED BY <1>1, <1>2, CellReached

\* While a message is in the ring either the interrupt is at work and will poll
\* for it, or __debug_write is about to see that it is not.
Awake == (\E c \in Cells : items[c] # NULL) => txinten \/ at = "offered"

LEMMA BeginWakes == RingOK /\ BeginTx => Awake'
  <1> SUFFICES ASSUME RingOK, BeginTx PROVE Awake'
    OBVIOUS
  <1>1. CASE items[read] = NULL /\ UNCHANGED queueVars
    BY <1>1, EmptyRing DEF Awake, queueVars, Cells
  <1>2. CASE txinten'
    BY <1>2 DEF Awake
  <1> QED BY <1>1, <1>2 DEF BeginTx

LEMMA AwakeKept == PortOK /\ Awake /\ [DebugNext]_debugVars => Awake'
  <1> SUFFICES ASSUME PortOK, Awake, [DebugNext]_debugVars PROVE Awake'
    OBVIOUS
  <1>1. CASE DebugWrite
    BY <1>1 DEF DebugWrite, Awake, queueVars, portVars, Cells
  <1>2. CASE Offered
    BY <1>2 DEF Offered, Awake
  <1>3. CASE Started
    <2>1. CASE status = "IDLE" /\ BeginTx
      BY <2>1, BeginWakes DEF PortOK
    <2>2. CASE status = "BUSY" /\ UNCHANGED portVars
      BY <2>2 DEF Awake, portVars, PortOK, PortTypes
    <2> QED BY <1>3, <2>1, <2>2 DEF Started
  <1>4. CASE SendByte
    BY <1>4 DEF SendByte, Awake
  <1>5. CASE SendLast
    BY <1>5, BeginWakes DEF SendLast, PortOK
  <1>6. CASE UNCHANGED debugVars
    BY <1>6 DEF debugVars, Awake, queueVars, portVars, Cells
  <1> QED BY <1>1, <1>2, <1>3, <1>4, <1>5, <1>6 DEF DebugNext, SendInterrupt

\* No message lies in the ring with the port at rest, though the interrupt may
\* find the ring empty and stop between queue_offer and the test of the status
\* (debug.c:78-100), for every size of the ring and length of a message.
THEOREM NoMessageStranded ==
    Spec => []((~exhausted /\ Contents # <<>>) => (txinten \/ at = "offered"))
  <1>1. DebugInit => Awake
    BY DEF DebugInit, QueueInit, Awake
  <1>2. (~exhausted => PortOK) /\ (~exhausted => Awake) /\ [DebugNext]_debugVars
          => (~exhausted => Awake)'
    <2>1. [DebugNext]_debugVars /\ ~exhausted' => ~exhausted
      BY DEF DebugNext, DebugWrite, Offered, Started, SendInterrupt, SendByte, SendLast,
         debugVars
    <2> QED BY <2>1, AwakeKept, Zenon
  <1>3. (~exhausted => PortOK) /\ (~exhausted => Awake)
          => ((~exhausted /\ Contents # <<>>) => (txinten \/ at = "offered"))
    <2> SUFFICES ASSUME PortOK, Awake, ~(\E c \in Cells : items[c] # NULL)
                 PROVE  Contents = <<>>
      BY DEF Awake
    <2>1. Count = 0
      BY DEF Count, PortOK, RingOK, QueueTypeOK
    <2> QED BY <2>1 DEF Contents
  <1> QED BY <1>1, <1>2, <1>3, DebugRuns, PortInvariant, PTL

\* The messages are begun in the order in which they were queued: the ring takes
\* the writer's at its end, and the interrupt, or the writer when it finds the
\* port at rest, takes the oldest (debug.c:64-100, queue.c).
THEOREM MessagesInOrder ==
    Spec => [][~exhausted' =>
                 \/ Contents' = Contents
                 \/ Contents' = Append(Contents, copied)
                 \/ /\ Contents # <<>> /\ Contents' = Tail(Contents)
                    /\ sending' = Head(Contents)]_debugVars
  <1> DEFINE Ordered == \/ Contents' = Contents
                        \/ Contents' = Append(Contents, copied)
                        \/ /\ Contents # <<>> /\ Contents' = Tail(Contents)
                           /\ sending' = Head(Contents)
  <1>1. (~exhausted => PortOK) /\ [DebugNext]_debugVars
          => [~exhausted' => Ordered]_debugVars
    <2> SUFFICES ASSUME ~exhausted => PortOK, DebugNext, ~exhausted' PROVE Ordered
      OBVIOUS
    <2>1. PortOK
      BY DEF DebugNext, DebugWrite, Offered, Started, SendInterrupt, SendByte, SendLast
    <2>2. CASE UNCHANGED queueVars
      BY <2>2, RingUnchanged
    <2>3. CASE Poll /\ sending' = items[read]
      BY <2>1, <2>3, PollStep DEF PortOK
    <2>4. CASE Offered
      <3>1. copied \in Values
        BY <2>1, <2>4, BlockAssumption DEF Offered, PortOK, PortTypes
      <3>2. CASE OfferAccepted(copied)
        BY <2>1, <3>1, <3>2, OfferStep DEF PortOK
      <3>3. CASE OfferRejected
        BY <3>3, <2>2 DEF OfferRejected
      <3> QED BY <2>4, <3>2, <3>3 DEF Offered
    <2> QED BY <2>2, <2>3, <2>4
            DEF DebugNext, DebugWrite, Started, SendInterrupt, SendByte, SendLast, BeginTx
  <1> QED BY <1>1, DebugRuns, PortInvariant, PTL

-----------------------------------------------------------------------------
\* The relay.  A word is its two bytes, and no other two.
LEMMA WordSplits ==
  ASSUME NEW x \in Int
  PROVE  /\ High(x) \in Int /\ Low(x) \in 0 .. Half - 1
         /\ x = High(x) * Half + Low(x)
  <1>1. Half \in Nat /\ Half > 0
    BY LevelAssumption
  <1>2. x \div Half \in Int /\ x % Half \in 0 .. Half - 1
    BY <1>1, SMTT(30)
  <1>3. x = (x \div Half) * Half + (x % Half)
    BY <1>1, SMTT(30)
  <1> QED BY <1>2, <1>3 DEF High, Low

LEMMA BytesJoined ==
  ASSUME NEW q \in Int, NEW r \in 0 .. Half - 1
  PROVE  High(q * Half + r) = q /\ Low(q * Half + r) = r
  <1> DEFINE x == q * Half + r
             h == High(x)
             l == Low(x)
  <1>1. Half \in Nat \ {0} /\ x \in Int
    BY LevelAssumption
  <1>2. h \in Int /\ l \in 0 .. Half - 1 /\ q * Half + r = h * Half + l
    BY <1>1, WordSplits
  <1> HIDE DEF h, l
  <1>3. \A a \in Nat \ {0} : a * Half >= Half
    BY <1>1, SMT
  <1>4. (q - h) * Half = l - r /\ (h - q) * Half = r - l
    BY <1>1, <1>2, SMT
  <1>5. ~(q - h >= 1) /\ ~(h - q >= 1)
    <2>1. q - h >= 1 => (q - h) * Half >= Half
      BY <1>2, <1>3
    <2>2. h - q >= 1 => (h - q) * Half >= Half
      BY <1>2, <1>3
    <2>3. l - r < Half /\ r - l < Half
      BY <1>1, <1>2
    <2> DEFINE u == (q - h) * Half
               v == (h - q) * Half
    <2>4. u = l - r /\ v = r - l
      BY <1>4
    <2> HIDE DEF u, v
    <2> QED BY <1>1, <1>2, <2>1, <2>2, <2>3, <2>4 DEF u, v
  <1>6. q = h
    BY <1>2, <1>5
  <1>7. r = l
    BY <1>1, <1>2, <1>6
  <1> QED BY <1>6, <1>7 DEF h, l

\* What main_thread asked for last is in memory byte for byte, but for the bytes
\* it has yet to store.
RelayTypes == /\ level \in Int /\ lvl \in Int /\ storing \subseteq {"low", "high"}
              /\ clocked \in BOOLEAN /\ inten \in BOOLEAN

Kept == /\ storing # {} => lvl > 0
        /\ storing \subseteq {"low"} /\ lvl > 0 => High(level) = High(lvl)
        /\ storing \subseteq {"high"} /\ lvl > 0 => Low(level) = Low(lvl)
        /\ lvl <= 0 => level = 0 /\ ~clocked
        /\ storing = {} /\ lvl > 0 => clocked
        /\ inten <=> clocked

RelayOK == RelayTypes /\ Kept

LEMMA ByteKept ==
  ASSUME RelayOK, NEW byte \in storing, level' = Stored(byte)
  PROVE  /\ level' \in Int
         /\ byte = "high" => High(level') = High(lvl) /\ Low(level') = Low(level)
         /\ byte = "low" => High(level') = High(level) /\ Low(level') = Low(lvl)
  <1>1. /\ High(lvl) \in Int /\ Low(lvl) \in 0 .. Half - 1
        /\ High(level) \in Int /\ Low(level) \in 0 .. Half - 1
    BY WordSplits DEF RelayOK, RelayTypes
  <1>2. byte \in {"low", "high"} /\ Half \in Int
    BY LevelAssumption DEF RelayOK, RelayTypes
  <1>5. \A q \in Int, r \in 0 .. Half - 1 : High(q * Half + r) = q /\ Low(q * Half + r) = r
    BY BytesJoined
  <1>3. CASE byte = "high"
    <2>1. level' = High(lvl) * Half + Low(level)
      BY <1>3 DEF Stored
    <2>2. level' \in Int
      BY <1>1, <1>2, <2>1
    <2> QED BY <1>1, <1>3, <1>5, <2>1, <2>2, Zenon
  <1>4. CASE byte = "low"
    <2>1. level' = High(level) * Half + Low(lvl)
      BY <1>4 DEF Stored
    <2>2. level' \in Int
      BY <1>1, <1>2, <2>1
    <2> QED BY <1>1, <1>4, <1>5, <2>1, <2>2, Zenon
  <1> QED BY <1>2, <1>3, <1>4

LEMMA RelayKept == ASSUME RelayOK, [RelayNext]_relayVars PROVE RelayOK'
  <1>1. ASSUME NEW l \in Levels, SsrLevel(l) PROVE RelayOK'
    <2>1. l \in Int
      BY LevelAssumption
    <2>2. CASE l <= 0 /\ SwitchOff /\ UNCHANGED storing
      <3>1. /\ level' = 0 /\ lvl' = l /\ storing' = storing /\ clocked' = FALSE
            /\ inten' = FALSE /\ ~(lvl' > 0) /\ lvl' <= 0 /\ ~clocked' /\ ~inten'
        BY <1>1, <2>1, <2>2 DEF SsrLevel, SwitchOff
      <3>2. storing' = {}
        BY <1>1, <3>1 DEF SsrLevel
      <3>3. RelayTypes'
        <4>1. level' \in Int /\ lvl' \in Int /\ storing' \subseteq {"low", "high"}
          BY <2>1, <3>1, <3>2
        <4>2. clocked' \in BOOLEAN /\ inten' \in BOOLEAN
          BY <3>1, Zenon
        <4> QED BY <4>1, <4>2, Zenon DEF RelayTypes
      <3>4. Kept'
        <4>1. /\ lvl' <= 0 => level' = 0 /\ ~clocked'
              /\ inten' <=> clocked'
          BY <3>1
        <4>2. storing' = {} /\ ~(storing' # {}) /\ ~(lvl' > 0)
          BY <3>1, <3>2
        <4> QED BY <4>1, <4>2, Zenon DEF Kept
      <3> QED BY <3>3, <3>4 DEF RelayOK
    <2>3. CASE l > 0 /\ storing' = {"low", "high"} /\ UNCHANGED <<level, timerRegs>>
      BY <1>1, <2>1, <2>3 DEF SsrLevel, timerRegs, RelayOK, RelayTypes, Kept
    <2> QED BY <1>1, <2>2, <2>3 DEF SsrLevel
  <1>2. ASSUME NEW byte \in storing,
               storing' = storing \ {byte}, level' = Stored(byte), UNCHANGED lvl,
               \/ storing # {byte} /\ UNCHANGED timerRegs
               \/ storing = {byte} /\ SwitchOn
        PROVE  RelayOK'
    <2>1. /\ byte \in {"low", "high"} /\ storing \subseteq {"low", "high"} /\ lvl > 0
          /\ storing' \subseteq {"low", "high"} /\ lvl' = lvl /\ lvl \in Int
      BY <1>2 DEF RelayOK, RelayTypes, Kept
    <2>2. /\ level' \in Int
          /\ byte = "high" => High(level') = High(lvl) /\ Low(level') = Low(level)
          /\ byte = "low" => High(level') = High(level) /\ Low(level') = Low(lvl)
      BY <1>2, ByteKept
    <2>3. /\ clocked' \in BOOLEAN /\ inten' \in BOOLEAN /\ (inten' <=> clocked')
          /\ storing' = {} => clocked'
      <3>1. CASE storing # {byte} /\ UNCHANGED timerRegs
        BY <1>2, <3>1 DEF timerRegs, RelayOK, RelayTypes, Kept
      <3>2. CASE storing = {byte} /\ SwitchOn
        BY <1>2, <3>2 DEF SwitchOn
      <3> QED BY <1>2, <3>1, <3>2
    <2>4. storing' \subseteq {"low"} => High(level') = High(lvl)
      BY <1>2, <2>1, <2>2 DEF RelayOK, Kept
    <2>5. storing' \subseteq {"high"} => Low(level') = Low(lvl)
      BY <1>2, <2>1, <2>2 DEF RelayOK, Kept
    <2>6. RelayTypes'
      BY <2>1, <2>2, <2>3, Zenon DEF RelayTypes
    <2>7. Kept'
      <3>1. ~(lvl' <= 0)
        BY <2>1
      <3>2. High(lvl') = High(lvl) /\ Low(lvl') = Low(lvl)
        BY <2>1
      <3> QED BY <2>1, <2>3, <2>4, <2>5, <3>1, <3>2, Zenon DEF Kept, High, Low
    <2> QED BY <2>6, <2>7 DEF RelayOK
  <1>3. CASE StoreLevel
    <2> PICK byte \in storing : \/ storing # {byte} /\ StoreByte(byte)
                                \/ StoreLast(byte)
      BY <1>3 DEF StoreLevel
    <2> QED BY <1>2 DEF StoreByte, StoreLast
  <1>4. CASE UNCHANGED <<level, lvl, storing, clocked, inten>>
    BY <1>4, Zenon DEF RelayOK, RelayTypes, Kept, High, Low
  <1> QED BY <1>1, <1>3, <1>4
          DEF RelayNext, CompareInterrupt, CountUp, relayVars, timerRegs

LEMMA RelayOKHolds == RelayInit /\ [][RelayNext]_relayVars => []RelayOK
  <1>1. RelayInit => RelayOK
    <2> SUFFICES ASSUME RelayInit PROVE RelayOK
      OBVIOUS
    <2>1. level = 0 /\ lvl = 0 /\ storing = {} /\ clocked = FALSE /\ inten = FALSE
      BY DEF RelayInit
    <2>2. clocked \in BOOLEAN /\ inten \in BOOLEAN /\ (inten <=> clocked)
      BY <2>1, Zenon
    <2> QED BY <2>1, <2>2 DEF RelayOK, RelayTypes, Kept
  <1> QED BY <1>1, RelayKept, PTL

LEMMA RelayRuns == Spec => RelayInit /\ [][RelayNext]_relayVars
  <1>1. Init => RelayInit
    BY DEF Init
  <1>2. [Next]_outputVars => [RelayNext]_relayVars
    BY DEF Next, outputVars, ControlCalled, RelayCalled, DisplayCalled, DebugCalled,
       RelayGoesOn, DisplayGoesOn, DebugGoesOn, RelayNext
  <1> QED BY <1>1, <1>2, PTL DEF Spec

LEMMA StoredWhole == RelayOK /\ storing = {} /\ lvl > 0 => level = lvl /\ clocked /\ inten
  <1> SUFFICES ASSUME RelayOK, storing = {}, lvl > 0 PROVE level = lvl /\ clocked /\ inten
    OBVIOUS
  <1>1. High(level) = High(lvl) /\ Low(level) = Low(lvl) /\ clocked /\ inten
    BY DEF RelayOK, Kept
  <1>2. level = High(level) * Half + Low(level) /\ lvl = High(lvl) * Half + Low(lvl)
    BY WordSplits DEF RelayOK, RelayTypes
  <1>3. \A a, b, c, d : (level = a * Half + b /\ lvl = c * Half + d /\ a = c /\ b = d)
                           => level = lvl
    OBVIOUS
  <1>4. level = lvl
    BY <1>1, <1>2, <1>3, Zenon
  <1> QED BY <1>1, <1>4

LEMMA StoredNone == RelayOK /\ ~(lvl > 0) => level = 0 /\ ~clocked /\ ~inten
  <1> SUFFICES ASSUME RelayOK, ~(lvl > 0) PROVE level = 0 /\ ~clocked /\ ~inten
    OBVIOUS
  <1>1. lvl <= 0
    BY DEF RelayOK, RelayTypes
  <1>2. (lvl <= 0 => level = 0 /\ ~clocked) /\ (inten <=> clocked)
    BY DEF RelayOK, Kept
  <1> QED BY <1>1, <1>2

\* Whatever bytes of earlier levels are in memory, once ssr_level or ssr_off has
\* returned, level is what it was called for, in whichever order the two bytes
\* were stored; the timer runs with its interrupt enabled exactly when that is
\* positive, and an interrupt taken then sets the pulses to it (ssr.c:24-50).
THEOREM LevelStored ==
    Spec => /\ [](storing = {} => IF lvl > 0 THEN level = lvl /\ clocked /\ inten
                                              ELSE level = 0 /\ ~clocked /\ ~inten)
            /\ [][CompareInterrupt /\ storing = {} => ccc' = lvl]_relayVars
  <1>1. RelayOK => (storing = {} => IF lvl > 0 THEN level = lvl /\ clocked /\ inten
                                               ELSE level = 0 /\ ~clocked /\ ~inten)
    BY StoredWhole, StoredNone
  <1>2. RelayOK /\ [RelayNext]_relayVars
          => [CompareInterrupt /\ storing = {} => ccc' = lvl]_relayVars
    <2> SUFFICES ASSUME RelayOK, CompareInterrupt, storing = {} PROVE ccc' = lvl
      OBVIOUS
    <2>1. inten /\ ccc' = level
      BY DEF CompareInterrupt
    <2> QED BY <2>1, StoredWhole, StoredNone
  <1> QED BY <1>1, <1>2, RelayOKHolds, RelayRuns, PTL

-----------------------------------------------------------------------------
\* The display.  What a byte of the buffer may be.
Bytes == [glyph : Glyphs \cup {Blank}, dp : BOOLEAN]

\* The point at place p, as far as the text before k says.
LitBefore(s, p, k) == \E n \in DOMAIN s \ Chars(s) :
                         n < k /\ \/ Place(s, n) = p + 1 /\ p < Max
                                  \/ Place(s, n) = p /\ s[n] = ":"

\* Places count the characters on the way through a text.
LEMMA PlaceFacts ==
  ASSUME NEW s \in Seq(STRING)
  PROVE  /\ Len(s) \in Nat /\ DOMAIN s = 1 .. Len(s) /\ Chars(s) \subseteq 1 .. Len(s)
         /\ Place(s, 1) = 0
         /\ \A k \in 1 .. Len(s) + 1 : Place(s, k) \in Nat
         /\ \A k \in 1 .. Len(s) :
               Place(s, k + 1) = IF k \in Chars(s) THEN Place(s, k) + 1 ELSE Place(s, k)
         /\ \A j, k \in 1 .. Len(s) + 1 : j <= k => Place(s, j) <= Place(s, k)
         /\ \A j \in Chars(s), k \in 1 .. Len(s) + 1 : j < k => Place(s, j) < Place(s, k)
  <1>1. Len(s) \in Nat /\ DOMAIN s = 1 .. Len(s) /\ Chars(s) \subseteq 1 .. Len(s)
    BY LenProperties DEF Chars
  <1> DEFINE C(k) == {m \in Chars(s) : m < k}
  <1>7. \A k, m : m \in C(k) <=> m \in Chars(s) /\ m < k
    OBVIOUS
  <1>8. \A k : Place(s, k) = Cardinality(C(k))
    BY DEF Place
  <1> HIDE DEF C
  <1>2. \A k : IsFiniteSet(C(k)) /\ Cardinality(C(k)) \in Nat /\ Place(s, k) = Cardinality(C(k))
    <2> TAKE k
    <2>1. IsFiniteSet(1 .. Len(s)) /\ C(k) \in SUBSET (1 .. Len(s))
      BY <1>1, <1>7, FS_Interval
    <2>2. IsFiniteSet(C(k))
      BY <2>1, FS_Subset
    <2> QED BY <1>8, <2>2, FS_CardinalityType
  <1>3. Place(s, 1) = 0
    <2>1. C(1) = {}
      BY <1>1, <1>7
    <2> QED BY <1>2, <2>1, FS_EmptySet
  <1>4. \A k \in 1 .. Len(s) :
           Place(s, k + 1) = IF k \in Chars(s) THEN Place(s, k) + 1 ELSE Place(s, k)
    <2> TAKE k \in 1 .. Len(s)
    <2>1. CASE k \in Chars(s)
      <3>1. C(k + 1) = C(k) \cup {k} /\ k \notin C(k)
        BY <1>1, <1>7, <2>1
      <3>2. Cardinality(C(k) \cup {k}) = Cardinality(C(k)) + 1
        BY <1>2, <3>1, FS_AddElement
      <3> QED BY <1>2, <2>1, <3>1, <3>2
    <2>2. CASE k \notin Chars(s)
      <3>1. \A m \in Chars(s) : m < k + 1 <=> m < k
        BY <1>1, <2>2
      <3>2. C(k + 1) = C(k)
        BY <3>1 DEF C
      <3> QED BY <1>2, <2>2, <3>2
    <2> QED BY <2>1, <2>2
  <1>5. \A j, k \in 1 .. Len(s) + 1 : j <= k => Place(s, j) <= Place(s, k)
    <2> SUFFICES ASSUME NEW j \in 1 .. Len(s) + 1, NEW k \in 1 .. Len(s) + 1, j <= k
                 PROVE  Place(s, j) <= Place(s, k)
      OBVIOUS
    <2>1. C(j) \in SUBSET C(k)
      BY <1>1, <1>7
    <2>2. Cardinality(C(j)) <= Cardinality(C(k))
      BY <1>2, <2>1, FS_Subset
    <2> QED BY <1>2, <2>2
  <1>6. \A j \in Chars(s), k \in 1 .. Len(s) + 1 : j < k => Place(s, j) < Place(s, k)
    <2> SUFFICES ASSUME NEW j \in Chars(s), NEW k \in 1 .. Len(s) + 1, j < k
                 PROVE  Place(s, j) < Place(s, k)
      OBVIOUS
    <2>1. j \in 1 .. Len(s) /\ j + 1 \in 1 .. Len(s) + 1 /\ j + 1 <= k /\ j \in 1 .. Len(s) + 1
      BY <1>1
    <2>2. Place(s, j + 1) = Place(s, j) + 1 /\ Place(s, j + 1) <= Place(s, k)
      BY <1>4, <1>5, <2>1
    <2>3. Place(s, j) \in Nat /\ Place(s, k) \in Nat
      BY <1>2
    <2> QED BY <2>2, <2>3
  <1> QED BY <1>1, <1>2, <1>3, <1>4, <1>5, <1>6

\* display_puts on its way: the characters read are in their places with the
\* points that the marks read so far light; what has been padded is dark.
PutsTypes ==
    /\ str \in Texts /\ i \in 1 .. Len(str) + 1 /\ len \in 0 .. DISPLAY_SIZE
    /\ add_dp \in BOOLEAN /\ printing \in BOOLEAN
    /\ buf \in [0 .. Max -> Bytes]

Scanned ==
    /\ Place(str, i) <= len
    /\ i <= Len(str) => /\ len = Place(str, i)
                        /\ add_dp <=> \E n \in DOMAIN str \ Chars(str) :
                              n < i /\ Place(str, n) = len /\ str[n] = ":"
    /\ \A n \in Chars(str) : n < i =>
          buf[Max - Place(str, n)] = [glyph |-> MappedChar(str[n]),
                                      dp |-> LitBefore(str, Place(str, n), i)]
    /\ \A p \in 0 .. len - 1 :
          \/ \E n \in Chars(str) : n < i /\ Place(str, n) = p
          \/ Place(str, i) <= p /\ buf[Max - p] = Dark

PutsOK == /\ PutsTypes
          /\ IF printing THEN Scanned
             ELSE \A p \in 0 .. Max : buf[Max - p] = Rendered(str)[p]

LEMMA TextFacts ==
  ASSUME PutsTypes
  PROVE  /\ str \in Seq(STRING) /\ Len(str) \in Nat /\ DOMAIN str = 1 .. Len(str)
         /\ i \in Nat \ {0} /\ len \in Nat /\ DISPLAY_SIZE \in Nat \ {0}
         /\ Max \in Nat /\ DISPLAY_SIZE = Max + 1
         /\ Place(str, i) \in Nat
  <1>1. str \in Seq(STRING)
    BY TextAssumption DEF PutsTypes
  <1>2. Len(str) \in Nat /\ DOMAIN str = 1 .. Len(str) /\ Place(str, i) \in Nat
    BY <1>1, PlaceFacts DEF PutsTypes
  <1> QED BY <1>1, <1>2, DisplayAssumption DEF PutsTypes, Max

LEMMA EmptyText == PutsTypes /\ str = <<>> => \A p \in 0 .. Max : Rendered(str)[p] = Dark
  <1> SUFFICES ASSUME PutsTypes, str = <<>>, NEW p \in 0 .. Max PROVE Rendered(str)[p] = Dark
    OBVIOUS
  <1>1. Chars(str) = {}
    BY DEF Chars
  <1> QED BY <1>1 DEF Rendered

\* With the first byte to fill, no character has been read.
LEMMA PutsBegins == ASSUME PutsOK, NEW s \in Texts, Puts(s) PROVE PutsOK'
  <1>1. /\ s \in Seq(STRING) /\ DISPLAY_SIZE \in Nat \ {0}
        /\ str' = s /\ i' = 1 /\ len' = 0 /\ add_dp' = FALSE /\ printing' = TRUE /\ buf' = buf
    BY TextAssumption, DisplayAssumption DEF Puts
  <1>2. /\ Len(s) \in Nat /\ DOMAIN s = 1 .. Len(s) /\ Chars(s) \subseteq 1 .. Len(s)
        /\ Place(s, 1) = 0
    BY <1>1, PlaceFacts
  <1>3. PutsTypes'
    <2>1. buf' \in [0 .. Max -> Bytes]
      BY <1>1, Zenon DEF PutsOK, PutsTypes
    <2>2. /\ str' \in Texts /\ i' \in 1 .. Len(str') + 1 /\ len' \in 0 .. DISPLAY_SIZE
      BY <1>1, <1>2
    <2>3. add_dp' \in BOOLEAN /\ printing' \in BOOLEAN
      BY <1>1, Zenon
    <2> QED BY <2>1, <2>2, <2>3, Zenon DEF PutsTypes, Bytes, Max
  <1>4. Scanned'
    <2>1. /\ \A n \in Chars(s) : ~(n < 1)
          /\ \A n \in DOMAIN s \ Chars(s) : ~(n < 1)
          /\ \A p \in 0 .. 0 - 1 : FALSE
      BY <1>2
    <2>2. Place(str', i') <= len' /\ (i' <= Len(str') => len' = Place(str', i'))
      BY <1>1, <1>2
    <2>3. add_dp' <=> \E n \in DOMAIN str' \ Chars(str') :
                         n < i' /\ Place(str', n) = len' /\ str'[n] = ":"
      BY <1>1, <2>1
    <2>4. /\ \A n \in Chars(str') : ~(n < i')
          /\ \A p \in 0 .. len' - 1 : FALSE
      BY <1>1, <2>1
    <2> QED BY <2>2, <2>3, <2>4 DEF Scanned
  <1> QED BY <1>1, <1>3, <1>4 DEF PutsOK

\* A mark lights the point of the character before it, which has been read.
LEMMA MarkKeeps == ASSUME PutsOK, PutMark PROVE PutsOK'
  <1>1. /\ PutsTypes /\ Scanned /\ i <= Len(str) /\ len < DISPLAY_SIZE /\ printing
        /\ str[i] \in Marks /\ len > 0
    BY DEF PutsOK, PutMark, InText, IsMark
  <1>2. /\ str \in Seq(STRING) /\ Len(str) \in Nat /\ DOMAIN str = 1 .. Len(str)
        /\ i \in 1 .. Len(str) /\ i \in 1 .. Len(str) + 1 /\ i + 1 \in 1 .. Len(str) + 1
        /\ len \in Nat \ {0} /\ len = Place(str, i)
        /\ Max \in Nat /\ DISPLAY_SIZE = Max + 1
    BY <1>1, TextFacts DEF Scanned, PutsTypes
  <1>3. /\ str' = str /\ i' = i + 1 /\ len' = len /\ printing' = printing
        /\ add_dp' = (add_dp \/ str[i] = ":")
        /\ buf' = [buf EXCEPT ![Max - (len - 1)].dp = TRUE]
        /\ buf \in [0 .. Max -> Bytes]
    BY <1>1 DEF PutMark, PutsTypes
  <1>4. i \notin Chars(str) /\ i \in DOMAIN str \ Chars(str)
    <2>1. i # 1
      BY <1>2, PlaceFacts
    <2> QED BY <1>1, <1>2, <2>1 DEF Chars
  <1>5. /\ Place(str, i + 1) = Place(str, i) /\ Chars(str) \subseteq 1 .. Len(str)
        /\ \A n \in Chars(str) : n < i => Place(str, n) < len /\ Place(str, n) \in Nat
    BY <1>2, <1>4, PlaceFacts
  <1>6. /\ \A n \in DOMAIN str : n < i + 1 <=> n < i \/ n = i
    BY <1>2
  <1>7. PutsTypes'
    <2>1. Max - (len - 1) \in 0 .. Max
      BY <1>1, <1>2
    <2>2. buf' \in [0 .. Max -> Bytes]
      BY <1>3, <2>1 DEF Bytes
    <2>3. add_dp' \in BOOLEAN /\ printing' \in BOOLEAN
      BY <1>1, <1>3, Zenon DEF PutsTypes
    <2>4. str' \in Texts /\ i' \in 1 .. Len(str') + 1 /\ len' \in 0 .. DISPLAY_SIZE
      BY <1>1, <1>2, <1>3 DEF PutsTypes
    <2> QED BY <2>2, <2>3, <2>4, Zenon DEF PutsTypes, Bytes, Max
  <1>8. Place(str, i + 1) <= len /\ len = Place(str, i + 1)
    BY <1>2, <1>5
  <1>9. add_dp' <=> \E n \in DOMAIN str \ Chars(str) :
                       n < i + 1 /\ Place(str, n) = len /\ str[n] = ":"
    <2>1. add_dp <=> \E n \in DOMAIN str \ Chars(str) :
                        n < i /\ Place(str, n) = len /\ str[n] = ":"
      BY <1>1, <1>2 DEF Scanned
    <2>2. add_dp' <=> add_dp \/ str[i] = ":"
      BY <1>3
    <2> QED BY <1>2, <1>4, <1>6, <2>1, <2>2
  <1>10. ASSUME NEW n \in Chars(str), n < i + 1
         PROVE  buf'[Max - Place(str, n)] = [glyph |-> MappedChar(str[n]),
                                             dp |-> LitBefore(str, Place(str, n), i + 1)]
    <2> DEFINE p == Place(str, n)
    <2>1. n \in DOMAIN str /\ n < i /\ p \in Nat /\ p < len /\ p # len
      BY <1>2, <1>4, <1>5, <1>6, <1>10
    <2>2. buf[Max - p] = [glyph |-> MappedChar(str[n]), dp |-> LitBefore(str, p, i)]
      BY <1>1, <2>1 DEF Scanned
    <2>3. Max - p \in 0 .. Max /\ (p = len - 1 <=> Max - p = Max - (len - 1)) /\ p < Max + 1
      BY <1>1, <1>2, <2>1
    <2> HIDE DEF p
    <2>4. CASE p = len - 1
      <3>1. LitBefore(str, p, i + 1) = TRUE
        <4>1. Place(str, i) = p + 1 /\ p < Max /\ i < i + 1
          BY <1>1, <1>2, <2>1, <2>4
        <4> QED BY <1>4, <4>1 DEF LitBefore
      <3>2. buf'[Max - p].dp = TRUE /\ buf'[Max - p].glyph = buf[Max - p].glyph
        BY <1>3, <2>3, <2>4 DEF Bytes
      <3>3. buf'[Max - p] = [glyph |-> MappedChar(str[n]), dp |-> TRUE]
        <4>1. \A r \in Bytes : r = [glyph |-> r.glyph, dp |-> r.dp]
          BY DEF Bytes
        <4>2. buf'[Max - p] \in Bytes
          BY <1>7, <1>3, <2>3 DEF PutsTypes, Max, Bytes
        <4>3. buf[Max - p].glyph = MappedChar(str[n])
          BY <2>2
        <4> QED BY <3>2, <4>1, <4>2, <4>3, Zenon
      <3> QED BY <3>1, <3>3 DEF p
    <2>5. CASE p # len - 1
      <3>1. buf'[Max - p] = buf[Max - p]
        BY <1>3, <2>3, <2>5
      <3>2. Place(str, i) # p + 1 /\ Place(str, i) # p
        BY <1>2, <2>1, <2>5
      <3>3. LitBefore(str, p, i + 1) <=> LitBefore(str, p, i)
        BY <1>4, <1>6, <3>2 DEF LitBefore
      <3>4. LitBefore(str, p, i + 1) = LitBefore(str, p, i)
        BY <3>3 DEF LitBefore
      <3> QED BY <2>2, <3>1, <3>4 DEF p
    <2> QED BY <2>4, <2>5
  <1>11. ASSUME NEW p \in 0 .. len - 1
         PROVE  \E n \in Chars(str) : n < i + 1 /\ Place(str, n) = p
    <2>1. \E n \in Chars(str) : n < i /\ Place(str, n) = p
      BY <1>1, <1>2 DEF Scanned
    <2> QED BY <1>2, <1>5, <1>6, <2>1
  <1>12. Scanned'
    BY <1>3, <1>8, <1>9, <1>10, <1>11 DEF Scanned, Max
  <1> QED BY <1>1, <1>3, <1>7, <1>12 DEF PutsOK

\* A character takes the next place.
LEMMA CharKeeps == ASSUME PutsOK, PutChar PROVE PutsOK'
  <1>1. /\ PutsTypes /\ Scanned /\ i <= Len(str) /\ len < DISPLAY_SIZE /\ printing
        /\ ~(str[i] \in Marks /\ len > 0)
    BY DEF PutsOK, PutChar, InText, IsMark
  <1>2. /\ str \in Seq(STRING) /\ Len(str) \in Nat /\ DOMAIN str = 1 .. Len(str)
        /\ i \in 1 .. Len(str) /\ i \in 1 .. Len(str) + 1 /\ i + 1 \in 1 .. Len(str) + 1
        /\ len \in Nat /\ len = Place(str, i)
        /\ Max \in Nat /\ DISPLAY_SIZE = Max + 1
    BY <1>1, TextFacts DEF Scanned, PutsTypes
  <1>3. /\ str' = str /\ i' = i + 1 /\ len' = len + 1 /\ printing' = printing /\ add_dp' = FALSE
        /\ buf' = [buf EXCEPT ![Max - len] = [glyph |-> MappedChar(str[i]), dp |-> add_dp]]
        /\ buf \in [0 .. Max -> Bytes]
    BY <1>1 DEF PutChar, PutsTypes
  <1>4. i \in Chars(str)
    <2>1. CASE len > 0
      BY <1>1, <1>2, <2>1 DEF Chars
    <2>2. CASE len = 0
      <3>1. i # 1 => 1 \in Chars(str) /\ 1 < i
        BY <1>2 DEF Chars
      <3>2. \A j \in Chars(str), k \in 1 .. Len(str) + 1 : j < k => Place(str, j) < Place(str, k)
        BY <1>2, PlaceFacts
      <3>3. i # 1 => Place(str, 1) < Place(str, i)
        BY <1>2, <3>1, <3>2
      <3>4. Place(str, 1) = 0 /\ Place(str, i) = 0
        BY <1>2, <2>2, PlaceFacts
      <3>5. ~(i # 1)
        BY <3>3, <3>4
      <3> QED BY <1>2, <3>5 DEF Chars
    <2> QED BY <1>2, <2>1, <2>2
  <1>5. /\ Place(str, i + 1) = len + 1 /\ Chars(str) \subseteq 1 .. Len(str)
        /\ \A n \in Chars(str) : n < i => Place(str, n) < len /\ Place(str, n) \in Nat
        /\ \A n \in DOMAIN str : n < i => Place(str, n) <= len /\ Place(str, n) \in Nat
    BY <1>2, <1>4, PlaceFacts
  <1>6. /\ \A n \in DOMAIN str : n < i + 1 <=> n < i \/ n = i
    BY <1>2
  <1>7. PutsTypes'
    <2>1. Max - len \in 0 .. Max
      BY <1>1, <1>2
    <2>2. [glyph |-> MappedChar(str[i]), dp |-> add_dp] \in Bytes
      BY <1>1 DEF Bytes, MappedChar, PutsTypes
    <2>3. buf' \in [0 .. Max -> Bytes]
      BY <1>3, <2>1, <2>2
    <2>4. add_dp' \in BOOLEAN /\ printing' \in BOOLEAN
      BY <1>1, <1>3, Zenon DEF PutsTypes
    <2>5. str' \in Texts /\ i' \in 1 .. Len(str') + 1 /\ len' \in 0 .. DISPLAY_SIZE
      BY <1>1, <1>2, <1>3 DEF PutsTypes
    <2> QED BY <2>3, <2>4, <2>5, Zenon DEF PutsTypes, Bytes, Max
  <1>8. Place(str, i + 1) <= len + 1 /\ len + 1 = Place(str, i + 1)
    BY <1>2, <1>5
  <1>9. ~ \E n \in DOMAIN str \ Chars(str) :
             n < i + 1 /\ Place(str, n) = len + 1 /\ str[n] = ":"
    BY <1>2, <1>4, <1>5, <1>6
  <1>10. ASSUME NEW n \in Chars(str), n < i + 1
         PROVE  buf'[Max - Place(str, n)] = [glyph |-> MappedChar(str[n]),
                                             dp |-> LitBefore(str, Place(str, n), i + 1)]
    <2> DEFINE p == Place(str, n)
    <2>1. n \in DOMAIN str /\ (n < i \/ n = i) /\ p \in Nat /\ p <= len /\ (n < i => p < len)
      BY <1>2, <1>5, <1>6, <1>10
    <2>2. Max - p \in 0 .. Max /\ Max - len \in 0 .. Max /\ (p = len <=> Max - p = Max - len)
      BY <1>1, <1>2, <2>1
    <2> HIDE DEF p
    <2>3. LitBefore(str, p, i + 1) <=> LitBefore(str, p, i)
      BY <1>4, <1>6 DEF LitBefore
    <2>4. LitBefore(str, p, i + 1) = LitBefore(str, p, i)
      BY <2>3 DEF LitBefore
    <2>5. CASE n < i
      <3>1. buf[Max - p] = [glyph |-> MappedChar(str[n]), dp |-> LitBefore(str, p, i)]
        BY <1>1, <2>5 DEF Scanned, p
      <3>2. buf'[Max - p] = buf[Max - p]
        BY <1>3, <2>1, <2>2, <2>5
      <3> QED BY <2>4, <3>1, <3>2 DEF p
    <2>6. CASE n = i
      <3>1. p = len
        BY <1>2, <2>6 DEF p
      <3>2. buf'[Max - p] = [glyph |-> MappedChar(str[n]), dp |-> add_dp]
        BY <1>3, <2>2, <2>6, <3>1
      <3>3. add_dp <=> \E m \in DOMAIN str \ Chars(str) :
                          m < i /\ Place(str, m) = len /\ str[m] = ":"
        BY <1>1, <1>2 DEF Scanned
      <3>4. \A m \in DOMAIN str : m < i => Place(str, m) # p + 1
        BY <1>2, <1>5, <3>1
      <3>5. add_dp <=> LitBefore(str, p, i)
        BY <3>1, <3>3, <3>4 DEF LitBefore
      <3>6. add_dp \in BOOLEAN
        BY <1>1 DEF PutsTypes
      <3>7. add_dp = LitBefore(str, p, i)
        BY <3>5, <3>6 DEF LitBefore
      <3> QED BY <2>4, <3>2, <3>7 DEF p
    <2> QED BY <2>1, <2>5, <2>6
  <1>11. ASSUME NEW p \in 0 .. (len + 1) - 1
         PROVE  \E n \in Chars(str) : n < i + 1 /\ Place(str, n) = p
    <2>1. CASE p = len
      BY <1>2, <1>4, <2>1
    <2>2. CASE p # len
      <3>1. p \in 0 .. len - 1 /\ ~(Place(str, i) <= p)
        BY <1>2, <2>2
      <3>2. \E n \in Chars(str) : n < i /\ Place(str, n) = p
        BY <1>1, <3>1 DEF Scanned
      <3> QED BY <1>2, <1>5, <1>6, <3>2
    <2> QED BY <2>1, <2>2
  <1>12. Scanned'
    BY <1>3, <1>8, <1>9, <1>10, <1>11 DEF Scanned, Max
  <1> QED BY <1>1, <1>3, <1>7, <1>12 DEF PutsOK

\* Behind the text's last character the rest is dark.
LEMMA PadKeeps == ASSUME PutsOK, Pad PROVE PutsOK'
  <1>1. /\ PutsTypes /\ Scanned /\ i > Len(str) /\ len < DISPLAY_SIZE /\ printing
    <2>1. PutsTypes /\ Scanned /\ ~(i <= Len(str)) /\ len < DISPLAY_SIZE /\ printing
      BY DEF PutsOK, Pad, InText
    <2> QED BY <2>1, TextFacts
  <1>2. /\ str \in Seq(STRING) /\ Len(str) \in Nat /\ DOMAIN str = 1 .. Len(str)
        /\ i \in 1 .. Len(str) + 1 /\ len \in Nat /\ Place(str, i) \in Nat
        /\ Max \in Nat /\ DISPLAY_SIZE = Max + 1
    BY <1>1, TextFacts DEF PutsTypes
  <1>3. /\ str' = str /\ i' = i /\ len' = len + 1 /\ printing' = printing /\ add_dp' = add_dp
        /\ buf' = [buf EXCEPT ![Max - len] = Dark]
        /\ buf \in [0 .. Max -> Bytes]
    BY <1>1 DEF Pad, PutsTypes
  <1>4. /\ Place(str, i) <= len /\ Chars(str) \subseteq 1 .. Len(str)
        /\ \A n \in Chars(str) : n < i => Place(str, n) < Place(str, i) /\ Place(str, n) \in Nat
    BY <1>1, <1>2, PlaceFacts DEF Scanned
  <1>5. PutsTypes'
    <2>1. Dark \in Bytes
      BY DEF Dark, Bytes
    <2>2. buf' \in [0 .. Max -> Bytes]
      BY <1>1, <1>2, <1>3, <2>1
    <2>3. add_dp' \in BOOLEAN /\ printing' \in BOOLEAN
      BY <1>1, <1>3, Zenon DEF PutsTypes
    <2>4. str' \in Texts /\ i' \in 1 .. Len(str') + 1 /\ len' \in 0 .. DISPLAY_SIZE
      BY <1>1, <1>2, <1>3 DEF PutsTypes
    <2> QED BY <2>2, <2>3, <2>4, Zenon DEF PutsTypes, Bytes, Max
  <1>6. Place(str', i') <= len' /\ ~(i' <= Len(str'))
    BY <1>1, <1>2, <1>3, <1>4
  <1>7. ASSUME NEW n \in Chars(str), n < i
        PROVE  buf'[Max - Place(str, n)] = [glyph |-> MappedChar(str[n]),
                                            dp |-> LitBefore(str, Place(str, n), i)]
    <2> DEFINE p == Place(str, n)
    <2>1. p \in Nat /\ p < len
      BY <1>2, <1>4, <1>7
    <2>2. buf[Max - p] = [glyph |-> MappedChar(str[n]), dp |-> LitBefore(str, p, i)]
      BY <1>1, <1>7 DEF Scanned
    <2> HIDE DEF p
    <2>3. Max - p \in 0 .. Max /\ Max - p # Max - len
      BY <1>1, <1>2, <2>1
    <2>4. buf'[Max - p] = buf[Max - p]
      BY <1>3, <2>3
    <2> QED BY <2>2, <2>4 DEF p
  <1>8. ASSUME NEW p \in 0 .. (len + 1) - 1
        PROVE  \/ \E n \in Chars(str) : n < i /\ Place(str, n) = p
               \/ Place(str, i) <= p /\ buf'[Max - p] = Dark
    <2>1. CASE p = len
      <3>1. Max - p \in 0 .. Max /\ Max - p = Max - len
        BY <1>1, <1>2, <2>1
      <3> QED BY <1>3, <1>4, <2>1, <3>1
    <2>2. CASE p # len
      <3>1. p \in 0 .. len - 1 /\ Max - p \in 0 .. Max /\ Max - p # Max - len
        BY <1>1, <1>2, <2>2
      <3>2. buf'[Max - p] = buf[Max - p]
        BY <1>3, <3>1
      <3> QED BY <1>1, <3>1, <3>2 DEF Scanned
    <2> QED BY <2>1, <2>2
  <1>9. Scanned'
    BY <1>3, <1>6, <1>7, <1>8 DEF Scanned, Max
  <1> QED BY <1>1, <1>3, <1>5, <1>9 DEF PutsOK

\* A full buffer is the text, whatever of the text it has no room for.
LEMMA FullBuffer ==
  ASSUME PutsTypes, Scanned, len = DISPLAY_SIZE, NEW p \in 0 .. Max
  PROVE  buf[Max - p] = Rendered(str)[p]
  <1>1. /\ str \in Seq(STRING) /\ Len(str) \in Nat /\ DOMAIN str = 1 .. Len(str)
        /\ i \in 1 .. Len(str) + 1 /\ Place(str, i) \in Nat
        /\ Max \in Nat /\ DISPLAY_SIZE = Max + 1 /\ p \in Nat /\ p <= Max
        /\ p \in 0 .. len - 1
    BY TextFacts DEF PutsTypes
  <1>2. /\ Chars(str) \subseteq 1 .. Len(str)
        /\ \A n \in DOMAIN str : Place(str, n) \in Nat
        /\ \A n \in Chars(str), k \in 1 .. Len(str) + 1 : n < k => Place(str, n) < Place(str, k)
        /\ \A k, n \in 1 .. Len(str) + 1 : k <= n => Place(str, k) <= Place(str, n)
    BY <1>1, PlaceFacts
  <1>3. \A n \in DOMAIN str : n < i \/ (i <= n /\ i <= Len(str) /\ Max + 1 <= Place(str, n))
    <2> TAKE n \in DOMAIN str
    <2>1. n \in 1 .. Len(str) /\ n \in 1 .. Len(str) + 1
      BY <1>1
    <2>2. CASE i <= n
      <3>1. i <= Len(str) /\ Place(str, i) <= Place(str, n)
        BY <1>1, <1>2, <2>1, <2>2
      <3>2. Place(str, i) = Max + 1
        BY <1>1, <3>1 DEF Scanned
      <3> QED BY <2>2, <3>1, <3>2
    <2> QED BY <1>1, <2>1, <2>2
  <1>4. CASE \E n \in Chars(str) : n < i /\ Place(str, n) = p
    <2>1. PICK n \in Chars(str) : n < i /\ Place(str, n) = p
      BY <1>4
    <2>2. \A m \in Chars(str) : Place(str, m) = p => m = n
      <3> SUFFICES ASSUME NEW m \in Chars(str), Place(str, m) = p, m # n PROVE FALSE
        OBVIOUS
      <3>1. m \in 1 .. Len(str) + 1 /\ n \in 1 .. Len(str) + 1
        BY <1>1, <1>2
      <3>2. m < n \/ n < m
        BY <3>1
      <3>3. Place(str, m) < Place(str, n) \/ Place(str, n) < Place(str, m)
        BY <1>2, <3>1, <3>2
      <3> QED BY <1>1, <2>1, <3>3
    <2>3. n = CHOOSE m \in Chars(str) : Place(str, m) = p
      BY <2>1, <2>2
    <2>4. Rendered(str)[p] = [glyph |-> MappedChar(str[n]), dp |-> Lit(str, p)]
      BY <2>1, <2>3 DEF Rendered
    <2>5. \A m \in DOMAIN str : (Place(str, m) = p \/ (Place(str, m) = p + 1 /\ p < Max)) => m < i
      BY <1>1, <1>2, <1>3
    <2>6. LitBefore(str, p, i) <=> Lit(str, p)
      BY <2>5 DEF LitBefore, Lit
    <2>7. LitBefore(str, p, i) = Lit(str, p)
      BY <2>6 DEF LitBefore, Lit
    <2>8. buf[Max - p] = [glyph |-> MappedChar(str[n]), dp |-> LitBefore(str, p, i)]
      BY <2>1 DEF Scanned
    <2> QED BY <2>4, <2>7, <2>8
  <1>5. CASE ~ \E n \in Chars(str) : n < i /\ Place(str, n) = p
    <2>1. Place(str, i) <= p /\ buf[Max - p] = Dark
      BY <1>1, <1>5 DEF Scanned
    <2>2. ASSUME NEW n \in Chars(str), Place(str, n) = p PROVE FALSE
      <3>1. n \in DOMAIN str /\ ~(n < i)
        BY <1>1, <1>2, <1>5, <2>2
      <3>2. Max + 1 <= Place(str, n)
        BY <1>3, <3>1
      <3> QED BY <1>1, <2>2, <3>2
    <2>3. Rendered(str)[p] = Dark
      BY <2>2 DEF Rendered
    <2> QED BY <2>1, <2>3
  <1> QED BY <1>4, <1>5

LEMMA WriteShowsText == ASSUME PutsOK, DisplayWrite PROVE PutsOK'
  <1>1. /\ PutsTypes /\ Scanned /\ len = DISPLAY_SIZE /\ printing' = FALSE
        /\ str' = str /\ i' = i /\ len' = len /\ add_dp' = add_dp /\ buf' = buf
    BY DEF PutsOK, DisplayWrite
  <1>2. \A p \in 0 .. Max : buf[Max - p] = Rendered(str)[p]
    BY <1>1, FullBuffer
  <1>3. PutsTypes'
    BY <1>1, Zenon DEF PutsTypes, Bytes, Max
  <1>4. \A p \in 0 .. Max' : buf'[Max' - p] = Rendered(str')[p]
    BY <1>1, <1>2, Zenon DEF Max
  <1> QED BY <1>1, <1>3, <1>4, Zenon DEF PutsOK

LEMMA PutsUnmoved == ASSUME PutsOK, UNCHANGED <<putsVars, buf>> PROVE PutsOK'
  <1>1. /\ str' = str /\ i' = i /\ len' = len /\ add_dp' = add_dp /\ printing' = printing
        /\ buf' = buf
    BY DEF putsVars
  <1>2. PutsTypes'
    BY <1>1, Zenon DEF PutsOK, PutsTypes, Bytes, Max
  <1>3. printing => Scanned'
    BY <1>1, Zenon DEF PutsOK, Scanned, Max
  <1>4. ~printing => \A p \in 0 .. Max' : buf'[Max' - p] = Rendered(str')[p]
    BY <1>1, Zenon DEF PutsOK, Max
  <1> QED BY <1>1, <1>2, <1>3, <1>4, Zenon DEF PutsOK

\* The bytes on their way out, and how many have left the shift register since
\* the buffer was taken up from its start.
Held(x) == IF x = None THEN 0 ELSE 1
Gone == bytes - Held(data) - Held(shift)

UsartTypes ==
    /\ bytes \in 0 .. DISPLAY_SIZE /\ dre \in BOOLEAN /\ (dre <=> bytes # DISPLAY_SIZE)
    /\ data \in Bytes \cup {None} /\ shift \in Bytes \cup {None}
    /\ data # None => shift # None
    /\ chain \in Seq(Bytes \cup {Mixture}) /\ Len(chain) = DISPLAY_SIZE

\* Those taken from the buffer since are the buffer's still, each where the
\* shifts have brought it.
InOrder ==
    /\ data # None /\ bytes >= 1 => data = buf[bytes - 1]
    /\ shift # None /\ bytes - Held(data) >= 1 => shift = buf[bytes - Held(data) - 1]
    /\ \A j \in 1 .. DISPLAY_SIZE : Gone >= j => chain[DISPLAY_SIZE + 1 - j] = buf[Gone - j]

\* The display shows less than it was sent only while something is to come.
Latched == shift = None /\ ~txc => latch = chain

DisplayOK == PutsOK /\ UsartTypes /\ Latched /\ (~printing => InOrder)

LEMMA SizeFacts == DISPLAY_SIZE \in Nat \ {0} /\ Max \in Nat /\ DISPLAY_SIZE = Max + 1
  BY DisplayAssumption DEF Max

LEMMA BytesAreSome == \A b \in Bytes : b # None
  BY NoneAssumption DEF Bytes, Blank

LEMMA DisplayBegins == DisplayInit => DisplayOK
  <1> SUFFICES ASSUME DisplayInit PROVE DisplayOK
    OBVIOUS
  <1>1. /\ str = <<>> /\ i = 1 /\ len = 0 /\ add_dp = FALSE /\ printing = FALSE
        /\ buf = [n \in 0 .. Max |-> Dark] /\ bytes = 0 /\ dre = TRUE
        /\ data = None /\ shift = None /\ txc = FALSE
        /\ chain = [n \in 1 .. DISPLAY_SIZE |-> Mixture] /\ latch = chain
    BY DEF DisplayInit
  <1>2. Dark \in Bytes
    BY DEF Dark, Bytes
  <1>3. PutsTypes
    <2>1. buf \in [0 .. Max -> Bytes]
      BY <1>1, <1>2
    <2>2. str \in Texts /\ i \in 1 .. Len(str) + 1 /\ len \in 0 .. DISPLAY_SIZE
      BY <1>1, TextAssumption, SizeFacts
    <2>3. add_dp \in BOOLEAN /\ printing \in BOOLEAN
      BY <1>1, Zenon
    <2> QED BY <2>1, <2>2, <2>3, Zenon DEF PutsTypes
  <1>4. \A p \in 0 .. Max : buf[Max - p] = Rendered(str)[p]
    <2> TAKE p \in 0 .. Max
    <2>1. Max - p \in 0 .. Max
      BY SizeFacts
    <2>2. buf[Max - p] = Dark
      BY <1>1, <2>1
    <2>3. Rendered(str)[p] = Dark
      BY <1>1, <1>3, EmptyText
    <2> QED BY <2>2, <2>3
  <1>5. UsartTypes
    <2>1. chain \in Seq(Bytes \cup {Mixture}) /\ Len(chain) = DISPLAY_SIZE
      BY <1>1, SizeFacts
    <2>2. dre \in BOOLEAN /\ (dre <=> bytes # DISPLAY_SIZE)
      BY <1>1, SizeFacts
    <2> QED BY <1>1, <2>1, <2>2, SizeFacts DEF UsartTypes
  <1>6. InOrder
    BY <1>1, SizeFacts DEF InOrder, Gone, Held
  <1> QED BY <1>1, <1>3, <1>4, <1>5, <1>6 DEF DisplayOK, PutsOK, Latched

\* While display_puts runs nothing is said of what is on its way, and what it
\* writes at its end has yet to leave.
LEMMA PrintingKeeps ==
  ASSUME DisplayOK, PutsSteps \/ \E s \in Texts : Puts(s)
  PROVE  DisplayOK'
  <1>1. PutsOK'
    BY PutsBegins, MarkKeeps, CharKeeps, PadKeeps, WriteShowsText DEF DisplayOK, PutsSteps
  <1>2. CASE UNCHANGED <<bytes, dre, usartVars>> /\ printing' = TRUE
    <2>1. /\ bytes' = bytes /\ dre' = dre /\ data' = data /\ shift' = shift /\ txc' = txc
          /\ chain' = chain /\ latch' = latch
      BY <1>2 DEF usartVars
    <2>2. UsartTypes'
      BY <2>1, Zenon DEF DisplayOK, UsartTypes, Bytes
    <2>3. Latched'
      BY <2>1, Zenon DEF DisplayOK, Latched
    <2> QED BY <1>1, <1>2, <2>2, <2>3 DEF DisplayOK
  <1>3. CASE DisplayWrite
    <2>1. /\ bytes' = 0 /\ dre' = TRUE /\ data' = data /\ shift' = shift /\ txc' = txc
          /\ chain' = chain /\ latch' = latch
      BY <1>3 DEF DisplayWrite, usartVars
    <2>2. UsartTypes'
      <3>1. /\ data' \in Bytes \cup {None} /\ shift' \in Bytes \cup {None}
            /\ data' # None => shift' # None
            /\ chain' \in Seq(Bytes \cup {Mixture}) /\ Len(chain') = DISPLAY_SIZE
        BY <2>1, Zenon DEF DisplayOK, UsartTypes
      <3>2. bytes' \in 0 .. DISPLAY_SIZE /\ dre' \in BOOLEAN /\ (dre' <=> bytes' # DISPLAY_SIZE)
        BY <2>1, SizeFacts
      <3> QED BY <3>1, <3>2, Zenon DEF UsartTypes, Bytes
    <2>3. Latched'
      BY <2>1, Zenon DEF DisplayOK, Latched
    <2>4. InOrder'
      <3>1. ~(bytes' >= 1) /\ ~(bytes' - Held(data') >= 1) /\ Gone' <= 0
        BY <2>1 DEF Gone, Held
      <3>2. \A j \in 1 .. DISPLAY_SIZE' : ~(Gone' >= j)
        BY <2>1, SizeFacts DEF Gone, Held
      <3> QED BY <3>1, <3>2 DEF InOrder, Held
    <2> QED BY <1>1, <2>2, <2>3, <2>4 DEF DisplayOK
  <1>4. \/ UNCHANGED <<bytes, dre, usartVars>> /\ printing' = TRUE
        \/ DisplayWrite
    BY DEF PutsSteps, Puts, PutMark, PutChar, Pad, InText
  <1> QED BY <1>2, <1>3, <1>4

\* A byte more is taken, and none has gone.
LEMMA DreKeeps == ASSUME DisplayOK, DreInterrupt PROVE DisplayOK'
  <1>1. /\ dre /\ data = None /\ bytes' = bytes + 1 /\ (dre' <=> bytes' # DISPLAY_SIZE)
        /\ dre' \in BOOLEAN
        /\ txc' = txc /\ chain' = chain /\ latch' = latch /\ buf' = buf /\ printing' = printing
        /\ UNCHANGED <<putsVars, buf>>
    BY DEF DreInterrupt, DreDue, putsVars
  <1>2. /\ bytes \in Nat /\ bytes < DISPLAY_SIZE /\ bytes \in 0 .. Max
        /\ buf \in [0 .. Max -> Bytes] /\ buf[bytes] \in Bytes /\ buf[bytes] # None
    <2>1. bytes \in 0 .. DISPLAY_SIZE /\ bytes # DISPLAY_SIZE /\ buf \in [0 .. Max -> Bytes]
      BY <1>1 DEF DisplayOK, UsartTypes, PutsOK, PutsTypes
    <2>2. bytes \in 0 .. Max /\ bytes \in Nat /\ bytes < DISPLAY_SIZE
      BY <2>1, SizeFacts
    <2> QED BY <2>1, <2>2, BytesAreSome
  <1>3. PutsOK'
    BY <1>1, PutsUnmoved DEF DisplayOK
  <1>4. \/ shift = None /\ shift' = buf[bytes] /\ data' = None
        \/ shift # None /\ shift' = shift /\ data' = buf[bytes]
    BY <1>1 DEF DreInterrupt
  <1>5. UsartTypes'
    <2>1. bytes' \in 0 .. DISPLAY_SIZE
      BY <1>1, <1>2, SizeFacts
    <2>2. /\ data' \in Bytes \cup {None} /\ shift' \in Bytes \cup {None}
          /\ data' # None => shift' # None
      BY <1>2, <1>4 DEF DisplayOK, UsartTypes
    <2>3. chain' \in Seq(Bytes \cup {Mixture}) /\ Len(chain') = DISPLAY_SIZE
      BY <1>1, Zenon DEF DisplayOK, UsartTypes
    <2> QED BY <1>1, <2>1, <2>2, <2>3, Zenon DEF UsartTypes, Bytes
  <1>6. Latched'
    BY <1>2, <1>4 DEF Latched
  <1>7. ASSUME ~printing PROVE InOrder'
    <2>1. InOrder
      BY <1>7 DEF DisplayOK
    <2>2. Gone \in Int /\ Gone' = Gone
      BY <1>1, <1>2, <1>4 DEF Gone, Held
    <2>3. \A j \in 1 .. DISPLAY_SIZE : Gone' >= j => chain'[DISPLAY_SIZE + 1 - j] = buf'[Gone' - j]
      BY <1>1, <2>1, <2>2, Zenon DEF InOrder
    <2>4. data' # None /\ bytes' >= 1 => data' = buf'[bytes' - 1]
      BY <1>1, <1>2, <1>4
    <2>5. shift' # None /\ bytes' - Held(data') >= 1 => shift' = buf'[bytes' - Held(data') - 1]
      <3>1. CASE shift = None
        <4>1. Held(data') = 0 /\ bytes' - 0 - 1 = bytes
          BY <1>1, <1>2, <1>4, <3>1 DEF Held
        <4> QED BY <1>1, <1>4, <3>1, <4>1
      <3>2. CASE shift # None
        <4>1. /\ Held(data') = 1 /\ Held(data) = 0 /\ bytes' - 1 = bytes - 0
              /\ bytes' - 1 - 1 = bytes - 0 - 1
          BY <1>1, <1>2, <1>4, <3>2 DEF Held
        <4>2. bytes - 0 >= 1 => shift = buf[bytes - 0 - 1]
          BY <2>1, <3>2, <4>1 DEF InOrder
        <4> QED BY <1>1, <1>4, <3>2, <4>1, <4>2
      <3> QED BY <3>1, <3>2
    <2> QED BY <2>3, <2>4, <2>5, Zenon DEF InOrder, Held
  <1> QED BY <1>1, <1>3, <1>5, <1>6, <1>7 DEF DisplayOK

LEMMA TxcKeeps == ASSUME DisplayOK, TxcInterrupt PROVE DisplayOK'
  <1>1. /\ txc' = FALSE /\ bytes' = bytes /\ dre' = dre /\ data' = data /\ shift' = shift
        /\ chain' = chain /\ buf' = buf /\ printing' = printing
        /\ shift = None => latch' = chain
        /\ UNCHANGED <<putsVars, buf>>
    BY DEF TxcInterrupt, putsVars
  <1>2. PutsOK'
    BY <1>1, PutsUnmoved DEF DisplayOK
  <1>3. UsartTypes'
    BY <1>1, Zenon DEF DisplayOK, UsartTypes, Bytes
  <1>4. Latched'
    BY <1>1 DEF Latched
  <1>5. ASSUME ~printing PROVE InOrder'
    <2>1. InOrder
      BY <1>5 DEF DisplayOK
    <2>2. Gone' = Gone
      BY <1>1 DEF Gone, Held
    <2>3. /\ data' # None /\ bytes' >= 1 => data' = buf'[bytes' - 1]
          /\ shift' # None /\ bytes' - Held(data') >= 1
                => shift' = buf'[bytes' - Held(data') - 1]
      BY <1>1, <2>1, Zenon DEF InOrder
    <2>4. \A j \in 1 .. DISPLAY_SIZE : Gone' >= j => chain'[DISPLAY_SIZE + 1 - j] = buf'[Gone' - j]
      BY <1>1, <2>1, <2>2, Zenon DEF InOrder
    <2> QED BY <2>3, <2>4, Zenon DEF InOrder, Held
  <1> QED BY <1>1, <1>2, <1>3, <1>4, <1>5 DEF DisplayOK

\* The chain moves by the byte that goes, and those behind it come up.
LEMMA ShiftKeeps == ASSUME DisplayOK, Shifted PROVE DisplayOK'
  <1>1. /\ shift # None /\ chain' = Append(Tail(chain), shift) /\ shift' = data /\ data' = None
        /\ bytes' = bytes /\ dre' = dre /\ buf' = buf /\ printing' = printing
        /\ data = None => txc'
        /\ UNCHANGED <<putsVars, buf>>
    BY DEF Shifted, putsVars
  <1>2. PutsOK'
    BY <1>1, PutsUnmoved DEF DisplayOK
  <1>3. /\ shift \in Bytes \cup {Mixture} /\ chain \in Seq(Bytes \cup {Mixture})
        /\ Len(chain) = DISPLAY_SIZE /\ chain # <<>> /\ bytes \in Nat /\ DISPLAY_SIZE \in Nat \ {0}
    <2>1. shift \in Bytes /\ chain \in Seq(Bytes \cup {Mixture}) /\ Len(chain) = DISPLAY_SIZE
      BY <1>1 DEF DisplayOK, UsartTypes
    <2>2. bytes \in Nat /\ DISPLAY_SIZE \in Nat \ {0}
      BY SizeFacts DEF DisplayOK, UsartTypes
    <2> QED BY <2>1, <2>2
  <1>4. /\ chain' \in Seq(Bytes \cup {Mixture}) /\ Len(chain') = DISPLAY_SIZE
        /\ chain'[DISPLAY_SIZE] = shift
        /\ \A n \in 1 .. DISPLAY_SIZE - 1 : chain'[n] = chain[n + 1]
    <2> DEFINE W == Bytes \cup {Mixture}
    <2>1. shift \in W /\ chain \in Seq(W)
      BY <1>3
    <2> HIDE DEF W
    <2>2. /\ Tail(chain) \in Seq(W) /\ Len(Tail(chain)) = DISPLAY_SIZE - 1
          /\ \A n \in 1 .. DISPLAY_SIZE - 1 : Tail(chain)[n] = chain[n + 1]
      BY <1>3, <2>1, HeadTailProperties
    <2>3. /\ Append(Tail(chain), shift) \in Seq(W)
          /\ Len(Append(Tail(chain), shift)) = (DISPLAY_SIZE - 1) + 1
          /\ Append(Tail(chain), shift)[(DISPLAY_SIZE - 1) + 1] = shift
          /\ \A n \in 1 .. DISPLAY_SIZE - 1 : Append(Tail(chain), shift)[n] = Tail(chain)[n]
      BY <2>1, <2>2, AppendProperties
    <2>4. (DISPLAY_SIZE - 1) + 1 = DISPLAY_SIZE
      BY <1>3
    <2> QED BY <1>1, <2>2, <2>3, <2>4 DEF W
  <1>5. UsartTypes'
    <2>1. data' \in Bytes \cup {None} /\ shift' \in Bytes \cup {None} /\ data' = None
      BY <1>1 DEF DisplayOK, UsartTypes
    <2>2. bytes' \in 0 .. DISPLAY_SIZE /\ dre' \in BOOLEAN /\ (dre' <=> bytes' # DISPLAY_SIZE)
      BY <1>1, Zenon DEF DisplayOK, UsartTypes
    <2> QED BY <1>4, <2>1, <2>2, Zenon DEF UsartTypes, Bytes
  <1>6. Latched'
    BY <1>1 DEF Latched
  <1>7. ASSUME ~printing PROVE InOrder'
    <2>1. InOrder
      BY <1>7 DEF DisplayOK
    <2>2. /\ Held(shift) = 1 /\ Held(data') = 0 /\ Held(shift') = Held(data) /\ Held(data) \in {0, 1}
          /\ Gone = bytes - Held(data) - 1 /\ Gone' = bytes - Held(data)
      <3>1. /\ Held(shift) = 1 /\ Held(data') = 0 /\ Held(shift') = Held(data)
            /\ Held(data) \in {0, 1}
        BY <1>1 DEF Held
      <3>2. Gone' = bytes - 0 - Held(data)
        BY <1>1, <3>1 DEF Gone
      <3> QED BY <1>3, <3>1, <3>2 DEF Gone
    <2> DEFINE g == Gone
    <2>3. g \in Int /\ Gone' = g + 1 /\ g = bytes - Held(data) - 1 /\ bytes - Held(data) = g + 1
      BY <1>3, <2>2
    <2>4. \A j \in 1 .. DISPLAY_SIZE : g >= j => chain[DISPLAY_SIZE + 1 - j] = buf[g - j]
      BY <2>1 DEF InOrder
    <2>5. g + 1 >= 1 => shift = buf[g]
      BY <1>1, <2>1, <2>3 DEF InOrder
    <2>6. data # None /\ bytes >= 1 => data = buf[bytes - 1]
      BY <2>1 DEF InOrder
    <2> HIDE DEF g
    <2>7. ASSUME NEW j \in 1 .. DISPLAY_SIZE, Gone' >= j
          PROVE  chain'[DISPLAY_SIZE + 1 - j] = buf'[Gone' - j]
      <3>1. CASE j = 1
        <4>1. DISPLAY_SIZE + 1 - j = DISPLAY_SIZE /\ Gone' - j = g /\ g + 1 >= 1
          BY <1>3, <2>3, <2>7, <3>1
        <4> QED BY <1>1, <1>4, <2>5, <4>1
      <3>2. CASE j # 1
        <4>1. /\ j - 1 \in 1 .. DISPLAY_SIZE /\ g >= j - 1 /\ Gone' - j = g - (j - 1)
              /\ DISPLAY_SIZE + 1 - j \in 1 .. DISPLAY_SIZE - 1
              /\ (DISPLAY_SIZE + 1 - j) + 1 = DISPLAY_SIZE + 1 - (j - 1)
          BY <1>3, <2>3, <2>7, <3>2
        <4>2. chain'[DISPLAY_SIZE + 1 - j] = chain[DISPLAY_SIZE + 1 - (j - 1)]
          BY <1>4, <4>1
        <4>3. chain[DISPLAY_SIZE + 1 - (j - 1)] = buf[g - (j - 1)]
          BY <2>4, <4>1
        <4> QED BY <1>1, <4>1, <4>2, <4>3
      <3> QED BY <3>1, <3>2
    <2>8. shift' # None /\ bytes' - Held(data') >= 1 => shift' = buf'[bytes' - Held(data') - 1]
      <3>1. bytes' - Held(data') = bytes
        BY <1>1, <1>3, <2>2
      <3> QED BY <1>1, <2>6, <3>1
    <2>9. data' = None
      BY <1>1
    <2> QED BY <2>7, <2>8, <2>9, Zenon DEF InOrder
  <1> QED BY <1>1, <1>2, <1>5, <1>6, <1>7 DEF DisplayOK

-----------------------------------------------------------------------------
\* No byte is held back, none is on its way and none has yet to be latched.
Quiet == ~printing /\ ~dre /\ shift = None /\ ~txc

LEMMA QuietShows == DisplayOK /\ Quiet => Shows(str)
  <1> SUFFICES ASSUME DisplayOK, Quiet, NEW p \in 0 .. Max
               PROVE  latch[DISPLAY_SIZE - p] = Rendered(str)[p]
    BY DEF Shows
  <1>1. /\ buf[Max - p] = Rendered(str)[p] /\ bytes = DISPLAY_SIZE /\ InOrder
        /\ latch = chain /\ data = None /\ shift = None
    BY DEF DisplayOK, PutsOK, UsartTypes, Latched, Quiet
  <1>2. Gone = DISPLAY_SIZE
    BY <1>1, SizeFacts DEF Gone, Held
  <1> DEFINE j == p + 1
  <1>3. /\ j \in 1 .. DISPLAY_SIZE /\ Gone >= j /\ DISPLAY_SIZE + 1 - j = DISPLAY_SIZE - p
        /\ Gone - j = Max - p
    BY <1>2, SizeFacts
  <1> HIDE DEF j
  <1>4. chain[DISPLAY_SIZE + 1 - j] = buf[Gone - j]
    BY <1>1, <1>3 DEF InOrder
  <1> QED BY <1>1, <1>3, <1>4

LEMMA DisplayOKHolds == DisplayInit /\ [][DisplayNext]_displayVars => []DisplayOK
  <1>1. DisplayInit => DisplayOK
    BY DisplayBegins
  <1>2. DisplayOK /\ [DisplayNext]_displayVars => DisplayOK'
    <2> SUFFICES ASSUME DisplayOK, [DisplayNext]_displayVars PROVE DisplayOK'
      OBVIOUS
    <2>1. CASE UNCHANGED displayVars
      <3>1. UNCHANGED <<putsVars, buf>> /\ UNCHANGED <<bytes, dre, usartVars>>
        BY <2>1 DEF displayVars
      <3>2. /\ bytes' = bytes /\ dre' = dre /\ data' = data /\ shift' = shift /\ txc' = txc
            /\ chain' = chain /\ latch' = latch /\ buf' = buf /\ printing' = printing
        BY <3>1 DEF usartVars, putsVars
      <3>3. PutsOK'
        BY <3>1, PutsUnmoved DEF DisplayOK
      <3>4. UsartTypes'
        BY <3>2, Zenon DEF DisplayOK, UsartTypes, Bytes
      <3>5. Latched'
        BY <3>2, Zenon DEF DisplayOK, Latched
      <3>6. Gone' = Gone
        BY <3>2 DEF Gone, Held
      <3>7. printing' \/ InOrder'
        BY <3>2, <3>6, Zenon DEF DisplayOK, InOrder, Held
      <3> QED BY <3>3, <3>4, <3>5, <3>7 DEF DisplayOK
    <2>2. CASE DisplayNext
      BY <2>2, PrintingKeeps, DreKeeps, TxcKeeps, ShiftKeeps DEF DisplayNext
    <2> QED BY <2>1, <2>2
  <1> QED BY <1>1, <1>2, PTL

LEMMA DisplayRuns == Spec => DisplayInit /\ [][DisplayNext]_displayVars
  <1>1. Init => DisplayInit
    BY DEF Init
  <1>2. [Next]_outputVars => [DisplayNext]_displayVars
    BY DEF Next, outputVars, ControlCalled, RelayCalled, DisplayCalled, DebugCalled,
       RelayGoesOn, DisplayGoesOn, DebugGoesOn, DisplayNext
  <1> QED BY <1>1, <1>2, PTL DEF Spec

\* Whatever the interrupts of the text before were about when display_puts
\* rewrote the buffer, once all is sent and latched the display shows the text,
\* and not a byte of another (display.c:56-96, 161-168).
THEOREM QuietShowsText == Spec => [](Quiet => Shows(str))
  <1>1. DisplayOK => (Quiet => Shows(str))
    BY QuietShows
  <1> QED BY <1>1, DisplayOKHolds, DisplayRuns, PTL
=============================================================================
