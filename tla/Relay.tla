------------------------------- MODULE Relay --------------------------------
(***************************************************************************)
(* ssr.c: main_thread stores the relay's level in a variable of two bytes, *)
(* which the compare interrupt of the timer that makes the pulses copies   *)
(* to the compare register.  The relay is on from the counter's zero to    *)
(* the match.                                                              *)
(***************************************************************************)
EXTENDS Integers

CONSTANTS Levels,         \* arguments of ssr_level
          Per,            \* TCC0.PER, SSR_MAX_LEVEL
          Half            \* 2^8: values of the lower byte of a word

ASSUME LevelAssumption == /\ Half \in Nat \ {0, 1}
                          /\ Per \in 1 .. Half * Half - 1
                          /\ Levels \subseteq {l \in Int : l <= Per}

VARIABLES
    level,          \* level, as the bytes in memory make it
    lvl, storing,   \* ssr_level's argument; the bytes still to be stored
    cnt, ccc,       \* TCC0.CNT and CCC
    clocked,        \* CTRLA: the counter runs
    inten, intif    \* the compare interrupt's enable, with CCCEN, and flag

timerRegs == <<cnt, ccc, clocked, inten, intif>>
relayVars == <<level, lvl, storing, timerRegs>>

\* ssr_init.
RelayInit == /\ level = 0 /\ lvl = 0 /\ storing = {}
             /\ cnt = 0 /\ ccc = 0
             /\ clocked = FALSE /\ inten = FALSE /\ intif = FALSE

-----------------------------------------------------------------------------
High(word) == word \div Half
Low(word) == word % Half
Stored(byte) == IF byte = "high" THEN High(lvl) * Half + Low(level)
                                 ELSE High(level) * Half + Low(lvl)

\* ssr_off: an interrupt that is due may still copy the level or what the first
\* store of zero has left of it; then CCC keeps its value.
SwitchOff == /\ level' = 0
             /\ cnt' = 0 /\ clocked' = FALSE /\ inten' = FALSE
             /\ \/ UNCHANGED <<ccc, intif>>
                \/ /\ inten /\ intif /\ intif' = FALSE
                   /\ ccc' \in {level, High(level) * Half, Low(level), 0}

\* ssr_level, whose calls with zero stand for those of ssr_off too.
SsrLevel(l) == /\ storing = {} /\ lvl' = l
               /\ \/ l <= 0 /\ SwitchOff /\ UNCHANGED storing
                  \/ l > 0 /\ storing' = {"low", "high"} /\ UNCHANGED <<level, timerRegs>>

StoreByte(byte) == /\ byte \in storing /\ storing' = storing \ {byte}
                   /\ level' = Stored(byte)
                   /\ UNCHANGED <<lvl, timerRegs>>

\* Slip: the compare interrupt is not enabled.
SwitchOnSilently == /\ clocked' = TRUE
                    /\ UNCHANGED <<cnt, ccc, inten, intif>>

SwitchOn == /\ clocked' = TRUE /\ inten' = TRUE
            /\ UNCHANGED <<cnt, ccc, intif>>

\* The second byte, and the registers behind it.
StoreLast(byte) == /\ storing = {byte} /\ storing' = {}
                   /\ level' = Stored(byte)
                   /\ SwitchOn
                   /\ UNCHANGED lvl

StoreLevel == \E byte \in storing : \/ storing # {byte} /\ StoreByte(byte)
                                    \/ StoreLast(byte)

\* TCC0_CCC_vect.
CompareInterrupt == /\ inten /\ intif
                    /\ intif' = FALSE
                    /\ ccc' = level
                    /\ UNCHANGED <<level, lvl, storing, cnt, clocked, inten>>

\* The counter, from zero to PER.
CountUp == /\ clocked
           /\ cnt' = IF cnt = Per THEN 0 ELSE cnt + 1
           /\ intif' = (intif \/ cnt' = ccc)
           /\ UNCHANGED <<level, lvl, storing, ccc, clocked, inten>>

RelayNext == \/ \E l \in Levels : SsrLevel(l)
             \/ StoreLevel \/ CompareInterrupt \/ CountUp

\* main_thread goes on, the interrupt is taken, the counter counts.
RelaySpec == /\ RelayInit /\ [][RelayNext]_relayVars
             /\ WF_relayVars(StoreLevel) /\ WF_relayVars(CompareInterrupt)
             /\ WF_relayVars(CountUp)

-----------------------------------------------------------------------------
\* A level that the control keeps asking for becomes the width of the pulses,
\* also after an interrupt between the stores of its two bytes has set another;
\* unless that one lies beyond the counter's range: then there is no match and
\* no interrupt any more, and the relay stays on whatever level follows.
RelayFollows ==
    [](ccc <= Per) =>
        \A l \in Levels : <>[](lvl = l) =>
            <>[](IF l <= 0 THEN ~clocked ELSE clocked /\ ccc = l)
=============================================================================
