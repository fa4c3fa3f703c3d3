------------------------------ MODULE Outputs -------------------------------
(***************************************************************************)
(* What yogurt_run_lower drives once a second: the control's arithmetic,   *)
(* the relay, the display and, in DEBUG builds, the debug port.  Each is a *)
(* module of its own and none shares a variable with another, so what main *)
(* asks of one says nothing of the others: in a behaviour it calls one of  *)
(* them, of its choice, while the hardware of all goes on.                 *)
(***************************************************************************)
EXTENDS Pid, Relay, Display, DebugPort

VARIABLE called  \* the one that main_thread calls

outputVars == <<called, pidVars, relayVars, displayVars, debugVars>>

Init == /\ PidInit /\ RelayInit /\ DisplayInit /\ DebugInit
        /\ called \in {"pid", "relay", "display", "debug"}

ControlCalled == /\ called = "pid" /\ PidNext
                 /\ UNCHANGED <<called, relayVars, displayVars, debugVars>>

RelayCalled == /\ called = "relay"
               /\ \E l \in Levels : SsrLevel(l)
               /\ UNCHANGED <<called, pidVars, displayVars, debugVars>>

DisplayCalled == /\ called = "display"
                 /\ \E s \in Texts : Puts(s)
                 /\ UNCHANGED <<called, pidVars, relayVars, debugVars>>

DebugCalled == /\ called = "debug" /\ DebugWrite
               /\ UNCHANGED <<called, pidVars, relayVars, displayVars>>

RelayGoesOn(A) == A /\ UNCHANGED <<called, pidVars, displayVars, debugVars>>
DisplayGoesOn(A) == A /\ UNCHANGED <<called, pidVars, relayVars, debugVars>>
DebugGoesOn(A) == A /\ UNCHANGED <<called, pidVars, relayVars, displayVars>>

Next ==
    \/ ControlCalled \/ RelayCalled \/ DisplayCalled \/ DebugCalled
    \/ RelayGoesOn(StoreLevel \/ CompareInterrupt \/ CountUp)
    \/ DisplayGoesOn(PutsSteps \/ DreInterrupt \/ TxcInterrupt \/ Shifted)
    \/ DebugGoesOn(Offered \/ Started \/ SendInterrupt)

\* The fairness of each part.
Spec ==
    /\ Init /\ [][Next]_outputVars
    /\ WF_outputVars(RelayGoesOn(StoreLevel))
    /\ WF_outputVars(RelayGoesOn(CompareInterrupt))
    /\ WF_outputVars(RelayGoesOn(CountUp))
    /\ WF_outputVars(DisplayGoesOn(PutsSteps))
    /\ WF_outputVars(DisplayGoesOn(Shifted))
    /\ WF_outputVars(DisplayGoesOn(DreInterrupt \/ TxcInterrupt))
    /\ WF_outputVars(DebugGoesOn(Offered \/ Started))
    /\ WF_outputVars(DebugGoesOn(SendInterrupt))
=============================================================================
