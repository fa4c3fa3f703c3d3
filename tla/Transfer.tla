------------------------------ MODULE Transfer ------------------------------
(***************************************************************************)
(* What a client of twi_master may rely on when it blocks for a transfer.  *)
(* The transfer ends; the command it wrote was taken by the device any     *)
(* number of times up to the attempts made, also never; the byte it was to *)
(* read is stored only after that, or not at all.  The client is not told. *)
(***************************************************************************)
EXTENDS Integers

CONSTANT MaxRetries   \* TWI_MASTER_MAX_RETRIES

ASSUME RetryAssumption == MaxRetries \in Nat

VARIABLES active,    \* a transfer is under way
          reading,   \* it is to read a byte after its command
          taken,     \* how often the device has taken the command
          stored     \* the byte read was stored

transferVars == <<active, reading, taken, stored>>

TransferInit == active = FALSE /\ reading = FALSE /\ taken = 0 /\ stored = FALSE

Begin(r) == /\ ~active /\ active' = TRUE
            /\ reading' = r /\ taken' = 0 /\ stored' = FALSE

Take == /\ active /\ taken <= MaxRetries
        /\ taken' = taken + 1
        /\ UNCHANGED <<active, reading, stored>>

Complete == /\ active /\ active' = FALSE
            /\ stored' \in {FALSE, reading /\ taken > 0}
            /\ taken' = 0
            /\ UNCHANGED reading

TransferNext == (\E r \in BOOLEAN : Begin(r)) \/ Take \/ Complete

TransferSpec ==
    TransferInit /\ [][TransferNext]_transferVars /\ WF_transferVars(Complete)
=============================================================================
