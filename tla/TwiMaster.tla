----------------------------- MODULE TwiMaster ------------------------------
(***************************************************************************)
(* twi_master.c with a blocking client: the two-wire bus raises a flag for *)
(* every byte, twi_master_isr advances, retries or ends the transfer and   *)
(* wakes the client through its resume callback.                           *)
(*                                                                         *)
(* The bus and the device on it are external: a byte is acknowledged or    *)
(* not, and arbitration may be lost at any byte, whether or not the device *)
(* has taken it.  A restart is issued at once, the hardware waits for the  *)
(* bus to be idle.                                                         *)
(***************************************************************************)
EXTENDS Integers

CONSTANTS MaxRetries,   \* TWI_MASTER_MAX_RETRIES
          Transfers     \* the clients' transfers, records [tx, rx]

ASSUME RetryAssumption == MaxRetries \in Nat
ASSUME TransferAssumption == \A t \in Transfers : t.tx \in Nat \ {0} /\ t.rx \in Nat

VARIABLES
    txbytes, rxbytes,   \* dev->txbytes, dev->rxbytes
    bytes, retries,     \* dev->bytes, dev->retries
    bus,                \* what is on the wires, or "idle"
    flag,               \* the flags the interrupt will find, or "none"
    resumes,            \* resumes posted that the client has not followed
    reply,              \* bytes of the transfer stored in rxbuf
    taken               \* history: how often the device took the whole command

devVars == <<txbytes, rxbytes, bytes, retries>>
vars == <<devVars, bus, flag, resumes, reply, taken>>

\* twi_master_init; the client has been started once.
Init == /\ txbytes = 0 /\ rxbytes = 0 /\ bytes = 0 /\ retries = 0
        /\ bus = "idle" /\ flag = "none"
        /\ resumes = 1 /\ reply = 0 /\ taken = 0

-----------------------------------------------------------------------------
\* twi_master_write_read: twi_master_start_txn, then block().
WriteRead(t) == /\ resumes > 0 /\ resumes' = resumes - 1
                /\ txbytes' = t.tx /\ rxbytes' = t.rx
                /\ bytes' = 0 /\ retries' = 0
                /\ bus' = "addr" /\ flag' = "none"
                /\ reply' = 0 /\ taken' = 0

-----------------------------------------------------------------------------
\* The bus.  The device has the whole command with its last byte.
OnBus == bus # "idle" /\ flag = "none"
LastByte == bus = "data" /\ bytes = txbytes

Acknowledged == /\ OnBus /\ bus \in {"addr", "data"}
                /\ flag' = "WIF"
                /\ taken' = IF LastByte THEN taken + 1 ELSE taken
                /\ UNCHANGED <<devVars, bus, resumes, reply>>

Received == /\ OnBus /\ bus = "read"
            /\ flag' = "RIF"
            /\ UNCHANGED <<devVars, bus, resumes, reply, taken>>

NotAcknowledged == /\ OnBus
                   /\ flag' = "NAK"
                   /\ UNCHANGED <<devVars, bus, resumes, reply, taken>>

ArbitrationLost == /\ OnBus
                   /\ flag' = "ARBLOST"
                   /\ taken' \in {taken, IF LastByte THEN taken + 1 ELSE taken}
                   /\ UNCHANGED <<devVars, bus, resumes, reply>>

\* None of the flags the handler knows.
Spurious == /\ OnBus
            /\ flag' = "other"
            /\ UNCHANGED <<devVars, bus, resumes, reply, taken>>

Bus == Acknowledged \/ Received \/ NotAcknowledged \/ ArbitrationLost \/ Spurious

-----------------------------------------------------------------------------
\* twi_master_isr: every path takes the flag.  twi_master_txn_complete calls
\* resume and drops the status.
Flag(f) == flag = f /\ flag' = "none"

Complete == bus' = "idle" /\ resumes' = resumes + 1

\* Slip: the retry that fails is not counted.
RetryUncounted == /\ retries < MaxRetries
                  /\ bytes' = 0 /\ bus' = "addr"
                  /\ UNCHANGED <<retries, resumes>>

\* Slip: one retry more than the limit.
RetryOneMore == /\ retries <= MaxRetries
                /\ retries' = retries + 1
                /\ bytes' = 0 /\ bus' = "addr"
                /\ UNCHANGED resumes

Retry == /\ retries < MaxRetries
         /\ retries' = retries + 1
         /\ bytes' = 0 /\ bus' = "addr"
         /\ UNCHANGED resumes

GiveUp == /\ retries >= MaxRetries
          /\ retries' = retries + 1
          /\ Complete
          /\ UNCHANGED bytes

\* Lines 82 to 97 and 127 to 137.
Failed == /\ Flag("ARBLOST") \/ Flag("NAK")
          /\ Retry \/ GiveUp
          /\ UNCHANGED <<txbytes, rxbytes, reply, taken>>

\* twi_master_write_handler on an acknowledge.
SendByte == /\ Flag("WIF") /\ bytes < txbytes
            /\ bytes' = bytes + 1
            /\ bus' = "data"
            /\ UNCHANGED <<txbytes, rxbytes, retries, resumes, reply, taken>>

\* Slip: the count of bytes written goes on for the bytes read.
RepeatedStartUncleared ==
    /\ Flag("WIF") /\ bytes = txbytes /\ rxbytes > 0
    /\ bus' = "read"
    /\ UNCHANGED <<devVars, resumes, reply, taken>>

RepeatedStart == /\ Flag("WIF") /\ bytes = txbytes /\ rxbytes > 0
                 /\ bytes' = 0
                 /\ bus' = "read"
                 /\ UNCHANGED <<txbytes, rxbytes, retries, resumes, reply, taken>>

\* Slip: a transfer that only writes is not completed.
WriteDoneSilently == /\ Flag("WIF") /\ bytes = txbytes /\ rxbytes = 0
                     /\ bus' = "idle"
                     /\ UNCHANGED <<devVars, resumes, reply, taken>>

WriteDone == /\ Flag("WIF") /\ bytes = txbytes /\ rxbytes = 0
             /\ Complete
             /\ UNCHANGED <<devVars, reply, taken>>

\* twi_master_read_handler.
ReadByte == /\ Flag("RIF")
            /\ bytes' = bytes + 1 /\ reply' = bytes + 1
            /\ IF bytes + 1 < rxbytes THEN UNCHANGED <<bus, resumes>> ELSE Complete
            /\ UNCHANGED <<txbytes, rxbytes, retries, taken>>

\* Lines 102 to 105.
Unknown == /\ Flag("other")
           /\ Complete
           /\ UNCHANGED <<devVars, reply, taken>>

Isr == Failed \/ SendByte \/ RepeatedStart \/ WriteDone \/ ReadByte \/ Unknown

Next == (\E t \in Transfers : WriteRead(t)) \/ Bus \/ Isr

\* Every byte on the bus comes to some flag, every flag to its interrupt.
Spec == Init /\ [][Next]_vars /\ WF_vars(Bus) /\ WF_vars(Isr)

-----------------------------------------------------------------------------
\* Type correctness of the device structure, the bus and the flags.
TypeOK ==
    /\ txbytes \in Nat /\ rxbytes \in Nat /\ bytes \in Nat /\ reply \in Nat
    /\ retries \in 0 .. MaxRetries + 1
    /\ bus \in {"idle", "addr", "data", "read"}
    /\ flag \in {"none", "WIF", "RIF", "NAK", "ARBLOST", "other"}
    /\ resumes \in Nat /\ taken \in Nat

\* The client is blocked with a transfer or has one resume to follow: with none
\* it would sleep for ever, with two it would go on during a later transfer.
OneResume == resumes = (IF bus = "idle" THEN 1 ELSE 0)

\* rxbuf is filled to its length and no further, and only after the device has
\* taken the command.
ReplyFits == /\ reply <= rxbytes
             /\ bus = "read" \/ reply > 0 => taken > 0

Client == INSTANCE Transfer WITH active <- bus # "idle", reading <- rxbytes > 0,
                                 taken <- IF bus = "idle" THEN 0 ELSE taken,
                                 stored <- bus = "idle" /\ reply > 0

\* twi_master keeps the promise of Transfer to a client that blocks: whatever
\* the bus does, each transfer ends, and once.
ImplementsTransfer == Client!TransferSpec
=============================================================================
