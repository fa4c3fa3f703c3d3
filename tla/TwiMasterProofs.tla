-------------------------- MODULE TwiMasterProofs --------------------------
(***************************************************************************)
(* Proofs about TwiMaster: the client is woken once for each transfer, the *)
(* reply fits its buffer, every step is one that Transfer allows, and the  *)
(* interrupts of a transfer are bounded, whatever fails.                   *)
(***************************************************************************)
EXTENDS TwiMaster, TLAPS

\* What the phase on the bus says of the counts.
Phases ==
    /\ bus = "idle" => flag = "none"
    /\ bus # "idle" => retries <= MaxRetries /\ txbytes > 0
    /\ bus = "addr" => bytes = 0 /\ flag # "RIF"
    /\ bus = "data" => bytes <= txbytes /\ flag # "RIF"
    /\ bus = "read" => bytes < rxbytes /\ flag # "WIF"

\* The device takes the command once in an attempt, with its last byte; before
\* it may be taken again the attempt has been counted.
Takings ==
    /\ taken <= retries + 1
    /\ bus = "addr" => taken <= retries
    /\ bus = "data" /\ (bytes < txbytes \/ flag = "none") => taken <= retries
    /\ bus = "data" /\ bytes = txbytes /\ flag = "WIF" => taken > 0

IInv == TypeOK /\ OneResume /\ ReplyFits /\ Phases /\ Takings

LEMMA InitIInv == Init => IInv
<1> USE RetryAssumption
<1> QED BY DEF Init, IInv, TypeOK, OneResume, ReplyFits, Phases, Takings

LEMMA StepIInv == ASSUME IInv, [Next]_vars PROVE IInv'
<1> USE RetryAssumption
<1>0. TypeOK /\ OneResume /\ ReplyFits /\ Phases /\ Takings
 BY DEF IInv
<1>1. ASSUME NEW t \in Transfers, WriteRead(t) PROVE IInv'
  <2>0. t.tx \in Nat \ {0} /\ t.rx \in Nat BY TransferAssumption
  <2> USE DEF devVars, WriteRead
  <2>1. TypeOK' BY <1>0, <1>1, <2>0 DEF TypeOK, Phases
  <2>2. OneResume' BY <1>0, <1>1, <2>0 DEF OneResume, TypeOK, Phases
  <2>3. ReplyFits' BY <1>0, <1>1, <2>0 DEF ReplyFits, TypeOK, Phases, Takings
  <2>4. Phases' BY <1>0, <1>1, <2>0 DEF Phases, TypeOK, OneResume
  <2>5. Takings' BY <1>0, <1>1, <2>0 DEF Takings, TypeOK, Phases
  <2> QED BY <2>1, <2>2, <2>3, <2>4, <2>5 DEF IInv
<1>2. CASE Acknowledged
  <2> USE DEF devVars, Acknowledged, OnBus, LastByte
  <2>1. TypeOK' BY <1>0, <1>2 DEF TypeOK, Phases
  <2>2. OneResume' BY <1>0, <1>2 DEF OneResume, TypeOK, Phases
  <2>3. ReplyFits' BY <1>0, <1>2 DEF ReplyFits, TypeOK, Phases, Takings
  <2>4. Phases' BY <1>0, <1>2 DEF Phases, TypeOK, OneResume
  <2>5. Takings' BY <1>0, <1>2 DEF Takings, TypeOK, Phases
  <2> QED BY <2>1, <2>2, <2>3, <2>4, <2>5 DEF IInv
<1>3. CASE Received
  <2> USE DEF devVars, Received, OnBus
  <2>1. TypeOK' BY <1>0, <1>3 DEF TypeOK, Phases
  <2>2. OneResume' BY <1>0, <1>3 DEF OneResume, TypeOK, Phases
  <2>3. ReplyFits' BY <1>0, <1>3 DEF ReplyFits, TypeOK, Phases, Takings
  <2>4. Phases' BY <1>0, <1>3 DEF Phases, TypeOK, OneResume
  <2>5. Takings' BY <1>0, <1>3 DEF Takings, TypeOK, Phases
  <2> QED BY <2>1, <2>2, <2>3, <2>4, <2>5 DEF IInv
<1>4. CASE NotAcknowledged
  <2> USE DEF devVars, NotAcknowledged, OnBus
  <2>1. TypeOK' BY <1>0, <1>4 DEF TypeOK, Phases
  <2>2. OneResume' BY <1>0, <1>4 DEF OneResume, TypeOK, Phases
  <2>3. ReplyFits' BY <1>0, <1>4 DEF ReplyFits, TypeOK, Phases, Takings
  <2>4. Phases' BY <1>0, <1>4 DEF Phases, TypeOK, OneResume
  <2>5. Takings' BY <1>0, <1>4 DEF Takings, TypeOK, Phases
  <2> QED BY <2>1, <2>2, <2>3, <2>4, <2>5 DEF IInv
<1>5. CASE ArbitrationLost
  <2> USE DEF devVars, ArbitrationLost, OnBus, LastByte
  <2>1. TypeOK' BY <1>0, <1>5 DEF TypeOK, Phases
  <2>2. OneResume' BY <1>0, <1>5 DEF OneResume, TypeOK, Phases
  <2>3. ReplyFits' BY <1>0, <1>5 DEF ReplyFits, TypeOK, Phases, Takings
  <2>4. Phases' BY <1>0, <1>5 DEF Phases, TypeOK, OneResume
  <2>5. Takings' BY <1>0, <1>5 DEF Takings, TypeOK, Phases
  <2> QED BY <2>1, <2>2, <2>3, <2>4, <2>5 DEF IInv
<1>6. CASE Spurious
  <2> USE DEF devVars, Spurious, OnBus
  <2>1. TypeOK' BY <1>0, <1>6 DEF TypeOK, Phases
  <2>2. OneResume' BY <1>0, <1>6 DEF OneResume, TypeOK, Phases
  <2>3. ReplyFits' BY <1>0, <1>6 DEF ReplyFits, TypeOK, Phases, Takings
  <2>4. Phases' BY <1>0, <1>6 DEF Phases, TypeOK, OneResume
  <2>5. Takings' BY <1>0, <1>6 DEF Takings, TypeOK, Phases
  <2> QED BY <2>1, <2>2, <2>3, <2>4, <2>5 DEF IInv
<1>7. CASE Failed
  <2> USE DEF devVars, Failed, Flag, Retry, GiveUp, Complete
  <2>1. TypeOK' BY <1>0, <1>7 DEF TypeOK, Phases
  <2>2. OneResume' BY <1>0, <1>7 DEF OneResume, TypeOK, Phases
  <2>3. ReplyFits' BY <1>0, <1>7 DEF ReplyFits, TypeOK, Phases, Takings
  <2>4. Phases' BY <1>0, <1>7 DEF Phases, TypeOK, OneResume
  <2>5. Takings' BY <1>0, <1>7 DEF Takings, TypeOK, Phases
  <2> QED BY <2>1, <2>2, <2>3, <2>4, <2>5 DEF IInv
<1>8. CASE SendByte
  <2> USE DEF devVars, SendByte, Flag
  <2>1. TypeOK' BY <1>0, <1>8 DEF TypeOK, Phases
  <2>2. OneResume' BY <1>0, <1>8 DEF OneResume, TypeOK, Phases
  <2>3. ReplyFits' BY <1>0, <1>8 DEF ReplyFits, TypeOK, Phases, Takings
  <2>4. Phases' BY <1>0, <1>8 DEF Phases, TypeOK, OneResume
  <2>5. Takings' BY <1>0, <1>8 DEF Takings, TypeOK, Phases
  <2> QED BY <2>1, <2>2, <2>3, <2>4, <2>5 DEF IInv
<1>9. CASE RepeatedStart
  <2> USE DEF devVars, RepeatedStart, Flag
  <2>1. TypeOK' BY <1>0, <1>9 DEF TypeOK, Phases
  <2>2. OneResume' BY <1>0, <1>9 DEF OneResume, TypeOK, Phases
  <2>3. ReplyFits' BY <1>0, <1>9 DEF ReplyFits, TypeOK, Phases, Takings
  <2>4. Phases' BY <1>0, <1>9 DEF Phases, TypeOK, OneResume
  <2>5. Takings' BY <1>0, <1>9 DEF Takings, TypeOK, Phases
  <2> QED BY <2>1, <2>2, <2>3, <2>4, <2>5 DEF IInv
<1>10. CASE WriteDone
  <2> USE DEF devVars, WriteDone, Flag, Complete
  <2>1. TypeOK' BY <1>0, <1>10 DEF TypeOK, Phases
  <2>2. OneResume' BY <1>0, <1>10 DEF OneResume, TypeOK, Phases
  <2>3. ReplyFits' BY <1>0, <1>10 DEF ReplyFits, TypeOK, Phases, Takings
  <2>4. Phases' BY <1>0, <1>10 DEF Phases, TypeOK, OneResume
  <2>5. Takings' BY <1>0, <1>10 DEF Takings, TypeOK, Phases
  <2> QED BY <2>1, <2>2, <2>3, <2>4, <2>5 DEF IInv
<1>11. CASE ReadByte
  <2> USE DEF devVars, ReadByte, Flag, Complete
  <2>1. TypeOK' BY <1>0, <1>11 DEF TypeOK, Phases
  <2>2. OneResume' BY <1>0, <1>11 DEF OneResume, TypeOK, Phases
  <2>3. ReplyFits' BY <1>0, <1>11 DEF ReplyFits, TypeOK, Phases, Takings
  <2>4. Phases' BY <1>0, <1>11 DEF Phases, TypeOK, OneResume
  <2>5. Takings' BY <1>0, <1>11 DEF Takings, TypeOK, Phases
  <2> QED BY <2>1, <2>2, <2>3, <2>4, <2>5 DEF IInv
<1>12. CASE Unknown
  <2> USE DEF devVars, Unknown, Flag, Complete
  <2>1. TypeOK' BY <1>0, <1>12 DEF TypeOK, Phases
  <2>2. OneResume' BY <1>0, <1>12 DEF OneResume, TypeOK, Phases
  <2>3. ReplyFits' BY <1>0, <1>12 DEF ReplyFits, TypeOK, Phases, Takings
  <2>4. Phases' BY <1>0, <1>12 DEF Phases, TypeOK, OneResume
  <2>5. Takings' BY <1>0, <1>12 DEF Takings, TypeOK, Phases
  <2> QED BY <2>1, <2>2, <2>3, <2>4, <2>5 DEF IInv
<1>13. CASE UNCHANGED vars
  BY <1>13, <1>0 DEF IInv, vars, devVars, TypeOK, OneResume, ReplyFits, Phases, Takings
<1> QED BY <1>1, <1>2, <1>3, <1>4, <1>5, <1>6, <1>7, <1>8, <1>9, <1>10, <1>11, <1>12, <1>13 DEF Next, Bus, Isr

LEMMA Invariant == Spec => []IInv
<1>1. IInv /\ [Next]_vars => IInv' BY StepIInv
<1> QED BY InitIInv, <1>1, PTL DEF Spec

\* The device structure and the bus keep their types, for every retry limit and
\* every set of transfers; twi_master_isr's retry counter ends one past the limit.
THEOREM TypeCorrect == Spec => []TypeOK
<1>1. IInv => TypeOK BY DEF IInv
<1> QED BY <1>1, Invariant, PTL

\* twi_master_txn_complete resumes the client exactly once for each transfer.
THEOREM WokenOnce == Spec => []OneResume
<1>1. IInv => OneResume BY DEF IInv
<1> QED BY <1>1, Invariant, PTL

\* twi_master_read_handler never writes behind rxbuf, and stores nothing that was
\* not asked for with a command the device has taken.
THEOREM ReplyInBuffer == Spec => []ReplyFits
<1>1. IInv => ReplyFits BY DEF IInv
<1> QED BY <1>1, Invariant, PTL

-----------------------------------------------------------------------------
\* Every step of the driver and the bus is a step of Transfer or leaves what the
\* client relies on alone.
LEMMA StepTransfer ==
    ASSUME IInv, IInv', [Next]_vars PROVE [Client!TransferNext]_(Client!transferVars)
<1> USE RetryAssumption
<1> USE DEF Client!TransferNext, Client!transferVars
<1>0. TypeOK /\ OneResume /\ ReplyFits /\ Phases /\ Takings BY DEF IInv
<1>1. ASSUME NEW t \in Transfers, WriteRead(t) PROVE Client!Begin(rxbytes' > 0)
  BY <1>0, <1>1 DEF WriteRead, Client!Begin, TypeOK, OneResume
<1>2. ASSUME OnBus, LastByte, bus' = bus, taken' = taken + 1, UNCHANGED <<devVars, reply>>
      PROVE Client!Take
  BY <1>0, <1>2 DEF OnBus, LastByte, devVars, Client!Take, TypeOK, Phases, Takings
<1>3. ASSUME UNCHANGED <<rxbytes, bus, reply, taken>>
      PROVE UNCHANGED Client!transferVars
  BY <1>3
<1>4. ASSUME bus # "idle", Complete, UNCHANGED <<rxbytes, taken>>,
             reply' > 0 => reply' <= rxbytes /\ taken > 0, reply' \in Nat
      PROVE  Client!Complete
  <2>1. bus' = "idle" BY <1>4 DEF Complete
  <2>2. reply' > 0 => rxbytes > 0 /\ taken > 0 BY <1>0, <1>4 DEF TypeOK
  <2>3. CASE reply' > 0
    <3>1. (bus = "idle" /\ reply > 0)' = TRUE BY <2>1, <2>3
    <3>2. (rxbytes > 0 /\ (IF bus = "idle" THEN 0 ELSE taken) > 0) = TRUE
      BY <1>4, <2>2, <2>3
    <3> QED BY <1>4, <2>1, <3>1, <3>2 DEF Client!Complete
  <2>4. CASE ~(reply' > 0)
    <3>1. (bus = "idle" /\ reply > 0)' = FALSE BY <2>4
    <3> QED BY <1>4, <2>1, <3>1 DEF Client!Complete
  <2> QED BY <2>3, <2>4
<1>5. ASSUME bus # "idle", bus' # "idle", UNCHANGED <<rxbytes, taken>>
      PROVE UNCHANGED Client!transferVars
  BY <1>5
<1>6. ASSUME NEW t \in Transfers, WriteRead(t) PROVE Client!TransferNext
  <2>1. (rxbytes' > 0) \in BOOLEAN OBVIOUS
  <2> QED BY <1>1, <1>6, <2>1
<1>7. CASE Acknowledged
  <2>1. CASE LastByte
    BY <1>2, <1>7, <2>1 DEF Acknowledged, devVars
  <2>2. CASE ~LastByte
    BY <1>3, <1>7, <2>2 DEF Acknowledged, devVars
  <2> QED BY <2>1, <2>2
<1>8. CASE Received \/ NotAcknowledged \/ Spurious
  BY <1>3, <1>8 DEF Received, NotAcknowledged, Spurious, devVars
<1>9. CASE ArbitrationLost
  <2>1. CASE LastByte /\ taken' = taken + 1
    BY <1>2, <1>9, <2>1 DEF ArbitrationLost
  <2>2. CASE taken' = taken
    BY <1>3, <1>9, <2>2 DEF ArbitrationLost, devVars
  <2> QED BY <1>9, <2>1, <2>2 DEF ArbitrationLost
<1>10. CASE Failed
  <2>1. bus # "idle" BY <1>0, <1>10 DEF Failed, Flag, Phases
  <2>2. CASE Retry
    BY <1>5, <1>10, <2>1, <2>2 DEF Failed, Retry
  <2>3. CASE GiveUp
    <3>1. reply' = reply /\ Complete /\ UNCHANGED <<rxbytes, taken>>
      BY <1>10, <2>3 DEF Failed, GiveUp
    <3>2. (reply' > 0 => reply' <= rxbytes /\ taken > 0) /\ reply' \in Nat
      BY <1>0, <3>1 DEF ReplyFits, TypeOK
    <3> QED BY <1>4, <2>1, <3>1, <3>2
  <2> QED BY <1>10, <2>2, <2>3 DEF Failed
<1>11. CASE SendByte \/ RepeatedStart
  <2>1. bus # "idle" BY <1>0, <1>11 DEF SendByte, RepeatedStart, Flag, Phases
  <2> QED BY <1>5, <1>11, <2>1 DEF SendByte, RepeatedStart
<1>12. CASE WriteDone \/ Unknown
  <2>1. bus # "idle" BY <1>0, <1>12 DEF WriteDone, Unknown, Flag, Phases
  <2>2. reply' = reply /\ Complete /\ UNCHANGED <<rxbytes, taken>>
    BY <1>12 DEF WriteDone, Unknown, devVars
  <2>3. (reply' > 0 => reply' <= rxbytes /\ taken > 0) /\ reply' \in Nat
    BY <1>0, <2>2 DEF ReplyFits, TypeOK
  <2> QED BY <1>4, <2>1, <2>2, <2>3
<1>13. CASE ReadByte
  <2>1. bus = "read" /\ bytes < rxbytes /\ taken > 0
    BY <1>0, <1>13 DEF ReadByte, Flag, TypeOK, Phases, ReplyFits
  <2>2. UNCHANGED <<rxbytes, taken>> BY <1>13 DEF ReadByte
  <2>3. (reply' > 0 => reply' <= rxbytes /\ taken > 0) /\ reply' \in Nat
    BY <1>0, <1>13, <2>1 DEF ReadByte, TypeOK
  <2>4. CASE Complete
    BY <1>4, <2>1, <2>2, <2>3, <2>4
  <2>5. CASE UNCHANGED bus
    BY <1>5, <2>1, <2>2, <2>5
  <2> QED BY <1>13, <2>4, <2>5 DEF ReadByte
<1>14. CASE UNCHANGED vars
  BY <1>3, <1>14 DEF vars, devVars
<1> QED BY <1>6, <1>7, <1>8, <1>9, <1>10, <1>11, <1>12, <1>13, <1>14 DEF Next, Bus, Isr

\* Whatever the bus does, twi_master does to its client only what Transfer says:
\* one end to a transfer, and no byte stored before the command was taken.
THEOREM KeepsPromise ==
    Spec => Client!TransferInit /\ [][Client!TransferNext]_(Client!transferVars)
<1>1. Init => Client!TransferInit BY DEF Init, Client!TransferInit
<1>2. IInv /\ IInv' /\ [Next]_vars => [Client!TransferNext]_(Client!transferVars)
  BY StepTransfer
<1> QED BY <1>1, <1>2, Invariant, PTL DEF Spec

-----------------------------------------------------------------------------
\* The bytes of one attempt: the address, the command, the reply.
Attempt == 1 + txbytes + rxbytes

\* Interrupts to go in this attempt, if it meets no failure, and in all.
AttemptLeft == CASE bus = "addr" -> Attempt
                 [] bus = "data" -> 1 + txbytes - bytes + rxbytes
                 [] bus = "read" -> rxbytes - bytes
                 [] OTHER        -> 0

InterruptsLeft == IF bus = "idle" THEN 0
                  ELSE (MaxRetries - retries) * Attempt + AttemptLeft

LEMMA Products ==
    ASSUME NEW m \in Nat, NEW k \in Nat
    PROVE  m * k \in Nat /\ (m + 1) * k = m * k + k
OBVIOUS

LEMMA LeftBounded == IInv => InterruptsLeft \in 0 .. (MaxRetries + 1) * Attempt
<1> SUFFICES ASSUME IInv PROVE InterruptsLeft \in 0 .. (MaxRetries + 1) * Attempt
  OBVIOUS
<1> USE RetryAssumption
<1>1. TypeOK /\ Phases
  BY DEF IInv
<1>2. Attempt \in Nat /\ (bus # "idle" => AttemptLeft \in 0 .. Attempt)
  BY <1>1 DEF Attempt, AttemptLeft, TypeOK, Phases
<1>3. (MaxRetries + 1) * Attempt \in Nat
  BY <1>2, Products
<1>4. CASE bus # "idle"
  <2> DEFINE m == MaxRetries - retries
  <2>1. m \in Nat /\ retries \in Nat /\ MaxRetries = m + retries
    BY <1>1, <1>4 DEF TypeOK, Phases
  <2> HIDE DEF m
  <2>2. m * Attempt \in Nat /\ retries * Attempt \in Nat
    BY <1>2, <2>1, Products
  <2>3. (MaxRetries + 1) * Attempt = m * Attempt + retries * Attempt + Attempt
    <3> DEFINE k == Attempt
    <3> HIDE DEF k
    <3>1. ASSUME k \in Nat PROVE (m + retries + 1) * k = m * k + retries * k + k
      BY <2>1, <3>1
    <3> QED
      BY <1>2, <2>1, <3>1 DEF k
  <2>4. InterruptsLeft = m * Attempt + AttemptLeft
    BY <1>4 DEF InterruptsLeft, m
  <2> QED
    BY <1>2, <1>4, <2>2, <2>3, <2>4
<1> QED
  BY <1>3, <1>4 DEF InterruptsLeft

\* An interrupt goes on with the attempt, begins the next one or ends it all.
LEMMA IsrAdvances ==
    ASSUME IInv, Isr
    PROVE  InterruptsLeft' < InterruptsLeft
<1> USE RetryAssumption
<1>1. TypeOK /\ Phases /\ txbytes' = txbytes /\ rxbytes' = rxbytes /\ Attempt' = Attempt
  BY DEF IInv, Isr, Failed, SendByte, RepeatedStart, WriteDone, ReadByte, Unknown, devVars,
         Attempt
<1>2. /\ bus # "idle" /\ Attempt \in Nat \ {0} /\ AttemptLeft \in 1 .. Attempt
      /\ retries <= MaxRetries
  BY <1>1 DEF Isr, Failed, SendByte, RepeatedStart, WriteDone, ReadByte, Unknown, Flag,
              Attempt, AttemptLeft, TypeOK, Phases
<1> DEFINE m == MaxRetries - retries
<1>3. m \in Nat /\ m * Attempt \in Nat /\ InterruptsLeft = m * Attempt + AttemptLeft
  <2>1. m \in Nat
    BY <1>1, <1>2 DEF TypeOK
  <2> QED
    BY <1>2, <2>1, Products DEF InterruptsLeft
<1>4. InterruptsLeft \in Nat \ {0}
  BY <1>2, <1>3
<1>5. CASE bus' = "idle"
  BY <1>4, <1>5 DEF InterruptsLeft
<1>6. CASE bus' # "idle" /\ retries' = retries /\ AttemptLeft' < AttemptLeft
  <2>1. AttemptLeft' \in Int
    <3>1. TypeOK'
      BY StepIInv DEF Next, IInv
    <3> QED
      BY <3>1 DEF AttemptLeft, Attempt, TypeOK
  <2>2. InterruptsLeft' = m * Attempt + AttemptLeft'
    BY <1>1, <1>6 DEF InterruptsLeft
  <2> QED
    BY <1>2, <1>3, <1>6, <2>1, <2>2
<1>7. CASE retries < MaxRetries /\ retries' = retries + 1 /\ bus' = "addr"
  <2>1. AttemptLeft' = Attempt
    BY <1>1, <1>7 DEF AttemptLeft
  <2>2. InterruptsLeft' = (m - 1) * Attempt + Attempt
    BY <1>1, <1>7, <2>1 DEF InterruptsLeft, TypeOK
  <2>3. m - 1 \in Nat
    BY <1>1, <1>7 DEF TypeOK
  <2>4. (m - 1) * Attempt + Attempt = m * Attempt
    <3> DEFINE p == m - 1
    <3>1. (p + 1) * Attempt = p * Attempt + Attempt /\ p + 1 = m
      BY <1>2, <1>3, <2>3, Products
    <3> QED
      BY <3>1
  <2> QED
    BY <1>2, <1>3, <2>2, <2>4
<1>8. CASE Failed
  BY <1>5, <1>7, <1>8 DEF Failed, Retry, GiveUp, Complete
<1>9. CASE SendByte
  <2>1. bus' = "data" /\ retries' = retries /\ bytes' = bytes + 1 /\ bus \in {"addr", "data"}
    BY <1>1, <1>2, <1>9 DEF SendByte, Flag, TypeOK, Phases
  <2>2. AttemptLeft' < AttemptLeft
    BY <1>1, <2>1 DEF AttemptLeft, Attempt, TypeOK, Phases
  <2> QED
    BY <1>6, <2>1, <2>2
<1>10. CASE RepeatedStart
  <2>1. /\ bus' = "read" /\ retries' = retries /\ bytes' = 0 /\ bytes = txbytes
        /\ bus \in {"addr", "data"}
    BY <1>1, <1>2, <1>10 DEF RepeatedStart, Flag, TypeOK, Phases
  <2>2. AttemptLeft' < AttemptLeft
    BY <1>1, <2>1 DEF AttemptLeft, Attempt, TypeOK, Phases
  <2> QED
    BY <1>6, <2>1, <2>2
<1>11. CASE ReadByte
  <2>1. bus = "read" /\ retries' = retries /\ bytes' = bytes + 1 /\ bus' \in {"idle", bus}
    BY <1>1, <1>2, <1>11 DEF ReadByte, Flag, Complete, TypeOK, Phases
  <2>2. CASE bus' = "read"
    <3>1. AttemptLeft' < AttemptLeft
      BY <1>1, <2>1, <2>2 DEF AttemptLeft, TypeOK, Phases
    <3> QED
      BY <1>6, <2>1, <2>2, <3>1
  <2> QED
    BY <1>5, <2>1, <2>2
<1>12. CASE WriteDone \/ Unknown
  BY <1>5, <1>12 DEF WriteDone, Unknown, Complete
<1> QED
  BY <1>8, <1>9, <1>10, <1>11, <1>12 DEF Isr

\* What the end of each transfer rests on when the bus answers: every interrupt
\* leaves fewer to come, of at most one for each byte of each attempt.  So the
\* retries end however failures and progress alternate, and the last byte, the
\* restart and the reply count for an attempt as the first.
THEOREM TransferIsBounded ==
    Spec => /\ [](InterruptsLeft \in 0 .. (MaxRetries + 1) * Attempt)
            /\ [][Isr => InterruptsLeft' < InterruptsLeft]_vars
            /\ [][Bus => InterruptsLeft' = InterruptsLeft]_vars
<1>1. IInv /\ [Next]_vars => [Isr => InterruptsLeft' < InterruptsLeft]_vars
  BY IsrAdvances
<1>2. IInv /\ [Next]_vars => [Bus => InterruptsLeft' = InterruptsLeft]_vars
  BY DEF Bus, Acknowledged, Received, NotAcknowledged, ArbitrationLost, Spurious, devVars,
         InterruptsLeft, AttemptLeft, Attempt
<1> QED
  BY <1>1, <1>2, LeftBounded, Invariant, PTL DEF Spec
=============================================================================
