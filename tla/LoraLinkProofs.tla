------------------------- MODULE LoraLinkProofs -------------------------
(* What holds of LoraLink, and at the end of the E32Stream below it, for    *)
(* every value of their constants.                                          *)
EXTENDS LoraLink, E32Stream, TLAPS, Sequences, SequenceTheorems, WellFoundedInduction

\* The remainder that makes a msg_id fits its field.
LEMMA MsgIdRange ==
  ASSUME NEW n \in Nat
  PROVE  MsgId(n) \in 0 .. IdModulus - 1
BY ModulusAssumption DEF MsgId

-----------------------------------------------------------------------------
(* Type correctness, the Boolean variables first.                           *)

LEMMA FlagsInit == Init => FlagsOK
BY DEF Init, FlagsOK

LEMMA FlagsStep == FlagsOK /\ [Next]_vars => FlagsOK'
<1> SUFFICES ASSUME FlagsOK, [Next]_vars PROVE FlagsOK'
  OBVIOUS
<1> USE DEF FlagsOK, senderVars, ackVars, mutexVars, radioVars, rxVars, airVars
<1>1. ASSUME NEW k \in Kinds, NEW t \in Tanks, Begin(k, t) PROVE FlagsOK'
  BY <1>1 DEF Begin
<1>2. CASE TakeRequest
  BY <1>2 DEF TakeRequest, BeginDelay
<1>3. CASE RequestTimeout
  BY <1>3 DEF RequestTimeout, Leave
<1>4. CASE TakeRadio
  BY <1>4 DEF TakeRadio
<1>5. CASE RadioTimeout
  BY <1>5 DEF RadioTimeout, Leave, Cancel
<1>6. CASE Recover
  BY <1>6 DEF Recover, Leave, Cancel, Repaired, NotRepaired, Outlasts
<1>7. CASE Arm
  BY <1>7 DEF Arm
<1>8. CASE LockRadio
  BY <1>8 DEF LockRadio
<1>9. CASE LockTimeout
  BY <1>9 DEF LockTimeout, Disarm, NextAttempt, NoWait
<1>10. CASE Transmit
  BY <1>10 DEF Transmit, Disarm, NextAttempt, NoWait, OnAir
<1>11. CASE AckReceived
  BY <1>11 DEF AckReceived
<1>12. CASE AckTimeout
  BY <1>12 DEF AckTimeout, BeginDelay, Disarm, NextAttempt, NoWait
<1>13. CASE BackoffElapsed
  BY <1>13 DEF BackoffElapsed, Outlasts
<1>14. CASE Finish
  BY <1>14 DEF Finish, BeginDelay
<1>15. CASE GuardElapsed
  BY <1>15 DEF GuardElapsed, Leave, Outlasts
<1>16. CASE RxPoll
  BY <1>16 DEF RxPoll, RxUnchanged
<1>17. CASE RxTakeRadio
  BY <1>17 DEF RxTakeRadio, RxUnchanged
<1>18. CASE RxLockTimeout
  BY <1>18 DEF RxLockTimeout, RxUnchanged
<1>19. CASE RxReceive
  BY <1>19 DEF RxReceive, RxUnchanged
<1>20. CASE RxError
  BY <1>20 DEF RxError, RxUnchanged
<1>21. CASE RxAccept
  BY <1>21 DEF RxAccept, RxUnchanged
<1>22. CASE RxMatch
  BY <1>22 DEF RxMatch, NoWait, RxUnchanged
<1>23. CASE RxNotify
  BY <1>23 DEF RxNotify, RxUnchanged
<1>24. CASE HealthWake
  BY <1>24 DEF HealthWake, HealthUnchanged
<1>25. CASE HealthTakeRequest
  BY <1>25 DEF HealthTakeRequest, HealthUnchanged
<1>26. CASE HealthRequestTimeout
  BY <1>26 DEF HealthRequestTimeout, HealthUnchanged
<1>27. CASE HealthTakeRadio
  BY <1>27 DEF HealthTakeRadio, HealthUnchanged
<1>28. CASE HealthRadioTimeout
  BY <1>28 DEF HealthRadioTimeout, HealthUnchanged
<1>29. CASE HealthRecover
  BY <1>29 DEF HealthRecover, Repaired, NotRepaired, HealthUnchanged
<1>30. ASSUME NEW f \in air \cup acks \cup uart, TankReceives(f) PROVE FlagsOK'
  BY <1>30 DEF TankReceives, EnvironmentUnchanged
<1>31. ASSUME NEW f \in air \cup acks \cup uart, AckArrives(f) PROVE FlagsOK'
  BY <1>31 DEF AckArrives, EnvironmentUnchanged
<1>32. ASSUME NEW f \in air \cup acks \cup uart, Lose(f) PROVE FlagsOK'
  BY <1>32 DEF Lose, EnvironmentUnchanged
<1>33. CASE RadioFlips
  BY <1>33 DEF RadioFlips, EnvironmentUnchanged
<1>34. CASE UNCHANGED vars
  BY <1>34 DEF vars
<1> QED
  BY <1>1, <1>2, <1>3, <1>4, <1>5, <1>6, <1>7, <1>8, <1>9, <1>10,
     <1>11, <1>12, <1>13, <1>14, <1>15, <1>16, <1>17, <1>18, <1>19,
     <1>20, <1>21, <1>22, <1>23, <1>24, <1>25, <1>26, <1>27, <1>28,
     <1>29, <1>30, <1>31, <1>32, <1>33, <1>34
  DEF Next, SenderStep, RxStep, HealthStep, Environment

LEMMA TypeInit == Init => TypeOK
<1> SUFFICES ASSUME Init PROVE TypeOK
  OBVIOUS
<1>1. FlagsOK
  BY FlagsInit
<1>2. QED
  BY <1>1, ModulusAssumption, LimitAssumption
  DEF Init, TypeOK, NoWait, InTransaction, Armed

LEMMA TypeStep == TypeOK /\ [Next]_vars => TypeOK'
<1> SUFFICES ASSUME TypeOK, [Next]_vars PROVE TypeOK'
  OBVIOUS
<1> FlagsOK'
  BY FlagsStep DEF TypeOK
<1> USE ModulusAssumption, LimitAssumption, DelayAssumption, NoFrameAssumption
    DEF TypeOK, InTransaction, Armed, Frames, Acks, senderVars, ackVars,
        mutexVars, radioVars, rxVars, airVars
<1>1. ASSUME NEW k \in Kinds, NEW t \in Tanks, Begin(k, t) PROVE TypeOK'
  BY <1>1 DEF Begin
<1>2. CASE TakeRequest
  BY <1>2 DEF TakeRequest, BeginDelay
<1>3. CASE RequestTimeout
  BY <1>3 DEF RequestTimeout, Leave
<1>4. CASE TakeRadio
  BY <1>4 DEF TakeRadio
<1>5. CASE RadioTimeout
  BY <1>5 DEF RadioTimeout, Leave, Cancel
<1>6. CASE Recover
  <2>1. CASE Repaired /\ pc' = "arm" /\ UNCHANGED <<frame, attempt, success, msgCounter>>
    <3>1. uartErrors' \in 0 .. UartErrorLimit - 1 /\ failures' = 0 /\ uart' = {}
      BY <2>1 DEF Repaired
    <3>2. QED
      BY <3>1, <2>1, <1>6 DEF Recover, Leave, Cancel
  <2>2. CASE NotRepaired /\ Cancel
    <3>1. uart' \subseteq Acks /\ UNCHANGED <<uartErrors, failures>>
      BY <2>2 DEF NotRepaired
    <3>2. QED
      BY <3>1, <2>2, <1>6 DEF Recover, Leave, Cancel
  <2>3. QED
    BY <2>1, <2>2, <1>6 DEF Recover
<1>7. CASE Arm
  BY <1>7, MsgIdRange DEF Arm
<1>8. CASE LockRadio
  BY <1>8 DEF LockRadio
<1>9. CASE LockTimeout
  BY <1>9 DEF LockTimeout, Disarm, NextAttempt, NoWait
<1>10. CASE Transmit
  <2>1. OnAir \in Acks
    BY <1>10 DEF Transmit, OnAir
  <2>2. air' \subseteq Acks
    BY <2>1, <1>10 DEF Transmit
  <2>3. CASE pc' = "await" /\ UNCHANGED <<attempt, ackWait>>
    BY <2>2, <2>3, <1>10 DEF Transmit
  <2>4. CASE Disarm /\ NextAttempt("arm")
    <3>1. ackWait' = NoWait /\ attempt' \in Nat \ {0} /\ pc' \in {"arm", "finish"}
      BY <2>4, <1>10 DEF Disarm, NextAttempt, Transmit
    <3>2. QED
      BY <2>2, <3>1, <1>10 DEF Transmit, NoWait
  <2>5. QED
    BY <2>3, <2>4, <1>10 DEF Transmit
<1>11. CASE AckReceived
  BY <1>11 DEF AckReceived
<1>12. CASE AckTimeout
  BY <1>12 DEF AckTimeout, BeginDelay, Disarm, NextAttempt, NoWait
<1>13. CASE BackoffElapsed
  BY <1>13 DEF BackoffElapsed, Outlasts
<1>14. CASE Finish
  BY <1>14 DEF Finish, BeginDelay
<1>15. CASE GuardElapsed
  <2>1. frame.seq \in Nat
    BY <1>15 DEF GuardElapsed
  <2>2. succeeded' \subseteq Nat
    BY <2>1, <1>15 DEF GuardElapsed
  <2>3. QED
    BY <2>2, <1>15 DEF GuardElapsed, Leave
<1>16. CASE RxPoll
  BY <1>16 DEF RxPoll, RxUnchanged
<1>17. CASE RxTakeRadio
  BY <1>17 DEF RxTakeRadio, RxUnchanged
<1>18. CASE RxLockTimeout
  BY <1>18 DEF RxLockTimeout, RxUnchanged
<1>19. CASE RxReceive
  BY <1>19 DEF RxReceive, RxUnchanged
<1>20. CASE RxError
  BY <1>20 DEF RxError, RxUnchanged
<1>21. CASE RxAccept
  BY <1>21 DEF RxAccept, RxUnchanged
<1>22. CASE RxMatch
  <2>1. CASE ackWait' = NoWait /\ rxPc' = "notify"
    BY <2>1, <1>22 DEF RxMatch, RxUnchanged, NoWait
  <2>2. CASE rxPc' = "poll" /\ UNCHANGED ackWait
    BY <2>2, <1>22 DEF RxMatch, RxUnchanged
  <2>3. QED
    BY <2>1, <2>2, <1>22 DEF RxMatch
<1>23. CASE RxNotify
  BY <1>23 DEF RxNotify, RxUnchanged
<1>24. CASE HealthWake
  BY <1>24 DEF HealthWake, HealthUnchanged
<1>25. CASE HealthTakeRequest
  BY <1>25 DEF HealthTakeRequest, HealthUnchanged
<1>26. CASE HealthRequestTimeout
  BY <1>26 DEF HealthRequestTimeout, HealthUnchanged
<1>27. CASE HealthTakeRadio
  BY <1>27 DEF HealthTakeRadio, HealthUnchanged
<1>28. CASE HealthRadioTimeout
  BY <1>28 DEF HealthRadioTimeout, HealthUnchanged
<1>29. CASE HealthRecover
  <2>1. CASE Repaired
    <3>1. uartErrors' \in 0 .. UartErrorLimit - 1 /\ failures' = 0 /\ uart' = {}
      BY <2>1 DEF Repaired
    <3>2. QED
      BY <3>1, <1>29 DEF HealthRecover, HealthUnchanged
  <2>2. CASE NotRepaired
    <3>1. uart' \subseteq Acks /\ UNCHANGED <<uartErrors, failures>>
      BY <2>2 DEF NotRepaired
    <3>2. QED
      BY <3>1, <1>29 DEF HealthRecover, HealthUnchanged
  <2>3. QED
    BY <2>1, <2>2, <1>29 DEF HealthRecover
<1>30. ASSUME NEW f \in air \cup acks \cup uart, TankReceives(f) PROVE TypeOK'
  <2>1. f \in Acks /\ f.seq \in Nat
    BY <1>30 DEF TankReceives
  <2>2. delivered' \subseteq Nat /\ acks' \subseteq Acks /\ air' \subseteq Acks
    BY <2>1, <1>30 DEF TankReceives
  <2>3. QED
    BY <2>2, <1>30 DEF TankReceives, EnvironmentUnchanged
<1>31. ASSUME NEW f \in air \cup acks \cup uart, AckArrives(f) PROVE TypeOK'
  BY <1>31 DEF AckArrives, EnvironmentUnchanged
<1>32. ASSUME NEW f \in air \cup acks \cup uart, Lose(f) PROVE TypeOK'
  BY <1>32 DEF Lose, EnvironmentUnchanged
<1>33. CASE RadioFlips
  BY <1>33 DEF RadioFlips, EnvironmentUnchanged
<1>34. CASE UNCHANGED vars
  BY <1>34 DEF vars
<1> QED
  BY <1>1, <1>2, <1>3, <1>4, <1>5, <1>6, <1>7, <1>8, <1>9, <1>10,
     <1>11, <1>12, <1>13, <1>14, <1>15, <1>16, <1>17, <1>18, <1>19,
     <1>20, <1>21, <1>22, <1>23, <1>24, <1>25, <1>26, <1>27, <1>28,
     <1>29, <1>30, <1>31, <1>32, <1>33, <1>34
  DEF Next, SenderStep, RxStep, HealthStep, Environment

\* In every reachable state every variable of the LoRa link has its type; the
\* counters of main.c:1699-1703 and 2128-2132 never pass their thresholds.
THEOREM TypeCorrect == Spec => []TypeOK
BY TypeInit, TypeStep, PTL DEF Spec

-----------------------------------------------------------------------------
(* Mutual exclusion.                                                        *)

\* Each mutex is held exactly at the control points between its take and its
\* give, by the task that took it.
MutexInv ==
  /\ requestMutex = "sender" <=> pc \in InTransaction
  /\ requestMutex = "health" <=> healthPc \in {"radio", "recover"}
  /\ loraMutex = "sender" <=> pc \in {"recover", "transmit"}
  /\ loraMutex = "rx" <=> rxPc = "receive"
  /\ loraMutex = "health" <=> healthPc = "recover"

LEMMA MutexStep == TypeOK /\ MutexInv /\ [Next]_vars => MutexInv'
<1> SUFFICES ASSUME TypeOK, MutexInv, [Next]_vars PROVE MutexInv'
  OBVIOUS
<1> USE DEF TypeOK, MutexInv, InTransaction, Armed, senderVars, ackVars,
            mutexVars, radioVars, rxVars, airVars
<1>1. ASSUME NEW k \in Kinds, NEW t \in Tanks, Begin(k, t) PROVE MutexInv'
  BY <1>1 DEF Begin
<1>2. CASE TakeRequest
  BY <1>2 DEF TakeRequest, BeginDelay
<1>3. CASE RequestTimeout
  BY <1>3 DEF RequestTimeout, Leave
<1>4. CASE TakeRadio
  BY <1>4 DEF TakeRadio
<1>5. CASE RadioTimeout
  BY <1>5 DEF RadioTimeout, Leave, Cancel
<1>6. CASE Recover
  BY <1>6 DEF Recover, Leave, Cancel, Repaired, NotRepaired, Outlasts
<1>7. CASE Arm
  BY <1>7 DEF Arm
<1>8. CASE LockRadio
  BY <1>8 DEF LockRadio
<1>9. CASE LockTimeout
  BY <1>9 DEF LockTimeout, Disarm, NextAttempt, NoWait
<1>10. CASE Transmit
  BY <1>10 DEF Transmit, Disarm, NextAttempt, NoWait, OnAir
<1>11. CASE AckReceived
  BY <1>11 DEF AckReceived
<1>12. CASE AckTimeout
  BY <1>12 DEF AckTimeout, BeginDelay, Disarm, NextAttempt, NoWait
<1>13. CASE BackoffElapsed
  BY <1>13 DEF BackoffElapsed, Outlasts
<1>14. CASE Finish
  BY <1>14 DEF Finish, BeginDelay
<1>15. CASE GuardElapsed
  BY <1>15 DEF GuardElapsed, Leave, Outlasts
<1>16. CASE RxPoll
  BY <1>16 DEF RxPoll, RxUnchanged
<1>17. CASE RxTakeRadio
  BY <1>17 DEF RxTakeRadio, RxUnchanged
<1>18. CASE RxLockTimeout
  BY <1>18 DEF RxLockTimeout, RxUnchanged
<1>19. CASE RxReceive
  BY <1>19 DEF RxReceive, RxUnchanged
<1>20. CASE RxError
  BY <1>20 DEF RxError, RxUnchanged
<1>21. CASE RxAccept
  BY <1>21 DEF RxAccept, RxUnchanged
<1>22. CASE RxMatch
  BY <1>22 DEF RxMatch, NoWait, RxUnchanged
<1>23. CASE RxNotify
  BY <1>23 DEF RxNotify, RxUnchanged
<1>24. CASE HealthWake
  BY <1>24 DEF HealthWake, HealthUnchanged
<1>25. CASE HealthTakeRequest
  BY <1>25 DEF HealthTakeRequest, HealthUnchanged
<1>26. CASE HealthRequestTimeout
  BY <1>26 DEF HealthRequestTimeout, HealthUnchanged
<1>27. CASE HealthTakeRadio
  BY <1>27 DEF HealthTakeRadio, HealthUnchanged
<1>28. CASE HealthRadioTimeout
  BY <1>28 DEF HealthRadioTimeout, HealthUnchanged
<1>29. CASE HealthRecover
  BY <1>29 DEF HealthRecover, Repaired, NotRepaired, HealthUnchanged
<1>30. ASSUME NEW f \in air \cup acks \cup uart, TankReceives(f) PROVE MutexInv'
  BY <1>30 DEF TankReceives, EnvironmentUnchanged
<1>31. ASSUME NEW f \in air \cup acks \cup uart, AckArrives(f) PROVE MutexInv'
  BY <1>31 DEF AckArrives, EnvironmentUnchanged
<1>32. ASSUME NEW f \in air \cup acks \cup uart, Lose(f) PROVE MutexInv'
  BY <1>32 DEF Lose, EnvironmentUnchanged
<1>33. CASE RadioFlips
  BY <1>33 DEF RadioFlips, EnvironmentUnchanged
<1>34. CASE UNCHANGED vars
  BY <1>34 DEF vars
<1> QED
  BY <1>1, <1>2, <1>3, <1>4, <1>5, <1>6, <1>7, <1>8, <1>9, <1>10,
     <1>11, <1>12, <1>13, <1>14, <1>15, <1>16, <1>17, <1>18, <1>19,
     <1>20, <1>21, <1>22, <1>23, <1>24, <1>25, <1>26, <1>27, <1>28,
     <1>29, <1>30, <1>31, <1>32, <1>33, <1>34
  DEF Next, SenderStep, RxStep, HealthStep, Environment

\* The health task reconfigures the E32 (main.c:1910-1917) only while no
\* transaction is in progress and no read of the UART is.
THEOREM RepairIsolated == Spec => []RepairOutsideTransactions
<1>1. Init => MutexInv
  BY DEF Init, MutexInv, InTransaction, Armed
<1>2. TypeOK /\ MutexInv => RepairOutsideTransactions
  BY DEF TypeOK, MutexInv, RepairOutsideTransactions
<1>3. QED
  BY <1>1, <1>2, MutexStep, TypeCorrect, PTL DEF Spec

-----------------------------------------------------------------------------
(* Attribution of ACKs, when the receiver gives its notification before the *)
(* sender can pass the next clear (NotifyLatency = 0).                      *)

\* Frames in flight: an ACK exists only for a delivered request, and one that
\* carries the msg_id and the tank of the open transaction is its own.
Own(f) ==
  pc # "idle" /\ f.tank = frame.tank /\ MsgId(f.seq) = MsgId(frame.seq)
    => f.seq = frame.seq

FlightInv ==
  /\ \A f \in acks \cup uart : f.seq \in delivered
  /\ \A f \in air \cup acks \cup uart : Own(f)
  /\ rxFrame # NoFrame => rxFrame.seq \in delivered /\ Own(rxFrame)

\* The wait is armed, the receiver is about to notify, or the sender has been
\* notified: one at a time, and the latter two only once the frame arrived.
\* Outside an attempt a notification still owed is one the delay waits for.
WaitInv ==
  /\ WaitBelongsToTransaction
  /\ pc \in Armed => ~(ackWait.active /\ notified)
  /\ rxPc = "notify" => ~ackWait.active /\ ~(pc \in Armed /\ notified)
  /\ rxPc = "notify" => pc \notin {"idle", "request", "radio", "recover"}
  /\ rxPc = "notify" => frame.seq \in delivered
  /\ rxPc = "notify" /\ pc \in {"backoff", "guard"} => owed
  /\ pc \in Armed /\ notified => frame.seq \in delivered
  /\ success => pc \in {"finish", "guard"} /\ frame.seq \in delivered

LEMMA FlightStep == TypeOK /\ FlightInv /\ [Next]_vars => FlightInv'
<1> SUFFICES ASSUME TypeOK, FlightInv, [Next]_vars PROVE FlightInv'
  OBVIOUS
<1> USE NoFrameAssumption
    DEF TypeOK, InTransaction, Armed, FlightInv, Own, senderVars, ackVars,
        mutexVars, radioVars, rxVars, airVars
<1>1. ASSUME NEW k \in Kinds, NEW t \in Tanks, Begin(k, t) PROVE FlightInv'
  <2>1. \A f \in air' \cup acks' \cup uart' :
          /\ f \in air \cup acks \cup uart
          /\ ~SameAddress(msgCounter, t, f)
    BY <1>1 DEF Begin
  <2>2. rxFrame # NoFrame => ~SameAddress(msgCounter, t, rxFrame)
    BY <1>1 DEF Begin
  <2>3. frame' = [kind |-> k, tank |-> t, seq |-> msgCounter]
    BY <1>1 DEF Begin
  <2>4. \A f : ~SameAddress(msgCounter, t, f) => Own(f)'
    BY <2>3 DEF SameAddress
  <2>5. acks' \subseteq acks /\ uart' \subseteq uart
    BY <1>1 DEF Begin
  <2>6. QED
    BY <2>1, <2>2, <2>4, <2>5, <1>1 DEF Begin
<1>2. CASE TakeRequest
  BY <1>2 DEF TakeRequest, BeginDelay
<1>3. CASE RequestTimeout
  BY <1>3 DEF RequestTimeout, Leave
<1>4. CASE TakeRadio
  BY <1>4 DEF TakeRadio
<1>5. CASE RadioTimeout
  BY <1>5 DEF RadioTimeout, Leave, Cancel
<1>6. CASE Recover
  BY <1>6 DEF Recover, Leave, Cancel, Repaired, NotRepaired, Outlasts
<1>7. CASE Arm
  BY <1>7 DEF Arm
<1>8. CASE LockRadio
  BY <1>8 DEF LockRadio
<1>9. CASE LockTimeout
  BY <1>9 DEF LockTimeout, Disarm, NextAttempt, NoWait
<1>10. CASE Transmit
  BY <1>10 DEF Transmit, Disarm, NextAttempt, NoWait, OnAir
<1>11. CASE AckReceived
  BY <1>11 DEF AckReceived
<1>12. CASE AckTimeout
  BY <1>12 DEF AckTimeout, BeginDelay, Disarm, NextAttempt, NoWait
<1>13. CASE BackoffElapsed
  BY <1>13 DEF BackoffElapsed, Outlasts
<1>14. CASE Finish
  BY <1>14 DEF Finish, BeginDelay
<1>15. CASE GuardElapsed
  BY <1>15 DEF GuardElapsed, Leave, Outlasts
<1>16. CASE RxPoll
  BY <1>16 DEF RxPoll, RxUnchanged
<1>17. CASE RxTakeRadio
  BY <1>17 DEF RxTakeRadio, RxUnchanged
<1>18. CASE RxLockTimeout
  BY <1>18 DEF RxLockTimeout, RxUnchanged
<1>19. CASE RxReceive
  BY <1>19 DEF RxReceive, RxUnchanged
<1>20. CASE RxError
  BY <1>20 DEF RxError, RxUnchanged
<1>21. CASE RxAccept
  BY <1>21 DEF RxAccept, RxUnchanged
<1>22. CASE RxMatch
  BY <1>22 DEF RxMatch, NoWait, RxUnchanged
<1>23. CASE RxNotify
  BY <1>23 DEF RxNotify, RxUnchanged
<1>24. CASE HealthWake
  BY <1>24 DEF HealthWake, HealthUnchanged
<1>25. CASE HealthTakeRequest
  BY <1>25 DEF HealthTakeRequest, HealthUnchanged
<1>26. CASE HealthRequestTimeout
  BY <1>26 DEF HealthRequestTimeout, HealthUnchanged
<1>27. CASE HealthTakeRadio
  BY <1>27 DEF HealthTakeRadio, HealthUnchanged
<1>28. CASE HealthRadioTimeout
  BY <1>28 DEF HealthRadioTimeout, HealthUnchanged
<1>29. CASE HealthRecover
  BY <1>29 DEF HealthRecover, Repaired, NotRepaired, HealthUnchanged
<1>30. ASSUME NEW f \in air \cup acks \cup uart, TankReceives(f) PROVE FlightInv'
  BY <1>30 DEF TankReceives, EnvironmentUnchanged
<1>31. ASSUME NEW f \in air \cup acks \cup uart, AckArrives(f) PROVE FlightInv'
  BY <1>31 DEF AckArrives, EnvironmentUnchanged
<1>32. ASSUME NEW f \in air \cup acks \cup uart, Lose(f) PROVE FlightInv'
  BY <1>32 DEF Lose, EnvironmentUnchanged
<1>33. CASE RadioFlips
  BY <1>33 DEF RadioFlips, EnvironmentUnchanged
<1>34. CASE UNCHANGED vars
  BY <1>34 DEF vars
<1> QED
  BY <1>1, <1>2, <1>3, <1>4, <1>5, <1>6, <1>7, <1>8, <1>9, <1>10,
     <1>11, <1>12, <1>13, <1>14, <1>15, <1>16, <1>17, <1>18, <1>19,
     <1>20, <1>21, <1>22, <1>23, <1>24, <1>25, <1>26, <1>27, <1>28,
     <1>29, <1>30, <1>31, <1>32, <1>33, <1>34
  DEF Next, SenderStep, RxStep, HealthStep, Environment

LEMMA WaitStep ==
  ASSUME NotifyLatency = 0
  PROVE  TypeOK /\ FlightInv /\ WaitInv /\ [Next]_vars => WaitInv'
<1> SUFFICES ASSUME TypeOK, FlightInv, WaitInv, [Next]_vars PROVE WaitInv'
  OBVIOUS
<1> USE NotifyLatency = 0, DelayAssumption
    DEF WaitInv, WaitBelongsToTransaction, InTransaction, Armed, senderVars,
        ackVars, mutexVars, radioVars, rxVars, airVars
<1>1. ASSUME NEW k \in Kinds, NEW t \in Tanks, Begin(k, t) PROVE WaitInv'
  BY <1>1 DEF Begin
<1>2. CASE TakeRequest
  BY <1>2 DEF TakeRequest, BeginDelay
<1>3. CASE RequestTimeout
  BY <1>3 DEF RequestTimeout, Leave
<1>4. CASE TakeRadio
  BY <1>4 DEF TakeRadio
<1>5. CASE RadioTimeout
  BY <1>5 DEF RadioTimeout, Leave, Cancel
<1>6. CASE Recover
  <2>1. pc = "recover" /\ pc' \in {"arm", "idle"}
    BY <1>6 DEF Recover, Cancel, Leave
  <2>2. UNCHANGED <<notified, ackWait, rxPc, delivered>>
    BY <1>6 DEF Recover
  <2>3. ~success'
    BY <2>1, <1>6 DEF Recover, Cancel, Leave
  <2>4. QED
    BY <2>1, <2>2, <2>3
<1>7. CASE Arm
  BY <1>7 DEF Arm
<1>8. CASE LockRadio
  BY <1>8 DEF LockRadio
<1>9. CASE LockTimeout
  BY <1>9 DEF LockTimeout, Disarm, NextAttempt, NoWait
<1>10. CASE Transmit
  BY <1>10 DEF Transmit, Disarm, NextAttempt, NoWait, OnAir
<1>11. CASE AckReceived
  BY <1>11 DEF AckReceived
<1>12. CASE AckTimeout
  BY <1>12 DEF AckTimeout, BeginDelay, Disarm, NextAttempt, NoWait
<1>13. CASE BackoffElapsed
  BY <1>13 DEF BackoffElapsed, Outlasts
<1>14. CASE Finish
  BY <1>14 DEF Finish, BeginDelay
<1>15. CASE GuardElapsed
  <2>1. GuardMs[frame.kind] \in Nat
    BY <1>15 DEF GuardElapsed, TypeOK, Frames
  <2>2. rxPc # "notify"
    BY <2>1, <1>15 DEF GuardElapsed, Outlasts
  <2>3. QED
    BY <2>2, <1>15 DEF GuardElapsed, Leave
<1>16. CASE RxPoll
  BY <1>16 DEF RxPoll, RxUnchanged
<1>17. CASE RxTakeRadio
  BY <1>17 DEF RxTakeRadio, RxUnchanged
<1>18. CASE RxLockTimeout
  BY <1>18 DEF RxLockTimeout, RxUnchanged
<1>19. CASE RxReceive
  BY <1>19 DEF RxReceive, RxUnchanged
<1>20. CASE RxError
  BY <1>20 DEF RxError, RxUnchanged
<1>21. CASE RxAccept
  BY <1>21 DEF RxAccept, RxUnchanged
<1>22. CASE RxMatch
  <2>1. CASE ackWait' = NoWait /\ rxPc' = "notify"
    <3>1. ackWait.active /\ MsgId(rxFrame.seq) = MsgId(frame.seq) /\ rxFrame.tank = frame.tank
      BY <2>1, <1>22 DEF RxMatch
    <3>2. pc \in Armed /\ rxFrame # NoFrame
      BY <3>1, <1>22, NoFrameAssumption DEF RxMatch, TypeOK
    <3>3. frame.seq \in delivered
      BY <3>1, <3>2 DEF FlightInv, Own
    <3>4. QED
      BY <2>1, <3>1, <3>2, <3>3, <1>22 DEF RxMatch, RxUnchanged, NoWait
  <2>2. CASE rxPc' = "poll" /\ UNCHANGED ackWait
    BY <2>2, <1>22 DEF RxMatch, RxUnchanged
  <2>3. QED
    BY <2>1, <2>2, <1>22 DEF RxMatch
<1>23. CASE RxNotify
  BY <1>23 DEF RxNotify, RxUnchanged
<1>24. CASE HealthWake
  BY <1>24 DEF HealthWake, HealthUnchanged
<1>25. CASE HealthTakeRequest
  BY <1>25 DEF HealthTakeRequest, HealthUnchanged
<1>26. CASE HealthRequestTimeout
  BY <1>26 DEF HealthRequestTimeout, HealthUnchanged
<1>27. CASE HealthTakeRadio
  BY <1>27 DEF HealthTakeRadio, HealthUnchanged
<1>28. CASE HealthRadioTimeout
  BY <1>28 DEF HealthRadioTimeout, HealthUnchanged
<1>29. CASE HealthRecover
  BY <1>29 DEF HealthRecover, Repaired, NotRepaired, HealthUnchanged
<1>30. ASSUME NEW f \in air \cup acks \cup uart, TankReceives(f) PROVE WaitInv'
  BY <1>30 DEF TankReceives, EnvironmentUnchanged
<1>31. ASSUME NEW f \in air \cup acks \cup uart, AckArrives(f) PROVE WaitInv'
  BY <1>31 DEF AckArrives, EnvironmentUnchanged
<1>32. ASSUME NEW f \in air \cup acks \cup uart, Lose(f) PROVE WaitInv'
  BY <1>32 DEF Lose, EnvironmentUnchanged
<1>33. CASE RadioFlips
  BY <1>33 DEF RadioFlips, EnvironmentUnchanged
<1>34. CASE UNCHANGED vars
  BY <1>34 DEF vars
<1> QED
  BY <1>1, <1>2, <1>3, <1>4, <1>5, <1>6, <1>7, <1>8, <1>9, <1>10,
     <1>11, <1>12, <1>13, <1>14, <1>15, <1>16, <1>17, <1>18, <1>19,
     <1>20, <1>21, <1>22, <1>23, <1>24, <1>25, <1>26, <1>27, <1>28,
     <1>29, <1>30, <1>31, <1>32, <1>33, <1>34
  DEF Next, SenderStep, RxStep, HealthStep, Environment

LEMMA WaitInitially == Init => FlightInv /\ WaitInv
BY DEF Init, FlightInv, WaitInv, WaitBelongsToTransaction, NoWait, Armed

\* gtw_ack_wait never outlives its transaction (main.c:2079-2117, 1792-1798).
THEOREM WaitEnds ==
  ASSUME NotifyLatency = 0
  PROVE  Spec => []WaitBelongsToTransaction
<1>1. WaitInv => WaitBelongsToTransaction
  BY DEF WaitInv
<1>2. QED
  BY <1>1, WaitInitially, FlightStep, WaitStep, TypeCorrect, PTL DEF Spec

LEMMA AttributionStep ==
  WaitInv /\ AckAttribution /\ [Next]_vars => AckAttribution'
<1> SUFFICES ASSUME WaitInv, AckAttribution, [Next]_vars PROVE AckAttribution'
  OBVIOUS
<1> USE DEF AckAttribution, WaitInv, senderVars, ackVars, mutexVars, radioVars,
            rxVars, airVars
<1>1. ASSUME NEW k \in Kinds, NEW t \in Tanks, Begin(k, t) PROVE AckAttribution'
  BY <1>1 DEF Begin
<1>2. CASE TakeRequest
  BY <1>2 DEF TakeRequest, BeginDelay
<1>3. CASE RequestTimeout
  BY <1>3 DEF RequestTimeout, Leave
<1>4. CASE TakeRadio
  BY <1>4 DEF TakeRadio
<1>5. CASE RadioTimeout
  BY <1>5 DEF RadioTimeout, Leave, Cancel
<1>6. CASE Recover
  BY <1>6 DEF Recover, Leave, Cancel, Repaired, NotRepaired, Outlasts
<1>7. CASE Arm
  BY <1>7 DEF Arm
<1>8. CASE LockRadio
  BY <1>8 DEF LockRadio
<1>9. CASE LockTimeout
  BY <1>9 DEF LockTimeout, Disarm, NextAttempt, NoWait
<1>10. CASE Transmit
  BY <1>10 DEF Transmit, Disarm, NextAttempt, NoWait, OnAir
<1>11. CASE AckReceived
  BY <1>11 DEF AckReceived
<1>12. CASE AckTimeout
  BY <1>12 DEF AckTimeout, BeginDelay, Disarm, NextAttempt, NoWait
<1>13. CASE BackoffElapsed
  BY <1>13 DEF BackoffElapsed, Outlasts
<1>14. CASE Finish
  BY <1>14 DEF Finish, BeginDelay
<1>15. CASE GuardElapsed
  BY <1>15 DEF GuardElapsed, Leave, Outlasts
<1>16. CASE RxPoll
  BY <1>16 DEF RxPoll, RxUnchanged
<1>17. CASE RxTakeRadio
  BY <1>17 DEF RxTakeRadio, RxUnchanged
<1>18. CASE RxLockTimeout
  BY <1>18 DEF RxLockTimeout, RxUnchanged
<1>19. CASE RxReceive
  BY <1>19 DEF RxReceive, RxUnchanged
<1>20. CASE RxError
  BY <1>20 DEF RxError, RxUnchanged
<1>21. CASE RxAccept
  BY <1>21 DEF RxAccept, RxUnchanged
<1>22. CASE RxMatch
  BY <1>22 DEF RxMatch, NoWait, RxUnchanged
<1>23. CASE RxNotify
  BY <1>23 DEF RxNotify, RxUnchanged
<1>24. CASE HealthWake
  BY <1>24 DEF HealthWake, HealthUnchanged
<1>25. CASE HealthTakeRequest
  BY <1>25 DEF HealthTakeRequest, HealthUnchanged
<1>26. CASE HealthRequestTimeout
  BY <1>26 DEF HealthRequestTimeout, HealthUnchanged
<1>27. CASE HealthTakeRadio
  BY <1>27 DEF HealthTakeRadio, HealthUnchanged
<1>28. CASE HealthRadioTimeout
  BY <1>28 DEF HealthRadioTimeout, HealthUnchanged
<1>29. CASE HealthRecover
  BY <1>29 DEF HealthRecover, Repaired, NotRepaired, HealthUnchanged
<1>30. ASSUME NEW f \in air \cup acks \cup uart, TankReceives(f) PROVE AckAttribution'
  BY <1>30 DEF TankReceives, EnvironmentUnchanged
<1>31. ASSUME NEW f \in air \cup acks \cup uart, AckArrives(f) PROVE AckAttribution'
  BY <1>31 DEF AckArrives, EnvironmentUnchanged
<1>32. ASSUME NEW f \in air \cup acks \cup uart, Lose(f) PROVE AckAttribution'
  BY <1>32 DEF Lose, EnvironmentUnchanged
<1>33. CASE RadioFlips
  BY <1>33 DEF RadioFlips, EnvironmentUnchanged
<1>34. CASE UNCHANGED vars
  BY <1>34 DEF vars
<1> QED
  BY <1>1, <1>2, <1>3, <1>4, <1>5, <1>6, <1>7, <1>8, <1>9, <1>10,
     <1>11, <1>12, <1>13, <1>14, <1>15, <1>16, <1>17, <1>18, <1>19,
     <1>20, <1>21, <1>22, <1>23, <1>24, <1>25, <1>26, <1>27, <1>28,
     <1>29, <1>30, <1>31, <1>32, <1>33, <1>34
  DEF Next, SenderStep, RxStep, HealthStep, Environment

\* A command or ping reported as acknowledged reached its tank (main.c:2172,
\* 2192), for any number of tanks, transactions and attempts, any duplication,
\* loss and delay of frames, and any width of msg_id.
THEOREM AcksAttributed ==
  ASSUME NotifyLatency = 0
  PROVE  Spec => []AckAttribution
<1>1. Init => AckAttribution
  BY DEF Init, AckAttribution
<1>2. QED
  BY <1>1, WaitInitially, FlightStep, WaitStep, AttributionStep, TypeCorrect, PTL
  DEF Spec

\* Both halves of AcksBelong: the wait is the transaction's own while it lasts,
\* and what is reported as acknowledged was delivered (main.c:1788-1798).
THEOREM AcksRightlyMatched ==
  ASSUME NotifyLatency = 0
  PROVE  Spec => []AcksBelong
<1>1. AckAttribution /\ WaitBelongsToTransaction => AcksBelong
  BY DEF AcksBelong
<1>2. QED
  BY <1>1, WaitEnds, AcksAttributed, PTL

-----------------------------------------------------------------------------
(* The transaction implements AckedSend.                                    *)

\* Only requested frames are on the air.
NumberInv ==
  /\ pc # "idle" => frame.seq < msgCounter
  /\ \A f \in air : f.seq < msgCounter

LEMMA NumberStep == TypeOK /\ NumberInv /\ [Next]_vars => NumberInv'
<1> SUFFICES ASSUME TypeOK, NumberInv, [Next]_vars PROVE NumberInv'
  OBVIOUS
<1> USE DEF TypeOK, NumberInv, Frames, Acks, senderVars, ackVars, mutexVars,
            radioVars, rxVars, airVars
<1>1. ASSUME NEW k \in Kinds, NEW t \in Tanks, Begin(k, t) PROVE NumberInv'
  BY <1>1 DEF Begin
<1>2. CASE TakeRequest
  BY <1>2 DEF TakeRequest, BeginDelay
<1>3. CASE RequestTimeout
  BY <1>3 DEF RequestTimeout, Leave
<1>4. CASE TakeRadio
  BY <1>4 DEF TakeRadio
<1>5. CASE RadioTimeout
  BY <1>5 DEF RadioTimeout, Leave, Cancel
<1>6. CASE Recover
  <2>1. msgCounter' = msgCounter /\ air' = air /\ (frame' = frame \/ pc' = "idle")
    BY <1>6, Zenon DEF Recover, Leave, Cancel
  <2>2. pc # "idle"
    BY <1>6 DEF Recover
  <2> QED BY <2>1, <2>2
<1>7. CASE Arm
  BY <1>7 DEF Arm
<1>8. CASE LockRadio
  BY <1>8 DEF LockRadio
<1>9. CASE LockTimeout
  BY <1>9 DEF LockTimeout, Disarm, NextAttempt, NoWait
<1>10. CASE Transmit
  BY <1>10 DEF Transmit, Disarm, NextAttempt, NoWait, OnAir
<1>11. CASE AckReceived
  BY <1>11 DEF AckReceived
<1>12. CASE AckTimeout
  BY <1>12 DEF AckTimeout, BeginDelay, Disarm, NextAttempt, NoWait
<1>13. CASE BackoffElapsed
  BY <1>13 DEF BackoffElapsed, Outlasts
<1>14. CASE Finish
  BY <1>14 DEF Finish, BeginDelay
<1>15. CASE GuardElapsed
  BY <1>15 DEF GuardElapsed, Leave, Outlasts
<1>16. CASE RxPoll
  BY <1>16 DEF RxPoll, RxUnchanged
<1>17. CASE RxTakeRadio
  BY <1>17 DEF RxTakeRadio, RxUnchanged
<1>18. CASE RxLockTimeout
  BY <1>18 DEF RxLockTimeout, RxUnchanged
<1>19. CASE RxReceive
  BY <1>19 DEF RxReceive, RxUnchanged
<1>20. CASE RxError
  BY <1>20 DEF RxError, RxUnchanged
<1>21. CASE RxAccept
  BY <1>21 DEF RxAccept, RxUnchanged
<1>22. CASE RxMatch
  BY <1>22 DEF RxMatch, NoWait, RxUnchanged
<1>23. CASE RxNotify
  BY <1>23 DEF RxNotify, RxUnchanged
<1>24. CASE HealthWake
  BY <1>24 DEF HealthWake, HealthUnchanged
<1>25. CASE HealthTakeRequest
  BY <1>25 DEF HealthTakeRequest, HealthUnchanged
<1>26. CASE HealthRequestTimeout
  BY <1>26 DEF HealthRequestTimeout, HealthUnchanged
<1>27. CASE HealthTakeRadio
  BY <1>27 DEF HealthTakeRadio, HealthUnchanged
<1>28. CASE HealthRadioTimeout
  BY <1>28 DEF HealthRadioTimeout, HealthUnchanged
<1>29. CASE HealthRecover
  BY <1>29 DEF HealthRecover, Repaired, NotRepaired, HealthUnchanged
<1>30. ASSUME NEW f \in air \cup acks \cup uart, TankReceives(f) PROVE NumberInv'
  BY <1>30 DEF TankReceives, EnvironmentUnchanged
<1>31. ASSUME NEW f \in air \cup acks \cup uart, AckArrives(f) PROVE NumberInv'
  BY <1>31 DEF AckArrives, EnvironmentUnchanged
<1>32. ASSUME NEW f \in air \cup acks \cup uart, Lose(f) PROVE NumberInv'
  BY <1>32 DEF Lose, EnvironmentUnchanged
<1>33. CASE RadioFlips
  BY <1>33 DEF RadioFlips, EnvironmentUnchanged
<1>34. CASE UNCHANGED vars
  BY <1>34 DEF vars
<1> QED
  BY <1>1, <1>2, <1>3, <1>4, <1>5, <1>6, <1>7, <1>8, <1>9, <1>10,
     <1>11, <1>12, <1>13, <1>14, <1>15, <1>16, <1>17, <1>18, <1>19,
     <1>20, <1>21, <1>22, <1>23, <1>24, <1>25, <1>26, <1>27, <1>28,
     <1>29, <1>30, <1>31, <1>32, <1>33, <1>34
  DEF Next, SenderStep, RxStep, HealthStep, Environment

LEMMA PromiseStep ==
  TypeOK /\ WaitInv /\ NumberInv /\ [Next]_vars => [Promise!Next]_(Promise!avars)
<1> SUFFICES ASSUME TypeOK, WaitInv, NumberInv, [Next]_vars
             PROVE  [Promise!Next]_(Promise!avars)
  OBVIOUS
<1> USE DEF Promise!avars, Promise!Next, senderVars, ackVars, mutexVars,
            radioVars, rxVars, airVars
<1>1. ASSUME NEW k \in Kinds, NEW t \in Tanks, Begin(k, t) PROVE [Promise!Next]_(Promise!avars)
  <2>1. Promise!Open
    BY <1>1 DEF Begin, Promise!Open
  <2>2. QED
    BY <2>1
<1>2. CASE TakeRequest
  BY <1>2 DEF TakeRequest, BeginDelay
<1>3. CASE RequestTimeout
  <2>1. Promise!Fail
    BY <1>3 DEF RequestTimeout, Leave, Promise!Fail
  <2>2. QED
    BY <2>1
<1>4. CASE TakeRadio
  BY <1>4 DEF TakeRadio
<1>5. CASE RadioTimeout
  <2>1. Promise!Fail
    BY <1>5 DEF RadioTimeout, Leave, Cancel, Promise!Fail
  <2>2. QED
    BY <2>1
<1>6. CASE Recover
  <2>1. CASE pc' = "arm" /\ UNCHANGED <<frame, attempt, success, msgCounter>>
    BY <2>1, <1>6 DEF Recover
  <2>2. CASE Cancel
    <3>1. Promise!Fail
      BY <2>2, <1>6 DEF Recover, Leave, Cancel, Promise!Fail
    <3>2. QED
      BY <3>1
  <2>3. QED
    BY <2>1, <2>2, <1>6 DEF Recover
<1>7. CASE Arm
  BY <1>7 DEF Arm
<1>8. CASE LockRadio
  BY <1>8 DEF LockRadio
<1>9. CASE LockTimeout
  BY <1>9 DEF LockTimeout, Disarm, NextAttempt, NoWait
<1>10. CASE Transmit
  BY <1>10 DEF Transmit, Disarm, NextAttempt, NoWait, OnAir
<1>11. CASE AckReceived
  BY <1>11 DEF AckReceived
<1>12. CASE AckTimeout
  BY <1>12 DEF AckTimeout, BeginDelay, Disarm, NextAttempt, NoWait
<1>13. CASE BackoffElapsed
  BY <1>13 DEF BackoffElapsed, Outlasts
<1>14. CASE Finish
  BY <1>14 DEF Finish, BeginDelay
<1>15. CASE GuardElapsed
  <2>1. pc = "guard" /\ pc' = "idle" /\ UNCHANGED <<msgCounter, delivered>>
    BY <1>15 DEF GuardElapsed, Leave
  <2>2. CASE success
    <3>1. succeeded' = succeeded \cup {frame.seq}
      BY <2>2, <1>15 DEF GuardElapsed
    <3>2. frame.seq \in delivered
      BY <2>2 DEF WaitInv
    <3>3. Promise!Succeed
      BY <2>1, <3>1, <3>2 DEF Promise!Succeed
    <3>4. QED
      BY <3>3
  <2>3. CASE ~success
    <3>1. Promise!Fail
      BY <2>1, <2>3, <1>15 DEF GuardElapsed, Promise!Fail
    <3>2. QED
      BY <3>1
  <2>4. QED
    BY <2>2, <2>3
<1>16. CASE RxPoll
  BY <1>16 DEF RxPoll, RxUnchanged
<1>17. CASE RxTakeRadio
  BY <1>17 DEF RxTakeRadio, RxUnchanged
<1>18. CASE RxLockTimeout
  BY <1>18 DEF RxLockTimeout, RxUnchanged
<1>19. CASE RxReceive
  BY <1>19 DEF RxReceive, RxUnchanged
<1>20. CASE RxError
  BY <1>20 DEF RxError, RxUnchanged
<1>21. CASE RxAccept
  BY <1>21 DEF RxAccept, RxUnchanged
<1>22. CASE RxMatch
  BY <1>22 DEF RxMatch, NoWait, RxUnchanged
<1>23. CASE RxNotify
  BY <1>23 DEF RxNotify, RxUnchanged
<1>24. CASE HealthWake
  BY <1>24 DEF HealthWake, HealthUnchanged
<1>25. CASE HealthTakeRequest
  BY <1>25 DEF HealthTakeRequest, HealthUnchanged
<1>26. CASE HealthRequestTimeout
  BY <1>26 DEF HealthRequestTimeout, HealthUnchanged
<1>27. CASE HealthTakeRadio
  BY <1>27 DEF HealthTakeRadio, HealthUnchanged
<1>28. CASE HealthRadioTimeout
  BY <1>28 DEF HealthRadioTimeout, HealthUnchanged
<1>29. CASE HealthRecover
  BY <1>29 DEF HealthRecover, Repaired, NotRepaired, HealthUnchanged
<1>30. ASSUME NEW f \in air \cup acks \cup uart, TankReceives(f) PROVE [Promise!Next]_(Promise!avars)
  <2>1. f \in air /\ delivered' = delivered \cup {f.seq}
    BY <1>30 DEF TankReceives
  <2>2. f.seq < msgCounter
    BY <2>1 DEF NumberInv
  <2>3. Promise!Deliver(f.seq)
    BY <2>1, <2>2, <1>30 DEF TankReceives, EnvironmentUnchanged, Promise!Deliver
  <2>4. QED
    BY <2>1, <2>3
<1>31. ASSUME NEW f \in air \cup acks \cup uart, AckArrives(f) PROVE [Promise!Next]_(Promise!avars)
  BY <1>31 DEF AckArrives, EnvironmentUnchanged
<1>32. ASSUME NEW f \in air \cup acks \cup uart, Lose(f) PROVE [Promise!Next]_(Promise!avars)
  BY <1>32 DEF Lose, EnvironmentUnchanged
<1>33. CASE RadioFlips
  BY <1>33 DEF RadioFlips, EnvironmentUnchanged
<1>34. CASE UNCHANGED vars
  BY <1>34 DEF vars
<1> QED
  BY <1>1, <1>2, <1>3, <1>4, <1>5, <1>6, <1>7, <1>8, <1>9, <1>10,
     <1>11, <1>12, <1>13, <1>14, <1>15, <1>16, <1>17, <1>18, <1>19,
     <1>20, <1>21, <1>22, <1>23, <1>24, <1>25, <1>26, <1>27, <1>28,
     <1>29, <1>30, <1>31, <1>32, <1>33, <1>34
  DEF Next, SenderStep, RxStep, HealthStep, Environment

\* Whatever happens on the air and in the other tasks, the callers of
\* gtw_send_to_tank and gtw_ping_tank see a behaviour of AckedSend.
THEOREM PromiseIsKept ==
  ASSUME NotifyLatency = 0
  PROVE  Spec => PromiseKept
<1>1. Init => Promise!Init /\ NumberInv
  BY ModulusAssumption DEF Init, Promise!Init, NumberInv
<1>2. QED
  BY <1>1, WaitInitially, FlightStep, WaitStep, NumberStep, PromiseStep,
     TypeCorrect, PTL
  DEF Spec, PromiseKept, Promise!Spec

-----------------------------------------------------------------------------
(* The driver below the link: what holds of E32Stream, whose variables are  *)
(* disjoint from those of LoraLink; there, a frame is one message.          *)

(* What Drop leaves of a sequence.                                          *)

LEMMA DropIs ==
  ASSUME NEW S, NEW s \in Seq(S), NEW n \in 0 .. Len(s)
  PROVE  /\ Drop(s, n) \in Seq(S)
         /\ Len(Drop(s, n)) = Len(s) - n
         /\ \A i \in 1 .. Len(s) - n : Drop(s, n)[i] = s[n + i]
<1>1. \A i \in n + 1 .. Len(s) : s[i] \in S
  BY ElementOfSeq
<1> QED BY <1>1, SubSeqProperties DEF Drop

LEMMA DropDrop ==
  ASSUME NEW S, NEW s \in Seq(S), NEW m \in 0 .. Len(s), NEW n \in 0 .. Len(s) - m
  PROVE  Drop(Drop(s, m), n) = Drop(s, m + n)
<1> DEFINE d == Drop(s, m)
           a == Drop(d, n)
           b == Drop(s, m + n)
<1>1. d \in Seq(S) /\ Len(d) = Len(s) - m /\ \A i \in 1 .. Len(s) - m : d[i] = s[m + i]
  BY DropIs
<1>2. a \in Seq(S) /\ Len(a) = Len(d) - n /\ \A i \in 1 .. Len(d) - n : a[i] = d[n + i]
  BY DropIs, <1>1
<1>3. m + n \in 0 .. Len(s)
  OBVIOUS
<1>4. b \in Seq(S) /\ Len(b) = Len(s) - (m + n) /\ \A i \in 1 .. Len(s) - (m + n) : b[i] = s[m + n + i]
  BY DropIs, <1>3
<1> HIDE DEF d, a, b
<1>5. Len(a) = Len(b) /\ \A i \in 1 .. Len(a) : a[i] = b[i]
  BY <1>1, <1>2, <1>4, LenProperties
<1>6. a = b
  BY <1>2, <1>4, <1>5, SeqEqual
<1> QED BY <1>6 DEF a, b, d

LEMMA DropConcat ==
  ASSUME NEW S, NEW s \in Seq(S), NEW c \in Seq(S), NEW n \in 0 .. Len(s)
  PROVE  Drop(s \o c, n) = Drop(s, n) \o c
<1> DEFINE d == Drop(s, n)
           a == Drop(s \o c, n)
<1>1. d \in Seq(S) /\ Len(d) = Len(s) - n /\ \A i \in 1 .. Len(s) - n : d[i] = s[n + i]
  BY DropIs
<1>2. s \o c \in Seq(S) /\ Len(s \o c) = Len(s) + Len(c)
  OBVIOUS
<1>3. a \in Seq(S) /\ Len(a) = Len(s) + Len(c) - n
      /\ \A i \in 1 .. Len(s) + Len(c) - n : a[i] = (s \o c)[n + i]
  <2>1. n \in 0 .. Len(s \o c)
    BY <1>2, LenProperties
  <2>2. /\ a \in Seq(S) /\ Len(a) = Len(s \o c) - n
        /\ \A i \in 1 .. Len(s \o c) - n : a[i] = (s \o c)[n + i]
    BY <2>1, <1>2, DropIs
  <2> QED BY <2>2, <1>2
<1> HIDE DEF d, a
<1>4. d \o c \in Seq(S) /\ Len(d \o c) = Len(s) + Len(c) - n
  <2>1. d \o c \in Seq(S) /\ Len(d \o c) = Len(d) + Len(c)
    BY <1>1, ConcatProperties
  <2>2. Len(s) \in Nat /\ Len(c) \in Nat /\ n \in Int
    BY LenProperties
  <2> QED BY <1>1, <2>1, <2>2
<1>5. \A i \in 1 .. Len(a) : a[i] = (d \o c)[i]
  <2> TAKE i \in 1 .. Len(a)
  <2>0. Len(s) \in Nat /\ Len(c) \in Nat
    BY LenProperties
  <2>1. a[i] = (s \o c)[n + i]
    BY <1>3
  <2>4. i \in Int /\ n \in Int
    BY <2>0, <1>3
  <2>2. CASE i <= Len(s) - n
    <3>1. (s \o c)[n + i] = s[n + i]
      BY <2>0, <2>2, <1>3, ConcatProperties
    <3>2. (d \o c)[i] = d[i] /\ d[i] = s[n + i]
      BY <2>0, <2>2, <1>1, <1>3, ConcatProperties
    <3> QED BY <2>1, <3>1, <3>2
  <2>3. CASE i > Len(s) - n
    <3>1. (s \o c)[n + i] = c[n + i - Len(s)]
      BY <2>0, <2>3, <1>3, ConcatProperties
    <3>2. (d \o c)[i] = c[i - (Len(s) - n)]
      <4>1. i \in 1 .. Len(d) + Len(c) /\ Len(d) = Len(s) - n /\ i > Len(d)
        BY <2>0, <2>3, <2>4, <1>1, <1>3
      <4>2. (d \o c)[i] = c[i - Len(d)]
        <5>1. d \in Seq(S)
          BY <1>1
        <5> QED BY <4>1, <5>1, ConcatProperties
      <4> QED BY <4>1, <4>2
    <3> QED BY <2>0, <2>1, <3>1, <3>2, <1>3
  <2>5. i <= Len(s) - n \/ i > Len(s) - n
    BY <2>0, <2>4
  <2> QED BY <2>2, <2>3, <2>5
<1>6. a = d \o c
  BY <1>3, <1>4, <1>5, SeqEqual
<1> QED BY <1>6 DEF a, d

LEMMA DropEnds ==
  ASSUME NEW S, NEW s \in Seq(S)
  PROVE  Drop(s, 0) = s /\ Drop(s, Len(s)) = << >>
<1>1. Drop(s, 0) = s
  BY SubSeqFull DEF Drop
<1>2. Drop(s, Len(s)) = << >>
  BY SubSeqEmpty, LenProperties DEF Drop
<1> QED BY <1>1, <1>2

LEMMA DropPast ==
  ASSUME NEW S, NEW s \in Seq(S), NEW c \in Seq(S)
  PROVE  Drop(s \o c, Len(s)) = c
<1>1. Drop(s \o c, Len(s)) = Drop(s, Len(s)) \o c
  <2>1. Len(s) \in 0 .. Len(s)
    BY LenProperties
  <2> QED BY <2>1, DropConcat
<1> QED BY <1>1, DropEnds, ConcatEmptySeq

LEMMA TailIsDrop ==
  ASSUME NEW S, NEW s \in Seq(S), s # << >>
  PROVE  Tail(s) = Drop(s, 1)
BY TailIsSubSeq DEF Drop

\* The first preamble is found.
LEMMA FirstPreamble ==
  ASSUME NEW s \in Seq(Bytes)
  PROVE  \E k \in 0 .. Len(s) :
           /\ FromPreamble(s) = Drop(s, k)
           /\ \A i \in 1 .. k : s[i] # Preamble
           /\ k < Len(s) => s[k + 1] = Preamble
<1> DEFINE found == {i \in DOMAIN s : s[i] = Preamble}
<1>0. DOMAIN s = 1 .. Len(s) /\ Len(s) \in Nat
  BY LenProperties
<1>1. CASE found = {}
  <2>1. FromPreamble(s) = Drop(s, Len(s))
    BY <1>1, DropEnds DEF FromPreamble
  <2>2. \A i \in 1 .. Len(s) : s[i] # Preamble
    BY <1>0, <1>1
  <2> QED BY <2>1, <2>2, <1>0
<1>2. CASE found # {}
  <2>1. found \subseteq Nat
    BY <1>0
  <2>2. \E i \in found : \A j \in found : ~(<<j, i>> \in OpToRel(<, Nat))
    BY <1>2, <2>1, NatLessThanWellFounded, WFMin
  <2>3. \E i \in found : \A j \in found : i <= j
    <3>1. PICK i \in found : \A j \in found : ~(<<j, i>> \in OpToRel(<, Nat))
      BY <2>2
    <3>2. ASSUME NEW j \in found PROVE i <= j
      <4>1. i \in Nat /\ j \in Nat
        BY <2>1
      <4>2. j < i => <<j, i>> \in OpToRel(<, Nat)
        BY <4>1 DEF OpToRel
      <4>3. ~(<<j, i>> \in OpToRel(<, Nat))
        BY <3>1
      <4>4. ~(j < i)
        BY <4>2, <4>3
      <4> QED BY <4>1, <4>4
    <3> QED BY <3>2
  <2> DEFINE first == CHOOSE i \in found : \A j \in found : i <= j
  <2>4. first \in found /\ \A j \in found : first <= j
    BY <2>3
  <2>5. FromPreamble(s) = Drop(s, first - 1)
    BY <1>2 DEF FromPreamble
  <2> HIDE DEF first
  <2>6. first \in 1 .. Len(s) /\ s[first] = Preamble
    BY <2>4, <1>0
  <2>7. \A i \in 1 .. first - 1 : s[i] # Preamble
    BY <2>4, <2>6, <1>0
  <2>8. first - 1 \in 0 .. Len(s) /\ (first - 1) + 1 = first
    BY <2>6
  <2> QED BY <2>5, <2>6, <2>7, <2>8
<1> QED BY <1>1, <1>2

\* The length that a header announces.
LEMMA Announced ==
  ASSUME NEW s \in Seq(Bytes), HeaderComplete(s)
  PROVE  /\ FrameLen(s) \in Nat /\ FrameLen(s) >= HeaderLen + CrcLen
         /\ ~BadLength(s) => FrameLen(s) <= MaxLen
<1>1. HeaderLen \in Nat /\ LenOffset + 1 \in 1 .. HeaderLen /\ CrcLen \in Nat
  BY FrameAssumption
<1>2. LenOffset + 1 \in 1 .. Len(s)
  BY <1>1, LenProperties DEF HeaderComplete
<1>3. s[LenOffset + 1] \in Nat
  BY <1>2, ElementOfSeq, ByteAssumption
<1>4. MaxLen \in Nat
  BY FrameAssumption
<1> QED BY <1>1, <1>3, <1>4 DEF FrameLen, BadLength

\* A whole frame needs no more bytes.
LEMMA WholeIsDecided ==
  ASSUME NEW s \in Seq(Bytes), WholeFrame(s)
  PROVE  ~Undecided(s)
<1>1. FrameLen(s) \in Nat /\ Len(s) \in Nat
  BY Announced, LenProperties DEF WholeFrame
<1> QED BY <1>1 DEF WholeFrame, Undecided

\* What was decided of a frame stays so when more bytes come.
LEMMA DecidedForGood ==
  ASSUME NEW s \in Seq(Bytes), NEW c \in Seq(Bytes), ~Undecided(s)
  PROVE  /\ ~Undecided(s \o c)
         /\ WholeFrame(s \o c) <=> WholeFrame(s)
<1> DEFINE t == s \o c
           n == FrameLen(s)
<1>1. t \in Seq(Bytes) /\ Len(t) = Len(s) + Len(c) /\ Len(s) \in Nat /\ Len(c) \in Nat
  OBVIOUS
<1>2. HeaderLen \in Nat /\ LenOffset + 1 \in 1 .. HeaderLen /\ CrcLen \in Nat /\ CrcLen > 0
  BY FrameAssumption
<1>3. Len(s) >= HeaderLen
  BY DEF Undecided, HeaderComplete
<1>4. t[LenOffset + 1] = s[LenOffset + 1] /\ s[LenOffset + 1] \in Nat
  <2>1. LenOffset + 1 \in 1 .. Len(s)
    BY <1>1, <1>2, <1>3
  <2>2. s[LenOffset + 1] \in Bytes
    BY <2>1, ElementOfSeq
  <2>3. t[LenOffset + 1] = s[LenOffset + 1]
    BY <2>1, <1>1, ConcatProperties
  <2> QED BY <2>2, <2>3, ByteAssumption
<1>5. FrameLen(t) = n /\ (BadLength(t) <=> BadLength(s)) /\ n \in Nat
      /\ n >= HeaderLen + CrcLen
  BY <1>2, <1>4 DEF FrameLen, BadLength
<1> HIDE DEF t, n
<1>6. CASE BadLength(s)
  BY <1>1, <1>2, <1>3, <1>5, <1>6 DEF Undecided, WholeFrame, HeaderComplete, t
<1>7. CASE ~BadLength(s)
  <2>1. Len(s) >= n
    BY <1>7, <1>1, <1>5 DEF Undecided, HeaderComplete, n
  <2>2. SubSeq(t, n - CrcLen + 1, n) = SubSeq(s, n - CrcLen + 1, n)
    <3>1. n - CrcLen + 1 \in 1 .. Len(s) /\ n \in 1 .. Len(s)
      BY <1>1, <1>2, <1>5, <2>1
    <3> QED BY <3>1, SubSeqOfConcat1 DEF t
  <2>3. SubSeq(t, 1, n - CrcLen) = SubSeq(s, 1, n - CrcLen)
    <3>1. 1 \in 1 .. Len(s) /\ n - CrcLen \in 1 .. Len(s)
      BY <1>1, <1>2, <1>5, <2>1
    <3> QED BY <3>1, SubSeqOfConcat1 DEF t
  <2>4. GoodChecksum(t, n) <=> GoodChecksum(s, n)
    BY <2>2, <2>3 DEF GoodChecksum
  <2>5. Len(t) >= HeaderLen /\ Len(t) >= n
    BY <1>1, <1>2, <1>3, <1>5, <2>1
  <2>6. ~Undecided(t)
    BY <2>5, <1>5, <1>1 DEF Undecided, HeaderComplete
  <2>7. WholeFrame(t) <=> WholeFrame(s)
    BY <2>1, <2>4, <2>5, <1>3, <1>5 DEF WholeFrame, HeaderComplete, n
  <2> QED BY <2>6, <2>7 DEF t
<1> QED BY <1>6, <1>7

-----------------------------------------------------------------------------
(* The inductive invariant of the stream.                                   *)

StreamFlags == late \in BOOLEAN /\ fresh \in BOOLEAN /\ silent \in BOOLEAN
StreamTyped ==
  /\ stream \in Seq(Bytes) /\ Len(stream) <= StreamSize
  /\ stage \in {"idle", "loop", "read"}
  /\ age \in Nat
  /\ heard \in Seq(Bytes)
  /\ frames \subseteq [at : Nat \ {0}, len : HeaderLen .. MaxLen]

\* Where the call reads on, the stream begins with the preamble of a frame that
\* is not complete, or is empty.
ReadsInFrame ==
  stage = "read" =>
    Undecided(stream) /\ (stream = << >> \/ stream[1] = Preamble)

\* What was consumed was decided: no frame begins there, or one was returned.
Rest(p) == Drop(heard, p - 1)
NoFrameAt(p) ==
  \/ heard[p] # Preamble
  \/ ~Undecided(Rest(p)) /\ ~WholeFrame(Rest(p))
InFrame(p) == \E f \in frames : p \in Inside(f)
AllDecided == \A p \in 1 .. Consumed : NoFrameAt(p) \/ InFrame(p)

\* What was returned was there, and is consumed.
FramesThere ==
  \A f \in frames : FrameAt(heard, f.at) /\ f.at + f.len - 1 <= Consumed
FramesApart ==
  \A f, g \in frames : f # g => Inside(f) \cap Inside(g) = {}

Cut == StreamIsTail /\ FramesThere /\ FramesApart /\ AllDecided
StreamInv == StreamFlags /\ StreamTyped /\ ReadsInFrame /\ Cut

LEMMA StreamFlagsStep == StreamFlags /\ [StreamNext]_streamVars => StreamFlags'
BY DEF StreamFlags, StreamNext, streamVars, Call, Scan, Read, ReadsNothing,
       ReadFails, TimesOut, Deadline, Flush, FallSilent

\* A step that leaves the bytes alone.
LEMMA SameCut ==
  Cut /\ UNCHANGED <<stream, heard, frames>> => Cut'
BY DEF Cut, StreamIsTail, FramesThere, FramesApart, AllDecided, NoFrameAt, InFrame,
       Rest, Consumed, FrameAt

\* Nothing was heard: nothing to find.
LEMMA EmptiedCut ==
  ASSUME Emptied
  PROVE  Cut' /\ stream' \in Seq(Bytes) /\ Len(stream') <= StreamSize
         /\ heard' \in Seq(Bytes) /\ frames' = {} /\ age' = 0
<1>1. stream' = << >> /\ heard' = << >> /\ frames' = {} /\ age' = 0
  BY DEF Emptied
<1>2. Len(stream') = 0 /\ Len(heard') = 0 /\ Consumed' = 0
  BY <1>1, EmptySeq DEF Consumed
<1>3. Drop(<< >>, 0) = << >>
  BY SubSeqEmpty DEF Drop
<1>4. StreamIsTail'
  BY <1>1, <1>2, <1>3 DEF StreamIsTail
<1>5. FramesThere' /\ FramesApart' /\ AllDecided'
  BY <1>1, <1>2 DEF FramesThere, FramesApart, AllDecided
<1> QED BY <1>1, <1>2, <1>4, <1>5, SizeAssumption DEF Cut

\* Less than a frame is left before a read, so that a chunk always fits.
LEMMA ReadStep ==
  ASSUME StreamTyped, ReadsInFrame, Cut, Read
  PROVE  \E chunk \in Seq(Bytes) :
           /\ Len(chunk) > 0
           /\ stream' = stream \o chunk
           /\ heard' = heard \o chunk
           /\ Len(stream') <= StreamSize
<1>a. PICK n \in 1 .. ChunkSize : \E c \in [1 .. n -> Bytes] :
        ReadAppends(c) /\ heard' = heard \o c
  BY DEF Read
<1>1. PICK chunk \in [1 .. n -> Bytes] : ReadAppends(chunk) /\ heard' = heard \o chunk
  BY <1>a
<1>2. chunk \in Seq(Bytes) /\ Len(chunk) = n /\ n \in Nat /\ n > 0 /\ n <= ChunkSize
  BY <1>1, SizeAssumption
<1>3. Undecided(stream) /\ Len(stream) \in Nat
  BY LenProperties DEF Read, ReadsInFrame, StreamTyped
<1>4. Len(stream) <= MaxLen - 1
  <2>0. HeaderLen \in Nat /\ MaxPayload \in Nat /\ CrcLen \in Nat /\ CrcLen > 0
        /\ MaxLen = HeaderLen + MaxPayload + CrcLen /\ LenOffset + 1 \in 1 .. HeaderLen
    BY FrameAssumption
  <2>1. CASE Len(stream) < HeaderLen
    BY <2>0, <2>1, <1>3
  <2>2. CASE Len(stream) >= HeaderLen
    <3>1. ~BadLength(stream) /\ Len(stream) < FrameLen(stream)
      BY <2>2, <1>3 DEF Undecided, HeaderComplete
    <3>3. FrameLen(stream) \in Nat /\ FrameLen(stream) <= MaxLen
      BY <2>2, <3>1, Announced DEF HeaderComplete, StreamTyped
    <3> QED BY <2>0, <3>1, <3>3, <1>3
  <2> QED BY <2>0, <2>1, <2>2, <1>3
<1>5. Len(stream) + n <= StreamSize
  BY <1>2, <1>3, <1>4, SizeAssumption, FrameAssumption
<1>6. stream' = stream \o chunk
  <2>1. ~(Len(stream) + Len(chunk) > StreamSize)
    BY <1>2, <1>3, <1>5, SizeAssumption
  <2> QED BY <1>1, <2>1 DEF ReadAppends, WithRoom
<1>7. Len(stream') = Len(stream) + n
  BY <1>2, <1>6, ConcatProperties DEF StreamTyped
<1> QED BY <1>1, <1>2, <1>5, <1>6, <1>7

\* New bytes at the end change nothing that was decided.
LEMMA ReadCut ==
  ASSUME StreamTyped, Cut, NEW chunk \in Seq(Bytes),
         stream' = stream \o chunk, heard' = heard \o chunk, frames' = frames
  PROVE  Cut'
<1> DEFINE C == Consumed
<1>1. stream \in Seq(Bytes) /\ heard \in Seq(Bytes) /\ Len(stream) \in Nat /\ Len(heard) \in Nat
      /\ Len(chunk) \in Nat
  BY LenProperties DEF StreamTyped
<1>2. Len(stream') = Len(stream) + Len(chunk) /\ Len(heard') = Len(heard) + Len(chunk)
  BY <1>1, ConcatProperties
<1>3. Consumed' = C /\ C \in 0 .. Len(heard) /\ Len(stream) <= Len(heard)
  BY <1>1, <1>2 DEF Consumed, Cut, StreamIsTail
<1>4. StreamIsTail'
  <2>1. Drop(heard', C) = Drop(heard, C) \o chunk
    BY <1>1, <1>3, DropConcat
  <2>2. stream' = Drop(heard', Consumed')
    BY <2>1, <1>3 DEF Cut, StreamIsTail
  <2> QED BY <1>1, <1>2, <1>3, <2>2 DEF StreamIsTail
<1>5. ASSUME NEW p \in 1 .. C
      PROVE  /\ heard'[p] = heard[p]
             /\ Rest(p) \in Seq(Bytes)
             /\ Drop(heard', p - 1) = Rest(p) \o chunk
  <2>1. p - 1 \in 0 .. Len(heard) /\ p \in 1 .. Len(heard)
    BY <1>1, <1>3
  <2>2. heard'[p] = heard[p]
    BY <2>1, <1>1, ConcatProperties
  <2>3. Rest(p) \in Seq(Bytes)
    BY <2>1, <1>1, DropIs DEF Rest
  <2>4. Drop(heard', p - 1) = Rest(p) \o chunk
    BY <2>1, <1>1, DropConcat DEF Rest
  <2> QED BY <2>2, <2>3, <2>4
<1>6. ASSUME NEW f \in frames
      PROVE  FrameAt(heard, f.at)' /\ f.at + f.len - 1 <= Consumed'
  <2>1. f.at \in Nat /\ f.at > 0 /\ f.len \in Nat /\ f.len >= 1
    <3>1. f \in [at : Nat \ {0}, len : HeaderLen .. MaxLen]
      BY DEF StreamTyped
    <3> QED BY <3>1, FrameAssumption
  <2>2. f.at + f.len - 1 <= C /\ FrameAt(heard, f.at)
    BY DEF Cut, FramesThere
  <2>3. f.at \in 1 .. C
    BY <2>1, <2>2, <1>3
  <2>4. heard[f.at] = Preamble /\ WholeFrame(Rest(f.at))
    BY <2>2 DEF FrameAt, Rest
  <2>5. ~Undecided(Rest(f.at))
    BY <2>3, <2>4, <1>5, WholeIsDecided
  <2>6. WholeFrame(Rest(f.at) \o chunk)
    BY <2>3, <2>4, <2>5, <1>5, DecidedForGood
  <2> QED BY <2>2, <2>3, <2>4, <2>6, <1>3, <1>5 DEF FrameAt
<1>7. FramesThere'
  BY <1>6 DEF FramesThere
<1>8. FramesApart'
  BY DEF Cut, FramesApart
<1>9. AllDecided'
  <2> SUFFICES ASSUME NEW p \in 1 .. C PROVE NoFrameAt(p)' \/ InFrame(p)'
    BY <1>3 DEF AllDecided
  <2>1. NoFrameAt(p) \/ InFrame(p)
    BY DEF Cut, AllDecided
  <2>2. InFrame(p) => InFrame(p)'
    BY DEF InFrame
  <2>3. heard[p] # Preamble => NoFrameAt(p)'
    BY <1>5 DEF NoFrameAt
  <2>4. ~Undecided(Rest(p)) /\ ~WholeFrame(Rest(p)) => NoFrameAt(p)'
    <3> SUFFICES ASSUME ~Undecided(Rest(p)), ~WholeFrame(Rest(p)) PROVE NoFrameAt(p)'
      OBVIOUS
    <3>1. Rest(p) \in Seq(Bytes) /\ Drop(heard', p - 1) = Rest(p) \o chunk
      BY <1>5
    <3>2. ~Undecided(Rest(p) \o chunk) /\ ~WholeFrame(Rest(p) \o chunk)
      BY <3>1, DecidedForGood
    <3> QED BY <3>1, <3>2 DEF NoFrameAt, Rest
  <2> QED BY <2>1, <2>2, <2>3, <2>4 DEF NoFrameAt
<1> QED BY <1>4, <1>7, <1>8, <1>9 DEF Cut

\* The call goes on in the stream: what it leaves behind is decided.
LEMMA Advance ==
  ASSUME StreamTyped, Cut, heard' = heard,
         NEW n \in 0 .. Len(stream), stream' = Drop(stream, n),
         frames \subseteq frames',
         frames' \subseteq [at : Nat \ {0}, len : HeaderLen .. MaxLen],
         \A f, g \in frames' \ frames : f = g,
         \A f \in frames' \ frames :
           /\ FrameAt(heard, f.at)
           /\ f.at > Consumed /\ f.at + f.len - 1 <= Consumed + n,
         \A p \in Consumed + 1 .. Consumed + n : NoFrameAt(p) \/ InFrame(p)'
  PROVE  Cut' /\ stream' \in Seq(Bytes) /\ Len(stream') <= StreamSize
<1> DEFINE C == Consumed
<1>1. stream \in Seq(Bytes) /\ heard \in Seq(Bytes) /\ Len(stream) \in Nat /\ Len(heard) \in Nat
      /\ Len(stream) <= StreamSize
  BY LenProperties DEF StreamTyped
<1>2. stream' \in Seq(Bytes) /\ Len(stream') = Len(stream) - n
  BY <1>1, DropIs
<1>3. Consumed' = C + n /\ C \in 0 .. Len(heard) /\ Len(stream) = Len(heard) - C
      /\ stream = Drop(heard, C)
  BY <1>1, <1>2 DEF Consumed, Cut, StreamIsTail
<1>4. StreamIsTail'
  <2>1. n \in 0 .. Len(heard) - C
    BY <1>1, <1>3
  <2>2. stream' = Drop(heard, C + n)
    BY <2>1, <1>1, <1>3, DropDrop
  <2>3. Len(stream') <= Len(heard)
    BY <1>1, <1>2, <1>3
  <2> QED BY <1>3, <2>2, <2>3 DEF StreamIsTail
<1>5. ASSUME NEW f \in frames' PROVE FrameAt(heard, f.at) /\ f.at + f.len - 1 <= C + n
  <2>1. CASE f \in frames
    <3>1. FrameAt(heard, f.at) /\ f.at + f.len - 1 <= C
      BY <2>1 DEF Cut, FramesThere
    <3>2. f.at \in Int /\ f.len \in Int
      BY <1>5, FrameAssumption
    <3> QED BY <3>1, <3>2, <1>3
  <2> QED BY <2>1
<1>6. FramesThere'
  BY <1>3, <1>5 DEF FramesThere, FrameAt
<1>7. ASSUME NEW f \in frames, NEW g \in frames' \ frames
      PROVE  Inside(f) \cap Inside(g) = {}
  <2>1. f.at + f.len - 1 <= C /\ g.at > C
    BY DEF Cut, FramesThere
  <2>2. f.at \in Int /\ f.len \in Int /\ g.at \in Int /\ g.len \in Int
    BY FrameAssumption
  <2> QED BY <2>1, <2>2, <1>3 DEF Inside
<1>8. FramesApart'
  <2> SUFFICES ASSUME NEW f \in frames', NEW g \in frames', f # g
               PROVE  Inside(f) \cap Inside(g) = {}
    BY DEF FramesApart, Inside
  <2>1. CASE f \in frames /\ g \in frames
    BY <2>1 DEF Cut, FramesApart
  <2>2. CASE f \in frames /\ g \notin frames
    BY <2>2, <1>7
  <2>3. CASE f \notin frames /\ g \in frames
    BY <2>3, <1>7
  <2> QED BY <2>1, <2>2, <2>3
<1>9. AllDecided'
  <2> SUFFICES ASSUME NEW p \in 1 .. C + n PROVE NoFrameAt(p)' \/ InFrame(p)'
    BY <1>3 DEF AllDecided
  <2>1. NoFrameAt(p) => NoFrameAt(p)'
    BY DEF NoFrameAt, Rest
  <2>2. InFrame(p) => InFrame(p)'
    BY DEF InFrame, Inside
  <2>3. CASE p <= C
    BY <2>1, <2>2, <2>3, <1>3 DEF Cut, AllDecided
  <2>4. CASE p > C
    BY <2>1, <2>4, <1>3
  <2> QED BY <2>3, <2>4, <1>3
<1>10. Len(stream') <= StreamSize
  <2>1. n \in Nat /\ StreamSize \in Nat
    BY <1>1, SizeAssumption
  <2> QED BY <1>1, <1>2, <2>1
<1> QED BY <1>2, <1>4, <1>6, <1>8, <1>9, <1>10 DEF Cut

\* A round of the loop: what is before the preamble, and the byte or the frame at
\* it.
LEMMA ScanCut ==
  ASSUME StreamTyped, Cut, Scan
  PROVE  /\ Cut' /\ ReadsInFrame'
         /\ stream' \in Seq(Bytes) /\ Len(stream') <= StreamSize
         /\ frames' \subseteq [at : Nat \ {0}, len : HeaderLen .. MaxLen]
<1> DEFINE C == Consumed
           s == FromPreamble(stream)
<1>1. stream \in Seq(Bytes) /\ heard \in Seq(Bytes) /\ Len(stream) \in Nat /\ Len(heard) \in Nat
  BY LenProperties DEF StreamTyped
<1>2. C \in 0 .. Len(heard) /\ Len(stream) = Len(heard) - C /\ stream = Drop(heard, C)
  BY <1>1 DEF Consumed, Cut, StreamIsTail
<1>3. PICK k \in 0 .. Len(stream) :
        /\ s = Drop(stream, k)
        /\ \A i \in 1 .. k : stream[i] # Preamble
        /\ k < Len(stream) => stream[k + 1] = Preamble
  BY <1>1, FirstPreamble
<1>4. s \in Seq(Bytes) /\ Len(s) = Len(stream) - k
      /\ \A i \in 1 .. Len(stream) - k : s[i] = stream[k + i]
  <2>1. s = Drop(stream, k)
    BY <1>3
  <2> HIDE DEF s
  <2> QED BY <2>1, <1>1, DropIs
<1>5. s = Drop(heard, C + k)
  <2>1. k \in 0 .. Len(heard) - C
    BY <1>2, <1>3
  <2> QED BY <2>1, <1>1, <1>2, <1>3, DropDrop
<1> HIDE DEF s
<1>6. \A i \in 1 .. Len(stream) : heard[C + i] = stream[i]
  BY <1>1, <1>2, DropIs
<1>7. \A p \in C + 1 .. C + k : NoFrameAt(p)
  <2> TAKE p \in C + 1 .. C + k
  <2>1. p - C \in 1 .. k /\ p - C \in 1 .. Len(stream) /\ C + (p - C) = p
    BY <1>1, <1>2
  <2> QED BY <2>1, <1>3, <1>6 DEF NoFrameAt
<1>8. Len(s) > 0 => s[1] = Preamble /\ heard[C + k + 1] = Preamble
  <2> SUFFICES ASSUME Len(s) > 0 PROVE s[1] = Preamble /\ heard[C + k + 1] = Preamble
    OBVIOUS
  <2>1. k < Len(stream) /\ 1 \in 1 .. Len(stream) - k /\ k + 1 \in 1 .. Len(stream)
    BY <1>1, <1>4
  <2>2. C + (k + 1) = C + k + 1
    BY <1>2
  <2> QED BY <2>1, <2>2, <1>3, <1>4, <1>6
<1>9. heard' = heard /\ (Waits(s) \/ Resyncs(s) \/ Returns(s)) /\ stage = "loop"
  BY DEF Scan, s
<1>10. CASE Waits(s)
  <2>1. frames' = frames /\ stream' = s /\ Undecided(s) /\ stage' = "read"
    BY <1>10 DEF Waits
  <2>2. stream' = Drop(stream, k)
    BY <2>1, <1>3
  <2>3. frames' \subseteq [at : Nat \ {0}, len : HeaderLen .. MaxLen]
    BY <2>1 DEF StreamTyped
  <2>4. Cut' /\ stream' \in Seq(Bytes) /\ Len(stream') <= StreamSize
    BY <2>1, <2>2, <2>3, <1>7, <1>9, Advance
  <2>5. s = << >> \/ Len(s) > 0
    BY <1>4, EmptySeq
  <2>6. Undecided(stream)'
    BY <2>1 DEF Undecided, HeaderComplete, BadLength, FrameLen
  <2>7. ReadsInFrame'
    BY <2>1, <2>5, <2>6, <1>8 DEF ReadsInFrame
  <2> QED BY <2>3, <2>4, <2>7
<1>11. CASE Resyncs(s)
  <2>1. frames' = frames /\ stream' = Tail(s) /\ ~Undecided(s) /\ ~WholeFrame(s)
        /\ stage' = "loop"
    BY <1>9, <1>11 DEF Resyncs
  <2>2. Len(s) > 0
    BY <2>1, <1>1, <1>3, <1>4, FrameAssumption DEF Undecided, HeaderComplete
  <2>3. stream' = Drop(stream, k + 1) /\ k + 1 \in 0 .. Len(stream)
    <3>1. s # << >>
      BY <2>2, EmptySeq
    <3>2. Tail(s) = Drop(s, 1)
      BY <3>1, <1>4, TailIsDrop
    <3>3. 1 \in 0 .. Len(stream) - k /\ k + 1 \in 0 .. Len(stream)
      BY <2>2, <1>1, <1>3, <1>4
    <3> QED BY <2>1, <3>2, <3>3, <1>1, <1>3, DropDrop
  <2>4. ASSUME NEW p \in Nat, p = C + k + 1 PROVE NoFrameAt(p)
    <3>1. p - 1 = C + k
      BY <2>4, <1>2
    <3>2. Rest(p) = Drop(heard, p - 1)
      BY DEF Rest
    <3>3. Rest(p) = s
      BY <3>1, <3>2, <1>5
    <3> QED BY <3>3, <2>1 DEF NoFrameAt
  <2>5. \A p \in C + 1 .. C + (k + 1) : NoFrameAt(p)
    <3> TAKE p \in C + 1 .. C + (k + 1)
    <3>1. p \in C + 1 .. C + k \/ p = C + k + 1
      BY <1>2
    <3>2. p \in Nat
      BY <1>2
    <3> QED BY <3>1, <3>2, <2>4, <1>7
  <2>6. frames' \subseteq [at : Nat \ {0}, len : HeaderLen .. MaxLen]
    BY <2>1 DEF StreamTyped
  <2>7. Cut' /\ stream' \in Seq(Bytes) /\ Len(stream') <= StreamSize
    BY <2>1, <2>3, <2>5, <2>6, <1>9, Advance
  <2> QED BY <2>1, <2>6, <2>7 DEF ReadsInFrame
<1>12. CASE Returns(s)
  <2> DEFINE n == FrameLen(s)
             new == [at |-> Len(heard) - Len(s) + 1, len |-> n]
  <2>1. frames' = frames \cup {new} /\ stream' = Drop(s, n) /\ WholeFrame(s)
        /\ stage' = "idle"
    BY <1>12 DEF Returns
  <2>2. n \in Nat /\ n >= HeaderLen /\ n <= MaxLen /\ n <= Len(s) /\ n > 0
    <3>1. HeaderComplete(s) /\ ~BadLength(s) /\ Len(s) >= n
      BY <2>1 DEF WholeFrame
    <3>2. n \in Nat /\ n >= HeaderLen + CrcLen /\ n <= MaxLen
      BY <3>1, <1>4, Announced
    <3>3. HeaderLen \in Nat /\ CrcLen \in Nat /\ CrcLen > 0
      BY FrameAssumption
    <3> QED BY <3>1, <3>2, <3>3
  <2> HIDE DEF n
  <2>3. Len(heard) - Len(s) + 1 = C + k + 1
    <3>1. k \in Int /\ C \in Int /\ Len(s) = Len(heard) - C - k
      BY <1>1, <1>2, <1>3, <1>4
    <3> HIDE DEF C
    <3> QED BY <3>1, <1>1
  <2>4. new.at = C + k + 1 /\ new.len = n
    BY <2>3
  <2>5. new \in [at : Nat \ {0}, len : HeaderLen .. MaxLen]
    BY <2>2, <2>3, <1>2, <1>3, FrameAssumption
  <2> HIDE DEF new
  <2>6. stream' = Drop(stream, k + n) /\ k + n \in 0 .. Len(stream)
    <3>1. n \in 0 .. Len(stream) - k /\ k + n \in 0 .. Len(stream)
      BY <2>2, <1>1, <1>3, <1>4
    <3> QED BY <2>1, <3>1, <1>1, <1>3, DropDrop
  <2>7. frames' \subseteq [at : Nat \ {0}, len : HeaderLen .. MaxLen]
    BY <2>1, <2>5 DEF StreamTyped
  <2>8. FrameAt(heard, new.at)
    <3>1. Len(s) > 0
      BY <2>2, <1>1, <1>3, <1>4
    <3>2. ASSUME NEW p \in Nat, p = C + k + 1 PROVE FrameAt(heard, p)
      <4>1. p - 1 = C + k
        BY <3>2, <1>2
      <4>2. Drop(heard, p - 1) = s
        BY <4>1, <1>5
      <4>3. heard[p] = Preamble
        BY <3>1, <3>2, <1>8
      <4> QED BY <4>2, <4>3, <2>1 DEF FrameAt
    <3>3. new.at \in Nat
      BY <2>5 DEF new
    <3> QED BY <3>2, <3>3, <2>4
  <2>9. new.at > C /\ new.at + new.len - 1 <= C + (k + n)
    BY <2>2, <2>4, <1>2
  <2>10. \A p \in C + 1 .. C + (k + n) : NoFrameAt(p) \/ InFrame(p)'
    <3> TAKE p \in C + 1 .. C + (k + n)
    <3>1. CASE p \in C + 1 .. C + k
      BY <3>1, <1>7
    <3>2. CASE p > C + k
      <4>1. p \in new.at .. new.at + new.len - 1
        BY <3>2, <2>2, <2>4, <1>2
      <4> QED BY <4>1, <2>1 DEF InFrame, Inside
    <3> QED BY <3>1, <3>2, <2>2, <1>2
  <2>11. Cut' /\ stream' \in Seq(Bytes) /\ Len(stream') <= StreamSize
    <3>1. \A f \in frames' \ frames : f = new
      BY <2>1
    <3> QED BY <3>1, <2>1, <2>6, <2>7, <2>8, <2>9, <2>10, <1>9, Advance
  <2> QED BY <2>1, <2>7, <2>11 DEF ReadsInFrame
<1> QED BY <1>9, <1>10, <1>11, <1>12

LEMMA SameReads ==
  ReadsInFrame /\ UNCHANGED <<stream, stage>> => ReadsInFrame'
BY DEF ReadsInFrame, Undecided, HeaderComplete, BadLength, FrameLen

LEMMA SameStream ==
  ASSUME StreamTyped, Cut, UNCHANGED <<stream, heard, frames>>,
         stage' \in {"idle", "loop", "read"}, age' \in Nat
  PROVE  StreamTyped' /\ Cut'
<1>1. StreamTyped'
  BY DEF StreamTyped
<1> QED BY <1>1, SameCut

LEMMA StreamStart == StreamInit => StreamInv
<1> SUFFICES ASSUME StreamInit PROVE StreamInv
  OBVIOUS
<1>1. stream = << >> /\ heard = << >> /\ frames = {} /\ stage = "idle" /\ age = 0
  BY DEF StreamInit
<1>2. Len(stream) = 0 /\ Len(heard) = 0 /\ Consumed = 0
  BY <1>1, EmptySeq DEF Consumed
<1>3. Drop(<< >>, 0) = << >>
  BY SubSeqEmpty DEF Drop
<1>4. StreamIsTail
  BY <1>1, <1>2, <1>3 DEF StreamIsTail
<1>5. FramesThere /\ FramesApart /\ AllDecided
  BY <1>1, <1>2 DEF FramesThere, FramesApart, AllDecided
<1>6. StreamTyped
  BY <1>1, <1>2, SizeAssumption DEF StreamTyped
<1>7. StreamFlags
  BY DEF StreamFlags, StreamInit
<1>8. ReadsInFrame
  BY <1>1 DEF ReadsInFrame
<1> QED BY <1>4, <1>5, <1>6, <1>7, <1>8 DEF StreamInv, Cut

LEMMA StreamStep ==
  ASSUME StreamInv, [StreamNext]_streamVars
  PROVE  StreamInv'
<1>1. StreamFlags' /\ StreamTyped /\ ReadsInFrame /\ Cut
  BY StreamFlagsStep DEF StreamInv
<1>2. age \in Nat /\ stage \in {"idle", "loop", "read"}
  BY <1>1 DEF StreamTyped
<1> SUFFICES StreamTyped' /\ ReadsInFrame' /\ Cut'
  BY <1>1 DEF StreamInv
<1>3. CASE Call
  <2>1. UNCHANGED <<stream, heard, frames, age>> /\ stage' = "loop"
    BY <1>3 DEF Call
  <2>2. StreamTyped' /\ Cut'
    BY <2>1, <1>1, <1>2, SameStream
  <2>3. ReadsInFrame'
    BY <2>1 DEF ReadsInFrame
  <2> QED BY <2>2, <2>3
<1>4. CASE Scan
  <2>1. /\ Cut' /\ ReadsInFrame'
        /\ stream' \in Seq(Bytes) /\ Len(stream') <= StreamSize
        /\ frames' \subseteq [at : Nat \ {0}, len : HeaderLen .. MaxLen]
    BY <1>1, <1>4, ScanCut
  <2>2. heard' = heard /\ age' = age /\ stage' \in {"idle", "loop", "read"}
    BY <1>4, <1>2 DEF Scan, Waits, Resyncs, Returns
  <2>3. StreamTyped'
    BY <2>1, <2>2, <1>1 DEF StreamTyped
  <2> QED BY <2>1, <2>3
<1>5. CASE Read
  <2>1. PICK chunk \in Seq(Bytes) :
          Len(chunk) > 0 /\ stream' = stream \o chunk /\ heard' = heard \o chunk
          /\ Len(stream') <= StreamSize
    BY <1>1, <1>5, ReadStep
  <2>2. frames' = frames /\ stage' = "loop" /\ age' = 0
    BY <1>5 DEF Read
  <2>3. Cut'
    BY <2>1, <2>2, <1>1, ReadCut
  <2>4. stream' \in Seq(Bytes) /\ heard' \in Seq(Bytes)
    BY <2>1, <1>1, ConcatProperties DEF StreamTyped
  <2>5. StreamTyped'
    BY <2>1, <2>2, <2>4, <1>1 DEF StreamTyped
  <2> QED BY <2>2, <2>3, <2>5 DEF ReadsInFrame
<1>6. CASE ReadsNothing \/ ReadFails
  <2>1. UNCHANGED <<stream, heard, frames, age>> /\ stage' \in {"idle", "loop"}
    BY <1>6 DEF ReadsNothing, ReadFails
  <2>2. StreamTyped' /\ Cut'
    BY <2>1, <1>1, <1>2, SameStream
  <2>3. ReadsInFrame'
    BY <2>1 DEF ReadsInFrame
  <2> QED BY <2>2, <2>3
<1>7. CASE TimesOut
  <2>1. stage' = "idle" /\ Stale
    BY <1>7 DEF TimesOut
  <2>2. ReadsInFrame'
    BY <2>1 DEF ReadsInFrame
  <2>3. CASE Emptied
    <3>1. /\ Cut' /\ stream' \in Seq(Bytes) /\ Len(stream') <= StreamSize
          /\ heard' \in Seq(Bytes) /\ frames' = {} /\ age' = 0
      BY <2>3, EmptiedCut
    <3> QED BY <3>1, <2>1, <2>2 DEF StreamTyped
  <2>4. CASE ~Emptied
    <3>1. UNCHANGED <<stream, heard, frames>> /\ age' \in Nat
      BY <2>1, <2>4, <1>2 DEF Stale
    <3>2. StreamTyped' /\ Cut'
      BY <3>1, <2>1, <1>1, SameStream
    <3> QED BY <3>2, <2>2
  <2> QED BY <2>3, <2>4
<1>8. CASE Flush
  <2>1. Emptied /\ stage' = "idle"
    BY <1>8 DEF Flush
  <2>2. /\ Cut' /\ stream' \in Seq(Bytes) /\ Len(stream') <= StreamSize
        /\ heard' \in Seq(Bytes) /\ frames' = {} /\ age' = 0
    BY <2>1, EmptiedCut
  <2> QED BY <2>1, <2>2 DEF StreamTyped, ReadsInFrame
<1>9. CASE Deadline \/ FallSilent \/ UNCHANGED streamVars
  <2>1. UNCHANGED <<stream, stage, heard, frames, age>>
    BY <1>9 DEF Deadline, FallSilent, streamVars
  <2>2. StreamTyped' /\ Cut'
    BY <2>1, <1>1, <1>2, SameStream
  <2> QED BY <2>1, <2>2, <1>1, SameReads
<1> QED BY <1>3, <1>4, <1>5, <1>6, <1>7, <1>8, <1>9 DEF StreamNext

\* The invariant says what the run checks.
LEMMA CutIsFound == StreamInv => FramesFound
<1> SUFFICES ASSUME StreamInv PROVE FramesFound
  OBVIOUS
<1>1. StreamTypeOK
  BY Zenon DEF StreamInv, StreamTyped, StreamFlags, StreamTypeOK
<1>2. ASSUME NEW p \in 1 .. Consumed, FrameAt(heard, p) PROVE InFrame(p)
  <2>1. NoFrameAt(p) \/ InFrame(p)
    BY DEF StreamInv, Cut, AllDecided
  <2>2. heard[p] = Preamble /\ WholeFrame(Rest(p))
    BY <1>2 DEF FrameAt, Rest
  <2> QED BY <2>1, <2>2 DEF NoFrameAt
<1>3. StreamIsTail /\ FramesThere /\ FramesApart
  BY DEF StreamInv, Cut
<1> QED BY <1>1, <1>2, <1>3 DEF FramesFound, FramesThere, FramesApart, InFrame

\* Whatever the UART delivers in whatever chunks, and however the deadlines of
\* the calls fall: what lora_e32_receive_raw returns are the frames that were
\* heard, each once, and every frame that was consumed is among them.
THEOREM FramesAreFound ==
  StreamSpec => []FramesFound
<1>1. StreamInit => StreamInv
  BY StreamStart
<1>2. StreamInv /\ [StreamNext]_streamVars => StreamInv'
  BY StreamStep
<1>3. StreamInv => FramesFound
  BY CutIsFound
<1> QED BY <1>1, <1>2, <1>3, PTL DEF StreamSpec

\* Only a read adds bytes, and it drops none.
LEMMA ReadKeepsAllStep ==
  ASSUME StreamInv, StreamNext, Len(heard') > Len(heard)
  PROVE  stream' = stream \o Drop(heard', Len(heard))
<1>1. StreamTyped /\ ReadsInFrame /\ Cut
  BY DEF StreamInv
<1>2. heard \in Seq(Bytes) /\ Len(heard) \in Nat
  BY <1>1, LenProperties DEF StreamTyped
<1>3. heard' # heard
  BY <1>2
<1>4. ~Emptied
  <2>1. Emptied => Len(heard') = 0
    BY EmptySeq DEF Emptied
  <2> QED BY <2>1, <1>2
<1>5. Read
  BY <1>3, <1>4 DEF StreamNext, Call, Scan, ReadsNothing, ReadFails,
                    TimesOut, Stale, Deadline, Flush, FallSilent
<1>6. PICK chunk \in Seq(Bytes) : stream' = stream \o chunk /\ heard' = heard \o chunk
  BY <1>1, <1>5, ReadStep
<1> QED BY <1>2, <1>6, DropPast

\* Only a call that times out throws bytes away, with less than a header at hand or
\* with a frame that is not complete.
LEMMA PartsGoStale ==
  ASSUME StreamInv, StreamNext,
         stream # << >>, stream' = << >>, stage # "idle", stage' = "idle", frames' = {}
  PROVE  ~WholeFrame(FromPreamble(stream))
<1>1. StreamTyped /\ ReadsInFrame
  BY DEF StreamInv
<1>2. stream \in Seq(Bytes) /\ Len(stream) \in Nat
  BY <1>1, LenProperties DEF StreamTyped
<1>3. PICK k \in 0 .. Len(stream) :
        /\ FromPreamble(stream) = Drop(stream, k)
        /\ \A i \in 1 .. k : stream[i] # Preamble
        /\ k < Len(stream) => stream[k + 1] = Preamble
  BY <1>2, FirstPreamble
<1> DEFINE s == FromPreamble(stream)
<1>4. s \in Seq(Bytes) /\ Len(s) = Len(stream) - k
  BY <1>2, <1>3, DropIs
<1> HIDE DEF s
<1>5. TimesOut
  <2>1. ~Scan
    <3>1. Waits(s) => stage' = "read"
      BY DEF Waits
    <3>2. Resyncs(s) /\ Scan => stage' = "loop"
      BY DEF Resyncs, Scan
    <3>3. Returns(s) => frames' # {}
      BY DEF Returns
    <3> QED BY <3>1, <3>2, <3>3 DEF Scan, s
  <2> QED BY <2>1 DEF StreamNext, Call, Read, ReadsNothing, ReadFails,
                      Deadline, Flush, FallSilent
<1>6. CASE stage = "loop"
  <2>1. ~(Len(stream) >= HeaderLen)
    BY <1>5, <1>6 DEF TimesOut, GoesOn
  <2>2. ~(Len(s) >= HeaderLen)
    BY <2>1, <1>2, <1>3, <1>4, FrameAssumption
  <2> QED BY <2>2 DEF WholeFrame, HeaderComplete, s
<1>7. CASE stage = "read"
  <2>1. Undecided(stream) /\ stream[1] = Preamble /\ Len(stream) > 0
    BY <1>1, <1>2, <1>7, EmptySeq DEF ReadsInFrame
  <2>2. k = 0
    BY <2>1, <1>2, <1>3
  <2>3. s = stream
    BY <2>2, <1>2, <1>3, DropEnds DEF s
  <2> QED BY <2>1, <2>3, <1>2, WholeIsDecided DEF s
<1> QED BY <1>1, <1>5, <1>6, <1>7 DEF TimesOut

\* The overflow branch of lora_e32_receive_raw never discards a byte, and what it
\* throws away as stale never begins with a whole frame.
THEOREM WholeFramesAreKept ==
  StreamSpec => KeepsWholeFrames
<1>1. StreamInit => StreamInv
  BY StreamStart
<1>2. StreamInv /\ [StreamNext]_streamVars => StreamInv'
  BY StreamStep
<1>3. StreamInv /\ [StreamNext]_streamVars
        => [Len(heard') > Len(heard) => stream' = stream \o Drop(heard', Len(heard))]_streamVars
  BY ReadKeepsAllStep
<1>4. StreamInv /\ [StreamNext]_streamVars
        => [stream # <<>> /\ stream' = <<>> /\ stage # "idle" /\ stage' = "idle" /\ frames' = {}
              => LET s == FromPreamble(stream) IN ~WholeFrame(s)]_streamVars
  BY PartsGoStale
<1>5. StreamSpec => ReadKeepsAll
  BY <1>1, <1>2, <1>3, PTL DEF StreamSpec, ReadKeepsAll
<1>6. StreamSpec => OnlyPartsGoStale
  BY <1>1, <1>2, <1>4, PTL DEF StreamSpec, OnlyPartsGoStale
<1> QED BY <1>5, <1>6 DEF KeepsWholeFrames

=============================================================================
