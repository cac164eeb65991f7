---------------------------- MODULE LoraLink ----------------------------
(* The acknowledged LoRa transaction of the TX gateway (src/main/main.c):   *)
(* the task that sends commands and pings (gtw_send_frame_wait_ack), the    *)
(* task that receives (gtw_lora_rx_task) and the one that repairs the radio *)
(* (gtw_lora_health_task), the mutexes they share, and the radio channel.   *)
(*                                                                          *)
(* Each step is the code between two points where another task can act on   *)
(* shared state.  A wait with a time-out is two actions, one per outcome.   *)
(* Scheduling delays do not appear as clocks.  The one interval that        *)
(* matters, between the receiver clearing the wait (main.c:1796) and its    *)
(* xTaskNotifyGive (main.c:1802), lasts at most NotifyLatency: see Outlasts. *)
EXTENDS Integers

CONSTANTS
  Tanks,              \* tanks in radio range
  Kinds,              \* kinds of frame the gateway sends: MSG_CMD, MSG_PING
  IdModulus,          \* lora_app_frame_t.msg_id is 8 bits wide: 256
  AttemptLimit,       \* ACK_RETRIES, LORA_PING_ACK_RETRIES
  GuardMs,            \* LORA_TRANSACTION_GUARD_MS, LORA_PING_GUARD_MS
  BackoffMs,          \* LORA_RETRY_BACKOFF_MIN_MS
  RecoveryMs,         \* least duration of a successful reinit + apply_cfg
  NotifyLatency,      \* longest stall of the receiver before xTaskNotifyGive
  FailuresBeforeRecovery,  \* GTW_LORA_FAILURES_BEFORE_RECOVERY
  UartErrorLimit,     \* the 3 of main.c:1701
  MaxSeq,             \* BOUND: transactions are numbered below MaxSeq
  NoFrame             \* no frame at hand

Frames == [kind : Kinds, tank : Tanks, seq : Nat]
Acks == [tank : Tanks, seq : Nat]

ASSUME ModulusAssumption == IdModulus \in Nat \ {0}
ASSUME LimitAssumption ==
  /\ AttemptLimit \in [Kinds -> Nat \ {0}]
  /\ FailuresBeforeRecovery \in Nat \ {0}
  /\ UartErrorLimit \in Nat \ {0}
  /\ MaxSeq \in Nat
ASSUME DelayAssumption ==
  /\ GuardMs \in [Kinds -> Nat]
  /\ BackoffMs \in Nat
  /\ RecoveryMs \in Nat
  /\ NotifyLatency \in Nat
ASSUME NoFrameAssumption == NoFrame \notin Frames \cup Acks

VARIABLES
  pc,                 \* control point of the sending task
  frame,              \* the frame of its transaction
  attempt,            \* loop variable of main.c:2075
  success,            \* local of main.c:2070
  msgCounter,         \* msg_counter_gtw, before truncation to msg_id
  notified,           \* the sender's task notification value is not zero
  ackWait,            \* gtw_ack_wait (its waiter is always the sender)
  requestMutex,       \* holder of gtw_request_mutex
  loraMutex,          \* holder of MutexLora
  loraReady,          \* gtw_lora_ready
  uartErrors,         \* gtw_lora_uart_error_streak
  failures,           \* gtw_lora_transaction_failures
  rxPc,               \* control point of the receiving task
  rxFrame,            \* the ACK it has read, NoFrame for any other frame
  healthPc,           \* control point of the health task
  radioOk,            \* the E32 confirms its configuration
  air,                \* requests that may still reach a tank
  acks,               \* ACKs on the air towards the gateway
  uart,               \* ACKs in the UART buffer and in g_rx_stream
  owed,               \* history: the notification pending now was already
                      \* pending when the sender's present delay began
  errorRun,           \* history: failed reads since the last read without error
  delivered,          \* history: transactions that reached their tank
  succeeded           \* history: transactions reported as acknowledged

senderVars == <<pc, frame, attempt, success, msgCounter>>
ackVars    == <<notified, ackWait>>
mutexVars  == <<requestMutex, loraMutex>>
radioVars  == <<loraReady, uartErrors, failures>>
rxVars     == <<rxPc, rxFrame, errorRun>>
airVars    == <<air, acks, delivered>>
vars == <<senderVars, ackVars, mutexVars, radioVars, rxVars, airVars,
          uart, healthPc, radioOk, owed, succeeded>>

NoWait == [active |-> FALSE, id |-> 0, tank |-> NoFrame]
MsgId(n) == n % IdModulus
SameAddress(n, t, f) == f.tank = t /\ MsgId(f.seq) = MsgId(n)

\* A delay of ms passes while a notification is outstanding from its start.
Outlasts(ms) == owed => ms < NotifyLatency
BeginDelay == owed' = (rxPc = "notify")

-----------------------------------------------------------------------------
(* lora_setup_gtw leaves the radio configured or not; msg_counter_gtw is    *)
(* random (main.c:1614).                                                    *)
Init ==
  /\ pc = "idle"
  /\ frame = NoFrame
  /\ attempt = 1
  /\ success = FALSE
  /\ msgCounter \in 0 .. IdModulus - 1
  /\ notified = FALSE
  /\ ackWait = NoWait
  /\ requestMutex = "free"
  /\ loraMutex = "free"
  /\ radioOk \in BOOLEAN
  /\ loraReady = radioOk
  /\ uartErrors = 0
  /\ failures = 0
  /\ rxPc = "poll"
  /\ rxFrame = NoFrame
  /\ healthPc = "sleep"
  /\ air = {}
  /\ acks = {}
  /\ uart = {}
  /\ owed = FALSE
  /\ errorRun = 0
  /\ delivered = {}
  /\ succeeded = {}

-----------------------------------------------------------------------------
(* The sending task.                                                        *)

\* gtw_send_to_tank / gtw_ping_tank number the frame.  When a msg_id comes round
\* again for a tank, IdModulus transactions later, the frames that carried it
\* before are assumed to be gone.
Begin(k, t) ==
  /\ pc = "idle"
  /\ msgCounter < MaxSeq
  /\ rxFrame # NoFrame => ~SameAddress(msgCounter, t, rxFrame)
  /\ frame' = [kind |-> k, tank |-> t, seq |-> msgCounter]
  /\ msgCounter' = msgCounter + 1
  /\ pc' = "request"
  /\ air' = {f \in air : ~SameAddress(msgCounter, t, f)}
  /\ acks' = {f \in acks : ~SameAddress(msgCounter, t, f)}
  /\ uart' = {f \in uart : ~SameAddress(msgCounter, t, f)}
  /\ UNCHANGED <<attempt, success, ackVars, mutexVars, radioVars, rxVars,
                 healthPc, radioOk, owed, delivered, succeeded>>

\* The transaction returns: its locals go out of scope.
Leave ==
  /\ pc' = "idle"
  /\ frame' = NoFrame
  /\ attempt' = 1
  /\ success' = FALSE
  /\ UNCHANGED msgCounter

TakeRequest ==
  /\ pc = "request"
  /\ requestMutex = "free"
  /\ requestMutex' = "sender"
  /\ pc' = IF loraReady THEN "arm" ELSE "radio"
  /\ BeginDelay
  /\ UNCHANGED <<frame, attempt, success, msgCounter, ackVars, loraMutex,
                 radioVars, rxVars, airVars, uart, healthPc, radioOk, succeeded>>

RequestTimeout ==
  /\ pc = "request"
  /\ requestMutex # "free"
  /\ Leave
  /\ UNCHANGED <<ackVars, mutexVars, radioVars, rxVars, airVars, uart,
                 healthPc, radioOk, owed, succeeded>>

\* The radio is marked unavailable: repair it before sending.
TakeRadio ==
  /\ pc = "radio"
  /\ loraMutex = "free"
  /\ loraMutex' = "sender"
  /\ pc' = "recover"
  /\ UNCHANGED <<frame, attempt, success, msgCounter, ackVars, requestMutex,
                 radioVars, rxVars, airVars, uart, healthPc, radioOk, owed,
                 succeeded>>

Cancel ==
  /\ requestMutex' = "free"
  /\ Leave

RadioTimeout ==
  /\ pc = "radio"
  /\ loraMutex # "free"
  /\ Cancel
  /\ UNCHANGED <<ackVars, loraMutex, radioVars, rxVars, airVars, uart,
                 healthPc, radioOk, owed, succeeded>>

\* lora_e32_reinit, then lora_apply_config_with_retries.  The increment of
\* main.c:1699 is not atomic: a reset that falls inside it is lost.
Repaired ==
  /\ radioOk
  /\ loraReady' = TRUE
  /\ uartErrors' \in {0} \cup (IF rxPc = "error" THEN {uartErrors} ELSE {})
  /\ failures' = 0
  /\ uart' = {}

\* A failed reinit leaves the flag alone, a failed configuration clears it.
NotRepaired ==
  /\ ~radioOk
  /\ loraReady' \in {FALSE, loraReady}
  /\ uart' \in {{}, uart}
  /\ UNCHANGED <<uartErrors, failures>>

Recover ==
  /\ pc = "recover"
  /\ loraMutex' = "free"
  /\ \/ /\ Outlasts(RecoveryMs)
        /\ Repaired
        /\ pc' = "arm"
        /\ UNCHANGED <<requestMutex, frame, attempt, success, msgCounter>>
     \/ /\ NotRepaired
        /\ Cancel
  /\ UNCHANGED <<ackVars, rxVars, airVars, healthPc, radioOk, owed, succeeded>>

\* Mutant: the notification of an earlier attempt is not cleared.
ArmWithoutClear ==
  /\ pc = "arm"
  /\ rxPc = "notify" => 0 < NotifyLatency
  /\ ackWait' = [active |-> TRUE, id |-> MsgId(frame.seq), tank |-> frame.tank]
  /\ pc' = "lock"
  /\ UNCHANGED <<frame, attempt, success, msgCounter, notified, mutexVars,
                 radioVars, rxVars, airVars, uart, healthPc, radioOk, owed,
                 succeeded>>

\* main.c:2077-2084.  A notification given before the clear is forgotten; one
\* given after it counts for this attempt.
Arm ==
  /\ pc = "arm"
  /\ rxPc = "notify" => 0 < NotifyLatency
  /\ notified' = FALSE
  /\ ackWait' = [active |-> TRUE, id |-> MsgId(frame.seq), tank |-> frame.tank]
  /\ pc' = "lock"
  /\ UNCHANGED <<frame, attempt, success, msgCounter, mutexVars, radioVars,
                 rxVars, airVars, uart, healthPc, radioOk, owed, succeeded>>

\* The attempt is over without an ACK: the wait is withdrawn.
Disarm == ackWait' = NoWait

\* Mutant: the attempt is not counted.
NextAttemptUncounted(retry) ==
  /\ pc' = IF attempt < AttemptLimit[frame.kind] THEN retry ELSE "finish"
  /\ UNCHANGED attempt

\* The `continue` of the attempt loop, or its end.
NextAttempt(retry) ==
  IF attempt < AttemptLimit[frame.kind]
  THEN /\ attempt' = attempt + 1
       /\ pc' = retry
  ELSE /\ pc' = "finish"
       /\ UNCHANGED attempt

LockRadio ==
  /\ pc = "lock"
  /\ loraMutex = "free"
  /\ loraMutex' = "sender"
  /\ uart' = {}
  /\ pc' = "transmit"
  /\ UNCHANGED <<frame, attempt, success, msgCounter, ackVars, requestMutex,
                 radioVars, rxVars, airVars, healthPc, radioOk, owed, succeeded>>

LockTimeout ==
  /\ pc = "lock"
  /\ loraMutex # "free"
  /\ Disarm
  /\ NextAttempt("arm")
  /\ UNCHANGED <<frame, success, msgCounter, notified, mutexVars, radioVars,
                 rxVars, airVars, uart, healthPc, radioOk, owed, succeeded>>

OnAir == [tank |-> frame.tank, seq |-> frame.seq]

\* A send reported incomplete may have gone out: lora_e32_send_raw returns -1
\* when uart_wait_tx_done times out after every byte was written.
Transmit ==
  /\ pc = "transmit"
  /\ loraMutex' = "free"
  /\ \/ /\ air' = air \cup {OnAir}
        /\ pc' = "await"
        /\ UNCHANGED <<attempt, ackWait, loraReady>>
     \/ /\ air' \in {air, air \cup {OnAir}}
        /\ loraReady' = FALSE
        /\ Disarm
        /\ NextAttempt("arm")
  /\ UNCHANGED <<frame, success, msgCounter, notified, requestMutex, uartErrors,
                 failures, rxVars, acks, delivered, uart, healthPc, radioOk,
                 owed, succeeded>>

AckReceived ==
  /\ pc = "await"
  /\ notified
  /\ notified' = FALSE
  /\ success' = TRUE
  /\ pc' = "finish"
  /\ UNCHANGED <<frame, attempt, msgCounter, ackWait, mutexVars, radioVars,
                 rxVars, airVars, uart, healthPc, radioOk, owed, succeeded>>

\* After the last attempt there is no backoff.
AckTimeout ==
  /\ pc = "await"
  /\ ~notified
  /\ Disarm
  /\ NextAttempt("backoff")
  /\ BeginDelay
  /\ UNCHANGED <<frame, success, msgCounter, notified, mutexVars, radioVars,
                 rxVars, airVars, uart, healthPc, radioOk, succeeded>>

BackoffElapsed ==
  /\ pc = "backoff"
  /\ Outlasts(BackoffMs)
  /\ pc' = "arm"
  /\ UNCHANGED <<frame, attempt, success, msgCounter, ackVars, mutexVars,
                 radioVars, rxVars, airVars, uart, healthPc, radioOk, owed,
                 succeeded>>

Finish ==
  /\ pc = "finish"
  /\ pc' = "guard"
  /\ IF success
     THEN failures' = 0 /\ UNCHANGED loraReady
     ELSE IF failures + 1 >= FailuresBeforeRecovery
          THEN failures' = 0 /\ loraReady' = FALSE
          ELSE failures' = failures + 1 /\ UNCHANGED loraReady
  /\ BeginDelay
  /\ UNCHANGED <<frame, attempt, success, msgCounter, ackVars, mutexVars,
                 uartErrors, rxVars, airVars, uart, healthPc, radioOk, succeeded>>

GuardElapsed ==
  /\ pc = "guard"
  /\ Outlasts(GuardMs[frame.kind])
  /\ requestMutex' = "free"
  /\ succeeded' = IF success THEN succeeded \cup {frame.seq} ELSE succeeded
  /\ Leave
  /\ UNCHANGED <<ackVars, loraMutex, radioVars, rxVars, airVars, uart,
                 healthPc, radioOk, owed>>

SenderStep ==
  \/ TakeRequest \/ RequestTimeout
  \/ TakeRadio \/ RadioTimeout \/ Recover
  \/ Arm \/ LockRadio \/ LockTimeout \/ Transmit
  \/ AckReceived \/ AckTimeout \/ BackoffElapsed
  \/ Finish \/ GuardElapsed

-----------------------------------------------------------------------------
(* The receiving task, TX role.                                             *)

RxUnchanged ==
  UNCHANGED <<senderVars, requestMutex, failures, airVars, healthPc, radioOk,
              succeeded>>

\* gtw_ack_wait_is_active: the radio is not read while nothing is awaited.
RxPoll ==
  /\ rxPc = "poll"
  /\ ackWait.active
  /\ rxPc' = "lock"
  /\ RxUnchanged
  /\ UNCHANGED <<ackVars, loraMutex, loraReady, uartErrors, rxFrame, errorRun,
                 uart, owed>>

RxTakeRadio ==
  /\ rxPc = "lock"
  /\ loraMutex = "free"
  /\ loraMutex' = "rx"
  /\ rxPc' = "receive"
  /\ RxUnchanged
  /\ UNCHANGED <<ackVars, loraReady, uartErrors, rxFrame, errorRun, uart, owed>>

\* MutexLora not obtained: handled as an empty read.
RxLockTimeout ==
  /\ rxPc = "lock"
  /\ loraMutex # "free"
  /\ rxPc' = "poll"
  /\ RxUnchanged
  /\ UNCHANGED <<ackVars, loraMutex, loraReady, uartErrors, rxFrame, errorRun,
                 uart, owed>>

\* lora_e32_receive_raw ends: nothing, a UART error, a frame that is no ACK for
\* this gateway, or one of the buffered ACKs.
RxReceive ==
  /\ rxPc = "receive"
  /\ loraMutex' = "free"
  /\ \/ /\ rxPc' = "poll"
        /\ errorRun' = 0
        /\ UNCHANGED <<rxFrame, uart>>
     \/ /\ rxPc' = "error"
        /\ errorRun' = IF errorRun < UartErrorLimit THEN errorRun + 1
                                                    ELSE errorRun
        /\ UNCHANGED <<rxFrame, uart>>
     \/ /\ rxPc' = "accept"
        /\ errorRun' = 0
        /\ \/ UNCHANGED <<rxFrame, uart>>
           \/ \E a \in uart : rxFrame' = a /\ uart' = uart \ {a}
  /\ RxUnchanged
  /\ UNCHANGED <<ackVars, loraReady, uartErrors, owed>>

\* Mutant: the streak is not reset when the radio is given up.
RxErrorWithoutReset ==
  /\ rxPc = "error"
  /\ rxPc' = "poll"
  /\ uartErrors' = uartErrors + 1
  /\ loraReady' = (loraReady /\ uartErrors + 1 < UartErrorLimit)
  /\ RxUnchanged
  /\ UNCHANGED <<ackVars, loraMutex, rxFrame, errorRun, uart, owed>>

RxError ==
  /\ rxPc = "error"
  /\ rxPc' = "poll"
  /\ IF uartErrors + 1 >= UartErrorLimit
     THEN loraReady' = FALSE /\ uartErrors' = 0
     ELSE uartErrors' = uartErrors + 1 /\ UNCHANGED loraReady
  /\ RxUnchanged
  /\ UNCHANGED <<ackVars, loraMutex, rxFrame, errorRun, uart, owed>>

\* Any frame, valid or not, marks the radio ready again (main.c:1721).
RxAccept ==
  /\ rxPc = "accept"
  /\ loraReady' = TRUE
  /\ uartErrors' = 0
  /\ rxPc' = IF rxFrame = NoFrame THEN "poll" ELSE "match"
  /\ RxUnchanged
  /\ UNCHANGED <<ackVars, loraMutex, rxFrame, errorRun, uart, owed>>

\* Mutant: an ACK with another msg_id is accepted.
RxMatchAnyId ==
  /\ rxPc = "match"
  /\ rxFrame' = NoFrame
  /\ IF ackWait.active /\ ackWait.tank = rxFrame.tank
     THEN ackWait' = NoWait /\ rxPc' = "notify"
     ELSE rxPc' = "poll" /\ UNCHANGED ackWait
  /\ RxUnchanged
  /\ UNCHANGED <<notified, loraMutex, loraReady, uartErrors, errorRun, uart, owed>>

RxMatch ==
  /\ rxPc = "match"
  /\ rxFrame' = NoFrame
  /\ IF /\ ackWait.active
        /\ ackWait.id = MsgId(rxFrame.seq)
        /\ ackWait.tank = rxFrame.tank
     THEN ackWait' = NoWait /\ rxPc' = "notify"
     ELSE rxPc' = "poll" /\ UNCHANGED ackWait
  /\ RxUnchanged
  /\ UNCHANGED <<notified, loraMutex, loraReady, uartErrors, errorRun, uart, owed>>

\* xTaskNotifyGive, after gtw_ack_mutex was given back.
RxNotify ==
  /\ rxPc = "notify"
  /\ rxPc' = "poll"
  /\ notified' = TRUE
  /\ owed' = FALSE
  /\ RxUnchanged
  /\ UNCHANGED <<ackWait, loraMutex, loraReady, uartErrors, rxFrame, errorRun,
                 uart>>

RxStep ==
  \/ RxPoll \/ RxTakeRadio \/ RxLockTimeout \/ RxReceive
  \/ RxError \/ RxAccept \/ RxMatch \/ RxNotify

-----------------------------------------------------------------------------
(* The health task, TX role.                                                *)

HealthUnchanged ==
  UNCHANGED <<senderVars, ackVars, rxVars, airVars, radioOk, owed, succeeded>>

HealthWake ==
  /\ healthPc = "sleep"
  /\ ~loraReady
  /\ healthPc' = "request"
  /\ HealthUnchanged
  /\ UNCHANGED <<mutexVars, radioVars, uart>>

\* Mutant: the radio is repaired without waiting for the transaction.
HealthSkipRequest ==
  /\ healthPc = "request"
  /\ healthPc' = "radio"
  /\ HealthUnchanged
  /\ UNCHANGED <<mutexVars, radioVars, uart>>

HealthTakeRequest ==
  /\ healthPc = "request"
  /\ requestMutex = "free"
  /\ requestMutex' = "health"
  /\ healthPc' = "radio"
  /\ HealthUnchanged
  /\ UNCHANGED <<loraMutex, radioVars, uart>>

HealthRequestTimeout ==
  /\ healthPc = "request"
  /\ requestMutex # "free"
  /\ healthPc' = "sleep"
  /\ HealthUnchanged
  /\ UNCHANGED <<mutexVars, radioVars, uart>>

HealthTakeRadio ==
  /\ healthPc = "radio"
  /\ loraMutex = "free"
  /\ loraMutex' = "health"
  /\ healthPc' = "recover"
  /\ HealthUnchanged
  /\ UNCHANGED <<requestMutex, radioVars, uart>>

\* Mutant: the early exit forgets to give gtw_request_mutex.
HealthRadioTimeoutKeeps ==
  /\ healthPc = "radio"
  /\ loraMutex # "free"
  /\ healthPc' = "sleep"
  /\ HealthUnchanged
  /\ UNCHANGED <<mutexVars, radioVars, uart>>

HealthRadioTimeout ==
  /\ healthPc = "radio"
  /\ loraMutex # "free"
  /\ requestMutex' = "free"
  /\ healthPc' = "sleep"
  /\ HealthUnchanged
  /\ UNCHANGED <<loraMutex, radioVars, uart>>

HealthRecover ==
  /\ healthPc = "recover"
  /\ Repaired \/ NotRepaired
  /\ loraMutex' = "free"
  /\ requestMutex' = "free"
  /\ healthPc' = "sleep"
  /\ HealthUnchanged

HealthStep ==
  \/ HealthWake \/ HealthTakeRequest \/ HealthRequestTimeout
  \/ HealthTakeRadio \/ HealthRadioTimeout \/ HealthRecover

-----------------------------------------------------------------------------
(* The radio channel and the tanks, outside this repository: a tank acts on *)
(* a frame addressed to it and answers with its msg_id; frames are lost,    *)
(* delayed, reordered, and duplicated by repeaters.                         *)

EnvironmentUnchanged ==
  UNCHANGED <<senderVars, ackVars, mutexVars, radioVars, rxVars, healthPc, owed,
              succeeded>>

TankReceives(f) ==
  /\ f \in air
  /\ delivered' = delivered \cup {f.seq}
  /\ acks' = acks \cup {f}
  /\ air' \in {air, air \ {f}}
  /\ EnvironmentUnchanged
  /\ UNCHANGED <<uart, radioOk>>

AckArrives(a) ==
  /\ a \in acks
  /\ uart' = uart \cup {a}
  /\ acks' \in {acks, acks \ {a}}
  /\ EnvironmentUnchanged
  /\ UNCHANGED <<air, delivered, radioOk>>

Lose(f) ==
  /\ f \in air \cup acks \cup uart
  /\ air' \in {air, air \ {f}}
  /\ acks' \in {acks, acks \ {f}}
  /\ uart' \in {uart, uart \ {f}}
  /\ EnvironmentUnchanged
  /\ UNCHANGED <<delivered, radioOk>>

RadioFlips ==
  /\ radioOk' = ~radioOk
  /\ EnvironmentUnchanged
  /\ UNCHANGED <<airVars, uart>>

Environment ==
  \/ \E f \in air \cup acks \cup uart :
       TankReceives(f) \/ AckArrives(f) \/ Lose(f)
  \/ RadioFlips

-----------------------------------------------------------------------------
Next ==
  \/ \E k \in Kinds, t \in Tanks : Begin(k, t)
  \/ SenderStep
  \/ RxStep
  \/ HealthStep
  \/ Environment

Spec == Init /\ [][Next]_vars

(* The tasks are runnable whenever they are not waiting, and every wait has *)
(* a time-out.  Requests and the channel owe nothing.                       *)
FairSpec ==
  /\ Spec
  /\ WF_vars(SenderStep)
  /\ WF_vars(RxStep)
  /\ WF_vars(HealthStep)

-----------------------------------------------------------------------------
(* Properties.                                                              *)

Armed == {"lock", "transmit", "await"}
InTransaction == Armed \cup {"radio", "recover", "arm", "backoff", "finish", "guard"}

FlagsOK ==
  /\ success \in BOOLEAN
  /\ notified \in BOOLEAN
  /\ loraReady \in BOOLEAN
  /\ radioOk \in BOOLEAN
  /\ owed \in BOOLEAN

\* Every variable has its type; the error and failure counters of the radio are
\* reset before they pass their thresholds (main.c:1699-1703, 2128-2132).
TypeOK ==
  /\ FlagsOK
  /\ pc \in InTransaction \cup {"idle", "request"}
  /\ frame \in Frames \cup {NoFrame}
  /\ pc # "idle" => frame \in Frames
  /\ attempt \in Nat \ {0}
  /\ msgCounter \in Nat
  /\ ackWait \in [active : BOOLEAN, id : 0 .. IdModulus - 1,
                  tank : Tanks \cup {NoFrame}]
  /\ requestMutex \in {"free", "sender", "health"}
  /\ loraMutex \in {"free", "sender", "rx", "health"}
  /\ uartErrors \in 0 .. UartErrorLimit - 1
  /\ failures \in 0 .. FailuresBeforeRecovery - 1
  /\ rxPc \in {"poll", "lock", "receive", "error", "accept", "match", "notify"}
  /\ rxFrame \in Acks \cup {NoFrame}
  /\ rxPc = "match" => rxFrame \in Acks
  /\ healthPc \in {"sleep", "request", "radio", "recover"}
  /\ air \subseteq Acks
  /\ acks \subseteq Acks
  /\ uart \subseteq Acks
  /\ errorRun \in 0 .. UartErrorLimit
  /\ delivered \subseteq Nat
  /\ succeeded \subseteq Nat

\* A command or ping reported as acknowledged ("ACK recebido", main.c:2172) did
\* reach the tank it was sent to: no late, duplicated or foreign ACK, and no
\* stale task notification, is taken for its own.
AckAttribution == succeeded \subseteq delivered

\* gtw_ack_wait is armed only for the transaction in progress, with its msg_id
\* and its tank, and never survives it: the receiver polls the radio, and
\* matches ACKs, for nobody else (main.c:1680-1686, 1792).
WaitBelongsToTransaction ==
  ackWait.active =>
    /\ pc \in Armed
    /\ ackWait.id = MsgId(frame.seq)
    /\ ackWait.tank = frame.tank

\* ACKs belong: to the transaction that waits for them while it waits, and to the
\* frame that was delivered when they are reported.  Neither half holds long
\* without the other: a wait that outlives its transaction is the way in for the
\* wrong ACK.
AcksBelong == AckAttribution /\ WaitBelongsToTransaction

\* The health task puts the E32 into configuration mode (main.c:1910-1917) only
\* while no transaction is between taking and giving gtw_request_mutex, and no
\* read of the UART is in progress: a repair never swallows an awaited ACK.
RepairOutsideTransactions ==
  healthPc = "recover" => pc \notin InTransaction /\ rxPc # "receive"

\* The E32 is given up for UART errors only after three failed reads in a row
\* ("Falha UART LoRa consecutiva %u/3", main.c:1700).
ConsecutiveErrorsOnly ==
  [][uartErrors' = 0 /\ rxPc = "error" /\ rxPc' = "poll" /\ ~loraReady'
       => errorRun >= UartErrorLimit]_vars

\* Every requested transaction returns to its caller, whatever the radio, the
\* channel and the other tasks do: gtw_send_frame_wait_ack has no unbounded wait
\* and no loop that does not count (main.c:2048-2144).
TransactionEnds == pc # "idle" ~> pc = "idle"

\* A radio that works again is found ready again: "tentara recuperar em segundo
\* plano" (main.c:1643).
RadioRecovers == <>[]radioOk => []<>loraReady

\* The transaction is what AckedSend promises.
Promise == INSTANCE AckedSend WITH
  next <- msgCounter,
  open <- IF pc = "idle" THEN {} ELSE {frame.seq}

PromiseKept == Promise!Spec

=============================================================================
