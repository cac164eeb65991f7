------------------------- MODULE FirmwareUpdate -------------------------
(* Firmware update (src/main/firmware_ota.c and its callers in main.c): an  *)
(* image arrives over BLE, driven by the ble_rx task (commands), the NimBLE *)
(* host task (data) and the task that closes BLE, or over HTTPS in the      *)
(* ota_check task.  Both write the slot that does not run.  The bootloader, *)
(* the OTA library and the phone are external: they are modelled as the     *)
(* code relies on them.                                                     *)
EXTENDS Integers, Sequences

CONSTANTS
  Images,         \* builds a phone or the server may send
  Own,            \* those of this project (esp_app_desc_t.project_name)
  Version,        \* their version
  Chunks,         \* an image is this many packets long
  MaxAttempts,    \* OTA_CHECK_MAX_ATTEMPTS
  QueueLen,       \* BLE_QUEUE_LEN
  RestartMs,      \* the longest countdown of a restart (main.c:2272,
                  \* firmware_ota.c:676)
  TransferMs,     \* the least time the transfer of a whole image takes
  None            \* no image

ASSUME ImageAssumption ==
  /\ Version \in [Images -> Nat]
  /\ Own \subseteq Images
  /\ None \notin Images
ASSUME SizeAssumption ==
  /\ Chunks \in Nat \ {0}
  /\ MaxAttempts \in Nat \ {0}
  /\ QueueLen \in Nat
  /\ RestartMs \in Nat
  /\ TransferMs \in Nat

VARIABLES
  flash,          \* content of the two OTA slots
  otaState,       \* otadata: state of each slot
  bootSlot,       \* otadata: the slot selected last
  running,        \* the slot whose image runs, or ran last
  power,          \* "up", "booting", or why the device is down
  status,         \* s_info.state and its NVS copy
  known,          \* NVS "current": the version that ran firmware_ota_init last
  validating,     \* the task that confirms the image is waiting
  mutex,          \* holder of s_update_mutex
  session,        \* s_ble_ota
  rxPc,           \* control point of ble_rx in begin and finish
  inbox,          \* ble_rx_queue
  ble,            \* the BLE window
  checkPc,        \* control point of ota_check
  attempt,        \* its loop variable
  expected,       \* version announced by the server's metadata
  restarting,     \* ble_ota_restart_task is counting down
  missed          \* history: that task was needed and could not be created

bootVars    == <<flash, otaState, bootSlot>>
nvsVars     == <<status, known>>
bleVars     == <<session, rxPc, inbox, ble>>
checkVars   == <<checkPc, attempt, expected>>
restartVars == <<restarting, missed>>
vars == <<bootVars, running, power, nvsVars, validating, mutex, bleVars,
          checkVars, restartVars>>

Slots == {"ota_0", "ota_1"}
Other(s) == IF s = "ota_0" THEN "ota_1" ELSE "ota_0"

\* Mutant: the slot that is not selected, instead of the one that does not run.
PassiveOfBoot == Other(bootSlot)

\* esp_ota_get_next_update_partition(NULL)
Passive == Other(running)

Whole(s) == flash[s].chunks = Chunks
Current == Version[flash[running].image]
NoSession == [active |-> FALSE, size |-> 0, received |-> 0]

\* A restart that counts down comes before another image is whole, if a transfer
\* takes longer than the countdown.  No line of the code sees to that: it is an
\* assumption on time, and none is made while no restart counts down.
RestartDue == restarting \/ checkPc = "restart"
InTime ==
  RestartDue /\ RestartMs < TransferMs => flash[Passive].chunks + 1 < Chunks

Init ==
  /\ flash \in [Slots -> [image : Images, chunks : {0, Chunks}]]
  /\ flash["ota_0"] \in [image : Own, chunks : {Chunks}]
  /\ flash["ota_1"].chunks = 0
  /\ otaState = [s \in Slots |-> "undefined"]
  /\ bootSlot = "ota_0"
  /\ running = "ota_0"
  /\ power = "up"
  /\ status = "active"
  /\ known = Current
  /\ validating = TRUE
  /\ mutex = "free"
  /\ session = NoSession
  /\ rxPc = "idle"
  /\ inbox = <<>>
  /\ ble = "closed"
  /\ checkPc = "idle"
  /\ attempt = 1
  /\ expected = 0
  /\ restarting = FALSE
  /\ missed = FALSE

-----------------------------------------------------------------------------
(* The device goes down and comes up.                                       *)

\* Everything in RAM is lost.
GoDown(why) ==
  /\ power' = why
  /\ validating' = FALSE
  /\ mutex' = "free"
  /\ session' = NoSession
  /\ rxPc' = "idle"
  /\ inbox' = <<>>
  /\ ble' = "closed"
  /\ checkPc' = "idle"
  /\ attempt' = 1
  /\ expected' = 0
  /\ restarting' = FALSE
  /\ UNCHANGED <<running, known, missed>>

PowerLoss ==
  /\ power \in {"up", "booting"}
  /\ GoDown("off")
  /\ UNCHANGED <<bootVars, status>>

\* ble_ota_restart_task, or ota_check after an update.
Restart ==
  /\ RestartDue
  /\ GoDown("restart")
  /\ UNCHANGED <<bootVars, status>>

\* The bootloader gives up an image that was on trial, takes the slot selected
\* last if it may, and the other one if the image it finds is not whole.
Tried == [s \in Slots |->
            IF otaState[s] = "pending" THEN "aborted" ELSE otaState[s]]
Usable(s) == Tried[s] \in {"new", "valid"}
Selected ==
  IF Usable(bootSlot) THEN bootSlot
  ELSE IF Usable(Other(bootSlot)) THEN Other(bootSlot)
  ELSE "ota_0"

BootLoader ==
  /\ power \in {"off", "restart", "panic"}
  /\ otaState' = [Tried EXCEPT ![Selected] = IF @ = "new" THEN "pending" ELSE @]
  /\ running' \in {s \in Slots : Whole(s) /\ (s = Selected \/ ~Whole(Selected))}
  /\ power' = "booting"
  /\ UNCHANGED <<flash, bootSlot, nvsVars, validating, mutex, bleVars,
                 checkVars, restartVars>>

\* firmware_ota_init, then firmware_ota_schedule_validation.
InitApp ==
  /\ power = "booting"
  /\ power' = "up"
  /\ status' = IF otaState[running] # "undefined" THEN otaState[running]
               ELSE IF known # Current THEN "pending" ELSE status
  /\ known' = Current
  /\ validating' = TRUE
  /\ UNCHANGED <<bootVars, running, mutex, bleVars, checkVars, restartVars>>

\* Mutant: the slot selected last is confirmed.
ValidateBootSlot ==
  /\ power = "up"
  /\ validating
  /\ validating' = FALSE
  /\ otaState' = [otaState EXCEPT ![bootSlot] = "valid"]
  /\ status' = "valid"
  /\ UNCHANGED <<flash, bootSlot, running, power, known, mutex, bleVars,
                 checkVars, restartVars>>

\* validation_task, after its delay.
Validate ==
  /\ power = "up"
  /\ validating
  /\ validating' = FALSE
  /\ otaState' = IF otaState[running] = "pending"
                 THEN [otaState EXCEPT ![running] = "valid"] ELSE otaState
  /\ status' = "valid"
  /\ UNCHANGED <<flash, bootSlot, running, power, known, mutex, bleVars,
                 checkVars, restartVars>>

-----------------------------------------------------------------------------
(* The OTA library.                                                         *)

\* Mutant: an update may begin while the image that runs is on trial.
BeginOnTrial == TRUE

\* esp_ota_begin refuses while the running image is on trial.
MayBegin == otaState[running] # "pending"

Erased(i) == [flash EXCEPT ![Passive] = [image |-> i, chunks |-> 0]]
Written == [flash EXCEPT ![Passive].chunks = @ + 1]

\* esp_ota_set_boot_partition
Select ==
  /\ bootSlot' = Passive
  /\ otaState' = [otaState EXCEPT ![Passive] = "new"]

-----------------------------------------------------------------------------
(* The update over BLE.                                                     *)

\* ble_ota_release by task t, after which the queue and the window are as given.
\* A FreeRTOS mutex given by a task that does not hold it fails an assertion,
\* which restarts the device; one that is free stays free.
Release(t, queue, window) ==
  \/ /\ mutex \in {t, "free"}
     /\ mutex' = "free"
     /\ session' = NoSession
     /\ rxPc' = "idle"
     /\ inbox' = queue
     /\ ble' = window
     /\ status' = "failed"
     /\ UNCHANGED <<running, power, known, validating, checkVars, restartVars>>
  \/ /\ mutex \notin {t, "free"}
     /\ status' = "failed"
     /\ GoDown("panic")

Receive(cmd) ==
  /\ power = "up"
  /\ rxPc = "idle"
  /\ inbox # <<>>
  /\ Head(inbox) = cmd

\* The reply is an error and nothing else changes.
Refuse ==
  /\ inbox' = Tail(inbox)
  /\ UNCHANGED <<bootVars, running, power, nvsVars, validating, mutex, session,
                 rxPc, ble, checkVars, restartVars>>

\* firmware_ota_ble_begin: the mutex is taken and esp_ota_begin starts to erase.
RxBegin(i, n) ==
  /\ Receive("begin")
  /\ ~session.active
  /\ mutex = "free"
  /\ MayBegin
  /\ mutex' = "rx"
  /\ session' = [active |-> FALSE, size |-> n, received |-> 0]
  /\ status' = "download"
  /\ flash' = Erased(i)
  /\ rxPc' = "erase"
  /\ inbox' = Tail(inbox)
  /\ UNCHANGED <<otaState, bootSlot, running, power, known, validating, ble,
                 checkVars, restartVars>>

RxBusy ==
  /\ Receive("begin")
  /\ session.active \/ mutex # "free"
  /\ Refuse

RxBeginOnTrial ==
  /\ Receive("begin")
  /\ ~session.active
  /\ mutex = "free"
  /\ ~MayBegin
  /\ Release("rx", Tail(inbox), ble)
  /\ UNCHANGED bootVars

\* esp_ota_begin returns.
RxErased ==
  /\ power = "up"
  /\ rxPc = "erase"
  /\ \/ /\ session' = [session EXCEPT !.active = TRUE]
        /\ rxPc' = "idle"
        /\ UNCHANGED <<running, power, nvsVars, validating, mutex, inbox, ble,
                       checkVars, restartVars>>
     \/ Release("rx", inbox, ble)
  /\ UNCHANGED bootVars

\* firmware_ota_ble_write, in the NimBLE host task.  The phone sends a packet when
\* the reply to what it sent before has arrived (bluetooth.c:210).
HostWrite ==
  /\ power = "up"
  /\ ble = "connected"
  /\ inbox = <<>>
  /\ rxPc = "idle"
  /\ session.active
  /\ session.received < session.size
  /\ \/ /\ InTime
        /\ flash' = Written
        /\ session' = [session EXCEPT !.received = @ + 1]
        /\ UNCHANGED <<running, power, nvsVars, validating, mutex, rxPc, inbox,
                       ble, checkVars, restartVars>>
     \/ /\ Release("host", inbox, ble)
        /\ UNCHANGED flash
  /\ UNCHANGED <<otaState, bootSlot>>

\* firmware_ota_ble_finish: a complete session goes to esp_ota_end.
RxFinish ==
  /\ Receive("finish")
  /\ session.active
  /\ session.received = session.size
  /\ rxPc' = "verify"
  /\ inbox' = Tail(inbox)
  /\ UNCHANGED <<bootVars, running, power, nvsVars, validating, mutex, session,
                 ble, checkVars, restartVars>>

\* The image is whole and of this project, and becomes the one to boot.  The reply
\* announces a restart whether or not the task that counts down to it could be
\* created: the result of xTaskCreate is not looked at.
RxInstall ==
  /\ power = "up"
  /\ rxPc = "verify"
  /\ Whole(Passive)
  /\ flash[Passive].image \in Own
  /\ Select
  /\ status' = "ready"
  /\ mutex' = "free"
  /\ session' = NoSession
  /\ rxPc' = "idle"
  /\ restarting' \in {TRUE, restarting}
  /\ missed' = (missed \/ ~restarting')
  /\ UNCHANGED <<flash, running, power, known, validating, inbox, ble, checkVars>>

\* esp_ota_end, the project check or esp_ota_set_boot_partition fails.
RxReject ==
  /\ power = "up"
  /\ rxPc = "verify"
  /\ Release("rx", inbox, ble)
  /\ UNCHANGED bootVars

\* BleOtaFinish of an incomplete session, BleOtaCancel.
RxAbandon ==
  /\ session.active
  /\ \/ Receive("cancel")
     \/ Receive("finish") /\ session.received # session.size
  /\ Release("rx", Tail(inbox), ble)
  /\ UNCHANGED bootVars

RxNothingToEnd ==
  /\ Receive("finish") \/ Receive("cancel")
  /\ ~session.active
  /\ Refuse

\* The phone.
PhoneSends(cmd) ==
  /\ power = "up"
  /\ ble = "connected"
  /\ Len(inbox) < QueueLen
  /\ inbox' = Append(inbox, cmd)
  /\ UNCHANGED <<bootVars, running, power, nvsVars, validating, mutex, session,
                 rxPc, ble, checkVars, restartVars>>

\* The window opens, a phone connects, the window is told to close: by its
\* timer, by the phone's disconnection or by the memory monitor.
Window ==
  /\ power = "up"
  /\ \/ ble = "closed" /\ ble' = "advertising"
     \/ ble = "advertising" /\ ble' \in {"connected", "stopping"}
     \/ ble = "connected" /\ ble' = "stopping"
  /\ UNCHANGED <<bootVars, running, power, nvsVars, validating, mutex, session,
                 rxPc, inbox, checkVars, restartVars>>

\* bluetooth_config_stop ends in bt_client_disconnected_callback, which calls
\* firmware_ota_ble_abort.
StopBle ==
  /\ power = "up"
  /\ ble = "stopping"
  /\ IF session.active
     THEN Release("stop", inbox, "closed")
     ELSE /\ ble' = "closed"
          /\ UNCHANGED <<running, power, nvsVars, validating, mutex, session,
                         rxPc, inbox, checkVars, restartVars>>
  /\ UNCHANGED bootVars

-----------------------------------------------------------------------------
(* The update over HTTPS.                                                   *)

CheckUnchanged ==
  UNCHANGED <<running, known, power, validating, bleVars, restartVars>>

\* Mutant: one attempt too many.
NextAttemptOffByOne ==
  IF attempt <= MaxAttempts
  THEN checkPc' = "fetch" /\ attempt' = attempt + 1
  ELSE checkPc' = "idle" /\ attempt' = 1

NextAttempt ==
  IF attempt < MaxAttempts
  THEN checkPc' = "fetch" /\ attempt' = attempt + 1
  ELSE checkPc' = "idle" /\ attempt' = 1

\* firmware_ota_check_for_update_async
CheckStart ==
  /\ power = "up"
  /\ checkPc = "idle"
  /\ checkPc' = "fetch"
  /\ UNCHANGED <<bootVars, status, mutex, attempt, expected>>
  /\ CheckUnchanged

\* fetch_remote_version, and the comparison with the running version.
CheckFetch(i) ==
  /\ checkPc = "fetch"
  /\ \/ /\ Version[i] > Current
        /\ checkPc' = "open"
        /\ expected' = Version[i]
        /\ UNCHANGED attempt
     \/ /\ Version[i] <= Current
        /\ checkPc' = "idle"
        /\ attempt' = 1
        /\ UNCHANGED expected
     \/ /\ NextAttempt
        /\ UNCHANGED expected
  /\ UNCHANGED <<bootVars, status, mutex>>
  /\ CheckUnchanged

\* firmware_ota_update_https
CheckOpen ==
  /\ checkPc = "open"
  /\ \/ /\ mutex = "free"
        /\ mutex' = "check"
        /\ status' = "download"
        /\ checkPc' = "header"
        /\ UNCHANGED attempt
     \/ /\ mutex # "free"
        /\ NextAttempt
        /\ UNCHANGED <<status, mutex>>
  /\ UNCHANGED <<bootVars, expected>>
  /\ CheckUnchanged

\* Mutant: the version announced is not compared again.
CheckHeaderAnyVersion(i) ==
  /\ checkPc = "header"
  /\ i \in Own
  /\ Version[i] # Current
  /\ MayBegin
  /\ flash' = Erased(i)
  /\ checkPc' = "download"
  /\ UNCHANGED <<otaState, bootSlot, status, mutex, attempt, expected>>
  /\ CheckUnchanged

\* The header of the image the server sends, then the first
\* esp_https_ota_perform, which calls esp_ota_begin.
CheckHeader(i) ==
  /\ checkPc = "header"
  /\ i \in Own
  /\ Version[i] = expected
  /\ Version[i] # Current
  /\ MayBegin
  /\ flash' = Erased(i)
  /\ checkPc' = "download"
  /\ UNCHANGED <<otaState, bootSlot, status, mutex, attempt, expected>>
  /\ CheckUnchanged

CheckWrite ==
  /\ checkPc = "download"
  /\ ~Whole(Passive)
  /\ InTime
  /\ flash' = Written
  /\ UNCHANGED <<otaState, bootSlot, status, mutex, checkVars>>
  /\ CheckUnchanged

\* esp_https_ota_finish
CheckInstall ==
  /\ checkPc = "download"
  /\ Whole(Passive)
  /\ Select
  /\ status' = "ready"
  /\ mutex' = "free"
  /\ checkPc' = "restart"
  /\ UNCHANGED <<flash, attempt, expected>>
  /\ CheckUnchanged

\* Mutant: the failure path keeps the mutex.
CheckFailKeepsMutex ==
  /\ checkPc \in {"header", "download"}
  /\ status' = "failed"
  /\ NextAttempt
  /\ UNCHANGED <<bootVars, mutex, expected>>
  /\ CheckUnchanged

CheckFail ==
  /\ checkPc \in {"header", "download"}
  /\ status' = "failed"
  /\ mutex' = "free"
  /\ NextAttempt
  /\ UNCHANGED <<bootVars, expected>>
  /\ CheckUnchanged

-----------------------------------------------------------------------------
Power == PowerLoss \/ Restart \/ BootLoader \/ InitApp \/ Validate

Commands == {"begin", "finish", "cancel"}
BleStep ==
  \/ \E i \in Images, n \in 1 .. Chunks : RxBegin(i, n)
  \/ RxBusy
  \/ RxBeginOnTrial
  \/ RxErased
  \/ HostWrite
  \/ RxFinish
  \/ RxInstall
  \/ RxReject
  \/ RxAbandon
  \/ RxNothingToEnd
  \/ \E cmd \in Commands : PhoneSends(cmd)
  \/ Window
  \/ StopBle

CheckStep ==
  \/ CheckStart
  \/ \E i \in Images : CheckFetch(i) \/ CheckHeader(i)
  \/ CheckOpen
  \/ CheckWrite
  \/ CheckInstall
  \/ CheckFail

Next == Power \/ BleStep \/ CheckStep
Spec == Init /\ [][Next]_vars

-----------------------------------------------------------------------------
(* Properties.                                                              *)

Contents == [image : Images, chunks : 0 .. Chunks]
Sessions == [active : BOOLEAN, size : 0 .. Chunks, received : 0 .. Chunks]

FlagsOK == validating \in BOOLEAN /\ restarting \in BOOLEAN /\ missed \in BOOLEAN

\* Types: every variable keeps the values the code gives it.
TypeOK ==
  /\ FlagsOK
  /\ flash \in [Slots -> Contents]
  /\ otaState \in [Slots -> {"undefined", "new", "pending", "valid", "aborted"}]
  /\ bootSlot \in Slots
  /\ running \in Slots
  /\ power \in {"up", "booting", "off", "restart", "panic"}
  /\ status \in {"active", "download", "failed", "ready", "new", "pending",
                 "valid", "aborted"}
  /\ known \in Nat
  /\ mutex \in {"free", "rx", "check"}
  /\ session \in Sessions
  /\ rxPc \in {"idle", "erase", "verify"}
  /\ inbox \in Seq(Commands)
  /\ ble \in {"closed", "advertising", "connected", "stopping"}
  /\ checkPc \in {"idle", "fetch", "open", "header", "download", "restart"}
  /\ attempt \in 1 .. MaxAttempts
  /\ expected \in Nat

\* No update ever writes the slot that runs, whatever slot is selected for the
\* next boot (firmware_ota.c:192, esp_https_ota_begin).
RunningImageIntact == [][flash'[running] = flash[running]]_vars

BleWriting == session.active \/ rxPc # "idle"
HttpsWriting == checkPc \in {"header", "download"}

\* s_update_mutex is held by an update for exactly as long as it may write the
\* passive slot: two updates never mix their images, and none leaves the mutex
\* taken behind it on any of its error paths.
LockMatchesWork ==
  /\ mutex = "rx" <=> BleWriting
  /\ mutex = "check" <=> HttpsWriting

\* While an image is on trial the image it replaced stays whole and bootable.
FallbackKept ==
  otaState[running] = "pending" =>
    Whole(Passive) /\ otaState[Passive] \in {"valid", "undefined"}

\* "ready" is reported only while a whole image waits in the slot to boot next.
\* (Or was given up by the bootloader before its firmware_ota_init ran, and the
\* image that runs again has no otadata entry to say so.)
ReadyMeansInstalled ==
  power = "up" /\ status = "ready" =>
    /\ bootSlot = Passive
    /\ Whole(Passive)
    /\ otaState[Passive] = "new" \/ otaState[running] = "undefined"

\* An image of another project never runs (firmware_ota.c:275, 547), unless the
\* restart that had to follow an update over BLE was missed: a second image then
\* goes into the slot that is already selected, and firmware_ota.c:275 comes too
\* late to take the selection back.
OnlyOwnImageRuns == missed \/ flash[running].image \in Own

\* The slots are sound at every instant, whenever the power fails: something to
\* fall back to, nothing of another project, nothing announced that is not there.
SlotsSound == FallbackKept /\ OnlyOwnImageRuns /\ ReadyMeansInstalled

\* An update over HTTPS never installs a version that is not newer than the one
\* that runs, though the server may change what it serves between the metadata
\* and the download (firmware_ota.c:552, 643).
HttpsUpgradesOnly ==
  [][checkPc = "download" /\ checkPc' = "restart" =>
       Version[flash[Passive].image] > Current]_vars

\* The image a restart goes back to, and the one it tries.
Trusted ==
  IF otaState[running] = "pending" THEN flash[Passive].image
  ELSE flash[running].image
Staged ==
  IF bootSlot = Passive /\ otaState[Passive] = "new" /\ Whole(Passive)
  THEN flash[Passive].image ELSE None

\* The update is atomic: it takes effect whole, at a restart and on trial, and
\* until the image is confirmed a restart goes back to the one it replaced. See
\* AtomicUpdate.
Promise == INSTANCE AtomicUpdate WITH
  image <- flash[running].image, trusted <- Trusted, staged <- Staged
PromiseKept == Promise!Spec

\* An update announced as complete ("restarting":true, main.c:2425; "reiniciando
\* em 2 segundos", firmware_ota.c:675) is what the restart boots.
AnnouncedUpdateBoots ==
  power = "up" /\ RestartDue => bootSlot = Passive /\ Whole(Passive)

\* The same without the excuse: the code does not keep this.
OwnImageAlways == flash[running].image \in Own

\* Leaving BLE configuration mode resumes Wi-Fi (main.c:2265): it does not
\* restart the device.
LeavingBleKeepsRunning == [][ble = "stopping" /\ ble' = "closed" => power' # "panic"]_vars

\* Leaving BLE configuration mode leaves no BLE update behind: one would keep
\* s_update_mutex, and with it every other update out, until the next restart.
NoUpdateWithoutPhone ==
  ble = "closed" /\ rxPc = "idle" /\ inbox = <<>> => ~session.active
=============================================================================
