# Verification of the LoRa / WebSocket / BLE gateway

The program is the firmware of an ESP32 gateway (ESP-IDF, FreeRTOS, two cores).
It keeps a WebSocket to a server, receives from it commands for pumps mounted on
remote tanks, and sends them over a half-duplex LoRa radio (an E32 module on a
UART), each until the tank acknowledges it.  A phone configures the gateway and
may replace its firmware over BLE.  `src/main/config.h` builds it either as
transmitter (`GTW_ROLE_TX_ONLY`, the committed setting) or as receiver of the
tanks' measurements (`GTW_ROLE_RX_ONLY`), which are then sent to the server.

## Inventory

| component | code | state | runs in |
|---|---|---|---|
| LoRa transaction | `main.c:1593-2194` | `gtw_ack_wait`, `gtw_request_mutex`, `MutexLora`, `gtw_lora_ready`, error counters, `msg_counter_gtw` | `ws_msg_processor` (sends), `gtw_lora_rx_task`, `gtw_lora_health_task` |
| E32 driver | `lora.c` | `g_rx_stream`, current head, mode pins | whoever holds `MutexLora` |
| firmware update | `firmware_ota.c`, `main.c:2271-2293, 2395-2445` | `s_ble_ota`, `s_update_mutex`, `s_check_task`, the OTA slots, `otadata` | NimBLE host task, `ble_rx`, `ble_stop`, `ota_check`, `fw_validate` |
| command decision | `main.c:1099-1415` | `ws_msg_queue`, readings fetched over HTTP | `ws_msg_processor` |
| WebSocket and login | `main.c:658-1097`, `http_request.c` | `token_global`, `TokenOk`, `ws_client`, restart request, `Connectado` | `websocket_task`, `login_task`, client's event task, token timer |
| Wi-Fi monitor | `main.c:438-655`, `wifi.c` | driver state, failure counters | `wifi_task`, event loop |
| BLE window | `bluetooth.c`, `main.c:2198-2269` | `ble_window_open`, `ble_stack_started`, `ble_stack_stopping`, `active_conn_handle` | NimBLE host, timer, `ble_stop`, `ble_adv`, `app_main` |
| configuration and boot | `main.c:190-436, 2366-2550, 2618-2713`, `salvar_nvs.c` | NVS entries, globals | `ble_rx`, `app_main` |
| PATCH pool (receive role) | `main.c:1421-1587, 1820-1888` | `xPatchQueue`, `xPatchFreeQueue`, duplicate cache | `gtw_lora_rx_task`, `patch_task` |
| memory monitor | `main.c:2553-2612` | `boot_cycles` | its own task |
| network mode | `network_mode.c` | none | boot |

Interactions.  A WebSocket event copies the message into `ws_msg_queue`;
`ws_msg_processor` decides and calls `gtw_send_to_tank`, which blocks it for the
whole transaction.  The sender and the receiver share the radio through
`MutexLora` and meet in `gtw_ack_wait` and the sender's task notification.  Login
and the OTA check share `MutexHTTP`; the token goes from `login_task` to the
WebSocket task through a global and a flag.  A BLE connection turns Wi-Fi off and
a disconnection turns it back on.

What is hard: ACKs that are lost, late or answer an earlier retry; three tasks
that repair one radio; a firmware session driven by two BLE tasks and closed by a
third; power lost between any two flash writes; a token that expires while a new
one is fetched; windows that close while a client connects.

Properties that make each part correct:

- LoRa transaction: success only if the tank got the frame; the wait belongs to
  the open transaction; the radio is reconfigured only between transactions;
  every call returns; a radio that works is found again.
- Firmware update: the running image is never erased; the gateway can boot after
  a crash at any point; one update at a time; losing the phone does not stop the
  device.
- WebSocket and login: the tasks agree on the token; a request to recreate the
  WebSocket survives until a task serves it; the gateway comes back online.
- BLE window: the mode follows the phone; one task at a time takes the stack
  down; every window closes.
- Wi-Fi monitor: a network that works is used, one that never works ends in a
  restart, and none comes too early; Wi-Fi yields to BLE.
- PATCH pool: no slot lost or doubled; what is acknowledged is delivered; the
  level of a tank never goes back.
- Configuration: flash and RAM agree after every command and every loss of power.
- Command decision: order, ownership of the buffers and of the mutexes, no
  command dropped on the way to the radio, true answers to pings.
- E32 driver: what is found depends on the bytes alone; nothing is dropped for
  want of room; every call returns.

## The modules and the code

Each `MC` module only names the values of the constants.  Operators that a
comment calls a mutant are faulty variants of the definition below them, kept so
that every property can be shown to depend on the code it is about; no
specification uses them.  Where a property is a conjunction, its parts are named
and explained above it in the module.

### LoraLink and AckedSend

One step is the code between two points at which another task can act on shared
state.  A wait with a time-out is two actions, one per outcome, and time is not
counted.

| actions | code |
|---|---|
| `Begin` | `gtw_send_to_tank`, `gtw_ping_tank`: the frame gets its `msg_id` |
| `TakeRequest` .. `GuardElapsed` | `gtw_send_frame_wait_ack`, `main.c:2048-2144`, one action per mutex operation, wait and send |
| `RxPoll` .. `RxNotify` | `gtw_lora_rx_task` with `gtw_ack_wait_is_active`, `main.c:1648-1806` |
| `HealthWake` .. `HealthRecover` | `gtw_lora_health_task`, `main.c:1893-1956` |
| `Repaired`, `NotRepaired` | `lora_e32_reinit` and `lora_apply_config_with_retries`, in whichever task calls them |
| `Environment` | the channel and the tanks: loss, delay, reordering, duplication, a radio that stops and works again |

The variables have the names of the code (`gtw_ack_wait` is `ackWait`, and so on).
`delivered`, `succeeded`, `errorRun` and `owed` are history.  A frame is its
transaction's number; what travels is the number modulo `IdModulus`, so two
transactions can be confused exactly when the code can confuse them.
`AckedSend` is the promise to the caller, in four actions: one transaction at a
time, success only for a frame that reached its tank.

Two assumptions stand for time.  When an 8-bit `msg_id` comes round again, 256
transactions later, no frame that carried it is still on the way (`Begin`).  And
the receiver is not stopped between clearing the wait (`main.c:1796`) and its
`xTaskNotifyGive` (`main.c:1802`) for longer than the sender's next delay:
`NotifyLatency = 0`.  The run `link_late_notify` drops the second one.

### FirmwareUpdate and AtomicUpdate

| actions | code |
|---|---|
| `RxBegin`, `RxErased`, `RxFinish`, `RxInstall`, `RxReject`, `RxAbandon`, ... | `firmware_ota_ble_begin`, `_finish`, `_abort` as `ble_rx` calls them |
| `HostWrite` | `firmware_ota_ble_write` in the NimBLE host task |
| `StopBle` | `bt_client_disconnected_callback` in the task that closes BLE |
| `CheckStart` .. `CheckFail` | `ota_check_task`, `check_for_update_once`, `firmware_ota_update_https` |
| `InitApp`, `Validate` | `firmware_ota_init`, `validation_task` |
| `PowerLoss`, `Restart`, `BootLoader` | everything in RAM is lost; the bootloader with rollback |
| `Release` | `ble_ota_release`, with what FreeRTOS does to a mutex given by a task that does not hold it |

Content of a slot is which image it holds and how many of its packets; an image
is whole with `Chunks` of them.  The partition table, the OTA library, the
bootloader and the phone are external and modelled as the code relies on them.
`AtomicUpdate` says what it amounts to: an image takes effect whole, at a restart,
on trial, and until it is confirmed a restart goes back to the previous one.  The
refinement maps `trusted` to the image a restart would go back to and `staged` to
the one it would try.

Assumed: the device was flashed over the serial line first (`ota_0` runs, its
state undefined); the phone sends a packet when the previous reply has come
(`bluetooth.c:210`); and a restart that counts down comes before another whole
image is written (`InTime`), if a transfer takes longer than the countdown,
`RestartMs < TransferMs`: 1.5 s or 2 s against an image of a megabyte.  No line of
the code sees to that.  The task that restarts may not be created (`main.c:2428`
ignores the result): then nothing counts down, `InTime` forbids nothing, and
`missed` records it.  `OwnImageAlways` says what breaks then; `SlotsSound` allows
for `missed` in its clause about images of other projects.  The other calls of `esp_restart` (ConnectRest, GtwConfig,
`wifi_task`) act on this state as `PowerLoss` does.  NVS writes succeed; the NVS
texts that are only displayed are left out.

### WebSocketLogin

| actions | code |
|---|---|
| `LoginCheck` .. `LoginWakes`, `TimerFires` | `login_task`, `fazer_login`, the token timer |
| `StartCheck` .. `Created` | `websocket_task_start_if_needed`, called by login and by the monitor |
| `MonitorCycle` | `vTaskImprimirUsoMemoria`, its part about the WebSocket |
| `WsBegin` .. `WsExit`, `SetupRetry` | `connect_to_websocket` |
| `HandlerClears` .. `HandlerNotifies` | `websocket_event_handler` on a 401 or 403, one action per assignment that another task can fall between |
| `HttpSend` .. `HttpNotifies` | `server_get_json` before a pump command |
| `SendJson`, `JsonSent` | `ws_send_json` |
| `ConfigMode`, `ConfigStops` | `ble_config_mode_task`: a phone connected |
| `Connect`, `Disconnect`, `WifiFlips`, `Revoke` | the client library, the network, the server |

`token_global` is shared without a lock.  While `login_task` copies a token into
it, it has the value `Torn`, which the server refuses; a clear that falls into the
copy may survive it or not.  A token's name is used again once nothing holds it,
so three names stand for any number of tokens.  `MutexHTTP` appears as two guards:
no GET while a token is copied, and none under way when one is issued.
`ws_lifecycle_mutex` is a variable; a wait for it that times out is the busy
outcome.  `asked` is a ghost: the task that runs, or ran last, asked to be
recreated.  Sixty seconds of failures (`WS_RECREATE_AFTER_MS`) are longer than the
two instructions between `xTaskCreate` and the end of its critical section; once
`esp_websocket_client_stop` is called the client makes no new attempt.  A restart
is `Init`: nothing of this is persistent.

### BleWindow, WifiMonitor and RadioMode

`RadioMode` is the rule of the gateway's two radios: a phone, or the window at
boot, claims the gateway; `wifi_task` starts the driver after it found the gateway
unclaimed and takes it down when it finds it claimed; decision and start are two
steps.  `WifiMonitor` implements it.  `BleWindow` has the claims in detail, and of
`wifi_task` the lines about BLE, because the server can open a window only while
Wi-Fi runs.

| actions of `BleWindow` | code |
|---|---|
| `StartCall` .. `StartReturns`, `StartRefused` | `bluetooth_config_start`, called by `app_main` and by `handle_BTOn` |
| `HostSync`, `HostConnect`, `HostFailed`, `HostDisconnect` | `on_sync`, `gap_event_cb` in the host task |
| `StopNothing` .. `StopEnds` | `bluetooth_config_stop`, one action per wait, in every task that may call it: the `ble_stop` tasks, `app_main`, and, once `app_main` is done, the memory monitor in its place |
| `MonitorStops` | `vTaskImprimirUsoMemoria` when the heap is nearly full and BLE is active |
| `Timeout`, `StopAsync`, `AdvertiseTask` | the window's timer, `ble_stop_async`, `ble_advertise_async` |
| `ConfigTaskBegins`, `ConfigTaskEnds` | `ble_config_mode_task` |
| `BootLoads` .. `BootTasks`, `BootTaskEnds` | `app_main` and `ble_startup_window_task` |
| `ReceiveBtOn`, `HandleBtOn`, `BtOnOpened` | `handle_BTOn` in `ws_msg_processor` |
| `WifiAllowed`, `WifiStarts`, `WifiStops` | the lines of `wifi_task` about BLE |

| actions of `WifiMonitor` | code |
|---|---|
| `Try`, `TryRefused`, `TryAllowed`, `DriverStarts`, `JoinReturns`, `Resume` | `tentar_conectar_wifi`, `wifi_start`, and what each of its six callers does next |
| `Yield`, `FindInactive`, `FindNoIp`, `FindNoAp`, `FindIp` | the turn of `wifi_task`, by what it finds |
| `WriteSample`, `Online`, `Offline` | the end of a turn with an address: `Connectado`, login, OTA check, test of the Internet |
| `EspRestart` | the restart at `WIFI_CYCLE_MAX_RETRIES` |
| `Associate`, `GetIp`, `LoseIp`, `LoseAp`, `World` | driver events and six kinds of network: none, one that gives no address, one that comes and goes, a slow one, one without Internet, a good one |

### PatchQueue

| actions | code |
|---|---|
| `Receive` .. `Ack`, `Forget` | `gtw_lora_rx_task`, `queue_http_request`, `coalesce_queued_tank_level`, `gtw_rx_dup_cache` |
| `PatchReceives` .. `PatchFrees` | `patch_task` with its retries and its restart |
| `Login`, `SetConnectado` | what other tasks change that `patch_task` reads |

Messages are numbered, so that "older" and "the same" mean what they mean to a
tank.  A wait for `patch_pool_mutex` that runs out leaves its step out, as the
code does; `missed` counts those, and the two parts about levels allow for them.
The run of the pool has `RxOnly = FALSE`: `patch_task` has branches for a gateway
that also has a WebSocket (`main.c:759, 1545, 1566`), and with them something sets
`Connectado`.  With `RxOnly = TRUE`, the only value `config.h` gives a build that
contains this code, nothing does: that is the finding `patch_rx_only`.

### GatewayConfig

`BeginConfig`, `BeginWifi` and `SaveNext` are `bt_message_received_callback` on
`GtwConfig` and `GtwWifi`: one NVS commit per step.  `BootLoads`, `BootRepairs`,
`BootChecks` and `BootPolls` are `app_main`; `BootErases` is `nvs_flash_init` on a
flash without a free page; `Restart` is a loss of power or `esp_restart`, between
any two of them.  A text fits its variable, is empty, or is too long, in which
case `strlcpy` keeps a part of it and `load_*` nothing.  The flash may refuse to be
read (`Read`): the variable keeps its default until the next start or a command
(`unread`), and of two identifiers the one that was read is saved over the other.

### CommandDispatch

`Data` is `websocket_event_handler` on a message (copy, queue, or drop); `Receive`
.. `Send` are `ws_msg_processor_task` with `handle_bomba_control`,
`handle_PingTanque` and `handle_BTOn`, one action per mutex, request and
transmission; `Others` are the tasks it shares `MutexHTTP` and
`ws_lifecycle_mutex` with, and the client.  The radio is an instance of
`AckedSend`: what `LoraLink` is proved to implement is what is assumed here.
`begun` counts transactions begun, which is less than frames on the air:
`gtw_send_to_tank` may give up before it transmits, when `gtw_request_mutex` does
not come free or the radio is not ready (`main.c:2053-2067`), and the handler then
reports a failure.  A command whose text does not fit its buffer is discarded
(`main.c:1298-1301`); values that a flow meter can have are far shorter, and the
branch is left out.

### E32Stream

`Call`, `Scan`, `Read`, `ReadsNothing`, `ReadFails`, `TimesOut` and `Deadline` are
`lora_e32_receive_raw`; `Flush` is `lora_e32_flush_rx`.  The sizes are constants
that keep the relations of the code's (a chunk and a frame fit the stream, a call
is shorter than the age at which bytes are stale); the checksum is any function.
`heard` and `frames` are history: the bytes since the stream was last emptied and
where in them frames were found.  `LeftoverForgotten` speaks of a driver that is
called again and again (`CallsGoOn`), as the receive role does.  The transmit role
makes no call while it awaits no ACK (`main.c:1680-1685`): a leftover then stays
in the stream until the flush of the next transaction (`main.c:2087`).  Its definitions that every module has (`StreamInit`,
`StreamNext`, `StreamSpec`) are named so that it can be used beside `LoraLink`.

## Runs

| run | shows | states | time |
|---|---|---|---|
| `link` | `AcksBelong`, `RepairOutsideTransactions`, `TypeOK`; `LoraLink` implements `AckedSend`; `TransactionEnds`, `RadioRecovers` | 624 000 | 193 s |
| `link_late_notify` | violation of `AckAttribution` when the receiver may stall | - | 5 s |
| `update_safety` | `LockMatchesWork`, `SlotsSound`, `RunningImageIntact`, `HttpsUpgradesOnly`, `TypeOK`; `FirmwareUpdate` implements `AtomicUpdate` | 3 181 000 | 76 s |
| `update_leave_ble` | violation of `LeavingBleKeepsRunning` | - | 1 s |
| `login` | `TokenAgreed`, `RequestPending`, `ClientInUseIsAlive`, `StopHonoured`, `BackOnline` | 128 000 | 181 s |
| `ble_mode` | `ModeFollowsPhone`, `ClaimEnds`, `WindowCloses` | 282 000 | 60 s |
| `wifi_monitor` | `RestartsCounted`, `OnlineAgain`, `FruitlessRestarts`; `WifiMonitor` implements `RadioMode` | 79 000 | 40 s |
| `patch_pool` | `PoolConserved`, `AcceptedKept`, `ServerMovesForward`, `Delivered` | 137 000 | 35 s |
| `patch_rx_only` | violation of `LoginServesPatch` | - | 5 s |
| `config_crash` | `RamSound`, `RestartChangesNothing`, `StaysConfigured` | 12 395 000 | 143 s |
| `commands` | `HeldIsOwned`, `OutputsTrue`, `CommandNotLost`, `EveryMessageHandled` | 231 000 | 26 s |
| `e32_frames` | `FramesFound`, `KeepsWholeFrames`, `CallReturns`, `LeftoverForgotten` | 994 000 | 69 s |

The times are on two workers.

Bounds, and why they are enough:

- `LoraLink`: transactions are numbered below `MaxSeq`; with `IdModulus = 2` three
  of them let a `msg_id` come round.  `AttemptLimit` 2 and 1 are a retry with a
  backoff and none; `FailuresBeforeRecovery` and `UartErrorLimit` of 1 make every
  failure reach the repair.  One tank is enough for TLC because the theorems hold
  for any set of tanks; a second one would multiply the states by ten.  Calls end
  when `MaxSeq` is used up, hence `CHECK_DEADLOCK FALSE`.
- `FirmwareUpdate`: two packets are the least for which an image can be cut in
  the middle, before the first and after the last; two own versions make an
  upgrade and a downgrade, a third image is foreign; two attempts are one retry;
  a queue of two holds a finish behind a begin.  `RestartMs` and `TransferMs` are
  2 s and 30 s; only their order matters, and with `TransferMs = RestartMs` TLC
  finds `SlotsSound` violated.  Nothing else is bounded: power may fail for ever.
- `WebSocketLogin`: `MaxDisturbances` bounds refreshes, revocations, phones and
  torn reads, `MaxGets` the requests over REST, and `BootCycles` is the monitor's
  threshold.  1, 1 and 0 let any one of them meet any state and any failure of
  the network, which is not bounded.  The safety parts were also checked with 2,
  2 and 1 (2 560 000 states, without fairness).
- `BleWindow`: one command of the server after the windows of `app_main`, and two
  `ble_stop` tasks beside `app_main` or the monitor, let a window be opened while
  an earlier one is being closed by two tasks; two commands were also checked
  (735 000 states, 221 s).  Phones come and go without a bound.  The commands end,
  hence `CHECK_DEADLOCK FALSE`.
- `WifiMonitor`: each limit is 2, so that each of its counters has a value below,
  at and above the half way; nothing else is bounded.
- `PatchQueue`: two slots, two levels and one event from one tank are a full
  pool, a level to coalesce and one too many; one missed mutex falls on each of
  its four places in turn; `MutexHTTP` may be missed once, and the second time is
  the restart.  Two events (702 000 states), and two tanks without fairness
  (2 833 000 states), were checked too.  Messages end, hence
  `CHECK_DEADLOCK FALSE`.
- `GatewayConfig`: three commands are two that differ and one that mends; power
  may fail without a bound, and each start may fail to read any of one text and
  the two identifiers (`Unreadable`; the theorems hold for any keys).  A gateway that nobody configures waits, hence
  `CHECK_DEADLOCK FALSE`.
- `CommandDispatch`: three messages of every kind and of two gateways, against a
  queue of two, so that it overflows.
- `E32Stream`: seven bytes of four values hold two whole frames with noise, a
  false preamble in each place, and a frame within what looks like another; a
  frame has at most four bytes, a chunk two, the stream five.

Fairness, and why the code justifies it:

- `LoraLink`: weak fairness of each task.  FreeRTOS runs a task that is ready, and
  every wait in them has a time-out.  The channel and the radio owe nothing.
- `WebSocketLogin`: weak fairness of each task and of the return of a GET, which
  has a time-out; strong fairness of what succeeds if it is tried for ever: a
  login, the creation of a task, the set-up and the start of a client, the answer
  of the server to a handshake, and a mutex that is given again and again
  (`portMAX_DELAY`, first come first served).  A server that never answers keeps
  the gateway offline whatever the code does.
- `BleWindow`: weak fairness of `app_main`, of the tasks that open and close
  windows, of the timer and of the host; and a phone leaves some time, if only
  because its link is lost.  Nothing is asked of `wifi_task`.  `ClaimEnds` and
  `WindowCloses` are excused when a task could not be created.
- `WifiMonitor`: weak fairness of `wifi_task`; an attempt to join has an outcome
  (strong, because a claim may interrupt it), and a network that works lets the
  station in and gives it an address.
- `PatchQueue`: weak fairness of the tasks; strong fairness of `PatchSends` (the
  mutex is free again and again) and of `PatchSucceeds` (the server accepts a
  request that is repeated for ever).  A request the server refuses for what it
  says breaks the second assumption: see below.
- `CommandDispatch`: weak fairness of the processor, all of whose waits have
  time-outs.
- `E32Stream`: weak fairness of the steps of a call and of its deadline.  That
  calls are made is not assumed: `LeftoverForgotten` says what follows if they go
  on (`CallsGoOn`).
- `FirmwareUpdate` and `GatewayConfig` state no liveness: a phone may stop at any
  time.

## Proofs

The proofs hold for every value of the constants that the `ASSUME`s allow.  Where
a theorem needs more it says so: `NotifyLatency = 0` in four of `LoraLinkProofs`,
and `RestartMs < TransferMs` in `SlotsAreSound`, which makes the guard `InTime`
of `FirmwareUpdate` effective, an assumption on time that no line of the code
enforces.  The other theorems of `FirmwareUpdateProofs` hold without it.

| theorem | says |
|---|---|
| `LoraLinkProofs!TypeCorrect` | types; the counters stay below their thresholds |
| `LoraLinkProofs!RepairIsolated` | the radio is never reconfigured within a transaction |
| `LoraLinkProofs!AcksRightlyMatched` | `AcksBelong`, from `WaitEnds` (the wait belongs to the open transaction) and `AcksAttributed` (success is reported only for a frame that reached its tank) |
| `LoraLinkProofs!PromiseIsKept` | `LoraLink` implements `AckedSend` |
| `FirmwareUpdateProofs!TypeCorrect` | types |
| `LoraLinkProofs!FramesAreFound` | `FramesFound` of `E32Stream`: every frame in the bytes consumed is returned, once, however the bytes are cut |
| `LoraLinkProofs!WholeFramesAreKept` | `KeepsWholeFrames` of `E32Stream`: no read overflows, no whole frame goes stale |
| `FirmwareUpdateProofs!LockCorrect` | `s_update_mutex` is held exactly while an update may write |
| `FirmwareUpdateProofs!RunningIntact` | the slot that runs is never written |
| `FirmwareUpdateProofs!SlotsAreSound` | `SlotsSound`, if `RestartMs < TransferMs`: an image on trial has a whole image to go back to, what is reported as ready is there, no image of another project runs unless the task of a due restart could not be created |
| `FirmwareUpdateProofs!UpdateIsAtomic` | `FirmwareUpdate` implements `AtomicUpdate` |
| `FirmwareUpdateProofs!HttpsIsUpgrade` | an update over HTTPS installs only a newer version |
| `GatewayConfigProofs!RamIsSound` | what the tasks read fits its buffers and is of one gateway |
| `GatewayConfigProofs!RestartIsHarmless` | `RestartChangesNothing`: flash and RAM agree between commands, but for what could not be saved or read and texts that are too long |
| `GatewayConfigProofs!GatewayStaysConfigured` | an interrupted command never makes a configured gateway wait for a phone, unless for what it could not read |
| `WebSocketLoginProofs!TypeCorrect` | types |
| `WebSocketLoginProofs!TokenIsAgreed` | no task goes on with, or sleeps on, a token that is not the one on record |
| `WebSocketLoginProofs!RequestIsKept` | a request to recreate the WebSocket task is not withdrawn for the task it asked for |
| `WebSocketLoginProofs!ClientStaysAlive` | no client is destroyed under `ws_send_json` |
| `CommandDispatchProofs!NothingLeaks` | `HeldIsOwned`: every copy and every mutex has its owner |
| `CommandDispatchProofs!OutputsAreTrue` | transactions in the order of the commands and none twice; answers to pings are true |
| `CommandDispatchProofs!NoCommandIsLost` | the transaction of a command taken up is begun, or the server has the command |
| `PatchQueueProofs!PoolIsConserved` | no request is lost or in two places |
| `PatchQueueProofs!AcceptedIsKept` | what a tank was told is accepted is in the pool or at the server |
| `PatchQueueProofs!LevelsGoForward` | `ServerMovesForward`: no level goes back, no request changes while it is sent |
| `WifiMonitorProofs!RestartIsCounted` | the ESP32 is restarted at the limit, and never before so many calls of `tentar_conectar_wifi`, those refused for a claim included |
| `WifiMonitorProofs!MonitorKeepsMode` | every step is one of `RadioMode`, leaves it alone, or is the restart |
| `BleWindowProofs!PhoneHasItsMode` | `ModeFollowsPhone`, with one task at a time that stops NimBLE |

`LoraLinkProofs`.  None of the invariants is inductive alone.  `MutexInv` ties the
holder of each mutex to the control points of the three tasks; the isolation of
repairs follows from it.  `FlightInv` says what an ACK in flight can be: one for
a transaction that was delivered and begun; `WaitInv` adds that a notification is
pending, or about to be given, only while the transaction it answers is still
waiting, and that its frame was delivered.  That is where `NotifyLatency = 0` is
needed, in `WaitEnds`, `AcksAttributed`, `AcksRightlyMatched` and `PromiseIsKept`.
`NumberInv` bounds the number of the open transaction by `msgCounter`, which the
refinement needs.

The end of `LoraLinkProofs` is about `E32Stream`, the driver below the link.
`StreamInv` adds to `FramesFound` what the parser knows of each byte it left
behind: it is no preamble, or what follows it was enough to tell that no frame
begins there (`NoFrameAt`), or it was returned (`InFrame`).  The clause is needed
because `FramesFound` alone does not survive a read: bytes that arrive later could
complete a frame that was skipped.  `DecidedForGood` says that they cannot, since
the checksum looks at the announced length alone.  Before a read the stream is
undecided (`ReadsInFrame`), so shorter than the longest frame, and a chunk always
fits.  Nothing is assumed of the checksum.

`FirmwareUpdateProofs`.  `UpdateInv` joins five parts, proved one after the other.
`UpdatePhases` says which session and control points go with which holder of the
mutex.  `SlotsInUse` says which combinations of otadata states and content can
occur: the slot that runs is whole and was not given up, an image on trial is the
one selected and has its fallback, and what is new is selected.  `StagedIsOwn`
follows the project of every image that may boot, while no restart was missed.  `ReadyAndStaged` follows the
state "ready", which is kept in NVS, through the restarts in which the image it
announced is taken, tried and given up.  Lemma `BootStep` is the heart of the
refinement: it shows that the bootloader's three-way choice is `AtomicUpdate`'s
`Restart`.  `HttpsIsUpgrade` needs `NewerOnly` beside it: from the moment the
metadata is compared, the version that is expected, and then the image that is
written, is newer than what runs.  It holds because nobody else writes the slot
while `ota_check` has the mutex, and because the slot that runs changes only in
the bootloader, when there is no `ota_check`.

`GatewayConfigProofs`.  `ConfigInv` is inductive: a command brings both
identifiers, equal, or none (`Command`); of a command under way, each value that
is no longer to be saved is in the flash or is known not to be (`TextKept`,
`IdsKept`); between commands what a restart would load is what is in use, or could
not be read; and while `app_main` looks at what it loaded, that is what the flash
has or the default (`Booting`).
The identifiers need a clause of their own, because what is loaded of one depends
on the other.  `ConfigInv` was also checked by TLC on the instance of
`config_crash`.

`WebSocketLoginProofs`.  `LoginInv` has the types and two parts.  `TaskInv` ties
`ws_lifecycle_mutex` and the client to the control points of the tasks that use
them; a task that was just created cannot have asked for another one, because its
creator holds the mutex it needs first (`NewTaskIsQuiet`).  `AgreementInv` says
what `login_task` has seen at each of its points: a token on record, or a
notification that will wake it; and after it told an older task to stop, that a
task which goes on has the new token.  `TokenAgreed` alone is not inductive: it
says nothing of the points before `login_task` sleeps.

`CommandDispatchProofs`.  `DispatchInv` puts what was begun, what is in hand and
what is queued in one line of messages (`InOrder`), and says that transaction `n`
of the radio is the message begun as number `n + 1` (`OnAir`).  The second is what
makes an answer to a ping true: the result in hand is that of the transaction that
was opened last, and `AckedSend` promises what it means.

`PatchQueueProofs`.  `PoolInv` comes in two layers.  The first holds whatever
`patch_pool_mutex` does: an index is in the free queue, in the queue, with the
receiver or with `patch_task`, and in one of them (`OnePlace`, `InHand`); a
request has its message from the time it is filled (`Filled`); and the duplicate
cache knows only what was accepted (`Remembered`).  It gives `PoolIsConserved` and
the part of `AcceptedIsKept` about events.  The second, `LevelsInv`, is about
levels and holds while the mutex was not missed: the marks tell where a request is
(`Marked`), a tank has at most one level queued (`OneQueued`), and its levels are
in line: the server's, the one being sent, the queued one, the one in hand
(`InLine`).  Without `OneQueued` a coalesced level could overtake another.  TLC
checked `PoolInv` on three instances before it was proved.

`WifiMonitorProofs`.  `MonitorInv` says that a counter at its limit is in the hands
of the call that starts it again (`InSeries`), and that each cycle counted had a
call of `tentar_conectar_wifi` of its own (`Counted`), so that the count at the
restart is one of calls.  A call that finds BLE active returns at once
(`main.c:439`) and counts.

`BleWindowProofs`.  `WindowInv`: the mark `ble_stack_started` covers the life of
the stack (`StackMarked`), the host reports one thing at a time (`HostHears`), one
task at a time is between the two waits of the tear-down and finds the stack where
it left it (`OneTakesDown`), and what arrives after a window was closed arrives
while somebody is closing it (`LateGuest`).  The assumption on the names of the
tasks says that `app_main` is none of the `ble_stop` tasks, which the model means
and the proof needs.  TLC checked `WindowInv` on the instance of `ble_mode`.

The refinement of `RadioMode` by `WifiMonitor` is proved as far as it is safety:
every step is a step of the rule, a stutter, or the restart.  `RadioMode`'s
fairness, `Yields`, is checked by TLC as part of `ModeKept`.

What stays with TLC, and why:

- Liveness, which TLAPS cannot prove here: `TransactionEnds`, `RadioRecovers`,
  `StopHonoured`, `BackOnline`, `ClaimEnds`, `WindowCloses`, `OnlineAgain`,
  `FruitlessRestarts`, `Delivered`, `EveryMessageHandled`, `CallReturns`,
  `LeftoverForgotten`, and the `Yields` of `WifiMonitor`'s `ModeKept`.
- The violations: one counterexample each is all that can be said.

## Findings

- `link_late_notify` (code).  The notification of an ACK names neither `msg_id` nor
  tank and is given after `gtw_ack_mutex` was released.  If the receiver is stopped
  just there while a retry fails to transmit and is repeated at once, the late
  notification ends the wrong attempt, the wait stays armed behind its transaction,
  and a duplicate ACK can end the next command as a success although its frame
  reached no tank.  It takes a stall of the receiver across several steps of the
  sender; without one the theorem `AcksAttributed` holds.
- `update_leave_ble` (code).  `s_update_mutex`, taken by `ble_rx`, is given by the
  task that closes BLE; FreeRTOS asserts that the holder gives a mutex, and the
  gateway restarts.  A flash write that fails in the host task does the same.
- `patch_rx_only` (code).  In the receive role nothing sets `Connectado`: the only
  assignment of 1 that can be reached is compiled for the transmit role, and
  `wifi_task` writes 0 at every turn.  `patch_task` takes a request and waits for
  ever, logged in, and no measurement is sent.

### Known divergences without a run

The modules also state these, which the code violates.  Each is reproduced by
naming the definition in the configuration of the module's run, in place of its
properties.

| module | definition | what happens |
|---|---|---|
| `LoraLink` | `ConsecutiveErrorsOnly` (with `UartErrorLimit = 3`) | "Falha UART LoRa consecutiva" counts errors that are not consecutive: a read that ends without error and without a frame does not reset the streak |
| `FirmwareUpdate` | `AnnouncedUpdateBoots` | between the reply "restarting" and the restart another `BleOtaBegin` may erase the slot that was just selected; the old image boots, whole and trusted |
| `FirmwareUpdate` | `OwnImageAlways` | the task that restarts after a BLE update cannot be created and nobody looks (`main.c:2428`); a second update writes a whole image of another project into the slot that is selected, is rejected, and the next reset runs it |
| `FirmwareUpdate` | `NoUpdateWithoutPhone` | a phone that disconnects while its `BleOtaBegin` is queued or erasing leaves a session that keeps `s_update_mutex` until the next restart |
| `WebSocketLogin` | `OnlyRefusedTokenCleared` | the handler of a 401 clears `token_global` without asking which token was refused; the cost is one login (`BackOnline` holds) |
| `BleWindow` | `WaitingIsReachable` | a gateway without configuration opens BLE once; when that window closes it waits for a phone that cannot reach it, until it is restarted |
| `BleWindow` | `WindowHasStack` | a window opened while an earlier one is being closed is reported open and has no stack until its timer closes it |
| `WifiMonitor` | `RestartWithoutIp` | the ESP32 restarts for want of an address that it just got |
| `WifiMonitor` | `FlakyRestarts` | an association that comes and goes resets each counter by the other: neither the driver nor the ESP32 is ever restarted |
| `GatewayConfig` | `SavedIsLoaded` | a text that is too long is accepted and reported as saved; the restart that the reply asks for does not load it and the gateway waits for a phone.  (An empty one is loaded as what it is, and the gateway waits too) |

Two more are assumptions of a property: a request the server refuses for what it
says (400, 404) is repeated for ever and holds up those behind it (`Delivered`),
and an image that fails its trial is downloaded again at the next connection,
without end (`FirmwareUpdate` has no bound on restarts).

## Not modelled

- Network mode selection: a choice made by the compiler, without state.
- Build configuration: read for the options the models depend on (rollback,
  assertions, one BLE connection, two OTA slots).
- E32 configuration dialogue (`lora_e32_apply_cfg_with_head`): a straight
  sequence of pin levels, delays, writes and reads under `MutexLora`; `LoraLink`
  takes either outcome.
- Heap exhaustion is no state of any model but `WifiMonitor` (`memory`); what the
  code does about it, a restart or a closed window, is an action of the others.
- Heartbeats and the health task of the receive role: they log and repair, and
  change nothing that another task of that role reads.
- The unused helpers of `salvar_nvs.c` (floats, pump states), the secondary Wi-Fi
  network (nothing sets `wifi_secundario`), formatting, JSON as text, times.

## Plan

All modules of the plan are written: `AckedSend`, `LoraLink`, `AtomicUpdate`,
`FirmwareUpdate`, `WebSocketLogin`, `RadioMode`, `BleWindow`, `WifiMonitor`,
`PatchQueue`, `GatewayConfig`, `CommandDispatch`, `E32Stream`.  Every invariant and
every action property that a passing run checks is proved.  What is left
is liveness: TLC checks it, and the lemmas a reader would want of it (a measure
that falls with each retry, as `attempt` does in `LoraLink`) could be proved as
action properties.
