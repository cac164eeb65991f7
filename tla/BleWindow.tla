---------------------------- MODULE BleWindow ----------------------------
(* The BLE configuration window: bluetooth.c, the callbacks of main.c that  *)
(* switch the gateway between BLE and Wi-Fi, app_main from the missing      *)
(* configuration to wifi_task, and handle_BTOn.  A step is the code between *)
(* two points at which its task waits: for NimBLE, for a delay, for another *)
(* task.  What wifi_task does besides is in WifiMonitor.                    *)
EXTENDS Naturals, FiniteSets

CONSTANTS
  StopTasks,   \* names for the "ble_stop" tasks that exist at the same time
  MaxCommands  \* BtON_gateway commands received

ASSUME BleWindowAssumption ==
  /\ IsFiniteSet(StopTasks) /\ "main" \notin StopTasks
  /\ MaxCommands \in Nat

VARIABLES
  windowOpen,     \* ble_window_open
  stackStarted,   \* ble_stack_started
  stackStopping,  \* ble_stack_stopping
  active,         \* active_conn_handle is a connection
  timer,          \* ble_window_timer is running
  configMode,     \* ble_config_mode_active
  startupWindow,  \* ble_startup_window_active
  nimble,         \* the NimBLE port and its host task
  advertising,    \* the controller advertises
  link,           \* a phone is linked (CONFIG_BT_NIMBLE_MAX_CONNECTIONS = 1)
  event,          \* the GAP event the host task has not handled
  stops,          \* where each caller of bluetooth_config_stop is
  opener,         \* who is inside nimble_port_init
  advTask,        \* a "ble_adv" task exists
  cfgTask,        \* where ble_config_mode_task is
  bootTask,       \* ble_startup_window_task exists
  boot,           \* where app_main is
  configured,     \* all six configuration values are present
  wifiTask,       \* where wifi_task is
  wifiOn,         \* wifi_started
  received,       \* BtON_gateway messages received so far
  queued,         \* of them, not yet handled
  lost            \* ghost: a "ble_stop" task could not be created

flags == <<windowOpen, stackStarted, stackStopping, active, timer>>
modes == <<configMode, startupWindow>>
radio == <<nimble, advertising, link, event>>
tasks == <<stops, opener, advTask, cfgTask, bootTask>>
wifis == <<wifiTask, wifiOn, received, queued>>
boots == <<boot, configured>>
vars == <<flags, modes, radio, tasks, wifis, boots, lost>>

\* Besides these tasks app_main calls bluetooth_config_stop, and once it is done
\* the memory monitor, the last task it creates: one caller at a time, "main".
Stoppers == StopTasks \cup {"main"}

TypeOK ==
  /\ {windowOpen, stackStarted, stackStopping, active, timer, configMode,
      startupWindow, advertising, link, advTask, bootTask, configured,
      wifiOn, lost} \subseteq BOOLEAN
  /\ nimble \in {"down", "started", "synced", "halted", "stale"}
  /\ event \in {"none", "connect", "failed", "disconnect"}
  /\ stops \in [Stoppers -> {"none", "created", "drain", "halt", "deinit"}]
  /\ opener \in {"none", "main", "ws"}
  /\ cfgTask \in {"none", "created", "websocket"}
  /\ boot \in {"load", "opening", "waiting", "lora", "window", "spawn",
               "closing", "tasks", "done"}
  /\ wifiTask \in {"none", "loop", "allowed"}
  /\ received \in 0 .. MaxCommands
  /\ queued \in 0 .. received

Init ==
  /\ windowOpen = FALSE
  /\ stackStarted = FALSE
  /\ stackStopping = FALSE
  /\ active = FALSE
  /\ timer = FALSE
  /\ configMode = FALSE
  /\ startupWindow = FALSE
  /\ nimble = "down"
  /\ advertising = FALSE
  /\ link = FALSE
  /\ event = "none"
  /\ stops = [s \in Stoppers |-> "none"]
  /\ opener = "none"
  /\ advTask = FALSE
  /\ cfgTask = "none"
  /\ bootTask = FALSE
  /\ boot = "load"
  /\ configured \in BOOLEAN
  /\ wifiTask = "none"
  /\ wifiOn = FALSE
  /\ received = 0
  /\ queued = 0
  /\ lost = FALSE

Claimed == configMode \/ startupWindow
Stopping == \E s \in Stoppers : stops[s] \notin {"none", "created"}

(***************************************************************************)
(* bluetooth_config_start                                                  *)
(***************************************************************************)
\* ble_advertise: refused before the host is in sync, after it was stopped,
\* and while the only connection is in use; a repeated start changes nothing.
Advertise == advertising' = (advertising \/ (nimble = "synced" /\ ~link))

\* Mutant: the window of a stack that already runs is not timed again.
StartCallUntimed(who) ==
  /\ opener = "none"
  /\ windowOpen' = TRUE
  /\ \/ stackStarted /\ Advertise /\ UNCHANGED opener
     \/ ~stackStarted /\ opener' = who /\ UNCHANGED advertising
  /\ UNCHANGED <<stackStarted, stackStopping, active, timer, nimble, link, event>>

\* The call up to nimble_port_init, or all of it when the stack was started.
StartCall(who) ==
  /\ opener = "none"
  /\ windowOpen' = TRUE
  /\ \/ /\ stackStarted
        /\ Advertise
        /\ timer' = TRUE
        /\ UNCHANGED opener
     \/ /\ ~stackStarted
        /\ opener' = who
        /\ UNCHANGED <<advertising, timer>>
  /\ UNCHANGED <<stackStarted, stackStopping, active, nimble, link, event>>

\* ble_prepare_runtime found no memory for its queue, task or timer.
StartRefused == UNCHANGED <<flags, radio, opener>>

\* nimble_port_init and the rest of the call.  A port that is already, or
\* still, initialised refuses; one that lost its services is never usable.
StackStarts ==
  /\ nimble = "down"
  /\ nimble' = "started"
  /\ stackStarted' = TRUE
  /\ timer' = TRUE
  /\ UNCHANGED windowOpen

StackFails ==
  /\ nimble' \in {nimble} \cup (IF nimble = "down" THEN {"stale"} ELSE {})
  /\ windowOpen' = FALSE
  /\ UNCHANGED <<stackStarted, timer>>

StartReturns ==
  /\ opener # "none"
  /\ opener' = "none"
  /\ UNCHANGED <<stackStopping, active, modes, advertising, link, event,
                 stops, advTask, cfgTask, bootTask, wifis, configured, lost>>

(***************************************************************************)
(* The host task and the phone                                             *)
(***************************************************************************)
HostSync ==
  /\ nimble = "started"
  /\ nimble' = "synced"
  /\ advertising' = windowOpen
  /\ UNCHANGED <<flags, modes, link, event, tasks, wifis, boots, lost>>

\* Environment: a phone connects, or its connection fails.
PhoneConnects ==
  /\ advertising
  /\ event = "none"
  /\ advertising' = FALSE
  /\ \/ link' = TRUE /\ event' = "connect"
     \/ link' = FALSE /\ event' = "failed"
  /\ UNCHANGED <<flags, modes, nimble, tasks, wifis, boots, lost>>

\* Environment: it disconnects, is lost, or is disconnected by the gateway.
PhoneLeaves ==
  /\ link
  /\ event = "none"
  /\ link' = FALSE
  /\ event' = "disconnect"
  /\ UNCHANGED <<flags, modes, nimble, advertising, tasks, wifis, boots, lost>>

\* Environment: the phone writes what is missing (the commands GtwConfig and
\* GtwWifi, see GatewayConfig); app_main polls the values.
PhoneConfigures ==
  /\ link
  /\ active
  /\ configured' = TRUE
  /\ UNCHANGED <<flags, modes, radio, tasks, wifis, boot, lost>>

\* ble_stop_async, and what follows if the task cannot be created: nothing.
StopAsync ==
  \/ \E s \in StopTasks :
       /\ stops[s] = "none"
       /\ stops' = [stops EXCEPT ![s] = "created"]
       /\ UNCHANGED lost
  \/ lost' = TRUE /\ UNCHANGED stops

\* gap_event_cb, BLE_GAP_EVENT_CONNECT with status 0, with
\* bt_client_connected_callback; if ble_cfg_mode cannot be created the mode
\* is on all the same.
HostConnect ==
  /\ event = "connect"
  /\ event' = "none"
  /\ active' = TRUE
  /\ timer' = FALSE
  /\ configMode' = TRUE
  /\ startupWindow' = FALSE
  /\ cfgTask' \in IF cfgTask = "none" THEN {"none", "created"} ELSE {cfgTask}
  /\ UNCHANGED <<windowOpen, stackStarted, stackStopping, nimble, advertising,
                 link, stops, opener, advTask, bootTask, wifis, boots, lost>>

\* The same event with a status, and BLE_GAP_EVENT_ADV_COMPLETE:
\* ble_advertise_async, whose task may not be created either.
HostFailed ==
  /\ event = "failed"
  /\ event' = "none"
  /\ active' = FALSE
  /\ advTask' \in {advTask} \cup (IF windowOpen THEN {TRUE} ELSE {})
  /\ UNCHANGED <<windowOpen, stackStarted, stackStopping, timer, modes, nimble,
                 advertising, link, stops, opener, cfgTask, bootTask, wifis,
                 boots, lost>>

\* Mutant: the disconnection of the phone leaves the window to its timer.
HostDisconnectKeepsWindow ==
  /\ event = "disconnect"
  /\ event' = "none"
  /\ active' = FALSE
  /\ UNCHANGED <<windowOpen, stackStarted, stackStopping, timer, modes, nimble,
                 advertising, link, tasks, wifis, boots, lost>>

HostDisconnect ==
  /\ event = "disconnect"
  /\ event' = "none"
  /\ active' = FALSE
  /\ IF windowOpen THEN StopAsync ELSE UNCHANGED <<stops, lost>>
  /\ UNCHANGED <<windowOpen, stackStarted, stackStopping, timer, modes, nimble,
                 advertising, link, opener, advTask, cfgTask, bootTask, wifis,
                 boots>>

\* ble_advertise_task.
AdvertiseTask ==
  /\ advTask
  /\ advTask' = FALSE
  /\ IF windowOpen THEN Advertise ELSE UNCHANGED advertising
  /\ UNCHANGED <<flags, modes, nimble, link, event, stops, opener, cfgTask,
                 bootTask, wifis, boots, lost>>

\* ble_window_timeout_cb.
Timeout ==
  /\ timer
  /\ timer' = FALSE
  /\ IF active THEN UNCHANGED <<stops, lost>> ELSE StopAsync
  /\ UNCHANGED <<windowOpen, stackStarted, stackStopping, active, modes, radio,
                 opener, advTask, cfgTask, bootTask, wifis, boots>>

(***************************************************************************)
(* bluetooth_config_stop, in a "ble_stop" task, app_main or the monitor     *)
(***************************************************************************)
\* bt_client_disconnected_callback, the last thing the call does; what it does
\* to an update is in FirmwareUpdate.
StopReturns(s) ==
  /\ stops' = [stops EXCEPT ![s] = "none"]
  /\ configMode' = FALSE
  /\ startupWindow' = FALSE

\* vTaskImprimirUsoMemoria finds the heap nearly full and BLE active.
MonitorStops ==
  /\ boot = "done"
  /\ stops["main"] = "none"
  /\ windowOpen \/ stackStarted \/ stackStopping
  /\ stops' = [stops EXCEPT !["main"] = "created"]
  /\ UNCHANGED <<flags, modes, radio, opener, advTask, cfgTask, bootTask, wifis,
                 boots, lost>>

\* A window that is closed and has no stack leaves nothing to do.
StopNothing(s) ==
  /\ stops[s] = "created"
  /\ ~windowOpen /\ ~stackStarted
  /\ stops' = [stops EXCEPT ![s] = "none"]
  /\ UNCHANGED <<flags, modes, radio, opener, advTask, cfgTask, bootTask, wifis,
                 boots, lost>>

\* The window closes; a client is terminated and given 200 ms.
StopCloses(s) ==
  /\ stops[s] = "created"
  /\ windowOpen \/ stackStarted
  /\ windowOpen' = FALSE
  /\ timer' = FALSE
  /\ active' = FALSE
  /\ stops' = [stops EXCEPT ![s] = "drain"]
  /\ UNCHANGED <<stackStarted, stackStopping, modes, radio, opener, advTask,
                 cfgTask, bootTask, wifis, boots, lost>>

\* Mutant: ble_stack_stopping is not tested.
StopAdvertisingTwice(s) ==
  /\ stops[s] = "drain"
  /\ advertising' = FALSE
  /\ \/ /\ stackStarted
        /\ stackStopping' = TRUE
        /\ stops' = [stops EXCEPT ![s] = "halt"]
        /\ UNCHANGED modes
     \/ ~stackStarted /\ StopReturns(s) /\ UNCHANGED stackStopping
  /\ UNCHANGED <<windowOpen, stackStarted, active, timer, nimble, link, event,
                 opener, advTask, cfgTask, bootTask, wifis, boots, lost>>

\* The task that finds the stack started, and nobody stopping it, stops it.
StopAdvertising(s) ==
  /\ stops[s] = "drain"
  /\ advertising' = FALSE
  /\ \/ /\ stackStarted /\ ~stackStopping
        /\ stackStopping' = TRUE
        /\ stops' = [stops EXCEPT ![s] = "halt"]
        /\ UNCHANGED modes
     \/ /\ ~stackStarted \/ stackStopping
        /\ StopReturns(s)
        /\ UNCHANGED stackStopping
  /\ UNCHANGED <<windowOpen, stackStarted, active, timer, nimble, link, event,
                 opener, advTask, cfgTask, bootTask, wifis, boots, lost>>

\* nimble_port_stop: the host task drops the link, handles what is pending and
\* ends.  A port that was halted before reports an error, which is logged.
StopHalts(s) ==
  /\ stops[s] = "halt"
  /\ ~link
  /\ event = "none"
  /\ nimble' = "halted"
  /\ advertising' = FALSE
  /\ stops' = [stops EXCEPT ![s] = "deinit"]
  /\ UNCHANGED <<flags, modes, link, event, opener, advTask, cfgTask, bootTask,
                 wifis, boots, lost>>

\* nimble_port_deinit, which may fail ten times.
StopEnds(s) ==
  /\ stops[s] = "deinit"
  /\ \/ nimble' = "down" /\ stackStarted' = FALSE
     \/ UNCHANGED <<nimble, stackStarted>>
  /\ stackStopping' = FALSE
  /\ StopReturns(s)
  /\ UNCHANGED <<windowOpen, active, timer, advertising, link, event, opener,
                 advTask, cfgTask, bootTask, wifis, boots, lost>>

Stop(s) == \/ StopNothing(s) \/ StopCloses(s) \/ StopAdvertising(s)
           \/ StopHalts(s) \/ StopEnds(s)

(***************************************************************************)
(* app_main                                                                *)
(***************************************************************************)
BootUnchanged == UNCHANGED <<modes, stops, advTask, cfgTask, bootTask, wifis,
                             configured, lost>>

BootLoads ==
  /\ boot = "load"
  /\ configured
  /\ boot' = "lora"
  /\ UNCHANGED <<flags, radio, opener>>
  /\ BootUnchanged

\* Something is missing: bluetooth_config_start(0), once; its result is not
\* looked at.
BootOpens ==
  /\ boot = "load"
  /\ ~configured
  /\ \/ StartRefused /\ boot' = "waiting"
     \/ StartCall("main") /\ boot' = "opening"
  /\ BootUnchanged

BootOpened ==
  /\ boot = "opening"
  /\ StackStarts \/ StackFails
  /\ boot' = "waiting"
  /\ StartReturns

\* The poll every five seconds.
BootConfigured ==
  /\ boot = "waiting"
  /\ configured
  /\ boot' = "lora"
  /\ UNCHANGED <<flags, radio, opener>>
  /\ BootUnchanged

\* The window of 30 s that every boot opens before Wi-Fi.
BootWindow ==
  /\ boot = "lora"
  /\ \/ /\ StartRefused
        /\ boot' = "tasks"
        /\ UNCHANGED startupWindow
     \/ /\ StartCall("main")
        /\ startupWindow' = TRUE
        /\ boot' = IF opener' = "main" THEN "window" ELSE "spawn"
  /\ UNCHANGED <<configMode, stops, advTask, cfgTask, bootTask, wifis,
                 configured, lost>>

BootWindowOpened ==
  /\ boot = "window"
  /\ \/ StackStarts /\ boot' = "spawn" /\ UNCHANGED startupWindow
     \/ StackFails /\ boot' = "tasks" /\ startupWindow' = FALSE
  /\ opener' = "none"
  /\ UNCHANGED <<stackStopping, active, configMode, advertising, link, event,
                 stops, advTask, cfgTask, bootTask, wifis, configured, lost>>

\* ble_boot_wait is created, or app_main closes the window itself.
BootSpawns ==
  /\ boot = "spawn"
  /\ \/ /\ bootTask' = TRUE
        /\ boot' = "tasks"
        /\ UNCHANGED <<startupWindow, stops>>
     \/ /\ startupWindow' = FALSE
        /\ stops' = [stops EXCEPT !["main"] = "created"]
        /\ boot' = "closing"
        /\ UNCHANGED bootTask
  /\ UNCHANGED <<flags, configMode, radio, opener, advTask, cfgTask, wifis,
                 configured, lost>>

BootClosed ==
  /\ boot = "closing"
  /\ stops["main"] = "none"
  /\ boot' = "tasks"
  /\ UNCHANGED <<flags, radio, opener>>
  /\ BootUnchanged

BootTasks ==
  /\ boot = "tasks"
  /\ wifiTask' = "loop"
  /\ boot' = "done"
  /\ UNCHANGED <<flags, modes, radio, tasks, wifiOn, received, queued,
                 configured, lost>>

AppMain == \/ BootLoads \/ BootOpens \/ BootOpened \/ BootConfigured
           \/ BootWindow \/ BootWindowOpened \/ BootSpawns \/ BootClosed
           \/ BootTasks

(***************************************************************************)
(* The tasks of main.c between BLE and Wi-Fi                                *)
(***************************************************************************)
\* ble_startup_window_task, once a second.
BootTaskEnds ==
  /\ bootTask
  /\ \/ ~startupWindow
     \/ ~windowOpen /\ ~stackStarted /\ ~stackStopping
     \/ configMode
  /\ bootTask' = FALSE
  /\ startupWindow' = FALSE
  /\ UNCHANGED <<flags, configMode, radio, stops, opener, advTask, cfgTask, wifis,
                 boots, lost>>

\* ble_config_mode_task: it asks the WebSocket to stop (see WebSocketLogin)
\* and waits for it, for 35 s at most.
ConfigTaskBegins ==
  /\ cfgTask = "created"
  /\ cfgTask' = "websocket"
  /\ startupWindow' = FALSE
  /\ UNCHANGED <<flags, configMode, radio, stops, opener, advTask, bootTask, wifis,
                 boots, lost>>

ConfigTaskEnds ==
  /\ cfgTask = "websocket"
  /\ cfgTask' = "none"
  /\ UNCHANGED <<flags, modes, radio, stops, opener, advTask, bootTask, wifis,
                 boots, lost>>

\* wifi_task finds the gateway claimed and takes the driver down; for reasons
\* of its own (WifiMonitor) it may do so at any time.
WifiStops ==
  /\ wifiTask = "loop"
  /\ wifiOn
  /\ wifiOn' = FALSE
  /\ UNCHANGED <<flags, modes, radio, tasks, wifiTask, received, queued, boots,
                 lost>>

\* tentar_conectar_wifi: the test, then wifi_start_driver.
WifiAllowed ==
  /\ wifiTask = "loop"
  /\ ~Claimed
  /\ ~wifiOn
  /\ wifiTask' = "allowed"
  /\ UNCHANGED <<flags, modes, radio, tasks, wifiOn, received, queued, boots,
                 lost>>

WifiStarts ==
  /\ wifiTask = "allowed"
  /\ wifiTask' = "loop"
  /\ wifiOn' \in BOOLEAN
  /\ UNCHANGED <<flags, modes, radio, tasks, received, queued, boots, lost>>

\* A BtON_gateway message reaches ws_msg_queue; it waits there while its reader
\* is busy, and when Wi-Fi is taken down.
ReceiveBtOn ==
  /\ wifiOn
  /\ received < MaxCommands
  /\ received' = received + 1
  /\ queued' = queued + 1
  /\ UNCHANGED <<flags, modes, radio, tasks, wifiTask, wifiOn, boots, lost>>

\* handle_BTOn: bluetooth_config_start(BLE_STARTUP_WINDOW_MS).
HandleBtOn ==
  /\ queued > 0
  /\ opener = "none"
  /\ queued' = queued - 1
  /\ StartRefused \/ StartCall("ws")
  /\ UNCHANGED <<modes, stops, advTask, cfgTask, bootTask, wifiTask, wifiOn,
                 received, boots, lost>>

BtOnOpened ==
  /\ opener = "ws"
  /\ StackStarts \/ StackFails
  /\ StartReturns
  /\ UNCHANGED boot

Host == HostSync \/ HostConnect \/ HostFailed \/ HostDisconnect
Wifi == WifiAllowed \/ WifiStarts \/ WifiStops

Next ==
  \/ AppMain
  \/ Host
  \/ PhoneConnects \/ PhoneLeaves \/ PhoneConfigures
  \/ AdvertiseTask \/ Timeout
  \/ MonitorStops
  \/ \E s \in Stoppers : Stop(s)
  \/ BootTaskEnds \/ ConfigTaskBegins \/ ConfigTaskEnds
  \/ Wifi \/ ReceiveBtOn \/ HandleBtOn \/ BtOnOpened

Spec == Init /\ [][Next]_vars

\* The tasks run, the timer expires, and a phone does not stay for ever (a
\* lost one leaves when the supervision timeout of the link expires).
Fairness ==
  /\ WF_vars(AppMain)
  /\ WF_vars(Host)
  /\ WF_vars(PhoneLeaves)
  /\ WF_vars(Timeout)
  /\ \A s \in Stoppers : WF_vars(Stop(s))
  /\ WF_vars(BootTaskEnds)
  /\ WF_vars(BtOnOpened)

FairSpec == Spec /\ Fairness

(***************************************************************************)
(* Properties                                                              *)
(***************************************************************************)
\* main.c:384: BLE is open at boot and Wi-Fi starts after it.  Wi-Fi is off,
\* and wifi_task has not decided to start it, while the boot window is pending.
BootWindowFirst == startupWindow => ~wifiOn /\ wifiTask # "allowed"

\* A connected phone that no task is disconnecting has the gateway in
\* configuration mode: no late end of an earlier window takes it away.
ClientHasConfigMode == active /\ ~Stopping => configMode

\* The mode does not outlive the phone: when nobody is connected, a task that
\* will leave the mode exists, or could not be created.
ConfigModeHasOwner ==
  configMode => active \/ lost \/ \E s \in Stoppers : stops[s] # "none"

\* One task at a time is between nimble_port_stop and nimble_port_deinit.
OneStopsTheStack ==
  Cardinality({s \in Stoppers : stops[s] \in {"halt", "deinit"}}) =
    IF stackStopping THEN 1 ELSE 0

\* The window and the mode follow the phone and the stack, whatever starts, stops
\* and disconnections overlap.
ModeFollowsPhone ==
  /\ TypeOK
  /\ BootWindowFirst
  /\ ClientHasConfigMode
  /\ ConfigModeHasOwner
  /\ OneStopsTheStack

\* Phones and windows come to an end, and Wi-Fi gets the gateway back, unless a
\* "ble_stop" task could not be created (bluetooth.c:296 does not look).
ClaimEnds == Claimed ~> (~Claimed \/ lost)

\* Every window closes, also one opened while another was being closed.
WindowCloses == windowOpen ~> (~windowOpen \/ lost)

\* main.c:345 says that the gateway waits to be configured over Bluetooth.
\* After a window that closes while it waits there is another one.
WaitingIsReachable ==
  (boot = "waiting" /\ Stopping) ~> (windowOpen \/ boot # "waiting")

\* main.c:1381 and 399: the window that was reported open has a stack.
WindowHasStack ==
  windowOpen /\ opener = "none" /\ ~Stopping => stackStarted

=============================================================================
