--------------------------- MODULE WifiMonitor ---------------------------
(* wifi_task of main.c with the driver of wifi.c: it connects, looks at the *)
(* link every five seconds or when it is notified, takes the driver down    *)
(* for BLE, restarts it when the network does not come, and restarts the    *)
(* ESP32 when that does not help.  The BLE side is in BleWindow; here a     *)
(* claim comes and goes freely.  A step is the code between two waits.      *)
(* The secondary network is left out: nothing sets wifi_secundario.         *)
EXTENDS Naturals

CONSTANTS
  ConnectMaxFails,  \* WIFI_CONNECT_MAX_FAILS, polls without an access point
  IpMaxFails,       \* WIFI_IP_MAX_FAILS, polls without an address
  CycleMaxRetries   \* WIFI_CYCLE_MAX_RETRIES, fruitless cycles

ASSUME WifiMonitorAssumption ==
  /\ ConnectMaxFails \in Nat \ {0}
  /\ IpMaxFails \in Nat \ {0}
  /\ CycleMaxRetries \in Nat \ {0}

VARIABLES
  pc,            \* where wifi_task is
  after,         \* the call of tentar_conectar_wifi it will return to
  falhasWifi,    \* falhas_wifi
  falhasIp,      \* falhas_ip
  ciclos,        \* ciclos_religar
  offline,       \* inicio_falha_internet_ms # 0
  otaChecked,    \* ota_checked_for_connection
  loginTask,     \* Task_login_task # NULL
  connectado,    \* Connectado
  sample,        \* what websocket_is_connected answered
  wifiOn,        \* wifi_started
  joining,       \* esp_wifi_connect was called and has no outcome yet
  assoc,         \* associated to the access point
  ip,            \* the station has an address of the selected family
  claimed,       \* ble_config_mode_active or ble_startup_window_active
  network,       \* what the access point and the Internet offer
  memory,        \* the heap has room for the driver and for tasks
  socket,        \* the WebSocket client is connected
  tries          \* ghost: calls of tentar_conectar_wifi since an IP was seen

counters == <<falhasWifi, falhasIp, ciclos>>
monitor == <<offline, otaChecked, loginTask, sample>>
station == <<wifiOn, joining, assoc, ip>>
outside == <<claimed, network, memory, socket>>
vars == <<pc, after, counters, monitor, connectado, station, outside, tries>>

Calls == {"boot", "inactive", "retry", "ip", "ap", "internet"}

\* An access point may be out of reach, associate and give no address, do so
\* and break the association at any time, give an address later than the wait
\* of wifi_connect_credentials lasts, lead nowhere, or work.
Networks == {"absent", "noip", "flaky", "slow", "local", "good"}
Prompt == {"local", "good"}

TypeOK ==
  /\ pc \in {"loop", "try", "start", "join", "back", "delay", "probe", "write",
             "restart"}
  /\ after \in Calls
  /\ falhasWifi \in 0 .. ConnectMaxFails
  /\ falhasIp \in 0 .. IpMaxFails
  /\ ciclos \in 0 .. CycleMaxRetries
  /\ {offline, otaChecked, loginTask, sample, connectado, wifiOn, joining, assoc, ip,
      claimed, memory, socket} \subseteq BOOLEAN
  /\ network \in Networks
  /\ tries \in 0 .. CycleMaxRetries

\* A gateway that starts; wifi_task calls tentar_conectar_wifi before its loop.
Init ==
  /\ pc = "try"
  /\ after = "boot"
  /\ falhasWifi = 0 /\ falhasIp = 0 /\ ciclos = 0
  /\ offline = FALSE
  /\ otaChecked = FALSE
  /\ loginTask = FALSE
  /\ sample = FALSE
  /\ connectado = FALSE
  /\ wifiOn = FALSE /\ joining = FALSE /\ assoc = FALSE /\ ip = FALSE
  /\ socket = FALSE
  /\ tries = 0
  /\ claimed \in BOOLEAN
  /\ network \in Networks
  /\ memory \in BOOLEAN

(***************************************************************************)
(* tentar_conectar_wifi                                                    *)
(***************************************************************************)
\* The call, counted for the properties.
Try(call) ==
  /\ pc' = "try"
  /\ after' = call
  /\ tries' = IF tries < CycleMaxRetries THEN tries + 1 ELSE tries

\* The gateway is claimed: the call returns, and counts among the tries.
TryRefused ==
  /\ pc = "try"
  /\ claimed
  /\ pc' = "back"
  /\ UNCHANGED <<after, counters, monitor, connectado, station, outside, tries>>

\* Mutant: the driver is started whoever claims the gateway.
TryAllowedAlways ==
  /\ pc = "try"
  /\ pc' = IF wifiOn THEN "join" ELSE "start"
  /\ joining' = (joining \/ (wifiOn /\ ~assoc))
  /\ UNCHANGED <<after, counters, monitor, connectado, wifiOn, assoc, ip, outside,
                 tries>>

\* The test; when the driver runs, esp_wifi_connect follows at once, which does
\* nothing while an attempt is under way or the station is associated.
TryAllowed ==
  /\ pc = "try"
  /\ ~claimed
  /\ pc' = IF wifiOn THEN "join" ELSE "start"
  /\ joining' = (joining \/ (wifiOn /\ ~assoc))
  /\ UNCHANGED <<after, counters, monitor, connectado, wifiOn, assoc, ip, outside,
                 tries>>

\* wifi_start_driver: it succeeds, and wifi_connect_credentials begins, or it
\* takes down again what it had started.  It cannot fail while there is memory.
DriverStarts ==
  /\ pc = "start"
  /\ \/ /\ wifiOn' = TRUE
        /\ joining' = TRUE
        /\ pc' = "join"
     \/ /\ ~memory
        /\ pc' = "back"
        /\ UNCHANGED <<wifiOn, joining>>
  /\ UNCHANGED <<after, counters, monitor, connectado, assoc, ip, outside, tries>>

\* The wait for an address, for a failure, or for WIFI_CONNECT_TIMEOUT_MS, in
\* which a prompt network answers; nobody looks at the result.
JoinReturns ==
  /\ pc = "join"
  /\ network \in Prompt => ~joining /\ (assoc => ip)
  /\ pc' = "back"
  /\ UNCHANGED <<after, counters, monitor, connectado, station, outside, tries>>

\* What the caller does next.
EndOfCycle == pc' = IF ciclos' >= CycleMaxRetries THEN "restart" ELSE "loop"

Resume ==
  /\ pc = "back"
  /\ \/ /\ after \in {"boot", "retry", "internet"}
        /\ pc' = "loop"
        /\ UNCHANGED counters
     \/ /\ after = "inactive"
        /\ wifiOn
        /\ falhasWifi' = 0
        /\ pc' = "loop"
        /\ UNCHANGED <<falhasIp, ciclos>>
     \/ /\ after = "inactive"
        /\ ~wifiOn
        /\ ciclos' = ciclos + 1
        /\ EndOfCycle
        /\ UNCHANGED <<falhasWifi, falhasIp>>
     \/ /\ after = "ip"
        /\ falhasIp' = 0
        /\ ciclos' = ciclos + 1
        /\ EndOfCycle
        /\ UNCHANGED falhasWifi
     \/ /\ after = "ap"
        /\ falhasWifi' = 0
        /\ ciclos' = ciclos + 1
        /\ EndOfCycle
        /\ UNCHANGED falhasIp
  /\ UNCHANGED <<after, monitor, connectado, station, outside, tries>>

(***************************************************************************)
(* One turn of wifi_task                                                   *)
(***************************************************************************)
\* wifi_stop_driver; the link goes with it.
DriverDown ==
  /\ wifiOn' = FALSE
  /\ joining' = FALSE
  /\ assoc' = FALSE
  /\ ip' = FALSE

\* ... and is started again after WIFI_DRIVER_RESTART_DELAY_MS.
Recycle(call) ==
  /\ DriverDown
  /\ pc' = "delay"
  /\ after' = call

Restarted ==
  /\ pc = "delay"
  /\ Try(after)
  /\ UNCHANGED <<counters, monitor, connectado, station, outside>>

Yield ==
  /\ pc = "loop"
  /\ claimed
  /\ DriverDown
  /\ connectado' = FALSE
  /\ otaChecked' = FALSE
  /\ UNCHANGED <<pc, after, counters, offline, loginTask, sample, outside, tries>>

\* Mutant: an inactive driver is left to somebody else.
FindInactiveWaits ==
  /\ pc = "loop"
  /\ ~claimed
  /\ ~wifiOn
  /\ otaChecked' = FALSE
  /\ UNCHANGED <<pc, after, counters, offline, loginTask, sample, connectado, station,
                 outside, tries>>

FindInactive ==
  /\ pc = "loop"
  /\ ~claimed
  /\ ~wifiOn
  /\ otaChecked' = FALSE
  /\ Try("inactive")
  /\ UNCHANGED <<counters, offline, loginTask, sample, connectado, station, outside>>

\* Mutant: an association ends the series of fruitless cycles.
FindNoIpForgives ==
  /\ pc = "loop"
  /\ ~claimed
  /\ assoc
  /\ ~ip
  /\ falhasWifi' = 0
  /\ ciclos' = 0
  /\ falhasIp' = falhasIp + 1
  /\ connectado' = FALSE
  /\ otaChecked' = FALSE
  /\ offline' = FALSE
  /\ IF falhasIp' >= IpMaxFails
     THEN Recycle("ip")
     ELSE UNCHANGED <<pc, after, station>>
  /\ UNCHANGED <<loginTask, sample, outside, tries>>

FindNoIp ==
  /\ pc = "loop"
  /\ ~claimed
  /\ assoc
  /\ ~ip
  /\ falhasWifi' = 0
  /\ falhasIp' = falhasIp + 1
  /\ connectado' = FALSE
  /\ otaChecked' = FALSE
  /\ offline' = FALSE
  /\ IF falhasIp' >= IpMaxFails
     THEN Recycle("ip")
     ELSE UNCHANGED <<pc, after, station>>
  /\ UNCHANGED <<ciclos, loginTask, sample, outside, tries>>

FindNoAp ==
  /\ pc = "loop"
  /\ ~claimed
  /\ wifiOn
  /\ ~assoc
  /\ falhasIp' = 0
  /\ falhasWifi' = falhasWifi + 1
  /\ connectado' = FALSE
  /\ otaChecked' = FALSE
  /\ offline' = FALSE
  /\ IF falhasWifi' < ConnectMaxFails
     THEN Try("retry") /\ UNCHANGED station
     ELSE Recycle("ap") /\ UNCHANGED tries
  /\ UNCHANGED <<ciclos, loginTask, sample, outside>>

\* Mutant: the cycles are not forgotten when an address comes.
FindIpKeepsCycles ==
  /\ pc = "loop"
  /\ ~claimed
  /\ assoc
  /\ ip
  /\ falhasWifi' = 0
  /\ falhasIp' = 0
  /\ tries' = 0
  /\ \/ loginTask' = TRUE
     \/ ~memory /\ UNCHANGED loginTask
  /\ pc' = "write"
  /\ sample' = socket
  /\ UNCHANGED <<after, ciclos, offline, otaChecked, connectado, station, outside>>

\* With an address: the counters start again, login_task is created, and the
\* WebSocket is sampled; without it the Internet is probed.
FindIp ==
  /\ pc = "loop"
  /\ ~claimed
  /\ assoc
  /\ ip
  /\ falhasWifi' = 0
  /\ falhasIp' = 0
  /\ ciclos' = 0
  /\ tries' = 0
  /\ \/ loginTask' = TRUE
     \/ ~memory /\ UNCHANGED loginTask
  /\ pc' = "write"
  /\ sample' = socket
  /\ UNCHANGED <<after, offline, otaChecked, connectado, station, outside>>

\* The flag gets the sample, which websocket_event_handler may have overtaken.
WriteSample ==
  /\ pc = "write"
  /\ connectado' = sample
  /\ pc' = "probe"
  /\ UNCHANGED <<after, counters, monitor, station, outside, tries>>

\* firmware_ota_check_for_update_async may refuse while a check is under way.
Online ==
  /\ pc = "probe"
  /\ sample \/ (network = "good" /\ ip)
  /\ offline' = FALSE
  /\ otaChecked' \in {TRUE, otaChecked}
  /\ pc' = "loop"
  /\ UNCHANGED <<after, counters, loginTask, sample, connectado, station, outside,
                 tries>>

\* wifi_check_internet failed.  Five minutes after the first failure the driver
\* is restarted.
Offline ==
  /\ pc = "probe"
  /\ ~sample
  /\ ~(network = "good" /\ ip)
  /\ connectado' = FALSE
  /\ otaChecked' = FALSE
  /\ \/ /\ offline' = TRUE
        /\ pc' = "loop"
        /\ UNCHANGED <<after, station>>
     \/ /\ offline
        /\ offline' = FALSE
        /\ Recycle("internet")
  /\ UNCHANGED <<counters, loginTask, sample, outside, tries>>

\* esp_restart: RAM and driver start over; the boot window of BLE opens or fails.
EspRestart ==
  /\ pc = "restart"
  /\ pc' = "try"
  /\ after' = "boot"
  /\ falhasWifi' = 0 /\ falhasIp' = 0 /\ ciclos' = 0
  /\ offline' = FALSE
  /\ otaChecked' = FALSE
  /\ loginTask' = FALSE
  /\ sample' = FALSE
  /\ connectado' = FALSE
  /\ DriverDown
  /\ socket' = FALSE
  /\ tries' = 0
  /\ claimed' \in BOOLEAN
  /\ UNCHANGED <<network, memory>>

WifiTask ==
  \/ TryRefused \/ TryAllowed \/ DriverStarts \/ JoinReturns \/ Resume
  \/ Restarted \/ Yield \/ FindInactive \/ FindNoIp \/ FindNoAp \/ FindIp
  \/ WriteSample \/ Online \/ Offline \/ EspRestart

(***************************************************************************)
(* The driver's events, the WebSocket, and the world                       *)
(***************************************************************************)
RestUnchanged ==
  UNCHANGED <<pc, after, counters, monitor, claimed, network, memory, tries>>

\* The attempt ends: WIFI_EVENT_STA_CONNECTED, or WIFI_EVENT_STA_DISCONNECTED.
Associate ==
  /\ joining
  /\ joining' = FALSE
  /\ assoc' = (network # "absent")
  /\ ip' = FALSE
  /\ UNCHANGED <<wifiOn, connectado, socket>>
  /\ RestUnchanged

\* IP_EVENT_STA_GOT_IP or IP_EVENT_GOT_IP6.
GetIp ==
  /\ assoc
  /\ ~ip
  /\ network \in Prompt \cup {"slow"}
  /\ ip' = TRUE
  /\ UNCHANGED <<wifiOn, joining, assoc, connectado, socket>>
  /\ RestUnchanged

\* The address is withdrawn, or the association breaks.
LoseIp ==
  /\ ip
  /\ network \in {"noip", "flaky", "absent"}
  /\ ip' = FALSE
  /\ UNCHANGED <<wifiOn, joining, assoc, connectado, socket>>
  /\ RestUnchanged

LoseAp ==
  /\ assoc
  /\ network \in {"flaky", "absent"}
  /\ assoc' = FALSE
  /\ ip' = FALSE
  /\ UNCHANGED <<wifiOn, joining, connectado, socket>>
  /\ RestUnchanged

\* websocket_event_handler sets and clears Connectado.
SocketConnects ==
  /\ ~socket
  /\ ip
  /\ loginTask
  /\ network = "good"
  /\ socket' = TRUE
  /\ connectado' = TRUE
  /\ UNCHANGED station
  /\ RestUnchanged

SocketBreaks ==
  /\ socket
  /\ socket' = FALSE
  /\ connectado' = FALSE
  /\ UNCHANGED station
  /\ RestUnchanged

\* A phone comes or leaves; the network and the heap change.
World ==
  /\ pc # "restart"
  /\ claimed' \in BOOLEAN
  /\ network' \in Networks
  /\ memory' \in BOOLEAN
  /\ UNCHANGED <<pc, after, counters, monitor, connectado, station, socket, tries>>

Next ==
  \/ WifiTask
  \/ Associate \/ GetIp \/ LoseIp \/ LoseAp
  \/ SocketConnects \/ SocketBreaks
  \/ World

Spec == Init /\ [][Next]_vars

\* wifi_task runs and its waits end, whatever the network does meanwhile; an
\* attempt to join has an outcome, and a network that works gives an address.
Fairness ==
  /\ WF_vars(WifiTask)
  /\ SF_vars(JoinReturns)
  /\ WF_vars(Associate)
  /\ WF_vars(GetIp)

FairSpec == Spec /\ Fairness

(***************************************************************************)
(* Properties                                                              *)
(***************************************************************************)
\* Four paths count a cycle and each has its own test: none goes on with the
\* limit reached.
EveryCycleChecked == ciclos = CycleMaxRetries => pc = "restart"

\* The ESP32 is not restarted before wifi_task called tentar_conectar_wifi that many
\* times since an address was last seen.  A call made while BLE claims the gateway
\* counts, though it returns without an attempt (main.c:439).
RestartAfterTries == pc = "restart" => tries = CycleMaxRetries

\* The restart is counted: it comes at the limit, on every path, and not before.
RestartsCounted == TypeOK /\ EveryCycleChecked /\ RestartAfterTries

\* main.c:526 says that there is no IP after that many cycles.
RestartWithoutIp == pc = "restart" => ~ip

\* A network that works is used, and the login can start, whatever state the
\* failures before it left the counters and the driver in.
OnlineAgain ==
  <>[](network = "good" /\ memory /\ ~claimed) => <>[](ip /\ loginTask)

\* A network that never comes makes the gateway restart, again and again: the
\* two counters that are reset by each other's success do not stop that.
FruitlessRestarts ==
  /\ <>[](network = "absent" /\ ~ip /\ ~claimed) => []<>(pc = "restart")
  /\ <>[](network = "noip" /\ ~ip /\ ~claimed) => []<>(pc = "restart")

\* An unstable association: the driver is never restarted, nor the ESP32.
FlakyRestarts ==
  <>[](network = "flaky" /\ ~ip /\ ~claimed) => []<>(pc = "restart")

Mode == INSTANCE RadioMode WITH
  claimed <- claimed, allowed <- (pc = "start"), wifi <- wifiOn

\* wifi_task keeps its part of the rule, and a claim takes the driver down from
\* whatever call it is in.  A restart of the ESP32 is a beginning.
ModeKept ==
  /\ Mode!Init
  /\ [][Mode!Next \/ EspRestart]_(Mode!mvars)
  /\ Mode!Yields

=============================================================================
