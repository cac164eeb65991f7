-------------------------- MODULE WebSocketLogin --------------------------
(* Login, the WebSocket task and the monitor that recreates it (src/main/   *)
(* main.c, http_request.c).  Four tasks and the client's event task share   *)
(* the token, three flags and, under ws_lifecycle_mutex, the client.  The   *)
(* server, the network and the client library are external.                *)
EXTENDS Integers, FiniteSets

CONSTANTS
  Tokens,           \* tokens the server issues
  NoToken,          \* token_global[0] == '\0'
  Torn,             \* token_global while login_task copies a new one into it
  BootCycles,       \* the monitor recreates the task unasked after as many cycles
  MaxDisturbances,  \* bound: refreshes, revocations, BLE, torn reads
  MaxGets           \* bound: GETs

ASSUME TokenAssumption ==
  /\ NoToken \notin Tokens
  /\ Torn \notin Tokens
  /\ NoToken # Torn
  /\ IsFiniteSet(Tokens)
  /\ Cardinality(Tokens) >= 3
ASSUME BoundAssumption == 
  /\ BootCycles \in Nat
  /\ MaxDisturbances \in Nat
  /\ MaxGets \in Nat

Starters == {"login", "monitor"}

VARIABLES
  wifi,          \* wifi_sta_connected() && wifi_sta_has_ip()
  revoked,       \* tokens in use that the server refuses
  disturbances,  \* those left
  token,         \* token_global
  tokenOk,       \* TokenOk
  stop,          \* stop_websocket_task
  restart,       \* websocket_restart_requested
  asked,         \* the task that runs, or ran last, asked to be recreated (ghost)
  mutex,         \* holder of ws_lifecycle_mutex
  pc,            \* control points of login_task and of the memory monitor
  notified,      \* pending notification of login_task
  timer,         \* the token timer runs
  boot,          \* boot_cycles
  wsPc,          \* control point of connect_to_websocket, or "none"
  wsToken,       \* the token in its URL
  client,        \* ws_client
  handler,       \* control point of websocket_event_handler after a 401
  httpPc,        \* control point of server_get_json in ws_msg_processor
  httpToken,     \* the token in its header
  gets,          \* GETs left
  config         \* ble_config_mode_task found a task to stop

serverVars == <<wifi, revoked, disturbances>>
flagVars   == <<stop, restart, asked>>
loginVars  == <<pc, notified, timer, boot>>
wsVars     == <<wsPc, wsToken>>
httpVars   == <<httpPc, httpToken, gets>>
vars == <<serverVars, token, tokenOk, flagVars, mutex, loginVars, wsVars,
          client, handler, httpVars, config>>

Init ==
  /\ wifi \in BOOLEAN
  /\ revoked = {}
  /\ disturbances = MaxDisturbances
  /\ gets = MaxGets
  /\ token = NoToken
  /\ tokenOk = FALSE
  /\ stop = FALSE
  /\ restart = FALSE
  /\ asked = FALSE
  /\ mutex = "free"
  /\ pc = [login |-> "check", monitor |-> "sleep"]
  /\ notified = FALSE
  /\ timer = FALSE
  /\ boot = 0
  /\ wsPc = "none"
  /\ wsToken = NoToken
  /\ client = "none"
  /\ handler = "idle"
  /\ httpPc = "idle"
  /\ httpToken = NoToken
  /\ config = FALSE

-----------------------------------------------------------------------------
Goto(t, to) == pc' = [pc EXCEPT ![t] = to]
InUse == {token, wsToken, httpToken}
Accepted(t) == t \in Tokens \ revoked

\* A token is on record and the network is up.
MayConnect == tokenOk /\ token # NoToken /\ wifi

\* websocket_task_is_running; it also answers true when the mutex is busy for 1 s.
SeemsRunning == wsPc # "none" \/ mutex # "free"

-----------------------------------------------------------------------------
(* websocket_task_start_if_needed, in login_task or in the monitor.         *)

After(t) == IF t = "login" THEN "schedule" ELSE "sleep"
StarterUnchanged ==
  UNCHANGED <<serverVars, token, tokenOk, notified, timer, boot, wsToken,
              client, handler, httpVars, config>>

StartCheck(t) ==
  /\ pc[t] = "start"
  /\ Goto(t, IF MayConnect THEN "take" ELSE After(t))
  /\ UNCHANGED <<flagVars, mutex, wsPc>>
  /\ StarterUnchanged

\* The mutex is not had within 2 s, or a task exists.
StartGivesUp(t) ==
  /\ pc[t] = "take"
  /\ SeemsRunning
  /\ Goto(t, After(t))
  /\ UNCHANGED <<flagVars, mutex, wsPc>>
  /\ StarterUnchanged

\* Mutant: the task is created, and the request withdrawn, without the mutex.
CreateTaskUnlocked(t) ==
  /\ pc[t] = "take"
  /\ ~SeemsRunning
  /\ stop' = FALSE
  /\ wsPc' = "begin"
  /\ asked' = FALSE
  /\ Goto(t, "created")
  /\ UNCHANGED <<restart, mutex>>
  /\ StarterUnchanged

CreateTask(t) ==
  /\ pc[t] = "take"
  /\ ~SeemsRunning
  /\ stop' = FALSE
  /\ mutex' = t
  /\ wsPc' = "begin"
  /\ asked' = FALSE
  /\ Goto(t, "created")
  /\ UNCHANGED restart
  /\ StarterUnchanged

\* xTaskCreate fails.
CreateFails(t) ==
  /\ pc[t] = "take"
  /\ ~SeemsRunning
  /\ stop' = FALSE
  /\ Goto(t, After(t))
  /\ UNCHANGED <<restart, asked, mutex, wsPc>>
  /\ StarterUnchanged

Created(t) ==
  /\ pc[t] = "created"
  /\ restart' = FALSE
  /\ mutex' = "free"
  /\ Goto(t, After(t))
  /\ UNCHANGED <<stop, asked, wsPc>>
  /\ StarterUnchanged

Start(t) == StartCheck(t) \/ StartGivesUp(t) \/ CreateTask(t) \/ CreateFails(t)
            \/ Created(t)

-----------------------------------------------------------------------------
(* login_task                                                               *)

LoginUnchanged ==
  UNCHANGED <<serverVars, restart, asked, mutex, boot, wsVars, client, handler,
              httpVars, config>>

LoginCheck ==
  /\ pc["login"] = "check"
  /\ wifi
  /\ Goto("login", "request")
  /\ UNCHANGED <<token, tokenOk, stop, notified, timer>>
  /\ LoginUnchanged

\* fazer_login fails, or MutexHTTP is busy: again in 30 s.
LoginFails ==
  /\ pc["login"] = "request"
  /\ Goto("login", "check")
  /\ UNCHANGED <<token, tokenOk, stop, notified, timer>>
  /\ LoginUnchanged

\* The server issues a token and memcpy begins. MutexHTTP is held to the end of
\* the copy, so no GET is under way.
LoginSucceeds ==
  /\ pc["login"] = "request"
  /\ wifi
  /\ httpPc = "idle"
  /\ token' = Torn
  /\ Goto("login", "store")
  /\ UNCHANGED <<tokenOk, stop, notified, timer>>
  /\ LoginUnchanged

Fresh == CHOOSE t \in Tokens : t \notin InUse

\* memcpy ends; a clear in the middle of it may be overwritten or may stay.
LoginStores ==
  /\ pc["login"] = "store"
  /\ token' \in {Fresh} \cup ({token} \ {Torn})
  /\ revoked' = revoked \cap {wsToken, httpToken}
  /\ Goto("login", "confirm")
  /\ UNCHANGED <<wifi, disturbances, tokenOk, flagVars, mutex, notified, timer,
                 boot, wsVars, client, handler, httpVars, config>>

LoginConfirms ==
  /\ pc["login"] = "confirm"
  /\ tokenOk' = TRUE
  /\ Goto("login", "ask")
  /\ UNCHANGED <<token, stop, notified, timer>>
  /\ LoginUnchanged

\* A task that runs is told to stop, so that the next one uses the new token.
LoginAsks ==
  /\ pc["login"] = "ask"
  /\ Goto("login", IF SeemsRunning THEN "tell" ELSE "start")
  /\ UNCHANGED <<token, tokenOk, stop, notified, timer>>
  /\ LoginUnchanged

\* By now another one may run.
LoginTells ==
  /\ pc["login"] = "tell"
  /\ stop' = TRUE
  /\ Goto("login", "drain")
  /\ UNCHANGED <<token, tokenOk, notified, timer>>
  /\ LoginUnchanged

\* The task ended, or did not end within 40 s.
LoginDrained ==
  /\ pc["login"] = "drain"
  /\ \/ ~SeemsRunning /\ Goto("login", "start")
     \/ SeemsRunning /\ Goto("login", "schedule")
  /\ UNCHANGED <<token, tokenOk, stop, notified, timer>>
  /\ LoginUnchanged

\* start_token_timer, or its failure and a wait of 30 s.
LoginSchedules ==
  /\ pc["login"] = "schedule"
  /\ \/ timer' = TRUE /\ Goto("login", "wait") /\ UNCHANGED notified
     \/ timer' = FALSE /\ notified /\ notified' = FALSE /\ Goto("login", "check")
  /\ UNCHANGED <<token, tokenOk, stop>>
  /\ LoginUnchanged

LoginWakes ==
  /\ pc["login"] = "wait"
  /\ notified
  /\ notified' = FALSE
  /\ Goto("login", "check")
  /\ UNCHANGED <<token, tokenOk, stop, timer>>
  /\ LoginUnchanged

Login ==
  \/ LoginCheck \/ LoginFails \/ LoginSucceeds \/ LoginStores \/ LoginConfirms
  \/ LoginAsks \/ LoginTells \/ LoginDrained \/ LoginSchedules \/ LoginWakes
  \/ Start("login")

\* token_timer_cb, 20 h after it was armed.
TimerFires ==
  /\ timer
  /\ disturbances > 0
  /\ disturbances' = disturbances - 1
  /\ timer' = FALSE
  /\ notified' = TRUE
  /\ UNCHANGED <<wifi, revoked, token, tokenOk, flagVars, mutex, pc, boot, wsVars,
                 client, handler, httpVars, config>>

\* vTaskImprimirUsoMemoria, every 15 s.
MonitorCycle ==
  /\ pc["monitor"] = "sleep"
  /\ boot' = IF boot <= BootCycles THEN boot + 1 ELSE boot
  /\ IF MayConnect /\ (boot > BootCycles \/ restart) /\ ~SeemsRunning
     THEN Goto("monitor", "start") ELSE UNCHANGED pc
  /\ UNCHANGED <<serverVars, token, tokenOk, flagVars, mutex, notified, timer,
                 wsVars, client, handler, httpVars, config>>

Monitor == MonitorCycle \/ Start("monitor")

-----------------------------------------------------------------------------
(* connect_to_websocket                                                     *)

WsUnchanged ==
  UNCHANGED <<wifi, revoked, token, tokenOk, loginVars, handler, httpVars, config>>

\* The task asks the monitor for another one and ends.
GiveUp == restart' = TRUE /\ asked' = TRUE /\ stop' = TRUE

\* websocket_wait_before_setup_retry: a stop ends the task, 60 s of failures too.
\* Those are longer than the two instructions of Created.
SetupRetry ==
  \/ /\ stop
     /\ wsPc' = "exit"
     /\ UNCHANGED flagVars
  \/ /\ ~stop
     /\ mutex \notin Starters
     /\ GiveUp
     /\ wsPc' = "exit"
  \/ /\ ~stop
     /\ wsPc' = "begin"
     /\ UNCHANGED flagVars

WsBegin ==
  /\ wsPc = "begin"
  /\ IF stop THEN wsPc' = "exit" ELSE MayConnect /\ wsPc' = "read"
  /\ UNCHANGED <<disturbances, flagVars, mutex, wsToken, client>>
  /\ WsUnchanged

\* token_global is read without a lock, perhaps while it is copied.
WsRead ==
  /\ wsPc = "read"
  /\ IF token = Torn
     THEN disturbances > 0 /\ disturbances' = disturbances - 1
     ELSE UNCHANGED disturbances
  /\ wsToken' = token
  /\ wsPc' = "setup"
  /\ UNCHANGED <<flagVars, mutex, client>>
  /\ WsUnchanged

\* URL, transport and client; then ws_client is set, under the mutex.
WsSetup ==
  /\ wsPc = "setup"
  /\ \/ /\ mutex = "free"
        /\ client' = "idle"
        /\ wsPc' = "open"
        /\ UNCHANGED <<flagVars, wsToken>>
     \/ /\ SetupRetry
        /\ wsToken' = NoToken
        /\ UNCHANGED client
  /\ UNCHANGED <<disturbances, mutex>>
  /\ WsUnchanged

\* esp_websocket_client_start
WsOpen ==
  /\ wsPc = "open"
  /\ \/ wsPc' = "run" /\ client' = "connecting" /\ UNCHANGED <<flagVars, wsToken>>
     \/ /\ mutex = "free"
        /\ SetupRetry
        /\ client' = "none"
        /\ wsToken' = NoToken
  /\ UNCHANGED <<disturbances, mutex>>
  /\ WsUnchanged

\* Mutant: the loop only looks at the connection.
WsLeaveUnconnected ==
  /\ wsPc = "run"
  /\ client # "connected"
  /\ GiveUp
  /\ wsPc' = "closing"
  /\ UNCHANGED <<disturbances, mutex, wsToken, client>>
  /\ WsUnchanged

\* Told to stop, or not connected for 60 s.
WsLeave ==
  /\ wsPc = "run"
  /\ \/ stop /\ UNCHANGED flagVars
     \/ ~stop /\ client # "connected" /\ GiveUp
  /\ wsPc' = "closing"
  /\ UNCHANGED <<disturbances, mutex, wsToken, client>>
  /\ WsUnchanged

\* Mutant: the client is closed without the mutex.
WsLockNothing ==
  /\ wsPc = "closing"
  /\ handler = "idle"
  /\ client' = "none"
  /\ wsToken' = NoToken
  /\ wsPc' = IF stop THEN "exit" ELSE "begin"
  /\ UNCHANGED <<disturbances, flagVars, mutex>>
  /\ WsUnchanged

WsLock ==
  /\ wsPc = "closing"
  /\ mutex = "free"
  /\ mutex' = "ws"
  /\ wsPc' = "destroy"
  /\ UNCHANGED <<disturbances, flagVars, wsToken, client>>
  /\ WsUnchanged

\* esp_websocket_client_stop waits for the client's event task.
WsDestroy ==
  /\ wsPc = "destroy"
  /\ handler = "idle"
  /\ client' = "none"
  /\ wsToken' = NoToken
  /\ mutex' = "free"
  /\ wsPc' = IF stop THEN "exit" ELSE "begin"
  /\ UNCHANGED <<disturbances, flagVars>>
  /\ WsUnchanged

WsExit ==
  /\ wsPc = "exit"
  /\ mutex = "free"
  /\ wsPc' = "none"
  /\ UNCHANGED <<disturbances, flagVars, mutex, wsToken, client>>
  /\ WsUnchanged

WsTask ==
  \/ WsBegin \/ WsRead \/ WsSetup \/ WsOpen \/ WsLeave \/ WsLock
  \/ WsDestroy \/ WsExit

-----------------------------------------------------------------------------
(* The client's event task, until esp_websocket_client_stop asks it to end. *)

ClientUnchanged ==
  UNCHANGED <<serverVars, mutex, pc, timer, boot, wsVars, httpVars, config>>

Connect ==
  /\ client = "connecting"
  /\ wsPc # "destroy"
  /\ handler = "idle"
  /\ wifi
  /\ Accepted(wsToken)
  /\ client' = "connected"
  /\ UNCHANGED <<token, tokenOk, flagVars, notified, handler>>
  /\ ClientUnchanged

Disconnect ==
  /\ client = "connected"
  /\ client' = "connecting"
  /\ UNCHANGED <<token, tokenOk, flagVars, notified, handler>>
  /\ ClientUnchanged

\* The handshake is refused: websocket_event_handler clears what is on record.
HandlerClears ==
  /\ client = "connecting"
  /\ wsPc # "destroy"
  /\ handler = "idle"
  /\ wifi
  /\ ~Accepted(wsToken)
  /\ token' = NoToken
  /\ handler' = "clear"
  /\ UNCHANGED <<tokenOk, flagVars, notified, client>>
  /\ ClientUnchanged

HandlerRefuses ==
  /\ handler = "clear"
  /\ tokenOk' = FALSE
  /\ handler' = "refuse"
  /\ UNCHANGED <<token, flagVars, notified, client>>
  /\ ClientUnchanged

HandlerStops ==
  /\ handler = "refuse"
  /\ GiveUp
  /\ handler' = "notify"
  /\ UNCHANGED <<token, tokenOk, notified, client>>
  /\ ClientUnchanged

\* Mutant: login_task is not notified.
HandlerForgets ==
  /\ handler = "notify"
  /\ handler' = "idle"
  /\ UNCHANGED <<token, tokenOk, flagVars, notified, client>>
  /\ ClientUnchanged

HandlerNotifies ==
  /\ handler = "notify"
  /\ notified' = TRUE
  /\ handler' = "idle"
  /\ UNCHANGED <<token, tokenOk, flagVars, client>>
  /\ ClientUnchanged

Handler == HandlerClears \/ HandlerRefuses \/ HandlerStops \/ HandlerNotifies

-----------------------------------------------------------------------------
(* ws_msg_processor: a GET before a command, a message to the server.       *)

ProcessorUnchanged ==
  UNCHANGED <<serverVars, token, flagVars, pc, timer, boot, wsVars, client,
              handler, config>>

HttpSend ==
  /\ httpPc = "idle"
  /\ pc["login"] # "store"
  /\ token # NoToken
  /\ gets > 0
  /\ gets' = gets - 1
  /\ httpToken' = token
  /\ httpPc' = "sent"
  /\ UNCHANGED <<tokenOk, mutex, notified>>
  /\ ProcessorUnchanged

\* Any answer but a refusal, or none.
HttpAnswered ==
  /\ httpPc = "sent"
  /\ httpPc' = "idle"
  /\ httpToken' = NoToken
  /\ UNCHANGED <<gets, tokenOk, mutex, notified>>
  /\ ProcessorUnchanged

HttpRefused ==
  /\ httpPc = "sent"
  /\ wifi
  /\ ~Accepted(httpToken)
  /\ tokenOk' = FALSE
  /\ httpPc' = "notify"
  /\ httpToken' = NoToken
  /\ UNCHANGED <<gets, mutex, notified>>
  /\ ProcessorUnchanged

\* Mutant: login_task is not notified.
HttpForgets ==
  /\ httpPc = "notify"
  /\ httpPc' = "idle"
  /\ UNCHANGED <<gets, tokenOk, mutex, notified, httpToken>>
  /\ ProcessorUnchanged

HttpNotifies ==
  /\ httpPc = "notify"
  /\ notified' = TRUE
  /\ httpPc' = "idle"
  /\ UNCHANGED <<gets, tokenOk, mutex, httpToken>>
  /\ ProcessorUnchanged

\* ws_send_json holds the mutex while the client sends.
SendJson ==
  /\ httpPc = "idle"
  /\ mutex = "free"
  /\ client = "connected"
  /\ mutex' = "processor"
  /\ UNCHANGED <<tokenOk, notified, httpVars>>
  /\ ProcessorUnchanged

JsonSent ==
  /\ mutex = "processor"
  /\ mutex' = "free"
  /\ UNCHANGED <<tokenOk, notified, httpVars>>
  /\ ProcessorUnchanged

HttpReturns == HttpAnswered \/ HttpRefused \/ HttpNotifies
Processor == HttpSend \/ HttpReturns \/ SendJson \/ JsonSent

-----------------------------------------------------------------------------
(* The network, the server and a phone.                                     *)

EnvUnchanged ==
  UNCHANGED <<token, tokenOk, restart, asked, mutex, loginVars, wsVars, client,
              handler, httpVars>>

WifiFlips ==
  wifi' = ~wifi /\ UNCHANGED <<revoked, disturbances, stop, config>> /\ EnvUnchanged

Revoke ==
  \E t \in InUse \cap Tokens :
    /\ disturbances > 0
    /\ t \notin revoked
    /\ revoked' = revoked \cup {t}
    /\ disturbances' = disturbances - 1
    /\ UNCHANGED <<wifi, stop, config>>
    /\ EnvUnchanged

\* ble_config_mode_task: a phone connected.
ConfigMode ==
  /\ ~config
  /\ SeemsRunning
  /\ disturbances > 0
  /\ disturbances' = disturbances - 1
  /\ config' = TRUE
  /\ UNCHANGED <<wifi, revoked, stop>>
  /\ EnvUnchanged

ConfigStops ==
  /\ config
  /\ config' = FALSE
  /\ stop' = TRUE
  /\ UNCHANGED serverVars
  /\ EnvUnchanged

Environment ==
  WifiFlips \/ Revoke \/ ConfigMode \/ ConfigStops \/ Disconnect \/ TimerFires

Next == Login \/ Monitor \/ WsTask \/ Connect \/ Handler \/ Processor \/ Environment
Spec == Init /\ [][Next]_vars

\* FreeRTOS runs every task that is ready. The mutex, given often enough, is had;
\* what may fail succeeds if tried often: the login, the creation of the task, the
\* set-up and the start of the client, and the server answers its handshake.
\* A GET ends, by the default timeout of esp_http_client at the latest.
Fairness ==
  /\ WF_vars(Login) /\ WF_vars(Monitor) /\ WF_vars(WsTask)
  /\ WF_vars(Handler) /\ WF_vars(HttpReturns) /\ WF_vars(JsonSent)
  /\ SF_vars(LoginSucceeds)
  /\ SF_vars(\E t \in Starters : CreateTask(t))
  /\ SF_vars(WsSetup /\ wsPc' = "open")
  /\ SF_vars(WsOpen /\ wsPc' = "run")
  /\ SF_vars(Connect \/ HandlerClears)
  /\ SF_vars(WsLock)
FairSpec == Spec /\ Fairness

-----------------------------------------------------------------------------
(* Properties.                                                              *)

\* Types: every variable keeps the values the code gives it.
TypeOK ==
  /\ wifi \in BOOLEAN /\ revoked \subseteq Tokens
  /\ disturbances \in 0 .. MaxDisturbances /\ gets \in 0 .. MaxGets
  /\ token \in Tokens \cup {NoToken, Torn}
  /\ tokenOk \in BOOLEAN /\ stop \in BOOLEAN /\ restart \in BOOLEAN /\ asked \in BOOLEAN
  /\ mutex \in {"free", "login", "monitor", "ws", "processor"}
  /\ pc["login"] \in {"check", "request", "store", "confirm", "ask", "tell", "drain",
                      "start", "take", "created", "schedule", "wait"}
  /\ pc["monitor"] \in {"sleep", "start", "take", "created"}
  /\ DOMAIN pc = Starters
  /\ notified \in BOOLEAN /\ timer \in BOOLEAN /\ config \in BOOLEAN
  /\ boot \in 0 .. BootCycles + 1
  /\ wsPc \in {"none", "begin", "read", "setup", "open", "run", "closing",
               "destroy", "exit"}
  /\ wsToken \in Tokens \cup {NoToken, Torn}
  /\ client \in {"none", "idle", "connecting", "connected"}
  /\ handler \in {"idle", "clear", "refuse", "notify"}
  /\ httpPc \in {"idle", "sent", "notify"}
  /\ httpToken \in Tokens \cup {NoToken}

\* login_task will be woken, or is being: it never sleeps until the next refresh,
\* 20 h, on a token that was cleared or refused.
NotifyPending == notified \/ handler # "idle" \/ httpPc = "notify"
SleepsLoggedIn ==
  pc["login"] = "wait" /\ ~NotifyPending => tokenOk /\ token \in Tokens

\* Nor does a WebSocket task go on with another token than the one on record: it
\* was told to stop (main.c:735).
Committed == wsPc \in {"setup", "open", "run"}
ClientHasToken ==
  pc["login"] = "wait" /\ ~NotifyPending /\ Committed /\ ~stop => wsToken = token

\* The token in use: the three tasks that share token_global agree on it whenever
\* none of them is at work on it.
TokenAgreed == TypeOK /\ SleepsLoggedIn /\ ClientHasToken

\* A request to recreate the task stays until a new one exists (main.c:66): none
\* made by the new task is taken for the old one's.
RequestPending == asked => restart

\* A client is not destroyed while a message is sent on it (main.c:1385).
ClientInUseIsAlive == mutex = "processor" => client # "none"

\* A task told to stop ends: no client stays connected behind BLE or a new login.
StopHonoured == (stop /\ wsPc # "none") ~> (wsPc = "none")

\* While the network stays up the gateway is online again and again, whatever was
\* refused, lost or timed out before.
BackOnline == <>[]wifi => []<>(client = "connected")

\* The token that "Token recusado pelo WebSocket" (main.c:1084) discards is one
\* that the WebSocket sent.
OnlyRefusedTokenCleared ==
  [][(token \in Tokens /\ token' = NoToken) => (token = wsToken)]_vars
=============================================================================
