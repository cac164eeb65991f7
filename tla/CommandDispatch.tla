------------------------- MODULE CommandDispatch -------------------------
(* The commands the server sends to the TX gateway (src/main/main.c): the   *)
(* WebSocket client's task queues each message (websocket_event_handler),   *)
(* one task takes them out (ws_msg_processor_task) and handles a pump       *)
(* command, a ping or a request to open Bluetooth, waiting meanwhile for    *)
(* MutexHTTP, the server, the radio and ws_lifecycle_mutex.  The radio is   *)
(* taken at its word, AckedSend: LoraLink is shown to keep it.  The queue   *)
(* is created at boot and outlives every WebSocket connection.              *)
EXTENDS Integers, Sequences, FiniteSets

CONSTANTS
  Gateways,     \* gateways the server addresses
  DeviceId,     \* DEVICE_ID, the identity of this one
  QueueLength,  \* WS_QUEUE_LEN
  MaxMessages   \* BOUND: messages the server sends

ASSUME DispatchAssumption ==
  /\ DeviceId \in Gateways
  /\ QueueLength \in Nat \ {0}
  /\ MaxMessages \in Nat

Events == {"ControlerBomba_edit", "PingGtw", "BtON_gateway"}
\* A message with an event of this gateway, well formed and for one gateway, or
\* one that the processor discards: no JSON, no event, "reset_gtw", an unknown
\* event, or data that fail the handler's validation (main.c:1175-1191).
Contents == [event : Events, gtw : Gateways] \cup {[event |-> "invalid"]}
Numbers == 1 .. MaxMessages

VARIABLES
  content,      \* content[n] of the n-th message from the server
  queue,        \* ws_msg_queue: numbers of messages
  buffers,      \* messages whose heap copy is allocated
  pc, item,     \* ws_msg_processor_task: control point, the message in hand
  result,       \* pingPong of handle_PingTanque
  httpMutex,    \* holder of MutexHTTP
  wsMutex,      \* holder of ws_lifecycle_mutex
  client,       \* ws_client: no client, one that is connected or one that is not
  counter, open, delivered, succeeded,  \* the radio: see AckedSend
  begun,        \* history: messages whose LoRa transaction was begun, in order
  online,       \* history: commands left to the server, the tank being online
  answers       \* history: ping results sent to the server

dispatchVars == <<queue, buffers, pc, item, result>>
mutexVars == <<httpMutex, wsMutex>>
radioVars == <<counter, open, delivered, succeeded>>
historyVars == <<begun, online, answers>>
vars == <<content, dispatchVars, mutexVars, client, radioVars, historyVars>>

Radio == INSTANCE AckedSend WITH next <- counter

NoItem == 0
Received == DOMAIN content

Init ==
  /\ content = <<>>
  /\ queue = <<>>
  /\ buffers = {}
  /\ pc = "receive"
  /\ item = NoItem
  /\ result = FALSE
  /\ httpMutex = "free"
  /\ wsMutex = "free"
  /\ client = "none"
  /\ counter = 0
  /\ open = {}
  /\ delivered = {}
  /\ succeeded = {}
  /\ begun = <<>>
  /\ online = {}
  /\ answers = {}

-----------------------------------------------------------------------------
(* The WebSocket client's task.                                             *)

Queued(n) == queue' = Append(queue, n)

\* Fila WS cheia: the copy just made is freed.
Full(n) ==
  /\ Len(queue) = QueueLength
  /\ UNCHANGED <<queue, buffers>>

\* Empty, too long for a buffer, or no memory for the copy: dropped before it
\* reaches the queue.
NotCopied(n) == UNCHANGED <<queue, buffers>>

\* WEBSOCKET_EVENT_DATA.
Data(c) ==
  LET n == Len(content) + 1
  IN /\ client = "up"
     /\ n \in Numbers
     /\ content' = Append(content, c)
     /\ \/ NotCopied(n)
        \/ Full(n)
        \/ /\ Len(queue) < QueueLength
           /\ Queued(n)
           /\ buffers' = buffers \cup {n}
     /\ UNCHANGED <<pc, item, result, mutexVars, client, radioVars,
                    historyVars>>

-----------------------------------------------------------------------------
(* ws_msg_processor_task.                                                   *)

ElsewhereUnchanged == UNCHANGED <<content, client>>

\* cJSON_Delete, free(item.data), and back to the queue.
Done ==
  /\ buffers' = buffers \ {item}
  /\ item' = NoItem
  /\ result' = FALSE
  /\ pc' = "receive"

ForThisGateway(c) == c.event \in Events /\ c.gtw = DeviceId

\* Not a message for this gateway, or none at all: freed at once.
Discards(c) ==
  /\ ~ForThisGateway(c)
  /\ buffers' = buffers \ {Head(queue)}
  /\ UNCHANGED <<pc, item>>

\* bluetooth_config_start opens the window or fails (BleWindow); either way the
\* processor is done with the message.
OpensBluetooth(c) ==
  /\ ForThisGateway(c)
  /\ c.event = "BtON_gateway"
  /\ buffers' = buffers \ {Head(queue)}
  /\ UNCHANGED <<pc, item>>

\* A pump command asks the server first, a ping goes straight to the radio.
Takes(c) ==
  /\ ForThisGateway(c)
  /\ c.event # "BtON_gateway"
  /\ item' = Head(queue)
  /\ pc' = IF c.event = "PingGtw" THEN "begin" ELSE "http"
  /\ UNCHANGED buffers

Receive ==
  /\ pc = "receive"
  /\ queue # <<>>
  /\ queue' = Tail(queue)
  /\ LET c == content[Head(queue)] IN Discards(c) \/ OpensBluetooth(c) \/ Takes(c)
  /\ ElsewhereUnchanged
  /\ UNCHANGED <<result, mutexVars, radioVars, historyVars>>

TakeHttp ==
  /\ pc = "http"
  /\ httpMutex = "free"
  /\ httpMutex' = "processor"
  /\ pc' = "get"
  /\ ElsewhereUnchanged
  /\ UNCHANGED <<queue, buffers, item, result, wsMutex, radioVars, historyVars>>

\* Mutant: a command whose query cannot be made is dropped.
HttpTimeoutDrops ==
  /\ pc = "http"
  /\ httpMutex # "free"
  /\ Done
  /\ ElsewhereUnchanged
  /\ UNCHANGED <<queue, mutexVars, radioVars, historyVars>>

\* Mutant: the wait for MutexHTTP has no time-out.
HttpWaits ==
  /\ pc = "http"
  /\ httpMutex # "free"
  /\ UNCHANGED vars

\* GET indisponivel: the tank is assumed offline.
HttpTimeout ==
  /\ pc = "http"
  /\ httpMutex # "free"
  /\ pc' = "begin"
  /\ ElsewhereUnchanged
  /\ UNCHANGED <<queue, buffers, item, result, mutexVars, radioVars, historyVars>>

\* The server says the tank is online: it has the command from the server.
TankOnline ==
  /\ online' = online \cup {item}
  /\ Done

\* The request failed, or its answer does not parse, has no field "online", or
\* says false: the command goes over LoRa.
TankOffline ==
  /\ pc' = "begin"
  /\ UNCHANGED <<buffers, item, result, online>>

\* Mutant: MutexHTTP is given only when the server has answered.
GetReturnsHolding ==
  /\ pc = "get"
  /\ \/ TankOnline /\ httpMutex' = "free"
     \/ TankOffline /\ UNCHANGED httpMutex
  /\ ElsewhereUnchanged
  /\ UNCHANGED <<queue, wsMutex, radioVars, begun, answers>>

\* server_get_json returns and MutexHTTP is given.  (A 401 or 403 also clears
\* TokenOk and wakes the login: WebSocketLogin.)
GetReturns ==
  /\ pc = "get"
  /\ httpMutex' = "free"
  /\ TankOnline \/ TankOffline
  /\ ElsewhereUnchanged
  /\ UNCHANGED <<queue, wsMutex, radioVars, begun, answers>>

\* gtw_send_to_tank, gtw_ping_tank: the frame is numbered and its transaction is
\* begun.  It fails without a frame on the air when gtw_request_mutex is not free
\* in time or the radio cannot be repaired (main.c:2053-2067): see LoraLink.
Begin ==
  /\ pc = "begin"
  /\ Radio!Open
  /\ begun' = Append(begun, item)
  /\ pc' = "radio"
  /\ ElsewhereUnchanged
  /\ UNCHANGED <<queue, buffers, item, result, mutexVars, online, answers>>

\* The transaction returns: a command is over, a ping has a result to report.
Returned(ok) ==
  IF content[item].event = "PingGtw"
  THEN /\ result' = ok
       /\ pc' = "reply"
       /\ UNCHANGED <<buffers, item>>
  ELSE Done

\* Mutant: a ping that was sent counts as answered.
RadioFailsUnnoticed ==
  /\ pc = "radio"
  /\ Radio!Fail
  /\ Returned(TRUE)
  /\ ElsewhereUnchanged
  /\ UNCHANGED <<queue, mutexVars, historyVars>>

RadioFails ==
  /\ pc = "radio"
  /\ Radio!Fail
  /\ Returned(FALSE)
  /\ ElsewhereUnchanged
  /\ UNCHANGED <<queue, mutexVars, historyVars>>

RadioSucceeds ==
  /\ pc = "radio"
  /\ Radio!Succeed
  /\ Returned(TRUE)
  /\ ElsewhereUnchanged
  /\ UNCHANGED <<queue, mutexVars, historyVars>>

\* ws_send_json: 6 s for ws_lifecycle_mutex, then the result is given up.
TakeWs ==
  /\ pc = "reply"
  /\ wsMutex = "free"
  /\ wsMutex' = "processor"
  /\ pc' = "send"
  /\ ElsewhereUnchanged
  /\ UNCHANGED <<queue, buffers, item, result, httpMutex, radioVars, historyVars>>

WsTimeout ==
  /\ pc = "reply"
  /\ wsMutex # "free"
  /\ Done
  /\ ElsewhereUnchanged
  /\ UNCHANGED <<queue, mutexVars, radioVars, historyVars>>

Answer == [message |-> item, ok |-> result]

\* No client, not connected, or the send fails: the result is lost.
Send ==
  /\ pc = "send"
  /\ wsMutex' = "free"
  /\ answers' \in {answers} \cup (IF client = "up" THEN {answers \cup {Answer}}
                                                   ELSE {})
  /\ Done
  /\ ElsewhereUnchanged
  /\ UNCHANGED <<queue, httpMutex, radioVars, begun, online>>

Processor ==
  \/ Receive
  \/ TakeHttp \/ HttpTimeout \/ GetReturns
  \/ Begin \/ RadioFails \/ RadioSucceeds
  \/ TakeWs \/ WsTimeout \/ Send

-----------------------------------------------------------------------------
(* The rest of the gateway, as far as the processor meets it, and the tanks. *)

OthersUnchanged ==
  UNCHANGED <<content, dispatchVars, historyVars>>

\* Login, the OTA check: any other holder of MutexHTTP.
OtherHttp ==
  /\ \/ httpMutex = "free" /\ httpMutex' = "other"
     \/ httpMutex = "other" /\ httpMutex' = "free"
  /\ OthersUnchanged
  /\ UNCHANGED <<wsMutex, client, radioVars>>

\* connect_to_websocket publishes and destroys its client under the mutex.
ConnectionLock ==
  /\ wsMutex = "free"
  /\ wsMutex' = "connection"
  /\ OthersUnchanged
  /\ UNCHANGED <<httpMutex, client, radioVars>>

ConnectionUnlock ==
  /\ wsMutex = "connection"
  /\ wsMutex' = "free"
  /\ client' = IF client = "none" THEN "down" ELSE "none"
  /\ OthersUnchanged
  /\ UNCHANGED <<httpMutex, radioVars>>

\* The client connects and disconnects on its own.
ClientFlips ==
  /\ client # "none"
  /\ client' = IF client = "up" THEN "down" ELSE "up"
  /\ OthersUnchanged
  /\ UNCHANGED <<mutexVars, radioVars>>

TankReceives ==
  /\ \E n \in 0 .. counter - 1 : n \notin delivered /\ Radio!Deliver(n)
  /\ OthersUnchanged
  /\ UNCHANGED <<mutexVars, client>>

Others ==
  \/ OtherHttp \/ ConnectionLock \/ ConnectionUnlock \/ ClientFlips
  \/ TankReceives

Next == (\E c \in Contents : Data(c)) \/ Processor \/ Others

Spec == Init /\ [][Next]_vars

(* The processor is runnable whenever it waits for nothing, and every wait  *)
(* of its has a time-out, the radio included (LoraLink!TransactionEnds).    *)
(* Nothing is assumed of the server, the connection or the other tasks.     *)
FairSpec == Spec /\ WF_vars(Processor)

-----------------------------------------------------------------------------
(* Properties.                                                              *)

\* Every variable has its type.
TypeOK ==
  /\ content \in Seq(Contents) /\ Len(content) <= MaxMessages
  /\ queue \in Seq(Numbers) /\ Len(queue) <= QueueLength
  /\ buffers \subseteq Received
  /\ pc \in {"receive", "http", "get", "begin", "radio", "reply", "send"}
  /\ item \in Received \cup {NoItem}
  /\ result \in BOOLEAN
  /\ httpMutex \in {"free", "processor", "other"}
  /\ wsMutex \in {"free", "processor", "connection"}
  /\ client \in {"none", "down", "up"}
  /\ counter \in Nat
  /\ begun \in Seq(Received)
  /\ online \subseteq Received
  /\ answers \subseteq [message : Received, ok : BOOLEAN]

InQueue == {queue[i] : i \in DOMAIN queue}

\* The heap copy of a message lives from the callback that made it to the end of
\* its handling, on every path through them (main.c:1068-1071, 1114-1146): the
\* only copies are those of the queue and of the message in hand, and a queued
\* message has its copy.
BuffersOwned == buffers = InQueue \cup ({item} \ {NoItem})

\* The transactions are begun in the order in which the server sent the messages,
\* whatever each of them waited for: an old "LIGAR" never goes out after a newer
\* "DESLIGAR", and no message has two transactions.
SentInOrder == \A i, j \in DOMAIN begun : i < j => begun[i] < begun[j]

\* A ping reported to the server as "success" did reach its tank, and only pings
\* are reported, each by its own transaction (main.c:1340-1346).
PingResultTrue ==
  \A a \in answers :
    /\ content[a.message].event = "PingGtw"
    /\ \E i \in DOMAIN begun :
         /\ begun[i] = a.message
         /\ a.ok => i - 1 \in delivered

\* Between two messages, and while the radio works, the processor holds no mutex
\* that the login, the OTA check or the connection task wait for without a limit
\* (main.c:996, 1226, 1389-1409).
NothingHeld ==
  /\ httpMutex = "processor" => pc = "get"
  /\ wsMutex = "processor" => pc = "send"

\* Everything the processor holds, copies and mutexes, is accounted for.
HeldIsOwned == TypeOK /\ BuffersOwned /\ NothingHeld

\* What leaves the gateway is true to what the server asked: in its order over the
\* radio, and by its outcome in the answers.
OutputsTrue == SentInOrder /\ PingResultTrue

\* A command the processor takes up is not lost on the way to the radio: its LoRa
\* transaction is begun unless the server itself said the tank is online; failing
\* to ask counts as offline ("assumindo OFFLINE e enviando LoRa", main.c:1228).
\* What the transaction then comes to is LoraLink's.
CommandNotLost ==
  [][item # NoItem /\ item' # item
       => item \in online' \cup {begun[i] : i \in DOMAIN begun}]_vars

\* Every message that enters the queue is handled, however long MutexHTTP, the
\* connection or the radio stay unavailable: the processor never stops.
EveryMessageHandled ==
  \A n \in Numbers : n \in InQueue ~> n \notin InQueue /\ item # n

=============================================================================
