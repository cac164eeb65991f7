---------------------------- MODULE PatchQueue ----------------------------
(* The telemetry path of a gateway built to receive: gtw_lora_rx_task takes *)
(* the tanks' messages and acknowledges what the pool of PATCH requests     *)
(* accepts, patch_task sends the requests to the server.  A step is the     *)
(* code between two waits.  A wait for patch_pool_mutex that runs out is    *)
(* not an error in the code: the step it protects is left out.              *)
EXTENDS Naturals, Sequences, FiniteSets

CONSTANTS
  Tanks,           \* the tanks
  MaxLevels,       \* levels that the tanks send, all together
  MaxEvents,       \* messages of other kinds
  Slots,           \* QUEUE_LENGTH
  MaxMisses,       \* waits for patch_pool_mutex that run out
  MutexFailLimit,  \* waits for MutexHTTP that may run out before a restart
  RxOnly           \* GTW_ROLE_RX_ONLY

ASSUME PatchQueueAssumption ==
  /\ MaxLevels \in Nat /\ MaxEvents \in Nat
  /\ Slots \in Nat \ {0}
  /\ MaxMisses \in Nat
  /\ MutexFailLimit \in Nat \ {0}
  /\ RxOnly \in BOOLEAN

VARIABLES
  waiting,     \* the message each tank repeats until it is acknowledged
  started,     \* messages of each kind the tanks have begun
  rx,          \* where gtw_lora_rx_task is
  msg,         \* the message it has
  idx,         \* the index it took from xPatchFreeQueue, or 0
  cache,       \* the messages the tanks repeat that gtw_rx_dup_cache remembers
  state,       \* patchPoolState
  pool,        \* patchPool: the message a request was made of
  free,        \* xPatchFreeQueue
  queue,       \* xPatchQueue
  patch,       \* where patch_task is
  held,        \* the index it has, or 0
  sending,     \* the message server_request is sending
  mutexFails,  \* mutex_fail_count
  connectado,  \* Connectado
  tokenOk,     \* TokenOk
  level,       \* server: the level of each tank, by message number
  posted,      \* server: the other messages it got
  accepted,    \* ghost: events accepted since the start, last levels accepted
  skipped,     \* ghost: the last level acknowledged without a request
  missed       \* waits for patch_pool_mutex that ran out

tankVars == <<waiting, started>>
rxVars == <<rx, msg, idx, cache>>
poolVars == <<state, pool, free, queue>>
patchVars == <<patch, held, sending, mutexFails>>
netVars == <<connectado, tokenOk>>
serverVars == <<level, posted>>
ghosts == <<accepted, skipped, missed>>
vars == <<tankVars, rxVars, poolVars, patchVars, netVars, serverVars, ghosts>>

Index == 1 .. Slots
Kinds == {"level", "event"}  \* nivel_atual of a tank; a pump or an alert
MaxMessages == MaxLevels + MaxEvents
Messages == [tank : Tanks, n : 1 .. MaxMessages, kind : Kinds]
NoMessage == [n |-> 0]
OrNone == Messages \cup {NoMessage}

TypeOK ==
  /\ waiting \in [Tanks -> OrNone]
  /\ started \in [Kinds -> Nat]
  /\ rx \in {"idle", "coalesce", "index", "again", "fill", "send", "ack"}
  /\ msg \in OrNone
  /\ idx \in 0 .. Slots
  /\ cache \subseteq Messages
  /\ state \in [Index -> {"free", "queued", "processing"}]
  /\ pool \in [Index -> OrNone]
  /\ free \in Seq(Index) /\ Len(free) <= Slots
  /\ queue \in Seq(Index) /\ Len(queue) <= Slots
  /\ patch \in {"none", "wait", "mark", "gate", "send", "free"}
  /\ held \in 0 .. Slots
  /\ sending \in OrNone
  /\ mutexFails \in 0 .. MutexFailLimit - 1
  /\ {connectado, tokenOk} \subseteq BOOLEAN
  /\ level \in [Tanks -> 0 .. MaxMessages]
  /\ posted \subseteq Messages
  /\ accepted \subseteq Messages
  /\ skipped \in [Tanks -> 0 .. MaxMessages]
  /\ missed \in 0 .. MaxMisses

RamInit ==
  /\ rx = "idle" /\ msg = NoMessage /\ idx = 0
  /\ cache = {}
  /\ state = [i \in Index |-> "free"]
  /\ pool = [i \in Index |-> NoMessage]
  /\ free = [i \in Index |-> i]
  /\ queue = <<>>
  /\ patch = "none" /\ held = 0 /\ sending = NoMessage /\ mutexFails = 0
  /\ connectado = FALSE /\ tokenOk = FALSE
  /\ accepted = {}
  /\ skipped = [t \in Tanks |-> 0]

Init ==
  /\ RamInit
  /\ missed = 0
  /\ waiting = [t \in Tanks |-> NoMessage]
  /\ started = [k \in Kinds |-> 0]
  /\ level = [t \in Tanks |-> 0]
  /\ posted = {}

(***************************************************************************)
(* The tanks                                                               *)
(***************************************************************************)
\* Environment: a tank has something to tell, and gives up what it could not.
TankBegins(t) ==
  /\ \E k \in Kinds :
       /\ started[k] < IF k = "level" THEN MaxLevels ELSE MaxEvents
       /\ started' = [started EXCEPT ![k] = @ + 1]
       /\ waiting' = [waiting EXCEPT ![t] = [tank |-> t, n |-> started[k] + 1, kind |-> k]]
  /\ cache' = cache \ {waiting[t]}
  /\ UNCHANGED <<rx, msg, idx, poolVars, patchVars, netVars, serverVars, ghosts>>

(***************************************************************************)
(* gtw_lora_rx_task and queue_http_request                                 *)
(***************************************************************************)
\* The same tank and number, not older than 15 s.
Duplicate(m) == m \in cache

\* A frame of a tank arrives: the message it repeats.
Receive(t) ==
  /\ rx = "idle"
  /\ waiting[t] # NoMessage
  /\ msg' = waiting[t]
  /\ rx' = IF Duplicate(msg') THEN "ack"
           ELSE IF msg'.kind = "level" THEN "coalesce" ELSE "index"
  /\ UNCHANGED <<tankVars, idx, cache, poolVars, patchVars, netVars, serverVars, ghosts>>

\* The message was accepted: it is acknowledged, and the tank may rely on it.
Accept(m) ==
  /\ rx' = "ack"
  /\ accepted' = {m} \cup
       {a \in accepted : m.kind = "event" \/ a.kind = "event" \/ a.tank # m.tank}

\* A request that waits and is for the same level.
SameLevel(i) ==
  /\ state[i] = "queued"
  /\ pool[i].tank = msg.tank /\ pool[i].kind = "level"

\* coalesce_queued_tank_level, the first time and again when there is no index.
Coalesce ==
  /\ rx \in {"coalesce", "again"}
  /\ \E i \in Index :
       /\ SameLevel(i)
       /\ \A j \in 1 .. i - 1 : ~SameLevel(j)
       /\ pool' = [pool EXCEPT ![i] = msg]
  /\ Accept(msg)
  /\ UNCHANGED <<tankVars, msg, idx, cache, state, free, queue, patchVars, netVars,
                 serverVars, skipped, missed>>

\* Nothing to coalesce with, or no answer from the mutex within 20 ms: a new
\* request, or, where there is no room for one, an acknowledgement all the same.
CoalesceFails ==
  /\ rx \in {"coalesce", "again"}
  /\ \/ (\A i \in Index : ~SameLevel(i)) /\ UNCHANGED missed
     \/ missed < MaxMisses /\ missed' = missed + 1
  /\ \/ /\ rx = "coalesce"
        /\ rx' = "index"
        /\ UNCHANGED <<accepted, skipped>>
     \/ /\ rx = "again"
        /\ Accept(msg)
        /\ skipped' = [skipped EXCEPT ![msg.tank] = msg.n]
  /\ UNCHANGED <<tankVars, msg, idx, cache, poolVars, patchVars, netVars, serverVars>>

TakeIndex ==
  /\ rx = "index"
  /\ free # <<>>
  /\ idx' = Head(free)
  /\ free' = Tail(free)
  /\ rx' = "fill"
  /\ UNCHANGED <<tankVars, msg, cache, state, pool, queue, patchVars, netVars,
                 serverVars, ghosts>>

\* Mutant: a full pool acknowledges whatever it is.
NoIndexAcked ==
  /\ rx = "index"
  /\ free = <<>>
  /\ IF msg.kind = "level" THEN rx' = "again" ELSE rx' = "ack"
  /\ UNCHANGED <<tankVars, msg, idx, cache, poolVars, patchVars, netVars, serverVars,
                 ghosts>>

\* No index within 100 ms: a message that is no level is not acknowledged.
NoIndex ==
  /\ rx = "index"
  /\ free = <<>>
  /\ rx' = IF msg.kind = "level" THEN "again" ELSE "idle"
  /\ UNCHANGED <<tankVars, msg, idx, cache, poolVars, patchVars, netVars, serverVars,
                 ghosts>>

\* patch_slot_set, which does nothing when the mutex does not answer in 100 ms.
SlotSet(i, s) ==
  \/ state' = [state EXCEPT ![i] = s] /\ UNCHANGED missed
  \/ missed < MaxMisses /\ missed' = missed + 1 /\ UNCHANGED state

Fill ==
  /\ rx = "fill"
  /\ pool' = [pool EXCEPT ![idx] = msg]
  /\ SlotSet(idx, "queued")
  /\ rx' = "send"
  /\ UNCHANGED <<tankVars, msg, idx, cache, free, queue, patchVars, netVars, serverVars,
                 accepted, skipped>>

\* xQueueSend, which finds room (see QueueHasRoom).
Enqueue ==
  /\ rx = "send"
  /\ queue' = Append(queue, idx)
  /\ idx' = 0
  /\ Accept(msg)
  /\ UNCHANGED <<tankVars, msg, cache, state, pool, free, patchVars, netVars, serverVars,
                 skipped, missed>>

\* The entry of the cache and gtw_send_ack, which the tank may hear, or not;
\* it may have given up.
Ack ==
  /\ rx = "ack"
  /\ rx' = "idle"
  /\ msg' = NoMessage
  /\ \/ /\ waiting[msg.tank] = msg
        /\ waiting' = [waiting EXCEPT ![msg.tank] = NoMessage]
        /\ cache' = cache \ {msg}
     \/ /\ waiting[msg.tank] = msg
        /\ cache' = cache \cup {msg}
        /\ UNCHANGED waiting
     \/ /\ waiting[msg.tank] # msg
        /\ UNCHANGED <<waiting, cache>>
  /\ UNCHANGED <<started, idx, poolVars, patchVars, netVars, serverVars, ghosts>>

\* An entry is older than 15 s, or another message with the same index took it.
Forget(m) ==
  /\ cache' = cache \ {m}
  /\ UNCHANGED <<tankVars, rx, msg, idx, poolVars, patchVars, netVars, serverVars,
                 ghosts>>

RxTask == Coalesce \/ CoalesceFails \/ TakeIndex \/ NoIndex \/ Fill \/ Enqueue \/ Ack

(***************************************************************************)
(* patch_task                                                              *)
(***************************************************************************)
PatchReceives ==
  /\ patch = "wait"
  /\ queue # <<>>
  /\ held' = Head(queue)
  /\ queue' = Tail(queue)
  /\ patch' = "mark"
  /\ UNCHANGED <<tankVars, rxVars, state, pool, free, sending, mutexFails, netVars,
                 serverVars, ghosts>>

PatchMarks ==
  /\ patch = "mark"
  /\ SlotSet(held, "processing")
  /\ patch' = "gate"
  /\ UNCHANGED <<tankVars, rxVars, pool, free, queue, held, sending, mutexFails, netVars,
                 serverVars, accepted, skipped>>

\* Online and logged in, it takes MutexHTTP and sends.
PatchSends ==
  /\ patch = "gate"
  /\ connectado /\ tokenOk
  /\ mutexFails' = 0
  /\ sending' = pool[held]
  /\ patch' = "send"
  /\ UNCHANGED <<tankVars, rxVars, poolVars, held, netVars, serverVars, ghosts>>

\* MutexHTTP, which login_task and the check for an update also take, is not
\* free for 12 s; the retry comes after the back-off.
PatchMisses ==
  /\ patch = "gate"
  /\ connectado /\ tokenOk
  /\ mutexFails + 1 < MutexFailLimit
  /\ mutexFails' = mutexFails + 1
  /\ UNCHANGED <<tankVars, rxVars, poolVars, patch, held, sending, netVars, serverVars,
                 ghosts>>

\* ... and at the limit ConnectRest: the pool and the cache are in RAM.
PatchRestarts ==
  /\ patch = "gate"
  /\ connectado /\ tokenOk
  /\ mutexFails + 1 >= MutexFailLimit
  /\ rx' = "idle" /\ msg' = NoMessage /\ idx' = 0
  /\ cache' = {}
  /\ state' = [i \in Index |-> "free"]
  /\ pool' = [i \in Index |-> NoMessage]
  /\ free' = [i \in Index |-> i]
  /\ queue' = <<>>
  /\ patch' = "none" /\ held' = 0 /\ sending' = NoMessage /\ mutexFails' = 0
  /\ connectado' = FALSE /\ tokenOk' = FALSE
  /\ accepted' = {}
  /\ skipped' = [t \in Tanks |-> 0]
  /\ UNCHANGED <<tankVars, serverVars, missed>>

\* What the server does with a request that reaches it.
Deliver(m) ==
  /\ level' = IF m.kind = "level" THEN [level EXCEPT ![m.tank] = m.n] ELSE level
  /\ posted' = IF m.kind = "event" THEN posted \cup {m} ELSE posted

PatchReturns(next) ==
  /\ patch = "send"
  /\ patch' = next
  /\ sending' = NoMessage
  /\ UNCHANGED <<tankVars, rxVars, poolVars, held, mutexFails, connectado, ghosts>>

\* Mutant: a request that fails is given up.
PatchGivesUp ==
  /\ PatchReturns("free")
  /\ UNCHANGED <<serverVars, tokenOk>>

\* Mutant: a request that fails goes to the end of the queue.
PatchRequeues ==
  /\ patch = "send"
  /\ patch' = "wait"
  /\ queue' = Append(queue, held)
  /\ held' = 0
  /\ sending' = NoMessage
  /\ UNCHANGED <<tankVars, rxVars, state, pool, free, mutexFails, netVars, serverVars,
                 ghosts>>

\* A status of 2xx.
PatchSucceeds ==
  /\ PatchReturns("free")
  /\ Deliver(sending)
  /\ UNCHANGED tokenOk

\* Any other, or none: also when the request arrived and the answer did not.
PatchFails ==
  /\ PatchReturns("gate")
  /\ UNCHANGED serverVars \/ Deliver(sending)
  /\ UNCHANGED tokenOk

\* 401 or 403: the login is asked for again.
PatchRefused ==
  /\ PatchReturns("gate")
  /\ tokenOk' = FALSE
  /\ UNCHANGED serverVars

\* Mutant: the index does not go back to its queue.
PatchKeepsIndex ==
  /\ patch = "free"
  /\ SlotSet(held, "free")
  /\ held' = 0
  /\ patch' = "wait"
  /\ UNCHANGED <<tankVars, rxVars, pool, free, queue, sending, mutexFails, netVars,
                 serverVars, accepted, skipped>>

\* The content of a slot marked free is not read again.
PatchFrees ==
  /\ patch = "free"
  /\ SlotSet(held, "free")
  /\ pool' = [pool EXCEPT ![held] = IF state'[held] = "free" THEN NoMessage ELSE @]
  /\ free' = Append(free, held)
  /\ held' = 0
  /\ patch' = "wait"
  /\ UNCHANGED <<tankVars, rxVars, queue, sending, mutexFails, netVars, serverVars,
                 accepted, skipped>>

PatchTask ==
  \/ PatchReceives \/ PatchMarks \/ PatchSends \/ PatchMisses \/ PatchRestarts
  \/ PatchSucceeds \/ PatchFails \/ PatchRefused \/ PatchFrees

(***************************************************************************)
(* The other tasks and the network.  What only the gate of patch_task reads *)
(* changes only there.                                                     *)
(***************************************************************************)
NetUnchanged ==
  UNCHANGED <<tankVars, rxVars, poolVars, held, sending, mutexFails, serverVars, ghosts>>

\* login_task has a token; it creates patch_task unless it exists, which may
\* fail without notice.
Login ==
  /\ patch = "none" \/ (patch = "gate" /\ ~tokenOk)
  /\ tokenOk' = TRUE
  /\ patch' \in IF patch = "none" THEN {"none", "wait"} ELSE {patch}
  /\ UNCHANGED connectado
  /\ NetUnchanged

\* A gateway with a WebSocket has Connectado from its events.  In the receive
\* role only wifi_task writes it, and it writes 0.
SetConnectado ==
  /\ ~RxOnly
  /\ patch = "gate"
  /\ connectado' = ~connectado
  /\ UNCHANGED <<tokenOk, patch>>
  /\ NetUnchanged

Next ==
  \/ \E t \in Tanks : TankBegins(t) \/ Receive(t)
  \/ RxTask
  \/ \E m \in cache : Forget(m)
  \/ PatchTask
  \/ Login \/ SetConnectado

Spec == Init /\ [][Next]_vars

\* The tasks run; patch_task gets MutexHTTP sooner or later, and the server
\* does not refuse what it is sent for ever.
Fairness ==
  /\ WF_vars(RxTask)
  /\ WF_vars(PatchTask)
  /\ SF_vars(PatchSends)
  /\ SF_vars(PatchSucceeds)
  /\ WF_vars(Login)

FairSpec == Spec /\ Fairness

(***************************************************************************)
(* Properties                                                              *)
(***************************************************************************)
InQueue(i) == \E k \in 1 .. Len(queue) : queue[k] = i
InFree(i) == \E k \in 1 .. Len(free) : free[k] = i

\* A request is in one place: free, with gtw_lora_rx_task, in the queue or with
\* patch_task; none is lost and none is in two places.
SlotsConserved ==
  /\ \A i \in Index : \/ InFree(i) \/ InQueue(i) \/ idx = i \/ held = i
  /\ Len(free) + Len(queue) + (IF idx = 0 THEN 0 ELSE 1) + (IF held = 0 THEN 0 ELSE 1)
       = Slots

\* xQueueSend in queue_http_request never has to wait for room.
QueueHasRoom == rx = "send" => Len(queue) < Slots

\* The pool is conserved, and with it the room in its queue.
PoolConserved == TypeOK /\ SlotsConserved /\ QueueHasRoom

\* Requests that are not yet done.
Pending == {i \in Index : InQueue(i) \/ held = i}

\* What the tank is told was accepted has a request, was coalesced into one or,
\* for a level, was knowingly let go; a duplicate is one of something accepted.
AckMeansAccepted == rx = "ack" => msg \in accepted

\* An accepted message that is no level waits, is being sent, or was received.
EventsKept ==
  \A m \in accepted : m.kind = "event" => m \in posted \/ \E i \in Pending : pool[i] = m

\* The last level a tank delivered is the one the server has or will have,
\* unless it was let go for want of room or the mutex was missed.
LastLevelKept ==
  \A m \in accepted :
    \/ m.kind # "level"
    \/ m.n \in {level[m.tank], skipped[m.tank]}
    \/ \E i \in Pending : pool[i] = m
    \/ missed > 0

\* An acknowledgement is kept: what the tank was told is accepted is on its way to
\* the server, or there.
AcceptedKept == AckMeansAccepted /\ EventsKept /\ LastLevelKept

\* A tank's level never goes back to an older one, unless the mutex was missed.
LevelsMoveForward ==
  [][\A t \in Tanks : level'[t] >= level[t] \/ missed' > 0]_vars

\* The request that is being sent is not changed by a level that comes in.
SentAsItIs ==
  [][(patch = "send" /\ missed' = 0) => pool'[held] = sending]_vars

\* What the server has moves forward, from requests that went out whole.
ServerMovesForward == LevelsMoveForward /\ SentAsItIs

\* Online and logged in, the gateway delivers what it acknowledged.
Delivered ==
  <>[](connectado /\ tokenOk) =>
    \A t \in Tanks, n \in 1 .. MaxMessages :
      LET m == [tank |-> t, n |-> n, kind |-> "event"]
      IN  (m \in accepted) ~> (m \in posted \/ m \notin accepted)

\* main.c:754: the login is kept for PATCH.  With a token, requests are sent.
LoginServesPatch == <>[]tokenOk => ((patch = "gate") ~> (patch = "send"))

=============================================================================
