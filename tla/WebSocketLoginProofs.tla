---------------------- MODULE WebSocketLoginProofs ----------------------
(* What holds of WebSocketLogin for any tokens, any number of refreshes,    *)
(* revocations and requests, and any interleaving of its tasks.             *)
EXTENDS WebSocketLogin, FiniteSetTheorems, TLAPS

\* Types, the Boolean variables apart from the rest.
FlagsOK ==
  /\ wifi \in BOOLEAN /\ tokenOk \in BOOLEAN
  /\ stop \in BOOLEAN /\ restart \in BOOLEAN /\ asked \in BOOLEAN
  /\ notified \in BOOLEAN /\ timer \in BOOLEAN /\ config \in BOOLEAN

ValuesOK ==
  /\ revoked \subseteq Tokens
  /\ disturbances \in 0 .. MaxDisturbances /\ gets \in 0 .. MaxGets
  /\ token \in Tokens \cup {NoToken, Torn}
  /\ mutex \in {"free", "login", "monitor", "ws", "processor"}
  /\ pc["login"] \in {"check", "request", "store", "confirm", "ask", "tell", "drain",
                      "start", "take", "created", "schedule", "wait"}
  /\ pc["monitor"] \in {"sleep", "start", "take", "created"}
  /\ DOMAIN pc = Starters
  /\ boot \in 0 .. BootCycles + 1
  /\ wsPc \in {"none", "begin", "read", "setup", "open", "run", "closing",
               "destroy", "exit"}
  /\ wsToken \in Tokens \cup {NoToken, Torn}
  /\ client \in {"none", "idle", "connecting", "connected"}
  /\ handler \in {"idle", "clear", "refuse", "notify"}
  /\ httpPc \in {"idle", "sent", "notify"}
  /\ httpToken \in Tokens \cup {NoToken}

\* Only while login_task copies a token is token_global torn, and then no request
\* is under way that could have read it.
TornInCopy ==
  /\ token = Torn => pc["login"] = "store"
  /\ pc["login"] = "store" => token \in {Torn, NoToken} /\ httpPc # "sent"
  /\ httpPc # "sent" => httpToken = NoToken

Typed == ValuesOK /\ TornInCopy

\* Each holder of ws_lifecycle_mutex is at the place that gives it.
MutexOwned ==
  /\ \A t \in Starters : mutex = t <=> pc[t] = "created"
  /\ mutex = "ws" <=> wsPc = "destroy"

\* The client exists while its task is at work on it, and its handler runs only
\* in a client that was started.
ClientOfTask ==
  /\ wsPc \in {"none", "begin", "read", "setup", "exit"} => client = "none"
  /\ wsPc = "open" => client = "idle"
  /\ handler # "idle" => client \notin {"none", "idle"}

\* The task that was just created has made no request: it cannot get past the
\* mutex its creator still holds.
NewTaskIsQuiet ==
  \A t \in Starters :
    pc[t] = "created" => ~asked /\ wsPc \in {"begin", "read", "setup", "exit"}

TaskInv ==
  MutexOwned /\ ClientOfTask /\ NewTaskIsQuiet /\ RequestPending /\ ClientInUseIsAlive

\* A new token is on record, or login_task will be woken for another one.
Settled == {"ask", "tell", "drain", "start", "take", "created", "schedule", "wait"}
TokenOnRecord ==
  \/ NotifyPending
  \/ /\ pc["login"] = "store" => token = Torn
     /\ pc["login"] = "confirm" => token \in Tokens
     /\ pc["login"] \in Settled => tokenOk /\ token \in Tokens

\* Once an older task was told to stop, a task that goes on has the new token.
TaskHasToken ==
  pc["login"] \in Settled \ {"ask", "tell"} =>
    NotifyPending \/ ~Committed \/ stop \/ wsToken = token

AgreementInv == TokenOnRecord /\ TaskHasToken

-----------------------------------------------------------------------------
(* Types.                                                                   *)

\* Of three tokens one is in no use while a new one is copied.
LEMMA FreshToken ==
  ASSUME Typed, pc["login"] = "store"
  PROVE  Fresh \in Tokens /\ Fresh \notin InUse
<1>1. PICK t \in Tokens : t # wsToken
  <2> SUFFICES ASSUME Tokens \subseteq {wsToken} PROVE FALSE
    OBVIOUS
  <2>1. IsFiniteSet({wsToken}) /\ Cardinality({wsToken}) = 1
    BY FS_Singleton
  <2>2. Cardinality(Tokens) <= 1
    BY <2>1, FS_Subset
  <2>3. Cardinality(Tokens) \in Nat
    BY TokenAssumption, FS_CardinalityType
  <2> QED BY <2>2, <2>3, TokenAssumption
<1>2. token \notin Tokens /\ httpToken \notin Tokens
  BY TokenAssumption DEF Typed, TornInCopy, ValuesOK
<1>3. \E u \in Tokens : u \notin InUse
  BY <1>1, <1>2 DEF InUse
<1> QED BY <1>3 DEF Fresh

\* The flags are set to TRUE and FALSE only.
LEMMA FlagsStep ==
  ASSUME FlagsOK, [Next]_vars
  PROVE  FlagsOK'
<1> USE DEF serverVars, flagVars, loginVars, wsVars, httpVars, FlagsOK, Goto, GiveUp
<1>1. ASSUME NEW t \in Starters, StartCheck(t)
     PROVE  FlagsOK'
  BY <1>1 DEF StartCheck, StarterUnchanged
<1>2. ASSUME NEW t \in Starters, StartGivesUp(t)
     PROVE  FlagsOK'
  BY <1>2 DEF StartGivesUp, StarterUnchanged
<1>3. ASSUME NEW t \in Starters, CreateTask(t)
     PROVE  FlagsOK'
  BY <1>3 DEF CreateTask, StarterUnchanged
<1>4. ASSUME NEW t \in Starters, CreateFails(t)
     PROVE  FlagsOK'
  BY <1>4 DEF CreateFails, StarterUnchanged
<1>5. ASSUME NEW t \in Starters, Created(t)
     PROVE  FlagsOK'
  BY <1>5 DEF Created, StarterUnchanged
<1>6. CASE LoginCheck
  BY <1>6 DEF LoginCheck, LoginUnchanged
<1>7. CASE LoginFails
  BY <1>7 DEF LoginFails, LoginUnchanged
<1>8. CASE LoginSucceeds
  BY <1>8 DEF LoginSucceeds, LoginUnchanged
<1>9. CASE LoginStores
  BY <1>9 DEF LoginStores
<1>10. CASE LoginConfirms
  BY <1>10 DEF LoginConfirms, LoginUnchanged
<1>11. CASE LoginAsks
  BY <1>11 DEF LoginAsks, LoginUnchanged
<1>12. CASE LoginTells
  BY <1>12 DEF LoginTells, LoginUnchanged
<1>13. CASE LoginDrained
  BY <1>13 DEF LoginDrained, LoginUnchanged
<1>14. CASE LoginSchedules
  BY <1>14 DEF LoginSchedules, LoginUnchanged
<1>15. CASE LoginWakes
  BY <1>15 DEF LoginWakes, LoginUnchanged
<1>16. CASE TimerFires
  BY <1>16 DEF TimerFires
<1>17. CASE MonitorCycle
  BY <1>17 DEF MonitorCycle
<1>18. CASE WsBegin
  BY <1>18 DEF WsBegin, WsUnchanged
<1>19. CASE WsRead
  BY <1>19 DEF WsRead, WsUnchanged
<1>20. CASE WsSetup
  BY <1>20 DEF WsSetup, WsUnchanged, SetupRetry
<1>21. CASE WsOpen
  BY <1>21 DEF WsOpen, WsUnchanged, SetupRetry
<1>22. CASE WsLeave
  BY <1>22 DEF WsLeave, WsUnchanged
<1>23. CASE WsLock
  BY <1>23 DEF WsLock, WsUnchanged
<1>24. CASE WsDestroy
  BY <1>24 DEF WsDestroy, WsUnchanged
<1>25. CASE WsExit
  BY <1>25 DEF WsExit, WsUnchanged
<1>26. CASE Connect
  BY <1>26 DEF Connect, ClientUnchanged
<1>27. CASE Disconnect
  BY <1>27 DEF Disconnect, ClientUnchanged
<1>28. CASE HandlerClears
  BY <1>28 DEF HandlerClears, ClientUnchanged
<1>29. CASE HandlerRefuses
  BY <1>29 DEF HandlerRefuses, ClientUnchanged
<1>30. CASE HandlerStops
  BY <1>30 DEF HandlerStops, ClientUnchanged
<1>31. CASE HandlerNotifies
  BY <1>31 DEF HandlerNotifies, ClientUnchanged
<1>32. CASE HttpSend
  BY <1>32 DEF HttpSend, ProcessorUnchanged
<1>33. CASE HttpAnswered
  BY <1>33 DEF HttpAnswered, ProcessorUnchanged
<1>34. CASE HttpRefused
  BY <1>34 DEF HttpRefused, ProcessorUnchanged
<1>35. CASE HttpNotifies
  BY <1>35 DEF HttpNotifies, ProcessorUnchanged
<1>36. CASE SendJson
  BY <1>36 DEF SendJson, ProcessorUnchanged
<1>37. CASE JsonSent
  BY <1>37 DEF JsonSent, ProcessorUnchanged
<1>38. CASE WifiFlips
  BY <1>38 DEF WifiFlips, EnvUnchanged
<1>39. CASE Revoke
  BY <1>39 DEF Revoke, EnvUnchanged
<1>40. CASE ConfigMode
  BY <1>40 DEF ConfigMode, EnvUnchanged
<1>41. CASE ConfigStops
  BY <1>41 DEF ConfigStops, EnvUnchanged
<1>42. CASE UNCHANGED vars
  BY <1>42 DEF vars
<1> QED
  BY <1>1, <1>2, <1>3, <1>4, <1>5, <1>6, <1>7, <1>8, <1>9, <1>10, <1>11, <1>12,
     <1>13, <1>14, <1>15, <1>16, <1>17, <1>18, <1>19, <1>20, <1>21, <1>22, <1>23,
     <1>24, <1>25, <1>26, <1>27, <1>28, <1>29, <1>30, <1>31, <1>32, <1>33, <1>34,
     <1>35, <1>36, <1>37, <1>38, <1>39, <1>40, <1>41, <1>42
     DEF Next, Login, Monitor, WsTask, Handler, Processor, HttpReturns, Environment, Start, Starters

\* The other variables keep their types, and no one reads a torn token over REST.
LEMMA TypedStep ==
  ASSUME Typed, [Next]_vars
  PROVE  Typed'
<1> USE DEF serverVars, flagVars, loginVars, wsVars, httpVars, Typed, ValuesOK, TornInCopy,
     Goto, GiveUp, Starters, After
<1>1. ASSUME NEW t \in Starters, StartCheck(t)
     PROVE  Typed'
  BY <1>1, TokenAssumption, BoundAssumption DEF StartCheck, StarterUnchanged
<1>2. ASSUME NEW t \in Starters, StartGivesUp(t)
     PROVE  Typed'
  BY <1>2, TokenAssumption, BoundAssumption DEF StartGivesUp, StarterUnchanged
<1>3. ASSUME NEW t \in Starters, CreateTask(t)
     PROVE  Typed'
  BY <1>3, TokenAssumption, BoundAssumption DEF CreateTask, StarterUnchanged
<1>4. ASSUME NEW t \in Starters, CreateFails(t)
     PROVE  Typed'
  BY <1>4, TokenAssumption, BoundAssumption DEF CreateFails, StarterUnchanged
<1>5. ASSUME NEW t \in Starters, Created(t)
     PROVE  Typed'
  BY <1>5, TokenAssumption, BoundAssumption DEF Created, StarterUnchanged
<1>6. CASE LoginCheck
  BY <1>6, TokenAssumption, BoundAssumption DEF LoginCheck, LoginUnchanged
<1>7. CASE LoginFails
  BY <1>7, TokenAssumption, BoundAssumption DEF LoginFails, LoginUnchanged
<1>8. CASE LoginSucceeds
  BY <1>8, TokenAssumption, BoundAssumption DEF LoginSucceeds, LoginUnchanged
<1>9. CASE LoginStores
  BY <1>9, FreshToken, TokenAssumption DEF LoginStores
<1>10. CASE LoginConfirms
  BY <1>10, TokenAssumption, BoundAssumption DEF LoginConfirms, LoginUnchanged
<1>11. CASE LoginAsks
  BY <1>11, TokenAssumption, BoundAssumption DEF LoginAsks, LoginUnchanged
<1>12. CASE LoginTells
  BY <1>12, TokenAssumption, BoundAssumption DEF LoginTells, LoginUnchanged
<1>13. CASE LoginDrained
  BY <1>13, TokenAssumption, BoundAssumption DEF LoginDrained, LoginUnchanged
<1>14. CASE LoginSchedules
  BY <1>14, TokenAssumption, BoundAssumption DEF LoginSchedules, LoginUnchanged
<1>15. CASE LoginWakes
  BY <1>15, TokenAssumption, BoundAssumption DEF LoginWakes, LoginUnchanged
<1>16. CASE TimerFires
  BY <1>16, TokenAssumption, BoundAssumption DEF TimerFires
<1>17. CASE MonitorCycle
  BY <1>17, TokenAssumption, BoundAssumption DEF MonitorCycle
<1>18. CASE WsBegin
  BY <1>18, TokenAssumption, BoundAssumption DEF WsBegin, WsUnchanged
<1>19. CASE WsRead
  BY <1>19, TokenAssumption, BoundAssumption DEF WsRead, WsUnchanged
<1>20. CASE WsSetup
  BY <1>20, TokenAssumption, BoundAssumption DEF WsSetup, WsUnchanged, SetupRetry
<1>21. CASE WsOpen
  BY <1>21, TokenAssumption, BoundAssumption DEF WsOpen, WsUnchanged, SetupRetry
<1>22. CASE WsLeave
  BY <1>22, TokenAssumption, BoundAssumption DEF WsLeave, WsUnchanged
<1>23. CASE WsLock
  BY <1>23, TokenAssumption, BoundAssumption DEF WsLock, WsUnchanged
<1>24. CASE WsDestroy
  BY <1>24, TokenAssumption, BoundAssumption DEF WsDestroy, WsUnchanged
<1>25. CASE WsExit
  BY <1>25, TokenAssumption, BoundAssumption DEF WsExit, WsUnchanged
<1>26. CASE Connect
  BY <1>26, TokenAssumption, BoundAssumption DEF Connect, ClientUnchanged
<1>27. CASE Disconnect
  BY <1>27, TokenAssumption, BoundAssumption DEF Disconnect, ClientUnchanged
<1>28. CASE HandlerClears
  BY <1>28, TokenAssumption, BoundAssumption DEF HandlerClears, ClientUnchanged
<1>29. CASE HandlerRefuses
  BY <1>29, TokenAssumption, BoundAssumption DEF HandlerRefuses, ClientUnchanged
<1>30. CASE HandlerStops
  BY <1>30, TokenAssumption, BoundAssumption DEF HandlerStops, ClientUnchanged
<1>31. CASE HandlerNotifies
  BY <1>31, TokenAssumption, BoundAssumption DEF HandlerNotifies, ClientUnchanged
<1>32. CASE HttpSend
  BY <1>32, TokenAssumption, BoundAssumption DEF HttpSend, ProcessorUnchanged
<1>33. CASE HttpAnswered
  BY <1>33, TokenAssumption, BoundAssumption DEF HttpAnswered, ProcessorUnchanged
<1>34. CASE HttpRefused
  BY <1>34, TokenAssumption, BoundAssumption DEF HttpRefused, ProcessorUnchanged
<1>35. CASE HttpNotifies
  BY <1>35, TokenAssumption, BoundAssumption DEF HttpNotifies, ProcessorUnchanged
<1>36. CASE SendJson
  BY <1>36, TokenAssumption, BoundAssumption DEF SendJson, ProcessorUnchanged
<1>37. CASE JsonSent
  BY <1>37, TokenAssumption, BoundAssumption DEF JsonSent, ProcessorUnchanged
<1>38. CASE WifiFlips
  BY <1>38, TokenAssumption, BoundAssumption DEF WifiFlips, EnvUnchanged
<1>39. CASE Revoke
  BY <1>39, TokenAssumption, BoundAssumption DEF Revoke, EnvUnchanged
<1>40. CASE ConfigMode
  BY <1>40, TokenAssumption, BoundAssumption DEF ConfigMode, EnvUnchanged
<1>41. CASE ConfigStops
  BY <1>41, TokenAssumption, BoundAssumption DEF ConfigStops, EnvUnchanged
<1>42. CASE UNCHANGED vars
  BY <1>42 DEF vars
<1> QED
  BY <1>1, <1>2, <1>3, <1>4, <1>5, <1>6, <1>7, <1>8, <1>9, <1>10, <1>11, <1>12,
     <1>13, <1>14, <1>15, <1>16, <1>17, <1>18, <1>19, <1>20, <1>21, <1>22, <1>23,
     <1>24, <1>25, <1>26, <1>27, <1>28, <1>29, <1>30, <1>31, <1>32, <1>33, <1>34,
     <1>35, <1>36, <1>37, <1>38, <1>39, <1>40, <1>41, <1>42
     DEF Next, Login, Monitor, WsTask, Handler, Processor, HttpReturns, Environment, Start, Starters

-----------------------------------------------------------------------------
(* The mutex, the client and the requests.                                  *)

LEMMA TaskStep ==
  ASSUME Typed, TaskInv, [Next]_vars
  PROVE  TaskInv'
<1> USE DEF serverVars, flagVars, loginVars, wsVars, httpVars, Typed, ValuesOK, TaskInv,
     MutexOwned, ClientOfTask, NewTaskIsQuiet, RequestPending, ClientInUseIsAlive,
     SeemsRunning, Goto, GiveUp, Starters, After
<1>1. ASSUME NEW t \in Starters, StartCheck(t)
     PROVE  TaskInv'
  BY <1>1 DEF StartCheck, StarterUnchanged
<1>2. ASSUME NEW t \in Starters, StartGivesUp(t)
     PROVE  TaskInv'
  BY <1>2 DEF StartGivesUp, StarterUnchanged
<1>3. ASSUME NEW t \in Starters, CreateTask(t)
     PROVE  TaskInv'
  BY <1>3 DEF CreateTask, StarterUnchanged
<1>4. ASSUME NEW t \in Starters, CreateFails(t)
     PROVE  TaskInv'
  BY <1>4 DEF CreateFails, StarterUnchanged
<1>5. ASSUME NEW t \in Starters, Created(t)
     PROVE  TaskInv'
  BY <1>5 DEF Created, StarterUnchanged
<1>6. CASE LoginCheck
  BY <1>6 DEF LoginCheck, LoginUnchanged
<1>7. CASE LoginFails
  BY <1>7 DEF LoginFails, LoginUnchanged
<1>8. CASE LoginSucceeds
  BY <1>8 DEF LoginSucceeds, LoginUnchanged
<1>9. CASE LoginStores
  BY <1>9 DEF LoginStores
<1>10. CASE LoginConfirms
  BY <1>10 DEF LoginConfirms, LoginUnchanged
<1>11. CASE LoginAsks
  BY <1>11 DEF LoginAsks, LoginUnchanged
<1>12. CASE LoginTells
  BY <1>12 DEF LoginTells, LoginUnchanged
<1>13. CASE LoginDrained
  BY <1>13 DEF LoginDrained, LoginUnchanged
<1>14. CASE LoginSchedules
  BY <1>14 DEF LoginSchedules, LoginUnchanged
<1>15. CASE LoginWakes
  BY <1>15 DEF LoginWakes, LoginUnchanged
<1>16. CASE TimerFires
  BY <1>16 DEF TimerFires
<1>17. CASE MonitorCycle
  BY <1>17 DEF MonitorCycle
<1>18. CASE WsBegin
  BY <1>18 DEF WsBegin, WsUnchanged
<1>19. CASE WsRead
  BY <1>19 DEF WsRead, WsUnchanged
<1>20. CASE WsSetup
  BY <1>20 DEF WsSetup, WsUnchanged, SetupRetry
<1>21. CASE WsOpen
  BY <1>21 DEF WsOpen, WsUnchanged, SetupRetry
<1>22. CASE WsLeave
  BY <1>22 DEF WsLeave, WsUnchanged
<1>23. CASE WsLock
  BY <1>23 DEF WsLock, WsUnchanged
<1>24. CASE WsDestroy
  BY <1>24 DEF WsDestroy, WsUnchanged
<1>25. CASE WsExit
  BY <1>25 DEF WsExit, WsUnchanged
<1>26. CASE Connect
  BY <1>26 DEF Connect, ClientUnchanged
<1>27. CASE Disconnect
  BY <1>27 DEF Disconnect, ClientUnchanged
<1>28. CASE HandlerClears
  BY <1>28 DEF HandlerClears, ClientUnchanged
<1>29. CASE HandlerRefuses
  BY <1>29 DEF HandlerRefuses, ClientUnchanged
<1>30. CASE HandlerStops
  BY <1>30 DEF HandlerStops, ClientUnchanged
<1>31. CASE HandlerNotifies
  BY <1>31 DEF HandlerNotifies, ClientUnchanged
<1>32. CASE HttpSend
  BY <1>32 DEF HttpSend, ProcessorUnchanged
<1>33. CASE HttpAnswered
  BY <1>33 DEF HttpAnswered, ProcessorUnchanged
<1>34. CASE HttpRefused
  BY <1>34 DEF HttpRefused, ProcessorUnchanged
<1>35. CASE HttpNotifies
  BY <1>35 DEF HttpNotifies, ProcessorUnchanged
<1>36. CASE SendJson
  BY <1>36 DEF SendJson, ProcessorUnchanged
<1>37. CASE JsonSent
  BY <1>37 DEF JsonSent, ProcessorUnchanged
<1>38. CASE WifiFlips
  BY <1>38 DEF WifiFlips, EnvUnchanged
<1>39. CASE Revoke
  BY <1>39 DEF Revoke, EnvUnchanged
<1>40. CASE ConfigMode
  BY <1>40 DEF ConfigMode, EnvUnchanged
<1>41. CASE ConfigStops
  BY <1>41 DEF ConfigStops, EnvUnchanged
<1>42. CASE UNCHANGED vars
  BY <1>42 DEF vars
<1> QED
  BY <1>1, <1>2, <1>3, <1>4, <1>5, <1>6, <1>7, <1>8, <1>9, <1>10, <1>11, <1>12,
     <1>13, <1>14, <1>15, <1>16, <1>17, <1>18, <1>19, <1>20, <1>21, <1>22, <1>23,
     <1>24, <1>25, <1>26, <1>27, <1>28, <1>29, <1>30, <1>31, <1>32, <1>33, <1>34,
     <1>35, <1>36, <1>37, <1>38, <1>39, <1>40, <1>41, <1>42
     DEF Next, Login, Monitor, WsTask, Handler, Processor, HttpReturns, Environment, Start, Starters

-----------------------------------------------------------------------------
(* The token.                                                               *)

LEMMA AgreementStep ==
  ASSUME Typed, AgreementInv, [Next]_vars
  PROVE  AgreementInv'
<1> USE DEF serverVars, flagVars, loginVars, wsVars, httpVars, Typed, ValuesOK, TornInCopy,
     AgreementInv, TokenOnRecord, TaskHasToken, NotifyPending, Settled, Committed,
     SeemsRunning, Goto, GiveUp, Starters, After
<1>1. ASSUME NEW t \in Starters, StartCheck(t)
     PROVE  AgreementInv'
  BY <1>1, TokenAssumption DEF StartCheck, StarterUnchanged
<1>2. ASSUME NEW t \in Starters, StartGivesUp(t)
     PROVE  AgreementInv'
  BY <1>2, TokenAssumption DEF StartGivesUp, StarterUnchanged
<1>3. ASSUME NEW t \in Starters, CreateTask(t)
     PROVE  AgreementInv'
  BY <1>3, TokenAssumption DEF CreateTask, StarterUnchanged
<1>4. ASSUME NEW t \in Starters, CreateFails(t)
     PROVE  AgreementInv'
  BY <1>4, TokenAssumption DEF CreateFails, StarterUnchanged
<1>5. ASSUME NEW t \in Starters, Created(t)
     PROVE  AgreementInv'
  BY <1>5, TokenAssumption DEF Created, StarterUnchanged
<1>6. CASE LoginCheck
  BY <1>6, TokenAssumption DEF LoginCheck, LoginUnchanged
<1>7. CASE LoginFails
  BY <1>7, TokenAssumption DEF LoginFails, LoginUnchanged
<1>8. CASE LoginSucceeds
  BY <1>8, TokenAssumption DEF LoginSucceeds, LoginUnchanged
<1>9. CASE LoginStores
  BY <1>9, FreshToken, TokenAssumption DEF LoginStores
<1>10. CASE LoginConfirms
  BY <1>10, TokenAssumption DEF LoginConfirms, LoginUnchanged
<1>11. CASE LoginAsks
  BY <1>11, TokenAssumption DEF LoginAsks, LoginUnchanged
<1>12. CASE LoginTells
  BY <1>12, TokenAssumption DEF LoginTells, LoginUnchanged
<1>13. CASE LoginDrained
  BY <1>13, TokenAssumption DEF LoginDrained, LoginUnchanged
<1>14. CASE LoginSchedules
  BY <1>14, TokenAssumption DEF LoginSchedules, LoginUnchanged
<1>15. CASE LoginWakes
  BY <1>15, TokenAssumption DEF LoginWakes, LoginUnchanged
<1>16. CASE TimerFires
  BY <1>16, TokenAssumption DEF TimerFires
<1>17. CASE MonitorCycle
  BY <1>17, TokenAssumption DEF MonitorCycle
<1>18. CASE WsBegin
  BY <1>18, TokenAssumption DEF WsBegin, WsUnchanged
<1>19. CASE WsRead
  BY <1>19, TokenAssumption DEF WsRead, WsUnchanged
<1>20. CASE WsSetup
  BY <1>20, TokenAssumption DEF WsSetup, WsUnchanged, SetupRetry
<1>21. CASE WsOpen
  BY <1>21, TokenAssumption DEF WsOpen, WsUnchanged, SetupRetry
<1>22. CASE WsLeave
  BY <1>22, TokenAssumption DEF WsLeave, WsUnchanged
<1>23. CASE WsLock
  BY <1>23, TokenAssumption DEF WsLock, WsUnchanged
<1>24. CASE WsDestroy
  BY <1>24, TokenAssumption DEF WsDestroy, WsUnchanged
<1>25. CASE WsExit
  BY <1>25, TokenAssumption DEF WsExit, WsUnchanged
<1>26. CASE Connect
  BY <1>26, TokenAssumption DEF Connect, ClientUnchanged
<1>27. CASE Disconnect
  BY <1>27, TokenAssumption DEF Disconnect, ClientUnchanged
<1>28. CASE HandlerClears
  BY <1>28, TokenAssumption DEF HandlerClears, ClientUnchanged
<1>29. CASE HandlerRefuses
  BY <1>29, TokenAssumption DEF HandlerRefuses, ClientUnchanged
<1>30. CASE HandlerStops
  BY <1>30, TokenAssumption DEF HandlerStops, ClientUnchanged
<1>31. CASE HandlerNotifies
  BY <1>31, TokenAssumption DEF HandlerNotifies, ClientUnchanged
<1>32. CASE HttpSend
  BY <1>32, TokenAssumption DEF HttpSend, ProcessorUnchanged
<1>33. CASE HttpAnswered
  BY <1>33, TokenAssumption DEF HttpAnswered, ProcessorUnchanged
<1>34. CASE HttpRefused
  BY <1>34, TokenAssumption DEF HttpRefused, ProcessorUnchanged
<1>35. CASE HttpNotifies
  BY <1>35, TokenAssumption DEF HttpNotifies, ProcessorUnchanged
<1>36. CASE SendJson
  BY <1>36, TokenAssumption DEF SendJson, ProcessorUnchanged
<1>37. CASE JsonSent
  BY <1>37, TokenAssumption DEF JsonSent, ProcessorUnchanged
<1>38. CASE WifiFlips
  BY <1>38, TokenAssumption DEF WifiFlips, EnvUnchanged
<1>39. CASE Revoke
  BY <1>39, TokenAssumption DEF Revoke, EnvUnchanged
<1>40. CASE ConfigMode
  BY <1>40, TokenAssumption DEF ConfigMode, EnvUnchanged
<1>41. CASE ConfigStops
  BY <1>41, TokenAssumption DEF ConfigStops, EnvUnchanged
<1>42. CASE UNCHANGED vars
  BY <1>42 DEF vars
<1> QED
  BY <1>1, <1>2, <1>3, <1>4, <1>5, <1>6, <1>7, <1>8, <1>9, <1>10, <1>11, <1>12,
     <1>13, <1>14, <1>15, <1>16, <1>17, <1>18, <1>19, <1>20, <1>21, <1>22, <1>23,
     <1>24, <1>25, <1>26, <1>27, <1>28, <1>29, <1>30, <1>31, <1>32, <1>33, <1>34,
     <1>35, <1>36, <1>37, <1>38, <1>39, <1>40, <1>41, <1>42
     DEF Next, Login, Monitor, WsTask, Handler, Processor, HttpReturns, Environment, Start, Starters

-----------------------------------------------------------------------------
(* Theorems.                                                                *)

LoginInv == FlagsOK /\ Typed /\ TaskInv /\ AgreementInv

LEMMA LoginInit == Init => LoginInv
<1> SUFFICES ASSUME Init PROVE LoginInv
  OBVIOUS
<1>1. FlagsOK
  BY DEF Init, FlagsOK
<1>2. Typed
  BY TokenAssumption, BoundAssumption DEF Init, Typed, ValuesOK, TornInCopy, Starters
<1>3. TaskInv
  BY DEF Init, TaskInv, MutexOwned, ClientOfTask, NewTaskIsQuiet, RequestPending,
         ClientInUseIsAlive, Starters
<1>4. AgreementInv
  BY TokenAssumption DEF Init, AgreementInv, TokenOnRecord, TaskHasToken, Settled
<1> QED BY <1>1, <1>2, <1>3, <1>4 DEF LoginInv

\* Together these are inductive: the token in use agrees with the record only by
\* what each task knows of it at its own point.
THEOREM LoginIsInvariant == Spec => []LoginInv
<1>1. LoginInv /\ [Next]_vars => LoginInv'
  BY FlagsStep, TypedStep, TaskStep, AgreementStep DEF LoginInv
<1> QED BY LoginInit, <1>1, PTL DEF Spec

\* Types of every variable: token_global and its copies, the flags, the mutex and
\* the control points of the five tasks.
THEOREM TypeCorrect == Spec => []TypeOK
<1>1. FlagsOK /\ Typed => TypeOK
  BY DEF FlagsOK, Typed, ValuesOK, TypeOK
<1>2. LoginInv => TypeOK
  BY <1>1 DEF LoginInv
<1> QED BY LoginIsInvariant, <1>2, PTL

\* login_task never sleeps on a token that was cleared or refused, and no task of
\* the WebSocket goes on with another one than that on record (main.c:692-757,
\* 1074-1097).
THEOREM TokenIsAgreed == Spec => []TokenAgreed
<1>1. AgreementInv => SleepsLoggedIn /\ ClientHasToken
  BY DEF AgreementInv, TokenOnRecord, TaskHasToken, SleepsLoggedIn, ClientHasToken, Settled
<1>2. LoginInv => SleepsLoggedIn /\ ClientHasToken
  BY <1>1 DEF LoginInv
<1> QED BY LoginIsInvariant, TypeCorrect, <1>2, PTL DEF TokenAgreed

\* A request to recreate the task is never withdrawn for a task that made one of
\* its own (websocket_task_start_if_needed).
THEOREM RequestIsKept == Spec => []RequestPending
<1>1. LoginInv => RequestPending
  BY DEF LoginInv, TaskInv
<1> QED BY LoginIsInvariant, <1>1, PTL

\* No client is destroyed under ws_send_json.
THEOREM ClientStaysAlive == Spec => []ClientInUseIsAlive
<1>1. LoginInv => ClientInUseIsAlive
  BY DEF LoginInv, TaskInv
<1> QED BY LoginIsInvariant, <1>1, PTL
=============================================================================
