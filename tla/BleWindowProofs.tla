------------------------- MODULE BleWindowProofs -------------------------
(* What holds of BleWindow for any number of "ble_stop" tasks at the same   *)
(* time and of commands received.                                           *)
EXTENDS BleWindow, FiniteSetTheorems, TLAPS

\* The flags, apart from the rest: which of its two values a flag has matters to no
\* step of its type.
Flag(x) == x \in BOOLEAN
FlagsOK ==
  /\ Flag(windowOpen) /\ Flag(stackStarted) /\ Flag(stackStopping)
  /\ Flag(active) /\ Flag(timer) /\ Flag(configMode)
  /\ Flag(startupWindow) /\ Flag(advertising) /\ Flag(link)
  /\ Flag(advTask) /\ Flag(bootTask) /\ Flag(configured)
  /\ Flag(wifiOn) /\ Flag(lost)

Typed ==
  /\ nimble \in {"down", "started", "synced", "halted", "stale"}
  /\ event \in {"none", "connect", "failed", "disconnect"}
  /\ stops \in [Stoppers -> {"none", "created", "drain", "halt", "deinit"}]
  /\ opener \in {"none", "main", "ws"}
  /\ cfgTask \in {"none", "created", "websocket"}
  /\ boot \in {"load", "opening", "waiting", "lora", "window", "spawn",
               "closing", "tasks", "done"}
  /\ wifiTask \in {"none", "loop", "allowed"}
  /\ received \in 0 .. MaxCommands
  /\ queued \in 0 .. received

\* Wi-Fi does not run before app_main has created wifi_task.
WifiLater ==
  /\ boot # "done" => wifiTask = "none" /\ ~wifiOn /\ queued = 0
  /\ BootWindowFirst

\* The stack is marked started while there is one, and while it starts only the
\* caller that starts it is inside; without the mark no mode is left on.
StackMarked ==
  /\ nimble \in {"started", "synced", "halted"} => stackStarted
  /\ opener # "none" => ~stackStarted
  /\ boot = "load" => opener = "none" /\ ~stackStarted
  /\ boot \in {"opening", "window"} => opener = "main"
  /\ ~stackStarted => ~configMode

\* What a phone does goes through a host that is in sync, and the host hears of
\* one thing at a time.
HostHears ==
  /\ nimble # "synced" => ~advertising /\ ~link /\ event = "none" /\ ~active
  /\ active => event = "disconnect" \/ (link /\ event = "none")
  /\ link => ~advertising
  /\ event = "connect" => link
  /\ event \in {"failed", "disconnect"} => ~link

\* One task at a time takes the stack down, and it finds it where it left it.
TakingDown(s) == stops[s] \in {"halt", "deinit"}
OneTakesDown ==
  /\ \A s \in Stoppers : TakingDown(s) => stackStopping
  /\ stackStopping => stackStarted /\ \E s \in Stoppers : TakingDown(s)
  /\ \A s, u \in Stoppers : TakingDown(s) /\ TakingDown(u) => s = u
  /\ \A s \in Stoppers : stops[s] = "deinit" => nimble = "halted"
  /\ boot \notin {"closing", "done"} => stops["main"] = "none"

\* Whatever comes of a window that was closed comes while somebody is closing it.
LateGuest ==
  ~windowOpen /\ (advertising \/ link \/ event # "none") => Stopping

WindowInv ==
  /\ FlagsOK /\ Typed /\ WifiLater
  /\ StackMarked /\ HostHears /\ OneTakesDown
  /\ LateGuest /\ ClientHasConfigMode /\ ConfigModeHasOwner

-----------------------------------------------------------------------------
(* The steps.                                                               *)

LEMMA FlagValues == Flag(TRUE) /\ Flag(FALSE)
BY DEF Flag

LEMMA CallFlags ==
  ASSUME FlagsOK, NEW who, StartRefused \/ StartCall(who)
  PROVE  /\ Flag(windowOpen') /\ Flag(timer') /\ Flag(advertising')
         /\ UNCHANGED <<stackStarted, stackStopping, active, link>>
<1>1. CASE StartRefused
  BY <1>1 DEF StartRefused, flags, radio, FlagsOK
<1>2. CASE StartCall(who)
  <2>1. Advertise => Flag(advertising')
    BY FlagValues DEF Advertise
  <2> QED BY <1>2, <2>1, FlagValues, Zenon DEF StartCall, FlagsOK
<1> QED BY <1>1, <1>2

LEMMA StackFlags ==
  ASSUME FlagsOK, StackStarts \/ StackFails
  PROVE  Flag(windowOpen') /\ Flag(stackStarted') /\ Flag(timer')
BY FlagValues, Zenon DEF StackStarts, StackFails, FlagsOK

LEMMA FlagsStep ==
  ASSUME FlagsOK, [Next]_vars
  PROVE  FlagsOK'
<1> USE FlagValues DEF flags, modes, radio, tasks, wifis, boots, FlagsOK
<1>1. CASE BootLoads
  BY <1>1 DEF BootLoads, BootUnchanged
<1>2. CASE BootOpens
  BY <1>2, CallFlags, Zenon DEF BootOpens, FlagsOK, BootUnchanged
<1>3. CASE BootOpened
  BY <1>3, StackFlags, Zenon DEF BootOpened, FlagsOK, StartReturns
<1>4. CASE BootConfigured
  BY <1>4 DEF BootConfigured, BootUnchanged
<1>5. CASE BootWindow
  BY <1>5, CallFlags, Zenon DEF BootWindow, FlagsOK
<1>6. CASE BootWindowOpened
  BY <1>6, StackFlags, Zenon DEF BootWindowOpened, FlagsOK
<1>7. CASE BootSpawns
  <2>1. /\ startupWindow' = startupWindow \/ startupWindow' = FALSE
        /\ bootTask' = bootTask \/ bootTask' = TRUE
        /\ UNCHANGED <<windowOpen, stackStarted, stackStopping, active, timer, configMode,
                        advertising, link, configured, lost, advTask, wifiOn>>
    BY <1>7 DEF BootSpawns
  <2>2. Flag(startupWindow') /\ Flag(bootTask')
    BY <2>1 DEF FlagsOK
  <2> QED BY <2>1, <2>2, Zenon DEF FlagsOK
<1>8. CASE BootClosed
  BY <1>8 DEF BootClosed, BootUnchanged
<1>9. CASE BootTasks
  BY <1>9 DEF BootTasks
<1>10. CASE HostSync
  BY <1>10 DEF HostSync
<1>11. CASE HostConnect
  BY <1>11 DEF HostConnect
<1>12. CASE HostFailed
  <2>1. /\ active' = FALSE /\ (advTask' = advTask \/ advTask' = TRUE)
        /\ UNCHANGED <<windowOpen, stackStarted, stackStopping, timer, configMode,
                        advertising, link, configured, lost, startupWindow, bootTask, wifiOn>>
    BY <1>12 DEF HostFailed
  <2> QED BY <2>1, Zenon DEF FlagsOK
<1>13. CASE HostDisconnect
  BY <1>13 DEF HostDisconnect, StopAsync
<1>14. CASE PhoneConnects
  BY <1>14 DEF PhoneConnects
<1>15. CASE PhoneLeaves
  BY <1>15 DEF PhoneLeaves
<1>16. CASE PhoneConfigures
  BY <1>16 DEF PhoneConfigures
<1>17. CASE AdvertiseTask
  BY <1>17 DEF AdvertiseTask, Advertise
<1>18. CASE Timeout
  BY <1>18 DEF Timeout, StopAsync
<1>19. ASSUME NEW s \in Stoppers, StopNothing(s)
     PROVE  FlagsOK'
  BY <1>19 DEF StopNothing
<1>20. ASSUME NEW s \in Stoppers, StopCloses(s)
     PROVE  FlagsOK'
  BY <1>20 DEF StopCloses
<1>21. ASSUME NEW s \in Stoppers, StopAdvertising(s)
     PROVE  FlagsOK'
  BY <1>21 DEF StopAdvertising, StopReturns
<1>22. ASSUME NEW s \in Stoppers, StopHalts(s)
     PROVE  FlagsOK'
  BY <1>22 DEF StopHalts
<1>23. ASSUME NEW s \in Stoppers, StopEnds(s)
     PROVE  FlagsOK'
  BY <1>23 DEF StopEnds, StopReturns
<1>24. CASE BootTaskEnds
  BY <1>24 DEF BootTaskEnds
<1>25. CASE ConfigTaskBegins
  BY <1>25 DEF ConfigTaskBegins
<1>26. CASE ConfigTaskEnds
  BY <1>26 DEF ConfigTaskEnds
<1>27. CASE WifiAllowed
  BY <1>27 DEF WifiAllowed
<1>28. CASE WifiStarts
  BY <1>28 DEF WifiStarts
<1>29. CASE WifiStops
  <2>1. /\ wifiOn' = FALSE
        /\ UNCHANGED <<windowOpen, stackStarted, stackStopping, active, timer, configMode,
                        advertising, link, configured, lost, startupWindow, advTask, bootTask>>
    BY <1>29 DEF WifiStops
  <2> QED BY <2>1, Zenon DEF FlagsOK
<1>30. CASE ReceiveBtOn
  BY <1>30 DEF ReceiveBtOn
<1>31. CASE HandleBtOn
  BY <1>31, CallFlags, Zenon DEF HandleBtOn, FlagsOK
<1>32. CASE BtOnOpened
  BY <1>32, StackFlags, Zenon DEF BtOnOpened, FlagsOK, StartReturns
<1>33. CASE UNCHANGED vars
  BY <1>33 DEF vars
<1>34. CASE MonitorStops
  BY <1>34 DEF MonitorStops
<1> QED
  BY <1>1, <1>2, <1>3, <1>4, <1>5, <1>6, <1>7, <1>8, <1>9, <1>10, <1>11, <1>12,
     <1>13, <1>14, <1>15, <1>16, <1>17, <1>18, <1>19, <1>20, <1>21, <1>22, <1>23,
     <1>24, <1>25, <1>26, <1>27, <1>28, <1>29, <1>30, <1>31, <1>32, <1>33, <1>34
     DEF Next, AppMain, Host, Wifi, Stop

LEMMA TypedStep ==
  ASSUME Typed, [Next]_vars
  PROVE  Typed'
<1> USE DEF flags, modes, radio, tasks, wifis, boots, Typed
<1>1. CASE BootLoads
  BY <1>1, BleWindowAssumption DEF BootLoads, BootUnchanged, Stoppers
<1>2. CASE BootOpens
  BY <1>2, BleWindowAssumption DEF BootOpens, BootUnchanged, StartCall, StartRefused,
     Advertise, Stoppers
<1>3. CASE BootOpened
  BY <1>3, BleWindowAssumption DEF BootOpened, StackStarts, StackFails, StartReturns,
     Stoppers
<1>4. CASE BootConfigured
  BY <1>4, BleWindowAssumption DEF BootConfigured, BootUnchanged, Stoppers
<1>5. CASE BootWindow
  BY <1>5, BleWindowAssumption DEF BootWindow, StartCall, StartRefused, Advertise,
     Stoppers
<1>6. CASE BootWindowOpened
  BY <1>6, BleWindowAssumption DEF BootWindowOpened, StackStarts, StackFails, Stoppers
<1>7. CASE BootSpawns
  BY <1>7, BleWindowAssumption DEF BootSpawns, Stoppers
<1>8. CASE BootClosed
  BY <1>8, BleWindowAssumption DEF BootClosed, BootUnchanged, Stoppers
<1>9. CASE BootTasks
  BY <1>9, BleWindowAssumption DEF BootTasks, Stoppers
<1>10. CASE HostSync
  BY <1>10, BleWindowAssumption DEF HostSync, Stoppers
<1>11. CASE HostConnect
  BY <1>11, BleWindowAssumption DEF HostConnect, Stoppers
<1>12. CASE HostFailed
  BY <1>12, BleWindowAssumption DEF HostFailed, Stoppers
<1>13. CASE HostDisconnect
  BY <1>13, BleWindowAssumption DEF HostDisconnect, StopAsync, Stoppers
<1>14. CASE PhoneConnects
  BY <1>14, BleWindowAssumption DEF PhoneConnects, Stoppers
<1>15. CASE PhoneLeaves
  BY <1>15, BleWindowAssumption DEF PhoneLeaves, Stoppers
<1>16. CASE PhoneConfigures
  BY <1>16, BleWindowAssumption DEF PhoneConfigures, Stoppers
<1>17. CASE AdvertiseTask
  BY <1>17, BleWindowAssumption DEF AdvertiseTask, Advertise, Stoppers
<1>18. CASE Timeout
  BY <1>18, BleWindowAssumption DEF Timeout, StopAsync, Stoppers
<1>19. ASSUME NEW s \in Stoppers, StopNothing(s)
     PROVE  Typed'
  BY <1>19, BleWindowAssumption DEF StopNothing, Stoppers
<1>20. ASSUME NEW s \in Stoppers, StopCloses(s)
     PROVE  Typed'
  BY <1>20, BleWindowAssumption DEF StopCloses, Stoppers
<1>21. ASSUME NEW s \in Stoppers, StopAdvertising(s)
     PROVE  Typed'
  BY <1>21, BleWindowAssumption DEF StopAdvertising, StopReturns, Stoppers
<1>22. ASSUME NEW s \in Stoppers, StopHalts(s)
     PROVE  Typed'
  BY <1>22, BleWindowAssumption DEF StopHalts, Stoppers
<1>23. ASSUME NEW s \in Stoppers, StopEnds(s)
     PROVE  Typed'
  BY <1>23, BleWindowAssumption DEF StopEnds, StopReturns, Stoppers
<1>24. CASE BootTaskEnds
  BY <1>24, BleWindowAssumption DEF BootTaskEnds, Stoppers
<1>25. CASE ConfigTaskBegins
  BY <1>25, BleWindowAssumption DEF ConfigTaskBegins, Stoppers
<1>26. CASE ConfigTaskEnds
  BY <1>26, BleWindowAssumption DEF ConfigTaskEnds, Stoppers
<1>27. CASE WifiAllowed
  BY <1>27, BleWindowAssumption DEF WifiAllowed, Stoppers
<1>28. CASE WifiStarts
  BY <1>28, BleWindowAssumption DEF WifiStarts, Stoppers
<1>29. CASE WifiStops
  BY <1>29, BleWindowAssumption DEF WifiStops, Stoppers
<1>30. CASE ReceiveBtOn
  BY <1>30, BleWindowAssumption DEF ReceiveBtOn, Stoppers
<1>31. CASE HandleBtOn
  BY <1>31, BleWindowAssumption DEF HandleBtOn, StartCall, StartRefused, Advertise,
     Stoppers
<1>32. CASE BtOnOpened
  BY <1>32, BleWindowAssumption DEF BtOnOpened, StackStarts, StackFails, StartReturns,
     Stoppers
<1>33. CASE UNCHANGED vars
  BY <1>33 DEF vars
<1>34. CASE MonitorStops
  BY <1>34, BleWindowAssumption DEF MonitorStops, Stoppers
<1> QED
  BY <1>1, <1>2, <1>3, <1>4, <1>5, <1>6, <1>7, <1>8, <1>9, <1>10, <1>11, <1>12,
     <1>13, <1>14, <1>15, <1>16, <1>17, <1>18, <1>19, <1>20, <1>21, <1>22, <1>23,
     <1>24, <1>25, <1>26, <1>27, <1>28, <1>29, <1>30, <1>31, <1>32, <1>33, <1>34
     DEF Next, AppMain, Host, Wifi, Stop

LEMMA WifiLaterStep ==
  ASSUME FlagsOK, Typed, WifiLater, [Next]_vars
  PROVE  WifiLater'
<1> USE DEF flags, modes, radio, tasks, wifis, boots, WifiLater, BootWindowFirst,
     Claimed
<1>1. CASE BootLoads
  BY <1>1 DEF BootLoads, BootUnchanged
<1>2. CASE BootOpens
  BY <1>2 DEF BootOpens, BootUnchanged, StartCall, StartRefused, Advertise
<1>3. CASE BootOpened
  BY <1>3 DEF BootOpened, StackStarts, StackFails, StartReturns
<1>4. CASE BootConfigured
  BY <1>4 DEF BootConfigured, BootUnchanged
<1>5. CASE BootWindow
  BY <1>5 DEF BootWindow, StartCall, StartRefused, Advertise
<1>6. CASE BootWindowOpened
  BY <1>6 DEF BootWindowOpened, StackStarts, StackFails
<1>7. CASE BootSpawns
  BY <1>7 DEF BootSpawns
<1>8. CASE BootClosed
  BY <1>8 DEF BootClosed, BootUnchanged
<1>9. CASE BootTasks
  BY <1>9 DEF BootTasks
<1>10. CASE HostSync
  BY <1>10 DEF HostSync
<1>11. CASE HostConnect
  BY <1>11 DEF HostConnect
<1>12. CASE HostFailed
  BY <1>12 DEF HostFailed
<1>13. CASE HostDisconnect
  BY <1>13 DEF HostDisconnect, StopAsync
<1>14. CASE PhoneConnects
  BY <1>14 DEF PhoneConnects
<1>15. CASE PhoneLeaves
  BY <1>15 DEF PhoneLeaves
<1>16. CASE PhoneConfigures
  BY <1>16 DEF PhoneConfigures
<1>17. CASE AdvertiseTask
  BY <1>17 DEF AdvertiseTask, Advertise
<1>18. CASE Timeout
  BY <1>18 DEF Timeout, StopAsync
<1>19. ASSUME NEW s \in Stoppers, StopNothing(s)
     PROVE  WifiLater'
  BY <1>19 DEF StopNothing
<1>20. ASSUME NEW s \in Stoppers, StopCloses(s)
     PROVE  WifiLater'
  BY <1>20 DEF StopCloses
<1>21. ASSUME NEW s \in Stoppers, StopAdvertising(s)
     PROVE  WifiLater'
  BY <1>21 DEF StopAdvertising, StopReturns
<1>22. ASSUME NEW s \in Stoppers, StopHalts(s)
     PROVE  WifiLater'
  BY <1>22 DEF StopHalts
<1>23. ASSUME NEW s \in Stoppers, StopEnds(s)
     PROVE  WifiLater'
  BY <1>23 DEF StopEnds, StopReturns
<1>24. CASE BootTaskEnds
  BY <1>24 DEF BootTaskEnds
<1>25. CASE ConfigTaskBegins
  BY <1>25 DEF ConfigTaskBegins
<1>26. CASE ConfigTaskEnds
  BY <1>26 DEF ConfigTaskEnds
<1>27. CASE WifiAllowed
  BY <1>27 DEF WifiAllowed
<1>28. CASE WifiStarts
  BY <1>28 DEF WifiStarts
<1>29. CASE WifiStops
  BY <1>29 DEF WifiStops
<1>30. CASE ReceiveBtOn
  BY <1>30 DEF ReceiveBtOn
<1>31. CASE HandleBtOn
  BY <1>31 DEF HandleBtOn, StartCall, StartRefused, Advertise
<1>32. CASE BtOnOpened
  BY <1>32 DEF BtOnOpened, StackStarts, StackFails, StartReturns
<1>33. CASE UNCHANGED vars
  BY <1>33 DEF vars
<1>34. CASE MonitorStops
  BY <1>34 DEF MonitorStops
<1> QED
  BY <1>1, <1>2, <1>3, <1>4, <1>5, <1>6, <1>7, <1>8, <1>9, <1>10, <1>11, <1>12,
     <1>13, <1>14, <1>15, <1>16, <1>17, <1>18, <1>19, <1>20, <1>21, <1>22, <1>23,
     <1>24, <1>25, <1>26, <1>27, <1>28, <1>29, <1>30, <1>31, <1>32, <1>33, <1>34
     DEF Next, AppMain, Host, Wifi, Stop

LEMMA StackMarkedStep ==
  ASSUME FlagsOK, Typed, WifiLater, StackMarked, HostHears, OneTakesDown, [Next]_vars
  PROVE  StackMarked'
<1> USE DEF flags, modes, radio, tasks, wifis, boots, StackMarked
<1>1. CASE BootLoads
  BY <1>1 DEF BootLoads, BootUnchanged,
     HostHears, OneTakesDown, TakingDown, FlagsOK, Flag, Typed, WifiLater
<1>2. CASE BootOpens
  BY <1>2 DEF BootOpens, BootUnchanged, StartCall, StartRefused, Advertise,
     HostHears, OneTakesDown, TakingDown, FlagsOK, Flag, Typed, WifiLater
<1>3. CASE BootOpened
  BY <1>3 DEF BootOpened, StackStarts, StackFails, StartReturns,
     HostHears, OneTakesDown, TakingDown, FlagsOK, Flag, Typed, WifiLater
<1>4. CASE BootConfigured
  BY <1>4 DEF BootConfigured, BootUnchanged,
     HostHears, OneTakesDown, TakingDown, FlagsOK, Flag, Typed, WifiLater
<1>5. CASE BootWindow
  BY <1>5 DEF BootWindow, StartCall, StartRefused, Advertise,
     HostHears, OneTakesDown, TakingDown, FlagsOK, Flag, Typed, WifiLater
<1>6. CASE BootWindowOpened
  BY <1>6 DEF BootWindowOpened, StackStarts, StackFails,
     HostHears, OneTakesDown, TakingDown, FlagsOK, Flag, Typed, WifiLater
<1>7. CASE BootSpawns
  BY <1>7 DEF BootSpawns, HostHears, OneTakesDown, TakingDown, FlagsOK, Flag, Typed, WifiLater
<1>8. CASE BootClosed
  BY <1>8 DEF BootClosed, BootUnchanged,
     HostHears, OneTakesDown, TakingDown, FlagsOK, Flag, Typed, WifiLater
<1>9. CASE BootTasks
  BY <1>9 DEF BootTasks, HostHears, OneTakesDown, TakingDown, FlagsOK, Flag, Typed, WifiLater
<1>10. CASE HostSync
  BY <1>10 DEF HostSync, HostHears, OneTakesDown, TakingDown, FlagsOK, Flag, Typed, WifiLater
<1>11. CASE HostConnect
  BY <1>11 DEF HostConnect,
     HostHears, OneTakesDown, TakingDown, FlagsOK, Flag, Typed, WifiLater
<1>12. CASE HostFailed
  BY <1>12 DEF HostFailed,
     HostHears, OneTakesDown, TakingDown, FlagsOK, Flag, Typed, WifiLater
<1>13. CASE HostDisconnect
  BY <1>13 DEF HostDisconnect, StopAsync,
     HostHears, OneTakesDown, TakingDown, FlagsOK, Flag, Typed, WifiLater
<1>14. CASE PhoneConnects
  BY <1>14 DEF PhoneConnects,
     HostHears, OneTakesDown, TakingDown, FlagsOK, Flag, Typed, WifiLater
<1>15. CASE PhoneLeaves
  BY <1>15 DEF PhoneLeaves,
     HostHears, OneTakesDown, TakingDown, FlagsOK, Flag, Typed, WifiLater
<1>16. CASE PhoneConfigures
  BY <1>16 DEF PhoneConfigures,
     HostHears, OneTakesDown, TakingDown, FlagsOK, Flag, Typed, WifiLater
<1>17. CASE AdvertiseTask
  BY <1>17 DEF AdvertiseTask, Advertise,
     HostHears, OneTakesDown, TakingDown, FlagsOK, Flag, Typed, WifiLater
<1>18. CASE Timeout
  BY <1>18 DEF Timeout, StopAsync,
     HostHears, OneTakesDown, TakingDown, FlagsOK, Flag, Typed, WifiLater
<1>19. ASSUME NEW s \in Stoppers, StopNothing(s)
     PROVE  StackMarked'
  BY <1>19 DEF StopNothing,
     HostHears, OneTakesDown, TakingDown, FlagsOK, Flag, Typed, WifiLater
<1>20. ASSUME NEW s \in Stoppers, StopCloses(s)
     PROVE  StackMarked'
  BY <1>20 DEF StopCloses,
     HostHears, OneTakesDown, TakingDown, FlagsOK, Flag, Typed, WifiLater
<1>21. ASSUME NEW s \in Stoppers, StopAdvertising(s)
     PROVE  StackMarked'
  BY <1>21 DEF StopAdvertising, StopReturns,
     HostHears, OneTakesDown, TakingDown, FlagsOK, Flag, Typed, WifiLater
<1>22. ASSUME NEW s \in Stoppers, StopHalts(s)
     PROVE  StackMarked'
  BY <1>22 DEF StopHalts, HostHears, OneTakesDown, TakingDown, FlagsOK, Flag, Typed, WifiLater
<1>23. ASSUME NEW s \in Stoppers, StopEnds(s)
     PROVE  StackMarked'
  BY <1>23 DEF StopEnds, StopReturns,
     HostHears, OneTakesDown, TakingDown, FlagsOK, Flag, Typed, WifiLater
<1>24. CASE BootTaskEnds
  BY <1>24 DEF BootTaskEnds,
     HostHears, OneTakesDown, TakingDown, FlagsOK, Flag, Typed, WifiLater
<1>25. CASE ConfigTaskBegins
  BY <1>25 DEF ConfigTaskBegins,
     HostHears, OneTakesDown, TakingDown, FlagsOK, Flag, Typed, WifiLater
<1>26. CASE ConfigTaskEnds
  BY <1>26 DEF ConfigTaskEnds,
     HostHears, OneTakesDown, TakingDown, FlagsOK, Flag, Typed, WifiLater
<1>27. CASE WifiAllowed
  BY <1>27 DEF WifiAllowed,
     HostHears, OneTakesDown, TakingDown, FlagsOK, Flag, Typed, WifiLater
<1>28. CASE WifiStarts
  BY <1>28 DEF WifiStarts,
     HostHears, OneTakesDown, TakingDown, FlagsOK, Flag, Typed, WifiLater
<1>29. CASE WifiStops
  BY <1>29 DEF WifiStops, HostHears, OneTakesDown, TakingDown, FlagsOK, Flag, Typed, WifiLater
<1>30. CASE ReceiveBtOn
  BY <1>30 DEF ReceiveBtOn,
     HostHears, OneTakesDown, TakingDown, FlagsOK, Flag, Typed, WifiLater
<1>31. CASE HandleBtOn
  BY <1>31 DEF HandleBtOn, StartCall, StartRefused, Advertise,
     HostHears, OneTakesDown, TakingDown, FlagsOK, Flag, Typed, WifiLater
<1>32. CASE BtOnOpened
  BY <1>32 DEF BtOnOpened, StackStarts, StackFails, StartReturns,
     HostHears, OneTakesDown, TakingDown, FlagsOK, Flag, Typed, WifiLater
<1>33. CASE UNCHANGED vars
  BY <1>33 DEF vars
<1>34. CASE MonitorStops
  BY <1>34 DEF MonitorStops, HostHears, OneTakesDown, TakingDown, FlagsOK, Flag, Typed,
     WifiLater
<1> QED
  BY <1>1, <1>2, <1>3, <1>4, <1>5, <1>6, <1>7, <1>8, <1>9, <1>10, <1>11, <1>12,
     <1>13, <1>14, <1>15, <1>16, <1>17, <1>18, <1>19, <1>20, <1>21, <1>22, <1>23,
     <1>24, <1>25, <1>26, <1>27, <1>28, <1>29, <1>30, <1>31, <1>32, <1>33, <1>34
     DEF Next, AppMain, Host, Wifi, Stop

LEMMA HostHearsStep ==
  ASSUME FlagsOK, Typed, StackMarked, HostHears, OneTakesDown, [Next]_vars
  PROVE  HostHears'
<1> USE DEF flags, modes, radio, tasks, wifis, boots, HostHears
<1>1. CASE BootLoads
  BY <1>1 DEF BootLoads, BootUnchanged,
     StackMarked, OneTakesDown, TakingDown, FlagsOK, Flag, Typed
<1>2. CASE BootOpens
  BY <1>2 DEF BootOpens, BootUnchanged, StartCall, StartRefused, Advertise,
     StackMarked, OneTakesDown, TakingDown, FlagsOK, Flag, Typed
<1>3. CASE BootOpened
  BY <1>3 DEF BootOpened, StackStarts, StackFails, StartReturns,
     StackMarked, OneTakesDown, TakingDown, FlagsOK, Flag, Typed
<1>4. CASE BootConfigured
  BY <1>4 DEF BootConfigured, BootUnchanged,
     StackMarked, OneTakesDown, TakingDown, FlagsOK, Flag, Typed
<1>5. CASE BootWindow
  BY <1>5 DEF BootWindow, StartCall, StartRefused, Advertise,
     StackMarked, OneTakesDown, TakingDown, FlagsOK, Flag, Typed
<1>6. CASE BootWindowOpened
  BY <1>6 DEF BootWindowOpened, StackStarts, StackFails,
     StackMarked, OneTakesDown, TakingDown, FlagsOK, Flag, Typed
<1>7. CASE BootSpawns
  BY <1>7 DEF BootSpawns, StackMarked, OneTakesDown, TakingDown, FlagsOK, Flag, Typed
<1>8. CASE BootClosed
  BY <1>8 DEF BootClosed, BootUnchanged,
     StackMarked, OneTakesDown, TakingDown, FlagsOK, Flag, Typed
<1>9. CASE BootTasks
  BY <1>9 DEF BootTasks, StackMarked, OneTakesDown, TakingDown, FlagsOK, Flag, Typed
<1>10. CASE HostSync
  BY <1>10 DEF HostSync, StackMarked, OneTakesDown, TakingDown, FlagsOK, Flag, Typed
<1>11. CASE HostConnect
  BY <1>11 DEF HostConnect, StackMarked, OneTakesDown, TakingDown, FlagsOK, Flag, Typed
<1>12. CASE HostFailed
  BY <1>12 DEF HostFailed, StackMarked, OneTakesDown, TakingDown, FlagsOK, Flag, Typed
<1>13. CASE HostDisconnect
  BY <1>13 DEF HostDisconnect, StopAsync,
     StackMarked, OneTakesDown, TakingDown, FlagsOK, Flag, Typed
<1>14. CASE PhoneConnects
  BY <1>14 DEF PhoneConnects, StackMarked, OneTakesDown, TakingDown, FlagsOK, Flag, Typed
<1>15. CASE PhoneLeaves
  BY <1>15 DEF PhoneLeaves, StackMarked, OneTakesDown, TakingDown, FlagsOK, Flag, Typed
<1>16. CASE PhoneConfigures
  BY <1>16 DEF PhoneConfigures, StackMarked, OneTakesDown, TakingDown, FlagsOK, Flag, Typed
<1>17. CASE AdvertiseTask
  BY <1>17 DEF AdvertiseTask, Advertise,
     StackMarked, OneTakesDown, TakingDown, FlagsOK, Flag, Typed
<1>18. CASE Timeout
  BY <1>18 DEF Timeout, StopAsync, StackMarked, OneTakesDown, TakingDown, FlagsOK, Flag, Typed
<1>19. ASSUME NEW s \in Stoppers, StopNothing(s)
     PROVE  HostHears'
  BY <1>19 DEF StopNothing, StackMarked, OneTakesDown, TakingDown, FlagsOK, Flag, Typed
<1>20. ASSUME NEW s \in Stoppers, StopCloses(s)
     PROVE  HostHears'
  BY <1>20 DEF StopCloses, StackMarked, OneTakesDown, TakingDown, FlagsOK, Flag, Typed
<1>21. ASSUME NEW s \in Stoppers, StopAdvertising(s)
     PROVE  HostHears'
  BY <1>21 DEF StopAdvertising, StopReturns,
     StackMarked, OneTakesDown, TakingDown, FlagsOK, Flag, Typed
<1>22. ASSUME NEW s \in Stoppers, StopHalts(s)
     PROVE  HostHears'
  BY <1>22 DEF StopHalts, StackMarked, OneTakesDown, TakingDown, FlagsOK, Flag, Typed
<1>23. ASSUME NEW s \in Stoppers, StopEnds(s)
     PROVE  HostHears'
  BY <1>23 DEF StopEnds, StopReturns,
     StackMarked, OneTakesDown, TakingDown, FlagsOK, Flag, Typed
<1>24. CASE BootTaskEnds
  BY <1>24 DEF BootTaskEnds, StackMarked, OneTakesDown, TakingDown, FlagsOK, Flag, Typed
<1>25. CASE ConfigTaskBegins
  BY <1>25 DEF ConfigTaskBegins, StackMarked, OneTakesDown, TakingDown, FlagsOK, Flag, Typed
<1>26. CASE ConfigTaskEnds
  BY <1>26 DEF ConfigTaskEnds, StackMarked, OneTakesDown, TakingDown, FlagsOK, Flag, Typed
<1>27. CASE WifiAllowed
  BY <1>27 DEF WifiAllowed, StackMarked, OneTakesDown, TakingDown, FlagsOK, Flag, Typed
<1>28. CASE WifiStarts
  BY <1>28 DEF WifiStarts, StackMarked, OneTakesDown, TakingDown, FlagsOK, Flag, Typed
<1>29. CASE WifiStops
  BY <1>29 DEF WifiStops, StackMarked, OneTakesDown, TakingDown, FlagsOK, Flag, Typed
<1>30. CASE ReceiveBtOn
  BY <1>30 DEF ReceiveBtOn, StackMarked, OneTakesDown, TakingDown, FlagsOK, Flag, Typed
<1>31. CASE HandleBtOn
  BY <1>31 DEF HandleBtOn, StartCall, StartRefused, Advertise,
     StackMarked, OneTakesDown, TakingDown, FlagsOK, Flag, Typed
<1>32. CASE BtOnOpened
  BY <1>32 DEF BtOnOpened, StackStarts, StackFails, StartReturns,
     StackMarked, OneTakesDown, TakingDown, FlagsOK, Flag, Typed
<1>33. CASE UNCHANGED vars
  BY <1>33 DEF vars
<1>34. CASE MonitorStops
  BY <1>34 DEF MonitorStops, StackMarked, OneTakesDown, TakingDown, FlagsOK, Flag, Typed
<1> QED
  BY <1>1, <1>2, <1>3, <1>4, <1>5, <1>6, <1>7, <1>8, <1>9, <1>10, <1>11, <1>12,
     <1>13, <1>14, <1>15, <1>16, <1>17, <1>18, <1>19, <1>20, <1>21, <1>22, <1>23,
     <1>24, <1>25, <1>26, <1>27, <1>28, <1>29, <1>30, <1>31, <1>32, <1>33, <1>34
     DEF Next, AppMain, Host, Wifi, Stop

LEMMA OneTakesDownStep ==
  ASSUME FlagsOK, Typed, StackMarked, HostHears, OneTakesDown, [Next]_vars
  PROVE  OneTakesDown'
<1> USE DEF flags, modes, radio, tasks, wifis, boots, OneTakesDown, TakingDown
<1>1. CASE BootLoads
  BY <1>1, BleWindowAssumption DEF BootLoads, BootUnchanged,
     StackMarked, HostHears, Typed, Stoppers
<1>2. CASE BootOpens
  BY <1>2, BleWindowAssumption DEF BootOpens, BootUnchanged, StartCall, StartRefused,
     Advertise, StackMarked, HostHears, Typed, Stoppers
<1>3. CASE BootOpened
  BY <1>3, BleWindowAssumption DEF BootOpened, StackStarts, StackFails, StartReturns,
     StackMarked, HostHears, Typed, Stoppers
<1>4. CASE BootConfigured
  BY <1>4, BleWindowAssumption DEF BootConfigured, BootUnchanged,
     StackMarked, HostHears, Typed, Stoppers
<1>5. CASE BootWindow
  BY <1>5, BleWindowAssumption DEF BootWindow, StartCall, StartRefused, Advertise,
     StackMarked, HostHears, Typed, Stoppers
<1>6. CASE BootWindowOpened
  BY <1>6, BleWindowAssumption DEF BootWindowOpened, StackStarts, StackFails,
     StackMarked, HostHears, Typed, Stoppers
<1>7. CASE BootSpawns
  BY <1>7, BleWindowAssumption DEF BootSpawns, StackMarked, HostHears, Typed, Stoppers
<1>8. CASE BootClosed
  BY <1>8, BleWindowAssumption DEF BootClosed, BootUnchanged,
     StackMarked, HostHears, Typed, Stoppers
<1>9. CASE BootTasks
  BY <1>9, BleWindowAssumption DEF BootTasks, StackMarked, HostHears, Typed, Stoppers
<1>10. CASE HostSync
  BY <1>10, BleWindowAssumption DEF HostSync, StackMarked, HostHears, Typed, Stoppers
<1>11. CASE HostConnect
  BY <1>11, BleWindowAssumption DEF HostConnect, StackMarked, HostHears, Typed, Stoppers
<1>12. CASE HostFailed
  BY <1>12, BleWindowAssumption DEF HostFailed, StackMarked, HostHears, Typed, Stoppers
<1>13. CASE HostDisconnect
  BY <1>13, BleWindowAssumption DEF HostDisconnect, StopAsync,
     StackMarked, HostHears, Typed, Stoppers
<1>14. CASE PhoneConnects
  BY <1>14, BleWindowAssumption DEF PhoneConnects,
     StackMarked, HostHears, Typed, Stoppers
<1>15. CASE PhoneLeaves
  BY <1>15, BleWindowAssumption DEF PhoneLeaves, StackMarked, HostHears, Typed, Stoppers
<1>16. CASE PhoneConfigures
  BY <1>16, BleWindowAssumption DEF PhoneConfigures,
     StackMarked, HostHears, Typed, Stoppers
<1>17. CASE AdvertiseTask
  BY <1>17, BleWindowAssumption DEF AdvertiseTask, Advertise,
     StackMarked, HostHears, Typed, Stoppers
<1>18. CASE Timeout
  BY <1>18, BleWindowAssumption DEF Timeout, StopAsync,
     StackMarked, HostHears, Typed, Stoppers
<1>19. ASSUME NEW s \in Stoppers, StopNothing(s)
     PROVE  OneTakesDown'
  BY <1>19, BleWindowAssumption DEF StopNothing, StackMarked, HostHears, Typed, Stoppers
<1>20. ASSUME NEW s \in Stoppers, StopCloses(s)
     PROVE  OneTakesDown'
  BY <1>20, BleWindowAssumption DEF StopCloses, StackMarked, HostHears, Typed, Stoppers
<1>21. ASSUME NEW s \in Stoppers, StopAdvertising(s)
     PROVE  OneTakesDown'
  BY <1>21, BleWindowAssumption DEF StopAdvertising, StopReturns,
     StackMarked, HostHears, Typed, Stoppers
<1>22. ASSUME NEW s \in Stoppers, StopHalts(s)
     PROVE  OneTakesDown'
  BY <1>22, BleWindowAssumption DEF StopHalts, StackMarked, HostHears, Typed, Stoppers
<1>23. ASSUME NEW s \in Stoppers, StopEnds(s)
     PROVE  OneTakesDown'
  BY <1>23, BleWindowAssumption DEF StopEnds, StopReturns,
     StackMarked, HostHears, Typed, Stoppers
<1>24. CASE BootTaskEnds
  BY <1>24, BleWindowAssumption DEF BootTaskEnds,
     StackMarked, HostHears, Typed, Stoppers
<1>25. CASE ConfigTaskBegins
  BY <1>25, BleWindowAssumption DEF ConfigTaskBegins,
     StackMarked, HostHears, Typed, Stoppers
<1>26. CASE ConfigTaskEnds
  BY <1>26, BleWindowAssumption DEF ConfigTaskEnds,
     StackMarked, HostHears, Typed, Stoppers
<1>27. CASE WifiAllowed
  BY <1>27, BleWindowAssumption DEF WifiAllowed, StackMarked, HostHears, Typed, Stoppers
<1>28. CASE WifiStarts
  BY <1>28, BleWindowAssumption DEF WifiStarts, StackMarked, HostHears, Typed, Stoppers
<1>29. CASE WifiStops
  BY <1>29, BleWindowAssumption DEF WifiStops, StackMarked, HostHears, Typed, Stoppers
<1>30. CASE ReceiveBtOn
  BY <1>30, BleWindowAssumption DEF ReceiveBtOn, StackMarked, HostHears, Typed, Stoppers
<1>31. CASE HandleBtOn
  BY <1>31, BleWindowAssumption DEF HandleBtOn, StartCall, StartRefused, Advertise,
     StackMarked, HostHears, Typed, Stoppers
<1>32. CASE BtOnOpened
  BY <1>32, BleWindowAssumption DEF BtOnOpened, StackStarts, StackFails, StartReturns,
     StackMarked, HostHears, Typed, Stoppers
<1>33. CASE UNCHANGED vars
  BY <1>33 DEF vars
<1>34. CASE MonitorStops
  BY <1>34, BleWindowAssumption DEF MonitorStops, StackMarked, HostHears, Typed, Stoppers
<1> QED
  BY <1>1, <1>2, <1>3, <1>4, <1>5, <1>6, <1>7, <1>8, <1>9, <1>10, <1>11, <1>12,
     <1>13, <1>14, <1>15, <1>16, <1>17, <1>18, <1>19, <1>20, <1>21, <1>22, <1>23,
     <1>24, <1>25, <1>26, <1>27, <1>28, <1>29, <1>30, <1>31, <1>32, <1>33, <1>34
     DEF Next, AppMain, Host, Wifi, Stop

LEMMA LateGuestStep ==
  ASSUME FlagsOK, Typed, StackMarked, HostHears, OneTakesDown, LateGuest, [Next]_vars
  PROVE  LateGuest'
<1> USE DEF flags, modes, radio, tasks, wifis, boots, LateGuest, Stopping
<1>1. CASE BootLoads
  BY <1>1 DEF BootLoads, BootUnchanged,
     StackMarked, HostHears, OneTakesDown, TakingDown, Typed
<1>2. CASE BootOpens
  BY <1>2 DEF BootOpens, BootUnchanged, StartCall, StartRefused, Advertise,
     StackMarked, HostHears, OneTakesDown, TakingDown, Typed
<1>3. CASE BootOpened
  BY <1>3 DEF BootOpened, StackStarts, StackFails, StartReturns,
     StackMarked, HostHears, OneTakesDown, TakingDown, Typed
<1>4. CASE BootConfigured
  BY <1>4 DEF BootConfigured, BootUnchanged,
     StackMarked, HostHears, OneTakesDown, TakingDown, Typed
<1>5. CASE BootWindow
  BY <1>5 DEF BootWindow, StartCall, StartRefused, Advertise,
     StackMarked, HostHears, OneTakesDown, TakingDown, Typed
<1>6. CASE BootWindowOpened
  BY <1>6 DEF BootWindowOpened, StackStarts, StackFails,
     StackMarked, HostHears, OneTakesDown, TakingDown, Typed
<1>7. CASE BootSpawns
  BY <1>7 DEF BootSpawns, StackMarked, HostHears, OneTakesDown, TakingDown, Typed
<1>8. CASE BootClosed
  BY <1>8 DEF BootClosed, BootUnchanged,
     StackMarked, HostHears, OneTakesDown, TakingDown, Typed
<1>9. CASE BootTasks
  BY <1>9 DEF BootTasks, StackMarked, HostHears, OneTakesDown, TakingDown, Typed
<1>10. CASE HostSync
  BY <1>10 DEF HostSync, StackMarked, HostHears, OneTakesDown, TakingDown, Typed
<1>11. CASE HostConnect
  BY <1>11 DEF HostConnect, StackMarked, HostHears, OneTakesDown, TakingDown, Typed
<1>12. CASE HostFailed
  BY <1>12 DEF HostFailed, StackMarked, HostHears, OneTakesDown, TakingDown, Typed
<1>13. CASE HostDisconnect
  BY <1>13 DEF HostDisconnect, StopAsync,
     StackMarked, HostHears, OneTakesDown, TakingDown, Typed
<1>14. CASE PhoneConnects
  BY <1>14 DEF PhoneConnects, StackMarked, HostHears, OneTakesDown, TakingDown, Typed
<1>15. CASE PhoneLeaves
  BY <1>15 DEF PhoneLeaves, StackMarked, HostHears, OneTakesDown, TakingDown, Typed
<1>16. CASE PhoneConfigures
  BY <1>16 DEF PhoneConfigures, StackMarked, HostHears, OneTakesDown, TakingDown, Typed
<1>17. CASE AdvertiseTask
  BY <1>17 DEF AdvertiseTask, Advertise,
     StackMarked, HostHears, OneTakesDown, TakingDown, Typed
<1>18. CASE Timeout
  BY <1>18 DEF Timeout, StopAsync,
     StackMarked, HostHears, OneTakesDown, TakingDown, Typed
<1>19. ASSUME NEW s \in Stoppers, StopNothing(s)
     PROVE  LateGuest'
  BY <1>19 DEF StopNothing, StackMarked, HostHears, OneTakesDown, TakingDown, Typed
<1>20. ASSUME NEW s \in Stoppers, StopCloses(s)
     PROVE  LateGuest'
  BY <1>20 DEF StopCloses, StackMarked, HostHears, OneTakesDown, TakingDown, Typed
<1>21. ASSUME NEW s \in Stoppers, StopAdvertising(s)
     PROVE  LateGuest'
  BY <1>21 DEF StopAdvertising, StopReturns,
     StackMarked, HostHears, OneTakesDown, TakingDown, Typed
<1>22. ASSUME NEW s \in Stoppers, StopHalts(s)
     PROVE  LateGuest'
  BY <1>22 DEF StopHalts, StackMarked, HostHears, OneTakesDown, TakingDown, Typed
<1>23. ASSUME NEW s \in Stoppers, StopEnds(s)
     PROVE  LateGuest'
  BY <1>23 DEF StopEnds, StopReturns,
     StackMarked, HostHears, OneTakesDown, TakingDown, Typed
<1>24. CASE BootTaskEnds
  BY <1>24 DEF BootTaskEnds, StackMarked, HostHears, OneTakesDown, TakingDown, Typed
<1>25. CASE ConfigTaskBegins
  BY <1>25 DEF ConfigTaskBegins, StackMarked, HostHears, OneTakesDown, TakingDown, Typed
<1>26. CASE ConfigTaskEnds
  BY <1>26 DEF ConfigTaskEnds, StackMarked, HostHears, OneTakesDown, TakingDown, Typed
<1>27. CASE WifiAllowed
  BY <1>27 DEF WifiAllowed, StackMarked, HostHears, OneTakesDown, TakingDown, Typed
<1>28. CASE WifiStarts
  BY <1>28 DEF WifiStarts, StackMarked, HostHears, OneTakesDown, TakingDown, Typed
<1>29. CASE WifiStops
  BY <1>29 DEF WifiStops, StackMarked, HostHears, OneTakesDown, TakingDown, Typed
<1>30. CASE ReceiveBtOn
  BY <1>30 DEF ReceiveBtOn, StackMarked, HostHears, OneTakesDown, TakingDown, Typed
<1>31. CASE HandleBtOn
  BY <1>31 DEF HandleBtOn, StartCall, StartRefused, Advertise,
     StackMarked, HostHears, OneTakesDown, TakingDown, Typed
<1>32. CASE BtOnOpened
  BY <1>32 DEF BtOnOpened, StackStarts, StackFails, StartReturns,
     StackMarked, HostHears, OneTakesDown, TakingDown, Typed
<1>33. CASE UNCHANGED vars
  BY <1>33 DEF vars
<1>34. CASE MonitorStops
  BY <1>34 DEF MonitorStops, StackMarked, HostHears, OneTakesDown, TakingDown, Typed
<1> QED
  BY <1>1, <1>2, <1>3, <1>4, <1>5, <1>6, <1>7, <1>8, <1>9, <1>10, <1>11, <1>12,
     <1>13, <1>14, <1>15, <1>16, <1>17, <1>18, <1>19, <1>20, <1>21, <1>22, <1>23,
     <1>24, <1>25, <1>26, <1>27, <1>28, <1>29, <1>30, <1>31, <1>32, <1>33, <1>34
     DEF Next, AppMain, Host, Wifi, Stop

LEMMA ClientStep ==
  ASSUME FlagsOK, Typed, StackMarked, HostHears, OneTakesDown, ClientHasConfigMode, [Next]_vars
  PROVE  ClientHasConfigMode'
<1> USE DEF flags, modes, radio, tasks, wifis, boots, ClientHasConfigMode, Stopping
<1>1. CASE BootLoads
  BY <1>1 DEF BootLoads, BootUnchanged,
     StackMarked, HostHears, OneTakesDown, TakingDown, Typed
<1>2. CASE BootOpens
  BY <1>2 DEF BootOpens, BootUnchanged, StartCall, StartRefused, Advertise,
     StackMarked, HostHears, OneTakesDown, TakingDown, Typed
<1>3. CASE BootOpened
  BY <1>3 DEF BootOpened, StackStarts, StackFails, StartReturns,
     StackMarked, HostHears, OneTakesDown, TakingDown, Typed
<1>4. CASE BootConfigured
  BY <1>4 DEF BootConfigured, BootUnchanged,
     StackMarked, HostHears, OneTakesDown, TakingDown, Typed
<1>5. CASE BootWindow
  BY <1>5 DEF BootWindow, StartCall, StartRefused, Advertise,
     StackMarked, HostHears, OneTakesDown, TakingDown, Typed
<1>6. CASE BootWindowOpened
  BY <1>6 DEF BootWindowOpened, StackStarts, StackFails,
     StackMarked, HostHears, OneTakesDown, TakingDown, Typed
<1>7. CASE BootSpawns
  BY <1>7 DEF BootSpawns, StackMarked, HostHears, OneTakesDown, TakingDown, Typed
<1>8. CASE BootClosed
  BY <1>8 DEF BootClosed, BootUnchanged,
     StackMarked, HostHears, OneTakesDown, TakingDown, Typed
<1>9. CASE BootTasks
  BY <1>9 DEF BootTasks, StackMarked, HostHears, OneTakesDown, TakingDown, Typed
<1>10. CASE HostSync
  BY <1>10 DEF HostSync, StackMarked, HostHears, OneTakesDown, TakingDown, Typed
<1>11. CASE HostConnect
  BY <1>11 DEF HostConnect, StackMarked, HostHears, OneTakesDown, TakingDown, Typed
<1>12. CASE HostFailed
  BY <1>12 DEF HostFailed, StackMarked, HostHears, OneTakesDown, TakingDown, Typed
<1>13. CASE HostDisconnect
  BY <1>13 DEF HostDisconnect, StopAsync,
     StackMarked, HostHears, OneTakesDown, TakingDown, Typed
<1>14. CASE PhoneConnects
  BY <1>14 DEF PhoneConnects, StackMarked, HostHears, OneTakesDown, TakingDown, Typed
<1>15. CASE PhoneLeaves
  BY <1>15 DEF PhoneLeaves, StackMarked, HostHears, OneTakesDown, TakingDown, Typed
<1>16. CASE PhoneConfigures
  BY <1>16 DEF PhoneConfigures, StackMarked, HostHears, OneTakesDown, TakingDown, Typed
<1>17. CASE AdvertiseTask
  BY <1>17 DEF AdvertiseTask, Advertise,
     StackMarked, HostHears, OneTakesDown, TakingDown, Typed
<1>18. CASE Timeout
  BY <1>18 DEF Timeout, StopAsync,
     StackMarked, HostHears, OneTakesDown, TakingDown, Typed
<1>19. ASSUME NEW s \in Stoppers, StopNothing(s)
     PROVE  ClientHasConfigMode'
  BY <1>19 DEF StopNothing, StackMarked, HostHears, OneTakesDown, TakingDown, Typed
<1>20. ASSUME NEW s \in Stoppers, StopCloses(s)
     PROVE  ClientHasConfigMode'
  BY <1>20 DEF StopCloses, StackMarked, HostHears, OneTakesDown, TakingDown, Typed
<1>21. ASSUME NEW s \in Stoppers, StopAdvertising(s)
     PROVE  ClientHasConfigMode'
  BY <1>21 DEF StopAdvertising, StopReturns,
     StackMarked, HostHears, OneTakesDown, TakingDown, Typed
<1>22. ASSUME NEW s \in Stoppers, StopHalts(s)
     PROVE  ClientHasConfigMode'
  BY <1>22 DEF StopHalts, StackMarked, HostHears, OneTakesDown, TakingDown, Typed
<1>23. ASSUME NEW s \in Stoppers, StopEnds(s)
     PROVE  ClientHasConfigMode'
  BY <1>23 DEF StopEnds, StopReturns,
     StackMarked, HostHears, OneTakesDown, TakingDown, Typed
<1>24. CASE BootTaskEnds
  BY <1>24 DEF BootTaskEnds, StackMarked, HostHears, OneTakesDown, TakingDown, Typed
<1>25. CASE ConfigTaskBegins
  BY <1>25 DEF ConfigTaskBegins, StackMarked, HostHears, OneTakesDown, TakingDown, Typed
<1>26. CASE ConfigTaskEnds
  BY <1>26 DEF ConfigTaskEnds, StackMarked, HostHears, OneTakesDown, TakingDown, Typed
<1>27. CASE WifiAllowed
  BY <1>27 DEF WifiAllowed, StackMarked, HostHears, OneTakesDown, TakingDown, Typed
<1>28. CASE WifiStarts
  BY <1>28 DEF WifiStarts, StackMarked, HostHears, OneTakesDown, TakingDown, Typed
<1>29. CASE WifiStops
  BY <1>29 DEF WifiStops, StackMarked, HostHears, OneTakesDown, TakingDown, Typed
<1>30. CASE ReceiveBtOn
  BY <1>30 DEF ReceiveBtOn, StackMarked, HostHears, OneTakesDown, TakingDown, Typed
<1>31. CASE HandleBtOn
  BY <1>31 DEF HandleBtOn, StartCall, StartRefused, Advertise,
     StackMarked, HostHears, OneTakesDown, TakingDown, Typed
<1>32. CASE BtOnOpened
  BY <1>32 DEF BtOnOpened, StackStarts, StackFails, StartReturns,
     StackMarked, HostHears, OneTakesDown, TakingDown, Typed
<1>33. CASE UNCHANGED vars
  BY <1>33 DEF vars
<1>34. CASE MonitorStops
  BY <1>34 DEF MonitorStops, StackMarked, HostHears, OneTakesDown, TakingDown, Typed
<1> QED
  BY <1>1, <1>2, <1>3, <1>4, <1>5, <1>6, <1>7, <1>8, <1>9, <1>10, <1>11, <1>12,
     <1>13, <1>14, <1>15, <1>16, <1>17, <1>18, <1>19, <1>20, <1>21, <1>22, <1>23,
     <1>24, <1>25, <1>26, <1>27, <1>28, <1>29, <1>30, <1>31, <1>32, <1>33, <1>34
     DEF Next, AppMain, Host, Wifi, Stop

LEMMA OwnerStep ==
  ASSUME FlagsOK, Typed, StackMarked, HostHears, OneTakesDown, LateGuest,
         ClientHasConfigMode, ConfigModeHasOwner, [Next]_vars
  PROVE  ConfigModeHasOwner'
<1> USE DEF flags, modes, radio, tasks, wifis, boots, ConfigModeHasOwner, Stopping
<1>1. CASE BootLoads
  BY <1>1 DEF BootLoads, BootUnchanged,
     StackMarked, HostHears, OneTakesDown, TakingDown, LateGuest, Typed
<1>2. CASE BootOpens
  BY <1>2 DEF BootOpens, BootUnchanged, StartCall, StartRefused, Advertise,
     StackMarked, HostHears, OneTakesDown, TakingDown, LateGuest, Typed
<1>3. CASE BootOpened
  BY <1>3 DEF BootOpened, StackStarts, StackFails, StartReturns,
     StackMarked, HostHears, OneTakesDown, TakingDown, LateGuest, Typed
<1>4. CASE BootConfigured
  BY <1>4 DEF BootConfigured, BootUnchanged,
     StackMarked, HostHears, OneTakesDown, TakingDown, LateGuest, Typed
<1>5. CASE BootWindow
  BY <1>5 DEF BootWindow, StartCall, StartRefused, Advertise,
     StackMarked, HostHears, OneTakesDown, TakingDown, LateGuest, Typed
<1>6. CASE BootWindowOpened
  BY <1>6 DEF BootWindowOpened, StackStarts, StackFails,
     StackMarked, HostHears, OneTakesDown, TakingDown, LateGuest, Typed
<1>7. CASE BootSpawns
  BY <1>7 DEF BootSpawns,
     StackMarked, HostHears, OneTakesDown, TakingDown, LateGuest, Typed
<1>8. CASE BootClosed
  BY <1>8 DEF BootClosed, BootUnchanged,
     StackMarked, HostHears, OneTakesDown, TakingDown, LateGuest, Typed
<1>9. CASE BootTasks
  BY <1>9 DEF BootTasks,
     StackMarked, HostHears, OneTakesDown, TakingDown, LateGuest, Typed
<1>10. CASE HostSync
  BY <1>10 DEF HostSync,
     StackMarked, HostHears, OneTakesDown, TakingDown, LateGuest, Typed
<1>11. CASE HostConnect
  BY <1>11 DEF HostConnect,
     StackMarked, HostHears, OneTakesDown, TakingDown, LateGuest, Typed
<1>12. CASE HostFailed
  BY <1>12 DEF HostFailed,
     StackMarked, HostHears, OneTakesDown, TakingDown, LateGuest, Typed
<1>13. CASE HostDisconnect
  <2>1. CASE windowOpen
    <3>1. StopAsync /\ configMode' = configMode
      BY <1>13, <2>1 DEF HostDisconnect
    <3>2. ASSUME NEW s \in StopTasks, stops' = [stops EXCEPT ![s] = "created"]
          PROVE  s \in Stoppers /\ stops'[s] = "created"
      BY <3>2 DEF Stoppers, Typed
    <3> QED BY <3>1, <3>2 DEF StopAsync
  <2>2. CASE ~windowOpen
    <3>1. Stopping /\ stops' = stops
      BY <1>13, <2>2 DEF HostDisconnect, LateGuest
    <3> QED BY <3>1
  <2> QED BY <2>1, <2>2
<1>14. CASE PhoneConnects
  BY <1>14 DEF PhoneConnects,
     StackMarked, HostHears, OneTakesDown, TakingDown, LateGuest, Typed
<1>15. CASE PhoneLeaves
  BY <1>15 DEF PhoneLeaves,
     StackMarked, HostHears, OneTakesDown, TakingDown, LateGuest, Typed
<1>16. CASE PhoneConfigures
  BY <1>16 DEF PhoneConfigures,
     StackMarked, HostHears, OneTakesDown, TakingDown, LateGuest, Typed
<1>17. CASE AdvertiseTask
  BY <1>17 DEF AdvertiseTask, Advertise,
     StackMarked, HostHears, OneTakesDown, TakingDown, LateGuest, Typed
<1>18. CASE Timeout
  BY <1>18 DEF Timeout, StopAsync,
     StackMarked, HostHears, OneTakesDown, TakingDown, LateGuest, Typed
<1>19. ASSUME NEW s \in Stoppers, StopNothing(s)
     PROVE  ConfigModeHasOwner'
  BY <1>19 DEF StopNothing,
     StackMarked, HostHears, OneTakesDown, TakingDown, LateGuest, Typed
<1>20. ASSUME NEW s \in Stoppers, StopCloses(s)
     PROVE  ConfigModeHasOwner'
  BY <1>20 DEF StopCloses,
     StackMarked, HostHears, OneTakesDown, TakingDown, LateGuest, Typed
<1>21. ASSUME NEW s \in Stoppers, StopAdvertising(s)
     PROVE  ConfigModeHasOwner'
  BY <1>21 DEF StopAdvertising, StopReturns,
     StackMarked, HostHears, OneTakesDown, TakingDown, LateGuest, Typed
<1>22. ASSUME NEW s \in Stoppers, StopHalts(s)
     PROVE  ConfigModeHasOwner'
  BY <1>22 DEF StopHalts,
     StackMarked, HostHears, OneTakesDown, TakingDown, LateGuest, Typed
<1>23. ASSUME NEW s \in Stoppers, StopEnds(s)
     PROVE  ConfigModeHasOwner'
  BY <1>23 DEF StopEnds, StopReturns,
     StackMarked, HostHears, OneTakesDown, TakingDown, LateGuest, Typed
<1>24. CASE BootTaskEnds
  BY <1>24 DEF BootTaskEnds,
     StackMarked, HostHears, OneTakesDown, TakingDown, LateGuest, Typed
<1>25. CASE ConfigTaskBegins
  BY <1>25 DEF ConfigTaskBegins,
     StackMarked, HostHears, OneTakesDown, TakingDown, LateGuest, Typed
<1>26. CASE ConfigTaskEnds
  BY <1>26 DEF ConfigTaskEnds,
     StackMarked, HostHears, OneTakesDown, TakingDown, LateGuest, Typed
<1>27. CASE WifiAllowed
  BY <1>27 DEF WifiAllowed,
     StackMarked, HostHears, OneTakesDown, TakingDown, LateGuest, Typed
<1>28. CASE WifiStarts
  BY <1>28 DEF WifiStarts,
     StackMarked, HostHears, OneTakesDown, TakingDown, LateGuest, Typed
<1>29. CASE WifiStops
  BY <1>29 DEF WifiStops,
     StackMarked, HostHears, OneTakesDown, TakingDown, LateGuest, Typed
<1>30. CASE ReceiveBtOn
  BY <1>30 DEF ReceiveBtOn,
     StackMarked, HostHears, OneTakesDown, TakingDown, LateGuest, Typed
<1>31. CASE HandleBtOn
  BY <1>31 DEF HandleBtOn, StartCall, StartRefused, Advertise,
     StackMarked, HostHears, OneTakesDown, TakingDown, LateGuest, Typed
<1>32. CASE BtOnOpened
  BY <1>32 DEF BtOnOpened, StackStarts, StackFails, StartReturns,
     StackMarked, HostHears, OneTakesDown, TakingDown, LateGuest, Typed
<1>33. CASE UNCHANGED vars
  BY <1>33 DEF vars
<1>34. CASE MonitorStops
  BY <1>34 DEF MonitorStops,
     StackMarked, HostHears, OneTakesDown, TakingDown, LateGuest, Typed
<1> QED
  BY <1>1, <1>2, <1>3, <1>4, <1>5, <1>6, <1>7, <1>8, <1>9, <1>10, <1>11, <1>12,
     <1>13, <1>14, <1>15, <1>16, <1>17, <1>18, <1>19, <1>20, <1>21, <1>22, <1>23,
     <1>24, <1>25, <1>26, <1>27, <1>28, <1>29, <1>30, <1>31, <1>32, <1>33, <1>34
     DEF Next, AppMain, Host, Wifi, Stop

-----------------------------------------------------------------------------
(* The theorems.                                                            *)

\* Together these are inductive: the mode follows the phone only because the host,
\* the mark of the stack and the tasks that take it down agree.
THEOREM WindowIsInvariant == Spec => []WindowInv
<1>1. Init => WindowInv
  <2> SUFFICES ASSUME Init PROVE WindowInv
    OBVIOUS
  <2>1. FlagsOK
    BY DEF Init, FlagsOK, Flag
  <2>2. Typed
    BY BleWindowAssumption DEF Init, Typed
  <2>3. \A s \in Stoppers : stops[s] = "none"
    BY DEF Init
  <2>4. "main" \in Stoppers
    BY DEF Stoppers
  <2>5. OneTakesDown
    BY <2>3, <2>4 DEF Init, OneTakesDown, TakingDown
  <2>6. WifiLater /\ StackMarked /\ HostHears
    BY DEF Init, WifiLater, BootWindowFirst, StackMarked, HostHears
  <2>7. LateGuest /\ ClientHasConfigMode /\ ConfigModeHasOwner
    BY DEF Init, LateGuest, ClientHasConfigMode, ConfigModeHasOwner
  <2> QED BY <2>1, <2>2, <2>5, <2>6, <2>7 DEF WindowInv
<1>2. WindowInv /\ [Next]_vars => WindowInv'
  BY FlagsStep, TypedStep, WifiLaterStep, StackMarkedStep, HostHearsStep, OneTakesDownStep,
     LateGuestStep, ClientStep, OwnerStep DEF WindowInv
<1> QED BY <1>1, <1>2, PTL DEF Spec

\* Whatever windows, stops, disconnections and commands overlap, a connected phone
\* has the configuration mode, the mode has an end, and one task at a time stops
\* NimBLE (bluetooth_config_stop, gap_event_cb, main.c:292-423).
THEOREM PhoneHasItsMode == Spec => []ModeFollowsPhone
<1>1. WindowInv => ModeFollowsPhone
  <2> SUFFICES ASSUME WindowInv PROVE ModeFollowsPhone
    OBVIOUS
  <2>1. {windowOpen, stackStarted, stackStopping, active, timer, configMode,
         startupWindow, advertising, link, advTask, bootTask, configured,
         wifiOn, lost} \subseteq BOOLEAN
    BY DEF WindowInv, FlagsOK, Flag
  <2>2. TypeOK
    BY <2>1 DEF WindowInv, Typed, TypeOK
  <2>3. OneStopsTheStack
    <3> DEFINE down == {s \in Stoppers : stops[s] \in {"halt", "deinit"}}
    <3>1. CASE stackStopping
      <4>1. PICK s \in Stoppers : TakingDown(s)
        BY <3>1 DEF WindowInv, OneTakesDown
      <4>2. down = {s}
        BY <4>1 DEF WindowInv, OneTakesDown, TakingDown
      <4> QED BY <3>1, <4>2, FS_Singleton DEF OneStopsTheStack
    <3>2. CASE ~stackStopping
      <4>1. down = {}
        BY <3>2 DEF WindowInv, OneTakesDown, TakingDown
      <4> QED BY <3>2, <4>1, FS_EmptySet DEF OneStopsTheStack
    <3> QED BY <3>1, <3>2
  <2> QED BY <2>2, <2>3 DEF WindowInv, WifiLater, ModeFollowsPhone
<1> QED BY WindowIsInvariant, <1>1, PTL

=============================================================================
