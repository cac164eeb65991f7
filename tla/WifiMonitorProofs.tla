------------------------ MODULE WifiMonitorProofs ------------------------
(* What holds of WifiMonitor for any limits of its counters.                *)
EXTENDS WifiMonitor, TLAPS

\* The flags, apart from the rest: which of its two values a flag has matters to no
\* step of its type.
Flag(x) == x \in BOOLEAN
FlagsOK ==
  /\ Flag(offline) /\ Flag(otaChecked) /\ Flag(loginTask)
  /\ Flag(sample) /\ Flag(connectado)
  /\ Flag(wifiOn) /\ Flag(joining) /\ Flag(assoc) /\ Flag(ip)
  /\ Flag(claimed) /\ Flag(memory) /\ Flag(socket)

Typed ==
  /\ pc \in {"loop", "try", "start", "join", "back", "delay", "probe", "write", "restart"}
  /\ after \in Calls
  /\ network \in Networks
  /\ falhasWifi \in 0 .. ConnectMaxFails
  /\ falhasIp \in 0 .. IpMaxFails
  /\ ciclos \in 0 .. CycleMaxRetries
  /\ tries \in 0 .. CycleMaxRetries

\* A count at its limit is in the hands of the call that will start it again.
Calling == {"try", "start", "join", "back"}
InSeries ==
  /\ falhasWifi = ConnectMaxFails => after = "ap" /\ pc \in Calling \cup {"delay"}
  /\ falhasIp = IpMaxFails => after = "ip" /\ pc \in Calling \cup {"delay"}

\* No cycle is counted without a call of tentar_conectar_wifi of its own, and the
\* call of the cycle that is to be counted next is made before.
Counted ==
  /\ EveryCycleChecked
  /\ ciclos <= tries
  /\ pc \in Calling /\ after \in {"inactive", "ip", "ap"} => ciclos < tries
  /\ pc = "restart" => ciclos = CycleMaxRetries

MonitorInv == FlagsOK /\ Typed /\ InSeries /\ Counted

-----------------------------------------------------------------------------
(* The steps.                                                               *)

LEMMA NoIpCounted ==
  ASSUME Typed, InSeries, FindNoIp
  PROVE  /\ falhasWifi' = 0 /\ falhasIp' \in 1 .. IpMaxFails
         /\ ciclos' = ciclos /\ tries' = tries /\ network' = network /\ pc = "loop"
         /\ \/ pc' = "loop" /\ after' = after /\ falhasIp' # IpMaxFails
            \/ pc' = "delay" /\ after' = "ip"
<1> USE DEF counters, monitor, station, outside
<1>1. pc = "loop" /\ falhasIp \in 0 .. IpMaxFails - 1
  BY WifiMonitorAssumption DEF FindNoIp, Typed, InSeries, Calling
<1>2. /\ falhasIp' = falhasIp + 1 /\ falhasWifi' = 0
      /\ ciclos' = ciclos /\ tries' = tries /\ network' = network
  BY DEF FindNoIp
<1>3. \/ falhasIp' >= IpMaxFails /\ pc' = "delay" /\ after' = "ip"
      \/ ~(falhasIp' >= IpMaxFails) /\ pc' = pc /\ after' = after
  BY DEF FindNoIp, Recycle
<1> QED BY <1>1, <1>2, <1>3, WifiMonitorAssumption

LEMMA NoApCounted ==
  ASSUME Typed, InSeries, FindNoAp
  PROVE  /\ falhasIp' = 0 /\ falhasWifi' \in 1 .. ConnectMaxFails
         /\ ciclos' = ciclos /\ network' = network /\ pc = "loop"
         /\ \/ /\ pc' = "try" /\ after' = "retry" /\ falhasWifi' # ConnectMaxFails
               /\ tries' \in {tries, tries + 1} /\ tries' <= CycleMaxRetries
            \/ pc' = "delay" /\ after' = "ap" /\ tries' = tries
<1> USE DEF counters, monitor, station, outside
<1>1. pc = "loop" /\ falhasWifi \in 0 .. ConnectMaxFails - 1
  BY WifiMonitorAssumption DEF FindNoAp, Typed, InSeries, Calling
<1>2. /\ falhasWifi' = falhasWifi + 1 /\ falhasIp' = 0
      /\ ciclos' = ciclos /\ network' = network
  BY DEF FindNoAp
<1>3. \/ falhasWifi' < ConnectMaxFails /\ Try("retry")
      \/ ~(falhasWifi' < ConnectMaxFails) /\ pc' = "delay" /\ after' = "ap" /\ tries' = tries
  BY DEF FindNoAp, Recycle
<1>4. Try("retry") => /\ pc' = "try" /\ after' = "retry"
                      /\ tries' \in {tries, tries + 1} /\ tries' <= CycleMaxRetries
  BY WifiMonitorAssumption DEF Try, Typed
<1> QED BY <1>1, <1>2, <1>3, <1>4, WifiMonitorAssumption

LEMMA FlagValues == Flag(TRUE) /\ Flag(FALSE)
BY DEF Flag

LEMMA FlagsStep ==
  ASSUME FlagsOK, [Next]_vars
  PROVE  FlagsOK'
<1> USE FlagValues DEF counters, monitor, station, outside, FlagsOK
<1>1. CASE TryRefused
  BY <1>1 DEF TryRefused
<1>2. CASE TryAllowed
  BY <1>2 DEF TryAllowed
<1>3. CASE DriverStarts
  BY <1>3 DEF DriverStarts
<1>4. CASE JoinReturns
  BY <1>4 DEF JoinReturns
<1>5. CASE Resume
  BY <1>5 DEF Resume, EndOfCycle
<1>6. CASE Restarted
  BY <1>6 DEF Restarted, Try
<1>7. CASE Yield
  BY <1>7 DEF Yield, DriverDown
<1>8. CASE FindInactive
  BY <1>8 DEF FindInactive, Try
<1>9. CASE FindNoIp
  BY <1>9 DEF FindNoIp, Recycle, DriverDown
<1>10. CASE FindNoAp
  BY <1>10 DEF FindNoAp, Recycle, DriverDown, Try
<1>11. CASE FindIp
  BY <1>11 DEF FindIp
<1>12. CASE WriteSample
  BY <1>12 DEF WriteSample
<1>13. CASE Online
  BY <1>13 DEF Online
<1>14. CASE Offline
  BY <1>14 DEF Offline, Recycle, DriverDown
<1>15. CASE EspRestart
  BY <1>15 DEF EspRestart, DriverDown
<1>16. CASE Associate
  BY <1>16 DEF Associate, RestUnchanged
<1>17. CASE GetIp
  BY <1>17 DEF GetIp, RestUnchanged
<1>18. CASE LoseIp
  BY <1>18 DEF LoseIp, RestUnchanged
<1>19. CASE LoseAp
  BY <1>19 DEF LoseAp, RestUnchanged
<1>20. CASE SocketConnects
  BY <1>20 DEF SocketConnects, RestUnchanged
<1>21. CASE SocketBreaks
  BY <1>21 DEF SocketBreaks, RestUnchanged
<1>22. CASE World
  BY <1>22 DEF World
<1>23. CASE UNCHANGED vars
  BY <1>23 DEF vars
<1> QED
  BY <1>1, <1>2, <1>3, <1>4, <1>5, <1>6, <1>7, <1>8, <1>9, <1>10, <1>11, <1>12,
     <1>13, <1>14, <1>15, <1>16, <1>17, <1>18, <1>19, <1>20, <1>21, <1>22, <1>23
     DEF Next, WifiTask

LEMMA TypedStep ==
  ASSUME Typed, InSeries, Counted, [Next]_vars
  PROVE  Typed'
<1> USE DEF counters, monitor, station, outside, Typed
<1>1. CASE TryRefused
  BY <1>1, WifiMonitorAssumption DEF TryRefused,
     Calls, Networks, InSeries, Counted, EveryCycleChecked, Calling
<1>2. CASE TryAllowed
  BY <1>2, WifiMonitorAssumption DEF TryAllowed,
     Calls, Networks, InSeries, Counted, EveryCycleChecked, Calling
<1>3. CASE DriverStarts
  BY <1>3, WifiMonitorAssumption DEF DriverStarts,
     Calls, Networks, InSeries, Counted, EveryCycleChecked, Calling
<1>4. CASE JoinReturns
  BY <1>4, WifiMonitorAssumption DEF JoinReturns,
     Calls, Networks, InSeries, Counted, EveryCycleChecked, Calling
<1>5. CASE Resume
  BY <1>5, WifiMonitorAssumption DEF Resume, EndOfCycle,
     Calls, Networks, InSeries, Counted, EveryCycleChecked, Calling
<1>6. CASE Restarted
  BY <1>6, WifiMonitorAssumption DEF Restarted, Try,
     Calls, Networks, InSeries, Counted, EveryCycleChecked, Calling
<1>7. CASE Yield
  BY <1>7, WifiMonitorAssumption DEF Yield, DriverDown,
     Calls, Networks, InSeries, Counted, EveryCycleChecked, Calling
<1>8. CASE FindInactive
  BY <1>8, WifiMonitorAssumption DEF FindInactive, Try,
     Calls, Networks, InSeries, Counted, EveryCycleChecked, Calling
<1>9. CASE FindNoIp
  BY <1>9, NoIpCounted, WifiMonitorAssumption DEF Typed, Calls
<1>10. CASE FindNoAp
  BY <1>10, NoApCounted, WifiMonitorAssumption DEF Typed, Calls
<1>11. CASE FindIp
  BY <1>11, WifiMonitorAssumption DEF FindIp,
     Calls, Networks, InSeries, Counted, EveryCycleChecked, Calling
<1>12. CASE WriteSample
  BY <1>12, WifiMonitorAssumption DEF WriteSample,
     Calls, Networks, InSeries, Counted, EveryCycleChecked, Calling
<1>13. CASE Online
  BY <1>13, WifiMonitorAssumption DEF Online,
     Calls, Networks, InSeries, Counted, EveryCycleChecked, Calling
<1>14. CASE Offline
  BY <1>14, WifiMonitorAssumption DEF Offline, Recycle, DriverDown,
     Calls, Networks, InSeries, Counted, EveryCycleChecked, Calling
<1>15. CASE EspRestart
  BY <1>15, WifiMonitorAssumption DEF EspRestart, DriverDown,
     Calls, Networks, InSeries, Counted, EveryCycleChecked, Calling
<1>16. CASE Associate
  BY <1>16, WifiMonitorAssumption DEF Associate, RestUnchanged,
     Calls, Networks, InSeries, Counted, EveryCycleChecked, Calling
<1>17. CASE GetIp
  BY <1>17, WifiMonitorAssumption DEF GetIp, RestUnchanged,
     Calls, Networks, InSeries, Counted, EveryCycleChecked, Calling
<1>18. CASE LoseIp
  BY <1>18, WifiMonitorAssumption DEF LoseIp, RestUnchanged,
     Calls, Networks, InSeries, Counted, EveryCycleChecked, Calling
<1>19. CASE LoseAp
  BY <1>19, WifiMonitorAssumption DEF LoseAp, RestUnchanged,
     Calls, Networks, InSeries, Counted, EveryCycleChecked, Calling
<1>20. CASE SocketConnects
  BY <1>20, WifiMonitorAssumption DEF SocketConnects, RestUnchanged,
     Calls, Networks, InSeries, Counted, EveryCycleChecked, Calling
<1>21. CASE SocketBreaks
  BY <1>21, WifiMonitorAssumption DEF SocketBreaks, RestUnchanged,
     Calls, Networks, InSeries, Counted, EveryCycleChecked, Calling
<1>22. CASE World
  BY <1>22, WifiMonitorAssumption DEF World,
     Calls, Networks, InSeries, Counted, EveryCycleChecked, Calling
<1>23. CASE UNCHANGED vars
  BY <1>23 DEF vars
<1> QED
  BY <1>1, <1>2, <1>3, <1>4, <1>5, <1>6, <1>7, <1>8, <1>9, <1>10, <1>11, <1>12,
     <1>13, <1>14, <1>15, <1>16, <1>17, <1>18, <1>19, <1>20, <1>21, <1>22, <1>23
     DEF Next, WifiTask

LEMMA SeriesStep ==
  ASSUME Typed, InSeries, [Next]_vars
  PROVE  InSeries'
<1> USE DEF counters, monitor, station, outside, InSeries, Calling
<1>1. CASE TryRefused
  BY <1>1, WifiMonitorAssumption DEF TryRefused, Typed
<1>2. CASE TryAllowed
  BY <1>2, WifiMonitorAssumption DEF TryAllowed, Typed
<1>3. CASE DriverStarts
  BY <1>3, WifiMonitorAssumption DEF DriverStarts, Typed
<1>4. CASE JoinReturns
  BY <1>4, WifiMonitorAssumption DEF JoinReturns, Typed
<1>5. CASE Resume
  BY <1>5, WifiMonitorAssumption DEF Resume, EndOfCycle, Typed
<1>6. CASE Restarted
  BY <1>6, WifiMonitorAssumption DEF Restarted, Try, Typed
<1>7. CASE Yield
  BY <1>7, WifiMonitorAssumption DEF Yield, DriverDown, Typed
<1>8. CASE FindInactive
  BY <1>8, WifiMonitorAssumption DEF FindInactive, Try, Typed
<1>9. CASE FindNoIp
  BY <1>9, NoIpCounted, WifiMonitorAssumption DEF Typed, Calls
<1>10. CASE FindNoAp
  BY <1>10, NoApCounted, WifiMonitorAssumption DEF Typed, Calls
<1>11. CASE FindIp
  BY <1>11, WifiMonitorAssumption DEF FindIp, Typed
<1>12. CASE WriteSample
  BY <1>12, WifiMonitorAssumption DEF WriteSample, Typed
<1>13. CASE Online
  BY <1>13, WifiMonitorAssumption DEF Online, Typed
<1>14. CASE Offline
  BY <1>14, WifiMonitorAssumption DEF Offline, Recycle, DriverDown, Typed
<1>15. CASE EspRestart
  BY <1>15, WifiMonitorAssumption DEF EspRestart, DriverDown, Typed
<1>16. CASE Associate
  BY <1>16, WifiMonitorAssumption DEF Associate, RestUnchanged, Typed
<1>17. CASE GetIp
  BY <1>17, WifiMonitorAssumption DEF GetIp, RestUnchanged, Typed
<1>18. CASE LoseIp
  BY <1>18, WifiMonitorAssumption DEF LoseIp, RestUnchanged, Typed
<1>19. CASE LoseAp
  BY <1>19, WifiMonitorAssumption DEF LoseAp, RestUnchanged, Typed
<1>20. CASE SocketConnects
  BY <1>20, WifiMonitorAssumption DEF SocketConnects, RestUnchanged, Typed
<1>21. CASE SocketBreaks
  BY <1>21, WifiMonitorAssumption DEF SocketBreaks, RestUnchanged, Typed
<1>22. CASE World
  BY <1>22, WifiMonitorAssumption DEF World, Typed
<1>23. CASE UNCHANGED vars
  BY <1>23 DEF vars
<1> QED
  BY <1>1, <1>2, <1>3, <1>4, <1>5, <1>6, <1>7, <1>8, <1>9, <1>10, <1>11, <1>12,
     <1>13, <1>14, <1>15, <1>16, <1>17, <1>18, <1>19, <1>20, <1>21, <1>22, <1>23
     DEF Next, WifiTask

LEMMA CountedStep ==
  ASSUME Typed, InSeries, Counted, [Next]_vars
  PROVE  Counted'
<1> USE DEF counters, monitor, station, outside, Counted, EveryCycleChecked, Calling
<1>1. CASE TryRefused
  BY <1>1, WifiMonitorAssumption DEF TryRefused, Typed
<1>2. CASE TryAllowed
  BY <1>2, WifiMonitorAssumption DEF TryAllowed, Typed
<1>3. CASE DriverStarts
  BY <1>3, WifiMonitorAssumption DEF DriverStarts, Typed
<1>4. CASE JoinReturns
  BY <1>4, WifiMonitorAssumption DEF JoinReturns, Typed
<1>5. CASE Resume
  BY <1>5, WifiMonitorAssumption DEF Resume, EndOfCycle, Typed
<1>6. CASE Restarted
  BY <1>6, WifiMonitorAssumption DEF Restarted, Try, Typed
<1>7. CASE Yield
  BY <1>7, WifiMonitorAssumption DEF Yield, DriverDown, Typed
<1>8. CASE FindInactive
  BY <1>8, WifiMonitorAssumption DEF FindInactive, Try, Typed
<1>9. CASE FindNoIp
  BY <1>9, NoIpCounted, WifiMonitorAssumption DEF Typed, Calls
<1>10. CASE FindNoAp
  BY <1>10, NoApCounted, WifiMonitorAssumption DEF Typed, Calls
<1>11. CASE FindIp
  BY <1>11, WifiMonitorAssumption DEF FindIp, Typed
<1>12. CASE WriteSample
  BY <1>12, WifiMonitorAssumption DEF WriteSample, Typed
<1>13. CASE Online
  BY <1>13, WifiMonitorAssumption DEF Online, Typed
<1>14. CASE Offline
  BY <1>14, WifiMonitorAssumption DEF Offline, Recycle, DriverDown, Typed
<1>15. CASE EspRestart
  BY <1>15, WifiMonitorAssumption DEF EspRestart, DriverDown, Typed
<1>16. CASE Associate
  BY <1>16, WifiMonitorAssumption DEF Associate, RestUnchanged, Typed
<1>17. CASE GetIp
  BY <1>17, WifiMonitorAssumption DEF GetIp, RestUnchanged, Typed
<1>18. CASE LoseIp
  BY <1>18, WifiMonitorAssumption DEF LoseIp, RestUnchanged, Typed
<1>19. CASE LoseAp
  BY <1>19, WifiMonitorAssumption DEF LoseAp, RestUnchanged, Typed
<1>20. CASE SocketConnects
  BY <1>20, WifiMonitorAssumption DEF SocketConnects, RestUnchanged, Typed
<1>21. CASE SocketBreaks
  BY <1>21, WifiMonitorAssumption DEF SocketBreaks, RestUnchanged, Typed
<1>22. CASE World
  BY <1>22, WifiMonitorAssumption DEF World, Typed
<1>23. CASE UNCHANGED vars
  BY <1>23 DEF vars
<1> QED
  BY <1>1, <1>2, <1>3, <1>4, <1>5, <1>6, <1>7, <1>8, <1>9, <1>10, <1>11, <1>12,
     <1>13, <1>14, <1>15, <1>16, <1>17, <1>18, <1>19, <1>20, <1>21, <1>22, <1>23
     DEF Next, WifiTask

LEMMA ModeStep ==
  ASSUME FlagsOK, Typed, [Next]_vars
  PROVE  [Mode!Next \/ EspRestart]_(Mode!mvars)
<1> USE DEF counters, monitor, station, outside, Mode!Next, Mode!mvars
<1>1. CASE TryRefused
  BY <1>1 DEF TryRefused, FlagsOK, Flag, Mode!Claim, Mode!Allow, Mode!Start, Mode!Stop
<1>2. CASE TryAllowed
  BY <1>2 DEF TryAllowed, FlagsOK, Flag, Mode!Claim, Mode!Allow, Mode!Start, Mode!Stop
<1>3. CASE DriverStarts
  BY <1>3 DEF DriverStarts, FlagsOK, Flag, Mode!Claim, Mode!Allow, Mode!Start, Mode!Stop
<1>4. CASE JoinReturns
  BY <1>4 DEF JoinReturns, FlagsOK, Flag, Mode!Claim, Mode!Allow, Mode!Start, Mode!Stop
<1>5. CASE Resume
  BY <1>5 DEF Resume, EndOfCycle, FlagsOK, Flag, Mode!Claim, Mode!Allow, Mode!Start, Mode!Stop
<1>6. CASE Restarted
  BY <1>6 DEF Restarted, Try, FlagsOK, Flag, Mode!Claim, Mode!Allow, Mode!Start, Mode!Stop
<1>7. CASE Yield
  BY <1>7 DEF Yield, DriverDown, FlagsOK, Flag, Mode!Claim, Mode!Allow, Mode!Start, Mode!Stop
<1>8. CASE FindInactive
  BY <1>8 DEF FindInactive, Try, FlagsOK, Flag, Mode!Claim, Mode!Allow, Mode!Start, Mode!Stop
<1>9. CASE FindNoIp
  BY <1>9 DEF FindNoIp, Recycle, DriverDown,
     FlagsOK, Flag, Mode!Claim, Mode!Allow, Mode!Start, Mode!Stop
<1>10. CASE FindNoAp
  BY <1>10 DEF FindNoAp, Recycle, DriverDown, Try,
     FlagsOK, Flag, Mode!Claim, Mode!Allow, Mode!Start, Mode!Stop
<1>11. CASE FindIp
  BY <1>11 DEF FindIp, FlagsOK, Flag, Mode!Claim, Mode!Allow, Mode!Start, Mode!Stop
<1>12. CASE WriteSample
  BY <1>12 DEF WriteSample, FlagsOK, Flag, Mode!Claim, Mode!Allow, Mode!Start, Mode!Stop
<1>13. CASE Online
  BY <1>13 DEF Online, FlagsOK, Flag, Mode!Claim, Mode!Allow, Mode!Start, Mode!Stop
<1>14. CASE Offline
  BY <1>14 DEF Offline, Recycle, DriverDown,
     FlagsOK, Flag, Mode!Claim, Mode!Allow, Mode!Start, Mode!Stop
<1>15. CASE EspRestart
  BY <1>15 DEF EspRestart, DriverDown,
     FlagsOK, Flag, Mode!Claim, Mode!Allow, Mode!Start, Mode!Stop
<1>16. CASE Associate
  BY <1>16 DEF Associate, RestUnchanged,
     FlagsOK, Flag, Mode!Claim, Mode!Allow, Mode!Start, Mode!Stop
<1>17. CASE GetIp
  BY <1>17 DEF GetIp, RestUnchanged,
     FlagsOK, Flag, Mode!Claim, Mode!Allow, Mode!Start, Mode!Stop
<1>18. CASE LoseIp
  BY <1>18 DEF LoseIp, RestUnchanged,
     FlagsOK, Flag, Mode!Claim, Mode!Allow, Mode!Start, Mode!Stop
<1>19. CASE LoseAp
  BY <1>19 DEF LoseAp, RestUnchanged,
     FlagsOK, Flag, Mode!Claim, Mode!Allow, Mode!Start, Mode!Stop
<1>20. CASE SocketConnects
  BY <1>20 DEF SocketConnects, RestUnchanged,
     FlagsOK, Flag, Mode!Claim, Mode!Allow, Mode!Start, Mode!Stop
<1>21. CASE SocketBreaks
  BY <1>21 DEF SocketBreaks, RestUnchanged,
     FlagsOK, Flag, Mode!Claim, Mode!Allow, Mode!Start, Mode!Stop
<1>22. CASE World
  BY <1>22 DEF World, FlagsOK, Flag, Mode!Claim, Mode!Allow, Mode!Start, Mode!Stop
<1>23. CASE UNCHANGED vars
  BY <1>23 DEF vars
<1> QED
  BY <1>1, <1>2, <1>3, <1>4, <1>5, <1>6, <1>7, <1>8, <1>9, <1>10, <1>11, <1>12,
     <1>13, <1>14, <1>15, <1>16, <1>17, <1>18, <1>19, <1>20, <1>21, <1>22, <1>23
     DEF Next, WifiTask

-----------------------------------------------------------------------------
(* The theorems.                                                            *)

\* Together these are inductive: the restart is counted right because each cycle
\* has a call of its own.
THEOREM MonitorIsInvariant == Spec => []MonitorInv
<1>1. Init => MonitorInv
  <2> SUFFICES ASSUME Init PROVE MonitorInv
    OBVIOUS
  <2>1. FlagsOK
    BY DEF Init, FlagsOK, Flag
  <2>2. Typed /\ InSeries /\ Counted
    BY WifiMonitorAssumption DEF Init, Typed, Calls, InSeries, Counted, EveryCycleChecked
  <2> QED BY <2>1, <2>2 DEF MonitorInv
<1>2. MonitorInv /\ [Next]_vars => MonitorInv'
  BY FlagsStep, TypedStep, SeriesStep, CountedStep DEF MonitorInv
<1> QED BY <1>1, <1>2, PTL DEF Spec

\* wifi_task restarts the ESP32 at the limit of its fruitless cycles, on each of the
\* four paths that count one, and never before so many calls of
\* tentar_conectar_wifi (main.c:459-527).
THEOREM RestartIsCounted == Spec => []RestartsCounted
<1>1. MonitorInv => RestartsCounted
  <2> SUFFICES ASSUME MonitorInv PROVE RestartsCounted
    OBVIOUS
  <2>1. {offline, otaChecked, loginTask, sample, connectado, wifiOn, joining, assoc, ip,
         claimed, memory, socket} \subseteq BOOLEAN
    BY DEF MonitorInv, FlagsOK, Flag
  <2>2. TypeOK
    BY <2>1 DEF MonitorInv, Typed, TypeOK
  <2>3. RestartAfterTries
    BY WifiMonitorAssumption DEF MonitorInv, Counted, Typed, RestartAfterTries
  <2> QED BY <2>2, <2>3 DEF MonitorInv, Counted, RestartsCounted
<1> QED BY MonitorIsInvariant, <1>1, PTL

\* wifi_task starts the driver only after it found the gateway unclaimed, and each
\* of its steps is one of RadioMode, or the restart of the ESP32.
THEOREM MonitorKeepsMode ==
  Spec => Mode!Init /\ [][Mode!Next \/ EspRestart]_(Mode!mvars)
<1>1. Init => Mode!Init
  BY DEF Init, Mode!Init
<1>2. MonitorInv /\ [Next]_vars => [Mode!Next \/ EspRestart]_(Mode!mvars)
  BY ModeStep DEF MonitorInv
<1> QED BY MonitorIsInvariant, <1>1, <1>2, PTL DEF Spec

=============================================================================
