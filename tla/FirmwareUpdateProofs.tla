---------------------- MODULE FirmwareUpdateProofs ----------------------
(* What holds of FirmwareUpdate for any images, sizes and limits.           *)
EXTENDS FirmwareUpdate, TLAPS

\* A device that is not up has lost all that was in RAM.
Quiet ==
  /\ mutex = "free"
  /\ session = NoSession
  /\ rxPc = "idle"
  /\ checkPc = "idle"
  /\ restarting = FALSE

\* How the mutex, the session and the phases of the two updates go together.
UpdatePhases ==
  /\ LockMatchesWork
  /\ power # "up" => Quiet
  /\ rxPc = "erase" => ~session.active
  /\ rxPc = "verify" => session.active
  /\ BleWriting \/ checkPc = "download" => MayBegin
  /\ BleWriting => flash[Passive].chunks = session.received

\* The slots, otadata and the slot that runs.
SlotsInUse ==
  /\ Whole(running)
  /\ otaState[running] \in {"undefined", "valid", "pending"}
  /\ otaState["ota_1"] = "undefined" =>
       running = "ota_0" /\ bootSlot = "ota_0" /\ otaState["ota_0"] = "undefined"
  /\ bootSlot = "ota_0" /\ otaState["ota_0"] = "undefined" =>
       otaState["ota_1"] = "undefined"
  /\ otaState[running] = "pending" => bootSlot = running
  /\ bootSlot = Passive => otaState[Passive] \in {"new", "pending", "aborted"}
  /\ otaState[Passive] = "new" => bootSlot = Passive
  /\ FallbackKept

\* What waits in the passive slot belongs to this project, and while the device is
\* up a restart to it is on its way, unless one was missed.
OwnStaged ==
  /\ flash[running].image \in Own
  /\ checkPc = "download" => flash[Passive].image \in Own
  /\ otaState[running] = "pending" => flash[Passive].image \in Own
  /\ otaState[Passive] = "new" =>
       /\ power = "up" => RestartDue
       /\ power # "booting"
       /\ Whole(Passive) => flash[Passive].image \in Own
StagedIsOwn == missed \/ OwnStaged

\* What "ready" stands for.  While the device is down or the bootloader runs, the
\* image may already have been taken, tried and given up; firmware_ota_init then
\* replaces the state by that of the slot that runs.
ReadyAndStaged ==
  status = "ready" =>
    /\ ~BleWriting /\ ~HttpsWriting
    /\ \/ /\ bootSlot = Passive
          /\ Whole(Passive)
          /\ otaState[Passive] = "new" \/ otaState[running] = "undefined"
       \/ power # "up" /\ otaState[running] \in {"pending", "valid"}

\* What ota_check is after is newer than what runs: the version it expects, then
\* the image it writes.
NewerOnly ==
  /\ checkPc \in {"open", "header"} => expected > Current
  /\ checkPc = "download" => Version[flash[Passive].image] > Current

-----------------------------------------------------------------------------
LEMMA PhasesStep ==
  TypeOK /\ UpdatePhases /\ [Next]_vars => UpdatePhases'
<1> SUFFICES ASSUME TypeOK, UpdatePhases, [Next]_vars PROVE UpdatePhases'
  OBVIOUS
<1> USE DEF bootVars, nvsVars, bleVars, checkVars, restartVars, UpdatePhases, Quiet,
            LockMatchesWork, BleWriting, HttpsWriting, MayBegin, NoSession, Passive
<1>1. CASE PowerLoss
  BY <1>1 DEF PowerLoss, GoDown
<1>2. CASE Restart
  BY <1>2 DEF Restart, GoDown
<1>3. CASE BootLoader
  BY <1>3 DEF BootLoader, Tried, TypeOK
<1>4. CASE InitApp
  BY <1>4 DEF InitApp
<1>5. CASE Validate
  BY <1>5 DEF Validate, TypeOK
<1>6. ASSUME NEW i \in Images, NEW n \in 1 .. Chunks, RxBegin(i, n)
     PROVE  UpdatePhases'
  BY <1>6 DEF RxBegin, Receive, Erased, TypeOK, Contents, Other, Slots
<1>7. CASE RxBusy
  BY <1>7 DEF RxBusy, Receive, Refuse
<1>8. CASE RxBeginOnTrial
  BY <1>8 DEF RxBeginOnTrial, Receive, Release, GoDown
<1>9. CASE RxErased
  BY <1>9 DEF RxErased, Release, GoDown, NoSession, TypeOK, Sessions
<1>10. CASE HostWrite
  BY <1>10 DEF HostWrite, Release, GoDown, Written, TypeOK, Sessions,
     Contents, Other, Slots
<1>11. CASE RxFinish
  BY <1>11 DEF RxFinish, Receive
<1>12. CASE RxInstall
  BY <1>12 DEF RxInstall, Select, TypeOK, Sessions, Other, Slots
<1>13. CASE RxReject
  BY <1>13 DEF RxReject, Release, GoDown
<1>14. CASE RxAbandon
  BY <1>14 DEF RxAbandon, Receive, Release, GoDown
<1>15. CASE RxNothingToEnd
  BY <1>15 DEF RxNothingToEnd, Receive, Refuse
<1>16. ASSUME NEW cmd \in Commands, PhoneSends(cmd)
     PROVE  UpdatePhases'
  BY <1>16 DEF PhoneSends
<1>17. CASE Window
  BY <1>17 DEF Window
<1>18. CASE StopBle
  BY <1>18 DEF StopBle, Release, GoDown
<1>19. CASE CheckStart
  BY <1>19 DEF CheckStart, CheckUnchanged
<1>20. ASSUME NEW i \in Images, CheckFetch(i)
     PROVE  UpdatePhases'
  BY <1>20 DEF CheckFetch, CheckUnchanged, NextAttempt
<1>21. ASSUME NEW i \in Images, CheckHeader(i)
     PROVE  UpdatePhases'
  BY <1>21 DEF CheckHeader, CheckUnchanged, Erased, TypeOK
<1>22. CASE CheckOpen
  BY <1>22 DEF CheckOpen, CheckUnchanged, NextAttempt
<1>23. CASE CheckWrite
  BY <1>23 DEF CheckWrite, CheckUnchanged, Written, TypeOK
<1>24. CASE CheckInstall
  BY <1>24 DEF CheckInstall, CheckUnchanged, Select, TypeOK, Other, Slots
<1>25. CASE CheckFail
  BY <1>25 DEF CheckFail, CheckUnchanged, NextAttempt
<1>26. CASE UNCHANGED vars
  BY <1>26 DEF vars
<1> QED
  BY <1>1, <1>2, <1>3, <1>4, <1>5, <1>6, <1>7, <1>8, <1>9, <1>10, <1>11,
     <1>12, <1>13, <1>14, <1>15, <1>16, <1>17, <1>18, <1>19, <1>20, <1>21,
     <1>22, <1>23, <1>24, <1>25, <1>26 DEF Next, Power, BleStep, CheckStep

-----------------------------------------------------------------------------
(* Type correctness, the Boolean variables first.                           *)

LEMMA FlagsStep == FlagsOK /\ [Next]_vars => FlagsOK'
<1> SUFFICES ASSUME FlagsOK, [Next]_vars PROVE FlagsOK'
  OBVIOUS
<1> USE DEF bootVars, nvsVars, bleVars, checkVars, restartVars, FlagsOK
<1>1. CASE PowerLoss
  BY <1>1 DEF PowerLoss, GoDown
<1>2. CASE Restart
  BY <1>2 DEF Restart, GoDown
<1>3. CASE BootLoader
  BY <1>3 DEF BootLoader
<1>4. CASE InitApp
  BY <1>4 DEF InitApp
<1>5. CASE Validate
  BY <1>5 DEF Validate
<1>6. ASSUME NEW i \in Images, NEW n \in 1 .. Chunks, RxBegin(i, n)
     PROVE  FlagsOK'
  BY <1>6 DEF RxBegin, Receive
<1>7. CASE RxBusy
  BY <1>7 DEF RxBusy, Receive, Refuse
<1>8. CASE RxBeginOnTrial
  BY <1>8 DEF RxBeginOnTrial, Receive, Release, GoDown
<1>9. CASE RxErased
  BY <1>9 DEF RxErased, Release, GoDown
<1>10. CASE HostWrite
  BY <1>10 DEF HostWrite, Release, GoDown
<1>11. CASE RxFinish
  BY <1>11 DEF RxFinish, Receive
<1>12. CASE RxInstall
  BY <1>12 DEF RxInstall
<1>13. CASE RxReject
  BY <1>13 DEF RxReject, Release, GoDown
<1>14. CASE RxAbandon
  BY <1>14 DEF RxAbandon, Receive, Release, GoDown
<1>15. CASE RxNothingToEnd
  BY <1>15 DEF RxNothingToEnd, Receive, Refuse
<1>16. ASSUME NEW cmd \in Commands, PhoneSends(cmd)
     PROVE  FlagsOK'
  BY <1>16 DEF PhoneSends
<1>17. CASE Window
  BY <1>17 DEF Window
<1>18. CASE StopBle
  BY <1>18 DEF StopBle, Release, GoDown
<1>19. CASE CheckStart
  BY <1>19 DEF CheckStart, CheckUnchanged
<1>20. ASSUME NEW i \in Images, CheckFetch(i)
     PROVE  FlagsOK'
  BY <1>20 DEF CheckFetch, CheckUnchanged, NextAttempt
<1>21. ASSUME NEW i \in Images, CheckHeader(i)
     PROVE  FlagsOK'
  BY <1>21 DEF CheckHeader, CheckUnchanged
<1>22. CASE CheckOpen
  BY <1>22 DEF CheckOpen, CheckUnchanged, NextAttempt
<1>23. CASE CheckWrite
  BY <1>23 DEF CheckWrite, CheckUnchanged
<1>24. CASE CheckInstall
  BY <1>24 DEF CheckInstall, CheckUnchanged
<1>25. CASE CheckFail
  BY <1>25 DEF CheckFail, CheckUnchanged, NextAttempt
<1>26. CASE UNCHANGED vars
  BY <1>26 DEF vars
<1> QED
  BY <1>1, <1>2, <1>3, <1>4, <1>5, <1>6, <1>7, <1>8, <1>9, <1>10, <1>11,
     <1>12, <1>13, <1>14, <1>15, <1>16, <1>17, <1>18, <1>19, <1>20, <1>21,
     <1>22, <1>23, <1>24, <1>25, <1>26 DEF Next, Power, BleStep, CheckStep

LEMMA Cleared == NoSession \in Sessions /\ <<>> \in Seq(Commands)
<1>1. FALSE \in BOOLEAN
  OBVIOUS
<1>2. 0 \in 0 .. Chunks
  BY SizeAssumption
<1>3. NoSession \in Sessions
  BY <1>1, <1>2, Zenon DEF NoSession, Sessions
<1>4. <<>> \in Seq(Commands)
  OBVIOUS
<1> QED
  BY <1>3, <1>4

LEMMA Activated ==
  ASSUME NEW s \in Sessions
  PROVE  [s EXCEPT !.active = TRUE] \in Sessions
<1>1. TRUE \in BOOLEAN
  OBVIOUS
<1> QED
  BY <1>1, Zenon DEF Sessions

LEMMA Started ==
  ASSUME NEW n \in 1 .. Chunks
  PROVE  [active |-> FALSE, size |-> n, received |-> 0] \in Sessions
<1>1. FALSE \in BOOLEAN
  OBVIOUS
<1>2. 0 \in 0 .. Chunks /\ n \in 0 .. Chunks
  BY SizeAssumption
<1> QED
  BY <1>1, <1>2, Zenon DEF Sessions

LEMMA PassiveSlot == running \in Slots => Passive \in Slots /\ Passive # running
BY DEF Passive, Slots, Other

LEMMA Grown ==
  ASSUME flash \in [Slots -> Contents], running \in Slots,
         flash[Passive].chunks # Chunks
  PROVE  Written \in [Slots -> Contents]
<1> DEFINE c == flash[Passive]
<1>1. c \in Contents
  BY PassiveSlot
<1>2. c.chunks + 1 \in 0 .. Chunks
  BY <1>1, SizeAssumption DEF Contents
<1>3. [c EXCEPT !.chunks = @ + 1] \in Contents
  BY <1>1, <1>2 DEF Contents
<1>4. Written = [flash EXCEPT ![Passive] = [c EXCEPT !.chunks = @ + 1]]
  BY DEF Written
<1> QED
  BY <1>3, <1>4, PassiveSlot

LEMMA ReleaseType ==
  ASSUME TypeOK, FlagsOK', NEW t, NEW q \in Seq(Commands),
         NEW w \in {"closed", "advertising", "connected", "stopping"},
         Release(t, q, w), UNCHANGED bootVars
  PROVE  TypeOK'
<1> USE Cleared, SizeAssumption DEF bootVars, nvsVars, bleVars, checkVars, restartVars, TypeOK
<1>1. CASE mutex \in {t, "free"}
  BY <1>1 DEF Release
<1>2. CASE mutex \notin {t, "free"}
  <2>1. GoDown("panic") /\ status' = "failed"
    BY <1>2 DEF Release
  <2> QED
    BY <2>1 DEF GoDown
<1> QED
  BY <1>1, <1>2

LEMMA TypeStep ==
  TypeOK /\ UpdatePhases /\ [Next]_vars => TypeOK'
<1> SUFFICES ASSUME TypeOK, UpdatePhases, [Next]_vars PROVE TypeOK'
  OBVIOUS
<1>0. FlagsOK'
  BY FlagsStep DEF TypeOK
<1> USE <1>0, Cleared, ImageAssumption, SizeAssumption
<1> USE DEF bootVars, nvsVars, bleVars, checkVars, restartVars, TypeOK
<1>1. CASE PowerLoss
  BY <1>1 DEF PowerLoss, GoDown
<1>2. CASE Restart
  BY <1>2 DEF Restart, GoDown
<1>3. CASE BootLoader
  BY <1>3 DEF BootLoader, Tried, Usable, Selected, Slots, Other
<1>4. CASE InitApp
  BY <1>4 DEF InitApp, Current, Slots, Contents
<1>5. CASE Validate
  BY <1>5 DEF Validate
<1>6. ASSUME NEW i \in Images, NEW n \in 1 .. Chunks, RxBegin(i, n)
     PROVE  TypeOK'
  BY <1>6, Started DEF RxBegin, Receive, Erased, Passive, Slots, Other,
     Contents
<1>7. CASE RxBusy
  BY <1>7 DEF RxBusy, Receive, Refuse
<1>8. CASE RxBeginOnTrial
  <2>1. Tail(inbox) \in Seq(Commands)
    BY <1>8 DEF RxBeginOnTrial, Receive
  <2>2. \E q \in Seq(Commands) : Release("rx", q, ble) /\ UNCHANGED bootVars
    BY <1>8, <2>1, Zenon DEF RxBeginOnTrial
  <2> QED
    BY <2>2, ReleaseType
<1>9. CASE RxErased
  <2>1. CASE Release("rx", inbox, ble)
    BY <1>9, <2>1, ReleaseType DEF RxErased
  <2>2. CASE ~Release("rx", inbox, ble)
    BY <1>9, <2>2, Activated DEF RxErased
  <2> QED
    BY <2>1, <2>2
<1>10. CASE HostWrite
  <2>1. flash[Passive].chunks # Chunks /\ session.received + 1 \in 0 .. Chunks
    BY <1>10 DEF HostWrite, UpdatePhases, BleWriting, Sessions
  <2>2. [session EXCEPT !.received = @ + 1] \in Sessions
    BY <2>1 DEF Sessions
  <2>3. CASE Release("host", inbox, ble) /\ UNCHANGED bootVars
    BY <2>3, ReleaseType
  <2>4. CASE ~(Release("host", inbox, ble) /\ UNCHANGED bootVars)
    BY <1>10, <2>1, <2>2, <2>4, Grown DEF HostWrite
  <2> QED
    BY <2>3, <2>4
<1>11. CASE RxFinish
  BY <1>11 DEF RxFinish, Receive
<1>12. CASE RxInstall
  BY <1>12 DEF RxInstall, Select, Passive, Slots, Other
<1>13. CASE RxReject
  BY <1>13, ReleaseType DEF RxReject
<1>14. CASE RxAbandon
  <2>1. Tail(inbox) \in Seq(Commands)
    BY <1>14 DEF RxAbandon, Receive
  <2>2. \E q \in Seq(Commands) : Release("rx", q, ble) /\ UNCHANGED bootVars
    BY <1>14, <2>1, Zenon DEF RxAbandon
  <2> QED
    BY <2>2, ReleaseType
<1>15. CASE RxNothingToEnd
  BY <1>15 DEF RxNothingToEnd, Receive, Refuse
<1>16. ASSUME NEW cmd \in Commands, PhoneSends(cmd)
     PROVE  TypeOK'
  BY <1>16 DEF PhoneSends
<1>17. CASE Window
  BY <1>17 DEF Window
<1>18. CASE StopBle
  <2>1. CASE session.active
    BY <1>18, <2>1, ReleaseType DEF StopBle
  <2>2. CASE ~session.active
    BY <1>18, <2>2 DEF StopBle
  <2> QED
    BY <2>1, <2>2
<1>19. CASE CheckStart
  BY <1>19 DEF CheckStart, CheckUnchanged
<1>20. ASSUME NEW i \in Images, CheckFetch(i)
     PROVE  TypeOK'
  BY <1>20 DEF CheckFetch, CheckUnchanged, NextAttempt
<1>21. ASSUME NEW i \in Images, CheckHeader(i)
     PROVE  TypeOK'
  BY <1>21 DEF CheckHeader, CheckUnchanged, Erased, Passive, Slots, Other,
     Contents
<1>22. CASE CheckOpen
  BY <1>22 DEF CheckOpen, CheckUnchanged, NextAttempt
<1>23. CASE CheckWrite
  BY <1>23, Grown DEF CheckWrite, CheckUnchanged, Whole
<1>24. CASE CheckInstall
  BY <1>24 DEF CheckInstall, CheckUnchanged, Select, Passive, Slots, Other
<1>25. CASE CheckFail
  BY <1>25 DEF CheckFail, CheckUnchanged, NextAttempt
<1>26. CASE UNCHANGED vars
  BY <1>26 DEF vars
<1> QED
  BY <1>1, <1>2, <1>3, <1>4, <1>5, <1>6, <1>7, <1>8, <1>9, <1>10, <1>11,
     <1>12, <1>13, <1>14, <1>15, <1>16, <1>17, <1>18, <1>19, <1>20, <1>21,
     <1>22, <1>23, <1>24, <1>25, <1>26 DEF Next, Power, BleStep, CheckStep

LEMMA SlotsStep ==
  TypeOK /\ UpdatePhases /\ SlotsInUse /\ [Next]_vars => SlotsInUse'
<1> SUFFICES ASSUME TypeOK, UpdatePhases, SlotsInUse, [Next]_vars PROVE SlotsInUse'
  OBVIOUS
<1> USE SizeAssumption
<1> USE DEF bootVars, nvsVars, bleVars, checkVars, restartVars, SlotsInUse, FallbackKept, Passive, Whole
<1>1. CASE PowerLoss
  BY <1>1 DEF PowerLoss, GoDown
<1>2. CASE Restart
  BY <1>2 DEF Restart, GoDown
<1>3. CASE BootLoader
  <2>1. /\ running \in Slots /\ bootSlot \in Slots /\ bootSlot' = bootSlot /\ flash' = flash
        /\ Tried \in [Slots -> {"undefined", "new", "valid", "aborted"}]
    BY <1>3 DEF BootLoader, TypeOK, Tried
  <2>2. /\ Selected \in Slots /\ running' \in Slots
        /\ otaState' = [Tried EXCEPT ![Selected] = IF @ = "new" THEN "pending" ELSE @]
        /\ Whole(running')
        /\ running' = Selected \/ ~Whole(Selected)
    BY <1>3, <2>1 DEF BootLoader, Selected, Slots, Other
  <2>3. \A s \in Slots : Tried[s] = IF otaState[s] = "pending" THEN "aborted" ELSE otaState[s]
    BY DEF Tried
  <2>4. Selected = IF Usable(bootSlot) THEN bootSlot
                   ELSE IF Usable(Other(bootSlot)) THEN Other(bootSlot) ELSE "ota_0"
    BY DEF Selected
  <2> HIDE <1>3 DEF Tried, Selected
  <2>5. CASE running = "ota_0"
    BY <2>1, <2>2, <2>3, <2>4, <2>5 DEF Usable, Slots, Other
  <2>6. CASE running = "ota_1"
    BY <2>1, <2>2, <2>3, <2>4, <2>6 DEF Usable, Slots, Other
  <2> QED BY <2>1, <2>5, <2>6 DEF Slots
<1>4. CASE InitApp
  BY <1>4 DEF InitApp
<1>5. CASE Validate
  BY <1>5 DEF Validate, TypeOK, Slots, Other
<1>6. ASSUME NEW i \in Images, NEW n \in 1 .. Chunks, RxBegin(i, n)
     PROVE  SlotsInUse'
  BY <1>6 DEF RxBegin, Receive, Erased, MayBegin, TypeOK, Contents, Slots,
     Other
<1>7. CASE RxBusy
  BY <1>7 DEF RxBusy, Receive, Refuse
<1>8. CASE RxBeginOnTrial
  BY <1>8 DEF RxBeginOnTrial, Receive, Release, GoDown
<1>9. CASE RxErased
  BY <1>9 DEF RxErased, Release, GoDown
<1>10. CASE HostWrite
  BY <1>10 DEF HostWrite, Release, GoDown, NoSession, Written, TypeOK,
     Contents, Slots, Other, UpdatePhases, BleWriting, MayBegin
<1>11. CASE RxFinish
  BY <1>11 DEF RxFinish, Receive
<1>12. CASE RxInstall
  BY <1>12 DEF RxInstall, Select, TypeOK, Slots, Other, UpdatePhases,
     BleWriting, MayBegin
<1>13. CASE RxReject
  BY <1>13 DEF RxReject, Release, GoDown
<1>14. CASE RxAbandon
  BY <1>14 DEF RxAbandon, Receive, Release, GoDown
<1>15. CASE RxNothingToEnd
  BY <1>15 DEF RxNothingToEnd, Receive, Refuse
<1>16. ASSUME NEW cmd \in Commands, PhoneSends(cmd)
     PROVE  SlotsInUse'
  BY <1>16 DEF PhoneSends
<1>17. CASE Window
  BY <1>17 DEF Window
<1>18. CASE StopBle
  BY <1>18 DEF StopBle, Release, GoDown
<1>19. CASE CheckStart
  BY <1>19 DEF CheckStart, CheckUnchanged
<1>20. ASSUME NEW i \in Images, CheckFetch(i)
     PROVE  SlotsInUse'
  BY <1>20 DEF CheckFetch, CheckUnchanged, NextAttempt
<1>21. ASSUME NEW i \in Images, CheckHeader(i)
     PROVE  SlotsInUse'
  BY <1>21 DEF CheckHeader, CheckUnchanged, Erased, MayBegin, TypeOK,
     Contents, Slots, Other
<1>22. CASE CheckOpen
  BY <1>22 DEF CheckOpen, CheckUnchanged, NextAttempt
<1>23. CASE CheckWrite
  BY <1>23 DEF CheckWrite, CheckUnchanged, Written, TypeOK, Contents, Slots,
     Other, UpdatePhases, MayBegin
<1>24. CASE CheckInstall
  <2>1. otaState[running] # "pending"
    BY <1>24 DEF CheckInstall, UpdatePhases, MayBegin
  <2>2. CASE running = "ota_0"
    BY <1>24, <2>1, <2>2 DEF CheckInstall, CheckUnchanged, Select, TypeOK, Slots, Other
  <2>3. CASE running = "ota_1"
    BY <1>24, <2>1, <2>3 DEF CheckInstall, CheckUnchanged, Select, TypeOK, Slots, Other
  <2> QED
    BY <2>2, <2>3 DEF TypeOK, Slots
<1>25. CASE CheckFail
  BY <1>25 DEF CheckFail, CheckUnchanged, NextAttempt
<1>26. CASE UNCHANGED vars
  BY <1>26 DEF vars
<1> QED
  BY <1>1, <1>2, <1>3, <1>4, <1>5, <1>6, <1>7, <1>8, <1>9, <1>10, <1>11,
     <1>12, <1>13, <1>14, <1>15, <1>16, <1>17, <1>18, <1>19, <1>20, <1>21,
     <1>22, <1>23, <1>24, <1>25, <1>26 DEF Next, Power, BleStep, CheckStep

\* A restart that was missed stays so.
LEMMA MissedStays == [Next]_vars /\ missed => missed'
<1> SUFFICES ASSUME [Next]_vars, missed PROVE missed'
  OBVIOUS
<1> USE DEF restartVars
<1>1. CASE PowerLoss \/ Restart
  BY <1>1 DEF PowerLoss, Restart, GoDown
<1>2. CASE BootLoader \/ InitApp \/ Validate
  BY <1>2 DEF BootLoader, InitApp, Validate
<1>3. CASE BleStep
  BY <1>3 DEF BleStep, RxBegin, RxBusy, RxBeginOnTrial, RxErased, HostWrite, RxFinish,
     RxInstall, RxReject, RxAbandon, RxNothingToEnd, PhoneSends, Window, StopBle,
     Refuse, Release, GoDown
<1>4. CASE CheckStep
  BY <1>4 DEF CheckStep, CheckStart, CheckFetch, CheckHeader, CheckOpen, CheckWrite,
     CheckInstall, CheckFail, CheckUnchanged
<1>5. CASE UNCHANGED vars
  BY <1>5 DEF vars
<1> QED
  BY <1>1, <1>2, <1>3, <1>4, <1>5 DEF Next, Power

LEMMA OwnStep ==
  ASSUME RestartMs < TransferMs
  PROVE  TypeOK /\ UpdatePhases /\ SlotsInUse /\ StagedIsOwn /\ [Next]_vars => StagedIsOwn'
<1> SUFFICES ASSUME TypeOK, UpdatePhases, SlotsInUse, OwnStaged, [Next]_vars, ~missed'
             PROVE  OwnStaged'
  BY MissedStays DEF StagedIsOwn
<1> USE SizeAssumption
<1> USE DEF bootVars, nvsVars, bleVars, checkVars, restartVars, OwnStaged, RestartDue,
            Passive, Whole
<1>1. CASE PowerLoss
  BY <1>1 DEF PowerLoss, GoDown
<1>2. CASE Restart
  BY <1>2 DEF Restart, GoDown
<1>3. CASE BootLoader
  BY <1>3 DEF BootLoader, Tried, Usable, Selected, Slots, Other, TypeOK,
     Contents, SlotsInUse, UpdatePhases, Quiet, FallbackKept
<1>4. CASE InitApp
  BY <1>4 DEF InitApp
<1>5. CASE Validate
  BY <1>5 DEF Validate, TypeOK, Slots, Other
<1>6. ASSUME NEW i \in Images, NEW n \in 1 .. Chunks, RxBegin(i, n)
     PROVE  OwnStaged'
  BY <1>6 DEF RxBegin, Receive, Erased, MayBegin, TypeOK, Contents, Slots,
     Other, UpdatePhases, LockMatchesWork, HttpsWriting
<1>7. CASE RxBusy
  BY <1>7 DEF RxBusy, Receive, Refuse
<1>8. CASE RxBeginOnTrial
  BY <1>8 DEF RxBeginOnTrial, Receive, Release, GoDown
<1>9. CASE RxErased
  BY <1>9 DEF RxErased, Release, GoDown
<1>10. CASE HostWrite
  BY <1>10 DEF HostWrite, Release, GoDown, NoSession, Written, InTime,
     TypeOK, Contents, Slots, Other, UpdatePhases, BleWriting, MayBegin,
     LockMatchesWork, HttpsWriting
<1>11. CASE RxFinish
  BY <1>11 DEF RxFinish, Receive
<1>12. CASE RxInstall
  BY <1>12 DEF RxInstall, Select, TypeOK, Slots, Other, UpdatePhases,
     BleWriting, MayBegin, LockMatchesWork
<1>13. CASE RxReject
  BY <1>13 DEF RxReject, Release, GoDown
<1>14. CASE RxAbandon
  BY <1>14 DEF RxAbandon, Receive, Release, GoDown
<1>15. CASE RxNothingToEnd
  BY <1>15 DEF RxNothingToEnd, Receive, Refuse
<1>16. ASSUME NEW cmd \in Commands, PhoneSends(cmd)
     PROVE  OwnStaged'
  BY <1>16 DEF PhoneSends
<1>17. CASE Window
  BY <1>17 DEF Window
<1>18. CASE StopBle
  BY <1>18 DEF StopBle, Release, GoDown
<1>19. CASE CheckStart
  BY <1>19 DEF CheckStart, CheckUnchanged
<1>20. ASSUME NEW i \in Images, CheckFetch(i)
     PROVE  OwnStaged'
  BY <1>20 DEF CheckFetch, CheckUnchanged, NextAttempt
<1>21. ASSUME NEW i \in Images, CheckHeader(i)
     PROVE  OwnStaged'
  BY <1>21 DEF CheckHeader, CheckUnchanged, Erased, MayBegin, TypeOK,
     Contents, Slots, Other
<1>22. CASE CheckOpen
  BY <1>22 DEF CheckOpen, CheckUnchanged, NextAttempt
<1>23. CASE CheckWrite
  BY <1>23 DEF CheckWrite, CheckUnchanged, Written, InTime, TypeOK,
     Contents, Slots, Other, UpdatePhases, MayBegin
<1>24. CASE CheckInstall
  <2>1. otaState[running] # "pending" /\ power = "up"
    BY <1>24 DEF CheckInstall, UpdatePhases, Quiet, MayBegin, TypeOK
  <2>2. CASE running = "ota_0"
    BY <1>24, <2>1, <2>2 DEF CheckInstall, CheckUnchanged, Select, TypeOK, Slots, Other
  <2>3. CASE running = "ota_1"
    BY <1>24, <2>1, <2>3 DEF CheckInstall, CheckUnchanged, Select, TypeOK, Slots, Other
  <2> QED
    BY <2>2, <2>3 DEF TypeOK, Slots
<1>25. CASE CheckFail
  BY <1>25 DEF CheckFail, CheckUnchanged, NextAttempt
<1>26. CASE UNCHANGED vars
  BY <1>26 DEF vars
<1> QED
  BY <1>1, <1>2, <1>3, <1>4, <1>5, <1>6, <1>7, <1>8, <1>9, <1>10, <1>11,
     <1>12, <1>13, <1>14, <1>15, <1>16, <1>17, <1>18, <1>19, <1>20, <1>21,
     <1>22, <1>23, <1>24, <1>25, <1>26 DEF Next, Power, BleStep, CheckStep

-----------------------------------------------------------------------------
(* What is reported as ready is there.                                      *)

LEMMA ReadyStep ==
  TypeOK /\ UpdatePhases /\ SlotsInUse /\ ReadyAndStaged /\ [Next]_vars
    => ReadyAndStaged'
<1> SUFFICES ASSUME TypeOK, UpdatePhases, SlotsInUse, ReadyAndStaged, [Next]_vars
             PROVE  ReadyAndStaged'
  OBVIOUS
<1> USE SizeAssumption
<1> USE DEF bootVars, nvsVars, bleVars, checkVars, restartVars, ReadyAndStaged, BleWriting,
            HttpsWriting, Passive, Whole
<1>1. CASE PowerLoss
  BY <1>1 DEF PowerLoss, GoDown, NoSession
<1>2. CASE Restart
  BY <1>2 DEF Restart, GoDown, NoSession, RestartDue
<1>3. CASE BootLoader
  BY <1>3 DEF BootLoader, Tried, Usable, Selected, Slots, Other, TypeOK,
     Contents, SlotsInUse, FallbackKept
<1>4. CASE InitApp
  BY <1>4 DEF InitApp, SlotsInUse
<1>5. CASE Validate
  BY <1>5 DEF Validate, TypeOK, Slots, Other
<1>6. ASSUME NEW i \in Images, NEW n \in 1 .. Chunks, RxBegin(i, n)
     PROVE  ReadyAndStaged'
  BY <1>6 DEF RxBegin, Receive, Erased, MayBegin, TypeOK, Contents, Slots,
     Other
<1>7. CASE RxBusy
  BY <1>7 DEF RxBusy, Receive, Refuse
<1>8. CASE RxBeginOnTrial
  BY <1>8 DEF RxBeginOnTrial, Receive, Release, GoDown
<1>9. CASE RxErased
  BY <1>9 DEF RxErased, Release, GoDown
<1>10. CASE HostWrite
  BY <1>10 DEF HostWrite, Release, GoDown, NoSession, Written, TypeOK,
     Contents, Slots, Other, UpdatePhases, BleWriting, MayBegin
<1>11. CASE RxFinish
  BY <1>11 DEF RxFinish, Receive
<1>12. CASE RxInstall
  BY <1>12 DEF RxInstall, Select, TypeOK, Slots, Other, UpdatePhases,
     LockMatchesWork, NoSession
<1>13. CASE RxReject
  BY <1>13 DEF RxReject, Release, GoDown
<1>14. CASE RxAbandon
  BY <1>14 DEF RxAbandon, Receive, Release, GoDown
<1>15. CASE RxNothingToEnd
  BY <1>15 DEF RxNothingToEnd, Receive, Refuse
<1>16. ASSUME NEW cmd \in Commands, PhoneSends(cmd)
     PROVE  ReadyAndStaged'
  BY <1>16 DEF PhoneSends
<1>17. CASE Window
  BY <1>17 DEF Window
<1>18. CASE StopBle
  BY <1>18 DEF StopBle, Release, GoDown
<1>19. CASE CheckStart
  BY <1>19 DEF CheckStart, CheckUnchanged
<1>20. ASSUME NEW i \in Images, CheckFetch(i)
     PROVE  ReadyAndStaged'
  BY <1>20 DEF CheckFetch, CheckUnchanged, NextAttempt
<1>21. ASSUME NEW i \in Images, CheckHeader(i)
     PROVE  ReadyAndStaged'
  BY <1>21 DEF CheckHeader, CheckUnchanged, Erased, MayBegin, TypeOK,
     Contents, Slots, Other
<1>22. CASE CheckOpen
  BY <1>22 DEF CheckOpen, CheckUnchanged, NextAttempt
<1>23. CASE CheckWrite
  BY <1>23 DEF CheckWrite, CheckUnchanged, Written, TypeOK, Contents, Slots,
     Other, UpdatePhases, MayBegin
<1>24. CASE CheckInstall
  <2>1. ~BleWriting
    BY <1>24 DEF CheckInstall, UpdatePhases, LockMatchesWork
  <2> QED
    BY <1>24, <2>1 DEF CheckInstall, CheckUnchanged, Select, TypeOK, Slots, Other
<1>25. CASE CheckFail
  BY <1>25 DEF CheckFail, CheckUnchanged, NextAttempt
<1>26. CASE UNCHANGED vars
  BY <1>26 DEF vars
<1> QED
  BY <1>1, <1>2, <1>3, <1>4, <1>5, <1>6, <1>7, <1>8, <1>9, <1>10, <1>11,
     <1>12, <1>13, <1>14, <1>15, <1>16, <1>17, <1>18, <1>19, <1>20, <1>21,
     <1>22, <1>23, <1>24, <1>25, <1>26 DEF Next, Power, BleStep, CheckStep

-----------------------------------------------------------------------------
(* The update implements AtomicUpdate.                                      *)

LEMMA SameBoot == UNCHANGED <<bootVars, running>> => UNCHANGED Promise!vars
BY DEF bootVars, Promise!vars, Trusted, Staged, Passive, Whole

\* A step that touches only the passive slot, with no image on trial.
LEMMA NewStage ==
  ASSUME TypeOK, TypeOK', otaState[running] # "pending", running' = running,
         flash'[running] = flash[running], otaState'[running] = otaState[running]
  PROVE  [Promise!Next]_(Promise!vars)
<1>1. Trusted = flash[running].image /\ Trusted' = flash[running].image
  BY DEF Trusted
<1>2. CASE Staged' = None
  BY <1>1, <1>2 DEF Promise!Next, Promise!Withdraw
<1>3. CASE Staged' # None
  <2>1. Passive' \in Slots
    BY PassiveSlot DEF Passive, TypeOK
  <2>2. Staged' \in Images
    BY <1>3, <2>1 DEF Staged, TypeOK, Contents
  <2>3. Promise!Stage(Staged')
    BY <1>1 DEF Promise!Stage
  <2> QED
    BY <2>2, <2>3 DEF Promise!Next
<1> QED
  BY <1>2, <1>3

LEMMA BootStep == TypeOK /\ SlotsInUse /\ BootLoader => Promise!Restart
<1> SUFFICES ASSUME TypeOK, SlotsInUse, BootLoader PROVE Promise!Restart
  OBVIOUS
<1> USE DEF BootLoader, Tried, Usable, Selected, Slots, Other, Whole, Passive,
            TypeOK, SlotsInUse, FallbackKept, Trusted, Staged
<1>1. CASE running = "ota_0"
  <2>1. Staged' = None
    BY <1>1
  <2>2. flash[running'].image = IF Staged = None THEN Trusted ELSE Staged
    BY <1>1, ImageAssumption DEF Contents
  <2>3. Trusted' = Trusted
    BY <1>1
  <2> QED
    BY <2>1, <2>2, <2>3 DEF Promise!Restart
<1>2. CASE running = "ota_1"
  <2>1. Staged' = None
    BY <1>2
  <2>2. flash[running'].image = IF Staged = None THEN Trusted ELSE Staged
    BY <1>2, ImageAssumption DEF Contents
  <2>3. Trusted' = Trusted
    BY <1>2
  <2> QED
    BY <2>1, <2>2, <2>3 DEF Promise!Restart
<1> QED
  BY <1>1, <1>2

LEMMA PromiseStep ==
  TypeOK /\ TypeOK' /\ UpdatePhases /\ SlotsInUse /\ [Next]_vars =>
    [Promise!Next]_(Promise!vars)
<1> SUFFICES ASSUME TypeOK, TypeOK', UpdatePhases, SlotsInUse, [Next]_vars
             PROVE  [Promise!Next]_(Promise!vars)
  OBVIOUS
<1> USE SameBoot DEF bootVars
<1>1. CASE PowerLoss
  BY <1>1 DEF PowerLoss, GoDown
<1>2. CASE Restart
  BY <1>2 DEF Restart, GoDown
<1>3. CASE BootLoader
  BY <1>3, BootStep DEF Promise!Next
<1>4. CASE InitApp
  BY <1>4 DEF InitApp
<1>5. CASE Validate
  <2>1. flash' = flash /\ running' = running /\ bootSlot' = bootSlot
    BY <1>5 DEF Validate
  <2>2. CASE otaState[running] # "pending"
    BY <1>5, <2>1, <2>2 DEF Validate
  <2>3. CASE otaState[running] = "pending"
    <3>1. otaState'[running] = "valid" /\ otaState'[Passive] = otaState[Passive]
      BY <1>5, <2>3, PassiveSlot DEF Validate, TypeOK
    <3>2. Trusted' = flash[running].image
      BY <2>1, <3>1 DEF Trusted
    <3>3. Staged' = Staged
      BY <2>1, <3>1 DEF Staged, Passive, Whole
    <3> QED
      BY <2>1, <3>2, <3>3 DEF Promise!Next, Promise!Confirm
  <2> QED
    BY <2>2, <2>3
<1>6. ASSUME NEW i \in Images, NEW n \in 1 .. Chunks, RxBegin(i, n)
     PROVE  [Promise!Next]_(Promise!vars)
  <2>1. Passive \in Slots /\ Passive # running
    BY PassiveSlot DEF TypeOK
  <2>2. /\ otaState[running] # "pending"
        /\ flash'[running] = flash[running]
        /\ otaState'[running] = otaState[running]
        /\ running' = running
    BY <1>6, <2>1 DEF RxBegin, MayBegin, Erased, TypeOK
  <2> QED
    BY <2>2, NewStage
<1>7. CASE RxBusy
  BY <1>7 DEF RxBusy, Refuse
<1>8. CASE RxBeginOnTrial
  BY <1>8 DEF RxBeginOnTrial, Release, GoDown
<1>9. CASE RxErased
  BY <1>9 DEF RxErased, Release, GoDown
<1>10. CASE HostWrite
  <2>1. Passive \in Slots /\ Passive # running
    BY PassiveSlot DEF TypeOK
  <2>2. /\ otaState[running] # "pending"
        /\ flash'[running] = flash[running]
        /\ otaState'[running] = otaState[running]
        /\ running' = running
    BY <1>10, <2>1 DEF HostWrite, Release, GoDown, Written, UpdatePhases, BleWriting,
       MayBegin, TypeOK
  <2> QED
    BY <2>2, NewStage
<1>11. CASE RxFinish
  BY <1>11 DEF RxFinish
<1>12. CASE RxInstall
  <2>1. Passive \in Slots /\ Passive # running
    BY PassiveSlot DEF TypeOK
  <2>2. /\ otaState[running] # "pending"
        /\ flash'[running] = flash[running]
        /\ otaState'[running] = otaState[running]
        /\ running' = running
    BY <1>12, <2>1 DEF RxInstall, Select, UpdatePhases, BleWriting, MayBegin, TypeOK
  <2> QED
    BY <2>2, NewStage
<1>13. CASE RxReject
  BY <1>13 DEF RxReject, Release, GoDown
<1>14. CASE RxAbandon
  BY <1>14 DEF RxAbandon, Release, GoDown
<1>15. CASE RxNothingToEnd
  BY <1>15 DEF RxNothingToEnd, Refuse
<1>16. ASSUME NEW cmd \in Commands, PhoneSends(cmd)
     PROVE  [Promise!Next]_(Promise!vars)
  BY <1>16 DEF PhoneSends
<1>17. CASE Window
  BY <1>17 DEF Window
<1>18. CASE StopBle
  BY <1>18 DEF StopBle, Release, GoDown
<1>19. CASE CheckStart
  BY <1>19 DEF CheckStart, CheckUnchanged
<1>20. ASSUME NEW i \in Images, CheckFetch(i)
     PROVE  [Promise!Next]_(Promise!vars)
  BY <1>20 DEF CheckFetch, CheckUnchanged
<1>21. ASSUME NEW i \in Images, CheckHeader(i)
     PROVE  [Promise!Next]_(Promise!vars)
  <2>1. Passive \in Slots /\ Passive # running
    BY PassiveSlot DEF TypeOK
  <2>2. /\ otaState[running] # "pending"
        /\ flash'[running] = flash[running]
        /\ otaState'[running] = otaState[running]
        /\ running' = running
    BY <1>21, <2>1 DEF CheckHeader, CheckUnchanged, MayBegin, Erased, TypeOK
  <2> QED
    BY <2>2, NewStage
<1>22. CASE CheckOpen
  BY <1>22 DEF CheckOpen, CheckUnchanged
<1>23. CASE CheckWrite
  <2>1. Passive \in Slots /\ Passive # running
    BY PassiveSlot DEF TypeOK
  <2>2. /\ otaState[running] # "pending"
        /\ flash'[running] = flash[running]
        /\ otaState'[running] = otaState[running]
        /\ running' = running
    BY <1>23, <2>1 DEF CheckWrite, CheckUnchanged, UpdatePhases, MayBegin, Written, TypeOK
  <2> QED
    BY <2>2, NewStage
<1>24. CASE CheckInstall
  <2>1. Passive \in Slots /\ Passive # running
    BY PassiveSlot DEF TypeOK
  <2>2. /\ otaState[running] # "pending"
        /\ flash'[running] = flash[running]
        /\ otaState'[running] = otaState[running]
        /\ running' = running
    BY <1>24, <2>1 DEF CheckInstall, CheckUnchanged, Select, UpdatePhases, MayBegin, TypeOK
  <2> QED
    BY <2>2, NewStage
<1>25. CASE CheckFail
  BY <1>25 DEF CheckFail, CheckUnchanged
<1>26. CASE UNCHANGED vars
  BY <1>26 DEF vars
<1> QED
  BY <1>1, <1>2, <1>3, <1>4, <1>5, <1>6, <1>7, <1>8, <1>9, <1>10, <1>11,
     <1>12, <1>13, <1>14, <1>15, <1>16, <1>17, <1>18, <1>19, <1>20, <1>21,
     <1>22, <1>23, <1>24, <1>25, <1>26 DEF Next, Power, BleStep, CheckStep

LEMMA IntactStep ==
  TypeOK /\ [Next]_vars => flash'[running] = flash[running]
<1> SUFFICES ASSUME TypeOK, [Next]_vars PROVE flash'[running] = flash[running]
  OBVIOUS
<1>0. Passive \in Slots /\ Passive # running
  BY PassiveSlot DEF TypeOK
<1> USE <1>0 DEF bootVars, TypeOK
<1>1. CASE PowerLoss
  BY <1>1 DEF PowerLoss, GoDown
<1>2. CASE Restart
  BY <1>2 DEF Restart, GoDown
<1>3. CASE BootLoader
  BY <1>3 DEF BootLoader
<1>4. CASE InitApp
  BY <1>4 DEF InitApp
<1>5. CASE Validate
  BY <1>5 DEF Validate
<1>6. ASSUME NEW i \in Images, NEW n \in 1 .. Chunks, RxBegin(i, n)
     PROVE  flash'[running] = flash[running]
  BY <1>6 DEF RxBegin, Receive, Erased
<1>7. CASE RxBusy
  BY <1>7 DEF RxBusy, Receive, Refuse
<1>8. CASE RxBeginOnTrial
  BY <1>8 DEF RxBeginOnTrial, Receive, Release, GoDown
<1>9. CASE RxErased
  BY <1>9 DEF RxErased, Release, GoDown
<1>10. CASE HostWrite
  BY <1>10 DEF HostWrite, Release, GoDown, NoSession, Written
<1>11. CASE RxFinish
  BY <1>11 DEF RxFinish, Receive
<1>12. CASE RxInstall
  BY <1>12 DEF RxInstall
<1>13. CASE RxReject
  BY <1>13 DEF RxReject, Release, GoDown
<1>14. CASE RxAbandon
  BY <1>14 DEF RxAbandon, Receive, Release, GoDown
<1>15. CASE RxNothingToEnd
  BY <1>15 DEF RxNothingToEnd, Receive, Refuse
<1>16. ASSUME NEW cmd \in Commands, PhoneSends(cmd)
     PROVE  flash'[running] = flash[running]
  BY <1>16 DEF PhoneSends
<1>17. CASE Window
  BY <1>17 DEF Window
<1>18. CASE StopBle
  BY <1>18 DEF StopBle, Release, GoDown
<1>19. CASE CheckStart
  BY <1>19 DEF CheckStart, CheckUnchanged
<1>20. ASSUME NEW i \in Images, CheckFetch(i)
     PROVE  flash'[running] = flash[running]
  BY <1>20 DEF CheckFetch, CheckUnchanged, NextAttempt
<1>21. ASSUME NEW i \in Images, CheckHeader(i)
     PROVE  flash'[running] = flash[running]
  BY <1>21 DEF CheckHeader, CheckUnchanged, Erased
<1>22. CASE CheckOpen
  BY <1>22 DEF CheckOpen, CheckUnchanged, NextAttempt
<1>23. CASE CheckWrite
  BY <1>23 DEF CheckWrite, CheckUnchanged, Written
<1>24. CASE CheckInstall
  BY <1>24 DEF CheckInstall, CheckUnchanged
<1>25. CASE CheckFail
  BY <1>25 DEF CheckFail, CheckUnchanged, NextAttempt
<1>26. CASE UNCHANGED vars
  BY <1>26 DEF vars
<1> QED
  BY <1>1, <1>2, <1>3, <1>4, <1>5, <1>6, <1>7, <1>8, <1>9, <1>10, <1>11,
     <1>12, <1>13, <1>14, <1>15, <1>16, <1>17, <1>18, <1>19, <1>20, <1>21,
     <1>22, <1>23, <1>24, <1>25, <1>26 DEF Next, Power, BleStep, CheckStep

LEMMA NewerStep ==
  TypeOK /\ UpdatePhases /\ NewerOnly /\ [Next]_vars => NewerOnly'
<1> SUFFICES ASSUME TypeOK, UpdatePhases, NewerOnly, [Next]_vars PROVE NewerOnly'
  OBVIOUS
<1>0. Passive \in Slots /\ Passive # running
  BY PassiveSlot DEF TypeOK
<1> USE DEF bootVars, nvsVars, bleVars, checkVars, restartVars, NewerOnly, Current,
            Passive
<1>1. CASE PowerLoss
  BY <1>1 DEF PowerLoss, GoDown
<1>2. CASE Restart
  BY <1>2 DEF Restart, GoDown
<1>3. CASE BootLoader
  BY <1>3 DEF BootLoader, UpdatePhases, Quiet
<1>4. CASE InitApp
  BY <1>4 DEF InitApp, UpdatePhases, Quiet
<1>5. CASE Validate
  BY <1>5 DEF Validate
<1>6. ASSUME NEW i \in Images, NEW n \in 1 .. Chunks, RxBegin(i, n)
     PROVE  NewerOnly'
  BY <1>0, <1>6 DEF RxBegin, Receive, Erased, UpdatePhases, LockMatchesWork,
     HttpsWriting, TypeOK
<1>7. CASE RxBusy
  BY <1>7 DEF RxBusy, Receive, Refuse
<1>8. CASE RxBeginOnTrial
  BY <1>8 DEF RxBeginOnTrial, Receive, Release, GoDown
<1>9. CASE RxErased
  BY <1>9 DEF RxErased, Release, GoDown
<1>10. CASE HostWrite
  BY <1>0, <1>10 DEF HostWrite, Release, GoDown, Written, TypeOK, Contents
<1>11. CASE RxFinish
  BY <1>11 DEF RxFinish, Receive
<1>12. CASE RxInstall
  BY <1>12 DEF RxInstall
<1>13. CASE RxReject
  BY <1>13 DEF RxReject, Release, GoDown
<1>14. CASE RxAbandon
  BY <1>14 DEF RxAbandon, Receive, Release, GoDown
<1>15. CASE RxNothingToEnd
  BY <1>15 DEF RxNothingToEnd, Receive, Refuse
<1>16. ASSUME NEW cmd \in Commands, PhoneSends(cmd)
     PROVE  NewerOnly'
  BY <1>16 DEF PhoneSends
<1>17. CASE Window
  BY <1>17 DEF Window
<1>18. CASE StopBle
  BY <1>18 DEF StopBle, Release, GoDown
<1>19. CASE CheckStart
  BY <1>19 DEF CheckStart, CheckUnchanged
<1>20. ASSUME NEW i \in Images, CheckFetch(i)
     PROVE  NewerOnly'
  BY <1>20 DEF CheckFetch, CheckUnchanged, NextAttempt
<1>21. ASSUME NEW i \in Images, CheckHeader(i)
     PROVE  NewerOnly'
  BY <1>0, <1>21 DEF CheckHeader, CheckUnchanged, Erased, TypeOK
<1>22. CASE CheckOpen
  BY <1>22 DEF CheckOpen, CheckUnchanged, NextAttempt
<1>23. CASE CheckWrite
  BY <1>0, <1>23 DEF CheckWrite, CheckUnchanged, Written, TypeOK, Contents
<1>24. CASE CheckInstall
  BY <1>24 DEF CheckInstall, CheckUnchanged
<1>25. CASE CheckFail
  BY <1>25 DEF CheckFail, CheckUnchanged, NextAttempt
<1>26. CASE UNCHANGED vars
  BY <1>26 DEF vars
<1> QED
  BY <1>1, <1>2, <1>3, <1>4, <1>5, <1>6, <1>7, <1>8, <1>9, <1>10, <1>11,
     <1>12, <1>13, <1>14, <1>15, <1>16, <1>17, <1>18, <1>19, <1>20, <1>21,
     <1>22, <1>23, <1>24, <1>25, <1>26 DEF Next, Power, BleStep, CheckStep

-----------------------------------------------------------------------------
(* The initial states, and the theorems.                                    *)

UpdateInv == TypeOK /\ UpdatePhases /\ SlotsInUse /\ ReadyAndStaged

LEMMA TypeInit == Init => TypeOK
<1> SUFFICES ASSUME Init PROVE TypeOK
  OBVIOUS
<1> USE Cleared, ImageAssumption, SizeAssumption DEF Init, Slots
<1>1. FlagsOK
  BY DEF FlagsOK
<1>2. flash \in [Slots -> Contents]
  BY DEF Contents
<1>3. known \in Nat
  BY <1>2 DEF Current, Contents
<1> QED
  BY <1>1, <1>2, <1>3 DEF TypeOK

LEMMA UpdateInit == Init => UpdateInv
<1> SUFFICES ASSUME Init PROVE UpdateInv
  OBVIOUS
<1> USE SizeAssumption DEF Init, Slots, Other, Passive, Whole
<1>1. TypeOK
  BY TypeInit
<1>2. UpdatePhases
  BY DEF UpdatePhases, LockMatchesWork, BleWriting, HttpsWriting, NoSession
<1>3. SlotsInUse
  BY DEF SlotsInUse, FallbackKept
<1>4. ReadyAndStaged
  BY DEF ReadyAndStaged
<1> QED
  BY <1>1, <1>2, <1>3, <1>4 DEF UpdateInv

LEMMA UpdateStep == UpdateInv /\ [Next]_vars => UpdateInv'
BY TypeStep, PhasesStep, SlotsStep, ReadyStep DEF UpdateInv

LEMMA UpdateInvariant == Spec => []UpdateInv
BY UpdateInit, UpdateStep, PTL DEF Spec

\* Every variable keeps its type.
THEOREM TypeCorrect == Spec => []TypeOK
BY UpdateInvariant, PTL DEF UpdateInv

\* s_update_mutex is held exactly while an update may write the passive slot, on
\* every path of firmware_ota_ble_* and firmware_ota_update_https.
THEOREM LockCorrect == Spec => []LockMatchesWork
<1>1. UpdateInv => LockMatchesWork
  BY DEF UpdateInv, UpdatePhases
<1> QED
  BY <1>1, UpdateInvariant, PTL

\* No step writes the slot whose image runs.
THEOREM RunningIntact == Spec => RunningImageIntact
<1>1. UpdateInv /\ [Next]_vars => flash'[running] = flash[running]
  BY IntactStep DEF UpdateInv
<1> QED
  BY <1>1, UpdateInvariant, PTL DEF Spec, RunningImageIntact

\* An update over HTTPS only ever installs a version newer than the one that runs:
\* the version announced was, and the image that came is of that version
\* (firmware_ota.c:552, 643), whatever else happens between the two checks.
THEOREM HttpsIsUpgrade == Spec => HttpsUpgradesOnly
<1>1. Init => NewerOnly
  BY DEF Init, NewerOnly
<1>2. UpdateInv /\ NewerOnly /\ [Next]_vars => NewerOnly'
  BY NewerStep DEF UpdateInv
<1>3. NewerOnly =>
        (checkPc = "download" /\ checkPc' = "restart" =>
           Version[flash[Passive].image] > Current)
  BY DEF NewerOnly
<1> QED
  BY <1>1, <1>2, <1>3, UpdateInvariant, PTL DEF Spec, HttpsUpgradesOnly

\* If the transfer of a whole image takes longer than the countdown of a restart,
\* then: an image on trial has a whole one to fall back to; what is reported as ready
\* is there; and only images of this project run, whichever way they came in, as long
\* as no restart that had to follow an update over BLE was missed (firmware_ota.c:276-296,
\* 597-612; main.c:2428).  The code checks neither premise.
THEOREM SlotsAreSound ==
  ASSUME RestartMs < TransferMs
  PROVE  Spec => []SlotsSound
<1>1. UpdateInv => FallbackKept
  BY DEF UpdateInv, SlotsInUse
<1>2. UpdateInv => ReadyMeansInstalled
  BY DEF UpdateInv, ReadyAndStaged, ReadyMeansInstalled
<1>3. Init => StagedIsOwn
  BY DEF Init, StagedIsOwn, OwnStaged, Slots, Passive, Other
<1>4. UpdateInv /\ StagedIsOwn /\ [Next]_vars => StagedIsOwn'
  BY OwnStep DEF UpdateInv
<1>5. StagedIsOwn => OnlyOwnImageRuns
  BY DEF StagedIsOwn, OwnStaged, OnlyOwnImageRuns
<1> QED
  BY <1>1, <1>2, <1>3, <1>4, <1>5, UpdateInvariant, PTL DEF Spec, SlotsSound

\* Updates, restarts and power losses, interleaved in any way, implement the
\* atomic update.
THEOREM UpdateIsAtomic == Spec => PromiseKept
<1>1. Init => Promise!Init
  BY UpdateInit DEF Init, UpdateInv, TypeOK, Contents, Promise!Init, Trusted,
     Staged, Slots, Passive, Other
<1>2. UpdateInv /\ UpdateInv' /\ [Next]_vars => [Promise!Next]_(Promise!vars)
  BY PromiseStep DEF UpdateInv
<1> QED
  BY <1>1, <1>2, UpdateInvariant, PTL DEF Spec, PromiseKept, Promise!Spec
=============================================================================
