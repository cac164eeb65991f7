---------------------- MODULE GatewayConfigProofs ----------------------
(* What holds of GatewayConfig for any texts, identifiers and number of     *)
(* commands, wherever the power is lost.                                    *)
EXTENDS GatewayConfig, TLAPS

\* The keys a command has still to save.
Left == {todo[i] : i \in 1 .. Len(todo)}

\* Which values a key takes: identifiers are numbers, the rest are texts.
KeyTypes ==
  /\ \A k \in IdKeys :
       /\ nvs[k] \in Ids \cup {0}
       /\ ram[k] \in Ids \cup {0}
       /\ k \in DOMAIN new => new[k] \in Ids
  /\ \A k \in TextKeys :
       /\ nvs[k] \in AnyText
       /\ ram[k] \in Texts \cup {Empty, Cut}
       /\ k \in DOMAIN new => new[k] \in AnyText

\* A command is under way only in a gateway that is up, and brings both
\* identifiers, equal, or none.
Command ==
  /\ Left \subseteq DOMAIN new
  /\ todo # <<>> => boot \in {"waiting", "running"}
  /\ todo = <<>> => new = NoCommand
  /\ \/ IdKeys \subseteq DOMAIN new /\ new["idGtw"] = new["idUnidadeGtw"]
     \/ IdKeys \cap DOMAIN new = {}

\* What a restart would load is in use already, or, of a command under way, what
\* was saved is what it brings; but for what could not be saved or read.
TextKept(k) ==
  IF k \in DOMAIN new
  THEN k \notin Left => nvs[k] = new[k] \/ k \in unsaved
  ELSE \/ nvs[k] = TooLong \/ Load(k) = ram[k] \/ k \in unsaved
       \/ ram[k] = Empty /\ k \in unread
IdsKept ==
  IF IdKeys \cap DOMAIN new = {}
  THEN \/ Loaded["idGtw"] = ram["idGtw"] /\ Loaded["idUnidadeGtw"] = ram["idUnidadeGtw"]
       \/ unsaved \cap IdKeys # {}
       \/ ram["idGtw"] = 0 /\ unread \cap IdKeys # {}
  ELSE \A k \in IdKeys : k \notin Left => nvs[k] = new[k] \/ k \in unsaved

\* An identifier is in the flash.
Numbered == nvs["idGtw"] # 0 \/ nvs["idUnidadeGtw"] # 0

\* What was loaded is what the flash has, if it could be read, while app_main
\* looks at it; one identifier is to be saved like the other one, which was read.
Booting ==
  /\ boot \in {"repair", "check"} =>
       /\ \A k \in TextKeys : ram[k] = IF k \in unread THEN Empty ELSE Load(k)
       /\ ram["idGtw"] # 0 => Numbered
       /\ unread \cap IdKeys = {} /\ Numbered => ram["idGtw"] # 0
  /\ boot = "repair" => \E k \in IdKeys \ unread : nvs[k] = ram[k] /\ ram[k] # 0
  /\ boot # "off" => ram["idGtw"] = ram["idUnidadeGtw"]

\* A gateway that ran from its flash can run from it again, if it can read it.
Complete ==
  complete =>
    /\ Numbered
    /\ \A k \in TextKeys : nvs[k] \in Texts
    /\ \A k \in TextKeys \cap DOMAIN new : new[k] \in Texts
    /\ boot = "waiting" => \A k \in Keys : ram[k] # NoValues[k] \/ NotRead(k)

ConfigInv ==
  /\ TypeOK
  /\ KeyTypes
  /\ Command
  /\ Up => IdsKept /\ \A k \in TextKeys : TextKept(k)
  /\ Booting
  /\ Complete

-----------------------------------------------------------------------------
LEMMA Distinct ==
  /\ Empty # TooLong /\ Empty # Cut /\ Cut # TooLong
  /\ {Empty, TooLong, Cut} \cap (Texts \cup Ids \cup {0}) = {}
  /\ 0 \notin Ids /\ Ids \subseteq Nat
BY GatewayConfigAssumption

\* The identifiers in the flash are numbers.
LEMMA IdsAreNumbers ==
  ASSUME KeyTypes
  PROVE  /\ nvs["idGtw"] \in Ids \cup {0} /\ nvs["idUnidadeGtw"] \in Ids \cup {0}
         /\ nvs["idGtw"] \in Nat /\ nvs["idUnidadeGtw"] \in Nat
<1>1. nvs["idGtw"] \in Ids \cup {0} /\ nvs["idUnidadeGtw"] \in Ids \cup {0}
  BY DEF KeyTypes, IdKeys
<1>2. Ids \subseteq Nat
  BY GatewayConfigAssumption
<1>3. \A i \in Ids \cup {0} : i \in Nat
  BY <1>2
<1> QED BY <1>1, <1>3

\* What is left after one key was taken.
LEMMA OneSaved ==
  ASSUME todo \in Seq(Keys), todo # <<>>, todo' = Tail(todo)
  PROVE  /\ Head(todo) \in Left /\ Head(todo) \in Keys
         /\ todo' \in Seq(Keys)
         /\ Left' \subseteq Left /\ Left \subseteq Left' \cup {Head(todo)}
         /\ todo' = <<>> => Left' = {}
<1>1. Len(todo) \in Nat \ {0} /\ Len(todo') = Len(todo) - 1 /\ todo' \in Seq(Keys)
  OBVIOUS
<1>2. \A i \in 1 .. Len(todo') : todo'[i] = todo[i + 1]
  OBVIOUS
<1>3. Head(todo) = todo[1] /\ todo[1] \in Keys
  OBVIOUS
<1>4. Left' \subseteq Left
  BY <1>1, <1>2 DEF Left
<1>5. \A i \in 1 .. Len(todo) : i = 1 \/ (i - 1 \in 1 .. Len(todo') /\ todo'[i - 1] = todo[i])
  BY <1>1, <1>2
<1>6. Left \subseteq Left' \cup {Head(todo)}
  BY <1>1, <1>3, <1>5 DEF Left
<1>7. todo' = <<>> => Left' = {}
  <2>1. todo' = <<>> => 1 .. Len(todo') = {}
    OBVIOUS
  <2> QED BY <2>1 DEF Left
<1>8. Head(todo) \in Left
  BY <1>1, <1>3 DEF Left
<1> QED
  BY <1>1, <1>3, <1>4, <1>6, <1>7, <1>8

\* What a restart loads.
LEMMA LoadedIs ==
  ASSUME KeyTypes
  PROVE  /\ \A k \in TextKeys : Loaded[k] = Load(k)
         /\ \A k \in IdKeys : Loaded[k] = IF nvs["idUnidadeGtw"] > 0 THEN nvs["idUnidadeGtw"]
                                          ELSE nvs["idGtw"]
         /\ Loaded \in [Keys -> Texts \cup {Empty} \cup Ids \cup {0}]
         /\ \A k \in IdKeys : Loaded[k] \in Ids \cup {0}
         /\ \A k \in TextKeys : Loaded[k] \in Texts \cup {Empty}
BY Distinct DEF Loaded, Reconciled, Load, KeyTypes, Keys, IdKeys, TextKeys, AnyText

\* The same of the next state.
LEMMA LoadedIsNext ==
  ASSUME KeyTypes'
  PROVE  /\ \A k \in TextKeys : Loaded'[k] = Load(k)'
         /\ \A k \in IdKeys : Loaded'[k] = IF nvs'["idUnidadeGtw"] > 0 THEN nvs'["idUnidadeGtw"]
                                           ELSE nvs'["idGtw"]
         /\ Loaded' \in [Keys -> Texts \cup {Empty} \cup Ids \cup {0}]
         /\ \A k \in IdKeys : Loaded'[k] \in Ids \cup {0}
         /\ \A k \in TextKeys : Loaded'[k] \in Texts \cup {Empty}
BY Distinct DEF Loaded, Reconciled, Load, KeyTypes, Keys, IdKeys, TextKeys, AnyText

\* What app_main makes of what it can read.
LEMMA ReadIs ==
  ASSUME KeyTypes, NEW failed
  PROVE  LET l == Read(failed)
             u == Reconciled(l)
         IN  /\ \A k \in TextKeys : u[k] = IF k \in failed THEN Empty ELSE Load(k)
             /\ \A k \in TextKeys : u[k] \in Texts \cup {Empty}
             /\ \A k \in IdKeys : l[k] = IF k \in failed THEN 0 ELSE nvs[k]
             /\ \A k \in IdKeys : u[k] = IF l["idUnidadeGtw"] > 0 THEN l["idUnidadeGtw"]
                                         ELSE l["idGtw"]
             /\ \A k \in IdKeys : l[k] \in Ids \cup {0} /\ l[k] \in Nat
             /\ \A k \in IdKeys : u[k] \in Ids \cup {0}
             /\ u \in [Keys -> Texts \cup {Empty} \cup Ids \cup {0}]
<1> DEFINE l == Read(failed)
           u == Reconciled(l)
<1>1. /\ DOMAIN l = Keys
      /\ \A k \in TextKeys : l[k] = IF k \in failed THEN Empty ELSE Load(k)
      /\ \A k \in IdKeys : l[k] = IF k \in failed THEN 0 ELSE Load(k)
  BY DEF Read, NoValues, Keys, IdKeys, TextKeys
<1>2. \A k \in TextKeys : l[k] \in Texts \cup {Empty}
  BY <1>1 DEF Load, KeyTypes, AnyText
<1>3. \A k \in IdKeys : Load(k) = nvs[k] /\ nvs[k] \in Ids \cup {0}
  BY Distinct DEF Load, KeyTypes
<1>4. ASSUME NEW k \in IdKeys PROVE l[k] \in Ids \cup {0} /\ l[k] \in Nat
  <2>1. l[k] \in Ids \cup {0}
    BY <1>1, <1>3
  <2>2. \A i \in Ids \cup {0} : i \in Nat
    BY Distinct
  <2> QED BY <2>1, <2>2
<1> HIDE DEF l
<1>5. /\ DOMAIN u = Keys
      /\ \A k \in TextKeys : u[k] = l[k]
      /\ \A k \in IdKeys : u[k] = IF l["idUnidadeGtw"] > 0 THEN l["idUnidadeGtw"] ELSE l["idGtw"]
  BY <1>1 DEF Reconciled, Keys, IdKeys, TextKeys
<1>6. u = [k \in Keys |-> u[k]]
  BY <1>5, <1>1 DEF Reconciled
<1>7. \A k \in IdKeys : u[k] \in Ids \cup {0}
  BY <1>4, <1>5 DEF IdKeys
<1> HIDE DEF u
<1>8. \A k \in Keys : u[k] \in Texts \cup {Empty} \cup Ids \cup {0}
  BY <1>2, <1>5, <1>7 DEF Keys
<1>9. u \in [Keys -> Texts \cup {Empty} \cup Ids \cup {0}]
  BY <1>6, <1>8
<1> QED BY <1>1, <1>2, <1>3, <1>4, <1>5, <1>7, <1>9 DEF l, u

\* Without a command under way.
LEMMA NoneUnderWay ==
  ASSUME Command, todo = <<>>
  PROVE  new = NoCommand /\ DOMAIN new = {} /\ Left = {}
<1>1. new = NoCommand
  BY DEF Command
<1>2. DOMAIN new = {}
  BY <1>1 DEF NoCommand
<1>3. 1 .. Len(todo) = {}
  OBVIOUS
<1> QED BY <1>1, <1>2, <1>3 DEF Left

\* A gateway that was never configured satisfies the invariant.
LEMMA ConfigInit == Init => ConfigInv
<1> SUFFICES ASSUME Init PROVE ConfigInv
  OBVIOUS
<1>1. todo = <<>> /\ new = NoCommand /\ DOMAIN new = {} /\ todo \in Seq(Keys)
  BY DEF Init, NoCommand
<1>2. Left = {}
  <2>1. 1 .. Len(todo) = {}
    BY <1>1
  <2> QED BY <2>1 DEF Left
<1>3. FALSE \in BOOLEAN /\ 0 \in 0 .. MaxCommands
  BY GatewayConfigAssumption
<1>4. TypeOK
  BY <1>1, <1>3 DEF Init, TypeOK, NoValues, Keys, IdKeys, TextKeys
<1>5. KeyTypes
  BY <1>1 DEF Init, KeyTypes, NoValues, Keys, IdKeys, TextKeys, AnyText
<1>6. Command
  BY <1>1, <1>2 DEF Command
<1>7. Booting /\ Complete /\ ~Up
  BY DEF Init, Booting, Complete, Up
<1> QED BY <1>4, <1>5, <1>6, <1>7 DEF ConfigInv


\* What a restart loads depends on the flash alone.
LEMMA SameFlash ==
  ASSUME nvs' = nvs
  PROVE  /\ Loaded' = Loaded
         /\ \A k : Load(k)' = Load(k)
         /\ Numbered' <=> Numbered
BY DEF Loaded, Reconciled, Load, Numbered

\* app_main loads what it can read of the flash.
LEMMA LoadsStep == ConfigInv /\ BootLoads => ConfigInv'
<1> SUFFICES ASSUME ConfigInv, BootLoads PROVE ConfigInv'
  OBVIOUS
<1> PICK failed \in SUBSET Unreadable :
      /\ ram' = Reconciled(Read(failed))
      /\ unread' = failed
      /\ boot' = IF Read(failed)["idGtw"] = Read(failed)["idUnidadeGtw"] THEN "check" ELSE "repair"
  BY DEF BootLoads
<1> DEFINE l == Read(failed)
<1>1. todo = <<>> /\ new = NoCommand /\ DOMAIN new = {}
  BY NoneUnderWay DEF ConfigInv, Command, BootLoads
<1>2. KeyTypes /\ TypeOK
  BY DEF ConfigInv
<1>3. /\ boot = "off" /\ nvs' = nvs /\ todo' = todo /\ new' = new /\ commands' = commands
      /\ unsaved' = unsaved /\ complete' = complete
  BY DEF BootLoads
<1>4. /\ \A k \in TextKeys : ram'[k] = IF k \in failed THEN Empty ELSE Load(k)
      /\ \A k \in TextKeys : ram'[k] \in Texts \cup {Empty}
      /\ \A k \in IdKeys : l[k] = IF k \in failed THEN 0 ELSE nvs[k]
      /\ \A k \in IdKeys : ram'[k] = IF l["idUnidadeGtw"] > 0 THEN l["idUnidadeGtw"] ELSE l["idGtw"]
      /\ \A k \in IdKeys : l[k] \in Ids \cup {0} /\ l[k] \in Nat
      /\ \A k \in IdKeys : ram'[k] \in Ids \cup {0}
      /\ ram' \in [Keys -> Texts \cup {Empty} \cup Ids \cup {0}]
  BY <1>2, ReadIs
<1>5. boot' = IF l["idGtw"] = l["idUnidadeGtw"] THEN "check" ELSE "repair"
  OBVIOUS
<1> HIDE DEF l
<1>6. TypeOK'
  <2>1. complete' \in BOOLEAN
    BY <1>2, <1>3, Zenon DEF TypeOK
  <2>2. unread' \subseteq Keys
    BY GatewayConfigAssumption
  <2> QED BY <1>2, <1>3, <1>4, <1>5, <2>1, <2>2 DEF TypeOK
<1>7. KeyTypes'
  BY <1>1, <1>2, <1>3, <1>4 DEF KeyTypes
<1>8. Command'
  BY <1>1, <1>3 DEF Command, Left, ConfigInv
<1>9. Loaded' = Loaded /\ (\A k : Load(k)' = Load(k)) /\ (Numbered' <=> Numbered)
  BY <1>3, SameFlash
<1>10. "idGtw" \in IdKeys /\ "idUnidadeGtw" \in IdKeys
  BY DEF IdKeys
<1>11. ram'["idGtw"] = ram'["idUnidadeGtw"]
  BY <1>4, <1>10
<1>12. boot' = "check" => IdsKept'
  <2> SUFFICES ASSUME l["idGtw"] = l["idUnidadeGtw"] PROVE IdsKept'
    BY <1>5
  <2>1. \A k \in IdKeys : ram'[k] = l["idGtw"]
    BY <1>4, <1>10
  <2>2. CASE failed \cap IdKeys = {}
    <3>1. l["idGtw"] = nvs["idGtw"] /\ l["idUnidadeGtw"] = nvs["idUnidadeGtw"]
      BY <1>4, <1>10, <2>2
    <3>2. \A k \in IdKeys : Loaded[k] = l["idGtw"]
      BY <1>2, <3>1, LoadedIs
    <3> QED BY <1>1, <1>3, <1>9, <1>10, <2>1, <3>2 DEF IdsKept
  <2>3. CASE failed \cap IdKeys # {}
    <3>1. l["idGtw"] = 0
      BY <1>4, <2>3 DEF IdKeys
    <3> QED BY <1>1, <1>3, <1>10, <2>1, <2>3, <3>1 DEF IdsKept
  <2> QED BY <2>2, <2>3
<1>13. ASSUME NEW k \in TextKeys PROVE TextKept(k)'
  BY <1>1, <1>3, <1>4, <1>9 DEF TextKept
<1>14. ram'["idGtw"] # 0 => Numbered'
  BY <1>4, <1>9, <1>10 DEF Numbered
<1>15. failed \cap IdKeys = {} /\ Numbered' => ram'["idGtw"] # 0
  <2>1. failed \cap IdKeys = {} => l["idGtw"] = nvs["idGtw"] /\ l["idUnidadeGtw"] = nvs["idUnidadeGtw"]
    BY <1>4, <1>10
  <2> QED BY <1>4, <1>9, <1>10, <2>1 DEF Numbered
<1>16. boot' = "repair" => \E k \in IdKeys \ failed : nvs'[k] = ram'[k] /\ ram'[k] # 0
  <2> SUFFICES ASSUME l["idGtw"] # l["idUnidadeGtw"]
               PROVE  \E k \in IdKeys \ failed : nvs[k] = ram'[k] /\ ram'[k] # 0
    BY <1>3, <1>5
  <2>1. CASE l["idUnidadeGtw"] > 0
    BY <1>4, <1>10, <2>1
  <2>2. CASE l["idUnidadeGtw"] = 0
    BY <1>4, <1>10, <2>2
  <2> QED BY <1>4, <1>10, <2>1, <2>2
<1>17. Booting'
  BY <1>4, <1>9, <1>11, <1>14, <1>15, <1>16 DEF Booting
<1>18. Complete'
  BY <1>1, <1>3, <1>5, <1>9 DEF ConfigInv, Complete
<1> QED BY <1>5, <1>6, <1>7, <1>8, <1>12, <1>13, <1>17, <1>18 DEF ConfigInv, Up


\* The other identifier is saved like the one that was read, or could not be.
LEMMA RepairsStep == ConfigInv /\ BootRepairs => ConfigInv'
<1> SUFFICES ASSUME ConfigInv, BootRepairs PROVE ConfigInv'
  OBVIOUS
<1> PICK id \in IdKeys : (nvs[id] # ram[id] \/ id \in unread) /\ Save(id, ram[id])
  BY DEF BootRepairs
<1>1. todo = <<>> /\ new = NoCommand /\ DOMAIN new = {}
  BY NoneUnderWay DEF ConfigInv, Command, BootRepairs
<1>2. KeyTypes /\ TypeOK
  BY DEF ConfigInv
<1>3. /\ boot = "repair" /\ boot' = "check" /\ ram' = ram /\ new' = new /\ todo' = todo
      /\ unread' = unread /\ commands' = commands /\ complete' = complete
  BY DEF BootRepairs
<1>4. /\ \A k \in TextKeys : ram[k] = IF k \in unread THEN Empty ELSE Load(k)
      /\ ram["idGtw"] = ram["idUnidadeGtw"]
      /\ \E k \in IdKeys \ unread : nvs[k] = ram[k] /\ ram[k] # 0
  BY <1>3 DEF ConfigInv, Booting
<1> PICK other \in IdKeys \ unread : nvs[other] = ram[other] /\ ram[other] # 0
  BY <1>4
<1>5. id # other /\ IdKeys = {id, other} /\ IdKeys \subseteq Keys
  BY DEF IdKeys, Keys
<1>6. /\ nvs' \in [Keys -> Texts \cup {Empty, TooLong} \cup Ids \cup {0}]
      /\ \A k \in Keys \ {id} : nvs'[k] = nvs[k]
      /\ nvs'[id] \in {nvs[id], ram[id]}
      /\ unsaved' \subseteq Keys
      /\ nvs'[id] = ram[id] \/ id \in unsaved'
  BY <1>2 DEF Save, TypeOK, KeyTypes, Keys, IdKeys
<1>7. TypeOK'
  <2>1. complete' \in BOOLEAN
    BY <1>2, <1>3, Zenon DEF TypeOK
  <2> QED BY <1>2, <1>3, <1>6, <2>1 DEF TypeOK
<1>8. KeyTypes'
  BY <1>1, <1>2, <1>3, <1>6 DEF KeyTypes, Keys, IdKeys, TextKeys
<1>9. Command'
  BY <1>1, <1>3 DEF ConfigInv, Command, Left
<1>10. \A k \in TextKeys : nvs'[k] = nvs[k] /\ Load(k)' = Load(k)
  BY <1>6 DEF Load, Keys, IdKeys, TextKeys
<1>11. \A k \in IdKeys : ram[k] = ram[other]
  BY <1>4 DEF IdKeys
<1>12. nvs'[other] = ram[other]
  BY <1>5, <1>6
<1>13. IdsKept'
  <2>1. CASE nvs'[id] = ram[id]
    <3>1. \A k \in IdKeys : nvs'[k] = ram[k]
      BY <1>5, <1>12, <2>1
    <3>2. \A k \in IdKeys : Loaded'[k] = ram[k]
      BY <1>8, <1>11, <3>1, LoadedIsNext DEF IdKeys
    <3> QED BY <1>1, <1>3, <3>2 DEF IdsKept, IdKeys
  <2>2. CASE id \in unsaved'
    BY <1>1, <1>3, <2>2 DEF IdsKept
  <2> QED BY <1>6, <2>1, <2>2
<1>14. \A k \in TextKeys : TextKept(k)'
  BY <1>1, <1>3, <1>4, <1>10 DEF TextKept
<1>15. Numbered'
  BY <1>12 DEF Numbered, IdKeys
<1>16. Booting'
  BY <1>3, <1>4, <1>10, <1>11, <1>15 DEF Booting, IdKeys
<1>17. Complete'
  BY <1>1, <1>3, <1>10, <1>15 DEF ConfigInv, Complete
<1> QED BY <1>7, <1>8, <1>9, <1>13, <1>14, <1>16, <1>17 DEF ConfigInv

\* app_main looks whether all is there.
LEMMA ChecksStep == ConfigInv /\ BootChecks => ConfigInv'
<1> SUFFICES ASSUME ConfigInv, BootChecks PROVE ConfigInv'
  OBVIOUS
<1>1. todo = <<>> /\ new = NoCommand
  BY NoneUnderWay DEF ConfigInv, Command, BootChecks
<1>2. boot = "check" /\ boot' = (IF Configured THEN "running" ELSE "waiting")
      /\ complete' = (complete \/ Configured)
      /\ nvs' = nvs /\ ram' = ram /\ todo' = todo /\ new' = new /\ commands' = commands
      /\ unsaved' = unsaved /\ unread' = unread
  BY DEF BootChecks
<1>3. /\ \A k \in TextKeys : ram[k] = IF k \in unread THEN Empty ELSE Load(k)
      /\ ram["idGtw"] # 0 => Numbered
      /\ unread \cap IdKeys = {} /\ Numbered => ram["idGtw"] # 0
      /\ ram["idGtw"] = ram["idUnidadeGtw"]
  BY <1>2 DEF ConfigInv, Booting
<1>4. ASSUME NEW k \in TextKeys
      PROVE  /\ ram[k] # Empty => nvs[k] \in Texts
             /\ nvs[k] \in Texts => ram[k] # Empty \/ k \in unread
  <2>1. nvs[k] \in AnyText /\ ram[k] = IF k \in unread THEN Empty ELSE Load(k)
    BY <1>3 DEF ConfigInv, KeyTypes
  <2> QED BY <2>1, Distinct DEF Load, AnyText
<1>5. /\ \A k \in TextKeys : NoValues[k] = Empty /\ Group(k) = {k} /\ k \in Keys
      /\ \A k \in IdKeys : NoValues[k] = 0 /\ Group(k) = IdKeys /\ k \in Keys
  BY DEF NoValues, Keys, IdKeys, TextKeys, Group
<1>6. Configured => Numbered /\ \A k \in TextKeys : nvs[k] \in Texts
  <2>1. Configured => \A k \in TextKeys : ram[k] # Empty
    BY <1>5 DEF Configured
  <2>2. Configured => ram["idGtw"] # 0
    BY <1>5 DEF Configured, IdKeys
  <2> QED BY <1>3, <1>4, <2>1, <2>2
<1>7. TypeOK'
  <2>1. complete' \in BOOLEAN
    BY <1>2, Zenon DEF ConfigInv, TypeOK, Configured
  <2> QED BY <1>2, <2>1 DEF ConfigInv, TypeOK
<1>8. KeyTypes'
  BY <1>2 DEF ConfigInv, KeyTypes
<1>9. Command'
  BY <1>1, <1>2 DEF ConfigInv, Command, Left
<1>10. IdsKept' /\ \A k \in TextKeys : TextKept(k)'
  <2>1. Loaded' = Loaded /\ Left' = Left
    BY <1>2 DEF Loaded, Reconciled, Load, Left
  <2>2. IdsKept /\ \A k \in TextKeys : TextKept(k)
    BY <1>2 DEF ConfigInv, Up
  <2> QED BY <1>2, <2>1, <2>2 DEF IdsKept, TextKept, Load
<1>11. Booting'
  BY <1>2, <1>3 DEF Booting
<1>12. Complete'
  <2>1. Numbered' <=> Numbered
    BY <1>2 DEF Numbered
  <2>2. DOMAIN new' = {}
    BY <1>1, <1>2 DEF NoCommand
  <2>3. complete' => Numbered /\ \A k \in TextKeys : nvs[k] \in Texts
    BY <1>2, <1>6 DEF ConfigInv, Complete
  <2>4. ASSUME complete', NEW k \in Keys
        PROVE  ram[k] # NoValues[k] \/ NotRead(k)
    <3>1. CASE k \in TextKeys
      BY <1>4, <1>5, <2>3, <2>4, <3>1 DEF NotRead
    <3>2. CASE k \in IdKeys
      <4>1. ram[k] = ram["idGtw"]
        BY <1>3, <3>2 DEF IdKeys
      <4> QED BY <1>3, <1>5, <2>3, <2>4, <3>2, <4>1 DEF NotRead
    <3> QED BY <3>1, <3>2 DEF Keys
  <2>5. \A k \in Keys : NotRead(k)' <=> NotRead(k)
    BY <1>2 DEF NotRead, Group
  <2> QED BY <1>2, <2>1, <2>2, <2>3, <2>4, <2>5 DEF Complete
<1> QED BY <1>7, <1>8, <1>9, <1>10, <1>11, <1>12 DEF ConfigInv


\* app_main has waited until a phone brought the last value.
LEMMA PollsStep == ConfigInv /\ BootPolls => ConfigInv'
<1> SUFFICES ASSUME ConfigInv, BootPolls PROVE ConfigInv'
  OBVIOUS
<1>1. /\ boot = "waiting" /\ boot' = "running"
      /\ nvs' = nvs /\ ram' = ram /\ todo' = todo /\ new' = new /\ commands' = commands
      /\ unsaved' = unsaved /\ unread' = unread /\ complete' = complete
  BY DEF BootPolls
<1>2. TypeOK'
  <2>1. complete' \in BOOLEAN
    BY <1>1, Zenon DEF ConfigInv, TypeOK
  <2> QED BY <1>1, <2>1 DEF ConfigInv, TypeOK
<1>3. KeyTypes' /\ Command'
  BY <1>1 DEF ConfigInv, KeyTypes, Command, Left
<1>4. IdsKept' /\ \A k \in TextKeys : TextKept(k)'
  <2>1. IdsKept /\ \A k \in TextKeys : TextKept(k)
    BY <1>1 DEF ConfigInv, Up
  <2> QED BY <1>1, <2>1, SameFlash DEF IdsKept, TextKept, Left
<1>5. Booting' /\ Complete'
  BY <1>1, SameFlash DEF ConfigInv, Booting, Complete
<1> QED BY <1>2, <1>3, <1>4, <1>5 DEF ConfigInv

\* The flash is erased before anything is loaded.
LEMMA ErasesStep == ConfigInv /\ BootErases => ConfigInv'
<1> SUFFICES ASSUME ConfigInv, BootErases PROVE ConfigInv'
  OBVIOUS
<1>1. /\ boot = "off" /\ boot' = "off" /\ nvs' = NoValues /\ unsaved' = {} /\ complete' = FALSE
      /\ ram' = ram /\ todo' = todo /\ new' = new /\ commands' = commands /\ unread' = unread
  BY DEF BootErases
<1>2. TypeOK'
  <2>1. NoValues \in [Keys -> Texts \cup {Empty, TooLong} \cup Ids \cup {0}]
    BY DEF NoValues, Keys, IdKeys, TextKeys
  <2>2. FALSE \in BOOLEAN
    OBVIOUS
  <2> QED BY <1>1, <2>1, <2>2 DEF ConfigInv, TypeOK
<1>3. KeyTypes'
  BY <1>1 DEF ConfigInv, KeyTypes, NoValues, Keys, IdKeys, TextKeys, AnyText
<1>4. Command'
  BY <1>1 DEF ConfigInv, Command, Left
<1> QED BY <1>1, <1>2, <1>3, <1>4 DEF ConfigInv, Up, Booting, Complete

\* The power is lost, or a task restarts the device.
LEMMA RestartStep == ConfigInv /\ Restart => ConfigInv'
<1> SUFFICES ASSUME ConfigInv, Restart PROVE ConfigInv'
  OBVIOUS
<1>1. /\ boot' = "off" /\ ram' = NoValues /\ todo' = <<>> /\ new' = NoCommand
      /\ nvs' = nvs /\ commands' = commands /\ unsaved' = unsaved /\ complete' = complete
      /\ unread' = {}
  BY DEF Restart
<1>2. DOMAIN new' = {} /\ Left' = {} /\ todo' \in Seq(Keys)
  <2>1. 1 .. Len(todo') = {}
    BY <1>1
  <2> QED BY <1>1, <2>1 DEF NoCommand, Left
<1>3. TypeOK'
  <2>1. ram' \in [Keys -> Texts \cup {Empty, Cut} \cup Ids \cup {0}]
    BY <1>1 DEF NoValues, Keys, IdKeys, TextKeys
  <2>2. complete' \in BOOLEAN
    BY <1>1, Zenon DEF ConfigInv, TypeOK
  <2> QED BY <1>1, <1>2, <2>1, <2>2 DEF ConfigInv, TypeOK
<1>4. KeyTypes'
  BY <1>1, <1>2 DEF ConfigInv, KeyTypes, NoValues, Keys, IdKeys, TextKeys
<1>5. Command'
  BY <1>1, <1>2 DEF Command
<1>6. Complete'
  BY <1>1, <1>2, SameFlash DEF ConfigInv, Complete
<1> QED BY <1>1, <1>3, <1>4, <1>5, <1>6 DEF ConfigInv, Up, Booting


\* A command arrives: nothing of it is saved yet.
LEMMA BeginStep ==
  ASSUME ConfigInv,
         NEW command, command \in Seq(Keys), command # <<>>,
         NEW values,
         DOMAIN values \subseteq Keys,
         {command[i] : i \in 1 .. Len(command)} = DOMAIN values,
         \A k \in DOMAIN values : k \in IdKeys => values[k] \in Ids,
         \A k \in DOMAIN values : k \in TextKeys => values[k] \in AnyText,
         \/ IdKeys \subseteq DOMAIN values /\ values["idGtw"] = values["idUnidadeGtw"]
         \/ IdKeys \cap DOMAIN values = {},
         Begin(command, values)
  PROVE  ConfigInv'
<1>1. /\ boot \in {"waiting", "running"} /\ todo = <<>> /\ commands < MaxCommands
      /\ commands' = commands + 1 /\ todo' = command /\ new' = values
      /\ complete' = (complete /\ {Empty, TooLong} \cap {values[k] : k \in DOMAIN values} = {})
      /\ nvs' = nvs /\ ram' = ram /\ boot' = boot /\ unsaved' = unsaved /\ unread' = unread
  BY DEF Begin
<1>2. new = NoCommand /\ DOMAIN new = {} /\ Left = {}
  BY <1>1, NoneUnderWay DEF ConfigInv
<1>3. Left' = DOMAIN values
  BY <1>1 DEF Left
<1>4. TypeOK'
  <2>1. complete' \in BOOLEAN
    BY <1>1, Zenon
  <2>2. commands' \in 0 .. MaxCommands
    BY <1>1, GatewayConfigAssumption DEF ConfigInv, TypeOK
  <2>3. \A k \in DOMAIN values : values[k] \in Texts \cup {Empty, TooLong} \cup Ids
    BY DEF AnyText, Keys
  <2> QED BY <1>1, <2>1, <2>2, <2>3 DEF ConfigInv, TypeOK
<1>5. KeyTypes'
  BY <1>1 DEF ConfigInv, KeyTypes
<1>6. Command'
  BY <1>1, <1>3 DEF Command
<1>7. IdsKept'
  <2>1. IdsKept
    BY <1>1 DEF ConfigInv, Up
  <2>2. IdKeys \cap DOMAIN new = {}
    BY <1>2
  <2>3. \A k \in IdKeys : k \in DOMAIN values => k \in Left'
    BY <1>3
  <2>4. CASE IdKeys \cap DOMAIN values = {}
    BY <1>1, <2>1, <2>2, <2>4, SameFlash DEF IdsKept
  <2>5. CASE IdKeys \subseteq DOMAIN values
    <3>1. IdKeys \cap DOMAIN new' # {}
      BY <1>1, <2>5 DEF IdKeys
    <3> QED BY <2>3, <2>5, <3>1 DEF IdsKept
  <2> QED BY <2>4, <2>5
<1>8. ASSUME NEW k \in TextKeys PROVE TextKept(k)'
  <2>1. TextKept(k)
    BY <1>1 DEF ConfigInv, Up
  <2> QED BY <1>1, <1>2, <1>3, <2>1, SameFlash DEF TextKept
<1>9. Booting'
  BY <1>1, SameFlash DEF ConfigInv, Booting
<1>10. Complete'
  <2>1. complete' => \A k \in TextKeys \cap DOMAIN values : values[k] \in Texts
    <3> SUFFICES ASSUME complete', NEW k \in TextKeys \cap DOMAIN values
                 PROVE  values[k] \in Texts
      OBVIOUS
    <3>1. values[k] \notin {Empty, TooLong}
      BY <1>1
    <3>2. values[k] \in AnyText
      BY <1>1
    <3> QED BY <3>1, <3>2 DEF AnyText
  <2>2. complete' => complete
    BY <1>1
  <2>3. \A k \in Keys : NotRead(k)' <=> NotRead(k)
    BY <1>1 DEF NotRead, Group
  <2> QED BY <1>1, <2>1, <2>2, <2>3, SameFlash DEF ConfigInv, Complete
<1> QED BY <1>4, <1>5, <1>6, <1>7, <1>8, <1>9, <1>10 DEF ConfigInv

\* ... the user, the password and the two identifiers,
LEMMA BeginConfigStep == ConfigInv /\ BeginConfig => ConfigInv'
<1> SUFFICES ASSUME ConfigInv, NEW user \in AnyText, NEW password \in AnyText, NEW id \in Ids,
                    Begin(GtwConfig, [userGtw |-> user, passwordGtw |-> password,
                                      idGtw |-> id, idUnidadeGtw |-> id])
             PROVE  ConfigInv'
  BY DEF BeginConfig
<1> DEFINE values == [userGtw |-> user, passwordGtw |-> password,
                      idGtw |-> id, idUnidadeGtw |-> id]
<1>1. GtwConfig \in Seq(Keys) /\ GtwConfig # <<>>
  BY DEF GtwConfig, Keys, TextKeys, IdKeys
<1>2. {GtwConfig[i] : i \in 1 .. Len(GtwConfig)} = DOMAIN values
  BY DEF GtwConfig
<1>3. DOMAIN values \subseteq Keys /\ IdKeys \subseteq DOMAIN values
  BY DEF Keys, TextKeys, IdKeys
<1>4. \A k \in DOMAIN values : k \in IdKeys => values[k] \in Ids
  BY DEF IdKeys
<1>5. \A k \in DOMAIN values : k \in TextKeys => values[k] \in AnyText
  BY DEF TextKeys
<1> HIDE DEF values
<1>6. values["idGtw"] = values["idUnidadeGtw"]
  BY DEF values
<1>7. Begin(GtwConfig, values)
  BY DEF values
<1> QED BY <1>1, <1>2, <1>3, <1>4, <1>5, <1>6, <1>7, BeginStep

\* ... or the name and the password of the network.
LEMMA BeginWifiStep == ConfigInv /\ BeginWifi => ConfigInv'
<1> SUFFICES ASSUME ConfigInv, NEW ssid \in AnyText, NEW password \in AnyText,
                    Begin(GtwWifi, [SSID |-> ssid, passwordWifi |-> password])
             PROVE  ConfigInv'
  BY DEF BeginWifi
<1> DEFINE values == [SSID |-> ssid, passwordWifi |-> password]
<1>1. GtwWifi \in Seq(Keys) /\ GtwWifi # <<>>
  BY DEF GtwWifi, Keys, TextKeys, IdKeys
<1>2. {GtwWifi[i] : i \in 1 .. Len(GtwWifi)} = DOMAIN values
  BY DEF GtwWifi
<1>3. DOMAIN values \subseteq Keys /\ IdKeys \cap DOMAIN values = {}
  BY DEF Keys, TextKeys, IdKeys
<1>4. \A k \in DOMAIN values : k \in IdKeys => values[k] \in Ids
  BY <1>3
<1>5. \A k \in DOMAIN values : k \in TextKeys => values[k] \in AnyText
  BY DEF TextKeys
<1> HIDE DEF values
<1>6. Begin(GtwWifi, values)
  BY DEF values
<1> QED BY <1>1, <1>2, <1>3, <1>4, <1>5, <1>6, BeginStep


\* One value of the command is saved, or could not be; after the last one the
\* variables take the values.
LEMMA SaveStep == ConfigInv /\ SaveNext => ConfigInv'
<1> SUFFICES ASSUME ConfigInv, SaveNext PROVE ConfigInv'
  OBVIOUS
<1> DEFINE key == Head(todo)
<1>1. /\ todo # <<>> /\ Save(key, new[key]) /\ todo' = Tail(todo)
      /\ boot' = boot /\ commands' = commands /\ complete' = complete
  BY DEF SaveNext
<1>2. /\ TypeOK /\ KeyTypes /\ Command
      /\ boot \in {"waiting", "running"}
  BY <1>1 DEF ConfigInv, Command
<1>3. /\ key \in Left /\ key \in Keys /\ key \in DOMAIN new
      /\ todo' \in Seq(Keys)
      /\ Left' \subseteq Left /\ Left \subseteq Left' \cup {key}
      /\ todo' = <<>> => Left' = {}
  BY <1>1, <1>2, OneSaved DEF TypeOK, Command
<1>4. /\ (IdsKept /\ \A k \in TextKeys : TextKept(k))
      /\ ram["idGtw"] = ram["idUnidadeGtw"]
  BY <1>2 DEF ConfigInv, Up, Booting
<1> HIDE DEF key
<1>5. new[key] \in Texts \cup {Empty, TooLong} \cup Ids
  BY <1>2, <1>3 DEF TypeOK
<1>6. /\ nvs' \in [Keys -> Texts \cup {Empty, TooLong} \cup Ids \cup {0}]
      /\ unsaved' \subseteq Keys
      /\ nvs'[key] = new[key] \/ key \in unsaved'
      /\ nvs'[key] \in {nvs[key], new[key]}
      /\ unsaved' \subseteq unsaved \cup {key}
      /\ \A k \in Keys : k # key => nvs'[k] = nvs[k] /\ (k \in unsaved <=> k \in unsaved')
  <2>1. nvs \in [Keys -> Texts \cup {Empty, TooLong} \cup Ids \cup {0}] /\ unsaved \subseteq Keys
    BY <1>2 DEF TypeOK
  <2>2. CASE nvs' = [nvs EXCEPT ![key] = new[key]] /\ unsaved' = unsaved \ {key}
    BY <1>3, <1>5, <2>1, <2>2
  <2>3. CASE nvs' = nvs /\ unsaved' = unsaved \cup {key}
    BY <1>3, <2>1, <2>3
  <2> QED BY <1>1, <2>2, <2>3 DEF Save
<1>7. CASE todo' # <<>>
  <2>1. ram' = ram /\ new' = new /\ unread' = unread
    BY <1>7 DEF SaveNext
  <2>2. TypeOK'
    <3>1. complete' \in BOOLEAN
      BY <1>1, <1>2, Zenon DEF TypeOK
    <3> QED BY <1>1, <1>2, <1>3, <1>6, <2>1, <3>1 DEF TypeOK
  <2>3. KeyTypes'
    BY <1>2, <1>3, <1>6, <2>1 DEF KeyTypes, Keys
  <2>4. Command'
    BY <1>1, <1>2, <1>3, <1>7, <2>1 DEF Command
  <2>5. IdsKept'
    <3>1. CASE IdKeys \cap DOMAIN new = {}
      <4>1. \A k \in IdKeys : nvs'[k] = nvs[k] /\ (k \in unsaved <=> k \in unsaved')
        BY <1>3, <1>6, <3>1 DEF Keys
      <4>2. Loaded'["idGtw"] = Loaded["idGtw"] /\ Loaded'["idUnidadeGtw"] = Loaded["idUnidadeGtw"]
        BY <1>2, <2>3, <4>1, LoadedIs, LoadedIsNext DEF IdKeys
      <4> QED BY <1>4, <2>1, <3>1, <4>1, <4>2 DEF IdsKept
    <3>2. CASE IdKeys \cap DOMAIN new # {}
      <4>1. \A k \in IdKeys : k \notin Left => nvs[k] = new[k] \/ k \in unsaved
        BY <1>4, <3>2 DEF IdsKept
      <4>2. \A k \in IdKeys : k \notin Left' => nvs'[k] = new[k] \/ k \in unsaved'
        BY <1>3, <1>6, <4>1 DEF Keys
      <4> QED BY <2>1, <3>2, <4>2 DEF IdsKept
    <3> QED BY <3>1, <3>2
  <2>6. ASSUME NEW k \in TextKeys PROVE TextKept(k)'
    <3>1. TextKept(k) /\ k \in Keys
      BY <1>4 DEF Keys
    <3>2. CASE k \in DOMAIN new
      BY <1>3, <1>6, <2>1, <3>1, <3>2 DEF TextKept
    <3>3. CASE k \notin DOMAIN new
      <4>1. nvs'[k] = nvs[k] /\ (k \in unsaved <=> k \in unsaved')
        BY <1>3, <1>6, <3>1, <3>3
      <4>2. Load(k)' = Load(k)
        BY <4>1 DEF Load
      <4> QED BY <2>1, <3>1, <3>3, <4>1, <4>2 DEF TextKept
    <3> QED BY <3>2, <3>3
  <2>7. Booting'
    BY <1>1, <1>2, <1>4, <2>1 DEF Booting
  <2>8. Complete'
    <3>1. complete => Numbered'
      BY <1>2, <1>3, <1>6, Distinct DEF ConfigInv, Complete, Numbered, KeyTypes, Keys, IdKeys
    <3>2. complete => \A k \in TextKeys : nvs'[k] \in Texts
      BY <1>3, <1>6 DEF ConfigInv, Complete, Keys
    <3>3. \A k \in Keys : NotRead(k)' <=> NotRead(k)
      BY <2>1 DEF NotRead, Group
    <3> QED BY <1>1, <2>1, <3>1, <3>2, <3>3 DEF ConfigInv, Complete
  <2> QED BY <2>2, <2>3, <2>4, <2>5, <2>6, <2>7, <2>8 DEF ConfigInv
<1>8. CASE todo' = <<>>
  <2>1. ram' = [k \in Keys |-> IF k \in DOMAIN new THEN Copy(new[k]) ELSE ram[k]]
        /\ new' = NoCommand /\ DOMAIN new' = {} /\ Left' = {} /\ Left \subseteq {key}
        /\ unread' = unread \ DOMAIN new
    BY <1>3, <1>8 DEF SaveNext, NoCommand
  <2>2. ASSUME NEW k \in IdKeys
        PROVE  /\ k \in Keys
               /\ k \in DOMAIN new => new[k] \in Ids /\ Copy(new[k]) = new[k]
               /\ ram'[k] = IF k \in DOMAIN new THEN new[k] ELSE ram[k]
               /\ ram'[k] \in Ids \cup {0}
               /\ nvs'[k] \in Ids \cup {0}
    <3>1. k \in Keys /\ (k \in DOMAIN new => new[k] \in Ids)
      BY <1>2 DEF Keys, KeyTypes
    <3>2. k \in DOMAIN new => Copy(new[k]) = new[k]
      BY <3>1, Distinct DEF Copy
    <3>3. ram[k] \in Ids \cup {0} /\ nvs[k] \in Ids \cup {0}
      BY <1>2 DEF KeyTypes
    <3> QED BY <1>3, <1>6, <2>1, <3>1, <3>2, <3>3
  <2>3. ASSUME NEW k \in TextKeys
        PROVE  /\ k \in Keys
               /\ ram'[k] = IF k \in DOMAIN new THEN Copy(new[k]) ELSE ram[k]
               /\ ram'[k] \in Texts \cup {Empty, Cut}
               /\ nvs'[k] \in AnyText
    <3>1. k \in Keys /\ (k \in DOMAIN new => new[k] \in AnyText)
      BY <1>2 DEF Keys, KeyTypes
    <3>2. ram[k] \in Texts \cup {Empty, Cut} /\ nvs[k] \in AnyText
      BY <1>2 DEF KeyTypes
    <3>3. k \in DOMAIN new => Copy(new[k]) \in Texts \cup {Empty, Cut}
      BY <3>1 DEF Copy, AnyText
    <3> QED BY <1>3, <1>6, <2>1, <3>1, <3>2, <3>3
  <2>4. KeyTypes'
    BY <2>1, <2>2, <2>3 DEF KeyTypes
  <2>5. TypeOK'
    <3>1. complete' \in BOOLEAN
      BY <1>1, <1>2, Zenon DEF TypeOK
    <3>2. ram' \in [Keys -> Texts \cup {Empty, Cut} \cup Ids \cup {0}]
      BY <2>1, <2>2, <2>3 DEF Keys
    <3> QED BY <1>1, <1>2, <1>3, <1>6, <2>1, <3>1, <3>2 DEF TypeOK
  <2>6. Command'
    BY <1>8, <2>1 DEF Command
  <2>7. ASSUME NEW k \in DOMAIN new
        PROVE  nvs'[k] = new[k] \/ k \in unsaved'
    <3>1. k \in Keys
      BY <1>2 DEF TypeOK
    <3>2. CASE k = key
      BY <1>6, <3>2
    <3>3. CASE k # key
      <4>1. k \notin Left
        BY <2>1, <3>3
      <4>2. nvs[k] = new[k] \/ k \in unsaved
        BY <1>4, <3>1, <4>1 DEF IdsKept, TextKept, Keys
      <4> QED BY <1>6, <3>1, <3>3, <4>2
    <3> QED BY <3>2, <3>3
  <2>8. IdsKept'
    <3>1. CASE IdKeys \cap DOMAIN new = {}
      <4>1. \A k \in IdKeys : nvs'[k] = nvs[k] /\ (k \in unsaved <=> k \in unsaved') /\ ram'[k] = ram[k]
        BY <1>3, <1>6, <2>2, <3>1
      <4>2. Loaded'["idGtw"] = Loaded["idGtw"] /\ Loaded'["idUnidadeGtw"] = Loaded["idUnidadeGtw"]
        BY <1>2, <2>4, <4>1, LoadedIs, LoadedIsNext DEF IdKeys
      <4>3. ram'["idGtw"] = ram["idGtw"] /\ ram'["idUnidadeGtw"] = ram["idUnidadeGtw"]
        BY <4>1 DEF IdKeys
      <4>4. unread' \cap IdKeys = unread \cap IdKeys
        BY <2>1, <3>1
      <4> QED BY <1>4, <2>1, <3>1, <4>1, <4>2, <4>3, <4>4 DEF IdsKept
    <3>2. CASE IdKeys \subseteq DOMAIN new /\ new["idGtw"] = new["idUnidadeGtw"]
      <4>1. CASE unsaved' \cap IdKeys # {}
        BY <2>1, <4>1 DEF IdsKept
      <4>2. CASE unsaved' \cap IdKeys = {}
        <5>1. \A k \in IdKeys : nvs'[k] = new[k] /\ new[k] \in Ids /\ ram'[k] = new[k]
          BY <2>2, <2>7, <3>2, <4>2
        <5>2. Loaded'["idGtw"] = ram'["idGtw"] /\ Loaded'["idUnidadeGtw"] = ram'["idUnidadeGtw"]
          BY <2>4, <3>2, <5>1, LoadedIsNext DEF IdKeys
        <5> QED BY <2>1, <5>2 DEF IdsKept
      <4> QED BY <4>1, <4>2
    <3> QED BY <1>2, <3>1, <3>2 DEF Command
  <2>9. ASSUME NEW k \in TextKeys PROVE TextKept(k)'
    <3>1. CASE k \in DOMAIN new
      <4>1. nvs'[k] = new[k] \/ k \in unsaved'
        BY <2>7, <3>1
      <4>2. nvs'[k] = new[k] /\ nvs'[k] # TooLong => Load(k)' = ram'[k]
        BY <2>3, <3>1 DEF Load, Copy
      <4> QED BY <2>1, <4>1, <4>2 DEF TextKept
    <3>2. CASE k \notin DOMAIN new
      <4>1. nvs'[k] = nvs[k] /\ (k \in unsaved <=> k \in unsaved') /\ ram'[k] = ram[k]
        BY <1>3, <1>6, <2>3, <3>2
      <4>2. Load(k)' = Load(k)
        BY <4>1 DEF Load
      <4>3. TextKept(k)
        BY <1>4
      <4> QED BY <2>1, <3>2, <4>1, <4>2, <4>3 DEF TextKept
    <3> QED BY <3>1, <3>2
  <2>10. Booting'
    <3>1. ram'["idGtw"] = ram'["idUnidadeGtw"]
      BY <1>2, <1>4, <2>2 DEF Command, IdKeys
    <3> QED BY <1>1, <1>2, <3>1 DEF Booting
  <2>11. Complete'
    <3>1. complete => Numbered'
      BY <1>2, <1>3, <1>6, Distinct DEF ConfigInv, Complete, Numbered, KeyTypes, Keys, IdKeys
    <3>2. complete => \A k \in TextKeys : nvs'[k] \in Texts
      BY <1>3, <1>6 DEF ConfigInv, Complete, Keys
    <3>3. /\ \A k \in TextKeys : NoValues[k] = Empty /\ Group(k) = {k} /\ k \in Keys
          /\ \A k \in IdKeys : NoValues[k] = 0 /\ Group(k) = IdKeys /\ k \in Keys
      BY DEF NoValues, Keys, IdKeys, TextKeys, Group
    <3>4. ASSUME complete, boot = "waiting", NEW k \in Keys
          PROVE  ram'[k] # NoValues[k] \/ NotRead(k)'
      <4>1. ram[k] # NoValues[k] \/ NotRead(k)
        BY <3>4 DEF ConfigInv, Complete
      <4>2. CASE k \in TextKeys
        <5>1. k \in DOMAIN new => new[k] \in Texts
          BY <3>4, <4>2 DEF ConfigInv, Complete
        <5>2. k \in DOMAIN new => ram'[k] # Empty
          BY <2>3, <4>2, <5>1, Distinct DEF Copy
        <5>3. k \notin DOMAIN new => ram'[k] = ram[k] /\ (k \in unread' <=> k \in unread)
          BY <2>1, <2>3, <4>2
        <5> QED BY <3>3, <4>1, <4>2, <5>2, <5>3 DEF NotRead
      <4>3. CASE k \in IdKeys /\ IdKeys \subseteq DOMAIN new
        BY <2>2, <3>3, <4>3, Distinct
      <4>4. CASE k \in IdKeys /\ IdKeys \cap DOMAIN new = {}
        <5>1. ram'[k] = ram[k] /\ unread' \cap IdKeys = unread \cap IdKeys
          BY <2>1, <2>2, <4>4
        <5> QED BY <3>3, <4>1, <4>4, <5>1 DEF NotRead
      <4> QED BY <1>2, <4>2, <4>3, <4>4 DEF Command, Keys
    <3> QED BY <1>1, <2>1, <3>1, <3>2, <3>4 DEF ConfigInv, Complete
  <2> QED BY <2>4, <2>5, <2>6, <2>8, <2>9, <2>10, <2>11 DEF ConfigInv
<1> QED BY <1>7, <1>8


-----------------------------------------------------------------------------
\* Stuttering.
LEMMA StutterStep == ConfigInv /\ UNCHANGED vars => ConfigInv'
<1> SUFFICES ASSUME ConfigInv, UNCHANGED vars PROVE ConfigInv'
  OBVIOUS
<1>1. /\ nvs' = nvs /\ ram' = ram /\ boot' = boot /\ todo' = todo /\ new' = new
      /\ commands' = commands /\ unsaved' = unsaved /\ unread' = unread /\ complete' = complete
  BY DEF vars
<1>2. TypeOK'
  <2>1. complete' \in BOOLEAN
    BY <1>1, Zenon DEF ConfigInv, TypeOK
  <2> QED BY <1>1, <2>1 DEF ConfigInv, TypeOK
<1>3. KeyTypes' /\ Command'
  BY <1>1 DEF ConfigInv, KeyTypes, Command, Left
<1>4. Up' => IdsKept' /\ \A k \in TextKeys : TextKept(k)'
  BY <1>1, SameFlash DEF ConfigInv, Up, IdsKept, TextKept, Left
<1>5. Booting' /\ Complete'
  BY <1>1, SameFlash DEF ConfigInv, Booting, Complete, NotRead, Group
<1> QED BY <1>2, <1>3, <1>4, <1>5 DEF ConfigInv

\* The invariant holds in every state.
THEOREM ConfigIsInvariant == Spec => []ConfigInv
<1>1. ConfigInv /\ [Next]_vars => ConfigInv'
  BY LoadsStep, RepairsStep, ChecksStep, PollsStep, ErasesStep, RestartStep, BeginConfigStep,
     BeginWifiStep, SaveStep, StutterStep DEF Next, Boot
<1> QED BY ConfigInit, <1>1, PTL DEF Spec

\* What the tasks read fits its buffers and is of one gateway, wherever the power
\* was lost in a command: bt_message_received_callback and app_main.
THEOREM RamIsSound == Spec => []RamSound
<1>1. ConfigInv => RamSound
  BY DEF ConfigInv, RamSound, Booting, IdsAgree, Up
<1> QED BY ConfigIsInvariant, <1>1, PTL

\* Between commands a restart loads what is in use, but for a save or a read that
\* failed and a text that does not fit: save_* and load_*.
THEOREM RestartIsHarmless == Spec => []RestartChangesNothing
<1>1. ConfigInv => RestartChangesNothing
  <2> SUFFICES ASSUME ConfigInv, Idle, NEW k \in Keys
               PROVE  \/ Loaded[k] = ram[k]
                      \/ nvs[k] = TooLong
                      \/ unsaved \cap Group(k) # {}
                      \/ NotRead(k)
    BY DEF RestartChangesNothing
  <2>1. new = NoCommand /\ DOMAIN new = {} /\ Left = {}
    BY NoneUnderWay DEF ConfigInv, Idle
  <2>2. IdsKept /\ \A t \in TextKeys : TextKept(t)
    BY DEF ConfigInv, Idle
  <2>3. CASE k \in IdKeys
    <3>1. \/ Loaded["idGtw"] = ram["idGtw"] /\ Loaded["idUnidadeGtw"] = ram["idUnidadeGtw"]
          \/ unsaved \cap IdKeys # {}
          \/ ram["idGtw"] = 0 /\ unread \cap IdKeys # {}
      BY <2>1, <2>2 DEF IdsKept
    <3>2. ram["idGtw"] = ram["idUnidadeGtw"]
      BY DEF ConfigInv, Booting, Idle, Up
    <3>3. ram[k] = ram["idGtw"] /\ Group(k) = IdKeys /\ NoValues[k] = 0
      BY <2>3, <3>2 DEF IdKeys, Group, NoValues, Keys
    <3>4. Loaded["idGtw"] = ram["idGtw"] /\ Loaded["idUnidadeGtw"] = ram["idUnidadeGtw"]
            => Loaded[k] = ram[k]
      BY <2>3 DEF IdKeys
    <3> QED BY <3>1, <3>3, <3>4 DEF NotRead
  <2>4. CASE k \in TextKeys
    <3>1. \/ nvs[k] = TooLong \/ Load(k) = ram[k] \/ k \in unsaved
          \/ ram[k] = Empty /\ k \in unread
      BY <2>1, <2>2, <2>4 DEF TextKept
    <3>2. Loaded[k] = Load(k)
      BY <2>4, LoadedIs DEF ConfigInv
    <3>3. Group(k) = {k} /\ NoValues[k] = Empty
      BY <2>4 DEF TextKeys, IdKeys, Group, NoValues, Keys
    <3> QED BY <3>1, <3>2, <3>3 DEF NotRead
  <2> QED BY <2>3, <2>4 DEF Keys
<1> QED BY ConfigIsInvariant, <1>1, PTL

\* A gateway that ran from its flash never waits for a phone again, whatever
\* command was interrupted, unless for what it could not read at this start: the
\* poll of app_main.
THEOREM GatewayStaysConfigured == Spec => []StaysConfigured
<1>1. ConfigInv => StaysConfigured
  BY DEF ConfigInv, Complete, StaysConfigured
<1> QED BY ConfigIsInvariant, <1>1, PTL

=============================================================================
