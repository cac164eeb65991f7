--------------------------- MODULE GatewayConfig ---------------------------
(* The configuration that a phone writes: six values in RAM and in the NVS  *)
(* flash, one commit each (save_* of main.c), and app_main, which loads     *)
(* them, makes the two identifiers equal and waits for what is missing.     *)
(* The device may lose power between any two steps.  How the phone gets in  *)
(* is in BleWindow.                                                         *)
EXTENDS Naturals, Sequences

CONSTANTS
  Texts,    \* texts that fit their buffer
  Empty,    \* the empty text, or a key that is absent
  TooLong,  \* a text longer than the buffer it is loaded into
  Cut,      \* the part of it that strlcpy keeps
  Ids,      \* numbers of gateways
  Unreadable,  \* the keys whose reading may fail
  MaxCommands  \* commands received

TextKeys == {"SSID", "passwordWifi", "userGtw", "passwordGtw"}
IdKeys == {"idGtw", "idUnidadeGtw"}
Keys == TextKeys \cup IdKeys

ASSUME GatewayConfigAssumption ==
  /\ Ids \subseteq Nat \ {0}
  /\ Empty # TooLong /\ Empty # Cut /\ Cut # TooLong
  /\ {Empty, TooLong, Cut} \cap (Texts \cup Ids \cup {0}) = {}
  /\ Unreadable \subseteq Keys
  /\ MaxCommands \in Nat

\* The order in which a command saves its values.
GtwConfig == <<"userGtw", "passwordGtw", "idGtw", "idUnidadeGtw">>
GtwWifi == <<"SSID", "passwordWifi">>

VARIABLES
  nvs,       \* what the flash has
  ram,       \* wifi_ssid, wifi_password, userNameHTTPs, passwordHTTPs, ID_GATEWAY, DEVICE_ID
  boot,      \* where app_main is
  todo,      \* the keys that the command under way has still to save
  new,       \* the values it brings
  commands,  \* commands received so far
  unsaved,   \* ghost: keys whose last save failed
  unread,    \* keys app_main could not read, and no command has brought since
  complete   \* ghost: the gateway has run from its flash, and was spoilt by nobody

vars == <<nvs, ram, boot, todo, new, commands, unsaved, unread, complete>>

NoCommand == [k \in {} |-> Empty]
NoValues == [k \in Keys |-> IF k \in IdKeys THEN 0 ELSE Empty]

TypeOK ==
  /\ nvs \in [Keys -> Texts \cup {Empty, TooLong} \cup Ids \cup {0}]
  /\ ram \in [Keys -> Texts \cup {Empty, Cut} \cup Ids \cup {0}]
  /\ boot \in {"off", "repair", "check", "waiting", "running"}
  /\ todo \in Seq(Keys)
  /\ DOMAIN new \subseteq Keys
  /\ \A k \in DOMAIN new : new[k] \in Texts \cup {Empty, TooLong} \cup Ids
  /\ commands \in 0 .. MaxCommands
  /\ unsaved \subseteq Keys
  /\ unread \subseteq Keys
  /\ complete \in BOOLEAN

\* A gateway that was never configured.
Init ==
  /\ nvs = NoValues
  /\ ram = NoValues
  /\ boot = "off"
  /\ todo = <<>>
  /\ new = NoCommand
  /\ commands = 0
  /\ unsaved = {}
  /\ unread = {}
  /\ complete = FALSE

(***************************************************************************)
(* The flash                                                               *)
(***************************************************************************)
\* load_*: a text that does not fit is not loaded.
Load(k) == IF nvs[k] = TooLong THEN Empty ELSE nvs[k]

\* strlcpy into the variable.
Copy(v) == IF v = TooLong THEN Cut ELSE v

\* Mutant: the key is erased before it is set.
SaveErasing(k, v) ==
  \/ nvs' = [nvs EXCEPT ![k] = v] /\ unsaved' = unsaved \ {k}
  \/ nvs' = [nvs EXCEPT ![k] = NoValues[k]] /\ unsaved' = unsaved \cup {k}

\* save_*: one key, at once or not at all; a failure is logged or not seen.
Save(k, v) ==
  \/ nvs' = [nvs EXCEPT ![k] = v] /\ unsaved' = unsaved \ {k}
  \/ UNCHANGED nvs /\ unsaved' = unsaved \cup {k}

(***************************************************************************)
(* app_main                                                                *)
(***************************************************************************)
Configured == \A k \in Keys : ram[k] # NoValues[k]

\* The identifier of the unit wins; a missing one is taken from the gateway's.
Reconciled(l) ==
  IF l["idUnidadeGtw"] > 0
  THEN [l EXCEPT !["idGtw"] = l["idUnidadeGtw"]]
  ELSE [l EXCEPT !["idUnidadeGtw"] = l["idGtw"]]

Loaded == Reconciled([k \in Keys |-> Load(k)])

\* nvs_open or nvs_get fails: the variable keeps its default, as if the key were
\* absent.
Read(failed) ==
  [k \in Keys |-> IF k \in failed THEN NoValues[k] ELSE Load(k)]

\* Mutant: the identifiers are used as they are found.
BootLoadsOnly ==
  /\ boot = "off"
  /\ \E failed \in SUBSET Unreadable :
       /\ ram' = Read(failed)
       /\ unread' = failed
  /\ boot' = "check"
  /\ UNCHANGED <<nvs, todo, new, commands, unsaved, complete>>

BootLoads ==
  /\ boot = "off"
  /\ \E failed \in SUBSET Unreadable :
       /\ ram' = Reconciled(Read(failed))
       /\ unread' = failed
       /\ boot' = IF Read(failed)["idGtw"] = Read(failed)["idUnidadeGtw"]
                  THEN "check" ELSE "repair"
  /\ UNCHANGED <<nvs, todo, new, commands, unsaved, complete>>

\* The identifier that differed, or was not read, is saved.
BootRepairs ==
  /\ boot = "repair"
  /\ \E k \in IdKeys : (nvs[k] # ram[k] \/ k \in unread) /\ Save(k, ram[k])
  /\ boot' = "check"
  /\ UNCHANGED <<ram, todo, new, commands, unread, complete>>

BootChecks ==
  /\ boot = "check"
  /\ boot' = IF Configured THEN "running" ELSE "waiting"
  /\ complete' = (complete \/ Configured)
  /\ UNCHANGED <<nvs, ram, todo, new, commands, unsaved, unread>>

\* The poll while something is missing.
BootPolls ==
  /\ boot = "waiting"
  /\ Configured
  /\ boot' = "running"
  /\ UNCHANGED <<nvs, ram, todo, new, commands, unsaved, unread, complete>>

\* nvs_flash_init finds no free page or another version: all is erased.
BootErases ==
  /\ boot = "off"
  /\ nvs' = NoValues
  /\ unsaved' = {}
  /\ complete' = FALSE
  /\ UNCHANGED <<ram, boot, todo, new, commands, unread>>

\* A loss of power, or a restart by any task or by the command Reset.
Restart ==
  /\ boot # "off"
  /\ boot' = "off"
  /\ ram' = NoValues
  /\ todo' = <<>>
  /\ new' = NoCommand
  /\ unread' = {}
  /\ UNCHANGED <<nvs, commands, unsaved, complete>>

(***************************************************************************)
(* bt_message_received_callback                                            *)
(***************************************************************************)
Begin(command, values) ==
  /\ boot \in {"waiting", "running"}
  /\ todo = <<>>
  /\ commands < MaxCommands
  /\ commands' = commands + 1
  /\ todo' = command
  /\ new' = values
  /\ complete' = (complete /\ {Empty, TooLong} \cap {values[k] : k \in DOMAIN values} = {})
  /\ UNCHANGED <<nvs, ram, boot, unsaved, unread>>

AnyText == Texts \cup {Empty, TooLong}

\* The two identifiers of the command are positive and equal, or it is refused.
BeginConfig ==
  \E user, password \in AnyText, id \in Ids :
    Begin(GtwConfig, [userGtw |-> user, passwordGtw |-> password,
                      idGtw |-> id, idUnidadeGtw |-> id])

BeginWifi ==
  \E ssid, password \in AnyText :
    Begin(GtwWifi, [SSID |-> ssid, passwordWifi |-> password])

\* Mutant: the command ends at the first save that fails.
SaveNextStops ==
  /\ todo # <<>>
  /\ Save(Head(todo), new[Head(todo)])
  /\ todo' = IF Head(todo) \in unsaved' THEN <<>> ELSE Tail(todo)
  /\ IF todo' = <<>> /\ Head(todo) \notin unsaved'
     THEN /\ ram' = [k \in Keys |-> IF k \in DOMAIN new THEN Copy(new[k]) ELSE ram[k]]
          /\ unread' = unread \ DOMAIN new
     ELSE UNCHANGED <<ram, unread>>
  /\ new' = IF todo' = <<>> THEN NoCommand ELSE new
  /\ UNCHANGED <<boot, commands, complete>>

\* One value is saved; after the last one come the reply and the variables.
SaveNext ==
  /\ todo # <<>>
  /\ Save(Head(todo), new[Head(todo)])
  /\ todo' = Tail(todo)
  /\ IF todo' = <<>>
     THEN /\ ram' = [k \in Keys |-> IF k \in DOMAIN new THEN Copy(new[k]) ELSE ram[k]]
          /\ new' = NoCommand
          /\ unread' = unread \ DOMAIN new
     ELSE UNCHANGED <<ram, new, unread>>
  /\ UNCHANGED <<boot, commands, complete>>

Boot == BootLoads \/ BootRepairs \/ BootChecks \/ BootPolls

Next ==
  \/ Boot \/ BootErases
  \/ Restart
  \/ BeginConfig \/ BeginWifi \/ SaveNext

Spec == Init /\ [][Next]_vars

(***************************************************************************)
(* Properties                                                              *)
(***************************************************************************)
Up == boot \in {"check", "waiting", "running"}
Idle == Up /\ todo = <<>>

\* The two identifiers in use are equal, at whatever point of whatever command
\* the power was lost before.
IdsAgree == Up => ram["idGtw"] = ram["idUnidadeGtw"]

\* What the tasks read is sound: texts that fit, and one identifier.
RamSound == TypeOK /\ IdsAgree

\* The identifiers stand for each other.
Group(k) == IF k \in IdKeys THEN IdKeys ELSE {k}

\* A variable that has its default because the flash could not be read.
NotRead(k) == ram[k] = NoValues[k] /\ unread \cap Group(k) # {}

\* Restarted now, the gateway would have the configuration it has: no command
\* and no repair leaves flash and RAM apart, but for a save or a read that failed
\* and a text that does not fit.
RestartChangesNothing ==
  Idle => \A k \in Keys :
    \/ Loaded[k] = ram[k]
    \/ nvs[k] = TooLong
    \/ unsaved \cap Group(k) # {}
    \/ NotRead(k)

\* The reply of main.c:2504 and 2532: what was saved, and no save failed, is there
\* after the restart that it asks for.  A text that is too long is not.
SavedIsLoaded ==
  Idle => \A k \in Keys :
    Loaded[k] = ram[k] \/ unsaved \cap Group(k) # {} \/ NotRead(k)

\* No interruption of a command makes a gateway that ran from its flash wait
\* for a phone again, unless for what could not be read at this start.
StaysConfigured ==
  complete /\ boot = "waiting" =>
    \A k \in Keys : ram[k] # NoValues[k] \/ NotRead(k)

=============================================================================
