---------------------------- MODULE RadioMode ----------------------------
(* The rule the gateway's tasks keep between BLE and Wi-Fi: a phone, or the *)
(* window that waits for one at boot, claims the gateway; wifi_task starts  *)
(* the Wi-Fi driver only after it found the gateway unclaimed, and takes    *)
(* the driver down when it finds it claimed.  The decision and the start    *)
(* are two steps, and a claim may fall between them.                        *)
VARIABLES
  claimed,  \* ble_config_mode_active or ble_startup_window_active
  allowed,  \* wifi_task found the gateway unclaimed and will start the driver
  wifi      \* the Wi-Fi driver runs

mvars == <<claimed, allowed, wifi>>

Init ==
  /\ claimed \in BOOLEAN
  /\ allowed = FALSE
  /\ wifi = FALSE

Claim ==
  /\ claimed' \in BOOLEAN
  /\ UNCHANGED <<allowed, wifi>>

Allow ==
  /\ ~claimed
  /\ ~wifi
  /\ allowed' = TRUE
  /\ UNCHANGED <<claimed, wifi>>

\* The start of the driver succeeds or fails.
Start ==
  /\ allowed
  /\ allowed' = FALSE
  /\ wifi' \in BOOLEAN
  /\ UNCHANGED claimed

Stop ==
  /\ wifi
  /\ ~allowed
  /\ wifi' = FALSE
  /\ UNCHANGED <<claimed, allowed>>

Next == Claim \/ Allow \/ Start \/ Stop

Spec == Init /\ [][Next]_mvars

\* A claim that lasts takes the driver down.
Yields == (claimed /\ wifi) ~> (~claimed \/ ~wifi)

=============================================================================
