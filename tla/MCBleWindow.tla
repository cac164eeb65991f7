------------------------- MODULE MCBleWindow -------------------------
(* The instances of BleWindow that TLC checks.                              *)
EXTENDS BleWindow

=============================================================================
