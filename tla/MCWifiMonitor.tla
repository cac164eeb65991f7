-------------------------- MODULE MCWifiMonitor --------------------------
(* The instances of WifiMonitor that TLC checks.                            *)
EXTENDS WifiMonitor

=============================================================================
