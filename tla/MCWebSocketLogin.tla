------------------------ MODULE MCWebSocketLogin ------------------------
(* The instances of WebSocketLogin that TLC checks.                         *)
EXTENDS WebSocketLogin

MCTokens == 1 .. 3
=============================================================================
