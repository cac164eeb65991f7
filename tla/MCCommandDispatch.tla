------------------------ MODULE MCCommandDispatch ------------------------
(* The instance of CommandDispatch that TLC checks.                         *)
EXTENDS CommandDispatch
=============================================================================
