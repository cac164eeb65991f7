------------------------ MODULE MCFirmwareUpdate ------------------------
(* Instances of FirmwareUpdate for TLC: images named by their version, and  *)
(* one of another project.                                                  *)
EXTENDS FirmwareUpdate

MCImages == {"v1", "v2", "foreign"}
MCOwn == {"v1", "v2"}
MCVersion ==
  [i \in MCImages |-> IF i = "v1" THEN 1 ELSE IF i = "v2" THEN 2 ELSE 3]
=============================================================================
