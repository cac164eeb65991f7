-------------------------- MODULE MCPatchQueue --------------------------
(* The instances of PatchQueue that TLC checks.                             *)
EXTENDS PatchQueue

=============================================================================
