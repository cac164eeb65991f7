--------------------------- MODULE MCLoraLink ---------------------------
(* Small instances of LoraLink for TLC.                                     *)
EXTENDS LoraLink

\* Commands are guarded for LORA_TRANSACTION_GUARD_MS, pings not at all.
MCGuardMs == [k \in Kinds |-> IF k = "cmd" THEN 5000 ELSE 0]

\* A first attempt, a retry that fails to transmit, and one more.
MCThreeAttempts == [k \in Kinds |-> 3]
\* A ping and a command with different limits.
MCAttempts == [k \in Kinds |-> IF k = "cmd" THEN 2 ELSE 1]

=============================================================================
