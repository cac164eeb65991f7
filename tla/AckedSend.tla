---------------------------- MODULE AckedSend ----------------------------
(* What a LoRa transaction of the gateway promises its caller               *)
(* (gtw_send_to_tank and gtw_ping_tank): one transaction is open at a time, *)
(* a frame reaches its tank only after it was requested, and "ACK recebido" *)
(* is reported only for a frame that did reach the tank.  A failure may be  *)
(* reported either way: the ACK, not the frame, may have been lost.         *)
EXTENDS Naturals

VARIABLES
  next,       \* number of the next transaction
  open,       \* the open transaction: {} or {n}
  delivered,  \* transactions whose frame reached the addressed tank
  succeeded   \* transactions reported to the caller as acknowledged

avars == <<next, open, delivered, succeeded>>

Init ==
  /\ next \in Nat
  /\ open = {}
  /\ delivered = {}
  /\ succeeded = {}

Open ==
  /\ open = {}
  /\ open' = {next}
  /\ next' = next + 1
  /\ UNCHANGED <<delivered, succeeded>>

\* The tank may act on the frame long after the gateway gave up on it.
Deliver(n) ==
  /\ n < next
  /\ delivered' = delivered \cup {n}
  /\ UNCHANGED <<next, open, succeeded>>

Succeed ==
  /\ open # {}
  /\ open \subseteq delivered
  /\ succeeded' = succeeded \cup open
  /\ open' = {}
  /\ UNCHANGED <<next, delivered>>

Fail ==
  /\ open # {}
  /\ open' = {}
  /\ UNCHANGED <<next, delivered, succeeded>>

Next == Open \/ Succeed \/ Fail \/ \E n \in delivered' : Deliver(n)

Spec == Init /\ [][Next]_avars

=============================================================================
