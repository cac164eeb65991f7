-------------------------- MODULE AtomicUpdate --------------------------
(* What the firmware update promises (src/main/firmware_ota.c): an image   *)
(* takes effect whole or not at all, only at a restart, and on trial; until *)
(* it is confirmed the image that ran before it is one restart away.        *)

CONSTANTS Images, None

VARIABLES
  image,     \* the image that runs
  trusted,   \* the image a restart goes back to
  staged     \* the image the next restart tries, or None

vars == <<image, trusted, staged>>

Init ==
  /\ image \in Images
  /\ trusted = image
  /\ staged = None

\* An image is installed; never while another one is on trial.
Stage(i) ==
  /\ image = trusted
  /\ staged' = i
  /\ UNCHANGED <<image, trusted>>

\* The slot of a staged image is given to another update.
Withdraw ==
  /\ staged' = None
  /\ UNCHANGED <<image, trusted>>

\* The image on trial proved healthy.
Confirm ==
  /\ trusted' = image
  /\ UNCHANGED <<image, staged>>

\* A restart tries the staged image, or goes back to the trusted one.
Restart ==
  /\ image' = IF staged = None THEN trusted ELSE staged
  /\ staged' = None
  /\ UNCHANGED trusted

Next ==
  \/ \E i \in Images : Stage(i)
  \/ Withdraw
  \/ Confirm
  \/ Restart

Spec == Init /\ [][Next]_vars
=============================================================================
