-------------------------- MODULE MCE32Stream --------------------------
(* The instance of E32Stream that TLC checks: four byte values, a header of *)
(* the preamble and the length, at most one byte of payload, one of checksum. *)
EXTENDS E32Stream, SequencesExt

\* It depends on every byte and on its place.
MCChecksum(s) ==
  << FoldLeft(LAMBDA sum, b : (3 * sum + b + 1) % 4, 0, s) >>
=============================================================================
