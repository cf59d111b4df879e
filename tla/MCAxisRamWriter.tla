-------------------------- MODULE MCAxisRamWriter --------------------------
(* Bursts of sixteen beats, as in the code, in a ring of two bursts: every *)
(* wrap of ring and identifiers, and a FIFO of a burst and a half.         *)
EXTENDS AxisRamWriter
============================================================================
