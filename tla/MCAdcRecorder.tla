--------------------------- MODULE MCAdcRecorder ---------------------------
(* Sixteen samples are eight words and four bursts of two, in a ring of   *)
(* eight words; the FIFO's offset is a burst less one, as in the code; two *)
(* runs, so that the second meets what the first left behind.              *)
EXTENDS AdcRecorder
============================================================================
