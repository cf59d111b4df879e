------------------------- MODULE MCAdcStreamServer -------------------------
(* A small ring, and the slowest program that the assumption on the paces  *)
(* allows.                                                                 *)
EXTENDS AdcStreamServer

\* The hardware is found in reset: what goes wrong is of this run's making.
SpecInReset == Spec /\ ~released
============================================================================
