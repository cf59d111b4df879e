----------------------- MODULE MCAdcRecorderTrigger ------------------------
(* Bursts of two words, windows of one burst, a ring of two recordings     *)
(* that wraps before the latest trigger; every constant keeps the relation *)
(* to the others that it has in the code.                                  *)
EXTENDS AdcRecorderTrigger
============================================================================
