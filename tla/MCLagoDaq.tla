----------------------------- MODULE MCLagoDaq ------------------------------
(* Instance of LagoDaq for TLC: two channels, of which one may peak in the *)
(* clock after the other, or both cross the trigger level; short records   *)
(* and a second of 12 clocks, so that a pulse meets every state of a       *)
(* record.                                                                 *)
EXTENDS LagoDaq

Sample(a, b) == [ch \in Channels |-> IF ch = "a" THEN a ELSE b]

MCSamples == {Sample(0, 0), Sample(1, 0), Sample(0, 1), Sample(2, 2)}
=============================================================================
