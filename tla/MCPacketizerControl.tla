------------------------- MODULE MCPacketizerControl -------------------------
(* A counter of two bits: lengths from zero to all ones.                    *)
EXTENDS PacketizerControl
=============================================================================
