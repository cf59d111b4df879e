---------------------------- MODULE AxisTrigger ----------------------------
(***************************************************************************)
(* cores/axis_trigger: a flag for a word of a stream, up when the words    *)
(* before it crossed a level.  `above' is the comparison of the masked     *)
(* word with the level, `tvalid' whether a word is there.  The register    *)
(* has no reset and powers up with any value.                              *)
(***************************************************************************)
CONSTANT Pol  \* pol_data, TRUE for one

VARIABLE comp  \* int_comp_reg: bit 0 is `new', bit 1 is `old'

Init == comp \in [new : BOOLEAN, old : BOOLEAN]

ClockEdge(tvalid, above) ==
  comp' = IF tvalid THEN [new |-> above, old |-> comp.new] ELSE comp

TrgFlag(tvalid) ==
  /\ tvalid
  /\ Pol # comp.new
  /\ Pol # ~comp.old

TypeOK == comp \in [new : BOOLEAN, old : BOOLEAN]
============================================================================
