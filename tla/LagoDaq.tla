------------------------------ MODULE LagoDaq -------------------------------
(***************************************************************************)
(* The front end of projects/lago: cores/pps_gen and                       *)
(* cores/axis_lago_trigger on the ADC clock.  The block design holds       *)
(* gpsen_i up, and the trigger core takes the pulse and the clock count of *)
(* the generator in the same clock.  Behind it is a clock converter that   *)
(* may refuse a word at any time: when its FIFO is full, and for ever once *)
(* the packetizer behind it has passed its packet.                         *)
(***************************************************************************)
EXTENDS PpsGen, LagoTrigger

VARIABLE
  pulses  \* pulses since the reset, counted to two; not in the code

daqVars == <<ppsVars, lagoVars, pulses>>

DaqInit ==
  /\ PpsInit
  /\ LagoInit
  /\ pulses = 0

ResetEdge ==
  /\ PpsReset
  /\ LagoReset
  /\ pulses' = 0

ClockEdge(sample, tready) ==
  /\ PpsEdge(TRUE, TRUE)
  /\ LagoEdge(Pulse, sample, tready)
  /\ pulses' = IF Pulse /\ pulses < 2 THEN pulses + 1 ELSE pulses

DaqNext ==
  \/ ResetEdge
  \/ \E sample \in Samples, tready \in BOOLEAN : ClockEdge(sample, tready)

DaqSpec == DaqInit /\ [][DaqNext]_daqVars

----------------------------------------------------------------------------
(* Properties.                                                             *)

\* The types of the registers and of the monitors.
DaqTypeOK ==
  /\ PpsTypeOK
  /\ adc \in [0 .. DataLen - 1 -> Samples]
  /\ state \in {"idle", "trigger", "time", "count", "subtrigger", "pps"}
  /\ count \in 0 .. CASE Kind = "pps" -> MetaLen
                      [] Kind = "subtrigger" -> SubtrigLen
                      [] state = "trigger" -> DataLen
                      [] OTHER -> 0
  /\ data.kind \in {"none", "stale", "adc", "time", "count", "sub", "pps"}
  /\ tvalid \in BOOLEAN /\ (state = "idle" => ~tvalid)
  /\ latched \in 0 .. MaxLate
  /\ rel \in -2 .. MaxLate
  /\ got \in Nat
  /\ inOrder \in BOOLEAN /\ stalled \in BOOLEAN
  /\ sources \subseteq 0 .. MaxLate
  /\ pulses \in 0 .. 2

\* The generator's seconds are equal (pps_gen.vhd:48-77, 92-114): the clock
\* count that the trigger core stamps its records with is CLK_FREQ - 1 at each
\* pulse.  The first second after a reset may be one clock longer, since the
\* reset leaves false_pps up and the edge detector fires on it at once.
SecondsAreEqual ==
  Pulse => /\ pulses = 2 => clkCnt = ClkFreq - 1
           /\ pulses = 1 => clkCnt \in {ClkFreq - 1, ClkFreq}

RecordEnds == state # "idle" /\ state' = "idle" /\ got' > 0

\* A record that the sink never stalls is whole and in order: a trigger's has
\* DATA_ARRAY_LENGTH consecutive samples, the sample that crossed the level
\* the third of them, and the time and the count word; a sub-trigger's and a
\* PPS block's are their arrays as they were written, and never a word of an
\* earlier one (axis_lago_trigger.vhd:326-394).
RecordIsWhole ==
  [][RecordEnds /\ ~stalled' => inOrder' /\ got' = RecordLen(Kind)]_daqVars

\* However the sink stalls, a record is at most one word too short or too long:
\* the word that is on the output when a block starts may be sent again and
\* the last one of a block may be dropped (axis_lago_trigger.vhd:326-394).
StallCostsOneWord ==
  [][RecordEnds => got' \in RecordLen(Kind) - 1 .. RecordLen(Kind) + 1]_daqVars

\* A second trigger overwrites the time and count words of the first: those
\* of a record that is not stalled are from one trigger or from two that follow
\* one another.  A peak writes the array of the one before while it is read: a
\* sub-trigger's words are from its peak or from the ones of the clocks that
\* its words take (axis_lago_trigger.vhd:213-219, 268-273, 326-378).
RecordMixesNeighbours ==
  [][RecordEnds /\ ~stalled' =>
       IF Kind = "subtrigger" THEN sources' \subseteq 0 .. SubtrigLen - 1
       ELSE \E n \in 0 .. MaxLate : sources' \subseteq {n, n + 1}]_daqVars
=============================================================================
