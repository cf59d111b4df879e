--------------------------- MODULE AxisPacketizer ---------------------------
(***************************************************************************)
(* cores/axis_packetizer: a gate on a stream that lets a packet of         *)
(* cfg_data + 1 beats through and marks its last beat.  With the generic   *)
(* CONTINUOUS it then starts the next packet, without it the gate stays    *)
(* shut until a reset.                                                     *)
(*                                                                         *)
(* A step is a rising edge of aclk; `tready' is what the sink answers.     *)
(* The source is an AXI-Stream master: a beat it offers stays offered      *)
(* until it is taken.  As in the programs of the repository, cfg_data is   *)
(* written only while the core is in reset.                                *)
(***************************************************************************)
EXTENDS Integers

CONSTANTS
  CntrSize,    \* 2^CNTR_WIDTH: values of the counter
  MaxPackets   \* bound: packets counted since a reset

ASSUME PacketizerAssumption ==
  /\ CntrSize \in Nat \ {0}
  /\ MaxPackets \in Nat \ {0}

VARIABLES
  continuous,  \* the generic CONTINUOUS, which never changes
  cntr,     \* int_cntr_reg
  enbl,     \* int_enbl_reg
  cfg,      \* cfg_data
  offered,  \* s_axis_tvalid
  beats,    \* beats the sink took since the last tlast
  packets   \* tlasts the sink took since the reset

vars == <<continuous, cntr, enbl, cfg, offered, beats, packets>>

----------------------------------------------------------------------------
(* The wires.                                                              *)

\* Mutant of Comp: a packet one beat longer.
CompInclusive == cntr <= cfg

Comp == cntr < cfg

Tvalid == enbl /\ offered

Tlast == enbl /\ ~Comp

Taken(tready) == tready /\ Tvalid

CntrNext(tready) ==
  IF Taken(tready) /\ Comp THEN (cntr + 1) % CntrSize
  ELSE IF continuous /\ Taken(tready) THEN 0
  ELSE cntr

\* Mutant of EnblNext: the gate stays open after the last beat.
EnblNextNeverShut(tready) == (~enbl /\ Comp) \/ enbl

\* Mutant of EnblNext: the end is seen without a beat.
EnblNextReadyOnly(tready) ==
  \/ ~enbl /\ Comp
  \/ enbl /\ (continuous \/ ~(tready /\ ~Comp))

EnblNext(tready) ==
  \/ ~enbl /\ Comp
  \/ enbl /\ (continuous \/ ~(Taken(tready) /\ ~Comp))

----------------------------------------------------------------------------
Init ==
  /\ continuous \in BOOLEAN
  /\ cntr = 0
  /\ enbl = FALSE
  /\ cfg \in 0 .. CntrSize - 1
  /\ offered = FALSE
  /\ beats = 0
  /\ packets = 0

\* An edge with aresetn low; the program may write another length.
ResetEdge ==
  /\ cntr' = 0
  /\ enbl' = FALSE
  /\ cfg' \in 0 .. CntrSize - 1
  /\ beats' = 0
  /\ packets' = 0
  /\ UNCHANGED <<continuous, offered>>

\* An edge with aresetn high.  `more' is whether the source has another beat.
Clock(tready, more) ==
  /\ packets < MaxPackets \/ ~(Taken(tready) /\ Tlast)
  /\ cntr' = CntrNext(tready)
  /\ enbl' = EnblNext(tready)
  /\ offered' = ((offered /\ ~Taken(tready)) \/ more)
  /\ beats' = IF ~Taken(tready) THEN beats ELSE IF Tlast THEN 0 ELSE beats + 1
  /\ packets' = IF Taken(tready) /\ Tlast THEN packets + 1 ELSE packets
  /\ UNCHANGED continuous

ClockEdge(tready, more) == Clock(tready, more) /\ UNCHANGED cfg

Next ==
  \/ ResetEdge
  \/ \E tready, more \in BOOLEAN : ClockEdge(tready, more)

\* The clock runs, the source never dries up and the sink accepts in the end.
Fairness ==
  /\ WF_vars(\E tready \in BOOLEAN : ClockEdge(tready, TRUE))
  /\ WF_vars(\E more \in BOOLEAN : ClockEdge(TRUE, more))

Spec == Init /\ [][Next]_vars

FairSpec == Spec /\ Fairness

----------------------------------------------------------------------------
TypeOK ==
  /\ continuous \in BOOLEAN
  /\ cntr \in 0 .. CntrSize - 1
  /\ enbl \in BOOLEAN
  /\ cfg \in 0 .. CntrSize - 1
  /\ offered \in BOOLEAN
  /\ beats \in Nat
  /\ packets \in Nat

\* The gate is open in the middle of a packet, and the counter there is the
\* number of beats the sink has seen: tlast comes with beat cfg_data + 1,
\* whatever the stalls, up to a cfg_data of all ones (511 of nine bits in
\* dac_player), where a counter that stepped once more would wrap.
LastBeatIsLength ==
  /\ enbl => cntr = beats
  /\ beats <= cfg
  /\ beats > 0 => enbl

\* Without CONTINUOUS one packet passes and then nothing until a reset; a
\* length of zero never opens the gate.
OnePacketThenShut ==
  /\ ~continuous => packets <= 1 /\ (packets = 1 => ~enbl /\ ~Comp)
  /\ cfg = 0 => ~enbl /\ packets = 0

\* While no reset comes, a packet with a length gets through to its end.
PacketEnds ==
  \A n \in 0 .. MaxPackets - 1 :
    (packets = n /\ cfg > 0 /\ (continuous \/ n = 0))
      ~> (packets = n + 1 \/ (packets = 0 /\ beats = 0 /\ ~enbl))
=============================================================================
