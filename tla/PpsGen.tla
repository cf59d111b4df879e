------------------------------- MODULE PpsGen -------------------------------
(***************************************************************************)
(* cores/pps_gen: a pulse of one clock per second, at the rising edge of   *)
(* the GPS's signal or, with gpsen_i, of one that a counter of clocks      *)
(* makes up; and the number of clocks since the pulse.                     *)
(*                                                                         *)
(* A step is an edge of the ADC clock.                                     *)
(***************************************************************************)
EXTENDS Integers

CONSTANTS
  ClkFreq,  \* CLK_FREQ: clocks of a second, 125000000
  CntSize   \* 2^27: values of clk_cnt_pps

ASSUME PpsAssumption ==
  /\ ClkFreq \in Nat /\ ClkFreq >= 10
  /\ CntSize \in Nat /\ ClkFreq < CntSize

VARIABLES
  oneSec,    \* one_sec_cnt
  clkCnt,    \* clk_cnt_pps
  falsePps,  \* false_pps, which a reset leaves alone
  ppsState   \* pps_st_reg: "zero", "edge" or "one"

ppsVars == <<oneSec, clkCnt, falsePps, ppsState>>

PpsInit ==
  /\ oneSec = 0
  /\ clkCnt = 0
  /\ falsePps = FALSE
  /\ ppsState = "zero"

\* one_clk_pps
Pulse == ppsState = "edge"

PpsReset ==
  /\ oneSec' = 0
  /\ clkCnt' = 0
  /\ ppsState' = "zero"
  /\ UNCHANGED falsePps

EdgeDetector(pps) ==
  IF ~pps THEN "zero"
  ELSE IF ppsState = "zero" THEN "edge"
  ELSE "one"

\* Mutant of OneSecNext: a second one clock too long.
OneSecNextLong == IF oneSec = ClkFreq THEN 0 ELSE oneSec + 1

OneSecNext == IF oneSec = ClkFreq - 1 THEN 0 ELSE oneSec + 1

PpsEdge(gpsen, gps) ==
  /\ oneSec' = OneSecNext
  /\ falsePps' = (oneSec < ClkFreq \div 5)
  /\ clkCnt' = IF Pulse THEN 0 ELSE (clkCnt + 1) % CntSize
  /\ ppsState' = EdgeDetector(IF gpsen THEN falsePps ELSE gps)

PpsTypeOK ==
  /\ oneSec \in 0 .. ClkFreq - 1
  /\ clkCnt \in 0 .. CntSize - 1
  /\ falsePps \in BOOLEAN
  /\ ppsState \in {"zero", "edge", "one"}
=============================================================================
