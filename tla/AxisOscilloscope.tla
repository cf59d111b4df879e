------------------------- MODULE AxisOscilloscope --------------------------
(***************************************************************************)
(* cores/axis_oscilloscope: after a run flag it passes samples on, at      *)
(* least pre_data + 1 of them, then goes on until a trigger, and stops     *)
(* some samples later, so many that the program finds its window at a      *)
(* multiple of Window samples.                                             *)
(*                                                                         *)
(* A step is an edge of aclk; its parameters are run_flag, s_axis_tvalid   *)
(* and trg_flag.  pre_data and tot_data stay as they are while it runs.    *)
(* `passed' and `trigger' only count, to say what has gone through.        *)
(***************************************************************************)
EXTENDS Integers

CONSTANTS
  CntrSize,   \* 2^CNTR_WIDTH
  Window,     \* the reach of int_cntr_reg(5 downto 0): 64
  Pre,        \* pre_data
  Tot,        \* tot_data
  MaxPassed   \* bound: samples of a run

ASSUME ScopeAssumption ==
  /\ CntrSize \in Nat \ {0}
  /\ Window \in Nat \ {0}
  /\ CntrSize % Window = 0
  /\ Pre \in Nat
  /\ Tot \in Nat
  /\ Pre + Window - 1 <= Tot
  /\ Tot < CntrSize
  /\ MaxPassed \in Nat

VARIABLES
  state,    \* int_case_reg: 00, 01, 10 and 11
  cntr,     \* int_cntr_reg
  trgaddr,  \* int_addr_reg
  enbl,     \* int_enbl_reg
  passed,   \* samples passed on since the run flag
  trigger   \* how many were passed on when the trigger came

scopeVars == <<state, cntr, trgaddr, enbl, passed, trigger>>

ScopeInit ==
  /\ state = "idle"
  /\ cntr = 0
  /\ trgaddr = 0
  /\ enbl = FALSE
  /\ passed = 0
  /\ trigger = 0

ScopeReset ==
  /\ state' = "idle"
  /\ cntr' = 0
  /\ trgaddr' = 0
  /\ enbl' = FALSE
  /\ passed' = 0
  /\ trigger' = 0

\* m_axis_tvalid
Passes(tvalid) == enbl /\ tvalid

IdleEdge(run) ==
  /\ state = "idle"
  /\ IF run
     THEN /\ trgaddr' = 0
          /\ cntr' = 0
          /\ enbl' = TRUE
          /\ state' = "pre"
          /\ passed' = 0
          /\ trigger' = 0
     ELSE UNCHANGED scopeVars

\* No sample: nothing changes.
StallEdge(tvalid) ==
  /\ state # "idle"
  /\ ~tvalid
  /\ UNCHANGED scopeVars

PreEdge(tvalid) ==
  /\ state = "pre" /\ tvalid
  /\ cntr' = (cntr + 1) % CntrSize
  /\ state' = IF cntr = Pre THEN "armed" ELSE "pre"
  /\ passed' = passed + 1
  /\ UNCHANGED <<trgaddr, enbl, trigger>>

\* Mutant of ArmedEdge: the place in the window is left out of the count.
ArmedEdgeWithoutWindow(tvalid, trg) ==
  /\ state = "armed" /\ tvalid
  /\ trg \/ passed + Tot + 2 < MaxPassed
  /\ passed' = passed + 1
  /\ IF trg
     THEN /\ trgaddr' = cntr
          /\ cntr' = Pre
          /\ state' = "post"
          /\ trigger' = passed
     ELSE /\ cntr' = (cntr + 1) % CntrSize
          /\ UNCHANGED <<trgaddr, state, trigger>>
  /\ UNCHANGED enbl

ArmedEdge(tvalid, trg) ==
  /\ state = "armed" /\ tvalid
  /\ trg \/ passed + Tot + 2 < MaxPassed
  /\ passed' = passed + 1
  /\ IF trg
     THEN /\ trgaddr' = cntr
          /\ cntr' = (Pre + (cntr % Window)) % CntrSize
          /\ state' = "post"
          /\ trigger' = passed
     ELSE /\ cntr' = (cntr + 1) % CntrSize
          /\ UNCHANGED <<trgaddr, state, trigger>>
  /\ UNCHANGED enbl

\* The sample that stops the recording is passed on too.
PostEdge(tvalid) ==
  /\ state = "post" /\ tvalid
  /\ passed' = passed + 1
  /\ IF cntr < Tot
     THEN cntr' = (cntr + 1) % CntrSize /\ UNCHANGED <<enbl, state>>
     ELSE enbl' = FALSE /\ state' = "idle" /\ UNCHANGED cntr
  /\ UNCHANGED <<trgaddr, trigger>>

ScopeEdge(run, tvalid, trg) ==
  \/ IdleEdge(run)
  \/ StallEdge(tvalid)
  \/ PreEdge(tvalid)
  \/ ArmedEdge(tvalid, trg)
  \/ PostEdge(tvalid)

ScopeNext ==
  \/ ScopeReset
  \/ \E run, tvalid, trg \in BOOLEAN : ScopeEdge(run, tvalid, trg)

ScopeSpec == ScopeInit /\ [][ScopeNext]_scopeVars

----------------------------------------------------------------------------
ScopeTypeOK ==
  /\ state \in {"idle", "pre", "armed", "post"}
  /\ cntr \in 0 .. CntrSize - 1
  /\ trgaddr \in 0 .. CntrSize - 1
  /\ enbl \in BOOLEAN
  /\ passed \in Nat
  /\ trigger \in Nat

\* The last sample passed on is Tot - Pre + 1 beyond the one that starts the
\* Window of the trigger, wherever in its window the trigger came and however
\* often the counter wrapped before it: a multiple of Window and two more.
StopsWithWindow ==
  state = "idle" /\ passed > 0 =>
    passed = trigger - (trigger % Window) + Tot - Pre + 2

\* The address the program reads is the number of the trigger's sample, and
\* there are more than Pre samples before it.
AddressIsTrigger ==
  (state = "post" \/ (state = "idle" /\ passed > 0)) =>
    trgaddr = trigger % CntrSize /\ trigger > Pre
============================================================================
