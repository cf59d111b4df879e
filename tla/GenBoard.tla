------------------------------ MODULE GenBoard ------------------------------
(***************************************************************************)
(* The board of gen_test, and of rxchan16_test and txchan16_test, whose    *)
(* programs and block designs are the same, byte for byte: the frequency   *)
(* register goes through a clock converter, which the reset bit holds, to  *)
(* axis_signal_gen, which keeps the last frequency it was sent and makes   *)
(* no sample while it is zero.                                             *)
(* The registers of the lock-in, K_p, K_i and X, lead nowhere, and there   *)
(* is no status register.  A write to a register takes many clocks, so the *)
(* logic sees every value of the reset bit.                                *)
(***************************************************************************)
EXTENDS LiaControl

VARIABLES
  held,  \* the word the clock converter carries, or Nothing
  freq   \* freq_reg of axis_signal_gen: what is being played

Nothing == -2

hardware == <<held, freq>>
boardVars == <<vars, hardware>>

Released == Bits \subseteq reset

BoardInit == Init /\ held = Nothing /\ freq = 0

\* The converter in reset may or may not have passed on its word.
Reset ==
  /\ IF Bits \subseteq reset' THEN UNCHANGED held ELSE held' \in {held, Nothing}
  /\ UNCHANGED freq

GenParseParam(p) == ParseParam(p) /\ UNCHANGED hardware

GenDevicesInit(p) == DevicesInit(p) /\ UNCHANGED hardware

GenMain(p) == (Main(p) \/ Signal(p)) /\ Reset

GenRegisters(p) == Registers(p) /\ Reset

GenInitSystem(p) == InitSystem(p) /\ Reset

\* tvalid is always up: whenever the converter is free it takes what the
\* register holds.
Sample ==
  /\ Released /\ held = Nothing
  /\ held' = Value("fv")
  /\ UNCHANGED <<vars, freq>>

\* Mutant of Deliver: the generator listens only while it plays nothing.
DeliverOnce ==
  /\ held # Nothing
  /\ freq' = IF freq = 0 THEN held ELSE freq
  /\ held' = Nothing
  /\ UNCHANGED vars

\* s_axis_tready is always up, too.
Deliver ==
  /\ held # Nothing
  /\ freq' = held
  /\ held' = Nothing
  /\ UNCHANGED vars

Software ==
  \E p \in Procs :
    GenParseParam(p) \/ GenDevicesInit(p) \/ GenMain(p) \/ GenRegisters(p) \/ GenInitSystem(p)

BoardNext == Software \/ Sample \/ Deliver

\* The converter's clocks run; whether somebody runs the program is open.
BoardFairness == WF_boardVars(Sample) /\ WF_boardVars(Deliver)

BoardSpec == BoardInit /\ [][BoardNext]_boardVars /\ BoardFairness

----------------------------------------------------------------------------
BoardTypeOK ==
  /\ TypeOK
  /\ held \in Nat \cup {Nothing}
  /\ freq \in Nat

Frequencies == {Stored("fv", Defaults[i].val) : i \in {j \in DOMAIN Defaults : Defaults[j].reg = "fv"}}
                 \cup {Stored("fv", c.val) : c \in {r \in Requests : r.op = "s" /\ r.reg = "fv"}}

Holds(v) == Released /\ Value("fv") = v

\* A frequency that stays in the register of a released board is in the end
\* what is played, whatever the converter carried, or lost, before.
PlaysWhatIsSet == \A v \in Frequencies : <>[]Holds(v) => <>[](freq = v)
=============================================================================
