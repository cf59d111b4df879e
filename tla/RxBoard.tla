------------------------------- MODULE RxBoard ------------------------------
(***************************************************************************)
(* The board of rxchan16_test2.  The reset register has a bit for the      *)
(* source of the samples (tones, channelizer and converters), one for      *)
(* axis_tlast_gen, which marks every NSamples-th sample as the last of a   *)
(* packet, and one for the width converter and axis_ram_writer, which puts *)
(* the samples in a ring of memory.  The marks are of use only if the      *)
(* packets begin where the ring does.                                      *)
(*                                                                         *)
(* Its lia_rp.c is gen_test's with mem_init; init_system is its own.  As   *)
(* it stands it does not build, CFG_KP_OFFSET being used and not defined:  *)
(* the register is left out here.                                          *)
(***************************************************************************)
EXTENDS LiaControl

CONSTANTS
  Ring,      \* samples the memory holds
  CountMax   \* the counter of axis_tlast_gen wraps here: 2^32

VARIABLES
  count,  \* cnt of axis_tlast_gen
  taken,  \* samples the width converter has taken since its reset, modulo Ring
  clean   \* history: nobody has touched a register since a lone -i

Source == 0
TlastGen == 1
Writer == 2

hardware == <<count, taken>>
boardVars == <<vars, hardware, clean>>

BoardInit == Init /\ count = 0 /\ taken = 0 /\ clean = FALSE

\* A module whose bit is cleared starts again.
Reset ==
  /\ count' = IF TlastGen \in reset' THEN count ELSE 0
  /\ taken' = IF Writer \in reset' THEN taken ELSE 0

\* What a step of a program does to the modules, and to the history.
React ==
  /\ Reset
  /\ clean' = \/ clean /\ UNCHANGED registers
              \/ \E p \in Procs : alone[p] /\ cmd[p].op = "i" /\ pc'[p] = "done"

RxParseParam(p) == ParseParam(p) /\ React

\* cfg_init and sts_init; mem_init only maps the memory.
RxDevicesInit(p) == DevicesInit(p) /\ React

RxMain(p) == (Main(p) \/ Signal(p)) /\ React

RxRegisters(p) == Registers(p) /\ React

RxInitSystem(p) == InitSystem(p) /\ React

\* axis_tlast_gen passes data, valid and ready through, in reset too; it
\* counts only out of it.
Tlast == count = (Value("ns") + CountMax - 1) % CountMax

\* Mutant of Word: the mark comes one sample late.
WordLate ==
  /\ {Source, Writer} \subseteq reset
  /\ taken' = (taken + 1) % Ring
  /\ count' = IF TlastGen \notin reset \/ count = Value("ns") THEN 0 ELSE (count + 1) % CountMax
  /\ UNCHANGED <<vars, clean>>

Word ==
  /\ {Source, Writer} \subseteq reset
  /\ taken' = (taken + 1) % Ring
  /\ count' = IF TlastGen \notin reset \/ Tlast THEN 0 ELSE (count + 1) % CountMax
  /\ UNCHANGED <<vars, clean>>

Software ==
  \E p \in Procs :
    RxParseParam(p) \/ RxDevicesInit(p) \/ RxMain(p) \/ RxRegisters(p) \/ RxInitSystem(p)

BoardNext == Software \/ Word

BoardSpec == BoardInit /\ [][BoardNext]_boardVars

----------------------------------------------------------------------------
BoardTypeOK ==
  /\ TypeOK
  /\ count \in 0 .. CountMax - 1
  /\ taken \in 0 .. Ring - 1
  /\ clean \in BOOLEAN

\* From the moment an initialisation that had the registers to itself is over,
\* and until somebody touches a register, the packets are aligned with the
\* ring, whatever state the modules were left in before: the last module
\* released is the one that takes samples, and every module was cleared.
PacketsAligned ==
  clean => Bits \subseteq reset /\ taken % Value("ns") = count
=============================================================================
