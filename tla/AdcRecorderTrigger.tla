------------------------ MODULE AdcRecorderTrigger -------------------------
(***************************************************************************)
(* projects/adc_recorder_trigger: the program adc-recorder-trigger.c over  *)
(* FIR filter -> axis_oscilloscope -> width converter -> axis_ram_writer   *)
(* -> RAM, the oscilloscope triggered by axis_trigger, which sees the GPIO *)
(* pins at the full rate of the ADC.                                       *)
(*                                                                         *)
(* A step is an edge of FCLK_CLK0 at which the program may also make its   *)
(* next access.  The program writes the trigger's and the oscilloscope's   *)
(* settings while both rest: here they are constants.  The converter and   *)
(* the filters are external.                                               *)
(***************************************************************************)
EXTENDS AxisOscilloscope

CONSTANTS
  Samples,  \* samples the program prints: 1024 * 1024
  Pol,      \* pol_data of the trigger
  Burst, Ring, Ids, FifoDepth, AlmostEmptyOffset, PorCycles, MaxWords,
  MaxRuns   \* bound: runs of the program

ASSUME TriggerRecorderAssumption ==
  /\ Samples = Tot + 1
  /\ Pol \in BOOLEAN
  /\ (Pre + 1) % Window = 0
  /\ Burst \in Nat \ {0, 1}
  /\ Window % (2 * Burst) = 0
  /\ Samples % (2 * Burst) = 0
  /\ Ring \in Nat \ {0} /\ Ring % Burst = 0
  /\ CntrSize = 2 * Ring
  /\ AlmostEmptyOffset = Burst - 1
  /\ FifoDepth \in Nat /\ FifoDepth > AlmostEmptyOffset + 1
  /\ Ids \in Nat \ {0}
  /\ PorCycles \in Nat
  /\ MaxWords \in Nat
  /\ MaxRuns \in Nat

VARIABLES
  pc,       \* the program's next access
  unreset,  \* bit 0 of cfg_data: the reset of oscilloscope, converter, writer
  run,      \* bit 1: run_flag
  start,    \* the program's start
  runs,     \* runs begun
  held,     \* samples the converter holds
  comp,                                                       \* the trigger
  awvalid, wvalid, addr, wid, por, fifo, moved, slave, mem    \* the writer

Trig == INSTANCE AxisTrigger

Writer == INSTANCE AxisRamWriter WITH Orderly <- TRUE

programVars == <<pc, unreset, run, start, runs>>
vars == <<programVars, held, comp, scopeVars, Writer!vars>>

Init ==
  /\ pc = "begin"
  /\ unreset = FALSE
  /\ run = FALSE
  /\ start = 0
  /\ runs = 0
  /\ held = 0
  /\ Trig!Init
  /\ ScopeInit
  /\ Writer!Init

----------------------------------------------------------------------------
(* The hardware.                                                           *)

WordOffered == held = 2

WordTaken == WordOffered /\ ~Writer!Full

\* Mutant of HeldAfter: a sample that comes while a word goes is dropped.
HeldAfterDropping(sample) ==
  IF WordTaken THEN 0 ELSE held + (IF Passes(sample) THEN 1 ELSE 0)

HeldAfter(sample) ==
  (IF WordTaken THEN 0 ELSE held) + (IF Passes(sample) THEN 1 ELSE 0)

\* The oscilloscope has no back pressure: the slave must keep up with the
\* decimated stream, so that the FIFO is never full when a word comes.
KeepsUp == WordOffered => ~Writer!Full

\* A recording lasts a tenth of a second.  The program takes run_flag down in
\* that time: the oscilloscope would start again otherwise.
RunFlagIsShort == run /\ enbl => enbl'

\* A pin changes at the rate of the ADC, a sample comes once in a while.
Edge(sample, pinValid, above, awready, wready, late) ==
  /\ Trig!ClockEdge(pinValid, above)
  /\ IF unreset
     THEN /\ ScopeEdge(run, sample, Trig!TrgFlag(pinValid))
          /\ Writer!ClockEdge(WordOffered, awready, wready, late)
          /\ held' = HeldAfter(sample)
     ELSE /\ ScopeReset
          /\ Writer!ResetEdge
          /\ held' = 0
  /\ KeepsUp'
  /\ RunFlagIsShort

\* Nothing is on its way to RAM but what the FIFO's threshold keeps back.
Quiet ==
  /\ ~WordOffered
  /\ ~awvalid /\ ~wvalid /\ ~slave.open
  /\ Writer!AlmostEmpty(FALSE)

----------------------------------------------------------------------------
(* The program.                                                            *)

Begin ==
  /\ pc \in {"begin", "print"}
  /\ pc = "print" => Quiet
  /\ runs < MaxRuns
  /\ runs' = runs + 1
  /\ unreset' = FALSE
  /\ pc' = "set reset"
  /\ UNCHANGED <<run, start>>

SetReset ==
  /\ pc = "set reset"
  /\ unreset' = TRUE
  /\ pc' = "set run"
  /\ UNCHANGED <<run, start, runs>>

\* The power-on reset is long over by now.
SetRun ==
  /\ pc = "set run"
  /\ por = 0
  /\ run' = TRUE
  /\ pc' = "clear run"
  /\ UNCHANGED <<unreset, start, runs>>

ClearRun ==
  /\ pc = "clear run"
  /\ run' = FALSE
  /\ pc' = "poll"
  /\ UNCHANGED <<unreset, start, runs>>

\* Mutant of SeeStop: the poll waits for the bit to be set.
SeeStopInverted ==
  /\ pc = "poll"
  /\ enbl
  /\ pc' = "compute"
  /\ UNCHANGED <<unreset, run, start, runs>>

\* The status bit is down: the wait is over.
SeeStop ==
  /\ pc = "poll"
  /\ ~enbl
  /\ pc' = "compute"
  /\ UNCHANGED <<unreset, run, start, runs>>

\* Mutant of ComputeStart: the mask of the program is left out.
ComputeStartUnmasked ==
  /\ pc = "compute"
  /\ start' = (trgaddr - (Pre + 1)) % CntrSize
  /\ pc' = "print"
  /\ UNCHANGED <<unreset, run, runs>>

\* start = (start - 1024) & 0x007FFFC0, from a second look at the status.
ComputeStart ==
  /\ pc = "compute"
  /\ start' = LET s == (trgaddr - (Pre + 1)) % CntrSize IN s - (s % Window)
  /\ pc' = "print"
  /\ UNCHANGED <<unreset, run, runs>>

ProgramStep ==
  \/ Begin
  \/ SetReset
  \/ SetRun
  \/ ClearRun
  \/ SeeStop
  \/ ComputeStart

Next ==
  \E sample, pinValid, above, awready, wready, late \in BOOLEAN :
    /\ ProgramStep \/ UNCHANGED programVars
    /\ Edge(sample, pinValid, above, awready, wready, late)

Spec == Init /\ [][Next]_vars

\* The program runs on; the slave takes addresses and beats in the end;
\* samples come again and again, and so do samples at a trigger pulse.
Fairness ==
  /\ WF_vars(\E s, p, a, aw, w, l \in BOOLEAN : ProgramStep /\ Edge(s, p, a, aw, w, l))
  /\ \A b \in {"aw", "w", "now"} :
       WF_vars(\E s, p, a, aw, w, l \in BOOLEAN :
                 /\ (b = "aw" => aw) /\ (b = "w" => w) /\ (b = "now" => ~l)
                 /\ ProgramStep \/ UNCHANGED programVars
                 /\ Edge(s, p, a, aw, w, l))
  /\ \A flag \in BOOLEAN :
       SF_vars(\E p, a, aw, w, l \in BOOLEAN :
                 /\ flag => Trig!TrgFlag(p)
                 /\ ProgramStep \/ UNCHANGED programVars
                 /\ Edge(TRUE, p, a, aw, w, l))

FairSpec == Spec /\ Fairness

----------------------------------------------------------------------------
TypeOK ==
  /\ pc \in {"begin", "set reset", "set run", "clear run", "poll", "compute", "print"}
  /\ unreset \in BOOLEAN
  /\ run \in BOOLEAN
  /\ start \in 0 .. CntrSize - 1
  /\ runs \in 0 .. MaxRuns
  /\ held \in 0 .. 2
  /\ Trig!TypeOK
  /\ ScopeTypeOK
  /\ Writer!TypeOK

\* The word of the ring that sample i of the printed ones comes from, and its
\* number in the stream since the reset, for the sample of the window that
\* starts a multiple of Window before the trigger.
PrintedWord(i) == mem[((start + i) % CntrSize) \div 2]

WindowWord(i) == (trigger - (trigger % Window) - (Pre + 1) + i) \div 2

\* All the samples the program prints, and no other, are those of the window:
\* the oscilloscope's count past the trigger, the writer's bursts and its
\* threshold, and the mask of the program fit, also for a trigger that comes
\* after the ring has wrapped.  (The last burst needs its microseconds; the
\* program prints the samples before it first.)
PrintsTheWindow ==
  pc = "print" /\ Quiet => \A i \in 0 .. Samples - 1 : PrintedWord(i) = WindowWord(i)

\* The oscilloscope and the writer count the stream on their own, from the
\* same reset: the samples passed on are in the converter, the FIFO or RAM.
ScopeAgreesWithWriter == unreset => passed = held + 2 * (fifo + moved)

\* A recording that is started ends, whatever the stalls, if the trigger comes
\* with a sample in the end.
RunEnds == pc = "clear run" ~> pc = "print"
============================================================================
