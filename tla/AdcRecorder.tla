---------------------------- MODULE AdcRecorder ----------------------------
(***************************************************************************)
(* projects/adc_recorder: the program adc-recorder.c over the chain of its *)
(* block design, FIR filter -> axis_packetizer (one packet) -> width       *)
(* converter (two samples a word) -> axis_ram_writer -> RAM.               *)
(*                                                                         *)
(* A step is an edge of FCLK_CLK0 at which the program may also make its   *)
(* next register write, so that a value written lasts an edge at least.    *)
(* The packetizer is the module extended, the writer the instance Writer;  *)
(* cfg_data's bits are the three resets.  The converter and the filters    *)
(* are external.                                                           *)
(***************************************************************************)
EXTENDS AxisPacketizer

CONSTANTS
  Samples,    \* samples the program prints: 1024 * 1024
  Burst, Ring, Ids, FifoDepth, AlmostEmptyOffset, PorCycles, MaxWords,
  MaxRuns     \* bound: runs of the program

ASSUME RecorderAssumption ==
  /\ Samples \in Nat \ {0} /\ Samples % 2 = 0
  /\ Samples < CntrSize
  /\ Samples <= 2 * Ring
  /\ Burst \in Nat \ {0, 1}
  /\ Ring \in Nat \ {0} /\ Ring % Burst = 0
  /\ AlmostEmptyOffset \in Nat /\ AlmostEmptyOffset + 1 >= Burst
  /\ FifoDepth \in Nat /\ FifoDepth > AlmostEmptyOffset + 1
  /\ Ids \in Nat \ {0}
  /\ PorCycles \in Nat
  /\ MaxWords \in Nat
  /\ MaxRuns \in Nat

VARIABLES
  pc,        \* the program's next write, or what it waits for
  unreset,   \* the names of the reset bits that are one: of cfg_data(2..0)
  runs,      \* runs begun
  held,      \* samples the converter holds
  awvalid, wvalid, addr, wid, por, fifo, moved, slave, mem    \* the writer

Writer == INSTANCE AxisRamWriter WITH Orderly <- TRUE

programVars == <<pc, unreset, runs>>
recorderVars == <<programVars, held, vars, Writer!vars>>

RecorderInit ==
  /\ pc = "begin"
  /\ unreset = {}
  /\ runs = 0
  /\ held = 0
  /\ Init /\ cfg = 0 /\ ~continuous
  /\ Writer!Init

----------------------------------------------------------------------------
(* The hardware.                                                           *)

\* The converter offers a word when it holds two samples, and takes a sample
\* when it holds none, one, or the word is going.
WordOffered == held = 2

WordTaken == WordOffered /\ ~Writer!Full

ConverterReady == held < 2 \/ WordTaken

\* Mutant of HeldAfter: a sample that comes while a word goes is dropped.
HeldAfterDropping == IF WordTaken THEN 0 ELSE held + (IF Taken(ConverterReady) THEN 1 ELSE 0)

HeldAfter ==
  (IF WordTaken THEN 0 ELSE held) + (IF Taken(ConverterReady) THEN 1 ELSE 0)

\* The filters' reset, which stops the source, comes while the packetizer is
\* shut and passes nothing on: it makes no difference here.
GateEdge(more) ==
  IF "packetizer" \in unreset THEN ClockEdge(ConverterReady, more) ELSE ResetEdge

WriterEdge(awready, wready, late) ==
  IF "writer" \in unreset
  THEN Writer!ClockEdge(WordOffered, awready, wready, late) /\ held' = HeldAfter
  ELSE Writer!ResetEdge /\ held' = 0

\* All the samples are through and no burst runs or can start.
Quiet ==
  /\ packets = 1
  /\ ~WordOffered
  /\ ~awvalid /\ ~wvalid /\ ~slave.open
  /\ Writer!AlmostEmpty(FALSE)

----------------------------------------------------------------------------
(* The program: one write, or the end of a wait, at a time.                *)

ClearBit(from, name, to) ==
  /\ pc = from
  /\ pc' = to
  /\ unreset' = unreset \ {name}
  /\ UNCHANGED <<runs, cfg>>

SetBit(from, name, to) ==
  /\ pc = from
  /\ pc' = to
  /\ unreset' = unreset \cup {name}
  /\ UNCHANGED <<runs, cfg>>

Begin ==
  /\ pc \in {"begin", "print"}
  /\ runs < MaxRuns
  /\ runs' = runs + 1
  /\ pc' = "clear writer"
  /\ UNCHANGED <<unreset, cfg>>

\* One second is enough for the filters and the power-on reset.
FirstSleep ==
  /\ pc = "first sleep"
  /\ por = 0
  /\ pc' = "clear packetizer"
  /\ UNCHANGED <<unreset, runs, cfg>>

\* Mutant of SetLength: the length in words instead of samples.
SetLengthHalf ==
  /\ pc = "set length"
  /\ cfg' = (Samples \div 2) - 1
  /\ pc' = "set packetizer"
  /\ UNCHANGED <<unreset, runs>>

\* Mutant of SetLength: no length.
SetLengthZero ==
  /\ pc = "set length"
  /\ cfg' = 0
  /\ pc' = "set packetizer"
  /\ UNCHANGED <<unreset, runs>>

SetLength ==
  /\ pc = "set length"
  /\ cfg' = Samples - 1
  /\ pc' = "set packetizer"
  /\ UNCHANGED <<unreset, runs>>

\* 1048576 samples at 125/64 MHz last 0.54 s: after one second all is quiet.
SecondSleep ==
  /\ pc = "second sleep"
  /\ Quiet
  /\ pc' = "print"
  /\ UNCHANGED <<unreset, runs, cfg>>

ProgramStep ==
  \/ Begin
  \/ ClearBit("clear writer", "writer", "set writer")
  \/ SetBit("set writer", "writer", "clear filters")
  \/ ClearBit("clear filters", "filters", "set filters")
  \/ SetBit("set filters", "filters", "first sleep")
  \/ FirstSleep
  \/ ClearBit("clear packetizer", "packetizer", "set length")
  \/ SetLength
  \/ SetBit("set packetizer", "packetizer", "second sleep")
  \/ SecondSleep

ProgramRests == UNCHANGED <<programVars, cfg>>

HardwareEdge(more, awready, wready, late) ==
  /\ GateEdge(more)
  /\ WriterEdge(awready, wready, late)

RecorderNext ==
  \E more, awready, wready, late \in BOOLEAN :
    /\ ProgramStep \/ ProgramRests
    /\ HardwareEdge(more, awready, wready, late)

\* The program runs on, the source and the slave do their part in the end.
RecorderFairness ==
  /\ \A b \in {"more", "aw", "w", "now"} :
       WF_recorderVars(\E more, awready, wready, late \in BOOLEAN :
                 /\ (b = "more" => more) /\ (b = "aw" => awready)
                 /\ (b = "w" => wready) /\ (b = "now" => ~late)
                 /\ ProgramStep \/ ProgramRests
                 /\ HardwareEdge(more, awready, wready, late))
  /\ WF_recorderVars(\E more, awready, wready, late \in BOOLEAN :
               ProgramStep /\ HardwareEdge(more, awready, wready, late))

RecorderSpec == RecorderInit /\ [][RecorderNext]_recorderVars

FairRecorderSpec == RecorderSpec /\ RecorderFairness

----------------------------------------------------------------------------
PacketWords == Samples \div 2

RecorderTypeOK ==
  /\ pc \in {"begin", "clear writer", "set writer", "clear filters", "set filters",
             "first sleep", "clear packetizer", "set length", "set packetizer",
             "second sleep", "print"}
  /\ unreset \subseteq {"writer", "filters", "packetizer"}
  /\ runs \in 0 .. MaxRuns
  /\ held \in 0 .. 2
  /\ TypeOK
  /\ Writer!TypeOK

\* Three components keep a count of the samples of this run on their own, and
\* agree: those the packetizer let through are in the converter, in the FIFO
\* or in RAM.  The word index in RAM is therefore the index in the packet.
SamplesAccounted ==
  pc \in {"second sleep", "print"} =>
    (IF packets = 1 THEN cfg + 1 ELSE beats) = held + 2 * (fifo + moved)

\* What the program prints is this run's recording, sample by sample, but for
\* the last words that the FIFO's threshold may keep back: after a packet of
\* whole bursts up to AlmostEmptyOffset + 1 of them.
PrintsAllButTail ==
  pc = "print" =>
    \A w \in 0 .. PacketWords - 1 : w < PacketWords - (AlmostEmptyOffset + 1) => mem[w] = w

\* The program's comments: it sets the number of samples and prints the
\* samples.  All of them should be of this recording.
PrintsTheRecording == pc = "print" => \A w \in 0 .. PacketWords - 1 : mem[w] = w

\* Each run gets to its print loop.
RunEnds == pc = "clear writer" ~> pc = "print"
============================================================================
