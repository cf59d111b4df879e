----------------------------- MODULE DacPlayer -----------------------------
(***************************************************************************)
(* projects/dac_player, the transmit side: dac-player.c copies a file into *)
(* a FIFO through axi_axis_writer, which has no back pressure, and the     *)
(* DAC drains it through axis_zeroer and axis_interpolator.  Nothing but   *)
(* the program's look at the fill count keeps the FIFO from overflowing.   *)
(*                                                                         *)
(* A word is its number among all words the program ever stored, from one  *)
(* on; Silence is the zero that axis_zeroer makes up.  The program may be  *)
(* run again while the FIFO still plays the words of the run before.       *)
(***************************************************************************)
EXTENDS Integers, Sequences

CONSTANTS
  Depth,      \* FIFO_DEPTH of fifo_1: 32768 words
  Threshold,  \* the program waits while the count is above it: 16384
  Chunk,      \* words of a full buffer: 65536 bytes are 16384 words
  Factors,    \* interpolation factors less one: 9 .. 65534
  MaxFile,    \* bound: words of a file
  MaxWords    \* bound: words stored over all runs

ASSUME PlayerAssumption ==
  /\ Depth \in Nat /\ Threshold \in Nat /\ Chunk \in Nat \ {0}
  /\ Threshold + Chunk <= Depth
  /\ Factors \subseteq Nat
  /\ Factors # {}
  /\ MaxFile \in Nat
  /\ MaxWords \in Nat

VARIABLES
  pc,       \* where the program is
  file,     \* words of the file not yet read
  chunk,    \* words of the buffer not yet copied
  written,  \* words the program has stored, over all runs
  fifo,     \* fifo_1
  lost,     \* words stored while the FIFO was full
  cfg,      \* int_cntr's limit: bits 63..48 of the configuration
  cntr,     \* int_cntr_reg of the interpolator
  held      \* int_tdata_reg when int_tvalid_reg is set, else None

vars == <<pc, file, chunk, written, fifo, lost, cfg, cntr, held>>

Silence == 0
None == -1

Least(a, b) == IF a <= b THEN a ELSE b

Init ==
  /\ pc = "idle"
  /\ file = 0
  /\ chunk = 0
  /\ written = 0
  /\ fifo = <<>>
  /\ lost = 0
  /\ cfg = 0
  /\ cntr = 0
  /\ held = None

----------------------------------------------------------------------------
(* The program.                                                            *)

\* The arguments are checked, the file is open and the factor is set.
Start(factor, words) ==
  /\ pc = "idle"
  /\ written + words <= MaxWords
  /\ cfg' = factor
  /\ file' = words
  /\ pc' = "read"
  /\ UNCHANGED <<chunk, written, fifo, lost, cntr, held>>

\* The loop's head and fread: the end of the file or SIGINT ends the run.
ReadChunk ==
  /\ pc = "read"
  /\ IF file = 0
     THEN /\ pc' = "idle"
          /\ UNCHANGED <<file, chunk>>
     ELSE /\ pc' = "wait"
          /\ chunk' = Least(Chunk, file)
          /\ file' = file - Least(Chunk, file)
  /\ UNCHANGED <<written, fifo, lost, cfg, cntr, held>>

Interrupted ==
  /\ pc = "read"
  /\ pc' = "idle"
  /\ file' = 0
  /\ UNCHANGED <<chunk, written, fifo, lost, cfg, cntr, held>>

\* Mutant of SeeRoom: the limit is one word too high.
SeeRoomLate ==
  /\ pc = "wait"
  /\ Len(fifo) <= Threshold + 1
  /\ pc' = "copy"
  /\ UNCHANGED <<file, chunk, written, fifo, lost, cfg, cntr, held>>

\* Mutant of SeeRoom: a limit the count never gets under.
SeeRoomOnlyEmptier ==
  /\ pc = "wait"
  /\ Len(fifo) < Threshold - 2
  /\ pc' = "copy"
  /\ UNCHANGED <<file, chunk, written, fifo, lost, cfg, cntr, held>>

\* The count read from the status register leaves the wait loop; a count above
\* the threshold leaves everything as it is.
SeeRoom ==
  /\ pc = "wait"
  /\ Len(fifo) <= Threshold
  /\ pc' = "copy"
  /\ UNCHANGED <<file, chunk, written, fifo, lost, cfg, cntr, held>>

\* One store of memcpy: axi_axis_writer offers the word for one clock, and the
\* FIFO takes it or not.
StoreWord ==
  /\ pc = "copy"
  /\ written' = written + 1
  /\ chunk' = chunk - 1
  /\ pc' = IF chunk = 1 THEN "read" ELSE "copy"
  /\ IF Len(fifo) < Depth
     THEN fifo' = Append(fifo, written + 1) /\ UNCHANGED lost
     ELSE lost' = lost + 1 /\ UNCHANGED fifo
  /\ UNCHANGED <<file, cfg, cntr, held>>

----------------------------------------------------------------------------
(* The hardware: an edge of the clock of zeroer and interpolator.          *)

\* Mutant of TakeSample: the FIFO is read without being popped.
TakeSampleTwice ==
  /\ held = None
  /\ IF fifo = <<>>
     THEN held' = Silence /\ UNCHANGED fifo
     ELSE held' = Head(fifo) /\ UNCHANGED fifo
  /\ UNCHANGED <<pc, file, chunk, written, lost, cfg, cntr>>

\* The interpolator is free: it takes the FIFO's word, or the zeroer's zero.
TakeSample ==
  /\ held = None
  /\ IF fifo = <<>>
     THEN held' = Silence /\ UNCHANGED fifo
     ELSE held' = Head(fifo) /\ fifo' = Tail(fifo)
  /\ UNCHANGED <<pc, file, chunk, written, lost, cfg, cntr>>

\* Mutant of GiveSample: a sample is never released.
GiveSampleNeverLast ==
  /\ held # None
  /\ IF cntr < cfg
     THEN cntr' = cntr + 1 /\ UNCHANGED held
     ELSE cntr' = 0 /\ UNCHANGED held
  /\ UNCHANGED <<pc, file, chunk, written, fifo, lost, cfg>>

\* The DAC side takes the sample once more, or for the last time.
GiveSample ==
  /\ held # None
  /\ IF cntr < cfg
     THEN cntr' = cntr + 1 /\ UNCHANGED held
     ELSE cntr' = 0 /\ held' = None
  /\ UNCHANGED <<pc, file, chunk, written, fifo, lost, cfg>>

Program == ReadChunk \/ SeeRoom \/ StoreWord

Hardware == TakeSample \/ GiveSample

Next ==
  \/ \E factor \in Factors, words \in 0 .. MaxFile : Start(factor, words)
  \/ Interrupted
  \/ ReadChunk
  \/ SeeRoom
  \/ StoreWord
  \/ TakeSample
  \/ GiveSample

\* The scheduler runs the program, and the DAC takes samples for ever.
Fairness == WF_vars(Program) /\ WF_vars(Hardware)

Spec == Init /\ [][Next]_vars

FairSpec == Spec /\ Fairness

----------------------------------------------------------------------------
TypeOK ==
  /\ pc \in {"idle", "read", "wait", "copy"}
  /\ file \in Nat
  /\ chunk \in 0 .. Chunk
  /\ written \in Nat
  /\ fifo \in Seq(Nat \ {Silence})
  /\ lost \in Nat
  /\ cfg \in Factors \cup {0}
  /\ cntr \in Nat
  /\ held \in Nat \cup {None}

\* The promise of the wait loop: no word of a file is dropped, although no one
\* looks at the FIFO's tready and the count is old by the time of the copy.
NoWordLost == lost = 0

\* While it copies, the program has reserved the room it will need, including
\* what a run before left in the FIFO.
RoomReserved ==
  /\ Len(fifo) <= Depth
  /\ pc = "copy" => chunk > 0 /\ Len(fifo) + chunk <= Depth

\* The DAC hears the words in the order of the file, each of them once, and
\* the runs one after the other.
PlaysInOrder ==
  [][held' # held /\ held' \notin {None, Silence}
       => /\ Len(fifo') = Len(fifo) - 1
          /\ held' = written - Len(fifo) + 1]_vars

\* A run does not hang in its wait loop, which does not look at SIGINT.
WaitEnds == pc = "wait" ~> pc = "copy"

\* Every word that got into the FIFO reaches the DAC.
StoredIsPlayed ==
  \A w \in 1 .. MaxWords : (\E i \in 1 .. Len(fifo) : fifo[i] = w) ~> held = w
============================================================================
