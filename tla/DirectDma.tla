------------------------------ MODULE DirectDma ------------------------------
(***************************************************************************)
(* projects/*/dma_test.c: a program that drives the channels of an AXI DMA *)
(* without scatter-gather by writing their registers, and polls the status *)
(* register until the transfer is over.  dma_loopback's sends through one  *)
(* channel what it receives through the other; counter_dma's receives      *)
(* what axis_counter counts, axis_tlast_gen marking the ends of packets,   *)
(* which are longer than the transfer.  dma_test's and dma_lago's make the *)
(* same accesses as counter_dma's, for 4096 bytes instead of 1024: Length  *)
(* and Packet, of which only Packet > Length matters, are parameters.      *)
(*                                                                         *)
(* counter_dma's (and dma_test's) prints other memory than it receives:    *)
(* it maps 0x0f00000 and has the DMA write 0x0f000000.                     *)
(*                                                                         *)
(* The program may be killed anywhere and run again; the DMA goes on then, *)
(* and with it a transfer, until somebody resets it.  A word is the number *)
(* of the run in which the DMA took it.                                    *)
(***************************************************************************)
EXTENDS Naturals, Sequences

CONSTANTS
  Length,    \* words the program asks for: 8, or 256
  WireSize,  \* words the channels hold
  Packet,    \* pkt_length of axis_tlast_gen: 511
  MaxRuns    \* bound: runs of the program

VARIABLES
  program,  \* which of them it is
  step,     \* the next step of its script; 0 while it is not running
  run,      \* resets of the DMA by the receive channel's register
  running,  \* channels whose RS bit is set
  address,  \* channels that were given their address
  todo,     \* words left of either channel's transfer
  ioc,      \* channels whose status has IOC_Irq
  idle,     \* ... and Idle
  fifo,     \* the words inside the DMA, as [run, last]
  count,    \* cnt of axis_tlast_gen
  dest,     \* the memory the DMA was given: the run each word is of
  printed   \* what this run of the program has printed of its destination

channelVars == <<running, address, todo, ioc, idle, fifo>>
directVars == <<program, step, run, channelVars, count, dest, printed>>

Channels == {"tx", "rx"}
Does(op, c) == [op |-> op, ch |-> c]

\* The accesses to the DMA in main of dma_loopback/dma_test.c ...
LoopScript ==
  << Does("reset", "rx"), Does("reset", "tx"), Does("halt", "rx"), Does("halt", "tx"),
     Does("address", "rx"), Does("address", "tx"), Does("run", "rx"), Does("run", "tx"),
     Does("length", "rx"), Does("length", "tx"), Does("sync", "tx"), Does("sync", "rx"),
     Does("dump", "rx") >>

\* ... and of counter_dma/dma_test.c, which leaves the other channel out.
StreamScript ==
  << Does("reset", "rx"), Does("halt", "rx"), Does("address", "rx"), Does("run", "rx"),
     Does("length", "rx"), Does("sync", "rx"), Does("dump", "rx") >>

Looped == program = "dma_loopback/dma_test.c"
Script == IF Looped THEN LoopScript ELSE StreamScript
Blank == [i \in 1 .. Length |-> 0]

\* What the program has mapped for its destination: the memory it gives to the
\* DMA, or memory where no word of a run comes.
Mapped == IF Looped THEN dest ELSE Blank

DirectInit ==
  /\ step = 0 /\ run = 0
  /\ running = {} /\ address = {} /\ ioc = {} /\ idle = {}
  /\ todo = [c \in Channels |-> 0]
  /\ fifo = <<>>
  /\ count = 0
  /\ dest = Blank
  /\ printed = <<>>

----------------------------------------------------------------------------
(* The program.                                                            *)

\* Only dma_loopback's clears the destination.
Begin ==
  /\ step = 0 /\ run < MaxRuns
  /\ step' = 1
  /\ dest' = IF Looped THEN Blank ELSE dest
  /\ printed' = <<>>
  /\ UNCHANGED <<program, run, channelVars, count>>

\* The script goes on; after its last step the program ends.
Do(op, c) ==
  /\ step # 0 /\ Script[step] = Does(op, c)
  /\ step' = (step + 1) % (Len(Script) + 1)
  /\ UNCHANGED program

\* Either reset bit resets both channels.
ResetDma(c) ==
  /\ Do("reset", c)
  /\ run' = IF c = "rx" THEN run + 1 ELSE run
  /\ running' = {} /\ address' = {} /\ ioc' = {} /\ idle' = {}
  /\ todo' = [d \in Channels |-> 0]
  /\ fifo' = <<>>
  /\ UNCHANGED <<count, dest, printed>>

Halt(c) ==
  /\ Do("halt", c)
  /\ running' = running \ {c}
  /\ UNCHANGED <<run, address, todo, ioc, idle, fifo, count, dest, printed>>

SetAddress(c) ==
  /\ Do("address", c)
  /\ address' = address \cup {c}
  /\ UNCHANGED <<run, running, todo, ioc, idle, fifo, count, dest, printed>>

Run(c) ==
  /\ Do("run", c)
  /\ running' = running \cup {c}
  /\ UNCHANGED <<run, address, todo, ioc, idle, fifo, count, dest, printed>>

\* The length starts the transfer, if the channel runs.
SetLength(c) ==
  /\ Do("length", c)
  /\ IF c \in running
     THEN todo' = [todo EXCEPT ![c] = Length] /\ idle' = idle \ {c}
     ELSE UNCHANGED <<todo, idle>>
  /\ UNCHANGED <<run, running, address, ioc, fifo, count, dest, printed>>

Over(c) == c \in ioc /\ c \in idle

Sync(c) ==
  /\ Over(c)
  /\ Do("sync", c)
  /\ UNCHANGED <<run, channelVars, count, dest, printed>>

Spin(c) ==
  /\ step # 0 /\ Script[step] = Does("sync", c) /\ ~Over(c)
  /\ UNCHANGED directVars

Dump ==
  /\ Do("dump", "rx")
  /\ printed' = Mapped
  /\ UNCHANGED <<run, channelVars, count, dest>>

Kill ==
  /\ step # 0
  /\ step' = 0
  /\ UNCHANGED <<program, run, channelVars, count, dest, printed>>

DirectProgram ==
  \/ \E c \in Channels :
       ResetDma(c) \/ Halt(c) \/ SetAddress(c) \/ Run(c) \/ SetLength(c) \/ Sync(c) \/ Spin(c)
  \/ Dump

----------------------------------------------------------------------------
(* The DMA and the stream.                                                 *)

\* A transfer of channel c is over.
Complete(c) == ioc' = ioc \cup {c} /\ idle' = idle \cup {c}

TxMoves ==
  /\ "tx" \in running /\ todo["tx"] > 0 /\ Len(fifo) < WireSize
  /\ fifo' = Append(fifo, [run |-> run, last |-> todo["tx"] = 1])
  /\ todo' = [todo EXCEPT !["tx"] = @ - 1]
  /\ IF todo["tx"] = 1 THEN Complete("tx") ELSE UNCHANGED <<ioc, idle>>
  /\ UNCHANGED <<program, step, run, running, address, count, dest, printed>>

\* The receive channel may take words as soon as it runs.
WordComes ==
  /\ ~Looped /\ "rx" \in running /\ Len(fifo) < WireSize
  /\ fifo' = Append(fifo, [run |-> run, last |-> count = Packet - 1])
  /\ count' = IF count = Packet - 1 THEN 0 ELSE count + 1
  /\ UNCHANGED <<program, step, run, running, address, todo, ioc, idle, dest, printed>>

\* The end of the packet ends the transfer.  What a packet does that is longer
\* the manual leaves open: the channel may stop with an error, which sets
\* neither bit, or take the transfer for complete.
RxStores(fails) ==
  LET word == Head(fifo)
      left == IF word.last THEN 0 ELSE todo["rx"] - 1
      over == left = 0 /\ ~word.last
  IN  /\ "rx" \in running /\ todo["rx"] > 0 /\ fifo # <<>>
      /\ fifo' = Tail(fifo)
      /\ dest' = IF "rx" \in address THEN [dest EXCEPT ![Length - todo["rx"] + 1] = word.run] ELSE dest
      /\ todo' = [todo EXCEPT !["rx"] = left]
      /\ IF word.last \/ (over /\ ~fails) THEN Complete("rx") ELSE UNCHANGED <<ioc, idle>>
      /\ running' = IF over /\ fails THEN running \ {"rx"} ELSE running
      /\ UNCHANGED <<program, step, run, address, count, printed>>

DirectNext ==
  \/ Begin \/ Kill \/ DirectProgram \/ TxMoves \/ WordComes
  \/ \E fails \in BOOLEAN : RxStores(fails)

----------------------------------------------------------------------------
\* When the poll has ended the transfer is over, however an earlier run was
\* broken off, and the memory the DMA was given begins with a word of this run;
\* and what the looped program prints is all of its packet.  (Nothing is said of
\* what counter_dma's prints: it is not what the run received.)
PollMeansReceived ==
  /\ step = Len(Script) => todo["rx"] = 0 /\ dest[1] = run
  /\ Looped /\ printed # <<>> => \A i \in 1 .. Length : printed[i] = run

\* The next word to store is so near the end of its packet that the rest fits
\* in a transfer.
Fits == Packet - ((count + Packet - Len(fifo)) % Packet) <= Length

\* The receive channel runs and is about to be given its length.
AtLength == step # 0 /\ Script[step] = Does("length", "rx")
=============================================================================
