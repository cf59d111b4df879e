----------------------------- MODULE DmaLoopback ----------------------------
(***************************************************************************)
(* The programs that drive an AXI DMA: the three of projects/dma_loopback, *)
(* which use the looped one, and counter_dma's.  A behaviour is one of one *)
(* of them.                                                                *)
(***************************************************************************)
EXTENDS AxiDmaLoopback

CONSTANTS
  Cores, Bds,      \* see SgPoll
  Packet, MaxRuns  \* see DirectDma

VARIABLES
  driver,  \* which of the programs drives the DMA
  at, ring, started, flushed, line, got, wire, stored, good, late,           \* SgPoll
  step, run, running, address, todo, ioc, idle, fifo, beats, memory,
  printed                                                          \* DirectDma

ASSUME TestAssumption == Bds \in Nat \ {0} /\ Packet \in Nat \ {0} /\ MaxRuns \in Nat

Sg == INSTANCE SgPoll WITH Words <- Length, WireSize <- LoopSize
Direct == INSTANCE DirectDma WITH WireSize <- LoopSize,
                            program <- driver, count <- beats, dest <- memory

DirectPrograms == {"dma_loopback/dma_test.c", "counter_dma/dma_test.c"}

exampleVars == <<at, ring, started, flushed, line, got, wire, stored, good, late>>
testVars == <<step, run, running, address, todo, ioc, idle, fifo, beats, memory,
              printed>>
allVars == <<driver, loopbackVars, exampleVars, testVars>>

AllInit ==
  /\ driver \in {"axidma.c", "sg_poll.c"} \cup DirectPrograms
  /\ LoopbackInit /\ Sg!SgInit /\ Direct!DirectInit

Finished ==
  /\ \/ driver = "sg_poll.c" /\ at \in Sg!Ended
     \/ driver \in DirectPrograms /\ step = 0
  /\ UNCHANGED allVars

SgStep(A) == driver = "sg_poll.c" /\ A /\ UNCHANGED <<driver, loopbackVars, testVars>>

DirectStep(A) == driver \in DirectPrograms /\ A /\ UNCHANGED <<loopbackVars, exampleVars>>

AllNext ==
  \/ driver = "axidma.c" /\ LoopbackNext /\ UNCHANGED <<driver, exampleVars, testVars>>
  \/ SgStep(Sg!SgNext)
  \/ DirectStep(Direct!DirectNext)
  \/ Finished

\* The processor goes on, so does a channel that has something to transfer, and
\* axis_counter counts; that a library call succeeds, the cache writes its line
\* back, or anybody runs or kills a program is not assumed.
AllSpec ==
  /\ AllInit /\ [][AllNext]_allVars
  /\ WF_allVars(SgStep(Sg!SgProgram))
  /\ WF_allVars(SgStep(Sg!TxReads \/ Sg!TxDone))
  /\ WF_allVars(SgStep(Sg!RxStores \/ Sg!RxDone))
  /\ WF_allVars(DirectStep(Direct!DirectProgram))
  /\ WF_allVars(DirectStep(Direct!TxMoves))
  /\ WF_allVars(DirectStep(Direct!WordComes))
  /\ WF_allVars(DirectStep(\E fails \in BOOLEAN : Direct!RxStores(fails)))

----------------------------------------------------------------------------
AllTypeOK == LoopbackTypeOK /\ Sg!SgTypeOK

\* What a program says of its transfer is so: the example's verdict, the end of
\* the others' poll, and what the looped one of them prints.
VerdictIsRight ==
  /\ driver = "sg_poll.c" => Sg!VerdictIsRight
  /\ driver \in DirectPrograms => Direct!PollMeansReceived

\* The polls, which have no timeout, end: the example's, the receive channel
\* running before the packet is handed over; and dma_test.c's, whatever a
\* killed run left of the DMA, where the packet is not longer than the transfer.
TestEnds ==
  /\ driver = "sg_poll.c" => <>(at \in Sg!Ended)
  /\ driver = "dma_loopback/dma_test.c" /\ step # 0 ~> step = 0
  /\ driver = "counter_dma/dma_test.c" /\ Direct!AtLength /\ Direct!Fits ~> step = 0
=============================================================================
