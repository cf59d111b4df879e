------------------------------- MODULE SgPoll -------------------------------
(***************************************************************************)
(* projects/dma_loopback/xaxidma_example_sg_poll.c: without an operating   *)
(* system, one packet is sent through the scatter-gather channels of the   *)
(* looped AXI DMA and checked.                                             *)
(*                                                                         *)
(* The library's rings of buffer descriptors (BDs) are four counts: the    *)
(* free ones, the program's, the hardware's, and the done ones.  The       *)
(* buffer to receive into is one line of the data cache: zeroed there, and *)
(* written back to memory whenever the cache likes.                        *)
(***************************************************************************)
EXTENDS Naturals, Sequences

CONSTANTS
  Cores,     \* builds of the DMA: of "simple" and "sg"
  Bds,       \* descriptors in a ring
  Words,     \* words of the packet
  WireSize   \* words between the channels

VARIABLES
  at,       \* the next step of main, or how it ended
  ring,     \* the counts of either ring
  started,  \* channels that are started
  flushed,  \* whether memory holds the packet
  line,     \* the receive buffer's cache line: "clean" or "dirty"
  got,      \* words the transmit channel has read
  wire,     \* words between the channels: whether each is the packet's
  stored,   \* words the receive channel has stored
  good,     \* words of the receive buffer's memory that are the packet's
  late      \* history: the line was written back over stored words

programVars == <<at, started, flushed>>
hardwareVars == <<got, wire, stored>>
memoryVars == <<line, good, late>>
sgVars == <<programVars, ring, hardwareVars, memoryVars>>

BdStates == {"free", "mine", "hw", "done"}
NoBds == [state \in BdStates |-> 0]
Ended == {"passed", "failed", "data error"}

SgInit ==
  /\ at = "init"
  /\ ring = [c \in {"tx", "rx"} |-> NoBds]
  /\ started = {} /\ flushed = FALSE
  /\ got = 0 /\ wire = <<>> /\ stored = 0
  /\ line = "clean" /\ good = {} /\ late = FALSE

\* A call that fails ends the test; what it leaves of the rings does not matter.
Step(from, to, ok) == at = from /\ at' = IF ok THEN to ELSE "failed"

\* n descriptors go from one state to another,
Moved(bds, n, from, to) == [bds EXCEPT ![from] = @ - n, ![to] = @ + n]

\* ... those of ring c if the call is ok.
Pass(c, n, from, to, ok) ==
  ring' = IF ok THEN [ring EXCEPT ![c] = Moved(ring[c], n, from, to)] ELSE ring

SetUp(c, ok) == ring' = IF ok THEN [ring EXCEPT ![c].free = Bds] ELSE ring
StartChannel(c, ok) == started' = IF ok THEN started \cup {c} ELSE started

----------------------------------------------------------------------------
\* A core without scatter-gather is refused.
Initialise(core, ok) ==
  /\ Step("init", "tx create", ok /\ core = "sg")
  /\ UNCHANGED <<ring, started, flushed, hardwareVars, memoryVars>>

(* TxSetup. *)

TxCreate(ok) ==
  /\ Step("tx create", "tx start", ok)
  /\ SetUp("tx", ok)
  /\ UNCHANGED <<started, flushed, hardwareVars, memoryVars>>

TxStart(ok) ==
  /\ Step("tx start", "rx create", ok)
  /\ StartChannel("tx", ok)
  /\ UNCHANGED <<ring, flushed, hardwareVars, memoryVars>>

(* RxSetup: every descriptor gets a buffer, the first is zeroed. *)

RxCreate(ok) ==
  /\ Step("rx create", "rx attach", ok)
  /\ SetUp("rx", ok)
  /\ UNCHANGED <<started, flushed, hardwareVars, memoryVars>>

RxAttach(ok) ==
  /\ Step("rx attach", "rx clear", ok)
  /\ Pass("rx", ring["rx"].free, "free", "mine", ok)
  /\ UNCHANGED <<started, flushed, hardwareVars, memoryVars>>

RxClear ==
  /\ Step("rx clear", "rx to hw", TRUE)
  /\ line' = "dirty"
  /\ UNCHANGED <<ring, started, flushed, hardwareVars, good, late>>

RxToHw(ok) ==
  /\ Step("rx to hw", "rx start", ok)
  /\ Pass("rx", ring["rx"].mine, "mine", "hw", ok)
  /\ UNCHANGED <<started, flushed, hardwareVars, memoryVars>>

\* Mutant of RxStart: the channel is not started.
RxStartNot(ok) ==
  /\ Step("rx start", "fill", ok)
  /\ UNCHANGED <<ring, started, flushed, hardwareVars, memoryVars>>

RxStart(ok) ==
  /\ Step("rx start", "fill", ok)
  /\ StartChannel("rx", ok)
  /\ UNCHANGED <<ring, flushed, hardwareVars, memoryVars>>

(* SendPacket. *)

\* The packet is written and flushed.
Fill ==
  /\ Step("fill", "tx alloc", TRUE)
  /\ flushed' = TRUE
  /\ UNCHANGED <<ring, started, hardwareVars, memoryVars>>

TxAlloc(ok) ==
  /\ Step("tx alloc", "tx to hw", ok)
  /\ Pass("tx", 1, "free", "mine", ok)
  /\ UNCHANGED <<started, flushed, hardwareVars, memoryVars>>

TxToHw(ok) ==
  /\ Step("tx to hw", "tx poll", ok)
  /\ Pass("tx", 1, "mine", "hw", ok)
  /\ UNCHANGED <<started, flushed, hardwareVars, memoryVars>>

(* CheckDmaResult: either ring is polled for as long as it takes. *)

TxPoll ==
  /\ ring["tx"].done > 0
  /\ Step("tx poll", "tx free", TRUE)
  /\ Pass("tx", ring["tx"].done, "done", "mine", TRUE)
  /\ UNCHANGED <<started, flushed, hardwareVars, memoryVars>>

\* Either loop looks again.
Spin ==
  /\ (at = "tx poll" /\ ring["tx"].done = 0) \/ (at = "rx poll" /\ ring["rx"].done = 0)
  /\ UNCHANGED sgVars

TxFree(ok) ==
  /\ Step("tx free", "rx poll", ok)
  /\ Pass("tx", ring["tx"].mine, "mine", "free", ok)
  /\ UNCHANGED <<started, flushed, hardwareVars, memoryVars>>

\* Mutant of RxPoll: it looks at the ring once.
RxPollOnce ==
  /\ Step("rx poll", "check", TRUE)
  /\ Pass("rx", ring["rx"].done, "done", "mine", TRUE)
  /\ UNCHANGED <<started, flushed, hardwareVars, memoryVars>>

RxPoll ==
  /\ ring["rx"].done > 0
  /\ Step("rx poll", "check", TRUE)
  /\ Pass("rx", ring["rx"].done, "done", "mine", TRUE)
  /\ UNCHANGED <<started, flushed, hardwareVars, memoryVars>>

\* CheckData throws the line away and looks at memory.
CheckData ==
  /\ at = "check"
  /\ at' = IF good = 1 .. Words THEN "rx free" ELSE "data error"
  /\ line' = "clean"
  /\ UNCHANGED <<ring, started, flushed, hardwareVars, good, late>>

RxFree(ok) ==
  /\ Step("rx free", "rx again", ok)
  /\ Pass("rx", ring["rx"].mine, "mine", "free", ok)
  /\ UNCHANGED <<started, flushed, hardwareVars, memoryVars>>

RxAgain(ok) ==
  /\ Step("rx again", "rx to hw again", ok)
  /\ Pass("rx", ring["rx"].free, "free", "mine", ok)
  /\ UNCHANGED <<started, flushed, hardwareVars, memoryVars>>

RxToHwAgain(ok) ==
  /\ Step("rx to hw again", "passed", ok)
  /\ Pass("rx", ring["rx"].mine, "mine", "hw", ok)
  /\ UNCHANGED <<started, flushed, hardwareVars, memoryVars>>

----------------------------------------------------------------------------
(* The channels and the cache.                                             *)

TxReads ==
  /\ "tx" \in started /\ ring["tx"].hw > 0
  /\ got < Words /\ Len(wire) < WireSize
  /\ got' = got + 1
  /\ wire' = Append(wire, flushed)
  /\ UNCHANGED <<programVars, ring, stored, memoryVars>>

RxStores ==
  /\ "rx" \in started /\ ring["rx"].hw > 0
  /\ wire # <<>>
  /\ stored' = stored + 1
  /\ wire' = Tail(wire)
  /\ good' = IF Head(wire) THEN good \cup {stored + 1} ELSE good
  /\ UNCHANGED <<programVars, ring, got, line, late>>

\* A descriptor is done when its channel has moved the whole packet.
TxDone ==
  /\ got = Words
  /\ got' = 0
  /\ Pass("tx", 1, "hw", "done", TRUE)
  /\ UNCHANGED <<programVars, wire, stored, memoryVars>>

RxDone ==
  /\ stored = Words
  /\ stored' = 0
  /\ Pass("rx", 1, "hw", "done", TRUE)
  /\ UNCHANGED <<programVars, got, wire, memoryVars>>

WriteBack ==
  /\ line = "dirty"
  /\ line' = "clean"
  /\ good' = {}
  /\ late' = (good # {})
  /\ UNCHANGED <<programVars, ring, hardwareVars>>

TxSetup(ok) == TxCreate(ok) \/ TxStart(ok)

RxSetup(ok) == RxCreate(ok) \/ RxAttach(ok) \/ RxClear \/ RxToHw(ok) \/ RxStart(ok)

SendPacket(ok) == Fill \/ TxAlloc(ok) \/ TxToHw(ok)

CheckDmaResult(ok) ==
  \/ TxPoll
  \/ Spin
  \/ TxFree(ok)
  \/ RxPoll
  \/ CheckData
  \/ RxFree(ok)
  \/ RxAgain(ok)
  \/ RxToHwAgain(ok)

SgProgram ==
  \E ok \in BOOLEAN :
    \/ \E core \in Cores : Initialise(core, ok)
    \/ TxSetup(ok)
    \/ RxSetup(ok)
    \/ SendPacket(ok)
    \/ CheckDmaResult(ok)

Channel == TxReads \/ RxStores \/ TxDone \/ RxDone

SgNext == SgProgram \/ Channel \/ WriteBack

----------------------------------------------------------------------------
SgTypeOK ==
  /\ ring \in [{"tx", "rx"} -> [BdStates -> 0 .. Bds]]
  /\ started \subseteq {"tx", "rx"}
  /\ flushed \in BOOLEAN /\ late \in BOOLEAN
  /\ line \in {"clean", "dirty"}
  /\ got \in 0 .. Words /\ stored \in 0 .. Words
  /\ wire \in Seq(BOOLEAN) /\ Len(wire) <= WireSize
  /\ good \subseteq 1 .. Words

\* The test passes only with the whole packet in memory, every receive
\* descriptor back with the hardware and every transmit descriptor free; and
\* it finds a data error only if the zeros of memset, which no flush puts to
\* memory before the transfer, were written back over what had been stored.
VerdictIsRight ==
  /\ at = "passed" =>
       /\ good = 1 .. Words
       /\ ring["tx"] = [NoBds EXCEPT !["free"] = Bds]
       /\ ring["rx"] = [NoBds EXCEPT !["hw"] = Bds]
  /\ at = "data error" => late
=============================================================================
