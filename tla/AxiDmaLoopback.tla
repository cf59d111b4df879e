--------------------------- MODULE AxiDmaLoopback ---------------------------
(***************************************************************************)
(* projects/dma_loopback/axidma.c: a kernel module whose initialisation    *)
(* sends a buffer through an AXI DMA whose transmit channel is looped back *)
(* to its receive channel, and compares what came back.                    *)
(*                                                                         *)
(* The DMA engine of the kernel and the hardware are external: either      *)
(* channel moves its words one by one, once it is issued, and then calls   *)
(* its callback.  A word is its index in the source buffer.                *)
(***************************************************************************)
EXTENDS Naturals, Sequences

CONSTANTS
  Length,   \* words of a buffer: dma_length
  LoopSize  \* words the loop between the channels holds

ASSUME LoopbackAssumption == Length \in Nat \ {0} /\ LoopSize \in Nat \ {0}

Channels == {"tx", "rx"}

VARIABLES
  pc,         \* the next step of axidma_init, or how it ended
  alloc,      \* buffers that are allocated: of "src" and "dest"
  mapped,     \* buffers that belong to the DMA
  held,       \* channels that are requested
  submitted,  \* channels whose descriptor is submitted
  issued,     \* channels whose descriptor is issued
  cmp,        \* channels whose completion is done: tx_cmp and rx_cmp
  timedOut,   \* whether the wait ended without tx_cmp
  failed,     \* whether the comparison found a difference
  read,       \* words the transmit channel has read
  loop,       \* words between the channels
  dest        \* what the receive channel has stored in the destination

programVars == <<pc, alloc, mapped, held, submitted, timedOut, failed>>
engineVars == <<read, loop, dest>>
loopbackVars == <<programVars, issued, cmp, engineVars>>

LoopbackInit ==
  /\ pc = "request"
  /\ alloc = {} /\ mapped = {} /\ held = {}
  /\ submitted = {} /\ issued = {} /\ cmp = {}
  /\ timedOut = FALSE /\ failed = FALSE
  /\ read = 0 /\ loop = <<>> /\ dest = <<>>

Ended == {"loaded", "refused"}

----------------------------------------------------------------------------
(* axidma_init and axidma_test_transfer.                                   *)

\* A channel that was granted is not given back when the other was not.
RequestChannels(granted) ==
  /\ pc = "request"
  /\ held' = granted
  /\ pc' = IF granted = Channels THEN "alloc" ELSE "refused"
  /\ UNCHANGED <<alloc, mapped, submitted, issued, cmp, timedOut, failed, engineVars>>

\* A buffer that was got is not freed when the other was not.
Allocate(got) ==
  /\ pc = "alloc"
  /\ alloc' = got
  /\ IF got = {"src", "dest"}
     THEN mapped' = got /\ pc' = "prep rx"
     ELSE UNCHANGED mapped /\ pc' = "release"
  /\ UNCHANGED <<held, submitted, issued, cmp, timedOut, failed, engineVars>>

PrepRx(ok) ==
  /\ pc = "prep rx"
  /\ submitted' = IF ok THEN {"rx"} ELSE {}
  /\ pc' = "prep tx"
  /\ UNCHANGED <<alloc, mapped, held, issued, cmp, timedOut, failed, engineVars>>

\* The cookies are looked at after both; on an error the mapped buffers and
\* the descriptor that was submitted stay.
PrepTx(ok) ==
  /\ pc = "prep tx"
  /\ submitted' = IF ok THEN submitted \cup {"tx"} ELSE submitted
  /\ pc' = IF submitted' = Channels THEN "start rx" ELSE "release"
  /\ UNCHANGED <<alloc, mapped, held, issued, cmp, timedOut, failed, engineVars>>

\* The completion is initialised, the descriptor issued; NO_WAIT.
StartRx ==
  /\ pc = "start rx"
  /\ cmp' = cmp \ {"rx"}
  /\ issued' = issued \cup {"rx"}
  /\ pc' = "start tx"
  /\ UNCHANGED <<alloc, mapped, held, submitted, timedOut, failed, engineVars>>

\* Mutant of StartTx: NO_WAIT for the transmit channel too.
StartTxNoWait ==
  /\ pc = "start tx"
  /\ cmp' = cmp \ {"tx"}
  /\ issued' = issued \cup {"tx"}
  /\ pc' = "unmap"
  /\ UNCHANGED <<alloc, mapped, held, submitted, timedOut, failed, engineVars>>

StartTx ==
  /\ pc = "start tx"
  /\ cmp' = cmp \ {"tx"}
  /\ issued' = issued \cup {"tx"}
  /\ pc' = "wait"
  /\ UNCHANGED <<alloc, mapped, held, submitted, timedOut, failed, engineVars>>

\* The transmit channel is done, or three seconds are over.  Either way the
\* transfer is taken for finished.
WaitEnds ==
  /\ pc = "wait"
  /\ timedOut' = ("tx" \notin cmp)
  /\ pc' = "unmap"
  /\ UNCHANGED <<alloc, mapped, held, submitted, issued, cmp, failed, engineVars>>

Unmap ==
  /\ pc = "unmap"
  /\ mapped' = {}
  /\ pc' = "verify"
  /\ UNCHANGED <<alloc, held, submitted, issued, cmp, timedOut, failed, engineVars>>

\* Mutant of Verify: every word is compared with the next of the source.
VerifyShifted ==
  /\ pc = "verify"
  /\ failed' = \E i \in 1 .. Length : IF i \in DOMAIN dest THEN dest[i] # i ELSE i # 1
  /\ pc' = "free"
  /\ UNCHANGED <<alloc, mapped, held, submitted, issued, cmp, timedOut, engineVars>>

\* The destination was zeroed: a word that has not come differs, unless the
\* word of the source is the zero that is there.
Verify ==
  /\ pc = "verify"
  /\ failed' = \E i \in 1 .. Length : IF i \in DOMAIN dest THEN dest[i] # i - 1 ELSE i # 1
  /\ pc' = "free"
  /\ UNCHANGED <<alloc, mapped, held, submitted, issued, cmp, timedOut, engineVars>>

Free ==
  /\ pc = "free"
  /\ alloc' = {}
  /\ pc' = "release"
  /\ UNCHANGED <<mapped, held, submitted, issued, cmp, timedOut, failed, engineVars>>

\* Releasing a channel ends what it was doing.
Release ==
  /\ pc = "release"
  /\ held' = {}
  /\ issued' = {}
  /\ pc' = "loaded"
  /\ UNCHANGED <<alloc, mapped, submitted, cmp, timedOut, failed, engineVars>>

----------------------------------------------------------------------------
(* The channels.                                                           *)

TxMoves ==
  /\ "tx" \in issued
  /\ read < Length
  /\ Len(loop) < LoopSize
  /\ loop' = Append(loop, read)
  /\ read' = read + 1
  /\ UNCHANGED <<programVars, issued, cmp, dest>>

RxMoves ==
  /\ "rx" \in issued
  /\ loop # <<>>
  /\ dest' = Append(dest, Head(loop))
  /\ loop' = Tail(loop)
  /\ UNCHANGED <<programVars, issued, cmp, read>>

\* axidma_sync_callback
Callback(ch) ==
  /\ ch \in issued \ cmp
  /\ (ch = "tx" /\ read = Length) \/ (ch = "rx" /\ Len(dest) = Length)
  /\ cmp' = cmp \cup {ch}
  /\ UNCHANGED <<programVars, issued, engineVars>>

Returned == pc \in Ended /\ UNCHANGED loopbackVars

Program ==
  \/ \E granted \in SUBSET Channels : RequestChannels(granted)
  \/ \E got \in SUBSET {"src", "dest"} : Allocate(got)
  \/ \E ok \in BOOLEAN : PrepRx(ok) \/ PrepTx(ok)
  \/ StartRx
  \/ StartTx
  \/ WaitEnds
  \/ Unmap
  \/ Verify
  \/ Free
  \/ Release

Engine ==
  \/ TxMoves
  \/ RxMoves
  \/ \E ch \in Channels : Callback(ch)

LoopbackNext == Program \/ Engine \/ Returned

LoopbackSpec == LoopbackInit /\ [][LoopbackNext]_loopbackVars

----------------------------------------------------------------------------
LoopbackTypeOK ==
  /\ pc \in Ended \cup {"request", "alloc", "prep rx", "prep tx", "start rx", "start tx",
                        "wait", "unmap", "verify", "free", "release"}
  /\ alloc \subseteq {"src", "dest"} /\ mapped \subseteq {"src", "dest"}
  /\ held \subseteq Channels /\ submitted \subseteq Channels
  /\ issued \subseteq Channels /\ cmp \subseteq Channels
  /\ timedOut \in BOOLEAN /\ failed \in BOOLEAN
  /\ read \in 0 .. Length
  /\ loop \in Seq(0 .. Length - 1)
  /\ dest \in Seq(0 .. Length - 1)

\* The comment of step 10: when the buffers go back to the CPU, the DMA is
\* done with them; said here only of a wait that did not run into its timeout.
DmaIsDoneWithTheBuffers ==
  pc \in {"unmap", "verify", "free"} /\ ~timedOut => read = Length /\ Len(dest) = Length

\* What holds of it: without a timeout the transmit channel has read its
\* buffer to the end before it is unmapped or freed.
SourceIsDone ==
  pc \in {"unmap", "verify", "free"} /\ ~timedOut => read = Length

\* "DMA transfer failure" says nothing of the loop: it comes only when the
\* comparison was made before all words were back.
FailureIsTooEarly == [][~failed /\ failed' => Len(dest) < Length]_loopbackVars
=============================================================================
