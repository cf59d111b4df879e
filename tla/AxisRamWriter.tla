--------------------------- MODULE AxisRamWriter ---------------------------
(***************************************************************************)
(* cores/axis_ram_writer: a stream of words goes through a FIFO and out of *)
(* an AXI master as bursts that fill a ring of RAM words.                  *)
(*                                                                         *)
(* A step is one rising edge of aclk.  Its parameters are the wires the    *)
(* core samples at that edge: s_axis_tvalid, m_axi_awready, m_axi_wready   *)
(* and `late', which says whether the FIFO's almost empty flag is still    *)
(* high although enough words have come in.  The FIFO primitive and the    *)
(* AXI slave are external, and modelled from what the core relies on.      *)
(*                                                                         *)
(* Data.  The k-th word stored since the reset is the number k, so the     *)
(* FIFO is its level and the word at its head is `moved'.  An address is   *)
(* an index in the ring: the base cfg_data and the factor of 8 bytes are   *)
(* left out.                                                               *)
(***************************************************************************)
EXTENDS Integers

CONSTANTS
  Burst,             \* beats of a burst: 16, awlen = 15 and wlast at addr(3..0) = 15
  Ring,              \* words of the ring: 2^ADDR_WIDTH
  Ids,               \* burst identifiers: 2^AXI_ID_WIDTH
  FifoDepth,         \* words the FIFO holds
  AlmostEmptyOffset, \* the FIFO's ALMOST_EMPTY_OFFSET
  PorCycles,         \* clocks of the power-on reset: 11
  MaxWords,          \* bound: words stored since a reset
  Orderly            \* the slave never takes a beat before the address of its
                     \* burst, and resets come only when the bus is idle

ASSUME WriterAssumption ==
  /\ Burst \in Nat \ {0, 1}
  /\ Ring \in Nat \ {0}
  /\ Ring % Burst = 0
  /\ Ids \in Nat \ {0}
  /\ AlmostEmptyOffset \in Nat
  /\ AlmostEmptyOffset + 1 >= Burst
  /\ FifoDepth \in Nat
  /\ FifoDepth > AlmostEmptyOffset + 1
  /\ PorCycles \in Nat
  /\ MaxWords \in Nat
  /\ Orderly \in BOOLEAN

VARIABLES
  awvalid,  \* int_awvalid_reg
  wvalid,   \* int_wvalid_reg
  addr,     \* int_addr_reg
  wid,      \* int_wid_reg
  por,      \* clocks the power-on reset still lasts: reset_shreg and reset_s
  fifo,     \* words in the FIFO
  moved,    \* words the slave has taken since the reset
  slave,    \* the slave's side of the burst it is receiving
  mem       \* what the slave has written: the ring in RAM

vars == <<awvalid, wvalid, addr, wid, por, fifo, moved, slave, mem>>

NoWord == -1

Max2(a, b) == IF a >= b THEN a ELSE b

----------------------------------------------------------------------------
(* The FIFO.  In first-word-fall-through mode its output register holds a  *)
(* word that the almost empty offset does not count.                       *)

Full == fifo = FifoDepth

\* Mutant of AlmostEmpty: the word in the output register is not counted on.
AlmostEmptyOneEarly(late) == fifo <= AlmostEmptyOffset \/ late

AlmostEmpty(late) == fifo <= AlmostEmptyOffset + 1 \/ late

Head == IF fifo > 0 THEN moved ELSE NoWord

FifoAfter(wren, rden) ==
  IF por > 0 THEN 0
  ELSE Max2(fifo - (IF rden THEN 1 ELSE 0), 0) + (IF wren THEN 1 ELSE 0)

----------------------------------------------------------------------------
(* The AXI slave: it latches the address and the identifier of a burst,    *)
(* counts the beats it takes and closes the burst after Burst of them.     *)

Idle == [open |-> FALSE, start |-> 0, id |-> 0, beats |-> 0]

Opened(aw) ==
  IF aw THEN [open |-> TRUE, start |-> addr, id |-> wid, beats |-> 0] ELSE slave

SlaveAfter(aw, beat) ==
  LET s == Opened(aw)
  IN  IF ~(beat /\ s.open) THEN s
      ELSE IF s.beats = Burst - 1 THEN Idle
      ELSE [s EXCEPT !.beats = @ + 1]

RamAfter(aw, beat) ==
  LET s == Opened(aw)
  IN  IF beat /\ s.open THEN [mem EXCEPT ![(s.start + s.beats) % Ring] = Head] ELSE mem

----------------------------------------------------------------------------
(* The core's wires.                                                       *)

Wlast == addr % Burst = Burst - 1

Rden(wready) == wready /\ wvalid

Wren(tvalid) == tvalid /\ ~Full

\* Nothing is in flight and the FIFO holds enough: a first burst starts.
StartBurst(empty) == ~empty /\ ~awvalid /\ ~wvalid

\* The test the code makes for the last beat: it leaves m_axi_wvalid out.
EndBurst(wready) == wready /\ Wlast

----------------------------------------------------------------------------
Init ==
  /\ awvalid = FALSE
  /\ wvalid = FALSE
  /\ addr = 0
  /\ wid = 0
  /\ por = PorCycles
  /\ fifo = 0
  /\ moved = 0
  /\ slave = Idle
  /\ mem = [a \in 0 .. Ring - 1 |-> NoWord]

\* Mutant of AwvalidNext: no new address for a burst that follows at once.
AwvalidOnlyOnce(awready, wready, empty) ==
  \/ StartBurst(empty)
  \/ awvalid /\ ~awready

AwvalidNext(awready, wready, empty) ==
  \/ StartBurst(empty)
  \/ EndBurst(wready) /\ ~empty
  \/ awvalid /\ ~awready

\* Mutant of WvalidNext: data never starts.
WvalidNextNoStart(wready, empty) == wvalid /\ ~(EndBurst(wready) /\ empty)

WvalidNext(wready, empty) ==
  \/ StartBurst(empty)
  \/ wvalid /\ ~(EndBurst(wready) /\ empty)

\* Mutant of AddrNext: the address runs beyond the ring.
AddrNextNoWrap(wready) == IF Rden(wready) THEN addr + 1 ELSE addr

\* Mutant of AddrNext: wready alone moves the address.
AddrNextReadyOnly(wready) == IF wready THEN (addr + 1) % Ring ELSE addr

AddrNext(wready) == IF Rden(wready) THEN (addr + 1) % Ring ELSE addr

\* Mutant of WidNext: the identifier changes with the first beat.
WidNextOnFirst(wready) ==
  IF Rden(wready) /\ addr % Burst = 0 THEN (wid + 1) % Ids ELSE wid

WidNext(wready) == IF EndBurst(wready) THEN (wid + 1) % Ids ELSE wid

\* An edge of aclk with aresetn high.
ClockEdge(tvalid, awready, wready, late) ==
  LET empty == AlmostEmpty(late)
      aw    == awvalid /\ awready
      beat  == Rden(wready)
  IN  /\ Orderly /\ beat => slave.open \/ aw
      /\ moved + fifo >= MaxWords => ~tvalid
      /\ awvalid' = AwvalidNext(awready, wready, empty)
      /\ wvalid' = WvalidNext(wready, empty)
      /\ addr' = AddrNext(wready)
      /\ wid' = WidNext(wready)
      /\ por' = Max2(por - 1, 0)
      /\ fifo' = FifoAfter(Wren(tvalid), beat)
      /\ moved' = IF beat THEN moved + 1 ELSE moved
      /\ slave' = SlaveAfter(aw, beat)
      /\ mem' = RamAfter(aw, beat)

\* An edge of aclk with aresetn low: it clears the registers and the FIFO.
\* The slave keeps its burst; words are counted anew, so that what RAM holds
\* from before is no word of the stream.
ResetEdge ==
  /\ Orderly => ~awvalid /\ ~wvalid
  /\ awvalid' = FALSE
  /\ wvalid' = FALSE
  /\ addr' = 0
  /\ wid' = 0
  /\ por' = Max2(por - 1, 0)
  /\ fifo' = 0
  /\ moved' = 0
  /\ mem' = [a \in 0 .. Ring - 1 |-> NoWord]
  /\ UNCHANGED slave

Next ==
  \/ ResetEdge
  \/ \E tvalid, awready, wready, late \in BOOLEAN : ClockEdge(tvalid, awready, wready, late)

(***************************************************************************)
(* aclk never stops; the FIFO's flag goes low in the end once the words    *)
(* are there; the slave accepts a pending address and a pending beat in    *)
(* the end.  Nothing is assumed of the source or of resets.                *)
(***************************************************************************)
Fairness ==
  /\ WF_vars(\E t, a, w \in BOOLEAN : ClockEdge(t, a, w, FALSE))
  /\ WF_vars(\E t, w, l \in BOOLEAN : ClockEdge(t, TRUE, w, l))
  /\ WF_vars(\E t, a, l \in BOOLEAN : ClockEdge(t, a, TRUE, l))

Spec == Init /\ [][Next]_vars

FairSpec == Spec /\ Fairness

----------------------------------------------------------------------------
TypeOK ==
  /\ awvalid \in BOOLEAN
  /\ wvalid \in BOOLEAN
  /\ addr \in 0 .. Ring - 1
  /\ wid \in 0 .. Ids - 1
  /\ por \in 0 .. PorCycles
  /\ fifo \in 0 .. FifoDepth
  /\ moved \in Nat
  /\ slave \in [open : BOOLEAN, start : 0 .. Ring - 1, id : 0 .. Ids - 1, beats : 0 .. Burst - 1]
  /\ mem \in [0 .. Ring - 1 -> Nat \cup {NoWord}]

\* A burst, once started, never runs out of words: the core pops its FIFO
\* without looking at EMPTY, and the words the almost empty flag saw at the
\* last beat of the burst before must last to the end of this one.
BurstNeverStarves ==
  IF wvalid THEN fifo >= Burst - (addr % Burst) ELSE addr % Burst = 0

\* The core and the slave count the beats of a burst on their own (wlast from
\* the address, the slave from the handshakes) and agree: the slave writes
\* where sts_data says, under the identifier of the burst.
BurstMatchesAddress ==
  slave.open => /\ wvalid
                /\ addr = slave.start + slave.beats
                /\ slave.start % Burst = 0
                /\ wid = slave.id

\* Every burst of data has one address and every address one burst: while
\* data is pending, its address is either still offered or was accepted, never
\* both, and an address is offered only for the burst whose first beat is
\* pending.
OneAddressPerBurst ==
  /\ wvalid => (awvalid <=> ~slave.open)
  /\ awvalid => wvalid /\ addr % Burst = 0

\* The core implements a ring log: the status register is its position, the
\* slave's writes its ring, and each beat taken appends the next word of the
\* stream, whatever the stalls of the bus and of the source.
Log == INSTANCE RingLog WITH Size <- Ring, position <- addr, count <- moved, ram <- mem

ImplementsRingLog == Log!LogSpec

\* What the program reads: the last Ring words are at the indices the status
\* register counts.
RamHoldsStream == Log!HoldsStream

\* A FIFO that holds more than a burst is emptied: the words do not stay
\* behind once the almost empty threshold is passed, unless a reset comes.
WordsMoveOn ==
  \A n \in 0 .. MaxWords :
    (moved = n /\ fifo > AlmostEmptyOffset + 1) ~> (moved = n + 1 \/ fifo = 0)
============================================================================
