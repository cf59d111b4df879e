------------------------ MODULE AxisRamWriterProofs ------------------------
(***************************************************************************)
(* The RAM writer for every burst length, ring, FIFO and identifier width: *)
(* bursts never starve whatever the slave does, and with an orderly bus    *)
(* the core implements the ring log.                                       *)
(***************************************************************************)
EXTENDS AxisRamWriter, ModLemmas

\* The FIFO is empty as long as the power-on reset holds it.
ResetHoldsFifo == por > 0 => fifo = 0

\* What holds on any bus.
FlowInv == TypeOK /\ BurstNeverStarves /\ ResetHoldsFifo

\* What an orderly bus adds.
BusInv == BurstMatchesAddress /\ OneAddressPerBurst

----------------------------------------------------------------------------
\* The low bits of the address count the beats, across the wrap of the ring.
LEMMA NextAddress ==
  ASSUME NEW a \in 0 .. Ring - 1
  PROVE  /\ (a + 1) % Ring \in 0 .. Ring - 1
         /\ ((a + 1) % Ring) % Burst =
               IF a % Burst = Burst - 1 THEN 0 ELSE (a % Burst) + 1
         /\ a % Burst # Burst - 1 => (a + 1) % Ring = a + 1
<1> USE WriterAssumption
<1>1. /\ a \in Nat /\ a + 1 \in Nat
      /\ Burst \in Nat \ {0} /\ Ring \in Nat \ {0} /\ Ring % Burst = 0
  OBVIOUS
<1>2. (a + 1) % Ring \in 0 .. Ring - 1
  BY <1>1, DivMod
<1>3. ((a + 1) % Ring) % Burst = (a + 1) % Burst
  BY <1>1, ModOfMod
<1>4. (a + 1) % Burst = IF a % Burst = Burst - 1 THEN 0 ELSE (a % Burst) + 1
  BY <1>1, ModSucc
<1>5. ASSUME a % Burst # Burst - 1
      PROVE  (a + 1) % Ring = a + 1
  <2>1. a % Burst \in Nat
    BY <1>1, DivMod
  <2>2. a + 1 # Ring
    BY <1>4, <1>5, <2>1
  <2> QED
    BY <2>2, ModSmall
<1> QED
  BY <1>2, <1>3, <1>4, <1>5

LEMMA InitFlow == Init => FlowInv
<1> SUFFICES ASSUME Init PROVE FlowInv
  OBVIOUS
<1>1. 0 % Burst = 0
  BY ModSmall, WriterAssumption
<1>2. TypeOK
  <2>1. Idle \in [open : BOOLEAN, start : 0 .. Ring - 1, id : 0 .. Ids - 1, beats : 0 .. Burst - 1]
    BY WriterAssumption DEF Idle
  <2>2. [a \in 0 .. Ring - 1 |-> NoWord] \in [0 .. Ring - 1 -> Nat \cup {NoWord}]
    OBVIOUS
  <2>3. 0 \in 0 .. Ring - 1 /\ 0 \in 0 .. Ids - 1 /\ PorCycles \in 0 .. PorCycles /\ 0 \in 0 .. FifoDepth
    BY WriterAssumption
  <2> QED
    BY <2>1, <2>2, <2>3, Zenon DEF Init, TypeOK
<1> QED
  BY <1>1, <1>2, Zenon DEF Init, FlowInv, BurstNeverStarves, ResetHoldsFifo

LEMMA ResetFlow ==
  ASSUME FlowInv, ResetEdge
  PROVE  FlowInv'
<1>1. 0 % Burst = 0
  BY ModSmall, WriterAssumption
<1>2. TypeOK'
  <2>1. [a \in 0 .. Ring - 1 |-> NoWord] \in [0 .. Ring - 1 -> Nat \cup {NoWord}]
    OBVIOUS
  <2>2. 0 \in 0 .. Ring - 1 /\ 0 \in 0 .. Ids - 1 /\ 0 \in 0 .. FifoDepth
    BY WriterAssumption
  <2>3. por' \in 0 .. PorCycles
    BY WriterAssumption DEF ResetEdge, FlowInv, TypeOK, Max2
  <2> QED
    BY <2>1, <2>2, <2>3, Zenon DEF ResetEdge, FlowInv, TypeOK
<1> QED
  BY <1>1, <1>2, Zenon DEF ResetEdge, FlowInv, BurstNeverStarves, ResetHoldsFifo

----------------------------------------------------------------------------
LEMMA SlaveType ==
  ASSUME TypeOK, NEW aw \in BOOLEAN, NEW beat \in BOOLEAN
  PROVE  /\ SlaveAfter(aw, beat) \in
              [open : BOOLEAN, start : 0 .. Ring - 1, id : 0 .. Ids - 1, beats : 0 .. Burst - 1]
         /\ RamAfter(aw, beat) \in [0 .. Ring - 1 -> Nat \cup {NoWord}]
<1> USE WriterAssumption
<1> DEFINE S == [open : BOOLEAN, start : 0 .. Ring - 1, id : 0 .. Ids - 1, beats : 0 .. Burst - 1]
<1>1. Opened(aw) \in S
  BY DEF TypeOK, Opened
<1>2. Idle \in S
  BY DEF Idle
<1>3. ASSUME Opened(aw).beats # Burst - 1
      PROVE  [Opened(aw) EXCEPT !.beats = @ + 1] \in S
  BY <1>1, <1>3
<1>4. SlaveAfter(aw, beat) \in S
  BY <1>1, <1>2, <1>3 DEF SlaveAfter
<1>5. (Opened(aw).start + Opened(aw).beats) % Ring \in 0 .. Ring - 1
  <2>1. Opened(aw).start + Opened(aw).beats \in Nat
    BY <1>1
  <2> QED
    BY <2>1, DivMod
<1>6. Head \in Nat \cup {NoWord}
  BY DEF Head, TypeOK
<1>7. RamAfter(aw, beat) \in [0 .. Ring - 1 -> Nat \cup {NoWord}]
  BY <1>5, <1>6 DEF RamAfter, TypeOK
<1> QED
  BY <1>4, <1>7

\* The core's registers and the FIFO after an edge, without the slave.
LEMMA EdgeFlow ==
  ASSUME FlowInv,
         NEW tvalid \in BOOLEAN, NEW awready \in BOOLEAN,
         NEW wready \in BOOLEAN, NEW late \in BOOLEAN,
         ClockEdge(tvalid, awready, wready, late)
  PROVE  FlowInv'
<1> USE WriterAssumption
<1>t. TypeOK /\ addr \in Nat /\ wid \in Nat /\ addr % Burst \in 0 .. Burst - 1
  <2>1. TypeOK /\ addr \in Nat /\ wid \in Nat /\ Burst \in Nat \ {0}
    BY DEF FlowInv, TypeOK
  <2> QED
    BY <2>1, DivMod
<1>n. /\ (addr + 1) % Ring \in 0 .. Ring - 1
      /\ ((addr + 1) % Ring) % Burst =
            IF addr % Burst = Burst - 1 THEN 0 ELSE (addr % Burst) + 1
  BY NextAddress DEF FlowInv, TypeOK
<1>w. (wid + 1) % Ids \in 0 .. Ids - 1
  BY <1>t, DivMod
<1>1. TypeOK'
  <2>1. awvalid' \in BOOLEAN /\ wvalid' \in BOOLEAN
    BY <1>t DEF ClockEdge, AwvalidNext, WvalidNext, StartBurst, EndBurst, Wlast, AlmostEmpty, TypeOK
  <2>2. addr' \in 0 .. Ring - 1 /\ wid' \in 0 .. Ids - 1
    BY <1>t, <1>n, <1>w DEF ClockEdge, AddrNext, WidNext, TypeOK
  <2>3. por' \in 0 .. PorCycles /\ fifo' \in 0 .. FifoDepth /\ moved' \in Nat
    BY <1>t DEF ClockEdge, TypeOK, FifoAfter, Max2, Wren, Full
  <2>4. /\ slave' \in [open : BOOLEAN, start : 0 .. Ring - 1, id : 0 .. Ids - 1, beats : 0 .. Burst - 1]
        /\ mem' \in [0 .. Ring - 1 -> Nat \cup {NoWord}]
    <3>1. (awvalid /\ awready) \in BOOLEAN /\ Rden(wready) \in BOOLEAN
      BY <1>t DEF TypeOK, Rden
    <3> QED
      BY <1>t, <3>1, SlaveType DEF ClockEdge
  <2> QED
    BY <2>1, <2>2, <2>3, <2>4 DEF TypeOK
<1>2. ResetHoldsFifo'
  BY <1>t DEF ClockEdge, ResetHoldsFifo, FifoAfter, Max2, FlowInv, TypeOK
<1>3. BurstNeverStarves'
  <2> DEFINE empty == AlmostEmpty(late)
  <2>1. CASE StartBurst(empty)
    <3>1. /\ fifo >= Burst /\ por = 0 /\ addr % Burst = 0
          /\ addr' = addr /\ wvalid' /\ fifo' >= fifo
      BY <1>t, <2>1 DEF StartBurst, AlmostEmpty, FlowInv, TypeOK, BurstNeverStarves,
           ResetHoldsFifo, ClockEdge, AddrNext, Rden, WvalidNext, FifoAfter, Max2
    <3>2. addr' % Burst = 0 /\ fifo' \in Nat /\ fifo' >= Burst
      BY <1>1, <1>t, <3>1 DEF TypeOK
    <3> QED
      BY <3>1, <3>2 DEF BurstNeverStarves
  <2>2. CASE ~StartBurst(empty) /\ ~wvalid
    BY <2>2 DEF FlowInv, BurstNeverStarves, ClockEdge, WvalidNext, AddrNext, Rden
  <2>3. CASE wvalid /\ ~wready
    <3>1. por = 0 /\ addr' = addr /\ wvalid' /\ fifo' >= fifo
      BY <1>t, <2>3 DEF FlowInv, BurstNeverStarves, ResetHoldsFifo, TypeOK, ClockEdge,
           WvalidNext, EndBurst, AddrNext, Rden, FifoAfter, Max2
    <3>2. fifo >= Burst - (addr % Burst) /\ addr' % Burst = addr % Burst
      BY <2>3, <3>1 DEF FlowInv, BurstNeverStarves
    <3>3. fifo \in Nat /\ fifo' \in Nat /\ addr % Burst \in Nat
      BY <1>1, <1>t DEF TypeOK
    <3>4. fifo' >= Burst - (addr' % Burst)
      BY <3>1, <3>2, <3>3
    <3> QED
      BY <3>1, <3>4 DEF BurstNeverStarves
  <2>4. CASE wvalid /\ wready /\ Wlast
    <3>1. addr' % Burst = 0
      BY <1>n, <2>4 DEF ClockEdge, AddrNext, Rden, Wlast
    <3>2. ASSUME wvalid' PROVE fifo' >= Burst
      <4>1. ~empty
        BY <2>4, <3>2 DEF ClockEdge, WvalidNext, StartBurst, EndBurst
      <4>2. fifo >= Burst + 1 /\ por = 0
        BY <1>t, <4>1 DEF AlmostEmpty, FlowInv, ResetHoldsFifo, TypeOK
      <4> QED
        BY <1>t, <4>2 DEF ClockEdge, FifoAfter, Max2, TypeOK
    <3>3. fifo' \in Nat
      BY <1>1 DEF TypeOK
    <3>4. wvalid' => fifo' >= Burst - (addr' % Burst)
      BY <3>1, <3>2, <3>3
    <3> QED
      BY <3>1, <3>4 DEF BurstNeverStarves
  <2>5. CASE wvalid /\ wready /\ ~Wlast
    <3>1. /\ wvalid'
          /\ addr' % Burst = (addr % Burst) + 1
      BY <1>n, <2>5 DEF ClockEdge, WvalidNext, EndBurst, AddrNext, Rden, Wlast
    <3>2. fifo >= Burst - (addr % Burst) /\ por = 0 /\ fifo >= 1
      BY <1>t, <2>5 DEF FlowInv, BurstNeverStarves, ResetHoldsFifo, TypeOK
    <3>3. fifo' >= fifo - 1
      BY <1>t, <3>2 DEF ClockEdge, FifoAfter, Max2, TypeOK
    <3>4. fifo \in Nat /\ fifo' \in Nat /\ addr % Burst \in Nat
      BY <1>1, <1>t DEF TypeOK
    <3>5. fifo' >= Burst - (addr' % Burst)
      BY <3>1, <3>2, <3>3, <3>4
    <3> QED
      BY <3>1, <3>5 DEF BurstNeverStarves
  <2> QED
    BY <1>t, <2>1, <2>2, <2>3, <2>4, <2>5 DEF TypeOK
<1> QED
  BY <1>1, <1>2, <1>3 DEF FlowInv

LEMMA FlowStep == FlowInv /\ [Next]_vars => FlowInv'
<1> SUFFICES ASSUME FlowInv, [Next]_vars PROVE FlowInv'
  OBVIOUS
<1>1. CASE ResetEdge
  BY <1>1, ResetFlow
<1>2. CASE \E tvalid, awready, wready, late \in BOOLEAN : ClockEdge(tvalid, awready, wready, late)
  BY <1>2, EdgeFlow
<1>3. CASE UNCHANGED vars
  BY <1>3 DEF vars, FlowInv, TypeOK, BurstNeverStarves, ResetHoldsFifo
<1> QED
  BY <1>1, <1>2, <1>3 DEF Next

\* Every reachable state has its type, on any bus.
THEOREM WriterTypeOK == Spec => []TypeOK
BY InitFlow, FlowStep, PTL DEF Spec, FlowInv

\* A started burst never runs out of words, whatever the slave does and
\* whenever a reset comes: the almost empty flag leaves a whole burst.
THEOREM WriterBurstNeverStarves == Spec => []BurstNeverStarves
BY InitFlow, FlowStep, PTL DEF Spec, FlowInv

----------------------------------------------------------------------------
(* The orderly bus.                                                        *)

\* The burst the slave has open at an edge: the one it had, or the one whose
\* address it accepts.  Its next beat goes where the core's address points.
LEMMA OpenBurst ==
  ASSUME FlowInv, BusInv, NEW aw \in BOOLEAN, aw => awvalid, Opened(aw).open
  PROVE  /\ wvalid
         /\ Opened(aw) \in [open : BOOLEAN, start : 0 .. Ring - 1, id : 0 .. Ids - 1, beats : 0 .. Burst - 1]
         /\ addr = Opened(aw).start + Opened(aw).beats
         /\ Opened(aw).start % Burst = 0
         /\ Opened(aw).id = wid
         /\ addr % Burst = Opened(aw).beats
<1> USE WriterAssumption
<1> DEFINE s == Opened(aw)
<1>1. s \in [open : BOOLEAN, start : 0 .. Ring - 1, id : 0 .. Ids - 1, beats : 0 .. Burst - 1]
  BY DEF FlowInv, TypeOK, Opened
<1>2. wvalid /\ addr = s.start + s.beats /\ s.start % Burst = 0 /\ s.id = wid
  <2>1. CASE aw
    <3>1. s.start = addr /\ s.beats = 0 /\ s.id = wid
      BY <2>1 DEF Opened
    <3>2. addr \in Nat
      BY DEF FlowInv, TypeOK
    <3>3. wvalid /\ addr % Burst = 0
      BY <2>1 DEF BusInv, OneAddressPerBurst
    <3> QED
      BY <3>1, <3>2, <3>3
  <2>2. CASE ~aw
    <3>1. s = slave
      BY <2>2 DEF Opened
    <3> QED
      BY <3>1, Zenon DEF BusInv, BurstMatchesAddress
  <2> QED
    BY <2>1, <2>2
<1>3. addr % Burst = s.beats
  <2>1. s.start = Burst * (s.start \div Burst) + 0 /\ s.start \div Burst \in Nat
    <3>1. s.start \in Nat /\ Burst \in Nat \ {0}
      BY <1>1
    <3> HIDE DEF s
    <3>2. s.start = Burst * (s.start \div Burst) + (s.start % Burst) /\ s.start \div Burst \in Nat
      BY <3>1, DivMod
    <3> QED
      BY <3>2, <1>2
  <2>2. (Burst * (s.start \div Burst) + s.beats) % Burst = s.beats
    <3>1. s.beats \in 0 .. Burst - 1 /\ Burst \in Nat \ {0}
      BY <1>1
    <3> QED
      BY <2>1, <3>1, ModUnique
  <2> QED
    BY <1>1, <1>2, <2>1, <2>2
<1> QED
  BY <1>1, <1>2, <1>3

LEMMA InitBus == Init => BusInv
<1> SUFFICES ASSUME Init PROVE BusInv
  OBVIOUS
<1>1. ~slave.open
  BY DEF Init, Idle
<1> QED
  BY <1>1 DEF Init, BusInv, BurstMatchesAddress, OneAddressPerBurst

LEMMA ResetBus ==
  ASSUME Orderly, FlowInv, BusInv, ResetEdge
  PROVE  BusInv'
<1>1. ~wvalid /\ ~slave.open
  BY DEF ResetEdge, BusInv, BurstMatchesAddress
<1> QED
  BY <1>1 DEF ResetEdge, BusInv, BurstMatchesAddress, OneAddressPerBurst

\* The slave after an edge, told from the handshakes and the last beat.
LEMMA SlaveStep ==
  ASSUME FlowInv, BusInv, NEW aw \in BOOLEAN, NEW beat \in BOOLEAN,
         aw => awvalid, beat => Opened(aw).open, beat => wvalid
  PROVE  /\ beat /\ Wlast => SlaveAfter(aw, beat) = Idle
         /\ beat /\ ~Wlast => SlaveAfter(aw, beat) = [Opened(aw) EXCEPT !.beats = @ + 1]
         /\ ~beat => SlaveAfter(aw, beat) = Opened(aw)
         /\ beat => RamAfter(aw, beat) = [mem EXCEPT ![addr] = moved]
         /\ ~beat => RamAfter(aw, beat) = mem
<1> USE WriterAssumption
<1>1. CASE ~beat
  BY <1>1 DEF SlaveAfter, RamAfter
<1>2. CASE beat
  <2>1. /\ wvalid
        /\ addr = Opened(aw).start + Opened(aw).beats
        /\ addr % Burst = Opened(aw).beats
    BY <1>2, OpenBurst
  <2>2. Wlast <=> Opened(aw).beats = Burst - 1
    BY <2>1 DEF Wlast
  <2>3. (Opened(aw).start + Opened(aw).beats) % Ring = addr
    <3>1. addr \in 0 .. Ring - 1 /\ Ring \in Nat \ {0}
      BY DEF FlowInv, TypeOK
    <3> QED
      BY <2>1, <3>1, ModSmall
  <2>4. Head = moved
    <3>1. addr % Burst \in 0 .. Burst - 1
      <4>1. addr \in Nat /\ Burst \in Nat \ {0}
        BY DEF FlowInv, TypeOK
      <4> QED
        BY <4>1, DivMod
    <3>2. fifo >= Burst - (addr % Burst) /\ fifo \in Nat
      BY <2>1 DEF FlowInv, BurstNeverStarves, TypeOK
    <3>3. fifo > 0
      BY <3>1, <3>2
    <3> QED
      BY <3>3 DEF Head
  <2>5. beat /\ Opened(aw).open
    BY <1>2
  <2>6. SlaveAfter(aw, beat) = IF Wlast THEN Idle ELSE [Opened(aw) EXCEPT !.beats = @ + 1]
    BY <2>2, <2>5 DEF SlaveAfter
  <2>7. RamAfter(aw, beat) = [mem EXCEPT ![addr] = moved]
    BY <2>3, <2>4, <2>5, Zenon DEF RamAfter
  <2>8. CASE Wlast
    BY <1>2, <2>6, <2>7, <2>8
  <2>9. CASE ~Wlast
    BY <1>2, <2>6, <2>7, <2>9, Zenon
  <2> QED
    BY <2>8, <2>9
<1> QED
  BY <1>1, <1>2

LEMMA EdgeBus ==
  ASSUME Orderly, FlowInv, BusInv,
         NEW tvalid \in BOOLEAN, NEW awready \in BOOLEAN,
         NEW wready \in BOOLEAN, NEW late \in BOOLEAN,
         ClockEdge(tvalid, awready, wready, late)
  PROVE  BusInv'
<1> USE WriterAssumption
<1> DEFINE aw == awvalid /\ awready
           beat == Rden(wready)
           s == Opened(aw)
           empty == AlmostEmpty(late)
<1>t. /\ TypeOK /\ aw \in BOOLEAN /\ beat \in BOOLEAN /\ empty \in BOOLEAN
      /\ addr \in 0 .. Ring - 1
  BY DEF FlowInv, TypeOK, Rden, AlmostEmpty
<1>o. beat => s.open
  BY DEF ClockEdge, Opened
<1>s. /\ beat /\ Wlast => slave' = Idle
      /\ beat /\ ~Wlast => slave' = [s EXCEPT !.beats = @ + 1]
      /\ ~beat => slave' = s
  <2>1. slave' = SlaveAfter(aw, beat)
    BY DEF ClockEdge
  <2>2. (aw => awvalid) /\ (beat => wvalid)
    BY DEF Rden
  <2> HIDE DEF aw, beat, s
  <2> QED
    BY <1>t, <1>o, <2>1, <2>2, SlaveStep DEF s
<1>r. /\ awvalid' = AwvalidNext(awready, wready, empty)
      /\ wvalid' = WvalidNext(wready, empty)
      /\ addr' = AddrNext(wready)
      /\ wid' = WidNext(wready)
  BY DEF ClockEdge
<1>i. /\ ~wvalid => ~awvalid /\ ~slave.open /\ addr % Burst = 0
      /\ wvalid => (awvalid <=> ~slave.open)
      /\ awvalid => addr % Burst = 0
  BY Zenon DEF FlowInv, BusInv, OneAddressPerBurst, BurstMatchesAddress, BurstNeverStarves
<1>z. 0 # Burst - 1
  OBVIOUS
<1>1. CASE ~wvalid
  <2>1. ~beat /\ ~aw /\ s = slave /\ slave' = slave /\ ~slave'.open
    BY <1>1, <1>i, <1>s DEF Rden, Opened
  <2>2. addr' % Burst = 0 /\ ~EndBurst(wready)
    BY <1>1, <1>r, <1>i, <1>z DEF AddrNext, EndBurst, Wlast, Rden
  <2>3. awvalid' <=> wvalid'
    BY <1>1, <1>r, <1>i, <2>2 DEF AwvalidNext, WvalidNext
  <2> QED
    BY <2>1, <2>2, <2>3 DEF BusInv, BurstMatchesAddress, OneAddressPerBurst
<1>2. CASE wvalid /\ ~beat
  <2>1. /\ ~wready /\ slave' = s /\ wvalid' /\ addr' = addr /\ wid' = wid
        /\ awvalid' <=> (awvalid /\ ~awready)
    BY <1>2, <1>s, <1>r DEF Rden, AwvalidNext, WvalidNext, AddrNext, WidNext, EndBurst, StartBurst
  <2>2. s.open <=> ~awvalid'
    BY <1>2, <1>i, <2>1 DEF Opened
  <2>3. s.open => addr = s.start + s.beats /\ s.start % Burst = 0 /\ s.id = wid
    <3>1. aw => awvalid
      OBVIOUS
    <3> HIDE DEF aw
    <3> QED
      BY <1>t, <3>1, OpenBurst
  <2> QED
    BY <1>i, <2>1, <2>2, <2>3 DEF BusInv, BurstMatchesAddress, OneAddressPerBurst
<1>3. CASE beat /\ Wlast
  <2>1. ~awvalid /\ wready /\ wvalid
    BY <1>3, <1>i, <1>z DEF Wlast, Rden
  <2>2. ~slave'.open
    BY <1>3, <1>s DEF Idle
  <2>3. addr' % Burst = 0
    BY <1>3, <1>r, <1>t, NextAddress DEF AddrNext, Wlast
  <2>4. (awvalid' <=> ~empty) /\ (wvalid' <=> ~empty)
    BY <1>3, <2>1, <1>r DEF AwvalidNext, WvalidNext, EndBurst, StartBurst
  <2> QED
    BY <2>2, <2>3, <2>4 DEF BusInv, BurstMatchesAddress, OneAddressPerBurst
<1>4. CASE beat /\ ~Wlast
  <2>1. s.open
    BY <1>4, <1>o
  <2>2. /\ wvalid /\ addr = s.start + s.beats /\ s.start % Burst = 0 /\ s.id = wid
        /\ s \in [open : BOOLEAN, start : 0 .. Ring - 1, id : 0 .. Ids - 1, beats : 0 .. Burst - 1]
    <3>1. aw => awvalid
      OBVIOUS
    <3> HIDE DEF aw
    <3> QED
      BY <1>t, <2>1, <3>1, OpenBurst
  <2>3. addr' = addr + 1
    BY <1>4, <1>r, <1>t, NextAddress DEF AddrNext, Wlast
  <2>4. wvalid' /\ wid' = wid /\ ~awvalid'
    BY <1>4, <1>r, <1>i, <2>1, <2>2 DEF AwvalidNext, WvalidNext, WidNext, EndBurst, StartBurst, Opened
  <2>5. slave' = [s EXCEPT !.beats = @ + 1]
    BY <1>4, <1>s
  <2>6. /\ slave'.open /\ slave'.start = s.start /\ slave'.id = s.id
        /\ slave'.beats = s.beats + 1
    <3> HIDE DEF s
    <3> QED
      BY <2>1, <2>2, <2>5
  <2> HIDE DEF s
  <2>7. addr' = slave'.start + slave'.beats
    BY <2>2, <2>3, <2>6
  <2> QED
    BY <2>2, <2>4, <2>6, <2>7 DEF BusInv, BurstMatchesAddress, OneAddressPerBurst
<1> QED
  BY <1>1, <1>2, <1>3, <1>4, <1>t

LEMMA BusStep ==
  ASSUME Orderly
  PROVE  FlowInv /\ BusInv /\ [Next]_vars => BusInv'
<1> SUFFICES ASSUME FlowInv, BusInv, [Next]_vars PROVE BusInv'
  OBVIOUS
<1>1. CASE ResetEdge
  BY <1>1, ResetBus
<1>2. CASE \E tvalid, awready, wready, late \in BOOLEAN : ClockEdge(tvalid, awready, wready, late)
  BY <1>2, EdgeBus
<1>3. CASE UNCHANGED vars
  BY <1>3 DEF vars, BusInv, BurstMatchesAddress, OneAddressPerBurst
<1> QED
  BY <1>1, <1>2, <1>3 DEF Next

\* On an orderly bus the slave's count of beats and the core's address never
\* part, and addresses and bursts go one to one.
THEOREM WriterBusInv ==
  ASSUME Orderly
  PROVE  Spec => [](BurstMatchesAddress /\ OneAddressPerBurst)
<1>1. FlowInv /\ BusInv /\ [Next]_vars => BusInv'
  BY BusStep
<1> QED
  BY InitFlow, InitBus, FlowStep, <1>1, PTL DEF Spec, BusInv

\* axis_ram_writer.vhd:157: the address a burst was announced with is the one
\* its words are counted from, though awaddr is the live register.
THEOREM WriterBurstMatches ==
  ASSUME Orderly
  PROVE  Spec => []BurstMatchesAddress
BY WriterBusInv, PTL

\* axis_ram_writer.vhd:142: no address is seen for two bursts, nor two for one.
THEOREM WriterOneAddress ==
  ASSUME Orderly
  PROVE  Spec => []OneAddressPerBurst
BY WriterBusInv, PTL

----------------------------------------------------------------------------
(* The refinement.                                                         *)

LEMMA StepIsLogStep ==
  ASSUME Orderly, FlowInv, BusInv, [Next]_vars
  PROVE  [Log!LogNext]_<<addr, moved, mem>>
<1>1. CASE ResetEdge
  <2>1. Log!ClearLog
    BY <1>1, Zenon DEF ResetEdge, Log!ClearLog, NoWord, Log!NoWord
  <2> QED
    BY <2>1 DEF Log!LogNext
<1>2. ASSUME NEW tvalid \in BOOLEAN, NEW awready \in BOOLEAN,
             NEW wready \in BOOLEAN, NEW late \in BOOLEAN,
             ClockEdge(tvalid, awready, wready, late)
      PROVE  [Log!LogNext]_<<addr, moved, mem>>
  <2> DEFINE aw == awvalid /\ awready
             beat == Rden(wready)
  <2>1. /\ aw \in BOOLEAN /\ beat \in BOOLEAN
        /\ aw => awvalid
        /\ beat => wvalid
        /\ beat => Opened(aw).open
    BY <1>2 DEF FlowInv, TypeOK, Rden, ClockEdge, Opened
  <2>2. /\ addr' = IF beat THEN (addr + 1) % Ring ELSE addr
        /\ moved' = IF beat THEN moved + 1 ELSE moved
        /\ mem' = RamAfter(aw, beat)
    BY <1>2 DEF ClockEdge, AddrNext
  <2> HIDE DEF aw, beat
  <2>3. mem' = IF beat THEN [mem EXCEPT ![addr] = moved] ELSE mem
    BY <2>1, <2>2, SlaveStep
  <2>4. CASE beat
    BY <2>2, <2>3, <2>4 DEF Log!LogNext, Log!AppendWord
  <2>5. CASE ~beat
    BY <2>2, <2>3, <2>5
  <2> QED
    BY <2>4, <2>5
<1>3. CASE UNCHANGED vars
  BY <1>3 DEF vars
<1> QED
  BY <1>1, <1>2, <1>3 DEF Next

\* The core implements the ring log: whatever the stalls of the source, of
\* the address channel and of the data channel, a step of it appends the next
\* word at the status position, clears the log, or changes nothing of it.
THEOREM WriterImplementsRingLog ==
  ASSUME Orderly
  PROVE  Spec => ImplementsRingLog
<1>1. Init => Log!LogInit
  BY DEF Init, Log!LogInit, NoWord, Log!NoWord
<1>2. FlowInv /\ BusInv /\ [Next]_vars => BusInv' /\ [Log!LogNext]_(Log!logVars)
  BY BusStep, StepIsLogStep DEF Log!logVars
<1> QED
  BY InitFlow, InitBus, FlowStep, <1>1, <1>2, PTL DEF Spec, ImplementsRingLog, Log!LogSpec

\* The ring log keeps the end of the stream, step by step.
LogInv == Log!LogTypeOK /\ Log!HoldsStream

LEMMA LogStepInv ==
  ASSUME LogInv, [Log!LogNext]_(Log!logVars)
  PROVE  LogInv'
<1> USE WriterAssumption DEF LogInv, Log!LogTypeOK, Log!HoldsStream
<1>1. CASE Log!AppendWord
  <2> USE <1>1 DEF Log!AppendWord
  <2>1. addr' = moved' % Ring
    BY RingNext
  <2>2. addr' \in 0 .. Ring - 1
    BY DivMod
  <2>3. \A k \in 0 .. moved : k >= moved + 1 - Ring => mem'[k % Ring] = k
    <3>1. \A k \in 0 .. moved : k >= moved + 1 - Ring =>
            [mem EXCEPT ![moved % Ring] = moved][k % Ring] = k
      <4>1. /\ Ring \in Nat \ {0} /\ moved \in Nat
            /\ mem \in [0 .. Ring - 1 -> Int]
            /\ \A k \in 0 .. moved - 1 : k >= moved - Ring => mem[k % Ring] = k
        BY DEF Log!NoWord
      <4> HIDE DEF LogInv, Log!LogTypeOK, Log!HoldsStream
      <4> QED
        BY <4>1, RingAppend
    <3> QED
      BY <3>1
  <2>4. mem' \in [0 .. Ring - 1 -> Nat \cup {Log!NoWord}] /\ moved' \in Nat
    OBVIOUS
  <2>5. Log!HoldsStream'
    <3>1. moved' = moved + 1 /\ moved \in Nat /\ Ring \in Nat
      OBVIOUS
    <3> HIDE <1>1 DEF LogInv, Log!LogTypeOK, Log!AppendWord
    <3>2. \A k \in 0 .. moved' - 1 : k >= moved' - Ring => mem'[k % Ring] = k
      BY <2>3, <3>1
    <3> QED
      BY <2>1, <3>2
  <2> QED
    BY <2>2, <2>4, <2>5
<1>2. CASE Log!ClearLog
  <2>1. 0 % Ring = 0
    BY ModSmall
  <2> QED
    BY <1>2, <2>1 DEF Log!ClearLog, Log!NoWord
<1>3. CASE UNCHANGED Log!logVars
  BY <1>3 DEF Log!logVars
<1> QED
  BY <1>1, <1>2, <1>3 DEF Log!LogNext

\* What the program reads in RAM is the end of the stream, in order.
THEOREM WriterRamHoldsStream ==
  ASSUME Orderly
  PROVE  Spec => []RamHoldsStream
<1>1. Log!LogInit => LogInv
  <2>1. 0 % Ring = 0
    BY ModSmall, WriterAssumption
  <2> QED
    BY <2>1, WriterAssumption DEF Log!LogInit, Log!NoWord, LogInv, Log!LogTypeOK, Log!HoldsStream
<1> QED
  BY <1>1, LogStepInv, WriterImplementsRingLog, PTL
  DEF ImplementsRingLog, RamHoldsStream, Log!LogSpec, LogInv
----------------------------------------------------------------------------
(* What a module that has a writer needs of it.                            *)

WriterInv == FlowInv /\ BusInv /\ LogInv

LEMMA WriterStarts ==
  ASSUME Init
  PROVE  WriterInv
<1>1. 0 % Ring = 0
  BY ModSmall, WriterAssumption
<1>2. addr = 0 /\ moved = 0 /\ mem = [a \in 0 .. Ring - 1 |-> -1]
  BY DEF Init, NoWord
<1>3. LogInv
  BY <1>1, <1>2, WriterAssumption DEF LogInv, Log!LogTypeOK, Log!HoldsStream, Log!NoWord
<1> QED
  BY <1>3, InitFlow, InitBus DEF WriterInv

LEMMA WriterStep ==
  ASSUME Orderly, WriterInv, [Next]_vars
  PROVE  WriterInv'
<1>1. FlowInv' /\ BusInv'
  BY FlowStep, BusStep DEF WriterInv
<1>2. LogInv'
  <2>1. [Log!LogNext]_(Log!logVars)
    BY StepIsLogStep DEF WriterInv, Log!logVars
  <2> QED
    BY <2>1, LogStepInv DEF WriterInv
<1> QED
  BY <1>1, <1>2 DEF WriterInv

\* A beat finds a word in the FIFO; at rest the words moved are whole bursts;
\* RAM is the end of the stream.
LEMMA WriterFacts ==
  ASSUME WriterInv
  PROVE  /\ fifo \in 0 .. FifoDepth /\ moved \in Nat /\ por \in 0 .. PorCycles
         /\ por > 0 => fifo = 0
         /\ wvalid => fifo >= 1
         /\ ~wvalid => moved % Burst = 0
         /\ \A k \in 0 .. moved - 1 : k >= moved - Ring => mem[k % Ring] = k
<1>1. /\ fifo \in 0 .. FifoDepth /\ moved \in Nat /\ por \in 0 .. PorCycles
      /\ addr \in 0 .. Ring - 1
      /\ por > 0 => fifo = 0
  BY DEF WriterInv, FlowInv, TypeOK, ResetHoldsFifo
<1>2. wvalid => fifo >= 1
  <2>1. addr % Burst \in 0 .. Burst - 1
    <3>1. addr \in Nat /\ Burst \in Nat \ {0}
      BY <1>1, WriterAssumption
    <3> QED
      BY <3>1, DivMod
  <2>2. wvalid => fifo >= Burst - (addr % Burst)
    BY DEF WriterInv, FlowInv, BurstNeverStarves
  <2> QED
    BY <1>1, <2>1, <2>2, WriterAssumption
<1>3. ~wvalid => moved % Burst = 0
  <2>1. ~wvalid => addr % Burst = 0
    BY DEF WriterInv, FlowInv, BurstNeverStarves
  <2>2. addr = moved % Ring
    BY DEF WriterInv, LogInv, Log!HoldsStream
  <2>3. (moved % Ring) % Burst = moved % Burst
    <3>1. Burst \in Nat \ {0}
      BY WriterAssumption
    <3> QED
      BY <1>1, <3>1, WriterAssumption, ModOfMod
  <2> QED
    BY <2>1, <2>2, <2>3
<1>4. \A k \in 0 .. moved - 1 : k >= moved - Ring => mem[k % Ring] = k
  BY DEF WriterInv, LogInv, Log!HoldsStream
<1> QED
  BY <1>1, <1>2, <1>3, <1>4

\* An edge moves a word that is offered into the FIFO, and a beat's out of it;
\* none is offered while the power-on reset lasts.
LEMMA WordsKept ==
  ASSUME WriterInv, NEW tvalid \in BOOLEAN, por = 0 \/ ~tvalid,
         NEW a \in BOOLEAN, NEW w \in BOOLEAN, NEW l \in BOOLEAN,
         ClockEdge(tvalid, a, w, l)
  PROVE  /\ fifo' + moved' = fifo + moved + (IF tvalid /\ ~Full THEN 1 ELSE 0)
         /\ moved' >= moved
         /\ por = 0 => por' = 0
<1>1. /\ fifo \in 0 .. FifoDepth /\ moved \in Nat /\ por \in 0 .. PorCycles
      /\ por > 0 => fifo = 0
      /\ wvalid => fifo >= 1
  BY WriterFacts
<1> DEFINE beat == Rden(w)
           taken == Wren(tvalid)
<1>2. /\ fifo' = FifoAfter(taken, beat)
      /\ moved' = IF beat THEN moved + 1 ELSE moved
      /\ por' = Max2(por - 1, 0)
      /\ beat => wvalid
  BY DEF ClockEdge, Rden
<1>3. /\ taken <=> tvalid /\ ~Full
      /\ beat \in BOOLEAN
  <2>1. wvalid \in BOOLEAN
    BY DEF WriterInv, FlowInv, TypeOK
  <2> QED
    BY <2>1 DEF Wren, Rden
<1> HIDE DEF beat, taken
<1>4. por = 0 => por' = 0
  BY <1>2 DEF Max2
<1>5. CASE por = 0
  <2>1. fifo' = Max2(fifo - (IF beat THEN 1 ELSE 0), 0) + (IF taken THEN 1 ELSE 0)
    BY <1>2, <1>5 DEF FifoAfter
  <2>2. CASE beat
    BY <1>1, <1>2, <1>3, <1>4, <2>1, <2>2, WriterAssumption DEF Max2
  <2>3. CASE ~beat
    BY <1>1, <1>2, <1>3, <1>4, <2>1, <2>3, WriterAssumption DEF Max2
  <2> QED
    BY <2>2, <2>3
<1>6. CASE por > 0
  <2>1. fifo' = 0 /\ fifo = 0 /\ ~beat /\ moved' = moved
    BY <1>1, <1>2, <1>6 DEF FifoAfter
  <2>2. ~taken
    BY <1>3, <1>6
  <2> QED
    BY <1>1, <1>3, <1>6, <2>1, <2>2
<1> QED
  BY <1>1, <1>5, <1>6
============================================================================
