---------------------------- MODULE DacDaqProofs ----------------------------
(***************************************************************************)
(* What stands at the converters.  The player for every FIFO, threshold    *)
(* and chunk with Threshold + Chunk at most Depth: no word is lost and the *)
(* DAC hears the file in order.  The Lago front end for every clock, level *)
(* and length of a record: seconds are equal, records whole.               *)
(***************************************************************************)
EXTENDS DacPlayer, LagoDaq, ModLemmas

----------------------------------------------------------------------------
(* The player.                                                             *)

\* A buffer that was read is not empty while it waits.
ChunkPending == pc = "wait" => chunk > 0

\* The FIFO is the end of what was written.
FifoIsTail == \A i \in 1 .. Len(fifo) : fifo[i] = written - Len(fifo) + i

IInv == TypeOK /\ NoWordLost /\ RoomReserved /\ ChunkPending /\ FifoIsTail

LEMMA InitInv == Init => IInv
<1> SUFFICES ASSUME Init PROVE IInv
  OBVIOUS
<1>1. fifo = <<>> /\ Len(fifo) = 0
  BY DEF Init
<1>2. TypeOK
  BY <1>1, PlayerAssumption DEF Init, TypeOK, None, Silence
<1> QED
  BY <1>1, <1>2, PlayerAssumption
  DEF Init, IInv, NoWordLost, RoomReserved, ChunkPending, FifoIsTail

LEMMA StoreInv ==
  ASSUME IInv, StoreWord
  PROVE  IInv'
<1> USE PlayerAssumption DEF IInv
<1>1. /\ Len(fifo) < Depth /\ chunk > 0 /\ Len(fifo) + chunk <= Depth
      /\ fifo \in Seq(Nat \ {Silence}) /\ Len(fifo) \in Nat
      /\ written \in Nat /\ chunk \in 0 .. Chunk
  BY DEF StoreWord, RoomReserved, TypeOK
<1>2. /\ fifo' = Append(fifo, written + 1) /\ lost' = lost
      /\ written' = written + 1 /\ chunk' = chunk - 1
      /\ pc' = IF chunk = 1 THEN "read" ELSE "copy"
      /\ UNCHANGED <<file, cfg, cntr, held>>
  BY <1>1 DEF StoreWord
<1>3. /\ fifo' \in Seq(Nat \ {Silence})
      /\ Len(fifo') = Len(fifo) + 1
      /\ \A i \in 1 .. Len(fifo) : fifo'[i] = fifo[i]
      /\ fifo'[Len(fifo) + 1] = written + 1
  BY <1>1, <1>2 DEF Silence
<1>4. TypeOK'
  BY <1>1, <1>2, <1>3 DEF TypeOK
<1>5. NoWordLost' /\ RoomReserved' /\ ChunkPending'
  BY <1>1, <1>2, <1>3 DEF NoWordLost, RoomReserved, ChunkPending
<1>6. FifoIsTail'
  BY <1>1, <1>2, <1>3 DEF FifoIsTail
<1> QED
  BY <1>4, <1>5, <1>6

LEMMA TakeInv ==
  ASSUME IInv, TakeSample
  PROVE  IInv'
<1> USE DEF IInv
<1>1. /\ fifo \in Seq(Nat \ {Silence}) /\ Len(fifo) \in Nat /\ written \in Nat
      /\ UNCHANGED <<pc, file, chunk, written, lost, cfg, cntr>>
  BY DEF TypeOK, TakeSample
<1>2. CASE fifo = <<>>
  <2>1. held' = Silence /\ fifo' = fifo
    BY <1>2 DEF TakeSample
  <2> QED
    BY <1>1, <2>1
    DEF TypeOK, NoWordLost, RoomReserved, ChunkPending, FifoIsTail, Silence
<1>3. CASE fifo # <<>>
  <2>1. /\ held' = Head(fifo) /\ fifo' = Tail(fifo)
        /\ Head(fifo) \in Nat
        /\ Tail(fifo) \in Seq(Nat \ {Silence})
        /\ Len(Tail(fifo)) = Len(fifo) - 1
        /\ \A i \in 1 .. Len(fifo) - 1 : Tail(fifo)[i] = fifo[i + 1]
    BY <1>1, <1>3 DEF TakeSample
  <2>2. TypeOK'
    BY <1>1, <2>1 DEF TypeOK
  <2>3. NoWordLost' /\ RoomReserved' /\ ChunkPending'
    BY <1>1, <2>1, PlayerAssumption DEF NoWordLost, RoomReserved, ChunkPending, TypeOK
  <2>4. FifoIsTail'
    BY <1>1, <2>1 DEF FifoIsTail
  <2> QED
    BY <2>2, <2>3, <2>4
<1> QED
  BY <1>2, <1>3

LEMMA StepInv == IInv /\ [Next]_vars => IInv'
<1> SUFFICES ASSUME IInv, [Next]_vars PROVE IInv'
  OBVIOUS
<1> USE PlayerAssumption DEF IInv
<1>1. ASSUME NEW factor \in Factors, NEW words \in 0 .. MaxFile, Start(factor, words)
      PROVE  IInv'
  BY <1>1 DEF Start, TypeOK, NoWordLost, RoomReserved, ChunkPending, FifoIsTail
<1>2. CASE Interrupted
  BY <1>2 DEF Interrupted, TypeOK, NoWordLost, RoomReserved, ChunkPending, FifoIsTail
<1>3. CASE ReadChunk
  BY <1>3 DEF ReadChunk, Least, TypeOK, NoWordLost, RoomReserved, ChunkPending, FifoIsTail
<1>4. CASE SeeRoom
  BY <1>4 DEF SeeRoom, TypeOK, NoWordLost, RoomReserved, ChunkPending, FifoIsTail
<1>5. CASE StoreWord
  BY <1>5, StoreInv
<1>6. CASE TakeSample
  BY <1>6, TakeInv
<1>7. CASE GiveSample
  BY <1>7 DEF GiveSample, TypeOK, NoWordLost, RoomReserved, ChunkPending, FifoIsTail
<1>8. CASE UNCHANGED vars
  BY <1>8 DEF vars, TypeOK, NoWordLost, RoomReserved, ChunkPending, FifoIsTail
<1> QED
  BY <1>1, <1>2, <1>3, <1>4, <1>5, <1>6, <1>7, <1>8 DEF Next

\* The fill count is back pressure enough: no word is ever dropped, however
\* old the count is when the buffer is copied and whatever the run before left.
THEOREM PlayerLosesNothing == Spec => [](TypeOK /\ NoWordLost /\ RoomReserved)
BY InitInv, StepInv, PTL DEF Spec, IInv

\* The FIFO stays within its depth, and the run within its file.
THEOREM PlayerTypeOK == Spec => []TypeOK
BY PlayerLosesNothing, PTL

\* What the interpolator takes is the next word of the file.
THEOREM PlayerKeepsOrder == Spec => PlaysInOrder
<1> DEFINE A == held' # held /\ held' \notin {None, Silence}
                => /\ Len(fifo') = Len(fifo) - 1
                   /\ held' = written - Len(fifo) + 1
<1>1. IInv /\ [Next]_vars => [A]_vars
  <2> SUFFICES ASSUME IInv, Next, held' # held, held' \notin {None, Silence}
               PROVE  Len(fifo') = Len(fifo) - 1 /\ held' = written - Len(fifo) + 1
    OBVIOUS
  <2>1. TakeSample /\ fifo # <<>>
    BY DEF Next, Start, Interrupted, ReadChunk, SeeRoom, StoreWord, TakeSample, GiveSample
  <2>2. fifo \in Seq(Nat \ {Silence}) /\ Len(fifo) \in Nat /\ 1 \in 1 .. Len(fifo)
    BY <2>1 DEF IInv, TypeOK
  <2>3. held' = fifo[1] /\ Len(fifo') = Len(fifo) - 1
    BY <2>1, <2>2 DEF TakeSample
  <2> QED
    BY <2>2, <2>3 DEF IInv, FifoIsTail
<1> QED
  BY InitInv, StepInv, <1>1, PTL DEF Spec, PlaysInOrder

----------------------------------------------------------------------------
(* The Lago front end.                                                     *)

\* Clocks for which the made-up PPS signal is high.
HighClocks == ClkFreq \div 5

\* The signal and its edge detector follow the second's counter.  A reset may
\* leave the signal up: then the first pulse comes a clock early.
DetectorFollows ==
  /\ oneSec = 0 => ppsState = "zero" /\ (falsePps => pulses = 0)
  /\ oneSec > 0 => (falsePps <=> oneSec <= HighClocks)
  /\ oneSec = 1 => ppsState = "zero" \/ (ppsState = "edge" /\ pulses = 0)
  /\ oneSec = 2 => ppsState = "edge" \/ (ppsState = "one" /\ pulses = 1 /\ clkCnt = 0)
  /\ oneSec \in 3 .. HighClocks + 1 => ppsState = "one"
  /\ oneSec > HighClocks + 1 => ppsState = "zero"

\* Clocks since the one after the second's pulse.
SincePulse == IF oneSec < 3 THEN oneSec + ClkFreq - 3 ELSE oneSec - 3

\* The clock count runs with the second from the second pulse on, and from the
\* first up to the clock that this may have come early.
CountFollows ==
  /\ pulses = 2 => clkCnt = SincePulse
  /\ pulses = 1 /\ ~(oneSec = 2 /\ ppsState = "one") => clkCnt \in {SincePulse, SincePulse + 1}

LEMMA HighClocksFacts ==
  /\ ClkFreq \in Nat /\ CntSize \in Nat \ {0} /\ ClkFreq < CntSize
  /\ HighClocks \in Nat /\ HighClocks >= 2 /\ HighClocks + 3 <= ClkFreq
<1>1. ClkFreq = 5 * HighClocks + (ClkFreq % 5) /\ HighClocks \in Nat /\ ClkFreq % 5 \in 0 .. 4
  BY DivMod, PpsAssumption DEF HighClocks
<1> QED
  BY <1>1, PpsAssumption

\* Within a second the count of clocks does not wrap.
LEMMA CountSucc ==
  ASSUME NEW n \in Nat, n < ClkFreq
  PROVE  (n + 1) % CntSize = n + 1
<1>1. n + 1 \in 0 .. CntSize - 1 /\ CntSize \in Nat \ {0}
  BY HighClocksFacts
<1> QED
  BY <1>1, ModSmall

SecondsInv == PpsTypeOK /\ pulses \in 0 .. 2 /\ DetectorFollows /\ CountFollows

LEMMA SecondsKept ==
  ASSUME SecondsInv, PpsEdge(TRUE, TRUE),
         pulses' = IF Pulse /\ pulses < 2 THEN pulses + 1 ELSE pulses
  PROVE  SecondsInv'
<1>1. /\ oneSec \in 0 .. ClkFreq - 1 /\ pulses \in 0 .. 2 /\ clkCnt \in 0 .. CntSize - 1
      /\ falsePps \in BOOLEAN /\ ppsState \in {"zero", "edge", "one"}
      /\ oneSec' = IF oneSec = ClkFreq - 1 THEN 0 ELSE oneSec + 1
      /\ clkCnt' = IF ppsState = "edge" THEN 0 ELSE (clkCnt + 1) % CntSize
      /\ ppsState' = IF ~falsePps THEN "zero" ELSE IF ppsState = "zero" THEN "edge" ELSE "one"
      /\ pulses' = IF ppsState = "edge" /\ pulses < 2 THEN pulses + 1 ELSE pulses
  BY DEF SecondsInv, PpsTypeOK, PpsEdge, OneSecNext, EdgeDetector, Pulse
<1>2. falsePps' \in BOOLEAN /\ (falsePps' <=> oneSec < HighClocks)
  <2>1. falsePps' = (oneSec < HighClocks)
    BY Zenon DEF PpsEdge, HighClocks
  <2>2. (oneSec < HighClocks) \in BOOLEAN
    OBVIOUS
  <2> QED
    BY <2>1, <2>2, Zenon
<1>3. (clkCnt + 1) % CntSize \in 0 .. CntSize - 1
  BY <1>1, DivMod, HighClocksFacts
<1>4. PpsTypeOK' /\ pulses' \in 0 .. 2
  BY <1>1, <1>2, <1>3, HighClocksFacts DEF PpsTypeOK
<1>5. DetectorFollows'
  <2>1. CASE oneSec = ClkFreq - 1
    BY <1>1, <1>2, <2>1, HighClocksFacts DEF SecondsInv, DetectorFollows
  <2>2. CASE oneSec = 0
    BY <1>1, <1>2, <2>2, HighClocksFacts DEF SecondsInv, DetectorFollows
  <2>3. CASE oneSec = 1
    BY <1>1, <1>2, <2>3, HighClocksFacts DEF SecondsInv, DetectorFollows
  <2>4. CASE oneSec \in 2 .. ClkFreq - 2
    BY <1>1, <1>2, <2>4, HighClocksFacts DEF SecondsInv, DetectorFollows
  <2> QED
    BY <1>1, <2>1, <2>2, <2>3, <2>4, HighClocksFacts
<1>6. CountFollows'
  BY <1>1, HighClocksFacts, CountSucc DEF SecondsInv, DetectorFollows, CountFollows, SincePulse
<1> QED
  BY <1>4, <1>5, <1>6 DEF SecondsInv

BlockLen == IF state = "pps" THEN MetaLen ELSE IF state = "subtrigger" THEN SubtrigLen ELSE DataLen

InBlock == state \in {"trigger", "subtrigger", "pps"}

\* However the sink stalls, the words that it took of a block are the block's
\* count, or one less; the end of the samples may add or drop one, and the time
\* word has to be taken.
WordsCounted ==
  /\ state = "idle" => ~tvalid /\ count = 0
  /\ InBlock => /\ count \in 0 .. BlockLen
                /\ IF tvalid THEN got \in {count - 1, count} ELSE count = 0 /\ got = 0
  /\ state = "time" => tvalid /\ count = 0 /\ got \in DataLen - 1 .. DataLen + 1
  /\ state = "count" => tvalid /\ count = 0 /\ got \in DataLen .. DataLen + 2

\* In a record that was not stalled, the word on the output is the next.
NextWordIsUp ==
  state # "idle" /\ ~stalled =>
    /\ inOrder
    /\ tvalid => Fits(data, Kind, got)
    /\ InBlock => (tvalid => got = count - 1) /\ (state = "trigger" => rel = count - 2)
    /\ state = "time" => got = DataLen
    /\ state = "count" => got = DataLen + 1

\* ... and its sources are a trigger and the one that may have followed, or
\* peaks of the clocks that the words took.
SourcesClose ==
  state # "idle" /\ ~stalled =>
    /\ state \in {"trigger", "time", "pps"} => sources = {}
    /\ tvalid => (data.kind \in {"time", "count", "sub"} <=> state \in {"time", "count", "subtrigger"})
    /\ state = "time" => data.source \in 0 .. MaxLate /\ latched \in {data.source, data.source + 1}
    /\ state = "count" =>
         \E n \in 0 .. MaxLate : sources = {n} /\ data.source \in {n, n + 1}
    /\ state = "subtrigger" =>
         /\ latched <= count
         /\ sources \subseteq 0 .. SubtrigLen - 1
         /\ tvalid => data.source \in 0 .. SubtrigLen - 1

RecordTypes ==
  /\ latched \in 0 .. MaxLate /\ rel \in Int /\ got \in Nat
  /\ count \in Nat /\ tvalid \in BOOLEAN /\ inOrder \in BOOLEAN /\ stalled \in BOOLEAN
  /\ state \in {"idle", "trigger", "time", "count", "subtrigger", "pps"}

RecordInv == RecordTypes /\ WordsCounted /\ NextWordIsUp /\ SourcesClose

LEMMA LagoSizes ==
  /\ DataLen \in Nat /\ DataLen >= 5 /\ MetaLen \in Nat \ {0} /\ SubtrigLen \in Nat \ {0}
  /\ MaxLate \in Nat /\ MaxLate >= DataLen
BY LagoAssumption

\* Counting up to the bound.
LEMMA LimitedStep ==
  ASSUME NEW n \in 0 .. MaxLate
  PROVE  Limited(n + 1) \in {n, n + 1} /\ Limited(n + 1) \in 0 .. MaxLate
BY LagoSizes DEF Limited

LEMMA LimitedSmall ==
  ASSUME NEW n \in Int, n <= DataLen
  PROVE  Limited(n) = n /\ Limited(n) \in Int
BY LagoSizes DEF Limited

\* What the monitors see of an edge in a record.
LEMMA BusyEdge ==
  ASSUME RecordTypes, NEW tready \in BOOLEAN, Observe(tready), latched' = LatchedNext,
         state # "idle"
  PROVE  /\ got' = IF tvalid /\ tready THEN got + 1 ELSE got
         /\ got' \in Nat /\ rel' \in Int /\ inOrder' \in BOOLEAN /\ stalled' \in BOOLEAN
         /\ stalled' <=> stalled \/ ~tready
         /\ inOrder /\ (tvalid /\ tready /\ ~stalled => Fits(data, Kind, got)) => inOrder'
         /\ ~stalled' => sources' = IF tvalid /\ data.kind \in {"time", "count", "sub"}
                                    THEN sources \cup {data.source} ELSE sources
         /\ Kind = "trigger" /\ ~stalled' => rel' = Limited(rel + 1)
         /\ latched' \in 0 .. MaxLate
         /\ ~stalled' => latched' \in {latched, Limited(latched + 1)}
<1>1. /\ got' = IF tvalid /\ tready THEN got + 1 ELSE got
      /\ stalled' = (stalled \/ ~tready)
      /\ inOrder' = (inOrder /\ (tvalid /\ tready /\ ~stalled => Fits(data, Kind, got)))
      /\ sources' = IF stalled' THEN {}
                    ELSE IF tvalid /\ tready /\ data.kind \in {"time", "count", "sub"}
                         THEN sources \cup {data.source} ELSE sources
      /\ rel' = IF Kind = "trigger" /\ ~stalled' THEN Limited(rel + 1) ELSE 0
  BY Zenon DEF Observe, Taken
<1>2. stalled' \in BOOLEAN /\ (stalled' <=> stalled \/ ~tready)
  BY <1>1, Zenon DEF RecordTypes
<1>3. inOrder' \in BOOLEAN
      /\ (inOrder /\ (tvalid /\ tready /\ ~stalled => Fits(data, Kind, got)) => inOrder')
  <2>1. (inOrder /\ (tvalid /\ tready /\ ~stalled => Fits(data, Kind, got))) \in BOOLEAN
    OBVIOUS
  <2> QED
    BY <1>1, <2>1, Zenon
<1>4. rel' \in Int
  <2>1. Limited(rel + 1) \in Int
    BY LagoSizes DEF Limited, RecordTypes
  <2> QED
    BY <1>1, <2>1
<1>5. latched' \in 0 .. MaxLate /\ (~stalled' => latched' \in {latched, Limited(latched + 1)})
  <2>1. latched \in 0 .. MaxLate /\ Limited(latched + 1) \in 0 .. MaxLate /\ 0 \in 0 .. MaxLate
    BY LimitedStep, LagoSizes DEF RecordTypes
  <2>2. \/ latched' = 0 /\ stalled'
        \/ latched' = Limited(latched + 1)
        \/ latched' = latched
    BY Zenon DEF LatchedNext
  <2> QED
    BY <2>1, <2>2, Zenon
<1>6. got' \in Nat
  BY <1>1 DEF RecordTypes
<1>7. ~stalled' => sources' = IF tvalid /\ data.kind \in {"time", "count", "sub"}
                              THEN sources \cup {data.source} ELSE sources
  <2>1. ~stalled' => tready
    BY <1>2, Zenon
  <2> QED
    BY <1>1, <2>1, Zenon
<1> QED
  BY <1>1, <1>2, <1>3, <1>4, <1>5, <1>6, <1>7, Zenon

\* A record begins.
LEMMA IdleKept ==
  ASSUME RecordInv, NEW pps \in BOOLEAN, NEW tready \in BOOLEAN, IdleEdge(pps),
         Observe(tready), latched' = LatchedNext
  PROVE  RecordInv'
<1>1. /\ state = "idle" /\ ~tvalid /\ tvalid \in BOOLEAN /\ count = 0
      /\ state' \in {"idle", "trigger", "subtrigger", "pps"}
      /\ count' = count /\ tvalid' = tvalid
  BY DEF RecordInv, RecordTypes, WordsCounted, IdleEdge
<1>2. /\ got' = 0 /\ inOrder' = TRUE /\ stalled' = FALSE /\ sources' = {}
      /\ rel' = IF state' = "trigger" THEN -2 ELSE 0
      /\ latched' = 0
  BY <1>1, Zenon DEF Observe, LatchedNext
<1>3. RecordTypes'
  <2>1. latched' \in 0 .. MaxLate /\ rel' \in Int /\ got' \in Nat /\ count' \in Nat
    BY <1>1, <1>2, LagoSizes
  <2>2. /\ tvalid' \in BOOLEAN /\ inOrder' \in BOOLEAN /\ stalled' \in BOOLEAN
        /\ state' \in {"idle", "trigger", "time", "count", "subtrigger", "pps"}
    BY <1>1, <1>2, Zenon
  <2> QED
    BY <2>1, <2>2, Zenon DEF RecordTypes
<1>4. WordsCounted'
  BY <1>1, <1>2, LagoSizes DEF WordsCounted, InBlock, BlockLen
<1>5. NextWordIsUp'
  BY <1>1, <1>2 DEF NextWordIsUp, InBlock
<1>6. SourcesClose'
  BY <1>1, <1>2 DEF SourcesClose
<1> QED
  BY <1>3, <1>4, <1>5, <1>6 DEF RecordInv

\* A block goes on: one word further, if the sink is ready.
LEMMA AdvanceKept ==
  ASSUME RecordInv, NEW tready \in BOOLEAN, NEW word,
         InBlock, count # BlockLen, UNCHANGED state, Advance(tready, word),
         Observe(tready), latched' = LatchedNext,
         ~stalled => Fits(word, Kind, count),
         word.kind \in {"time", "count", "sub"} <=> state = "subtrigger",
         state = "subtrigger" => word.source = latched
  PROVE  RecordInv'
<1>1. /\ state # "idle" /\ state' = state /\ Kind' = Kind /\ BlockLen' = BlockLen
      /\ InBlock' /\ RecordTypes /\ Kind = state
  BY DEF RecordInv, InBlock, Kind, BlockLen
<1>2. /\ count' = (IF tready THEN count + 1 ELSE count) /\ tvalid' = TRUE
      /\ data' = (IF tready THEN word ELSE data)
  BY DEF Advance
<1>3. /\ count \in 0 .. BlockLen - 1 /\ BlockLen \in Nat
      /\ IF tvalid THEN got \in {count - 1, count} ELSE count = 0 /\ got = 0
  BY <1>1, LagoSizes DEF RecordInv, WordsCounted, BlockLen
<1>4. /\ got' = IF tvalid /\ tready THEN got + 1 ELSE got
      /\ got' \in Nat /\ rel' \in Int /\ inOrder' \in BOOLEAN /\ stalled' \in BOOLEAN
      /\ stalled' <=> stalled \/ ~tready
      /\ inOrder /\ (tvalid /\ tready /\ ~stalled => Fits(data, Kind, got)) => inOrder'
      /\ ~stalled' => sources' = IF tvalid /\ data.kind \in {"time", "count", "sub"}
                                 THEN sources \cup {data.source} ELSE sources
      /\ Kind = "trigger" /\ ~stalled' => rel' = Limited(rel + 1)
      /\ latched' \in 0 .. MaxLate
      /\ ~stalled' => latched' \in {latched, Limited(latched + 1)}
  BY <1>1, BusyEdge
<1>5. RecordTypes'
  <2>1. count' \in Nat
    BY <1>2, <1>3
  <2> QED
    BY <1>1, <1>2, <1>4, <2>1 DEF RecordTypes
<1>6. WordsCounted'
  <2>1. count' \in 0 .. BlockLen /\ got' \in {count' - 1, count'}
    BY <1>2, <1>3, <1>4 DEF RecordTypes
  <2> QED
    BY <1>1, <1>2, <2>1 DEF WordsCounted, InBlock
<1> SUFFICES ASSUME ~stalled' PROVE NextWordIsUp' /\ SourcesClose'
  BY <1>5, <1>6 DEF RecordInv, NextWordIsUp, SourcesClose
<1>7. /\ ~stalled /\ tready /\ count' = count + 1 /\ data' = word /\ inOrder
      /\ tvalid => Fits(data, Kind, got) /\ got = count - 1
      /\ state = "trigger" => rel = count - 2
      /\ state \in {"trigger", "pps"} => sources = {}
      /\ tvalid => (data.kind \in {"time", "count", "sub"} <=> state = "subtrigger")
      /\ state = "subtrigger" =>
           /\ latched <= count /\ sources \subseteq 0 .. SubtrigLen - 1
           /\ tvalid => data.source \in 0 .. SubtrigLen - 1
  BY <1>1, <1>2, <1>4, Zenon DEF RecordInv, NextWordIsUp, SourcesClose, InBlock
<1>8. NextWordIsUp'
  <2>1. got' = count
    BY <1>3, <1>4, <1>7
  <2>2. got' = count' - 1 /\ inOrder'
    BY <1>3, <1>4, <1>7, <2>1
  <2>3. Fits(data', Kind', got')
    BY <1>1, <1>7, <2>1, Zenon
  <2>4. ASSUME state = "trigger" PROVE rel' = count' - 2
    <3>1. BlockLen = DataLen
      BY <2>4 DEF BlockLen
    <3>2. rel + 1 = count - 1 /\ rel + 1 \in Int /\ rel + 1 <= DataLen
      BY <1>3, <1>7, <2>4, <3>1
    <3>3. rel' = Limited(rel + 1)
      BY <1>1, <1>4, <2>4
    <3> QED
      BY <1>3, <1>7, <3>2, <3>3, LimitedSmall
  <2> QED
    BY <1>1, <2>2, <2>3, <2>4, Zenon DEF NextWordIsUp, InBlock, Fits
<1>9. SourcesClose'
  <2>1. CASE state # "subtrigger"
    <3>1. state \in {"trigger", "pps"} /\ sources' = {}
      BY <1>1, <1>4, <1>7, <2>1, Zenon DEF InBlock
    <3> QED
      BY <1>1, <1>7, <2>1, <3>1, Zenon DEF SourcesClose
  <2>2. CASE state = "subtrigger"
    <3>1. latched' <= count'
      <4>1. latched' \in {latched, latched + 1} /\ latched <= count /\ latched \in Nat
        BY <1>1, <1>4, <1>7, <2>2, LimitedStep, LagoSizes DEF RecordTypes
      <4> QED
        BY <1>3, <1>7, <4>1
    <3>2. word.source \in 0 .. SubtrigLen - 1
      <4>1. BlockLen = SubtrigLen
        BY <2>2 DEF BlockLen
      <4>2. latched \in 0 .. count
        BY <1>1, <1>3, <1>7, <2>2, LagoSizes DEF RecordTypes
      <4> QED
        BY <1>3, <2>2, <4>1, <4>2, LagoSizes
    <3>3. sources' \subseteq 0 .. SubtrigLen - 1
      BY <1>4, <1>7, <2>2, Zenon
    <3> QED
      BY <1>1, <1>7, <2>2, <3>1, <3>2, <3>3, Zenon DEF SourcesClose
  <2> QED
    BY <2>1, <2>2
<1> QED
  BY <1>8, <1>9

\* A record ends: what follows holds of the idle core.
LEMMA IdleIsWell ==
  ASSUME RecordTypes', state' = "idle", ~tvalid', count' = 0
  PROVE  RecordInv'
BY DEF RecordInv, WordsCounted, NextWordIsUp, SourcesClose, InBlock

LEMMA LeaveKept ==
  ASSUME RecordInv, NEW tready \in BOOLEAN, state # "idle", LeaveBlock,
         Observe(tready), latched' = LatchedNext
  PROVE  RecordInv'
<1>1. RecordTypes
  BY DEF RecordInv
<1>2. /\ got' \in Nat /\ rel' \in Int /\ inOrder' \in BOOLEAN /\ stalled' \in BOOLEAN
      /\ latched' \in 0 .. MaxLate
  BY <1>1, BusyEdge
<1>3. state' = "idle" /\ count' = 0 /\ tvalid' = FALSE
  BY DEF LeaveBlock
<1>4. RecordTypes'
  BY <1>2, <1>3 DEF RecordTypes
<1> QED
  BY <1>3, <1>4, IdleIsWell

\* The samples of a record end: the time word comes up, whether the sink took
\* the last sample or not.
LEMMA SamplesEnd ==
  ASSUME RecordInv, NEW tready \in BOOLEAN, state = "trigger", count = DataLen,
         state' = "time", count' = 0, data' = Word("time", 0, latched), tvalid' = TRUE,
         Observe(tready), latched' = LatchedNext
  PROVE  RecordInv'
<1>1. /\ RecordTypes /\ state # "idle" /\ Kind = "trigger" /\ InBlock
      /\ count > 0 /\ tvalid /\ got \in {DataLen - 1, DataLen}
  BY LagoSizes DEF RecordInv, WordsCounted, Kind, InBlock
<1>2. /\ got' = IF tvalid /\ tready THEN got + 1 ELSE got
      /\ got' \in Nat /\ rel' \in Int /\ inOrder' \in BOOLEAN /\ stalled' \in BOOLEAN
      /\ stalled' <=> stalled \/ ~tready
      /\ inOrder /\ (tvalid /\ tready /\ ~stalled => Fits(data, Kind, got)) => inOrder'
      /\ ~stalled' => sources' = IF tvalid /\ data.kind \in {"time", "count", "sub"}
                                 THEN sources \cup {data.source} ELSE sources
      /\ latched' \in 0 .. MaxLate
      /\ ~stalled' => latched' \in {latched, Limited(latched + 1)}
  BY <1>1, BusyEdge
<1>3. RecordTypes'
  BY <1>2 DEF RecordTypes
<1>4. WordsCounted'
  BY <1>1, <1>2, LagoSizes DEF WordsCounted, InBlock
<1> SUFFICES ASSUME ~stalled' PROVE NextWordIsUp' /\ SourcesClose'
  BY <1>3, <1>4 DEF RecordInv, NextWordIsUp, SourcesClose
<1>5. /\ ~stalled /\ tready /\ inOrder /\ Fits(data, Kind, got) /\ got = count - 1
      /\ sources = {} /\ data.kind \notin {"time", "count", "sub"}
  BY <1>1, <1>2, Zenon DEF RecordInv, NextWordIsUp, SourcesClose, InBlock
<1>6. data'.kind = "time" /\ data'.source = latched
  BY DEF Word
<1>7. got' = DataLen /\ inOrder' /\ sources' = {}
  BY <1>1, <1>2, <1>5, LagoSizes
<1>8. NextWordIsUp'
  <2>1. Kind' = "trigger" /\ ~(got' < DataLen)
    BY <1>7, LagoSizes DEF Kind
  <2>2. Fits(data', Kind', got')
    BY <1>6, <1>7, <2>1, Zenon DEF Fits
  <2> QED
    BY <1>7, <2>2, Zenon DEF NextWordIsUp, InBlock
<1>9. SourcesClose'
  <2>1. latched \in 0 .. MaxLate /\ latched' \in {latched, latched + 1}
    BY <1>1, <1>2, LimitedStep DEF RecordTypes
  <2> QED
    BY <1>6, <1>7, <2>1, Zenon DEF SourcesClose
<1> QED
  BY <1>8, <1>9

LEMMA TriggerKept ==
  ASSUME RecordInv, NEW tready \in BOOLEAN, TriggerEdge(tready),
         Observe(tready), latched' = LatchedNext
  PROVE  RecordInv'
<1>1. state = "trigger" /\ RecordTypes
  BY DEF TriggerEdge, RecordInv
<1>2. CASE count = DataLen
  <2>1. state' = "time" /\ count' = 0 /\ data' = Word("time", 0, latched) /\ tvalid' = TRUE
    BY <1>2, Zenon DEF TriggerEdge
  <2> QED
    BY <1>1, <1>2, <2>1, SamplesEnd
<1>3. CASE count # DataLen
  <2> DEFINE word == Word("adc", rel, 0)
  <2>1. Advance(tready, word) /\ UNCHANGED state
    BY <1>3, Zenon DEF TriggerEdge
  <2>2. InBlock /\ BlockLen = DataLen /\ Kind = "trigger" /\ word.kind = "adc" /\ word.i = rel
    BY <1>1 DEF InBlock, BlockLen, Kind, Word
  <2>3. ASSUME ~stalled PROVE Fits(word, Kind, count)
    <3>1. rel = count - 2
      BY <1>1, <2>2, <2>3 DEF RecordInv, NextWordIsUp
    <3>2. count < DataLen
      BY <1>1, <1>3, <2>2, LagoSizes DEF RecordInv, WordsCounted
    <3> QED
      BY <2>2, <3>1, <3>2, Zenon DEF Fits
  <2> QED
    BY <1>1, <1>3, <2>1, <2>2, <2>3, AdvanceKept
<1> QED
  BY <1>2, <1>3

LEMMA SubtriggerKept ==
  ASSUME RecordInv, NEW tready \in BOOLEAN, SubtriggerEdge(tready),
         Observe(tready), latched' = LatchedNext
  PROVE  RecordInv'
<1>1. state = "subtrigger"
  BY DEF SubtriggerEdge
<1>2. CASE count = SubtrigLen
  BY <1>1, <1>2, LeaveKept DEF SubtriggerEdge
<1>3. CASE count # SubtrigLen
  <2> DEFINE word == Word("sub", count, latched)
  <2>1. Advance(tready, word) /\ UNCHANGED state
    BY <1>3, Zenon DEF SubtriggerEdge
  <2>2. /\ InBlock /\ BlockLen = SubtrigLen /\ Kind = "subtrigger"
        /\ word.kind = "sub" /\ word.i = count /\ word.source = latched
    BY <1>1 DEF InBlock, BlockLen, Kind, Word
  <2>3. Fits(word, Kind, count)
    BY <2>2, Zenon DEF Fits
  <2> QED
    BY <1>1, <1>3, <2>1, <2>2, <2>3, AdvanceKept
<1> QED
  BY <1>2, <1>3

LEMMA PpsBlockKept ==
  ASSUME RecordInv, NEW tready \in BOOLEAN, PpsBlockEdge(tready),
         Observe(tready), latched' = LatchedNext
  PROVE  RecordInv'
<1>1. state = "pps"
  BY DEF PpsBlockEdge
<1>2. CASE count = MetaLen
  BY <1>1, <1>2, LeaveKept DEF PpsBlockEdge
<1>3. CASE count # MetaLen
  <2> DEFINE word == Word("pps", count, 0)
  <2>1. Advance(tready, word) /\ UNCHANGED state
    BY <1>3, Zenon DEF PpsBlockEdge
  <2>2. /\ InBlock /\ BlockLen = MetaLen /\ Kind = "pps" /\ word.kind = "pps" /\ word.i = count
    BY <1>1 DEF InBlock, BlockLen, Kind, Word
  <2>3. Fits(word, Kind, count)
    BY <2>2, Zenon DEF Fits
  <2> QED
    BY <1>1, <1>3, <2>1, <2>2, <2>3, AdvanceKept
<1> QED
  BY <1>2, <1>3

LEMMA TimeKept ==
  ASSUME RecordInv, NEW tready \in BOOLEAN, TimeEdge(tready),
         Observe(tready), latched' = LatchedNext
  PROVE  RecordInv'
<1>1. /\ state = "time" /\ state # "idle" /\ Kind = "trigger" /\ RecordTypes
      /\ tvalid /\ count = 0 /\ got \in DataLen - 1 .. DataLen + 1
  BY DEF TimeEdge, RecordInv, WordsCounted, Kind
<1>2. /\ got' = IF tvalid /\ tready THEN got + 1 ELSE got
      /\ got' \in Nat /\ rel' \in Int /\ inOrder' \in BOOLEAN /\ stalled' \in BOOLEAN
      /\ stalled' <=> stalled \/ ~tready
      /\ inOrder /\ (tvalid /\ tready /\ ~stalled => Fits(data, Kind, got)) => inOrder'
      /\ ~stalled' => sources' = IF tvalid /\ data.kind \in {"time", "count", "sub"}
                                 THEN sources \cup {data.source} ELSE sources
      /\ latched' \in 0 .. MaxLate
      /\ ~stalled' => latched' \in {latched, Limited(latched + 1)}
  BY <1>1, BusyEdge
<1>3. /\ tvalid' = TRUE /\ count' = count
      /\ tready => data' = Word("count", 0, latched) /\ state' = "count"
      /\ ~tready => data' = data /\ state' = "time"
  BY <1>1 DEF TimeEdge
<1>4. RecordTypes'
  BY <1>1, <1>2, <1>3 DEF RecordTypes
<1>5. WordsCounted'
  BY <1>1, <1>2, <1>3, LagoSizes DEF WordsCounted, InBlock
<1> SUFFICES ASSUME ~stalled' PROVE NextWordIsUp' /\ SourcesClose'
  BY <1>4, <1>5 DEF RecordInv, NextWordIsUp, SourcesClose
<1>6. /\ ~stalled /\ tready /\ inOrder /\ Fits(data, Kind, got) /\ got = DataLen
      /\ sources = {} /\ data.kind \in {"time", "count", "sub"}
      /\ data.source \in 0 .. MaxLate
  BY <1>1, <1>2, Zenon DEF RecordInv, NextWordIsUp, SourcesClose, InBlock
<1>7. data'.kind = "count" /\ data'.source = latched /\ state' = "count"
  BY <1>3, <1>6 DEF Word
<1>8. got' = DataLen + 1 /\ inOrder' /\ sources' = {data.source}
  BY <1>1, <1>2, <1>6, LagoSizes
<1>9. NextWordIsUp'
  <2>1. Kind' = "trigger" /\ ~(got' < DataLen) /\ got' # DataLen
    BY <1>7, <1>8, LagoSizes DEF Kind
  <2>2. Fits(data', Kind', got')
    BY <1>7, <2>1, Zenon DEF Fits
  <2> QED
    BY <1>7, <1>8, <2>2, Zenon DEF NextWordIsUp, InBlock
<1>10. SourcesClose'
  <2>1. latched \in {data.source, data.source + 1}
    BY <1>1, <1>6 DEF RecordInv, SourcesClose
  <2> QED
    BY <1>6, <1>7, <1>8, <2>1, Zenon DEF SourcesClose
<1> QED
  BY <1>9, <1>10

LEMMA CountKept ==
  ASSUME RecordInv, NEW tready \in BOOLEAN, CountEdge(tready),
         Observe(tready), latched' = LatchedNext
  PROVE  RecordInv'
<1>1. /\ state = "count" /\ state # "idle" /\ RecordTypes
      /\ tvalid /\ count = 0 /\ got \in DataLen .. DataLen + 2
  BY DEF CountEdge, RecordInv, WordsCounted
<1>2. /\ got' = IF tvalid /\ tready THEN got + 1 ELSE got
      /\ got' \in Nat /\ rel' \in Int /\ inOrder' \in BOOLEAN /\ stalled' \in BOOLEAN
      /\ stalled' <=> stalled \/ ~tready
      /\ latched' \in 0 .. MaxLate
  BY <1>1, BusyEdge
<1>3. /\ count' = 0 /\ tvalid' \in BOOLEAN /\ (tvalid' <=> ~tready)
      /\ state' = IF tready THEN "idle" ELSE "count"
  BY <1>1, Zenon DEF CountEdge
<1>4. RecordTypes'
  BY <1>2, <1>3 DEF RecordTypes
<1>5. CASE tready
  BY <1>3, <1>4, <1>5, IdleIsWell
<1>6. CASE ~tready
  <2>1. WordsCounted'
    BY <1>1, <1>2, <1>3, <1>6 DEF WordsCounted, InBlock
  <2> QED
    BY <1>2, <1>4, <1>6, <2>1 DEF RecordInv, NextWordIsUp, SourcesClose
<1> QED
  BY <1>5, <1>6

LEMMA RecordKept ==
  ASSUME RecordInv, NEW pps \in BOOLEAN, NEW sample, NEW tready \in BOOLEAN,
         LagoEdge(pps, sample, tready)
  PROVE  RecordInv'
<1>1. Observe(tready) /\ latched' = LatchedNext
  BY DEF LagoEdge
<1>2. CASE IdleEdge(pps)
  BY <1>1, <1>2, IdleKept
<1>3. CASE TriggerEdge(tready)
  BY <1>1, <1>3, TriggerKept
<1>4. CASE TimeEdge(tready)
  BY <1>1, <1>4, TimeKept
<1>5. CASE CountEdge(tready)
  BY <1>1, <1>5, CountKept
<1>6. CASE SubtriggerEdge(tready)
  BY <1>1, <1>6, SubtriggerKept
<1>7. CASE PpsBlockEdge(tready)
  BY <1>1, <1>7, PpsBlockKept
<1> QED
  BY <1>2, <1>3, <1>4, <1>5, <1>6, <1>7 DEF LagoEdge

----------------------------------------------------------------------------
(* Generator and trigger on one clock.                                     *)

DaqInv == SecondsInv /\ RecordInv

LEMMA DaqStarts == DaqInit => DaqInv
<1> SUFFICES ASSUME DaqInit PROVE DaqInv
  OBVIOUS
<1>1. SecondsInv
  <2>1. oneSec = 0 /\ clkCnt = 0 /\ ppsState = "zero" /\ pulses = 0 /\ falsePps \in BOOLEAN
    BY Zenon DEF DaqInit, PpsInit
  <2> QED
    BY <2>1, HighClocksFacts DEF SecondsInv, PpsTypeOK, DetectorFollows, CountFollows
<1>2. RecordInv
  <2>1. /\ state = "idle" /\ count = 0 /\ latched = 0 /\ rel = 0 /\ got = 0
        /\ ~tvalid /\ tvalid \in BOOLEAN /\ inOrder \in BOOLEAN /\ stalled \in BOOLEAN
    BY Zenon DEF DaqInit, LagoInit
  <2> QED
    BY <2>1, LagoSizes
    DEF RecordInv, RecordTypes, WordsCounted, NextWordIsUp, SourcesClose, InBlock
<1> QED
  BY <1>1, <1>2 DEF DaqInv

LEMMA ResetKept ==
  ASSUME DaqInv, ResetEdge
  PROVE  DaqInv'
<1>1. SecondsInv'
  <2>1. falsePps \in BOOLEAN
    BY DEF DaqInv, SecondsInv, PpsTypeOK
  <2> QED
    BY <2>1, HighClocksFacts
    DEF ResetEdge, PpsReset, SecondsInv, PpsTypeOK, DetectorFollows, CountFollows
<1>2. RecordTypes' /\ state' = "idle" /\ ~tvalid' /\ count' = 0
  <2>1. /\ state' = "idle" /\ count' = 0 /\ latched' = 0 /\ rel' = 0 /\ got' = 0
        /\ ~tvalid' /\ tvalid' \in BOOLEAN /\ inOrder' \in BOOLEAN /\ stalled' \in BOOLEAN
    BY Zenon DEF ResetEdge, LagoReset
  <2> QED
    BY <2>1, LagoSizes DEF RecordTypes
<1> QED
  BY <1>1, <1>2, IdleIsWell DEF DaqInv

LEMMA DaqSteps == DaqInv /\ [DaqNext]_daqVars => DaqInv'
<1> SUFFICES ASSUME DaqInv, [DaqNext]_daqVars PROVE DaqInv'
  OBVIOUS
<1>1. CASE ResetEdge
  BY <1>1, ResetKept
<1>2. ASSUME NEW sample \in Samples, NEW tready \in BOOLEAN, ClockEdge(sample, tready)
      PROVE  DaqInv'
  <2>1. SecondsInv'
    BY <1>2, SecondsKept DEF ClockEdge, DaqInv
  <2>2. Pulse \in BOOLEAN
    BY DEF Pulse
  <2> QED
    BY <1>2, <2>1, <2>2, RecordKept DEF ClockEdge, DaqInv
<1>3. CASE UNCHANGED daqVars
  <2>1. SecondsInv'
    BY <1>3 DEF daqVars, ppsVars, DaqInv, SecondsInv, PpsTypeOK, DetectorFollows, CountFollows,
                SincePulse
  <2>2. RecordInv'
    BY <1>3 DEF daqVars, lagoVars, registers, monitors, DaqInv, RecordInv, RecordTypes,
                WordsCounted, NextWordIsUp, SourcesClose, InBlock, BlockLen, Kind
  <2> QED
    BY <2>1, <2>2 DEF DaqInv
<1> QED
  BY <1>1, <1>2, <1>3 DEF DaqNext

LEMMA DaqAlways == DaqSpec => []DaqInv
BY DaqStarts, DaqSteps, PTL DEF DaqSpec

\* pps_gen.vhd:48-114: whenever the core is reset, every second from the second
\* pulse on is CLK_FREQ clocks long, and the first at most one longer.
THEOREM DaqSecondsAreEqual == DaqSpec => []SecondsAreEqual
<1>1. DaqInv => SecondsAreEqual
  BY HighClocksFacts
  DEF DaqInv, SecondsInv, PpsTypeOK, DetectorFollows, CountFollows, SincePulse, SecondsAreEqual, Pulse
<1> QED
  BY <1>1, DaqAlways, PTL

\* The edge in which a record ends: the sink may take the last word.
LEMMA LastEdge ==
  ASSUME DaqInv, [DaqNext]_daqVars, RecordEnds
  PROVE  /\ state \in {"count", "subtrigger", "pps"} /\ RecordTypes
         /\ state # "count" => count = BlockLen
         /\ \E tready \in BOOLEAN :
              /\ Observe(tready) /\ latched' = LatchedNext
              /\ state = "count" => tready
<1>1. state # "idle" /\ state' = "idle" /\ got' > 0 /\ RecordTypes
  BY DEF RecordEnds, DaqInv, RecordInv
<1>2. ~ResetEdge
  BY <1>1 DEF ResetEdge, LagoReset
<1>3. ~UNCHANGED daqVars
  BY <1>1 DEF daqVars, lagoVars, registers
<1>4. PICK sample \in Samples, tready \in BOOLEAN : LagoEdge(Pulse, sample, tready)
  BY <1>2, <1>3 DEF DaqNext, ClockEdge
<1>5. ~TriggerEdge(tready) /\ ~TimeEdge(tready) /\ ~IdleEdge(Pulse)
  BY <1>1 DEF TriggerEdge, TimeEdge, IdleEdge
<1>6. CASE CountEdge(tready)
  BY <1>1, <1>4, <1>6, Zenon DEF LagoEdge, CountEdge
<1>7. CASE SubtriggerEdge(tready)
  <2>1. state = "subtrigger" /\ count = SubtrigLen
    BY <1>1, <1>7, Zenon DEF SubtriggerEdge
  <2> QED
    BY <1>1, <1>4, <2>1, Zenon DEF LagoEdge, BlockLen
<1>8. CASE PpsBlockEdge(tready)
  <2>1. state = "pps" /\ count = MetaLen
    BY <1>1, <1>8, Zenon DEF PpsBlockEdge
  <2> QED
    BY <1>1, <1>4, <2>1, Zenon DEF LagoEdge, BlockLen
<1> QED
  BY <1>4, <1>5, <1>6, <1>7, <1>8 DEF LagoEdge

LEMMA RecordLens ==
  ASSUME state \in {"count", "subtrigger", "pps"}
  PROVE  /\ state = "count" => Kind = "trigger" /\ RecordLen(Kind) = DataLen + 2
         /\ state # "count" => Kind = state /\ RecordLen(Kind) = BlockLen
                               /\ BlockLen \in Nat \ {0} /\ InBlock
BY LagoSizes DEF Kind, RecordLen, BlockLen, InBlock

\* axis_lago_trigger.vhd:326-394: whenever tready falls, and however long, a
\* record ends with as many words as it should have, one less or one more.
THEOREM DaqStallCostsOneWord == DaqSpec => StallCostsOneWord
<1> DEFINE A == RecordEnds => got' \in RecordLen(Kind) - 1 .. RecordLen(Kind) + 1
<1>1. DaqInv /\ [DaqNext]_daqVars => [A]_daqVars
  <2> SUFFICES ASSUME DaqInv, [DaqNext]_daqVars, RecordEnds
               PROVE  got' \in RecordLen(Kind) - 1 .. RecordLen(Kind) + 1
    OBVIOUS
  <2>1. /\ state \in {"count", "subtrigger", "pps"} /\ state # "idle" /\ RecordTypes
        /\ state # "count" => count = BlockLen
    BY LastEdge
  <2>2. PICK tready \in BOOLEAN :
          Observe(tready) /\ latched' = LatchedNext /\ (state = "count" => tready)
    BY LastEdge
  <2>3. got' = IF tvalid /\ tready THEN got + 1 ELSE got
    BY <2>1, <2>2, BusyEdge
  <2>4. CASE state = "count"
    <3>1. tvalid /\ got \in DataLen .. DataLen + 2 /\ RecordLen(Kind) = DataLen + 2
      BY <2>1, <2>4, RecordLens DEF DaqInv, RecordInv, WordsCounted
    <3> QED
      BY <2>2, <2>3, <2>4, <3>1, LagoSizes
  <2>5. CASE state # "count"
    <3>1. /\ InBlock /\ RecordLen(Kind) = BlockLen /\ BlockLen \in Nat \ {0}
          /\ count = BlockLen
      BY <2>1, <2>5, RecordLens
    <3>2. got \in {BlockLen - 1, BlockLen}
      BY <3>1 DEF DaqInv, RecordInv, WordsCounted
    <3> QED
      BY <2>3, <3>1, <3>2
  <2> QED
    BY <2>4, <2>5
<1> QED
  BY <1>1, DaqAlways, PTL DEF DaqSpec, StallCostsOneWord

\* What the last edge of a record that was not stalled makes of it.
LEMMA WholeEnd ==
  ASSUME DaqInv, [DaqNext]_daqVars, RecordEnds, ~stalled'
  PROVE  /\ inOrder' /\ got' = RecordLen(Kind)
         /\ sources' = IF data.kind \in {"time", "count", "sub"}
                       THEN sources \cup {data.source} ELSE sources
         /\ ~stalled /\ tvalid /\ state \in {"count", "subtrigger", "pps"}
<1>1. /\ state \in {"count", "subtrigger", "pps"} /\ state # "idle" /\ RecordTypes
      /\ state # "count" => count = BlockLen
  BY LastEdge
<1>2. PICK tready \in BOOLEAN : Observe(tready) /\ latched' = LatchedNext
  BY LastEdge
<1>3. /\ got' = IF tvalid /\ tready THEN got + 1 ELSE got
      /\ stalled' <=> stalled \/ ~tready
      /\ inOrder /\ (tvalid /\ tready /\ ~stalled => Fits(data, Kind, got)) => inOrder'
      /\ ~stalled' => sources' = IF tvalid /\ data.kind \in {"time", "count", "sub"}
                                 THEN sources \cup {data.source} ELSE sources
  BY <1>1, <1>2, BusyEdge
<1>4. tvalid
  <2>1. CASE state = "count"
    BY <2>1 DEF DaqInv, RecordInv, WordsCounted
  <2>2. CASE state # "count"
    <3>1. InBlock /\ count \in Nat \ {0}
      BY <1>1, <2>2, RecordLens
    <3> QED
      BY <3>1 DEF DaqInv, RecordInv, WordsCounted
  <2> QED
    BY <2>1, <2>2
<1>5. /\ ~stalled /\ tready /\ inOrder /\ Fits(data, Kind, got)
      /\ state = "count" => got = DataLen + 1
      /\ InBlock => got = count - 1
  BY <1>1, <1>3, <1>4, Zenon DEF DaqInv, RecordInv, NextWordIsUp
<1>6. got' = RecordLen(Kind)
  <2>1. got' = got + 1
    BY <1>3, <1>4, <1>5
  <2>2. CASE state = "count"
    BY <1>1, <1>5, <2>1, <2>2, RecordLens, LagoSizes
  <2>3. CASE state # "count"
    BY <1>1, <1>5, <2>1, <2>3, RecordLens
  <2> QED
    BY <2>2, <2>3
<1> QED
  BY <1>1, <1>3, <1>4, <1>5, <1>6, Zenon

\* axis_lago_trigger.vhd:326-394: the words of a record that the sink does not
\* stall are those of its kind, each once and in order, whatever the samples do.
THEOREM DaqRecordIsWhole == DaqSpec => RecordIsWhole
<1> DEFINE A == RecordEnds /\ ~stalled' => inOrder' /\ got' = RecordLen(Kind)
<1>1. DaqInv /\ [DaqNext]_daqVars => [A]_daqVars
  BY WholeEnd
<1> QED
  BY <1>1, DaqAlways, PTL DEF DaqSpec, RecordIsWhole

\* axis_lago_trigger.vhd:213-219, 268-273: time and count of a record are of one
\* trigger or of two that follow one another, a sub-trigger's words of the peaks
\* of the clocks that they take.
THEOREM DaqRecordMixesNeighbours == DaqSpec => RecordMixesNeighbours
<1> DEFINE A == RecordEnds /\ ~stalled' =>
                  IF Kind = "subtrigger" THEN sources' \subseteq 0 .. SubtrigLen - 1
                  ELSE \E n \in 0 .. MaxLate : sources' \subseteq {n, n + 1}
<1>1. DaqInv /\ [DaqNext]_daqVars => [A]_daqVars
  <2> SUFFICES ASSUME DaqInv, [DaqNext]_daqVars, RecordEnds, ~stalled'
               PROVE  IF Kind = "subtrigger" THEN sources' \subseteq 0 .. SubtrigLen - 1
                      ELSE \E n \in 0 .. MaxLate : sources' \subseteq {n, n + 1}
    OBVIOUS
  <2>1. /\ sources' = IF data.kind \in {"time", "count", "sub"}
                      THEN sources \cup {data.source} ELSE sources
        /\ ~stalled /\ tvalid /\ state \in {"count", "subtrigger", "pps"} /\ state # "idle"
    BY WholeEnd
  <2>2. CASE state = "subtrigger"
    <3>1. sources \subseteq 0 .. SubtrigLen - 1 /\ data.source \in 0 .. SubtrigLen - 1
      BY <2>1, <2>2, Zenon DEF DaqInv, RecordInv, SourcesClose
    <3> QED
      BY <2>1, <2>2, <3>1, Zenon DEF Kind
  <2>3. CASE state = "count"
    <3>1. PICK n \in 0 .. MaxLate : sources = {n} /\ data.source \in {n, n + 1}
      BY <2>1, <2>3 DEF DaqInv, RecordInv, SourcesClose
    <3>2. sources' \subseteq {n, n + 1} /\ Kind = "trigger"
      BY <2>1, <2>3, <3>1 DEF Kind
    <3> QED
      BY <3>2
  <2>4. CASE state = "pps"
    <3>1. sources = {} /\ data.kind \notin {"time", "count", "sub"} /\ Kind = "pps"
      BY <2>1, <2>4 DEF DaqInv, RecordInv, SourcesClose, Kind
    <3> QED
      BY <2>1, <3>1, LagoSizes
  <2> QED
    BY <2>1, <2>2, <2>3, <2>4
<1> QED
  BY <1>1, DaqAlways, PTL DEF DaqSpec, RecordMixesNeighbours
=============================================================================
