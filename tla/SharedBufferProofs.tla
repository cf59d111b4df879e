------------------------- MODULE SharedBufferProofs -------------------------
(***************************************************************************)
(* The programs that share a buffer in memory with the hardware.  The ring *)
(* log keeps the end of the stream, for every size of the ring; over it    *)
(* the two processes that copy and send its halves stay in step in every   *)
(* session that finds them so, for every half, pace and pipe that the      *)
(* assumption on the speeds admits.  And what a program that drives an AXI *)
(* DMA says of its transfer is so, for every length of a buffer and depth  *)
(* of the channels.                                                        *)
(***************************************************************************)
EXTENDS AdcStreamServer, DmaLoopback, ModLemmas

----------------------------------------------------------------------------
(* Queues.                                                                 *)

\* A queue that an element is appended to,
LEMMA AppendFacts ==
  ASSUME NEW S, NEW q \in Seq(S), NEW e \in S
  PROVE  /\ Append(q, e) \in Seq(S) /\ Len(q) \in Nat /\ Len(Append(q, e)) = Len(q) + 1
         /\ Append(q, e)[Len(q) + 1] = e
         /\ \A i \in 1 .. Len(q) : Append(q, e)[i] = q[i] /\ q[i] \in S
OBVIOUS

\* ... and one that its first element is taken from.
LEMMA TailFacts ==
  ASSUME NEW S, NEW q \in Seq(S), q # <<>>
  PROVE  /\ Tail(q) \in Seq(S) /\ Len(q) \in Nat \ {0} /\ Len(Tail(q)) = Len(q) - 1
         /\ Head(q) = q[1] /\ q[1] \in S
         /\ \A i \in 1 .. Len(q) - 1 : Tail(q)[i] = q[i + 1]
OBVIOUS

----------------------------------------------------------------------------
(* The ring log.                                                           *)

LogInv == LogTypeOK /\ HoldsStream

LEMMA LogInitInv == LogInit => LogInv
<1>1. 0 % Size = 0
  BY ModSmall, SizeAssumption
<1> QED
  BY <1>1, SizeAssumption DEF LogInit, LogInv, LogTypeOK, HoldsStream, NoWord

LEMMA ClearInv ==
  ASSUME ClearLog
  PROVE  LogInv'
<1>1. 0 % Size = 0
  BY ModSmall, SizeAssumption
<1> QED
  BY <1>1, SizeAssumption DEF ClearLog, LogInv, LogTypeOK, HoldsStream, NoWord

\* One word more: its slot is the only one written, and no word that is still
\* among the last Size lives there.
LEMMA AppendInv ==
  ASSUME LogInv, AppendWord
  PROVE  LogInv'
<1>1. Size \in Nat \ {0} /\ count \in Nat /\ count' = count + 1
  BY SizeAssumption DEF LogInv, LogTypeOK, AppendWord
<1>2. position = count % Size /\ position' = (position + 1) % Size
  BY DEF LogInv, HoldsStream, AppendWord
<1>3. /\ ram' = [ram EXCEPT ![count % Size] = count]
      /\ ram \in [0 .. Size - 1 -> Nat \cup {NoWord}] /\ ram \in [0 .. Size - 1 -> Int]
      /\ \A k \in 0 .. count - 1 : k >= count - Size => ram[k % Size] = k
  BY <1>2 DEF LogInv, LogTypeOK, HoldsStream, AppendWord, NoWord
<1>4. position' = count' % Size
  BY <1>1, <1>2, RingNext
<1>5. position' \in 0 .. Size - 1
  BY <1>1, <1>4, DivMod
<1>6. \A k \in 0 .. count : k >= count + 1 - Size => ram'[k % Size] = k
  BY <1>1, <1>3, RingAppend
<1>7. \A k \in 0 .. count' - 1 : k >= count' - Size => ram'[k % Size] = k
  BY <1>1, <1>6
<1>8. ram' \in [0 .. Size - 1 -> Nat \cup {NoWord}] /\ count' \in Nat
  BY <1>1, <1>3
<1> QED
  BY <1>4, <1>5, <1>7, <1>8 DEF LogInv, LogTypeOK, HoldsStream

\* The last Size words of the stream are in the ring, each at its number
\* modulo Size.
THEOREM RingLogHoldsStream == LogSpec => [](LogTypeOK /\ HoldsStream)
<1>1. LogInv /\ [LogNext]_logVars => LogInv'
  <2>1. LogInv /\ UNCHANGED logVars => LogInv'
    BY DEF logVars, LogInv, LogTypeOK, HoldsStream
  <2> QED
    BY <2>1, AppendInv, ClearInv DEF LogNext
<1> QED
  BY LogInitInv, <1>1, PTL DEF LogSpec, LogInv

----------------------------------------------------------------------------
(* Halves.  Half n of a session is the words from Start(n) on.  Latest(n)  *)
(* is the last count at which the child, at the position, finds that half  *)
(* n is not over: the test of the upper half is true a word early.         *)

Start(n) == n * Half

Latest(n) == Start(n) + Half - (n % 2)

LEMMA HalfFacts ==
  /\ Half \in Nat \ {0} /\ Size \in Nat \ {0} /\ Size = 2 * Half
  /\ PollPace \in Nat \ {0} /\ 2 * PollPace <= Half
  /\ SendPace \in Nat \ {0} /\ SendPace + 2 * PollPace <= Size
BY ServerAssumption, SizeAssumption

LEMMA StartFacts ==
  ASSUME NEW n \in Nat
  PROVE  /\ Start(n) \in Nat
         /\ Start(n + 1) = Start(n) + Half
         /\ n % 2 = 0 => (n + 1) % 2 = 1
         /\ n % 2 # 0 => (n + 1) % 2 = 0 /\ n % 2 = 1
         /\ Latest(n) \in Nat
         /\ Latest(n + 1) >= Latest(n) + Half - 1
<1>1. Start(n) \in Nat /\ Start(n + 1) = Start(n) + Half
  BY HalfFacts DEF Start
<1>2. /\ n % 2 = 0 => (n + 1) % 2 = 1
      /\ n % 2 # 0 => (n + 1) % 2 = 0 /\ n % 2 = 1
  OBVIOUS
<1> HIDE DEF Start
<1>3. n % 2 \in {0, 1} /\ (n + 1) % 2 \in {0, 1}
  BY <1>2
<1> QED
  BY <1>1, <1>2, <1>3, HalfFacts DEF Latest

LEMMA LatestFacts ==
  ASSUME NEW n \in Nat
  PROVE  Latest(n + 2) = Latest(n) + Size
<1>1. Start(n + 2) = Start(n) + Size /\ Start(n) \in Nat
  BY HalfFacts DEF Start
<1>2. (n + 2) % 2 = n % 2 /\ n % 2 \in Nat
  OBVIOUS
<1> QED
  BY <1>1, <1>2, HalfFacts DEF Latest

\* Half n lies in the half of the ring that its parity says.
LEMMA SlotFacts ==
  ASSUME NEW n \in Nat, NEW i \in 0 .. Half - 1
  PROVE  /\ n % 2 = 0 => (Start(n) + i) % Size = i
         /\ n % 2 # 0 => (Start(n) + i) % Size = Half + i
<1>1. CASE n % 2 = 0
  <2>1. PICK m \in Nat : n = 2 * m
    BY <1>1
  <2>2. Start(n) + i = Size * m + i
    BY <2>1, HalfFacts DEF Start
  <2>3. (Size * m + i) % Size = i
    <3>1. i \in 0 .. Size - 1
      BY HalfFacts
    <3> QED
      BY <3>1, HalfFacts, ModUnique
  <2> QED
    BY <1>1, <2>2, <2>3
<1>2. CASE n % 2 # 0
  <2>1. PICK m \in Nat : n = 2 * m + 1
    BY <1>2
  <2>2. Start(n) + i = Size * m + (Half + i)
    BY <2>1, HalfFacts DEF Start
  <2>3. (Size * m + (Half + i)) % Size = Half + i
    <3>1. Half + i \in 0 .. Size - 1
      BY HalfFacts
    <3> QED
      BY <3>1, HalfFacts, ModUnique
  <2> QED
    BY <1>2, <2>2, <2>3
<1> QED
  BY <1>1, <1>2

----------------------------------------------------------------------------
(* What holds at all times: types, the ring where its words are counted,   *)
(* and who is alive when.                                                  *)

Streams == parent \notin {"start", "gone"} => HoldsStream

Alive ==
  /\ child = "copy" => copied < Half
  /\ parent = "send" => sent < Half
  /\ program = "server" /\ parent \in {"read", "send"} => sessions > 0
  /\ program = "recorder" => sessions = 0
  /\ ~stop /\ parent \in {"start", "reset", "read", "send"} => child # "gone"
  /\ sessions <= MaxSessions
  /\ parent = "reset" => ~released /\ count = 0 /\ blocks = 0

Base == TypeOK /\ Streams /\ Alive

LEMMA InitBase == Init => Base
<1> SUFFICES ASSUME Init PROVE Base
  OBVIOUS
<1> USE HalfFacts, ServerAssumption
<1>1. LogTypeOK
  BY DEF Init, Empty, LogTypeOK
<1>2. TypeOK
  <2>1. buf \in [0 .. Size - 1 -> Nat \cup {NoWord}]
    BY DEF Init, Empty
  <2>2. pipe \in Seq(Nat) /\ Len(pipe) <= PipeSize
    <3>1. pipe = <<>> /\ PipeSize \in Nat
      BY DEF Init
    <3> QED
      BY <3>1
  <2>3. released \in BOOLEAN /\ clean \in BOOLEAN /\ stop \in BOOLEAN
    BY DEF Init
  <2> QED
    BY <1>1, <2>1, <2>2, <2>3 DEF Init, TypeOK
<1>3. Streams /\ Alive
  BY DEF Init, Streams, Alive
<1> QED
  BY <1>2, <1>3 DEF Base

\* A step that leaves the log alone leaves what it holds alone.
LEMMA LogUnchanged ==
  ASSUME Base, UNCHANGED logVars, parent \in {"start", "gone"} => parent' \in {"start", "gone"}
  PROVE  LogTypeOK' /\ Streams'
BY DEF Base, TypeOK, LogTypeOK, Streams, HoldsStream, logVars

LEMMA OverBase ==
  ASSUME Base, SessionOver
  PROVE  /\ count' = 0 /\ ram' \in [0 .. Size - 1 -> Nat \cup {NoWord}]
         /\ buf' \in [0 .. Size - 1 -> Nat \cup {NoWord}]
         /\ pipe' \in Seq(Nat) /\ Len(pipe') = Len(pipe)
         /\ due' = 0 /\ sent' = 0 /\ blocks' = 0 /\ clean' = FALSE
<1>1. /\ ram' \in [0 .. Size - 1 -> Nat \cup {NoWord}]
      /\ buf' \in [0 .. Size - 1 -> Nat \cup {NoWord}]
  BY DEF SessionOver, Empty
<1>2. pipe' \in Seq(Nat) /\ Len(pipe') = Len(pipe)
  <2>1. pipe' = [k \in 1 .. Len(pipe) |-> 0] /\ Len(pipe) \in Nat
    BY DEF SessionOver, Base, TypeOK
  <2> QED
    BY <2>1
<1> QED
  BY <1>1, <1>2 DEF SessionOver

\* A reset, and a parent that dies, keep the invariant.
LEMMA ResetBase ==
  ASSUME Base, ResetHardware, UNCHANGED <<program, sessions, stop, limit, offset, copied>>,
         parent' \in {"reset", "gone"}, child' \in {child, "gone"},
         parent' = "reset" /\ ~stop => child' # "gone"
  PROVE  Base'
<1> USE HalfFacts, ServerAssumption
<1>1. LogTypeOK' /\ Streams'
  <2>1. ClearLog
    BY DEF ResetHardware, SessionOver, ClearLog, Empty
  <2> QED
    BY <2>1, ClearInv DEF LogInv, Streams
<1>2. lag' \in 0 .. PollPace /\ released' \in BOOLEAN /\ ~released'
  <2>1. lag' = 0 /\ released' = FALSE
    BY DEF ResetHardware
  <2>2. lag' \in 0 .. PollPace
    BY <2>1
  <2>3. released' \in BOOLEAN /\ ~released'
    BY <2>1, Zenon
  <2> QED
    BY <2>2, <2>3
<1>3. SessionOver
  BY DEF ResetHardware
<1>4. TypeOK'
  BY <1>1, <1>2, <1>3, OverBase DEF Base, TypeOK
<1>5. Alive'
  BY <1>2, <1>3, OverBase DEF Base, TypeOK, Alive
<1> QED
  BY <1>1, <1>4, <1>5 DEF Base

LEMMA DeathBase ==
  ASSUME Base, ParentDies, UNCHANGED <<program, limit, offset, copied>>,
         child' \in {child, "gone"}
  PROVE  Base'
<1> USE HalfFacts, ServerAssumption
<1>1. /\ SessionOver /\ parent' = "gone"
      /\ UNCHANGED <<position, released, sessions, stop, lag>>
  BY DEF ParentDies
<1>2. LogTypeOK' /\ Streams'
  <2>1. position' \in 0 .. Size - 1
    BY <1>1 DEF Base, TypeOK, LogTypeOK
  <2>2. count' \in Nat /\ ram' \in [0 .. Size - 1 -> Nat \cup {NoWord}]
    BY <1>1, OverBase
  <2> QED
    BY <1>1, <2>1, <2>2 DEF LogTypeOK, Streams
<1>3. TypeOK'
  BY <1>1, <1>2, OverBase DEF Base, TypeOK
<1>4. Alive'
  BY <1>1, OverBase DEF Base, TypeOK, Alive
<1> QED
  BY <1>2, <1>3, <1>4 DEF Base

LEMMA WriterBase ==
  ASSUME Base, UNCHANGED program, WriterStores
  PROVE  Base'
<1> USE HalfFacts DEF InSession
<1>1. LogTypeOK' /\ Streams'
  BY AppendInv DEF Base, TypeOK, Streams, WriterStores, LogInv
<1>2. TypeOK'
  BY <1>1 DEF Base, TypeOK, WriterStores, childVars, parentVars
<1>3. Alive'
  BY DEF Base, Alive, WriterStores, childVars, parentVars
<1> QED
  BY <1>1, <1>2, <1>3 DEF Base

LEMMA StrayBase ==
  ASSUME Base, UNCHANGED program, StrayWord
  PROVE  Base'
<1> USE HalfFacts DEF InSession
<1>1. position' \in 0 .. Size - 1
  <2>1. position + 1 \in Nat /\ position' = (position + 1) % Size
    BY DEF Base, TypeOK, LogTypeOK, StrayWord
  <2> QED
    BY <2>1, DivMod
<1>2. LogTypeOK'
  BY <1>1 DEF Base, TypeOK, LogTypeOK, StrayWord
<1>3. TypeOK'
  BY <1>2 DEF Base, TypeOK, StrayWord, childVars, parentVars
<1>4. parent \in {"start", "gone"} /\ parent' = parent
  BY DEF Base, TypeOK, Alive, StrayWord, parentVars
<1>5. Alive' /\ Streams'
  BY <1>4 DEF Base, Alive, Streams, StrayWord, childVars, parentVars
<1> QED
  BY <1>3, <1>5 DEF Base

LEMMA ChildBase ==
  ASSUME Base, UNCHANGED program, ChildStep
  PROVE  Base'
<1> USE HalfFacts DEF childVars, parentVars
<1>1. LogTypeOK' /\ Streams'
  BY LogUnchanged DEF ChildStep, Poll, CopyWord, WriteToken, BrokenPipe
<1>2. CASE Poll
  <2>1. TypeOK'
    BY <1>1, <1>2 DEF Base, TypeOK, Poll
  <2>2. Alive'
    BY <1>2 DEF Base, TypeOK, Alive, Poll
  <2> QED
    BY <1>1, <2>1, <2>2 DEF Base
<1>3. CASE CopyWord
  <2>1. offset + copied \in 0 .. Size - 1 /\ ram[offset + copied] \in Nat \cup {NoWord}
    BY <1>3 DEF Base, TypeOK, LogTypeOK, Alive, CopyWord
  <2>2. TypeOK'
    BY <1>1, <1>3, <2>1 DEF Base, TypeOK, Alive, CopyWord
  <2>3. Alive'
    BY <1>3 DEF Base, TypeOK, Alive, CopyWord, logVars
  <2> QED
    BY <1>1, <2>2, <2>3 DEF Base
<1>4. CASE WriteToken
  <2>1. TypeOK'
    <3>1. pipe' \in Seq(Nat) /\ Len(pipe') <= PipeSize
      <4>1. /\ pipe \in Seq(Nat) /\ Len(pipe) < PipeSize /\ PipeSize \in Nat
            /\ count \in Nat /\ pipe' = Append(pipe, count)
        BY <1>4, ServerAssumption DEF Base, TypeOK, LogTypeOK, WriteToken
      <4> QED
        BY <4>1
    <3> QED
      BY <1>1, <1>4, <3>1 DEF Base, TypeOK, WriteToken
  <2>2. Alive'
    BY <1>4 DEF Base, Alive, WriteToken, logVars
  <2> QED
    BY <1>1, <2>1, <2>2 DEF Base
<1>5. CASE BrokenPipe
  <2>1. TypeOK'
    BY <1>1, <1>5 DEF Base, TypeOK, BrokenPipe
  <2>2. Alive'
    BY <1>5 DEF Base, Alive, BrokenPipe
  <2> QED
    BY <1>1, <2>1, <2>2 DEF Base
<1> QED
  BY <1>2, <1>3, <1>4, <1>5 DEF ChildStep

LEMMA ParentBase ==
  ASSUME Base, UNCHANGED program, ParentStep
  PROVE  Base'
<1> USE HalfFacts DEF childVars
<1>1. CASE ReadToken
  <2>1. LogTypeOK' /\ Streams'
    BY <1>1, LogUnchanged DEF ReadToken
  <2>2. TypeOK'
    <3>1. pipe' \in Seq(Nat) /\ Len(pipe') <= PipeSize /\ due' \in Nat
      <4>1. /\ pipe \in Seq(Nat) /\ Len(pipe) <= PipeSize /\ PipeSize \in Nat
            /\ pipe # <<>> /\ pipe' = Tail(pipe) /\ due' = Head(pipe)
        BY <1>1, ServerAssumption DEF Base, TypeOK, ReadToken
      <4> QED
        BY <4>1
    <3> QED
      BY <1>1, <2>1, <3>1 DEF Base, TypeOK, ReadToken
  <2>3. Alive'
    BY <1>1 DEF Base, Alive, ReadToken
  <2> QED
    BY <2>1, <2>2, <2>3 DEF Base
<1>2. CASE ReadEnd
  <2>1. LogTypeOK' /\ Streams'
    BY <1>2, LogUnchanged DEF ReadEnd
  <2>2. TypeOK'
    BY <1>2, <2>1 DEF Base, TypeOK, LogTypeOK, ReadEnd
  <2>3. Alive'
    BY <1>2 DEF Base, Alive, ReadEnd
  <2> QED
    BY <2>1, <2>2, <2>3 DEF Base
<1>3. CASE SendWord
  <2>1. LogTypeOK' /\ Streams'
    BY <1>3, LogUnchanged DEF SendWord
  <2>2. TypeOK'
    BY <1>3, <2>1 DEF Base, TypeOK, Alive, SendWord, HalfSent
  <2>3. Alive'
    BY <1>3 DEF Base, TypeOK, Alive, SendWord, HalfSent
  <2> QED
    BY <2>1, <2>2, <2>3 DEF Base
<1>4. CASE Finish
  BY <1>4, ResetBase DEF Finish
<1>5. CASE FirstReset
  <2>1. child' = child /\ parent = "start"
    BY <1>5 DEF FirstReset
  <2>2. ~stop => child' # "gone"
    BY <2>1 DEF Base, Alive
  <2> QED
    BY <1>5, <2>1, <2>2, ResetBase DEF FirstReset
<1> QED
  BY <1>1, <1>2, <1>3, <1>4, <1>5 DEF ParentStep

LEMMA FateBase ==
  ASSUME Base, UNCHANGED program, ParentFate
  PROVE  Base'
<1> USE HalfFacts, ServerAssumption DEF childVars
<1>1. CASE Accept \/ Begin
  <2>1. Run
    BY <1>1 DEF Accept, Begin
  <2>2. LogTypeOK' /\ Streams'
    BY <2>1, LogUnchanged DEF Run
  <2>3. sessions' \in Nat /\ sessions' <= MaxSessions
    BY <1>1 DEF Accept, Begin, Base, TypeOK, Alive
  <2>4. clean' \in BOOLEAN
    BY <2>1 DEF Run
  <2>5. TypeOK'
    BY <2>1, <2>2, <2>3, <2>4 DEF Base, TypeOK, Run
  <2>6. Alive'
    BY <1>1, <2>1, <2>3 DEF Base, TypeOK, Alive, Accept, Begin, Run
  <2> QED
    BY <2>2, <2>5, <2>6 DEF Base
<1>2. CASE WriteShort \/ SendFailsStopped
  <2>1. LogTypeOK' /\ Streams'
    BY <1>2, LogUnchanged DEF WriteShort, SendFailsStopped
  <2>2. TypeOK'
    <3>1. UNCHANGED <<program, childVars, buf, pipe, released, due, sent, sessions, clean, stop, lag>>
      BY <1>2 DEF WriteShort, SendFailsStopped
    <3>2. parent' \in {"read", "send", "end"} /\ blocks' \in Nat
      BY <1>2 DEF Base, TypeOK, WriteShort, HalfSent, SendFailsStopped
    <3> QED
      BY <2>1, <3>1, <3>2 DEF Base, TypeOK
  <2>3. Alive'
    BY <1>2 DEF Base, TypeOK, Alive, WriteShort, HalfSent, SendFailsStopped
  <2> QED
    BY <2>1, <2>2, <2>3 DEF Base
<1>3. CASE SendFails
  <2>1. child' = child /\ ~stop /\ parent = "send"
    BY <1>3 DEF SendFails
  <2>2. child' # "gone"
    BY <2>1 DEF Base, Alive
  <2> QED
    BY <1>3, <2>1, <2>2, ResetBase DEF SendFails
<1>4. CASE ErrorReturn \/ SendKills
  BY <1>4, DeathBase DEF ErrorReturn, SendKills
<1>5. ASSUME NEW terminal \in BOOLEAN, InterruptDefault(terminal)
      PROVE  Base'
  BY <1>5, DeathBase DEF InterruptDefault
<1>6. ASSUME NEW terminal \in BOOLEAN, Interrupt(terminal)
      PROVE  Base'
  <2>1. LogTypeOK' /\ Streams'
    BY <1>6, LogUnchanged DEF Interrupt, HalfSent
  <2>2. TypeOK'
    <3>1. /\ UNCHANGED <<program, limit, offset, copied, buf, pipe, released, due, sent, sessions,
                         clean, lag>>
          /\ stop' = TRUE
      BY <1>6 DEF Interrupt
    <3>2. /\ parent' \in {"start", "reset", "read", "send", "end", "gone"}
          /\ child' \in {"poll", "copy", "write", "gone"}
          /\ blocks' \in Nat
      BY <1>6 DEF Base, TypeOK, Interrupt, HalfSent
    <3> QED
      BY <2>1, <3>1, <3>2 DEF Base, TypeOK
  <2>3. Alive'
    BY <1>6 DEF Base, TypeOK, Alive, Interrupt, HalfSent
  <2> QED
    BY <2>1, <2>2, <2>3 DEF Base
<1> QED
  BY <1>1, <1>2, <1>3, <1>4, <1>5, <1>6 DEF ParentFate

LEMMA StepBase ==
  ASSUME Base, [Next]_vars
  PROVE  Base'
<1>1. CASE UNCHANGED vars
  <2>1. LogTypeOK' /\ Streams'
    BY <1>1, LogUnchanged DEF vars, parentVars
  <2> QED
    BY <1>1, <2>1 DEF vars, logVars, childVars, parentVars, Base, TypeOK, Alive
<1> QED
  BY <1>1, WriterBase, StrayBase, ChildBase, ParentBase, FateBase DEF Next

\* Every step keeps the types: the pipe holds what its size says, the copy and
\* the sending stay in their half, and the child's pace bounds its lag.
THEOREM ServerTypeOK == Spec => []TypeOK
<1>1. Base => TypeOK
  BY DEF Base
<1> QED
  BY InitBase, StepBase, <1>1, PTL DEF Spec

----------------------------------------------------------------------------
(* A clean session.  Halves the child has told the parent of, begun to     *)
(* copy, and words it has copied.                                          *)

Told == blocks + (IF parent = "send" THEN 1 ELSE 0) + Len(pipe)

Begun == IF child = "poll" THEN Told ELSE Told + 1

Copied == IF child = "copy" THEN Start(Told) + copied ELSE Start(Begun)

CleanSession == clean /\ child # "gone" /\ parent \in {"read", "send"}

\* The child's limit and offset follow the parity of the half it is at: that
\* is what a session begins with that is clean.
Turns ==
  /\ limit = IF Begun % 2 = 0 THEN Half ELSE 0
  /\ child # "poll" => offset = IF Told % 2 = 0 THEN 0 ELSE Half

\* The half it copies is over, and not long so.
Paced ==
  /\ Start(Begun) <= count
  /\ child = "poll" => count - lag <= Latest(Told)
  /\ child # "poll" => count - lag <= Latest(Told) + PollPace

\* The buffer is the ring as far as the copy has come.
Mirrors == \A w \in 0 .. Copied - 1 : w >= Copied - Size => buf[w % Size] = w

\* A token is dated soon after its half was over, and in order.
TokensDated ==
  /\ parent = "send" => due <= Latest(blocks) + 2 * PollPace
  /\ \A i \in 1 .. Len(pipe) : pipe[i] <= Latest((Told - Len(pipe)) + (i - 1)) + 2 * PollPace

TokensSorted ==
  /\ \A i \in 1 .. Len(pipe) : pipe[i] <= count
  /\ \A i, j \in 1 .. Len(pipe) : i <= j => pipe[i] <= pipe[j]
  /\ parent = "send" => due <= count /\ \A i \in 1 .. Len(pipe) : due <= pipe[i]

\* The oldest token is young enough, and the copy is at most two halves ahead
\* of the sending.
InTime == parent = "send" \/ pipe # <<>> => count <= Oldest + SendPace

Ahead == Begun <= blocks + 2

InStep ==
  /\ Turns /\ Paced /\ Mirrors
  /\ TokensDated /\ TokensSorted /\ InTime /\ Ahead

ServerInv == Base /\ (CleanSession => InStep)

LEMMA CountersAreNat ==
  ASSUME Base
  PROVE  /\ Len(pipe) \in Nat /\ Told \in Nat /\ Begun \in Nat /\ Copied \in Nat
         /\ Told - Len(pipe) = blocks + (IF parent = "send" THEN 1 ELSE 0)
         /\ count \in Nat /\ lag \in 0 .. PollPace /\ blocks \in Nat /\ due \in Nat
<1>1. /\ Len(pipe) \in Nat /\ blocks \in Nat /\ copied \in Nat
      /\ count \in Nat /\ lag \in 0 .. PollPace /\ due \in Nat
  BY HalfFacts DEF Base, TypeOK, LogTypeOK
<1>2. Told \in Nat /\ Begun \in Nat
      /\ Told - Len(pipe) = blocks + (IF parent = "send" THEN 1 ELSE 0)
  BY <1>1 DEF Told, Begun
<1>3. Start(Told) \in Nat /\ Start(Begun) \in Nat
  BY <1>2, StartFacts
<1> QED
  BY <1>1, <1>2, <1>3 DEF Copied

LEMMA InitServerInv == Init => ServerInv
BY InitBase DEF Init, ServerInv, CleanSession

\* A clean session has been one since it began, and it begins in step: nothing
\* is counted, copied or told.
LEMMA CleanSessionBack ==
  ASSUME Next, CleanSession'
  PROVE  CleanSession \/ Run
<1> USE DEF CleanSession
<1>1. CASE WriterStores \/ StrayWord
  BY <1>1 DEF WriterStores, StrayWord, InSession, childVars, parentVars
<1>2. CASE ChildStep
  BY <1>2 DEF ChildStep, Poll, CopyWord, WriteToken, BrokenPipe, childVars, parentVars
<1>3. CASE ParentStep
  BY <1>3 DEF ParentStep, FirstReset, ReadToken, ReadEnd, SendWord, Finish, HalfSent, childVars
<1>4. CASE Accept \/ Begin
  BY <1>4 DEF Accept, Begin
<1>5. CASE WriteShort \/ SendFailsStopped
  BY <1>5 DEF WriteShort, SendFailsStopped, HalfSent, childVars
<1>6. CASE SendFails \/ ErrorReturn \/ SendKills
  BY <1>6 DEF SendFails, ErrorReturn, SendKills, ParentDies
<1>7. ASSUME NEW terminal \in BOOLEAN, Interrupt(terminal) \/ InterruptDefault(terminal)
      PROVE  CleanSession
  BY <1>7 DEF Interrupt, InterruptDefault, ParentDies, HalfSent
<1> QED
  BY <1>1, <1>2, <1>3, <1>4, <1>5, <1>6, <1>7 DEF Next, ParentFate

LEMMA RunInStep ==
  ASSUME Base, Run, clean'
  PROVE  InStep'
<1>1. /\ parent' = "read" /\ child' = "poll" /\ limit' = Half /\ lag' = lag
      /\ pipe' = <<>> /\ Len(pipe') = 0 /\ count' = 0 /\ blocks' = 0
  BY DEF Run, Base, Alive, logVars, childVars
<1>2. Told' = 0 /\ Begun' = 0
  BY <1>1 DEF Told, Begun
<1>3. Start(0) = 0 /\ 0 % 2 = 0 /\ Latest(0) \in Nat /\ lag \in Nat
  BY HalfFacts, StartFacts DEF Start, Base, TypeOK
<1>4. Copied' = 0
  BY <1>1, <1>2, <1>3 DEF Copied
<1>5. Turns' /\ InTime' /\ Ahead'
  BY <1>1, <1>2, <1>3 DEF Turns, InTime, Ahead
<1>6. Paced' /\ Mirrors'
  BY <1>1, <1>2, <1>3, <1>4 DEF Paced, Mirrors
<1>7. TokensDated' /\ TokensSorted'
  BY <1>1 DEF TokensDated, TokensSorted
<1> QED
  BY <1>5, <1>6, <1>7 DEF InStep

\* When the child's test is true the half is over: its last words are stored,
\* and none of the next half but those of the child's lag.
LEMMA ReadyMeansOver ==
  ASSUME Base, CleanSession, InStep, child = "poll"
  PROVE  /\ Ready <=> count > Latest(Told)
         /\ Ready => Start(Told + 1) <= count
<1> DEFINE n == Told
           j == count - Start(n)
<1>1. n \in Nat /\ count \in Nat /\ Start(n) \in Nat /\ Start(n + 1) = Start(n) + Half
  BY CountersAreNat, StartFacts
<1>2. n % 2 \in {0, 1} /\ (n % 2 # 0 => n % 2 = 1)
  BY <1>1, StartFacts
<1>3. Latest(n) = Start(n) + Half - (n % 2)
  BY DEF Latest
<1>4. Start(n) <= count /\ count <= Latest(n) + PollPace
  <2>1. Start(Begun) <= count /\ count - lag <= Latest(Told) /\ Begun = Told
    BY DEF InStep, Paced, Begun
  <2>2. Latest(n) \in Nat /\ lag \in 0 .. PollPace
    BY <1>1, StartFacts, CountersAreNat
  <2> QED
    BY <1>1, <2>1, <2>2, HalfFacts
<1>5. j \in 0 .. Size - 1 /\ count = Start(n) + j
  BY <1>1, <1>2, <1>3, <1>4, HalfFacts
<1>6. position = (Start(n) + j) % Size
  BY <1>5 DEF Base, CleanSession, Streams, HoldsStream
<1>7. limit = IF n % 2 = 0 THEN Half ELSE 0
  BY DEF InStep, Turns, Begun
<1> HIDE DEF n, j
<1>8. CASE n % 2 = 0
  <2>1. j < Half => position = j
    BY <1>5, <1>6, <1>8, <1>1, HalfFacts, SlotFacts
  <2>2. j >= Half => position = j
    <3> SUFFICES ASSUME j >= Half PROVE position = j
      OBVIOUS
    <3>1. j - Half \in 0 .. Half - 1 /\ Start(n + 1) + (j - Half) = Start(n) + j
      BY <1>1, <1>5, HalfFacts
    <3>2. (n + 1) % 2 # 0 /\ n + 1 \in Nat
      BY <1>1, <1>8, StartFacts
    <3>3. (Start(n + 1) + (j - Half)) % Size = Half + (j - Half)
      BY <3>1, <3>2, SlotFacts
    <3> QED
      BY <1>5, <1>6, <3>1, <3>3, HalfFacts
  <2>3. position = j
    BY <1>5, <2>1, <2>2, HalfFacts
  <2>4. Ready <=> j > Half
    BY <1>7, <1>8, <2>3, HalfFacts DEF Ready
  <2> QED
    BY <1>1, <1>3, <1>5, <1>8, <2>4, HalfFacts DEF n
<1>9. CASE n % 2 = 1
  <2>1. j < Half => position = Half + j
    <3> SUFFICES ASSUME j < Half PROVE position = Half + j
      OBVIOUS
    <3>1. j \in 0 .. Half - 1 /\ n % 2 # 0
      BY <1>5, <1>9, HalfFacts
    <3> QED
      BY <1>1, <1>6, <3>1, SlotFacts
  <2>2. j >= Half => position = j - Half
    <3> SUFFICES ASSUME j >= Half PROVE position = j - Half
      OBVIOUS
    <3>1. j - Half \in 0 .. Half - 1 /\ Start(n + 1) + (j - Half) = Start(n) + j
      BY <1>1, <1>5, HalfFacts
    <3>2. (n + 1) % 2 = 0 /\ n + 1 \in Nat
      BY <1>1, <1>9, StartFacts
    <3>3. (Start(n + 1) + (j - Half)) % Size = j - Half
      BY <3>1, <3>2, SlotFacts
    <3> QED
      BY <1>5, <1>6, <3>1, <3>3, HalfFacts
  <2>3. Ready <=> j >= Half
    BY <1>5, <1>7, <1>9, <2>1, <2>2, HalfFacts DEF Ready
  <2> QED
    BY <1>1, <1>3, <1>5, <1>9, <2>3, HalfFacts DEF n
<1> QED
  BY <1>2, <1>8, <1>9

\* The writer waits for neither process: the paces keep it off the copy and
\* off the halves that are still to be sent.
LEMMA WriterInStep ==
  ASSUME Base, CleanSession, InStep, WriterStores, CleanSession'
  PROVE  InStep'
<1> USE DEF WriterStores, AppendWord, childVars, parentVars
<1>1. /\ parent \in {"read", "send"} /\ child # "gone"
      /\ count' = count + 1 /\ lag' = lag + 1 /\ count < Oldest + SendPace
      /\ UNCHANGED <<child, limit, offset, copied, buf, pipe, parent, due, blocks>>
  BY DEF CleanSession
<1> HIDE DEF WriterStores, AppendWord, childVars, parentVars
<1>2. Told' = Told /\ Begun' = Begun /\ Copied' = Copied
  BY <1>1 DEF Told, Begun, Copied
<1>3. /\ count \in Nat /\ lag \in Nat /\ Told \in Nat /\ Begun \in Nat
      /\ Start(Begun) \in Nat /\ Latest(Told) \in Nat
  <2>1. count \in Nat /\ lag \in Nat /\ Told \in Nat /\ Begun \in Nat
    BY CountersAreNat
  <2> QED
    BY <2>1, StartFacts
<1>4. Turns' /\ Ahead'
  BY <1>1, <1>2 DEF InStep, Turns, Ahead
<1>5. Paced'
  BY <1>1, <1>2, <1>3 DEF InStep, Paced
<1>6. Mirrors' /\ TokensDated'
  BY <1>1, <1>2 DEF InStep, Mirrors, TokensDated
<1>7. TokensSorted'
  <2>1. due \in Nat /\ \A i \in 1 .. Len(pipe) : pipe[i] \in Nat
    BY DEF Base, TypeOK
  <2> QED
    BY <1>1, <1>3, <2>1 DEF InStep, TokensSorted
<1>8. InTime'
  <2> SUFFICES ASSUME parent = "send" \/ pipe # <<>> PROVE count' <= Oldest' + SendPace
    BY <1>1 DEF InTime
  <2>1. Oldest' = Oldest /\ Oldest \in Nat
    <3>1. CASE parent = "send"
      BY <1>1, <3>1, CountersAreNat DEF Oldest
    <3>2. CASE parent = "read" /\ pipe # <<>>
      BY <1>1, <3>2 DEF Oldest, Base, TypeOK
    <3> QED
      BY <1>1, <3>1, <3>2
  <2> QED
    BY <1>1, <1>3, <2>1, HalfFacts
<1> QED
  BY <1>4, <1>5, <1>6, <1>7, <1>8 DEF InStep

\* The child does not begin a third half: before the writer has filled it the
\* oldest half has been sent.
LEMMA AheadOfReady ==
  ASSUME Base, CleanSession, InStep, child = "poll", Ready
  PROVE  Told # blocks + 2
<1> SUFFICES ASSUME Told = blocks + 2 PROVE FALSE
  OBVIOUS
<1>1. count > Latest(Told)
  BY ReadyMeansOver
<1>2. /\ blocks \in Nat /\ count \in Nat /\ Latest(blocks + 2) = Latest(blocks) + Size
      /\ Latest(blocks) \in Nat
  BY CountersAreNat, LatestFacts, StartFacts
<1>3. Oldest <= Latest(blocks) + 2 * PollPace /\ Oldest \in Nat
      /\ (parent = "send" \/ pipe # <<>>)
  <2>1. CASE parent = "send"
    BY <2>1, CountersAreNat DEF Oldest, InStep, TokensDated
  <2>2. CASE parent = "read"
    <3>1. Len(pipe) = 2 /\ pipe # <<>> /\ Told - Len(pipe) = blocks
      <4>1. /\ Told - Len(pipe) = blocks
            /\ Told \in Nat /\ Len(pipe) \in Nat /\ blocks \in Nat
        BY <2>2, CountersAreNat
      <4>2. Len(pipe) = 2 /\ Told - Len(pipe) = blocks
        <5> DEFINE l == Len(pipe)
        <5>1. l \in Nat /\ Told - l = blocks
          BY <4>1
        <5> HIDE DEF l
        <5>2. l = 2
          BY <4>1, <5>1
        <5> QED
          BY <4>1, <5>2 DEF l
      <4>3. Len(<<>>) = 0
        OBVIOUS
      <4> QED
        BY <4>2, <4>3
    <3>2. pipe[1] <= Latest(blocks + (1 - 1)) + 2 * PollPace /\ pipe[1] \in Nat
      BY <3>1 DEF InStep, TokensDated, Base, TypeOK
    <3> QED
      BY <1>2, <2>2, <3>1, <3>2 DEF Oldest
  <2> QED
    BY <2>1, <2>2 DEF CleanSession
<1>4. count <= Oldest + SendPace
  BY <1>3 DEF InStep, InTime
<1> QED
  BY <1>1, <1>2, <1>3, <1>4, HalfFacts

LEMMA PollInStep ==
  ASSUME Base, CleanSession, InStep, Poll
  PROVE  InStep'
<1>1. /\ child = "poll" /\ lag' = 0
      /\ UNCHANGED <<count, position, buf, pipe, parent, due, blocks>>
  BY DEF Poll, logVars, parentVars
<1>2. /\ count \in Nat /\ lag \in 0 .. PollPace /\ Told \in Nat /\ blocks \in Nat
      /\ Start(Told) \in Nat /\ Latest(Told) \in Nat
  BY CountersAreNat, StartFacts
<1>3. Told' = Told /\ Begun = Told /\ Copied = Start(Told)
  BY <1>1 DEF Told, Begun, Copied
<1>4. TokensDated' /\ TokensSorted'
  BY <1>1, <1>3 DEF InStep, TokensDated, TokensSorted
<1>5. InTime'
  BY <1>1 DEF InStep, InTime, Oldest
<1>6. CASE Ready
  <2>1. /\ child' = "copy" /\ copied' = 0
        /\ limit' = IF limit > 0 THEN 0 ELSE Half
        /\ offset' = IF limit > 0 THEN 0 ELSE Half
    BY <1>6 DEF Poll
  <2>2. Begun' = Told + 1 /\ Copied' = Copied
    BY <1>2, <1>3, <2>1 DEF Begun, Copied
  <2>3. Turns'
    <3>1. limit = IF Told % 2 = 0 THEN Half ELSE 0
      BY <1>3 DEF InStep, Turns
    <3> QED
      BY <1>2, <1>3, <2>1, <2>2, <3>1, StartFacts, HalfFacts DEF Turns
  <2>4. Paced'
    <3>1. Start(Told + 1) <= count
      BY <1>1, <1>6, ReadyMeansOver
    <3>2. count - lag <= Latest(Told)
      BY <1>1 DEF InStep, Paced
    <3> QED
      BY <1>1, <1>2, <1>3, <2>1, <2>2, <3>1, <3>2, HalfFacts DEF Paced
  <2>5. Mirrors'
    BY <1>1, <2>2 DEF InStep, Mirrors
  <2>6. Ahead'
    <3>1. Told # blocks + 2
      BY <1>1, <1>6, AheadOfReady
    <3> QED
      BY <1>1, <1>2, <1>3, <2>2, <3>1 DEF InStep, Ahead
  <2> QED
    BY <1>4, <1>5, <2>3, <2>4, <2>5, <2>6 DEF InStep
<1>7. CASE ~Ready
  <2>1. UNCHANGED <<child, limit, offset, copied>>
    BY <1>7 DEF Poll, childVars
  <2>2. Begun' = Begun /\ Copied' = Copied
    BY <1>1, <1>3, <2>1 DEF Begun, Copied
  <2>3. Turns' /\ Mirrors' /\ Ahead'
    BY <1>1, <1>3, <2>1, <2>2 DEF InStep, Turns, Mirrors, Ahead
  <2>4. Paced'
    <3>1. count <= Latest(Told)
      BY <1>1, <1>2, <1>7, ReadyMeansOver
    <3> QED
      BY <1>1, <1>2, <1>3, <2>1, <2>2, <3>1 DEF InStep, Paced
  <2> QED
    BY <1>4, <1>5, <2>3, <2>4 DEF InStep
<1> QED
  BY <1>6, <1>7

LEMMA CopyInStep ==
  ASSUME Base, CleanSession, InStep, CopyWord
  PROVE  InStep'
<1>1. /\ child = "copy" /\ copied' = copied + 1
      /\ child' = IF copied + 1 = Half THEN "write" ELSE "copy"
      /\ buf' = [buf EXCEPT ![offset + copied] = ram[offset + copied]]
      /\ UNCHANGED <<count, limit, offset, lag, pipe, parent, due, blocks>>
  BY DEF CopyWord, logVars, parentVars
<1>2. /\ count \in Nat /\ lag \in 0 .. PollPace /\ Told \in Nat /\ copied \in 0 .. Half - 1
      /\ Start(Told) \in Nat /\ Start(Told + 1) = Start(Told) + Half /\ Latest(Told) \in Nat
      /\ Latest(Told) <= Start(Told) + Half
  <2>1. Told \in Nat
    BY CountersAreNat
  <2>2. copied \in 0 .. Half - 1
    BY <1>1, HalfFacts DEF Base, TypeOK, Alive
  <2>3. /\ Start(Told) \in Nat /\ Start(Told + 1) = Start(Told) + Half /\ Latest(Told) \in Nat
        /\ Told % 2 \in {0, 1}
    BY <2>1, StartFacts
  <2>4. Latest(Told) <= Start(Told) + Half
    BY <2>3, HalfFacts DEF Latest
  <2> QED
    BY <2>1, <2>2, <2>3, <2>4, CountersAreNat
<1>3. Told' = Told /\ Begun = Told + 1 /\ Begun' = Begun
  BY <1>1 DEF Told, Begun
<1>4. Turns' /\ TokensDated' /\ TokensSorted' /\ Ahead'
  BY <1>1, <1>3 DEF InStep, Turns, TokensDated, TokensSorted, Ahead
<1>5. InTime'
  BY <1>1 DEF InStep, InTime, Oldest
<1>6. Paced'
  BY <1>1, <1>3 DEF InStep, Paced
<1>7. Mirrors'
  <2> DEFINE c == Start(Told) + copied
  <2>1. c \in Nat /\ c < count /\ c >= count - Size
    BY <1>1, <1>2, <1>3, HalfFacts DEF InStep, Paced
  <2>2. Copied = c /\ Copied' = c + 1
    BY <1>1, <1>2, <1>3 DEF Copied
  <2>3. offset + copied = c % Size
    BY <1>1, <1>2, SlotFacts, HalfFacts DEF InStep, Turns
  <2> HIDE DEF c
  <2>4. ram[c % Size] = c
    BY <1>2, <2>1 DEF Base, CleanSession, Streams, HoldsStream
  <2>5. buf' = [buf EXCEPT ![c % Size] = c]
    BY <1>1, <2>3, <2>4
  <2>6. buf \in [0 .. Size - 1 -> Int]
    BY DEF Base, TypeOK, NoWord
  <2>7. \A w \in 0 .. c - 1 : w >= c - Size => buf[w % Size] = w
    BY <2>2 DEF InStep, Mirrors
  <2>8. \A w \in 0 .. c : w >= c + 1 - Size => buf'[w % Size] = w
    BY <2>1, <2>5, <2>6, <2>7, HalfFacts, RingAppend
  <2>9. \A w \in 0 .. (c + 1) - 1 : w >= (c + 1) - Size => buf'[w % Size] = w
    <3>1. c \in Nat /\ Size \in Nat /\ (c + 1) - 1 = c
      BY <2>1, HalfFacts
    <3> QED
      BY <2>8, <3>1
  <2> QED
    BY <2>2, <2>9 DEF Mirrors
<1> QED
  BY <1>4, <1>5, <1>6, <1>7 DEF InStep

LEMMA TokenInStep ==
  ASSUME Base, CleanSession, InStep, WriteToken
  PROVE  InStep'
<1>1. /\ child = "write" /\ child' = "poll" /\ pipe' = Append(pipe, count)
      /\ UNCHANGED <<count, limit, offset, lag, buf, parent, due, blocks>>
  BY DEF WriteToken, logVars, parentVars
<1>2. /\ count \in Nat /\ lag \in 0 .. PollPace /\ Told \in Nat /\ blocks \in Nat /\ due \in Nat
      /\ Latest(Told) \in Nat /\ Latest(Told + 1) >= Latest(Told) + Half - 1
      /\ Latest(Told + 1) \in Nat /\ Start(Told + 1) \in Nat /\ Start(Told + 1) = Start(Told) + Half
      /\ Start(Told) \in Nat
  <2>1. count \in Nat /\ lag \in 0 .. PollPace /\ Told \in Nat /\ blocks \in Nat /\ due \in Nat
    BY CountersAreNat
  <2>2. Told + 1 \in Nat
    BY <2>1
  <2>3. /\ Latest(Told) \in Nat /\ Latest(Told + 1) >= Latest(Told) + Half - 1
        /\ Start(Told) \in Nat /\ Start(Told + 1) = Start(Told) + Half
    BY <2>1, StartFacts
  <2>4. Latest(Told + 1) \in Nat /\ Start(Told + 1) \in Nat
    BY <2>2, StartFacts
  <2> QED
    BY <2>1, <2>3, <2>4
<1>3. /\ pipe \in Seq(Nat) /\ Len(pipe) \in Nat /\ Len(pipe') = Len(pipe) + 1
      /\ \A i \in 1 .. Len(pipe) : pipe'[i] = pipe[i] /\ pipe[i] \in Nat
      /\ pipe'[Len(pipe) + 1] = count
  <2>1. pipe \in Seq(Nat) /\ count \in Nat
    BY <1>2 DEF Base, TypeOK
  <2>2. /\ Len(pipe) \in Nat /\ Len(Append(pipe, count)) = Len(pipe) + 1
        /\ Append(pipe, count)[Len(pipe) + 1] = count
        /\ \A i \in 1 .. Len(pipe) : Append(pipe, count)[i] = pipe[i] /\ pipe[i] \in Nat
    BY <2>1, AppendFacts
  <2> QED
    BY <1>1, <2>1, <2>2
<1>4. Told' = Told + 1 /\ Begun = Told + 1 /\ Begun' = Begun /\ Copied' = Copied
  <2>1. Told' = blocks + (IF parent = "send" THEN 1 ELSE 0) + Len(pipe')
    BY <1>1 DEF Told
  <2>2. Told' = Told + 1
    <3>1. CASE parent = "send"
      <4>1. Told' = blocks + 1 + Len(pipe') /\ Told = blocks + 1 + Len(pipe)
        BY <2>1, <3>1 DEF Told
      <4> QED
        BY <1>2, <1>3, <4>1
    <3>2. CASE parent # "send"
      <4>1. Told' = blocks + 0 + Len(pipe') /\ Told = blocks + 0 + Len(pipe)
        BY <2>1, <3>2 DEF Told
      <4> QED
        BY <1>2, <1>3, <4>1
    <3> QED
      BY <3>1, <3>2
  <2> QED
    BY <1>1, <2>2 DEF Begun, Copied
<1>5. count <= Latest(Told) + 2 * PollPace
  <2>1. count - lag <= Latest(Told) + PollPace
    BY <1>1 DEF InStep, Paced
  <2> QED
    BY <1>2, <2>1, HalfFacts
<1>6. parent \in {"read", "send"}
  BY DEF CleanSession
<1>8. Turns' /\ Ahead' /\ Mirrors'
  BY <1>1, <1>4 DEF InStep, Turns, Ahead, Mirrors
<1>9. Paced'
  <2>1. Start(Begun) <= count /\ count - lag <= Latest(Told) + PollPace
    BY <1>1 DEF InStep, Paced
  <2> QED
    <3>1. count - lag <= Latest(Told + 1)
      BY <1>2, <2>1, HalfFacts
    <3> QED
      BY <1>1, <1>4, <2>1, <3>1 DEF Paced
<1>10. TokensDated'
  <2>1. parent' = "send" => due' <= Latest(blocks') + 2 * PollPace
    BY <1>1 DEF InStep, TokensDated
  <2>2. ASSUME NEW i \in 1 .. Len(pipe')
        PROVE  pipe'[i] <= Latest((Told' - Len(pipe')) + (i - 1)) + 2 * PollPace
    <3>1. Told' - Len(pipe') = Told - Len(pipe)
      BY <1>2, <1>3, <1>4
    <3>2. CASE i \in 1 .. Len(pipe)
      BY <1>3, <3>1, <3>2 DEF InStep, TokensDated
    <3>3. CASE i = Len(pipe) + 1
      <4>1. (Told - Len(pipe)) + (i - 1) = Told
        BY <1>2, <1>3, <3>3
      <4> QED
        BY <1>3, <1>5, <3>1, <3>3, <4>1
    <3> QED
      BY <1>3, <3>2, <3>3
  <2> QED
    BY <2>1, <2>2 DEF TokensDated
<1>11. TokensSorted'
  <2>1. \A i \in 1 .. Len(pipe') : pipe'[i] <= count'
    BY <1>1, <1>2, <1>3 DEF InStep, TokensSorted
  <2>2. ASSUME NEW i \in 1 .. Len(pipe'), NEW k \in 1 .. Len(pipe'), i <= k
        PROVE  pipe'[i] <= pipe'[k]
    <3>1. CASE k \in 1 .. Len(pipe)
      BY <1>3, <2>2, <3>1 DEF InStep, TokensSorted
    <3>2. CASE k = Len(pipe) + 1
      BY <1>1, <1>3, <2>1, <3>2
    <3> QED
      BY <1>3, <3>1, <3>2
  <2>3. ASSUME parent' = "send"
        PROVE  due' <= count' /\ \A i \in 1 .. Len(pipe') : due' <= pipe'[i]
    <3>1. due <= count
      BY <1>1, <2>3 DEF InStep, TokensSorted
    <3> QED
      BY <1>1, <1>3, <2>3, <3>1 DEF InStep, TokensSorted
  <2> QED
    BY <2>1, <2>2, <2>3 DEF TokensSorted
<1>12. InTime'
  <2>1. CASE parent = "send"
    BY <1>1, <2>1 DEF InStep, InTime, Oldest
  <2>2. CASE parent = "read" /\ pipe # <<>>
    <3>1. 1 \in 1 .. Len(pipe)
      BY <1>3, <2>2
    <3>2. pipe'[1] = pipe[1] /\ pipe' # <<>>
      BY <1>3, <3>1
    <3> QED
      BY <1>1, <2>2, <3>2 DEF InStep, InTime, Oldest
  <2>3. CASE parent = "read" /\ pipe = <<>>
    <3>1. pipe'[1] = count /\ pipe' # <<>>
      BY <1>3, <2>3
    <3> QED
      BY <1>1, <1>2, <2>3, <3>1, HalfFacts DEF InTime, Oldest
  <2> QED
    BY <1>6, <2>1, <2>2, <2>3
<1> QED
  BY <1>8, <1>9, <1>10, <1>11, <1>12 DEF InStep

\* What the invariant speaks of but the parent's side.
sharedVars == <<child, limit, offset, copied, buf, count, lag>>

LEMMA StillInStep ==
  ASSUME InStep, UNCHANGED <<sharedVars, pipe, parent, due, blocks>>
  PROVE  InStep'
<1> USE DEF sharedVars
<1>1. Told' = Told /\ Begun' = Begun /\ Copied' = Copied
  BY DEF Told, Begun, Copied
<1>2. Turns' /\ Paced' /\ Mirrors'
  BY <1>1 DEF InStep, Turns, Paced, Mirrors
<1>3. TokensDated' /\ TokensSorted'
  BY <1>1 DEF InStep, TokensDated, TokensSorted
<1>4. InTime' /\ Ahead'
  BY <1>1 DEF InStep, InTime, Ahead, Oldest
<1> QED
  BY <1>2, <1>3, <1>4 DEF InStep

LEMMA ReadInStep ==
  ASSUME Base, InStep, ReadToken
  PROVE  InStep'
<1>1. /\ parent = "read" /\ parent' = "send" /\ pipe # <<>>
      /\ due' = Head(pipe) /\ pipe' = Tail(pipe)
      /\ UNCHANGED <<sharedVars, blocks>>
  BY DEF ReadToken, logVars, childVars, sharedVars
<1>2. /\ blocks \in Nat /\ Told \in Nat /\ Told - Len(pipe) = blocks + 0 /\ Len(pipe) \in Nat
  BY <1>1, CountersAreNat
<1>3. /\ Len(pipe) >= 1 /\ Len(pipe') = Len(pipe) - 1 /\ due' = pipe[1]
      /\ \A i \in 1 .. Len(pipe') : i + 1 \in 1 .. Len(pipe) /\ pipe'[i] = pipe[i + 1]
  <2>1. pipe \in Seq(Nat)
    BY DEF Base, TypeOK
  <2> QED
    BY <1>1, <2>1
<1>4. Told' = Told /\ Begun' = Begun /\ Copied' = Copied
  <2>1. Told' = blocks + 1 + Len(pipe') /\ Told = blocks + 0 + Len(pipe)
    BY <1>1 DEF Told
  <2>2. Told' = Told
    BY <1>2, <1>3, <2>1
  <2> QED
    BY <1>1, <2>2 DEF Begun, Copied, sharedVars
<1>5. Turns' /\ Paced' /\ Mirrors' /\ Ahead'
  BY <1>1, <1>4 DEF InStep, Turns, Paced, Mirrors, Ahead, sharedVars
<1>6. TokensDated'
  <2>1. due' <= Latest(blocks') + 2 * PollPace
    <3>1. 1 \in 1 .. Len(pipe) /\ (Told - Len(pipe)) + (1 - 1) = blocks
      BY <1>2, <1>3
    <3>2. pipe[1] <= Latest((Told - Len(pipe)) + (1 - 1)) + 2 * PollPace
      BY <3>1 DEF InStep, TokensDated
    <3> QED
      BY <1>1, <1>3, <3>1, <3>2
  <2>2. ASSUME NEW i \in 1 .. Len(pipe')
        PROVE  pipe'[i] <= Latest((Told' - Len(pipe')) + (i - 1)) + 2 * PollPace
    <3>1. (Told' - Len(pipe')) + (i - 1) = (Told - Len(pipe)) + ((i + 1) - 1)
      BY <1>2, <1>3, <1>4
    <3>2. pipe[i + 1] <= Latest((Told - Len(pipe)) + ((i + 1) - 1)) + 2 * PollPace
      BY <1>3 DEF InStep, TokensDated
    <3> QED
      BY <1>3, <3>1, <3>2
  <2> QED
    BY <2>1, <2>2 DEF TokensDated
<1>7. TokensSorted'
  <2>1. \A i \in 1 .. Len(pipe) : pipe[i] <= count
    BY DEF InStep, TokensSorted
  <2>2. \A i, j \in 1 .. Len(pipe) : i <= j => pipe[i] <= pipe[j]
    BY DEF InStep, TokensSorted
  <2>3. \A i \in 1 .. Len(pipe') : pipe'[i] <= count'
    BY <1>1, <1>3, <2>1 DEF sharedVars
  <2>4. \A i, j \in 1 .. Len(pipe') : i <= j => pipe'[i] <= pipe'[j]
    BY <1>2, <1>3, <2>2
  <2>5. due' <= count' /\ \A i \in 1 .. Len(pipe') : due' <= pipe'[i]
    BY <1>1, <1>2, <1>3, <2>1, <2>2 DEF sharedVars
  <2> QED
    BY <2>3, <2>4, <2>5 DEF TokensSorted
<1>8. InTime'
  <2>1. Oldest' = Oldest
    BY <1>1, <1>3 DEF Oldest
  <2> QED
    BY <1>1, <2>1 DEF InStep, InTime, sharedVars
<1> QED
  BY <1>5, <1>6, <1>7, <1>8 DEF InStep

\* A half is out: the next token is no older than the last.
LEMMA SentInStep ==
  ASSUME Base, InStep, parent = "send", parent' = "read", blocks' = blocks + 1,
         UNCHANGED <<sharedVars, pipe>>
  PROVE  InStep'
<1> USE DEF sharedVars
<1>1. /\ blocks \in Nat /\ Told \in Nat /\ Begun \in Nat /\ Len(pipe) \in Nat
      /\ count \in Nat /\ due \in Nat
  BY CountersAreNat
<1>2. Told' = Told /\ Begun' = Begun /\ Copied' = Copied
  <2>1. Told' = (blocks + 1) + 0 + Len(pipe) /\ Told = blocks + 1 + Len(pipe)
    BY DEF Told
  <2>2. Told' = Told
    BY <1>1, <2>1
  <2> QED
    BY <2>2 DEF Begun, Copied
<1>3. Turns' /\ Paced' /\ Mirrors'
  BY <1>2 DEF InStep, Turns, Paced, Mirrors
<1>4. TokensDated' /\ TokensSorted'
  BY <1>2 DEF InStep, TokensDated, TokensSorted
<1>5. InTime'
  <2> SUFFICES ASSUME pipe # <<>> PROVE count <= Oldest' + SendPace
    BY DEF InTime
  <2>1. 1 \in 1 .. Len(pipe) /\ pipe[1] \in Nat
    BY DEF Base, TypeOK
  <2>2. Oldest' = pipe[1] /\ Oldest = due
    BY DEF Oldest
  <2>3. due <= pipe[1] /\ count <= due + SendPace
    BY <2>1, <2>2 DEF InStep, TokensSorted, InTime
  <2> QED
    BY <1>1, <2>1, <2>2, <2>3, HalfFacts
<1>6. Ahead'
  BY <1>1, <1>2 DEF InStep, Ahead
<1> QED
  BY <1>3, <1>4, <1>5, <1>6 DEF InStep

LEMMA ParentInStep ==
  ASSUME Base, CleanSession, InStep, ParentStep, CleanSession'
  PROVE  InStep'
<1> USE DEF CleanSession
<1>1. CASE ReadToken
  BY <1>1, ReadInStep
<1>2. CASE ReadEnd
  BY <1>2 DEF ReadEnd
<1>3. CASE SendWord
  <2>1. parent = "send" /\ UNCHANGED <<sharedVars, pipe, due>>
    BY <1>3 DEF SendWord, logVars, childVars, sharedVars
  <2>2. CASE UNCHANGED <<blocks, parent>>
    BY <2>1, <2>2, StillInStep
  <2>3. CASE blocks' = blocks + 1 /\ parent' = "read"
    BY <2>1, <2>3, SentInStep
  <2> QED
    BY <1>3, <2>2, <2>3 DEF SendWord, HalfSent
<1>4. CASE Finish \/ FirstReset
  BY <1>4 DEF Finish, FirstReset
<1> QED
  BY <1>1, <1>2, <1>3, <1>4 DEF ParentStep

LEMMA FateInStep ==
  ASSUME Base, CleanSession, InStep, ParentFate, CleanSession'
  PROVE  InStep'
<1> USE DEF CleanSession
<1>1. CASE Accept \/ Begin
  BY <1>1 DEF Accept, Begin, Run
<1>2. CASE WriteShort
  <2>1. /\ parent = "send" /\ blocks' = blocks + 1 /\ parent' \in {"read", "end"}
        /\ UNCHANGED <<sharedVars, pipe>>
    BY <1>2 DEF WriteShort, HalfSent, logVars, childVars, sharedVars
  <2> QED
    BY <2>1, SentInStep
<1>3. CASE SendFails \/ SendFailsStopped \/ SendKills \/ ErrorReturn
  BY <1>3 DEF SendFails, SendFailsStopped, SendKills, ErrorReturn, ParentDies
<1>4. ASSUME NEW terminal \in BOOLEAN, Interrupt(terminal)
      PROVE  InStep'
  <2>1. /\ UNCHANGED <<limit, offset, copied, buf, count, lag, pipe, due>>
        /\ child' = IF terminal THEN "gone" ELSE child
    BY <1>4 DEF Interrupt, logVars
  <2>2. UNCHANGED sharedVars
    BY <2>1 DEF sharedVars
  <2>3. CASE UNCHANGED <<parent, blocks>>
    BY <2>1, <2>2, <2>3, StillInStep
  <2>4. CASE parent = "send" /\ HalfSent(TRUE)
    BY <2>1, <2>2, <2>4, SentInStep DEF HalfSent
  <2> QED
    BY <1>4, <2>3, <2>4 DEF Interrupt
<1>5. ASSUME NEW terminal \in BOOLEAN, InterruptDefault(terminal)
      PROVE  InStep'
  BY <1>5 DEF InterruptDefault, ParentDies
<1> QED
  BY <1>1, <1>2, <1>3, <1>4, <1>5 DEF ParentFate

LEMMA StepServerInv ==
  ASSUME ServerInv, [Next]_vars
  PROVE  ServerInv'
<1>1. Base /\ Base'
  BY StepBase DEF ServerInv
<1> SUFFICES ASSUME CleanSession' PROVE InStep'
  BY <1>1 DEF ServerInv
<1>2. CASE UNCHANGED vars
  <2>1. CleanSession /\ UNCHANGED <<sharedVars, pipe, parent, due, blocks>>
    BY <1>2 DEF CleanSession, vars, logVars, childVars, parentVars, sharedVars
  <2> QED
    BY <2>1, StillInStep DEF ServerInv
<1>3. CASE Next
  <2>0. CASE Run
    BY <1>1, <2>0, RunInStep DEF CleanSession
  <2> SUFFICES ASSUME ~Run PROVE InStep'
    BY <2>0
  <2>1. CleanSession /\ InStep
    BY <1>1, <1>3, CleanSessionBack DEF ServerInv
  <2>2. CASE WriterStores \/ StrayWord
    <3>1. ~StrayWord
      BY <2>1 DEF StrayWord, CleanSession, InSession
    <3> QED
      BY <1>1, <2>1, <2>2, <3>1, WriterInStep
  <2>3. CASE ChildStep
    <3>1. CASE BrokenPipe
      BY <3>1 DEF BrokenPipe, CleanSession
    <3> QED
      BY <1>1, <2>1, <2>3, <3>1, PollInStep, CopyInStep, TokenInStep DEF ChildStep
  <2>4. CASE ParentStep
    BY <1>1, <2>1, <2>4, ParentInStep
  <2>5. CASE UNCHANGED program /\ ParentFate
    BY <1>1, <2>1, <2>5, FateInStep
  <2> QED
    BY <1>3, <2>2, <2>3, <2>4, <2>5 DEF Next
<1> QED
  BY <1>2, <1>3

----------------------------------------------------------------------------
\* The word that goes out is in the buffer, and it is the next of the session.
LEMMA SentIsNext ==
  ASSUME ServerInv
  PROVE  SentInOrder
<1> SUFFICES ASSUME parent = "send", child # "gone", clean
             PROVE  Outgoing = blocks * Half + sent
  BY DEF SentInOrder, NextWord
<1>1. Base /\ InStep
  BY DEF ServerInv, CleanSession
<1>2. /\ blocks \in Nat /\ sent \in 0 .. Half - 1 /\ Begun \in Nat
      /\ Told \in Nat /\ Copied \in Nat /\ copied \in 0 .. Half
      /\ Told >= blocks + 1
  <2>1. blocks \in Nat /\ Begun \in Nat /\ Told \in Nat /\ Copied \in Nat
    BY <1>1, CountersAreNat
  <2>2. sent \in 0 .. Half - 1 /\ copied \in 0 .. Half
    BY <1>1, HalfFacts DEF Base, TypeOK, Alive
  <2>3. Told - Len(pipe) = blocks + 1 /\ Len(pipe) \in Nat
    BY <1>1, CountersAreNat
  <2> QED
    BY <2>1, <2>2, <2>3
<1> DEFINE w == Start(blocks) + sent
<1>3. /\ Start(blocks) \in Nat /\ Start(blocks + 1) = Start(blocks) + Half
      /\ Start(blocks + 2) = Start(blocks) + Size
  <2>1. blocks + 1 \in Nat /\ (blocks + 1) + 1 = blocks + 2
    BY <1>2
  <2>2. Start((blocks + 1) + 1) = Start(blocks + 1) + Half
    BY <2>1, StartFacts
  <2> QED
    BY <1>2, <2>1, <2>2, StartFacts, HalfFacts
\* The half is copied whole, and the copy is within a ring of it.
<1>4. Start(blocks + 1) <= Copied /\ Copied <= Start(blocks + 2)
  <2>1. Begun <= blocks + 2
    BY <1>1 DEF InStep, Ahead
  <2>2. Told = blocks + 1 \/ Told = blocks + 2
    BY <1>2, <2>1 DEF Begun
  <2>3. Begun = blocks + 1 \/ Begun = blocks + 2
    BY <1>2, <2>1, <2>2 DEF Begun
  <2>4. CASE child = "copy"
    <3>1. Begun = Told + 1
      BY <2>4 DEF Begun
    <3>2. Told = blocks + 1
      BY <1>2, <2>1, <2>2, <3>1
    <3>3. Copied = Start(blocks + 1) + copied
      BY <2>4, <3>2 DEF Copied
    <3> QED
      BY <1>2, <1>3, <3>3, HalfFacts
  <2>5. CASE child # "copy"
    <3>1. Copied = Start(Begun)
      BY <2>5 DEF Copied
    <3> QED
      BY <1>3, <2>3, <3>1, HalfFacts
  <2> QED
    BY <2>4, <2>5
<1>5. w \in 0 .. Copied - 1 /\ w >= Copied - Size
  BY <1>2, <1>3, <1>4, HalfFacts
<1>6. buf[w % Size] = w
  BY <1>1, <1>5 DEF InStep, Mirrors
<1>7. w % Size = (blocks % 2) * Half + sent
  <2>1. CASE blocks % 2 = 0
    BY <1>2, <2>1, SlotFacts, HalfFacts
  <2>2. CASE blocks % 2 = 1
    <3>1. w % Size = Half + sent
      BY <1>2, <2>2, SlotFacts
    <3> QED
      BY <1>2, <2>2, <3>1, HalfFacts
  <2> QED
    BY <1>2, <2>1, <2>2
<1> QED
  BY <1>6, <1>7 DEF Outgoing, Start

\* ... and the writer has filled its half.
LEMMA SentIsReady ==
  ASSUME ServerInv, clean
  PROVE  SendsWhenReady
<1> SUFFICES ASSUME parent = "send", ~stop
             PROVE  Start(blocks + 1) <= count
  BY DEF SendsWhenReady, Start
<1>1. Base /\ InStep /\ child # "gone"
  BY DEF ServerInv, Base, Alive, CleanSession
<1>2. /\ blocks \in Nat /\ Begun \in Nat /\ Told \in Nat
      /\ Told >= blocks + 1 /\ Begun >= blocks + 1 /\ Begun <= blocks + 2
  <2>1. /\ blocks \in Nat /\ Begun \in Nat /\ Told \in Nat /\ Len(pipe) \in Nat
        /\ Told - Len(pipe) = blocks + 1
    BY <1>1, CountersAreNat
  <2>2. Told >= blocks + 1 /\ (Begun = Told \/ Begun = Told + 1)
    BY <2>1 DEF Begun
  <2>3. Begun <= blocks + 2
    BY <1>1 DEF InStep, Ahead
  <2> QED
    BY <2>1, <2>2, <2>3
<1>3. Start(Begun) <= count /\ count \in Nat
  BY <1>1, CountersAreNat DEF InStep, Paced
<1>4. /\ Start(blocks + 1) \in Nat /\ Start((blocks + 1) + 1) = Start(blocks + 1) + Half
  <2>1. blocks + 1 \in Nat
    BY <1>2
  <2> QED
    BY <2>1, StartFacts
<1>5. Begun = blocks + 1 \/ Begun = (blocks + 1) + 1
  BY <1>2
<1> QED
  BY <1>3, <1>4, <1>5, HalfFacts

\* A session that finds the child waiting for its first half and the pipe empty
\* gets its words one after the other from the first on, whatever the child did
\* over the hardware that the parent found, and whichever session it is.
THEOREM CleanSessionInOrder == Spec => []SentInOrder
BY InitServerInv, StepServerInv, SentIsNext, PTL DEF Spec

\* ... and no half before the writer has filled it.
THEOREM CleanSessionWhenReady == Spec => [](clean => SendsWhenReady)
BY InitServerInv, StepServerInv, SentIsReady, PTL DEF Spec

\* Over hardware in reset the child waits until the first session begins, which
\* is clean, then.
FirstIsClean ==
  /\ parent \in {"start", "reset"} /\ sessions = 0 =>
       ~released /\ position = 0 /\ child = "poll" /\ limit = Half /\ pipe = <<>>
  /\ parent \in {"read", "send"} /\ sessions <= 1 => clean

LEMMA InitFirst == Init /\ ~released => Base /\ FirstIsClean
BY InitBase DEF Init, FirstIsClean

LEMMA StepFirst ==
  ASSUME Base, FirstIsClean, [Next]_vars
  PROVE  FirstIsClean'
<1> USE DEF FirstIsClean
<1>1. CASE UNCHANGED vars
  BY <1>1 DEF vars, logVars, childVars, parentVars
<1>2. CASE WriterStores \/ StrayWord
  BY <1>2 DEF WriterStores, StrayWord, InSession, childVars, parentVars
<1>3. CASE ChildStep
  <2>1. CASE Poll
    <3>1. parent \in {"start", "reset"} /\ sessions = 0 => ~Ready
      BY HalfFacts DEF Ready
    <3> QED
      BY <2>1, <3>1 DEF Poll, logVars, childVars, parentVars
  <2>2. CASE CopyWord \/ WriteToken \/ BrokenPipe
    BY <2>2 DEF CopyWord, WriteToken, BrokenPipe, logVars, childVars, parentVars
  <2> QED
    BY <1>3, <2>1, <2>2 DEF ChildStep
<1>4. CASE ParentStep
  <2>1. CASE FirstReset
    <3>1. pipe = <<>> => pipe' = <<>>
      BY <2>1 DEF FirstReset, ResetHardware, SessionOver
    <3> QED
      BY <2>1, <3>1 DEF FirstReset, ResetHardware, childVars
  <2>2. CASE ReadToken \/ ReadEnd \/ SendWord \/ Finish
    BY <2>2 DEF ReadToken, ReadEnd, SendWord, Finish, HalfSent
  <2> QED
    BY <1>4, <2>1, <2>2 DEF ParentStep
<1>5. CASE Accept \/ Begin
  <2>1. sessions \in Nat /\ (Begin => sessions' = sessions) /\ (Accept => sessions' = sessions + 1)
    BY DEF Base, TypeOK, Accept, Begin
  <2>2. sessions' <= 1 => sessions = 0
    <3>1. CASE Accept
      BY <2>1, <3>1
    <3>2. CASE Begin
      BY <3>2 DEF Base, Alive, Begin
    <3> QED
      BY <1>5, <3>1, <3>2
  <2> QED
    BY <1>5, <2>2 DEF Accept, Begin, Run
<1>6. CASE SendFails
  BY <1>6 DEF SendFails, Base, TypeOK, Alive
<1>7. CASE WriteShort \/ SendFailsStopped \/ SendKills \/ ErrorReturn
  BY <1>7 DEF WriteShort, SendFailsStopped, SendKills, ErrorReturn, ParentDies, HalfSent
<1>8. ASSUME NEW terminal \in BOOLEAN, Interrupt(terminal) \/ InterruptDefault(terminal)
      PROVE  FirstIsClean'
  BY <1>8 DEF Interrupt, InterruptDefault, ParentDies, HalfSent
<1> QED
  BY <1>1, <1>2, <1>3, <1>4, <1>5, <1>6, <1>7, <1>8 DEF Next, ParentFate

\* Over hardware that was found in reset the first client of a server, and the
\* file of the recorder, which has no other session, gets the stream in order,
\* clean or not being no longer a condition.
THEOREM FirstSessionInOrder ==
  Spec /\ ~released => [](parent = "send" /\ child # "gone" /\ sessions <= 1 => NextWord)
<1>1. FirstIsClean /\ SentInOrder =>
        (parent = "send" /\ child # "gone" /\ sessions <= 1 => NextWord)
  BY DEF FirstIsClean, SentInOrder
<1> QED
  BY <1>1, InitFirst, StepBase, StepFirst, CleanSessionInOrder, PTL DEF Spec

----------------------------------------------------------------------------
(* axidma.c.                                                               *)

ModuleTypes ==
  /\ pc \in Ended \cup {"request", "alloc", "prep rx", "prep tx", "start rx", "start tx",
                        "wait", "unmap", "verify", "free", "release"}
  /\ alloc \subseteq {"src", "dest"} /\ mapped \subseteq {"src", "dest"}
  /\ held \subseteq Channels /\ submitted \subseteq Channels
  /\ timedOut \in BOOLEAN /\ failed \in BOOLEAN

EngineTypes ==
  /\ read \in 0 .. Length
  /\ loop \in Seq(0 .. Length - 1)
  /\ dest \in Seq(0 .. Length - 1)

\* What has left the source is in the destination or between the channels, in
\* its order.
InTransit ==
  /\ read = Len(dest) + Len(loop)
  /\ \A i \in 1 .. Len(dest) : dest[i] = i - 1
  /\ \A i \in 1 .. Len(loop) : loop[i] = Len(dest) + i - 1

\* The callback of the transmit channel comes when it has read everything.
DoneIsRead == "tx" \in cmp => read = Length

LoopbackInv ==
  /\ ModuleTypes /\ EngineTypes
  /\ issued \subseteq Channels /\ cmp \subseteq Channels
  /\ InTransit /\ DoneIsRead /\ SourceIsDone

LEMMA LoopbackInitInv == LoopbackInit => LoopbackInv
<1> SUFFICES ASSUME LoopbackInit PROVE LoopbackInv
  OBVIOUS
<1>1. ModuleTypes
  <2>1. timedOut \in BOOLEAN /\ failed \in BOOLEAN
    BY DEF LoopbackInit
  <2> QED
    BY <2>1 DEF LoopbackInit, ModuleTypes, Ended
<1>2. EngineTypes
  BY LoopbackAssumption DEF LoopbackInit, EngineTypes
<1>3. InTransit
  BY DEF LoopbackInit, InTransit
<1> QED
  BY <1>1, <1>2, <1>3 DEF LoopbackInit, LoopbackInv, DoneIsRead, SourceIsDone

\* The module's own steps move no word; of them only the end of the wait comes
\* to where the source is given back.
LEMMA ModuleStep ==
  ASSUME LoopbackInv, Program
  PROVE  LoopbackInv'
<1>1. UNCHANGED <<read, loop, dest>>
  BY DEF Program, RequestChannels, Allocate, PrepRx, PrepTx, StartRx, StartTx, WaitEnds,
         Unmap, Verify, Free, Release, engineVars
<1>2. EngineTypes' /\ InTransit'
  BY <1>1 DEF LoopbackInv, EngineTypes, InTransit
<1>3. cmp' \subseteq cmp /\ issued' \subseteq Channels
  BY DEF Program, RequestChannels, Allocate, PrepRx, PrepTx, StartRx, StartTx, WaitEnds,
         Unmap, Verify, Free, Release, LoopbackInv, Channels
<1>4. DoneIsRead'
  BY <1>1, <1>3 DEF LoopbackInv, DoneIsRead
<1>5. SourceIsDone'
  <2>1. CASE WaitEnds
    <3>1. timedOut' \/ "tx" \in cmp
      BY <2>1 DEF WaitEnds
    <3> QED
      BY <3>1, <1>1 DEF LoopbackInv, DoneIsRead, SourceIsDone
  <2>2. CASE Unmap \/ Verify \/ Free
    <3>1. pc \in {"unmap", "verify", "free"} /\ timedOut' = timedOut
      BY <2>2 DEF Unmap, Verify, Free
    <3> QED
      BY <3>1, <1>1 DEF LoopbackInv, SourceIsDone
  <2>3. CASE ~(WaitEnds \/ Unmap \/ Verify \/ Free)
    <3>1. pc' \notin {"unmap", "verify", "free"}
      BY <2>3 DEF Program, RequestChannels, Allocate, PrepRx, PrepTx, StartRx, StartTx, Release
    <3> QED
      BY <3>1 DEF SourceIsDone
  <2> QED
    BY <2>1, <2>2, <2>3
<1>6. ModuleTypes'
  <2> USE DEF LoopbackInv, ModuleTypes, Ended, Channels
  <2>1. ASSUME NEW granted \in SUBSET Channels, RequestChannels(granted) PROVE ModuleTypes'
    BY <2>1 DEF RequestChannels
  <2>2. ASSUME NEW bufs \in SUBSET {"src", "dest"}, Allocate(bufs) PROVE ModuleTypes'
    BY <2>2 DEF Allocate
  <2>3. ASSUME NEW ok \in BOOLEAN, PrepRx(ok) \/ PrepTx(ok) PROVE ModuleTypes'
    BY <2>3 DEF PrepRx, PrepTx
  <2>4. CASE StartRx \/ StartTx \/ Unmap \/ Free \/ Release
    BY <2>4 DEF StartRx, StartTx, Unmap, Free, Release
  <2>5. CASE WaitEnds
    <3>1. timedOut' \in BOOLEAN
      BY <2>5 DEF WaitEnds
    <3> QED
      BY <2>5, <3>1 DEF WaitEnds
  <2>6. CASE Verify
    <3>1. failed' \in BOOLEAN
      BY <2>6 DEF Verify
    <3> QED
      BY <2>6, <3>1 DEF Verify
  <2> QED
    BY <2>1, <2>2, <2>3, <2>4, <2>5, <2>6 DEF Program
<1> QED
  BY <1>2, <1>3, <1>4, <1>5, <1>6 DEF LoopbackInv

\* A word goes on in its order, and a channel calls back when it is done.
LEMMA EngineStep ==
  ASSUME LoopbackInv, Engine
  PROVE  LoopbackInv'
<1>1. UNCHANGED <<pc, alloc, mapped, held, submitted, timedOut, failed, issued>>
  BY DEF Engine, TxMoves, RxMoves, Callback, programVars
<1>2. ModuleTypes' /\ issued' \subseteq Channels
  BY <1>1 DEF LoopbackInv, ModuleTypes
<1>3. EngineTypes
  BY DEF LoopbackInv
<1>4. CASE TxMoves
  <2>1. /\ read \in 0 .. Length - 1 /\ read' = read + 1 /\ loop' = Append(loop, read)
        /\ UNCHANGED <<dest, cmp>>
    BY <1>3, <1>4, LoopbackAssumption DEF TxMoves, EngineTypes
  <2>2. /\ loop' \in Seq(0 .. Length - 1) /\ Len(loop) \in Nat /\ Len(loop') = Len(loop) + 1
        /\ loop'[Len(loop) + 1] = read
        /\ \A i \in 1 .. Len(loop) : loop'[i] = loop[i]
    BY <1>3, <2>1, AppendFacts DEF EngineTypes
  <2>3. Len(dest) \in Nat
    BY <1>3 DEF EngineTypes
  <2>4. InTransit'
    BY <2>1, <2>2, <2>3 DEF LoopbackInv, InTransit
  <2>5. EngineTypes'
    BY <1>3, <2>1, <2>2, LoopbackAssumption DEF EngineTypes
  <2>6. DoneIsRead' /\ SourceIsDone'
    BY <1>1, <2>1, LoopbackAssumption DEF LoopbackInv, DoneIsRead, SourceIsDone
  <2> QED
    BY <1>2, <2>1, <2>4, <2>5, <2>6 DEF LoopbackInv
<1>5. CASE RxMoves
  <2>1. /\ loop # <<>> /\ loop' = Tail(loop) /\ dest' = Append(dest, Head(loop))
        /\ UNCHANGED <<read, cmp>>
    BY <1>5 DEF RxMoves
  <2>2. /\ loop' \in Seq(0 .. Length - 1) /\ Len(loop) \in Nat \ {0}
        /\ Len(loop') = Len(loop) - 1 /\ Head(loop) = loop[1] /\ loop[1] \in 0 .. Length - 1
        /\ \A i \in 1 .. Len(loop) - 1 : loop'[i] = loop[i + 1]
    BY <1>3, <2>1, TailFacts DEF EngineTypes
  <2>3. /\ dest' \in Seq(0 .. Length - 1) /\ Len(dest) \in Nat /\ Len(dest') = Len(dest) + 1
        /\ dest'[Len(dest) + 1] = loop[1]
        /\ \A i \in 1 .. Len(dest) : dest'[i] = dest[i]
    BY <1>3, <2>1, <2>2, AppendFacts DEF EngineTypes
  <2>4. InTransit'
    <3>1. loop[1] = Len(dest)
      BY <2>2, <2>3 DEF LoopbackInv, InTransit
    <3>2. \A i \in 1 .. Len(dest') : dest'[i] = i - 1
      BY <2>3, <3>1 DEF LoopbackInv, InTransit
    <3>3. \A i \in 1 .. Len(loop') : loop'[i] = Len(dest') + i - 1
      BY <2>2, <2>3 DEF LoopbackInv, InTransit
    <3>4. read' = Len(dest') + Len(loop')
      BY <2>1, <2>2, <2>3 DEF LoopbackInv, InTransit
    <3> QED
      BY <3>2, <3>3, <3>4 DEF InTransit
  <2>5. EngineTypes'
    BY <1>3, <2>1, <2>2, <2>3 DEF EngineTypes
  <2>6. DoneIsRead' /\ SourceIsDone'
    BY <1>1, <2>1 DEF LoopbackInv, DoneIsRead, SourceIsDone
  <2> QED
    BY <1>2, <2>1, <2>4, <2>5, <2>6 DEF LoopbackInv
<1>6. ASSUME NEW ch \in Channels, Callback(ch) PROVE LoopbackInv'
  <2>1. UNCHANGED <<read, loop, dest>> /\ cmp' \subseteq Channels
    BY <1>6 DEF Callback, engineVars, LoopbackInv
  <2>2. DoneIsRead'
    BY <1>6, <2>1 DEF Callback, LoopbackInv, DoneIsRead
  <2>3. InTransit' /\ EngineTypes' /\ SourceIsDone'
    BY <1>1, <2>1 DEF LoopbackInv, InTransit, EngineTypes, SourceIsDone
  <2> QED
    BY <1>2, <2>1, <2>2, <2>3 DEF LoopbackInv
<1> QED
  BY <1>4, <1>5, <1>6 DEF Engine

\* Either side keeps the invariant.
LEMMA LoopbackStepInv == LoopbackInv /\ [LoopbackNext]_loopbackVars => LoopbackInv'
<1>1. ASSUME LoopbackInv, UNCHANGED loopbackVars PROVE LoopbackInv'
  <2>1. UNCHANGED <<pc, alloc, mapped, held, submitted, timedOut, failed, issued, cmp>>
        /\ UNCHANGED <<read, loop, dest>>
    BY <1>1 DEF loopbackVars, programVars, engineVars
  <2>2. ModuleTypes'
    BY <1>1, <2>1 DEF LoopbackInv, ModuleTypes
  <2>3. InTransit' /\ EngineTypes'
    BY <1>1, <2>1 DEF LoopbackInv, InTransit, EngineTypes
  <2>4. DoneIsRead' /\ SourceIsDone'
    BY <1>1, <2>1 DEF LoopbackInv, DoneIsRead, SourceIsDone
  <2> QED
    BY <1>1, <2>1, <2>2, <2>3, <2>4 DEF LoopbackInv
<1> QED
  BY <1>1, ModuleStep, EngineStep DEF LoopbackNext, Returned

\* Where the comparison fails a word is missing: those that came are right.
LEMMA FailureStep ==
  ASSUME LoopbackInv, LoopbackNext, ~failed, failed'
  PROVE  Len(dest) < Length
<1>1. Verify
  BY DEF LoopbackNext, Program, Engine, Returned, RequestChannels, Allocate, PrepRx, PrepTx,
         StartRx, StartTx, WaitEnds, Unmap, Free, Release, TxMoves, RxMoves, Callback,
         programVars, loopbackVars
<1>2. PICK i \in 1 .. Length : IF i \in DOMAIN dest THEN dest[i] # i - 1 ELSE i # 1
  BY <1>1 DEF Verify
<1>3. Len(dest) \in Nat /\ DOMAIN dest = 1 .. Len(dest)
  BY DEF LoopbackInv, EngineTypes
<1>4. i \notin 1 .. Len(dest)
  BY <1>2, <1>3 DEF LoopbackInv, InTransit
<1> QED
  BY <1>3, <1>4, LoopbackAssumption

----------------------------------------------------------------------------
(* xaxidma_example_sg_poll.c.                                              *)

RingTypes == ring \in [{"tx", "rx"} -> [{"free", "mine", "hw", "done"} -> Int]]

Counts(c, f, m, h, d) ==
  ring[c].free = f /\ ring[c].mine = m /\ ring[c].hw = h /\ ring[c].done = d

\* The steps of main before the transfer, with it, after the check that found
\* the packet, and after either verdict.
Before == {"init", "tx create", "tx start", "rx create", "rx attach", "rx clear", "rx to hw",
           "rx start", "fill", "tx alloc", "tx to hw"}
During == {"tx poll", "tx free", "rx poll"}
Checked == {"rx free", "rx again", "rx to hw again", "passed"}
After == {"check", "data error"} \cup Checked

\* The words of the packet that were read, and those of them that were stored,
\* a descriptor that is done counted for all of them.
WordsRead == IF at \in Before THEN 0
             ELSE IF at = "tx poll" /\ ring["tx"].done = 0 THEN got ELSE Length
WordsKept == IF at \in Before THEN 0
             ELSE IF at \in During /\ ring["rx"].done = 0 THEN stored ELSE Length

\* Where the descriptors are.
TxRing ==
  /\ at \in {"init", "tx create"} => Counts("tx", 0, 0, 0, 0)
  /\ at \in (Before \ {"init", "tx create", "tx to hw"}) \cup {"rx poll"} \cup After =>
       Counts("tx", Bds, 0, 0, 0)
  /\ at \in {"tx to hw", "tx free"} => Counts("tx", Bds - 1, 1, 0, 0)
  /\ at = "tx poll" =>
       Counts("tx", Bds - 1, 0, 1, 0) \/ Counts("tx", Bds - 1, 0, 0, 1)

RxRing ==
  /\ at \in {"init", "tx create", "tx start", "rx create"} => Counts("rx", 0, 0, 0, 0)
  /\ at = "rx attach" => Counts("rx", Bds, 0, 0, 0)
  /\ at \in {"rx clear", "rx to hw"} => Counts("rx", 0, Bds, 0, 0)
  /\ at \in {"rx start", "fill", "tx alloc", "tx to hw"} => Counts("rx", 0, 0, Bds, 0)
  /\ at \in During =>
       Counts("rx", 0, 0, Bds, 0) \/ Counts("rx", 0, 0, Bds - 1, 1)
  /\ at \in {"check", "data error", "rx free", "rx to hw again"} =>
       Counts("rx", 0, 1, Bds - 1, 0)
  /\ at = "rx again" => Counts("rx", 1, 0, Bds - 1, 0)
  /\ at = "passed" => Counts("rx", 0, 0, Bds, 0)

\* What was read is stored or on its way, ...
Moving ==
  /\ got \in 0 .. Length /\ stored \in 0 .. Length
  /\ WordsRead = WordsKept + Len(wire)
  /\ got > 0 => at = "tx poll" /\ ring["tx"].done = 0
  /\ stored > 0 => at \in During /\ ring["rx"].done = 0

\* ... and all of it is the packet's: it was flushed before the transmit
\* descriptor went to the hardware.
AllFlushed ==
  /\ wire \in Seq({TRUE})
  /\ at \in {"tx alloc", "tx to hw", "tx poll"} => flushed = TRUE

Flow == Moving /\ AllFlushed

\* Memory holds what was stored, if the cache did not write its line over it.
ReceiveBuffer ==
  /\ line \in {"clean", "dirty"}
  /\ ~late => good = 1 .. WordsKept
  /\ late => line = "clean" /\ at \notin Before
  /\ at \in Checked \cup {"data error"} => line = "clean"
  /\ at \in Checked => good = 1 .. Length
  /\ at = "data error" => late

\* A call that failed has ended the test.
ExampleInv ==
  at # "failed" => at \in Before \cup During \cup After /\ RingTypes /\ TxRing /\ RxRing /\ Flow /\ ReceiveBuffer

\* n descriptors of ring c go from one state to another.
Passes(c, n, from, to) == ring' = [ring EXCEPT ![c] = Sg!Moved(ring[c], n, from, to)]

\* Descriptors that are passed on; the other ring is as it was.
LEMMA PassFacts ==
  ASSUME RingTypes, NEW c \in {"tx", "rx"}, NEW n \in Int,
         NEW from \in {"free", "mine", "hw", "done"}, NEW to \in {"free", "mine", "hw", "done"},
         from # to, Passes(c, n, from, to)
  PROVE  /\ RingTypes'
         /\ ring'[c][from] = ring[c][from] - n /\ ring'[c][to] = ring[c][to] + n
         /\ \A s \in {"free", "mine", "hw", "done"} \ {from, to} : ring'[c][s] = ring[c][s]
         /\ \A e \in {"tx", "rx"} \ {c} : ring'[e] = ring[e]
<1> DEFINE bds == Sg!Moved(ring[c], n, from, to)
<1>1. ring[c] \in [{"free", "mine", "hw", "done"} -> Int]
  BY DEF RingTypes
<1>2. /\ bds \in [{"free", "mine", "hw", "done"} -> Int]
      /\ bds[from] = ring[c][from] - n /\ bds[to] = ring[c][to] + n
      /\ \A s \in {"free", "mine", "hw", "done"} \ {from, to} : bds[s] = ring[c][s]
  BY <1>1 DEF Sg!Moved
<1>3. ring' = [ring EXCEPT ![c] = bds]
  BY DEF Passes
<1> HIDE DEF bds
<1>4. RingTypes' /\ ring'[c] = bds /\ \A e \in {"tx", "rx"} \ {c} : ring'[e] = ring[e]
  BY <1>2, <1>3 DEF RingTypes
<1> QED
  BY <1>2, <1>4

\* ... with all four counts of the ring,
LEMMA PassCounts ==
  ASSUME RingTypes, NEW c \in {"tx", "rx"}, NEW n \in Int,
         NEW f \in Int, NEW m \in Int, NEW h \in Int, NEW d \in Int, Counts(c, f, m, h, d)
  PROVE  /\ Passes(c, n, "free", "mine") => Counts(c, f - n, m + n, h, d)'
         /\ Passes(c, n, "mine", "free") => Counts(c, f + n, m - n, h, d)'
         /\ Passes(c, n, "mine", "hw") => Counts(c, f, m - n, h + n, d)'
         /\ Passes(c, n, "hw", "done") => Counts(c, f, m, h - n, d + n)'
         /\ Passes(c, n, "done", "mine") => Counts(c, f, m + n, h, d - n)'
<1>1. Passes(c, n, "free", "mine") => Counts(c, f - n, m + n, h, d)'
  <2> SUFFICES ASSUME Passes(c, n, "free", "mine") PROVE Counts(c, f - n, m + n, h, d)'
    OBVIOUS
  <2>1. /\ ring'[c]["free"] = ring[c]["free"] - n /\ ring'[c]["mine"] = ring[c]["mine"] + n
        /\ ring'[c]["hw"] = ring[c]["hw"] /\ ring'[c]["done"] = ring[c]["done"]
    BY PassFacts
  <2> QED
    BY <2>1 DEF Counts
<1>2. Passes(c, n, "mine", "free") => Counts(c, f + n, m - n, h, d)'
  <2> SUFFICES ASSUME Passes(c, n, "mine", "free") PROVE Counts(c, f + n, m - n, h, d)'
    OBVIOUS
  <2>1. /\ ring'[c]["mine"] = ring[c]["mine"] - n /\ ring'[c]["free"] = ring[c]["free"] + n
        /\ ring'[c]["hw"] = ring[c]["hw"] /\ ring'[c]["done"] = ring[c]["done"]
    BY PassFacts
  <2> QED
    BY <2>1 DEF Counts
<1>3. Passes(c, n, "mine", "hw") => Counts(c, f, m - n, h + n, d)'
  <2> SUFFICES ASSUME Passes(c, n, "mine", "hw") PROVE Counts(c, f, m - n, h + n, d)'
    OBVIOUS
  <2>1. /\ ring'[c]["mine"] = ring[c]["mine"] - n /\ ring'[c]["hw"] = ring[c]["hw"] + n
        /\ ring'[c]["free"] = ring[c]["free"] /\ ring'[c]["done"] = ring[c]["done"]
    BY PassFacts
  <2> QED
    BY <2>1 DEF Counts
<1>4. Passes(c, n, "hw", "done") => Counts(c, f, m, h - n, d + n)'
  <2> SUFFICES ASSUME Passes(c, n, "hw", "done") PROVE Counts(c, f, m, h - n, d + n)'
    OBVIOUS
  <2>1. /\ ring'[c]["hw"] = ring[c]["hw"] - n /\ ring'[c]["done"] = ring[c]["done"] + n
        /\ ring'[c]["free"] = ring[c]["free"] /\ ring'[c]["mine"] = ring[c]["mine"]
    BY PassFacts
  <2> QED
    BY <2>1 DEF Counts
<1>5. Passes(c, n, "done", "mine") => Counts(c, f, m + n, h, d - n)'
  <2> SUFFICES ASSUME Passes(c, n, "done", "mine") PROVE Counts(c, f, m + n, h, d - n)'
    OBVIOUS
  <2>1. /\ ring'[c]["done"] = ring[c]["done"] - n /\ ring'[c]["mine"] = ring[c]["mine"] + n
        /\ ring'[c]["free"] = ring[c]["free"] /\ ring'[c]["hw"] = ring[c]["hw"]
    BY PassFacts
  <2> QED
    BY <2>1 DEF Counts
<1> QED
  BY <1>1, <1>2, <1>3, <1>4, <1>5

\* ... and the other ring as it was.
LEMMA PassRest ==
  ASSUME RingTypes, NEW n \in Int,
         NEW from \in {"free", "mine", "hw", "done"}, NEW to \in {"free", "mine", "hw", "done"}, from # to
  PROVE  /\ Passes("tx", n, from, to) => RingTypes' /\ ring'["rx"] = ring["rx"]
         /\ Passes("rx", n, from, to) => RingTypes' /\ ring'["tx"] = ring["tx"]
BY PassFacts

SetsUp(c) == ring' = [ring EXCEPT ![c].free = Bds]

\* A ring that is set up has all its descriptors free.
LEMMA SetUpFacts ==
  ASSUME RingTypes, NEW c \in {"tx", "rx"}, SetsUp(c)
  PROVE  /\ RingTypes' /\ ring'[c].free = Bds
         /\ \A s \in {"mine", "hw", "done"} : ring'[c][s] = ring[c][s]
         /\ \A e \in {"tx", "rx"} \ {c} : ring'[e] = ring[e]
<1>1. ring' = [ring EXCEPT ![c].free = Bds] /\ Bds \in Int
  BY TestAssumption DEF SetsUp
<1>2. RingTypes' /\ ring'[c].free = Bds
  BY <1>1 DEF RingTypes
<1>3. \A s \in {"mine", "hw", "done"} : ring'[c][s] = ring[c][s]
  BY <1>1 DEF RingTypes
<1>4. \A e \in {"tx", "rx"} : e # c => ring'[e] = ring[e]
  BY <1>1 DEF RingTypes
<1> QED
  BY <1>2, <1>3, <1>4

LEMMA ExampleInitInv == Sg!SgInit => ExampleInv
<1> SUFFICES ASSUME Sg!SgInit PROVE ExampleInv
  OBVIOUS
<1>1. RingTypes /\ Counts("tx", 0, 0, 0, 0) /\ Counts("rx", 0, 0, 0, 0)
  BY DEF Sg!SgInit, Sg!NoBds, Sg!BdStates, RingTypes, Counts
<1>2. TxRing /\ RxRing
  BY <1>1 DEF Sg!SgInit, TxRing, RxRing, Before, During, Checked, After
<1>3. Flow
  BY LoopbackAssumption DEF Sg!SgInit, Flow, Moving, AllFlushed, WordsRead, WordsKept, Before, During
<1>4. ReceiveBuffer
  BY DEF Sg!SgInit, ReceiveBuffer, WordsKept, Before, Checked
<1> QED
  BY <1>1, <1>2, <1>3, <1>4 DEF Sg!SgInit, ExampleInv, Before

\* The steps of main that end the test aside, ...
LEMMA TxSetupStep ==
  ASSUME ExampleInv, at' # "failed", NEW ok \in BOOLEAN,
         Sg!TxSetup(ok) \/ \E core \in Cores : Sg!Initialise(core, ok)
  PROVE  ExampleInv'
<1> USE TestAssumption, LoopbackAssumption DEF Sg!Step, Sg!hardwareVars, Sg!memoryVars
<1>1. ok
  BY DEF Sg!TxSetup, Sg!Initialise, Sg!TxCreate, Sg!TxStart
<1>2. at' \in {"tx create", "tx start", "rx create"} /\ at \in {"init", "tx create", "tx start"} 
      /\ UNCHANGED <<flushed, got, wire, stored, line, good, late>>
  BY DEF Sg!TxSetup, Sg!Initialise, Sg!TxCreate, Sg!TxStart
<1>3. RingTypes /\ TxRing /\ RxRing /\ Flow /\ ReceiveBuffer
  BY <1>2 DEF ExampleInv
<1>4. RingTypes' /\ TxRing' /\ RxRing'
  <2>1. CASE \E core \in Cores : Sg!Initialise(core, ok)
    BY <1>1, <1>3, <2>1 DEF Sg!Initialise, RingTypes, TxRing, RxRing, Counts, Before, During, Checked, After
  <2>2. CASE Sg!TxCreate(ok)
    <3>1. SetsUp("tx") /\ at = "tx create" /\ at' = "tx start"
      BY <1>1, <2>2 DEF Sg!TxCreate, Sg!SetUp, SetsUp
    <3>2. RingTypes' /\ ring'["rx"] = ring["rx"] /\ ring'["tx"].free = Bds
          /\ \A s \in {"mine", "hw", "done"} : ring'["tx"][s] = ring["tx"][s]
      BY <1>3, <3>1, SetUpFacts
    <3> QED
      BY <1>3, <3>1, <3>2 DEF TxRing, RxRing, Counts, Before, During, Checked, After
  <2>3. CASE Sg!TxStart(ok)
    BY <1>1, <1>3, <2>3 DEF Sg!TxStart, RingTypes, TxRing, RxRing, Counts, Before, During, Checked, After
  <2> QED
    BY <2>1, <2>2, <2>3 DEF Sg!TxSetup
<1>5. Flow'
  <2>1. AllFlushed'
    BY <1>2, <1>3 DEF Flow, AllFlushed
  <2>2. Moving'
    BY <1>2, <1>3 DEF Flow, Moving, WordsRead, WordsKept, Before, During
  <2> QED
    BY <2>1, <2>2 DEF Flow
<1>6. ReceiveBuffer'
  BY <1>2, <1>3 DEF ReceiveBuffer, WordsKept, Before, Checked
<1> QED
  BY <1>2, <1>4, <1>5, <1>6 DEF ExampleInv, Before

\* Setting up the receive ring, call by call.
LEMMA RxSetupStep ==
  ASSUME ExampleInv, at' # "failed", NEW ok \in BOOLEAN, Sg!RxSetup(ok)
  PROVE  ExampleInv'
<1> USE TestAssumption DEF Sg!Step, Sg!hardwareVars, Sg!memoryVars
<1>1. ok \/ Sg!RxClear
  BY DEF Sg!RxSetup, Sg!RxCreate, Sg!RxAttach, Sg!RxToHw, Sg!RxStart
<1>2. /\ at \in {"rx create", "rx attach", "rx clear", "rx to hw", "rx start"}
      /\ at' \in {"rx attach", "rx clear", "rx to hw", "rx start", "fill"}
      /\ UNCHANGED <<flushed, got, wire, stored, good, late>>
      /\ line' \in {line, "dirty"}
  BY DEF Sg!RxSetup, Sg!RxCreate, Sg!RxAttach, Sg!RxClear, Sg!RxToHw, Sg!RxStart
<1>3. RingTypes /\ TxRing /\ RxRing /\ Flow /\ ReceiveBuffer
  BY <1>2 DEF ExampleInv
<1>4. RingTypes' /\ TxRing' /\ RxRing'
  <2>1. CASE Sg!RxCreate(ok)
    <3>1. SetsUp("rx") /\ at = "rx create" /\ at' = "rx attach"
      BY <1>1, <2>1 DEF Sg!RxCreate, Sg!SetUp, Sg!RxClear, SetsUp
    <3>2. RingTypes' /\ ring'["tx"] = ring["tx"] /\ ring'["rx"].free = Bds
          /\ \A s \in {"mine", "hw", "done"} : ring'["rx"][s] = ring["rx"][s]
      BY <1>3, <3>1, SetUpFacts
    <3> QED
      BY <1>3, <3>1, <3>2 DEF TxRing, RxRing, Counts, Before, During, Checked, After
  <2>2. CASE Sg!RxAttach(ok)
    <3>1. at = "rx attach" /\ at' = "rx clear" /\ Passes("rx", ring["rx"].free, "free", "mine")
      BY <1>1, <2>2 DEF Sg!RxAttach, Sg!RxClear, Sg!Pass, Passes
    <3>2. Counts("rx", Bds, 0, 0, 0) /\ (Counts("tx", Bds, 0, 0, 0))
      BY <1>3, <3>1 DEF TxRing, RxRing, Before, During, Checked, After
    <3>3. Passes("rx", Bds, "free", "mine")
      BY <3>1, <3>2 DEF Counts
    <3>4. RingTypes' /\ ring'["tx"] = ring["tx"]
      BY <1>3, <3>3, PassRest
    <3>5. Counts("rx", Bds - Bds, 0 + Bds, 0, 0)'
      BY <1>3, <3>2, <3>3, PassCounts
    <3>6. Counts("rx", 0, Bds, 0, 0)'
      BY <3>5 DEF Counts
    <3>7. Counts("tx", Bds, 0, 0, 0)'
      BY <3>2, <3>4 DEF Counts
    <3> QED
      BY <3>1, <3>4, <3>6, <3>7 DEF TxRing, RxRing, Before, During, Checked, After
  <2>3. CASE Sg!RxClear
    <3>1. at = "rx clear" /\ at' = "rx to hw" /\ ring' = ring
      BY <1>1, <2>3 DEF Sg!RxClear
    <3>2. (Counts("tx", Bds, 0, 0, 0)) /\ (Counts("rx", 0, Bds, 0, 0))
      BY <1>3, <3>1 DEF TxRing, RxRing, Before, During, Checked, After
    <3>3. RingTypes' /\ (Counts("tx", Bds, 0, 0, 0)') /\ (Counts("rx", 0, Bds, 0, 0)')
      BY <1>3, <3>1, <3>2 DEF RingTypes, Counts
    <3> QED
      BY <3>1, <3>3 DEF TxRing, RxRing, Before, During, Checked, After
  <2>4. CASE Sg!RxToHw(ok)
    <3>1. at = "rx to hw" /\ at' = "rx start" /\ Passes("rx", ring["rx"].mine, "mine", "hw")
      BY <1>1, <2>4 DEF Sg!RxToHw, Sg!RxClear, Sg!Pass, Passes
    <3>2. Counts("rx", 0, Bds, 0, 0) /\ (Counts("tx", Bds, 0, 0, 0))
      BY <1>3, <3>1 DEF TxRing, RxRing, Before, During, Checked, After
    <3>3. Passes("rx", Bds, "mine", "hw")
      BY <3>1, <3>2 DEF Counts
    <3>4. RingTypes' /\ ring'["tx"] = ring["tx"]
      BY <1>3, <3>3, PassRest
    <3>5. Counts("rx", 0, Bds - Bds, 0 + Bds, 0)'
      BY <1>3, <3>2, <3>3, PassCounts
    <3>6. Counts("rx", 0, 0, Bds, 0)'
      BY <3>5 DEF Counts
    <3>7. Counts("tx", Bds, 0, 0, 0)'
      BY <3>2, <3>4 DEF Counts
    <3> QED
      BY <3>1, <3>4, <3>6, <3>7 DEF TxRing, RxRing, Before, During, Checked, After
  <2>5. CASE Sg!RxStart(ok)
    <3>1. at = "rx start" /\ at' = "fill" /\ ring' = ring
      BY <1>1, <2>5 DEF Sg!RxStart
    <3>2. (Counts("tx", Bds, 0, 0, 0)) /\ (Counts("rx", 0, 0, Bds, 0))
      BY <1>3, <3>1 DEF TxRing, RxRing, Before, During, Checked, After
    <3>3. RingTypes' /\ (Counts("tx", Bds, 0, 0, 0)') /\ (Counts("rx", 0, 0, Bds, 0)')
      BY <1>3, <3>1, <3>2 DEF RingTypes, Counts
    <3> QED
      BY <3>1, <3>3 DEF TxRing, RxRing, Before, During, Checked, After
  <2> QED
    BY <2>1, <2>2, <2>3, <2>4, <2>5 DEF Sg!RxSetup
<1>5. Flow'
  <2>1. AllFlushed'
    BY <1>2, <1>3 DEF Flow, AllFlushed
  <2>2. Moving'
    BY <1>2, <1>3 DEF Flow, Moving, WordsRead, WordsKept, Before, During
  <2> QED
    BY <2>1, <2>2 DEF Flow
<1>6. ReceiveBuffer'
  BY <1>2, <1>3 DEF ReceiveBuffer, WordsKept, Before, Checked
<1> QED
  BY <1>2, <1>4, <1>5, <1>6 DEF ExampleInv, Before

\* Sending the packet.
LEMMA SendPacketStep ==
  ASSUME ExampleInv, at' # "failed", NEW ok \in BOOLEAN, Sg!SendPacket(ok)
  PROVE  ExampleInv'
<1> USE TestAssumption, LoopbackAssumption DEF Sg!Step, Sg!hardwareVars, Sg!memoryVars
<1>1. ok \/ Sg!Fill
  BY DEF Sg!SendPacket, Sg!TxAlloc, Sg!TxToHw
<1>2. /\ at \in {"fill", "tx alloc", "tx to hw"} /\ at' \in {"tx alloc", "tx to hw", "tx poll"}
      /\ UNCHANGED <<got, wire, stored, line, good, late>>
      /\ flushed' = TRUE \/ (flushed' = flushed /\ at # "fill")
  BY DEF Sg!SendPacket, Sg!Fill, Sg!TxAlloc, Sg!TxToHw
<1>3. RingTypes /\ TxRing /\ RxRing /\ Flow /\ ReceiveBuffer
  BY <1>2 DEF ExampleInv
<1>4. /\ RingTypes' /\ TxRing' /\ RxRing'
      /\ at' = "tx poll" => ring'["tx"].done = 0 /\ ring'["rx"].done = 0
  <2>1. CASE Sg!Fill
    <3>1. at = "fill" /\ at' = "tx alloc" /\ ring' = ring
      BY <1>1, <2>1 DEF Sg!Fill
    <3>2. (Counts("tx", Bds, 0, 0, 0)) /\ (Counts("rx", 0, 0, Bds, 0))
      BY <1>3, <3>1 DEF TxRing, RxRing, Before, During, Checked, After
    <3>3. RingTypes' /\ (Counts("tx", Bds, 0, 0, 0)') /\ (Counts("rx", 0, 0, Bds, 0)')
      BY <1>3, <3>1, <3>2 DEF RingTypes, Counts
    <3> QED
      BY <3>1, <3>3 DEF TxRing, RxRing, Before, During, Checked, After
  <2>2. CASE Sg!TxAlloc(ok)
    <3>1. at = "tx alloc" /\ at' = "tx to hw" /\ Passes("tx", 1, "free", "mine")
      BY <1>1, <2>2 DEF Sg!TxAlloc, Sg!Fill, Sg!Pass, Passes
    <3>2. Counts("tx", Bds, 0, 0, 0) /\ (Counts("rx", 0, 0, Bds, 0))
      BY <1>3, <3>1 DEF TxRing, RxRing, Before, During, Checked, After
    <3>3. Passes("tx", 1, "free", "mine")
      BY <3>1, <3>2 DEF Counts
    <3>4. RingTypes' /\ ring'["rx"] = ring["rx"]
      BY <1>3, <3>3, PassRest
    <3>5. Counts("tx", Bds - 1, 0 + 1, 0, 0)'
      BY <1>3, <3>2, <3>3, PassCounts
    <3>6. Counts("tx", Bds - 1, 1, 0, 0)'
      BY <3>5 DEF Counts
    <3>7. Counts("rx", 0, 0, Bds, 0)'
      BY <3>2, <3>4 DEF Counts
    <3> QED
      BY <3>1, <3>4, <3>6, <3>7 DEF TxRing, RxRing, Before, During, Checked, After
  <2>3. CASE Sg!TxToHw(ok)
    <3>1. at = "tx to hw" /\ at' = "tx poll" /\ Passes("tx", 1, "mine", "hw")
      BY <1>1, <2>3 DEF Sg!TxToHw, Sg!Fill, Sg!Pass, Passes
    <3>2. Counts("tx", Bds - 1, 1, 0, 0) /\ (Counts("rx", 0, 0, Bds, 0))
      BY <1>3, <3>1 DEF TxRing, RxRing, Before, During, Checked, After
    <3>3. Passes("tx", 1, "mine", "hw")
      BY <3>1, <3>2 DEF Counts
    <3>4. RingTypes' /\ ring'["rx"] = ring["rx"]
      BY <1>3, <3>3, PassRest
    <3>5. Counts("tx", Bds - 1, 1 - 1, 0 + 1, 0)'
      BY <1>3, <3>2, <3>3, PassCounts
    <3>6. Counts("tx", Bds - 1, 0, 1, 0)'
      BY <3>5 DEF Counts
    <3>7. Counts("rx", 0, 0, Bds, 0)'
      BY <3>2, <3>4 DEF Counts
    <3> QED
      BY <3>1, <3>4, <3>6, <3>7 DEF TxRing, RxRing, Before, During, Checked, After, Counts
  <2> QED
    BY <2>1, <2>2, <2>3 DEF Sg!SendPacket
<1>5. got = 0 /\ stored = 0 /\ Len(wire) = 0
  <2>1. at \in Before /\ at \notin During /\ at # "tx poll"
    BY <1>2 DEF Before, During
  <2>2. WordsRead = 0 /\ WordsKept = 0
    BY <2>1 DEF WordsRead, WordsKept
  <2>3. got = 0 /\ stored = 0
    <3>1. got \in 0 .. Length /\ stored \in 0 .. Length
      BY <1>3 DEF Flow, Moving
    <3>2. ~(got > 0) /\ ~(stored > 0)
      BY <1>3, <2>1, Zenon DEF Flow, Moving
    <3> QED
      BY <3>1, <3>2
  <2>4. wire \in Seq({TRUE})
    BY <1>3 DEF Flow, AllFlushed
  <2>5. Len(wire) \in Nat
    BY <2>4
  <2> QED
    BY <1>3, <2>2, <2>3, <2>5 DEF Flow, Moving
<1>6. WordsRead' = 0 /\ WordsKept' = 0
  BY <1>2, <1>4, <1>5 DEF WordsRead, WordsKept, Before, During
<1>7. Flow'
  <2>1. AllFlushed'
    BY <1>2, <1>3 DEF Flow, AllFlushed
  <2>2. got' = 0 /\ stored' = 0 /\ Len(wire') = 0 /\ Length \in Nat
    BY <1>2, <1>5
  <2>3. Moving'
    BY <1>6, <2>2 DEF Moving
  <2> QED
    BY <2>1, <2>3 DEF Flow
<1>8. ReceiveBuffer'
  BY <1>2, <1>3, <1>6 DEF ReceiveBuffer, WordsKept, Before, Checked
<1> QED
  BY <1>2, <1>4, <1>7, <1>8 DEF ExampleInv, Before, During

\* Polling both rings, and the check.
LEMMA CheckStep ==
  ASSUME ExampleInv, at' # "failed", at # "failed", NEW ok \in BOOLEAN, Sg!CheckDmaResult(ok)
  PROVE  ExampleInv'
<1> USE TestAssumption, LoopbackAssumption
    DEF Sg!Step, Sg!hardwareVars, Sg!memoryVars, Sg!programVars, Sg!sgVars
<1>1. ok \/ Sg!TxPoll \/ Sg!RxPoll \/ Sg!CheckData \/ Sg!Spin
  BY DEF Sg!CheckDmaResult, Sg!TxFree, Sg!RxFree, Sg!RxAgain, Sg!RxToHwAgain
<1>2. /\ at \in During \cup After /\ at' \in During \cup After
      /\ UNCHANGED <<flushed, got, wire, stored, good, late>>
  BY DEF Sg!CheckDmaResult, Sg!TxFree, Sg!RxFree, Sg!RxAgain, Sg!RxToHwAgain, Sg!TxPoll, Sg!RxPoll,
         Sg!CheckData, Sg!Spin, During, After, Checked
<1>3. RingTypes /\ TxRing /\ RxRing /\ Flow /\ ReceiveBuffer
  BY DEF ExampleInv
<1>4. RingTypes' /\ TxRing' /\ RxRing'
  <2>1. CASE Sg!TxPoll
    <3>1. at = "tx poll" /\ at' = "tx free" /\ Passes("tx", ring["tx"].done, "done", "mine")
      BY <2>1 DEF Sg!TxPoll, Sg!Pass, Passes
    <3>2. Counts("tx", Bds - 1, 0, 0, 1) /\ (Counts("rx", 0, 0, Bds, 0) \/ Counts("rx", 0, 0, Bds - 1, 1))
      <4>1. (Counts("tx", Bds - 1, 0, 1, 0) \/ Counts("tx", Bds - 1, 0, 0, 1)) /\ (Counts("rx", 0, 0, Bds, 0) \/ Counts("rx", 0, 0, Bds - 1, 1))
        BY <1>3, <3>1 DEF TxRing, RxRing, Before, During, Checked, After
      <4>2. ring["tx"].done > 0
        BY <2>1 DEF Sg!TxPoll
      <4> QED
        BY <4>1, <4>2 DEF Counts
    <3>3. Passes("tx", 1, "done", "mine")
      BY <3>1, <3>2 DEF Counts
    <3>4. RingTypes' /\ ring'["rx"] = ring["rx"]
      BY <1>3, <3>3, PassRest
    <3>5. Counts("tx", Bds - 1, 0 + 1, 0, 1 - 1)'
      BY <1>3, <3>2, <3>3, PassCounts
    <3>6. Counts("tx", Bds - 1, 1, 0, 0)'
      BY <3>5 DEF Counts
    <3>7. Counts("rx", 0, 0, Bds, 0)' \/ Counts("rx", 0, 0, Bds - 1, 1)'
      BY <3>2, <3>4 DEF Counts
    <3> QED
      BY <3>1, <3>4, <3>6, <3>7 DEF TxRing, RxRing, Before, During, Checked, After
  <2>2. CASE Sg!Spin
    <3>1. UNCHANGED <<at, ring>>
      BY <2>2 DEF Sg!Spin
    <3> QED
      <4>1. RingTypes'
        BY <1>3, <3>1 DEF RingTypes
      <4>2. TxRing'
        BY <1>3, <3>1 DEF TxRing, Counts
      <4>3. RxRing'
        BY <1>3, <3>1 DEF RxRing, Counts
      <4> QED
        BY <4>1, <4>2, <4>3
  <2>3. CASE Sg!TxFree(ok)
    <3>1. at = "tx free" /\ at' = "rx poll" /\ Passes("tx", ring["tx"].mine, "mine", "free")
      BY <1>1, <2>3 DEF Sg!TxFree, Sg!TxPoll, Sg!RxPoll, Sg!CheckData, Sg!Spin, Sg!Pass, Passes
    <3>2. Counts("tx", Bds - 1, 1, 0, 0) /\ (Counts("rx", 0, 0, Bds, 0) \/ Counts("rx", 0, 0, Bds - 1, 1))
      BY <1>3, <3>1 DEF TxRing, RxRing, Before, During, Checked, After
    <3>3. Passes("tx", 1, "mine", "free")
      BY <3>1, <3>2 DEF Counts
    <3>4. RingTypes' /\ ring'["rx"] = ring["rx"]
      BY <1>3, <3>3, PassRest
    <3>5. Counts("tx", (Bds - 1) + 1, 1 - 1, 0, 0)'
      BY <1>3, <3>2, <3>3, PassCounts
    <3>6. Counts("tx", Bds, 0, 0, 0)'
      BY <3>5 DEF Counts
    <3>7. Counts("rx", 0, 0, Bds, 0)' \/ Counts("rx", 0, 0, Bds - 1, 1)'
      BY <3>2, <3>4 DEF Counts
    <3> QED
      BY <3>1, <3>4, <3>6, <3>7 DEF TxRing, RxRing, Before, During, Checked, After
  <2>4. CASE Sg!RxPoll
    <3>1. at = "rx poll" /\ at' = "check" /\ Passes("rx", ring["rx"].done, "done", "mine")
      BY <2>4 DEF Sg!RxPoll, Sg!Pass, Passes
    <3>2. Counts("rx", 0, 0, Bds - 1, 1) /\ (Counts("tx", Bds, 0, 0, 0))
      <4>1. (Counts("rx", 0, 0, Bds, 0) \/ Counts("rx", 0, 0, Bds - 1, 1)) /\ (Counts("tx", Bds, 0, 0, 0))
        BY <1>3, <3>1 DEF TxRing, RxRing, Before, During, Checked, After
      <4>2. ring["rx"].done > 0
        BY <2>4 DEF Sg!RxPoll
      <4> QED
        BY <4>1, <4>2 DEF Counts
    <3>3. Passes("rx", 1, "done", "mine")
      BY <3>1, <3>2 DEF Counts
    <3>4. RingTypes' /\ ring'["tx"] = ring["tx"]
      BY <1>3, <3>3, PassRest
    <3>5. Counts("rx", 0, 0 + 1, Bds - 1, 1 - 1)'
      BY <1>3, <3>2, <3>3, PassCounts
    <3>6. Counts("rx", 0, 1, Bds - 1, 0)'
      BY <3>5 DEF Counts
    <3>7. Counts("tx", Bds, 0, 0, 0)'
      BY <3>2, <3>4 DEF Counts
    <3> QED
      BY <3>1, <3>4, <3>6, <3>7 DEF TxRing, RxRing, Before, During, Checked, After
  <2>5. CASE Sg!CheckData
    <3>1. at = "check" /\ at' \in {"rx free", "data error"} /\ ring' = ring
      BY <2>5 DEF Sg!CheckData
    <3>2. Counts("tx", Bds, 0, 0, 0) /\ Counts("rx", 0, 1, Bds - 1, 0)
      BY <1>3, <3>1 DEF TxRing, RxRing, Before, During, Checked, After
    <3>3. RingTypes' /\ Counts("tx", Bds, 0, 0, 0)' /\ Counts("rx", 0, 1, Bds - 1, 0)'
      BY <1>3, <3>1, <3>2 DEF RingTypes, Counts
    <3> QED
      BY <3>1, <3>3 DEF TxRing, RxRing, Before, During, Checked, After
  <2>6. CASE Sg!RxFree(ok)
    <3>1. at = "rx free" /\ at' = "rx again" /\ Passes("rx", ring["rx"].mine, "mine", "free")
      BY <1>1, <2>6 DEF Sg!RxFree, Sg!TxPoll, Sg!RxPoll, Sg!CheckData, Sg!Spin, Sg!Pass, Passes
    <3>2. Counts("rx", 0, 1, Bds - 1, 0) /\ (Counts("tx", Bds, 0, 0, 0))
      BY <1>3, <3>1 DEF TxRing, RxRing, Before, During, Checked, After
    <3>3. Passes("rx", 1, "mine", "free")
      BY <3>1, <3>2 DEF Counts
    <3>4. RingTypes' /\ ring'["tx"] = ring["tx"]
      BY <1>3, <3>3, PassRest
    <3>5. Counts("rx", 0 + 1, 1 - 1, Bds - 1, 0)'
      BY <1>3, <3>2, <3>3, PassCounts
    <3>6. Counts("rx", 1, 0, Bds - 1, 0)'
      BY <3>5 DEF Counts
    <3>7. Counts("tx", Bds, 0, 0, 0)'
      BY <3>2, <3>4 DEF Counts
    <3> QED
      BY <3>1, <3>4, <3>6, <3>7 DEF TxRing, RxRing, Before, During, Checked, After
  <2>7. CASE Sg!RxAgain(ok)
    <3>1. at = "rx again" /\ at' = "rx to hw again" /\ Passes("rx", ring["rx"].free, "free", "mine")
      BY <1>1, <2>7 DEF Sg!RxAgain, Sg!TxPoll, Sg!RxPoll, Sg!CheckData, Sg!Spin, Sg!Pass, Passes
    <3>2. Counts("rx", 1, 0, Bds - 1, 0) /\ (Counts("tx", Bds, 0, 0, 0))
      BY <1>3, <3>1 DEF TxRing, RxRing, Before, During, Checked, After
    <3>3. Passes("rx", 1, "free", "mine")
      BY <3>1, <3>2 DEF Counts
    <3>4. RingTypes' /\ ring'["tx"] = ring["tx"]
      BY <1>3, <3>3, PassRest
    <3>5. Counts("rx", 1 - 1, 0 + 1, Bds - 1, 0)'
      BY <1>3, <3>2, <3>3, PassCounts
    <3>6. Counts("rx", 0, 1, Bds - 1, 0)'
      BY <3>5 DEF Counts
    <3>7. Counts("tx", Bds, 0, 0, 0)'
      BY <3>2, <3>4 DEF Counts
    <3> QED
      BY <3>1, <3>4, <3>6, <3>7 DEF TxRing, RxRing, Before, During, Checked, After
  <2>8. CASE Sg!RxToHwAgain(ok)
    <3>1. at = "rx to hw again" /\ at' = "passed" /\ Passes("rx", ring["rx"].mine, "mine", "hw")
      BY <1>1, <2>8 DEF Sg!RxToHwAgain, Sg!TxPoll, Sg!RxPoll, Sg!CheckData, Sg!Spin, Sg!Pass, Passes
    <3>2. Counts("rx", 0, 1, Bds - 1, 0) /\ (Counts("tx", Bds, 0, 0, 0))
      BY <1>3, <3>1 DEF TxRing, RxRing, Before, During, Checked, After
    <3>3. Passes("rx", 1, "mine", "hw")
      BY <3>1, <3>2 DEF Counts
    <3>4. RingTypes' /\ ring'["tx"] = ring["tx"]
      BY <1>3, <3>3, PassRest
    <3>5. Counts("rx", 0, 1 - 1, (Bds - 1) + 1, 0)'
      BY <1>3, <3>2, <3>3, PassCounts
    <3>6. Counts("rx", 0, 0, Bds, 0)'
      BY <3>5 DEF Counts
    <3>7. Counts("tx", Bds, 0, 0, 0)'
      BY <3>2, <3>4 DEF Counts
    <3> QED
      BY <3>1, <3>4, <3>6, <3>7 DEF TxRing, RxRing, Before, During, Checked, After
  <2> QED
    BY <2>1, <2>2, <2>3, <2>4, <2>5, <2>6, <2>7, <2>8 DEF Sg!CheckDmaResult
<1>5. /\ at' = "tx poll" => at = "tx poll" /\ ring'["tx"] = ring["tx"]
      /\ at = "tx poll" /\ at' # "tx poll" => ring["tx"].done # 0
      /\ at' \in During => at \in During /\ ring'["rx"] = ring["rx"]
      /\ at \in During /\ at' \notin During => ring["rx"].done # 0
  <2>1. CASE Sg!Spin
    BY <2>1 DEF Sg!Spin
  <2>2. CASE Sg!TxPoll
    <3>1. at = "tx poll" /\ at' = "tx free" /\ Passes("tx", ring["tx"].done, "done", "mine")
      BY <2>2 DEF Sg!TxPoll, Sg!Pass, Passes
    <3>2. ring["tx"].done \in Int /\ ring["tx"].done > 0
      BY <1>3, <2>2 DEF Sg!TxPoll, RingTypes
    <3>3. ring'["rx"] = ring["rx"]
      BY <1>3, <3>1, <3>2, PassRest
    <3> QED
      <4>1. ring["tx"].done # 0
        BY <3>2
      <4> QED
        BY <3>1, <3>3, <4>1 DEF During
  <2>3. CASE Sg!TxFree(ok)
    <3>1. at = "tx free" /\ at' = "rx poll"
          /\ Passes("tx", ring["tx"].mine, "mine", "free") /\ ring["tx"].mine \in Int
      BY <1>1, <1>3, <2>3 DEF Sg!TxFree, Sg!TxPoll, Sg!RxPoll, Sg!CheckData, Sg!Spin, Sg!Pass, Passes, RingTypes
    <3>2. ring'["rx"] = ring["rx"]
      BY <1>3, <3>1, PassRest
    <3> QED
      BY <3>1, <3>2 DEF During
  <2>4. CASE Sg!RxPoll
    <3>1. at = "rx poll" /\ at' = "check"
      BY <2>4 DEF Sg!RxPoll
    <3>2. ring["rx"].done \in Int /\ ring["rx"].done > 0
      BY <1>3, <2>4 DEF Sg!RxPoll, RingTypes
    <3>3. ring["rx"].done # 0
      BY <3>2
    <3> QED
      BY <3>1, <3>3 DEF During
  <2>5. CASE Sg!CheckData \/ Sg!RxFree(ok) \/ Sg!RxAgain(ok) \/ Sg!RxToHwAgain(ok)
    <3>1. at \notin During /\ at' \notin During
      BY <2>5 DEF Sg!CheckData, Sg!RxFree, Sg!RxAgain, Sg!RxToHwAgain, During
    <3> QED
      BY <3>1 DEF During
  <2> QED
    BY <2>1, <2>2, <2>3, <2>4, <2>5 DEF Sg!CheckDmaResult
<1>6. WordsRead' = WordsRead /\ WordsKept' = WordsKept
  <2>1. at \notin Before /\ at' \notin Before
    BY <1>2 DEF Before, During, Checked, After
  <2>2. WordsRead' = WordsRead
    BY <1>2, <1>5, <2>1, Zenon DEF WordsRead
  <2>3. WordsKept' = WordsKept
    BY <1>2, <1>5, <2>1 DEF WordsKept
  <2> QED
    BY <2>2, <2>3
<1>7. Flow'
  <2>1. AllFlushed'
    BY <1>2, <1>3, <1>5 DEF Flow, AllFlushed, During, Checked, After
  <2>2. Moving'
    BY <1>2, <1>3, <1>5, <1>6 DEF Flow, Moving
  <2> QED
    BY <2>1, <2>2 DEF Flow
<1>8. ReceiveBuffer'
  <2>1. CASE Sg!CheckData
    <3>1. /\ at = "check" /\ line' = "clean" /\ UNCHANGED <<good, late>>
          /\ at' \in {"rx free", "data error"}
          /\ at' = "rx free" => good = 1 .. Length
          /\ at' = "data error" => good # 1 .. Length
      BY <2>1 DEF Sg!CheckData
    <3>2. WordsKept = Length
      BY <3>1 DEF WordsKept, Before, During
    <3> QED
      BY <1>3, <1>6, <3>1, <3>2 DEF ReceiveBuffer, Before, Checked
  <2>2. CASE ~Sg!CheckData
    <3>1. /\ UNCHANGED <<line, good, late>> /\ at \notin Before /\ at' \notin Before
          /\ at' \in Checked \cup {"data error"} => at \in Checked \cup {"data error"}
          /\ at' \in Checked => at \in Checked
          /\ at' = "data error" => at = "data error"
      BY <2>2 DEF Sg!CheckDmaResult, Sg!TxFree, Sg!RxFree, Sg!RxAgain, Sg!RxToHwAgain, Sg!TxPoll, Sg!RxPoll,
             Sg!Spin, Before, Checked
    <3> QED
      BY <1>3, <1>6, <3>1 DEF ReceiveBuffer
  <2> QED
    BY <2>1, <2>2
<1> QED
  BY <1>2, <1>4, <1>7, <1>8 DEF ExampleInv, Before, During

\* What was read and kept is at most the packet.
LEMMA WordsBounds ==
  ASSUME Moving, wire \in Seq({TRUE})
  PROVE  WordsRead \in 0 .. Length /\ WordsKept \in 0 .. Length /\ Len(wire) \in Nat
<1>1. Len(wire) \in Nat
  OBVIOUS
<1>2. got \in 0 .. Length /\ stored \in 0 .. Length /\ Length \in Nat
  BY LoopbackAssumption DEF Moving
<1>3. WordsRead \in {0, got, Length} /\ WordsKept \in {0, stored, Length}
  BY DEF WordsRead, WordsKept
<1> QED
  BY <1>1, <1>2, <1>3

\* Only while its ring is polled does the transmit channel have a descriptor.
LEMMA TxRingHw ==
  ASSUME TxRing, at \in Before \cup During \cup After, ring["tx"].hw > 0
  PROVE  at = "tx poll" /\ Counts("tx", Bds - 1, 0, 1, 0)
<1>1. ring["tx"].hw # 0
  OBVIOUS
<1>2. at \notin {"init", "tx create"}
  BY <1>1 DEF TxRing, Counts
<1>3. at \notin (Before \ {"init", "tx create", "tx to hw"}) \cup {"rx poll"} \cup After
  BY <1>1 DEF TxRing, Counts
<1>4. at \notin {"tx to hw", "tx free"}
  BY <1>1 DEF TxRing, Counts
<1>5. at = "tx poll"
  BY <1>2, <1>3, <1>4 DEF Before, During
<1>6. Counts("tx", Bds - 1, 0, 1, 0) \/ Counts("tx", Bds - 1, 0, 0, 1)
  BY <1>5 DEF TxRing
<1>7. Counts("tx", Bds - 1, 0, 1, 0)
  BY <1>1, <1>6 DEF Counts
<1> QED
  BY <1>5, <1>7

\* The transmit channel takes a word of the packet, ...
LEMMA TxReadsStep ==
  ASSUME ExampleInv, at # "failed", Sg!TxReads
  PROVE  ExampleInv'
<1>1. /\ ring["tx"].hw > 0 /\ got < Length /\ got' = got + 1 /\ wire' = Append(wire, flushed)
      /\ UNCHANGED <<at, started, flushed, ring, stored, line, good, late>>
  BY DEF Sg!TxReads, Sg!programVars, Sg!memoryVars
<1>2. RingTypes /\ TxRing /\ RxRing /\ Moving /\ AllFlushed /\ ReceiveBuffer
      /\ at \in Before \cup During \cup After
  BY DEF ExampleInv, Flow
<1>3. at = "tx poll" /\ ring["tx"].done = 0
  BY <1>1, <1>2, TxRingHw DEF Counts
<1>4. RingTypes' /\ TxRing' /\ RxRing'
  <2>1. RingTypes'
    BY <1>1, <1>2 DEF RingTypes
  <2>2. TxRing'
    BY <1>1, <1>2 DEF TxRing, Counts
  <2>3. RxRing'
    BY <1>1, <1>2 DEF RxRing, Counts
  <2> QED
    BY <2>1, <2>2, <2>3
<1>5. wire \in Seq({TRUE}) /\ flushed = TRUE
  BY <1>2, <1>3 DEF AllFlushed
<1>6. wire' \in Seq({TRUE}) /\ Len(wire) \in Nat /\ Len(wire') = Len(wire) + 1
  BY <1>1, <1>5, AppendFacts
<1>7. AllFlushed'
  BY <1>1, <1>5, <1>6 DEF AllFlushed
<1>8. WordsRead = got /\ WordsRead' = got + 1 /\ WordsKept' = WordsKept
  <2>1. at \notin Before
    BY <1>3 DEF Before
  <2> QED
    BY <1>1, <1>3, <2>1 DEF WordsRead, WordsKept
<1>9. Moving'
  <2>1. got \in 0 .. Length /\ Length \in Nat /\ WordsKept \in 0 .. Length /\ got = WordsKept + Len(wire)
    BY <1>2, <1>5, <1>8, WordsBounds, LoopbackAssumption DEF Moving
  <2>2. got' \in 0 .. Length /\ WordsRead' = WordsKept' + Len(wire')
    BY <1>1, <1>6, <1>8, <2>1
  <2>3. stored' \in 0 .. Length /\ (stored' > 0 => at' \in During /\ ring'["rx"].done = 0)
    BY <1>1, <1>2 DEF Moving
  <2> QED
    BY <1>1, <1>3, <2>2, <2>3 DEF Moving
<1>10. ReceiveBuffer'
  BY <1>1, <1>2, <1>8 DEF ReceiveBuffer
<1> QED
  BY <1>1, <1>2, <1>4, <1>7, <1>9, <1>10 DEF ExampleInv, Flow

\* ... the receive channel stores one, for which it has the room ...
LEMMA RxStoresStep ==
  ASSUME ExampleInv, at # "failed", Sg!RxStores
  PROVE  ExampleInv'
<1>1. /\ wire # <<>> /\ stored' = stored + 1 /\ wire' = Tail(wire)
      /\ good' = IF Head(wire) THEN good \cup {stored + 1} ELSE good
      /\ UNCHANGED <<at, started, flushed, ring, got, line, late>>
  BY DEF Sg!RxStores, Sg!programVars
<1>2. RingTypes /\ TxRing /\ RxRing /\ Moving /\ AllFlushed /\ ReceiveBuffer
      /\ at \in Before \cup During \cup After
  BY DEF ExampleInv, Flow
<1>3. wire \in Seq({TRUE})
  BY <1>2 DEF AllFlushed
<1>4. wire' \in Seq({TRUE}) /\ Len(wire) \in Nat \ {0} /\ Len(wire') = Len(wire) - 1
  BY <1>1, <1>3, TailFacts
<1>5. WordsRead \in 0 .. Length /\ WordsKept \in 0 .. Length /\ WordsRead = WordsKept + Len(wire)
  BY <1>2, <1>3, WordsBounds DEF Moving
<1>6. WordsRead # 0 /\ WordsKept # Length
  <2>1. Len(wire) > 0 /\ Length \in Nat
    BY <1>4, LoopbackAssumption
  <2> QED
    BY <1>4, <1>5, <2>1
<1>7. at \in During /\ ring["rx"].done = 0 /\ at \notin Before
  <2>1. at \notin Before
    BY <1>6 DEF WordsRead
  <2> QED
    BY <1>6, <2>1 DEF WordsKept
<1>8. WordsKept = stored /\ WordsKept' = stored + 1 /\ WordsRead' = WordsRead
  BY <1>1, <1>7 DEF WordsKept, WordsRead
<1>9. RingTypes' /\ TxRing' /\ RxRing'
  <2>1. RingTypes'
    BY <1>1, <1>2 DEF RingTypes
  <2>2. TxRing'
    BY <1>1, <1>2 DEF TxRing, Counts
  <2>3. RxRing'
    BY <1>1, <1>2 DEF RxRing, Counts
  <2> QED
    BY <2>1, <2>2, <2>3
<1>10. AllFlushed'
  BY <1>1, <1>2, <1>4 DEF AllFlushed
<1>11. Moving'
  <2>1. stored' \in 0 .. Length /\ WordsRead' = WordsKept' + Len(wire')
    <3>1. stored' = WordsKept + 1 /\ Length \in Nat
      BY <1>1, <1>8, LoopbackAssumption
    <3>2. WordsKept \in 0 .. Length /\ WordsKept # Length
      BY <1>5, <1>6
    <3>3. stored' \in 0 .. Length
      BY <3>1, <3>2
    <3>4. WordsRead' = WordsKept' + Len(wire')
      BY <1>4, <1>5, <1>8, <3>1
    <3> QED
      BY <3>3, <3>4
  <2>2. got' \in 0 .. Length /\ (got' > 0 => at' = "tx poll" /\ ring'["tx"].done = 0)
    BY <1>1, <1>2 DEF Moving
  <2> QED
    BY <1>1, <1>7, <2>1, <2>2 DEF Moving
<1>12. ReceiveBuffer'
  <2>1. good' = good \cup {stored + 1}
    <3>1. Head(wire) \in {TRUE}
      BY <1>1, <1>3, TailFacts
    <3>2. Head(wire)
      BY <3>1, Zenon
    <3> QED
      BY <1>1, <3>2
  <2>2. stored \in Nat /\ (good = 1 .. stored => good' = 1 .. stored + 1)
    BY <1>5, <1>8, <2>1, LoopbackAssumption
  <2>3. at \notin Checked /\ at # "data error"
    BY <1>7 DEF During, Checked
  <2> QED
    BY <1>1, <1>2, <1>7, <1>8, <2>2, <2>3 DEF ReceiveBuffer
<1> QED
  BY <1>1, <1>2, <1>9, <1>10, <1>11, <1>12 DEF ExampleInv, Flow

\* ... and either, after its last, is done with its descriptor.
LEMMA TxDoneStep ==
  ASSUME ExampleInv, at # "failed", Sg!TxDone
  PROVE  ExampleInv'
<1>1. /\ got = Length /\ got' = 0 /\ Passes("tx", 1, "hw", "done")
      /\ UNCHANGED <<at, started, flushed, wire, stored, line, good, late>>
  BY DEF Sg!TxDone, Sg!Pass, Passes, Sg!programVars, Sg!memoryVars
<1>2. RingTypes /\ TxRing /\ RxRing /\ Moving /\ AllFlushed /\ ReceiveBuffer
      /\ at \in Before \cup During \cup After
  BY DEF ExampleInv, Flow
<1>3. at = "tx poll" /\ ring["tx"].done = 0
  <2>1. got > 0
    BY <1>1, LoopbackAssumption
  <2> QED
    BY <1>2, <2>1 DEF Moving
<1>4. Counts("tx", Bds - 1, 0, 1, 0)
  BY <1>2, <1>3 DEF TxRing, Counts
<1>5. RingTypes' /\ ring'["rx"] = ring["rx"]
  BY <1>1, <1>2, PassRest
<1>6. Counts("tx", Bds - 1, 0, 1 - 1, 0 + 1)'
  BY <1>1, <1>2, <1>4, PassCounts, TestAssumption
<1>7. Counts("tx", Bds - 1, 0, 0, 1)'
  BY <1>6 DEF Counts
<1>8. TxRing'
  BY <1>1, <1>3, <1>7 DEF TxRing, Before, During, Checked, After
<1>9. RxRing'
  BY <1>1, <1>2, <1>5 DEF RxRing, Counts
<1>10. WordsRead' = Length /\ WordsRead = Length /\ WordsKept' = WordsKept
  <2>1. at \notin Before
    BY <1>3 DEF Before
  <2>2. ring'["tx"].done # 0
    BY <1>7 DEF Counts
  <2> QED
    BY <1>1, <1>3, <1>5, <2>1, <2>2 DEF WordsRead, WordsKept
<1>11. Moving'
  <2>1. stored' \in 0 .. Length /\ (stored' > 0 => at' \in During /\ ring'["rx"].done = 0)
    BY <1>1, <1>2, <1>5 DEF Moving
  <2>2. WordsRead' = WordsKept' + Len(wire')
    BY <1>1, <1>2, <1>10 DEF Moving
  <2> QED
    BY <1>1, <2>1, <2>2, LoopbackAssumption DEF Moving
<1>12. AllFlushed' /\ ReceiveBuffer'
  BY <1>1, <1>2, <1>10 DEF AllFlushed, ReceiveBuffer
<1> QED
  BY <1>1, <1>2, <1>5, <1>8, <1>9, <1>11, <1>12 DEF ExampleInv, Flow

\* The receive channel ends its descriptor.
LEMMA RxDoneStep ==
  ASSUME ExampleInv, at # "failed", Sg!RxDone
  PROVE  ExampleInv'
<1>1. /\ stored = Length /\ stored' = 0 /\ Passes("rx", 1, "hw", "done")
      /\ UNCHANGED <<at, started, flushed, wire, got, line, good, late>>
  BY DEF Sg!RxDone, Sg!Pass, Passes, Sg!programVars, Sg!memoryVars
<1>2. RingTypes /\ TxRing /\ RxRing /\ Moving /\ AllFlushed /\ ReceiveBuffer
      /\ at \in Before \cup During \cup After
  BY DEF ExampleInv, Flow
<1>3. at \in During /\ ring["rx"].done = 0
  <2>1. stored > 0
    BY <1>1, LoopbackAssumption
  <2> QED
    BY <1>2, <2>1 DEF Moving
<1>4. Counts("rx", 0, 0, Bds, 0)
  <2>1. Counts("rx", 0, 0, Bds, 0) \/ Counts("rx", 0, 0, Bds - 1, 1)
    BY <1>2, <1>3 DEF RxRing
  <2> QED
    BY <1>3, <2>1 DEF Counts
<1>5. RingTypes' /\ ring'["tx"] = ring["tx"]
  BY <1>1, <1>2, PassRest
<1>6. Counts("rx", 0, 0, Bds - 1, 0 + 1)'
  BY <1>1, <1>2, <1>4, PassCounts, TestAssumption
<1>7. Counts("rx", 0, 0, Bds - 1, 1)'
  BY <1>6 DEF Counts
<1>8. RxRing'
  BY <1>1, <1>3, <1>7 DEF RxRing, Before, During, Checked, After
<1>9. TxRing'
  BY <1>1, <1>2, <1>5 DEF TxRing, Counts
<1>10. WordsKept' = Length /\ WordsKept = Length /\ WordsRead' = WordsRead
  <2>1. at \notin Before
    BY <1>3 DEF Before, During
  <2>2. ring'["rx"].done # 0
    BY <1>7 DEF Counts
  <2> QED
    BY <1>1, <1>3, <1>5, <2>1, <2>2 DEF WordsRead, WordsKept
<1>11. Moving'
  <2>1. got' \in 0 .. Length /\ (got' > 0 => at' = "tx poll" /\ ring'["tx"].done = 0)
    <3>1. got' = got /\ at' = at /\ ring'["tx"] = ring["tx"]
      BY <1>1, <1>5
    <3> QED
      BY <1>2, <3>1 DEF Moving
  <2>2. WordsRead' = WordsKept' + Len(wire')
    BY <1>1, <1>2, <1>10 DEF Moving
  <2>3. stored' \in 0 .. Length /\ ~(stored' > 0)
    BY <1>1, LoopbackAssumption
  <2> QED
    BY <2>1, <2>2, <2>3, Zenon DEF Moving
<1>12. AllFlushed' /\ ReceiveBuffer'
  BY <1>1, <1>2, <1>10 DEF AllFlushed, ReceiveBuffer
<1> QED
  BY <1>1, <1>2, <1>5, <1>8, <1>9, <1>11, <1>12 DEF ExampleInv, Flow

\* A line that is written back early costs nothing; late, what was stored.
LEMMA WriteBackStep ==
  ASSUME ExampleInv, at # "failed", Sg!WriteBack
  PROVE  ExampleInv'
<1>1. /\ line = "dirty" /\ line' = "clean" /\ good' = {}
      /\ UNCHANGED <<at, started, flushed, ring, got, wire, stored>>
  BY DEF Sg!WriteBack, Sg!programVars, Sg!hardwareVars
<1>2. late' <=> good # {}
  BY DEF Sg!WriteBack
<1>3. RingTypes /\ TxRing /\ RxRing /\ Moving /\ AllFlushed /\ ReceiveBuffer
      /\ at \in Before \cup During \cup After
  BY DEF ExampleInv, Flow
<1>4. RingTypes' /\ TxRing' /\ RxRing'
  <2>1. RingTypes'
    BY <1>1, <1>3 DEF RingTypes
  <2>2. TxRing'
    BY <1>1, <1>3 DEF TxRing, Counts
  <2>3. RxRing'
    BY <1>1, <1>3 DEF RxRing, Counts
  <2> QED
    BY <2>1, <2>2, <2>3
<1>5. WordsRead' = WordsRead /\ WordsKept' = WordsKept
  BY <1>1 DEF WordsRead, WordsKept
<1>6. Moving' /\ AllFlushed'
  BY <1>1, <1>3, <1>5 DEF Moving, AllFlushed
<1>7. WordsKept \in 0 .. Length
  BY <1>3, WordsBounds DEF AllFlushed
<1>8. good = 1 .. WordsKept
  BY <1>1, <1>3 DEF ReceiveBuffer
<1>9. good = {} => WordsKept = 0 /\ good' = 1 .. 0
  BY <1>1, <1>7, <1>8, LoopbackAssumption
<1>10. good # {} => at \notin Before
  <2>1. at \in Before => good = 1 .. 0
    BY <1>8 DEF WordsKept
  <2> QED
    BY <2>1
<1>11. at \notin Checked \cup {"data error"}
  BY <1>1, <1>3 DEF ReceiveBuffer
<1>12. ReceiveBuffer'
  BY <1>1, <1>2, <1>5, <1>9, <1>10, <1>11 DEF ReceiveBuffer
<1> QED
  BY <1>1, <1>3, <1>4, <1>6, <1>12 DEF ExampleInv, Flow

\* Program, channels and cache together.
LEMMA ExampleStepInv == ExampleInv /\ [Sg!SgNext]_exampleVars => ExampleInv'
<1> SUFFICES ASSUME ExampleInv, [Sg!SgNext]_exampleVars, at' # "failed" PROVE ExampleInv'
  BY DEF ExampleInv
<1>1. at # "failed"
  BY DEF Sg!SgNext, Sg!SgProgram, Sg!Channel, Sg!TxSetup, Sg!RxSetup, Sg!SendPacket, Sg!CheckDmaResult,
         Sg!Initialise, Sg!TxCreate, Sg!TxStart, Sg!RxCreate, Sg!RxAttach, Sg!RxClear, Sg!RxToHw, Sg!RxStart,
         Sg!Fill, Sg!TxAlloc, Sg!TxToHw, Sg!TxPoll, Sg!Spin, Sg!TxFree, Sg!RxPoll, Sg!CheckData, Sg!RxFree,
         Sg!RxAgain, Sg!RxToHwAgain, Sg!TxReads, Sg!RxStores, Sg!TxDone, Sg!RxDone, Sg!WriteBack,
         Sg!Step, Sg!programVars, exampleVars
<1>2. CASE Sg!SgProgram
  <2>1. PICK ok \in BOOLEAN : \/ \E core \in Cores : Sg!Initialise(core, ok)
                              \/ Sg!TxSetup(ok) \/ Sg!RxSetup(ok) \/ Sg!SendPacket(ok)
                              \/ Sg!CheckDmaResult(ok)
    BY <1>2 DEF Sg!SgProgram
  <2> QED
    BY <1>1, <2>1, TxSetupStep, RxSetupStep, SendPacketStep, CheckStep
<1>3. CASE Sg!Channel \/ Sg!WriteBack
  BY <1>1, <1>3, TxReadsStep, RxStoresStep, TxDoneStep, RxDoneStep, WriteBackStep DEF Sg!Channel
<1>4. CASE UNCHANGED exampleVars
  <2>1. UNCHANGED <<at, ring, started, flushed, line, got, wire, stored, good, late>>
    BY <1>4 DEF exampleVars
  <2>2. RingTypes /\ TxRing /\ RxRing /\ Moving /\ AllFlushed /\ ReceiveBuffer
        /\ at \in Before \cup During \cup After
    BY <1>1 DEF ExampleInv, Flow
  <2>3. RingTypes'
    BY <2>1, <2>2 DEF RingTypes
  <2>4. TxRing'
    BY <2>1, <2>2 DEF TxRing, Counts
  <2>5. RxRing'
    BY <2>1, <2>2 DEF RxRing, Counts
  <2>6. WordsRead' = WordsRead /\ WordsKept' = WordsKept
    BY <2>1 DEF WordsRead, WordsKept
  <2>7. Moving' /\ AllFlushed'
    BY <2>1, <2>2, <2>6 DEF Moving, AllFlushed
  <2>8. ReceiveBuffer'
    BY <2>1, <2>2, <2>6 DEF ReceiveBuffer
  <2> QED
    BY <2>1, <2>2, <2>3, <2>4, <2>5, <2>7, <2>8 DEF ExampleInv, Flow
<1> QED
  BY <1>2, <1>3, <1>4 DEF Sg!SgNext

\* What the example says at its end follows.
LEMMA ExampleVerdict == ExampleInv => Sg!VerdictIsRight
<1> SUFFICES ASSUME ExampleInv PROVE Sg!VerdictIsRight
  OBVIOUS
<1>1. at = "data error" => late
  BY DEF ExampleInv, ReceiveBuffer
<1>2. CASE at = "passed"
  <2>1. RingTypes /\ Counts("tx", Bds, 0, 0, 0) /\ Counts("rx", 0, 0, Bds, 0)
    BY <1>2 DEF ExampleInv, TxRing, RxRing, Checked, After
  <2>2. good = 1 .. Length
    BY <1>2 DEF ExampleInv, ReceiveBuffer, Checked
  <2>3. ring["tx"] = [Sg!NoBds EXCEPT !["free"] = Bds]
    BY <2>1 DEF RingTypes, Counts, Sg!NoBds, Sg!BdStates
  <2>4. ring["rx"] = [Sg!NoBds EXCEPT !["hw"] = Bds]
    BY <2>1 DEF RingTypes, Counts, Sg!NoBds, Sg!BdStates
  <2> QED
    BY <1>2, <2>2, <2>3, <2>4 DEF Sg!VerdictIsRight
<1> QED
  BY <1>1, <1>2 DEF Sg!VerdictIsRight

----------------------------------------------------------------------------
(* dma_test.c.                                                             *)

LoopProgram == "dma_loopback/dma_test.c"

\* The scripts, read backwards: where a program is that does something.
LEMMA LoopScriptAt ==
  ASSUME driver = LoopProgram, NEW op, NEW c, step \in Nat, step <= 13, Direct!Do(op, c)
  PROVE  /\ step \in 1 .. 13 /\ step' = IF step = 13 THEN 0 ELSE step + 1
         /\ op = "reset" => (step = 1 /\ c = "rx") \/ (step = 2 /\ c = "tx")
         /\ op = "halt" => step \in {3, 4}
         /\ op = "address" => (step = 5 /\ c = "rx") \/ (step = 6 /\ c = "tx")
         /\ op = "run" => (step = 7 /\ c = "rx") \/ (step = 8 /\ c = "tx")
         /\ op = "length" => (step = 9 /\ c = "rx") \/ (step = 10 /\ c = "tx")
         /\ op = "sync" => (step = 11 /\ c = "tx") \/ (step = 12 /\ c = "rx")
         /\ op = "dump" => step = 13
<1> DEFINE s == Direct!LoopScript
<1>1. Direct!Script = s /\ Len(s) = 13
  BY DEF Direct!Script, Direct!Looped, Direct!LoopScript, LoopProgram
<1>2. step \in 1 .. 13 /\ s[step] = [op |-> op, ch |-> c] /\ step' = (step + 1) % 14
  BY <1>1 DEF Direct!Do, Direct!Does
<1>3. step' = IF step = 13 THEN 0 ELSE step + 1
  BY <1>2
<1>4. /\ s[1] = [op |-> "reset", ch |-> "rx"] /\ s[2] = [op |-> "reset", ch |-> "tx"]
      /\ s[3] = [op |-> "halt", ch |-> "rx"] /\ s[4] = [op |-> "halt", ch |-> "tx"]
      /\ s[5] = [op |-> "address", ch |-> "rx"] /\ s[6] = [op |-> "address", ch |-> "tx"]
      /\ s[7] = [op |-> "run", ch |-> "rx"] /\ s[8] = [op |-> "run", ch |-> "tx"]
      /\ s[9] = [op |-> "length", ch |-> "rx"] /\ s[10] = [op |-> "length", ch |-> "tx"]
      /\ s[11] = [op |-> "sync", ch |-> "tx"] /\ s[12] = [op |-> "sync", ch |-> "rx"]
      /\ s[13] = [op |-> "dump", ch |-> "rx"]
  BY DEF Direct!LoopScript, Direct!Does
<1> HIDE DEF s
<1>5. \/ step = 1 /\ op = "reset" /\ c = "rx"
      \/ step = 2 /\ op = "reset" /\ c = "tx"
      \/ step \in {3, 4} /\ op = "halt"
      \/ step = 5 /\ op = "address" /\ c = "rx"
      \/ step = 6 /\ op = "address" /\ c = "tx"
      \/ step = 7 /\ op = "run" /\ c = "rx"
      \/ step = 8 /\ op = "run" /\ c = "tx"
      \/ step = 9 /\ op = "length" /\ c = "rx"
      \/ step = 10 /\ op = "length" /\ c = "tx"
      \/ step = 11 /\ op = "sync" /\ c = "tx"
      \/ step = 12 /\ op = "sync" /\ c = "rx"
      \/ step = 13 /\ op = "dump"
  BY <1>2, <1>4
<1> QED
  BY <1>2, <1>3, <1>5

\* The same of the shorter script.
LEMMA StreamScriptAt ==
  ASSUME driver # LoopProgram, NEW op, NEW c, step \in Nat, step <= 7, Direct!Do(op, c)
  PROVE  /\ step \in 1 .. 7 /\ step' = (IF step = 7 THEN 0 ELSE step + 1) /\ c = "rx"
         /\ op = "reset" => step = 1
         /\ op = "halt" => step = 2
         /\ op = "address" => step = 3
         /\ op = "run" => step = 4
         /\ op = "length" => step = 5
         /\ op = "sync" => step = 6
         /\ op = "dump" => step = 7
<1> DEFINE s == Direct!StreamScript
<1>1. Direct!Script = s /\ Len(s) = 7
  BY DEF Direct!Script, Direct!Looped, Direct!StreamScript, LoopProgram
<1>2. step \in 1 .. 7 /\ s[step] = [op |-> op, ch |-> c] /\ step' = (step + 1) % 8
  BY <1>1 DEF Direct!Do, Direct!Does
<1>3. step' = IF step = 7 THEN 0 ELSE step + 1
  BY <1>2
<1>4. /\ s[1] = [op |-> "reset", ch |-> "rx"] /\ s[2] = [op |-> "halt", ch |-> "rx"]
      /\ s[3] = [op |-> "address", ch |-> "rx"] /\ s[4] = [op |-> "run", ch |-> "rx"]
      /\ s[5] = [op |-> "length", ch |-> "rx"] /\ s[6] = [op |-> "sync", ch |-> "rx"]
      /\ s[7] = [op |-> "dump", ch |-> "rx"]
  BY DEF Direct!StreamScript, Direct!Does
<1> HIDE DEF s
<1>5. /\ c = "rx"
      /\ \/ step = 1 /\ op = "reset"
         \/ step = 2 /\ op = "halt"
         \/ step = 3 /\ op = "address"
         \/ step = 4 /\ op = "run"
         \/ step = 5 /\ op = "length"
         \/ step = 6 /\ op = "sync"
         \/ step = 7 /\ op = "dump"
  BY <1>2, <1>4
<1> QED
  BY <1>2, <1>3, <1>5

WireWords == [run : Nat, last : BOOLEAN]

DmaTypes ==
  /\ step \in Nat /\ step <= (IF driver = LoopProgram THEN 13 ELSE 7)
  /\ run \in Nat
  /\ todo \in [Channels -> 0 .. Length]
  /\ memory \in [1 .. Length -> Nat]
  /\ fifo \in Seq(WireWords)

\* The looped program: before the receive channel gets its length nothing
\* moves; then what it still has to store is what the other channel has to
\* send and what is between them, all of this run, the end of the packet last.
NothingMoves == todo["rx"] = 0 /\ todo["tx"] = 0 /\ Len(fifo) = 0 /\ "rx" \notin ioc

WholePacket ==
  /\ todo["rx"] = todo["tx"] + Len(fifo)
  /\ \A i \in 1 .. Len(fifo) :
       fifo[i].run = run /\ (fifo[i].last <=> todo["tx"] = 0 /\ i = Len(fifo))
  /\ \A i \in 1 .. Length : i <= Length - todo["rx"] => memory[i] = run
  /\ "rx" \in ioc => todo["rx"] = 0

LoopedInv ==
  /\ step \in 2 .. 7 => running = {}
  /\ step \in 8 .. 13 => "rx" \in running
  /\ step \in 9 .. 13 => "tx" \in running
  /\ step \in 6 .. 13 => "rx" \in address
  /\ step \in 2 .. 9 => NothingMoves
  /\ step = 10 => todo["rx"] = Length /\ todo["tx"] = 0 /\ Len(fifo) = 0 /\ "rx" \notin ioc
  /\ step \in 11 .. 13 => WholePacket
  /\ step = 13 => todo["rx"] = 0

\* The other: from the reset on all words are of this run, and the first of
\* them is in memory as soon as the channel has stored any.
FirstWord ==
  /\ todo["rx"] < Length => memory[1] = run
  /\ "rx" \in ioc => todo["rx"] = 0

StreamedInv ==
  /\ step \in 2 .. 7 => \A i \in 1 .. Len(fifo) : fifo[i].run = run
  /\ step \in 2 .. 4 => running = {}
  /\ step \in 4 .. 7 => "rx" \in address
  /\ step \in 2 .. 5 => todo["rx"] = 0 /\ "rx" \notin ioc
  /\ step = 5 => "rx" \in running
  /\ step \in 6 .. 7 => FirstWord
  /\ step = 7 => todo["rx"] = 0

\* What the looped program has printed is all of this run, until it
\* begins again.
PrintedInv ==
  printed # <<>> =>
    /\ step = 0
    /\ driver = LoopProgram => \A i \in 1 .. Length : printed[i] = run

TestInv ==
  /\ DmaTypes
  /\ driver = LoopProgram => LoopedInv
  /\ driver # LoopProgram => StreamedInv
  /\ PrintedInv

LEMMA TestInitInv == Direct!DirectInit => TestInv
<1> SUFFICES ASSUME Direct!DirectInit PROVE TestInv
  OBVIOUS
<1>1. /\ step = 0 /\ run = 0 /\ fifo = <<>> /\ memory = [i \in 1 .. Length |-> 0] /\ printed = <<>>
      /\ todo = [c \in Channels |-> 0]
  BY DEF Direct!DirectInit, Direct!Blank, Direct!Channels, Channels
<1>2. DmaTypes
  BY <1>1, LoopbackAssumption DEF DmaTypes
<1> QED
  BY <1>1, <1>2 DEF TestInv, LoopedInv, StreamedInv, PrintedInv

\* The word that a store takes, and what it leaves.
LEMMA StoreFacts ==
  ASSUME DmaTypes, NEW fails \in BOOLEAN, Direct!RxStores(fails)
  PROVE  /\ "rx" \in running /\ todo["rx"] \in 1 .. Length
         /\ Len(fifo) \in Nat \ {0} /\ fifo[1] \in WireWords
         /\ fifo' \in Seq(WireWords) /\ Len(fifo') = Len(fifo) - 1
         /\ \A i \in 1 .. Len(fifo) - 1 : fifo'[i] = fifo[i + 1]
         /\ todo' \in [Channels -> 0 .. Length] /\ todo'["tx"] = todo["tx"]
         /\ todo'["rx"] = IF fifo[1].last THEN 0 ELSE todo["rx"] - 1
         /\ memory' \in [1 .. Length -> Nat]
         /\ "rx" \in address => memory'[Length - todo["rx"] + 1] = fifo[1].run
         /\ \A i \in 1 .. Length : i # Length - todo["rx"] + 1 => memory'[i] = memory[i]
         /\ running' = running \/ (todo'["rx"] = 0 /\ ~fifo[1].last)
         /\ "rx" \in ioc' => todo'["rx"] = 0 \/ "rx" \in ioc
         /\ UNCHANGED <<driver, step, run, address>>
<1>1. /\ "rx" \in running /\ todo["rx"] > 0 /\ fifo # <<>> /\ fifo' = Tail(fifo)
      /\ UNCHANGED <<driver, step, run, address>>
  BY DEF Direct!RxStores
<1>2. fifo \in Seq(WireWords) /\ todo \in [Channels -> 0 .. Length] /\ memory \in [1 .. Length -> Nat]
      /\ Length \in Nat
  BY LoopbackAssumption DEF DmaTypes
<1>3. todo["rx"] \in 1 .. Length
  BY <1>1, <1>2 DEF Channels
<1>4. /\ Len(fifo) \in Nat \ {0} /\ fifo[1] \in WireWords /\ Head(fifo) = fifo[1]
      /\ fifo' \in Seq(WireWords) /\ Len(fifo') = Len(fifo) - 1
      /\ \A i \in 1 .. Len(fifo) - 1 : fifo'[i] = fifo[i + 1]
  BY <1>1, <1>2, TailFacts
<1> DEFINE left == IF fifo[1].last THEN 0 ELSE todo["rx"] - 1
           slot == Length - todo["rx"] + 1
<1>5. left \in 0 .. Length /\ slot \in 1 .. Length
  BY <1>2, <1>3
<1>6. todo' = [todo EXCEPT !["rx"] = left]
  BY <1>4 DEF Direct!RxStores
<1>7. memory' = IF "rx" \in address THEN [memory EXCEPT ![slot] = fifo[1].run] ELSE memory
  BY <1>4 DEF Direct!RxStores
<1>8. running' = running \/ (left = 0 /\ ~fifo[1].last)
  BY <1>4 DEF Direct!RxStores
<1>9. "rx" \in ioc' => left = 0 \/ "rx" \in ioc
  BY <1>4 DEF Direct!RxStores
<1>10. fifo[1].run \in Nat
  BY <1>4 DEF WireWords
<1> HIDE DEF left, slot
<1>11. todo' \in [Channels -> 0 .. Length] /\ todo'["tx"] = todo["tx"] /\ todo'["rx"] = left
  BY <1>2, <1>5, <1>6 DEF Channels
<1>12. /\ memory' \in [1 .. Length -> Nat]
       /\ "rx" \in address => memory'[slot] = fifo[1].run
       /\ \A i \in 1 .. Length : i # slot => memory'[i] = memory[i]
  BY <1>2, <1>5, <1>7, <1>10
<1> QED
  BY <1>1, <1>3, <1>4, <1>8, <1>9, <1>11, <1>12 DEF left, slot

\* The word that the transmit channel or axis_counter puts in.
LEMMA TxMovesFacts ==
  ASSUME DmaTypes, Direct!TxMoves
  PROVE  /\ "tx" \in running /\ todo["tx"] \in 1 .. Length
         /\ Len(fifo) \in Nat /\ fifo' \in Seq(WireWords) /\ Len(fifo') = Len(fifo) + 1
         /\ \A i \in 1 .. Len(fifo) : fifo'[i] = fifo[i]
         /\ fifo'[Len(fifo) + 1].run = run
         /\ fifo'[Len(fifo) + 1].last <=> todo["tx"] = 1
         /\ todo' \in [Channels -> 0 .. Length] /\ todo'["rx"] = todo["rx"]
         /\ todo'["tx"] = todo["tx"] - 1
         /\ "rx" \in ioc' => "rx" \in ioc
         /\ UNCHANGED <<driver, step, run, running, address, memory>>
<1> DEFINE word == [run |-> run, last |-> todo["tx"] = 1]
<1>1. /\ "tx" \in running /\ todo["tx"] > 0 /\ fifo' = Append(fifo, word)
      /\ todo' = [todo EXCEPT !["tx"] = todo["tx"] - 1]
      /\ UNCHANGED <<driver, step, run, running, address, memory>>
  BY DEF Direct!TxMoves
<1>2. "rx" \in ioc' => "rx" \in ioc
  BY DEF Direct!TxMoves, Direct!Complete
<1>3. fifo \in Seq(WireWords) /\ todo \in [Channels -> 0 .. Length] /\ run \in Nat /\ Length \in Nat
  BY LoopbackAssumption DEF DmaTypes
<1>4. word \in WireWords
  BY <1>3, Zenon DEF WireWords
<1>5. word.run = run /\ (word.last <=> todo["tx"] = 1)
  BY Zenon
<1> HIDE DEF word
<1>6. /\ Len(fifo) \in Nat /\ fifo' \in Seq(WireWords) /\ Len(fifo') = Len(fifo) + 1
      /\ \A i \in 1 .. Len(fifo) : fifo'[i] = fifo[i]
      /\ fifo'[Len(fifo) + 1] = word
  BY <1>1, <1>3, <1>4, AppendFacts
<1>7. todo["tx"] \in 1 .. Length
  BY <1>1, <1>3 DEF Channels
<1>8. todo' \in [Channels -> 0 .. Length] /\ todo'["rx"] = todo["rx"] /\ todo'["tx"] = todo["tx"] - 1
  BY <1>1, <1>3, <1>7 DEF Channels
<1>9. fifo'[Len(fifo) + 1].run = run
  BY <1>5, <1>6
<1>10. fifo'[Len(fifo) + 1].last <=> todo["tx"] = 1
  BY <1>5, <1>6, Zenon
<1> QED
  BY <1>1, <1>2, <1>6, <1>7, <1>8, <1>9, <1>10

\* ... and the word of axis_counter alone.
LEMMA WordComesFacts ==
  ASSUME DmaTypes, Direct!WordComes
  PROVE  /\ driver # LoopProgram /\ "rx" \in running
         /\ Len(fifo) \in Nat /\ fifo' \in Seq(WireWords) /\ Len(fifo') = Len(fifo) + 1
         /\ \A i \in 1 .. Len(fifo) : fifo'[i] = fifo[i]
         /\ fifo'[Len(fifo) + 1].run = run
         /\ UNCHANGED <<driver, step, run, running, address, todo, ioc, memory>>
<1> DEFINE word == [run |-> run, last |-> beats = Packet - 1]
<1>1. /\ driver # LoopProgram /\ "rx" \in running /\ fifo' = Append(fifo, word)
      /\ UNCHANGED <<driver, step, run, running, address, todo, ioc, memory>>
  BY DEF Direct!WordComes, Direct!Looped, LoopProgram
<1>2. fifo \in Seq(WireWords) /\ run \in Nat
  BY DEF DmaTypes
<1>3. word \in WireWords
  BY <1>2, Zenon DEF WireWords
<1>4. word.run = run
  OBVIOUS
<1> HIDE DEF word
<1>5. /\ Len(fifo) \in Nat /\ fifo' \in Seq(WireWords) /\ Len(fifo') = Len(fifo) + 1
      /\ \A i \in 1 .. Len(fifo) : fifo'[i] = fifo[i]
      /\ fifo'[Len(fifo) + 1] = word
  BY <1>1, <1>2, <1>3, AppendFacts
<1> QED
  BY <1>1, <1>4, <1>5

\* Where a step of the script leads to.
LEMMA ScriptGoesOn ==
  ASSUME DmaTypes, NEW op, NEW c, Direct!Do(op, c)
  PROVE  step' \in Nat /\ step' <= IF driver = LoopProgram THEN 13 ELSE 7
<1>1. CASE driver = LoopProgram
  BY <1>1, LoopScriptAt DEF DmaTypes
<1>2. CASE driver # LoopProgram
  BY <1>2, StreamScriptAt DEF DmaTypes
<1> QED
  BY <1>1, <1>2

\* No step leaves the types.
LEMMA DmaTypesStep == DmaTypes /\ [Direct!DirectNext]_testVars /\ driver' = driver => DmaTypes'
<1> SUFFICES ASSUME DmaTypes, [Direct!DirectNext]_testVars, driver' = driver PROVE DmaTypes'
  OBVIOUS
<1>0. Length \in Nat \ {0} /\ run \in Nat
  BY LoopbackAssumption DEF DmaTypes
<1>1. CASE UNCHANGED testVars
  BY <1>1 DEF testVars, DmaTypes
<1>2. CASE Direct!Begin
  <2>1. step' = 1 /\ memory' \in {memory, Direct!Blank} /\ UNCHANGED <<run, todo, fifo>>
    BY <1>2 DEF Direct!Begin, Direct!channelVars
  <2>2. memory' \in [1 .. Length -> Nat]
    BY <2>1 DEF Direct!Blank, DmaTypes
  <2> QED
    BY <2>1, <2>2 DEF DmaTypes
<1>3. CASE Direct!Kill
  <2>1. step' = 0 /\ UNCHANGED <<run, todo, fifo, memory>>
    BY <1>3 DEF Direct!Kill, Direct!channelVars
  <2> QED
    BY <2>1 DEF DmaTypes
<1>4. ASSUME NEW c \in Channels, Direct!ResetDma(c) PROVE DmaTypes'
  <2>1. /\ Direct!Do("reset", c) /\ run' \in {run, run + 1} /\ fifo' = <<>> /\ memory' = memory
        /\ todo' = [d \in Channels |-> 0]
    BY <1>4 DEF Direct!ResetDma, Direct!Channels, Channels
  <2>2. todo' \in [Channels -> 0 .. Length] /\ run' \in Nat /\ fifo' \in Seq(WireWords)
    BY <1>0, <2>1
  <2> QED
    BY <2>1, <2>2, ScriptGoesOn DEF DmaTypes
<1>5. ASSUME NEW c \in Channels, Direct!Halt(c) \/ Direct!SetAddress(c) \/ Direct!Run(c) \/ Direct!Sync(c)
      PROVE  DmaTypes'
  <2>1. PICK op \in {"halt", "address", "run", "sync"} : Direct!Do(op, c)
    BY <1>5 DEF Direct!Halt, Direct!SetAddress, Direct!Run, Direct!Sync
  <2>2. UNCHANGED <<run, todo, fifo, memory>>
    BY <1>5 DEF Direct!Halt, Direct!SetAddress, Direct!Run, Direct!Sync, Direct!channelVars
  <2> QED
    BY <2>1, <2>2, ScriptGoesOn DEF DmaTypes
<1>6. ASSUME NEW c \in Channels, Direct!SetLength(c) PROVE DmaTypes'
  <2>1. /\ Direct!Do("length", c) /\ UNCHANGED <<run, fifo, memory>>
        /\ todo' = [todo EXCEPT ![c] = Length] \/ todo' = todo
    BY <1>6 DEF Direct!SetLength
  <2>2. todo' \in [Channels -> 0 .. Length]
    BY <1>0, <2>1 DEF DmaTypes
  <2> QED
    BY <2>1, <2>2, ScriptGoesOn DEF DmaTypes
<1>7. ASSUME NEW c \in Channels, Direct!Spin(c) PROVE DmaTypes'
  BY <1>7 DEF Direct!Spin, Direct!directVars, Direct!channelVars, DmaTypes
<1>8. CASE Direct!Dump
  <2>1. Direct!Do("dump", "rx") /\ UNCHANGED <<run, todo, fifo, memory>>
    BY <1>8 DEF Direct!Dump, Direct!channelVars
  <2> QED
    BY <2>1, ScriptGoesOn DEF DmaTypes
<1>9. CASE Direct!TxMoves
  BY <1>9, TxMovesFacts DEF DmaTypes
<1>10. CASE Direct!WordComes
  BY <1>10, WordComesFacts DEF DmaTypes
<1>11. ASSUME NEW fails \in BOOLEAN, Direct!RxStores(fails) PROVE DmaTypes'
  BY <1>11, StoreFacts DEF DmaTypes
<1> QED
  BY <1>1, <1>2, <1>3, <1>4, <1>5, <1>6, <1>7, <1>8, <1>9, <1>10, <1>11
     DEF Direct!DirectNext, Direct!DirectProgram, Direct!Channels, Channels

\* The looped program.
LEMMA LoopedStep ==
  ASSUME TestInv, driver = LoopProgram, Direct!DirectNext
  PROVE  LoopedInv'
<1>0. DmaTypes /\ LoopedInv /\ step \in 0 .. 13 /\ Length \in Nat \ {0} /\ todo \in [Channels -> 0 .. Length]
  BY LoopbackAssumption DEF TestInv, DmaTypes
<1>1. CASE Direct!Begin \/ Direct!Kill
  <2>1. step' \in {0, 1}
    BY <1>1 DEF Direct!Begin, Direct!Kill
  <2> QED
    BY <2>1 DEF LoopedInv
<1>2. ASSUME NEW c \in Channels, Direct!ResetDma(c) PROVE LoopedInv'
  <2>1. /\ Direct!Do("reset", c) /\ fifo' = <<>> /\ running' = {} /\ ioc' = {}
        /\ todo' = [d \in Channels |-> 0]
    BY <1>2 DEF Direct!ResetDma, Direct!Channels, Channels
  <2>2. step' \in {2, 3}
    BY <1>0, <2>1, LoopScriptAt
  <2>3. NothingMoves'
    BY <2>1 DEF NothingMoves, Channels
  <2> QED
    BY <2>1, <2>2, <2>3 DEF LoopedInv
<1>3. ASSUME NEW c \in Channels, Direct!Halt(c) PROVE LoopedInv'
  <2>1. Direct!Do("halt", c) /\ running' = running \ {c} /\ UNCHANGED <<todo, fifo, ioc>>
    BY <1>3 DEF Direct!Halt
  <2>2. step \in {3, 4} /\ step' \in {4, 5}
    BY <1>0, <2>1, LoopScriptAt
  <2>3. running' = {} /\ NothingMoves'
    BY <1>0, <2>1, <2>2 DEF LoopedInv, NothingMoves
  <2> QED
    BY <2>2, <2>3 DEF LoopedInv
<1>4. ASSUME NEW c \in Channels, Direct!SetAddress(c) PROVE LoopedInv'
  <2>1. Direct!Do("address", c) /\ address' = address \cup {c} /\ UNCHANGED <<running, todo, fifo, ioc>>
    BY <1>4 DEF Direct!SetAddress
  <2>2. (step = 5 /\ step' = 6 /\ c = "rx") \/ (step = 6 /\ step' = 7 /\ c = "tx")
    BY <1>0, <2>1, LoopScriptAt
  <2>3. running' = {} /\ NothingMoves' /\ "rx" \in address'
    BY <1>0, <2>1, <2>2 DEF LoopedInv, NothingMoves
  <2> QED
    BY <2>2, <2>3 DEF LoopedInv
<1>5. ASSUME NEW c \in Channels, Direct!Run(c) PROVE LoopedInv'
  <2>1. Direct!Do("run", c) /\ running' = running \cup {c} /\ UNCHANGED <<address, todo, fifo, ioc>>
    BY <1>5 DEF Direct!Run
  <2>2. (step = 7 /\ step' = 8 /\ c = "rx") \/ (step = 8 /\ step' = 9 /\ c = "tx")
    BY <1>0, <2>1, LoopScriptAt
  <2>3. "rx" \in running' /\ (step' = 9 => "tx" \in running') /\ NothingMoves' /\ "rx" \in address'
    BY <1>0, <2>1, <2>2 DEF LoopedInv, NothingMoves
  <2> QED
    BY <2>2, <2>3 DEF LoopedInv
<1>6. ASSUME NEW c \in Channels, Direct!SetLength(c) PROVE LoopedInv'
  <2>1. /\ Direct!Do("length", c) /\ UNCHANGED <<run, running, address, ioc, fifo, memory>>
        /\ c \in running => todo' = [todo EXCEPT ![c] = Length]
    BY <1>6 DEF Direct!SetLength
  <2>2. (step = 9 /\ step' = 10 /\ c = "rx") \/ (step = 10 /\ step' = 11 /\ c = "tx")
    BY <1>0, <2>1, LoopScriptAt
  <2>3. "rx" \in running /\ "tx" \in running /\ "rx" \in address /\ "rx" \notin ioc /\ Len(fifo) = 0
    BY <1>0, <2>2 DEF LoopedInv, NothingMoves
  <2>4. todo' = [todo EXCEPT ![c] = Length]
    BY <2>1, <2>2, <2>3
  <2>5. CASE step = 9
    <3>1. step' = 10 /\ todo'["rx"] = Length /\ todo'["tx"] = 0
      BY <1>0, <2>2, <2>4, <2>5 DEF LoopedInv, NothingMoves, Channels
    <3> QED
      BY <2>1, <2>3, <3>1 DEF LoopedInv
  <2>6. CASE step = 10
    <3>1. step' = 11 /\ todo'["rx"] = Length /\ todo'["tx"] = Length
      BY <1>0, <2>2, <2>4, <2>6 DEF LoopedInv, Channels
    <3>2. WholePacket'
      BY <1>0, <2>1, <2>3, <3>1 DEF WholePacket
    <3> QED
      BY <2>1, <2>3, <3>1, <3>2 DEF LoopedInv
  <2> QED
    BY <2>2, <2>5, <2>6
<1>7. ASSUME NEW c \in Channels, Direct!Sync(c) \/ Direct!Spin(c) \/ Direct!Dump PROVE LoopedInv'
  <2>1. UNCHANGED <<run, running, address, todo, ioc, fifo, memory>>
    BY <1>7 DEF Direct!Sync, Direct!Spin, Direct!Dump, Direct!channelVars, Direct!directVars
  <2>2. \/ step' = step
        \/ step = 11 /\ step' = 12
        \/ step = 12 /\ step' = 13 /\ "rx" \in ioc
        \/ step' = 0
    <3>1. CASE Direct!Sync(c)
      <4>1. Direct!Do("sync", c) /\ c \in ioc
        BY <3>1 DEF Direct!Sync, Direct!Over
      <4> QED
        BY <1>0, <4>1, LoopScriptAt
    <3>2. CASE Direct!Dump
      <4>1. Direct!Do("dump", "rx")
        BY <3>2 DEF Direct!Dump
      <4> QED
        BY <1>0, <4>1, LoopScriptAt
    <3>3. CASE Direct!Spin(c)
      BY <3>3 DEF Direct!Spin, Direct!directVars
    <3> QED
      BY <1>7, <3>1, <3>2, <3>3
  <2>3. (NothingMoves => NothingMoves') /\ (WholePacket => WholePacket')
    BY <2>1 DEF NothingMoves, WholePacket
  <2>4. CASE step' = step
    BY <1>0, <2>1, <2>3, <2>4 DEF LoopedInv
  <2>5. CASE step = 11 /\ step' = 12
    BY <1>0, <2>1, <2>3, <2>5 DEF LoopedInv
  <2>6. CASE step = 12 /\ step' = 13 /\ "rx" \in ioc
    <3>1. WholePacket /\ todo["rx"] = 0
      BY <1>0, <2>6 DEF LoopedInv, WholePacket
    <3> QED
      BY <1>0, <2>1, <2>3, <2>6, <3>1 DEF LoopedInv
  <2>7. CASE step' = 0
    BY <2>7 DEF LoopedInv
  <2> QED
    BY <2>2, <2>4, <2>5, <2>6, <2>7
<1>8. CASE Direct!TxMoves
  <2>1. step' = step /\ running' = running /\ address' = address
    BY <1>0, <1>8, TxMovesFacts
  <2>2. step \notin 2 .. 10
    BY <1>0, <1>8, TxMovesFacts DEF LoopedInv, NothingMoves
  <2>3. ASSUME WholePacket PROVE WholePacket'
    <3>1. /\ todo["tx"] \in 1 .. Length /\ Len(fifo) \in Nat /\ Len(fifo') = Len(fifo) + 1
          /\ todo'["rx"] = todo["rx"] /\ todo'["tx"] = todo["tx"] - 1
          /\ ("rx" \in ioc' => "rx" \in ioc) /\ run' = run /\ memory' = memory
      BY <1>0, <1>8, TxMovesFacts
    <3>2. todo'["rx"] = todo'["tx"] + Len(fifo')
      BY <1>0, <2>3, <3>1 DEF WholePacket, Channels
    <3>3. ASSUME NEW i \in 1 .. Len(fifo')
          PROVE  fifo'[i].run = run' /\ (fifo'[i].last <=> todo'["tx"] = 0 /\ i = Len(fifo'))
      <4>1. CASE i = Len(fifo) + 1
        <5>1. fifo'[i].run = run /\ (fifo'[i].last <=> todo["tx"] = 1)
          BY <1>0, <1>8, <4>1, TxMovesFacts
        <5>2. todo'["tx"] = 0 <=> todo["tx"] = 1
          BY <3>1
        <5>3. i = Len(fifo')
          BY <3>1, <4>1
        <5> QED
          BY <3>1, <5>1, <5>2, <5>3
      <4>2. CASE i \in 1 .. Len(fifo)
        <5>1. fifo'[i] = fifo[i]
          BY <1>0, <1>8, <4>2, TxMovesFacts
        <5>2. fifo[i].run = run /\ ~fifo[i].last
          BY <2>3, <3>1, <4>2 DEF WholePacket
        <5>3. i # Len(fifo')
          BY <3>1, <4>2
        <5> QED
          BY <3>1, <5>1, <5>2, <5>3
      <4> QED
        BY <3>1, <4>1, <4>2
    <3> QED
      BY <2>3, <3>1, <3>2, <3>3 DEF WholePacket
  <2>4. todo'["rx"] = todo["rx"]
    BY <1>0, <1>8, TxMovesFacts
  <2> QED
    BY <1>0, <2>1, <2>2, <2>3, <2>4 DEF LoopedInv
<1>9. CASE Direct!WordComes
  BY <1>0, <1>9, WordComesFacts
<1>10. ASSUME NEW fails \in BOOLEAN, Direct!RxStores(fails) PROVE LoopedInv'
  <2>1. /\ "rx" \in running /\ todo["rx"] \in 1 .. Length /\ Len(fifo) \in Nat \ {0}
        /\ Len(fifo') = Len(fifo) - 1 /\ step' = step /\ run' = run /\ address' = address
    BY <1>0, <1>10, StoreFacts
  <2>2. step \in {0, 1} \/ step \in 11 .. 12
    BY <1>0, <2>1 DEF LoopedInv, NothingMoves
  <2>3. CASE step \in {0, 1}
    BY <2>1, <2>3 DEF LoopedInv
  <2>4. CASE step \in 11 .. 12
    <3>1. WholePacket /\ "rx" \in address
      BY <1>0, <2>4 DEF LoopedInv
    <3>2. fifo[1].run = run /\ (fifo[1].last <=> todo["tx"] = 0 /\ Len(fifo) = 1)
      BY <2>1, <3>1 DEF WholePacket
    <3>3. fifo[1].last <=> todo["rx"] = 1
      BY <1>0, <2>1, <3>1, <3>2 DEF WholePacket, Channels
    <3>4. todo'["rx"] = IF fifo[1].last THEN 0 ELSE todo["rx"] - 1
      BY <1>0, <1>10, StoreFacts
    <3>5. todo'["rx"] = todo["rx"] - 1
      BY <2>1, <3>3, <3>4
    <3>6. ~(todo'["rx"] = 0 /\ ~fifo[1].last)
      BY <2>1, <3>3, <3>5
    <3>7. running' = running
      BY <1>0, <1>10, <3>6, StoreFacts
    <3>8. todo'["tx"] = todo["tx"] /\ \A i \in 1 .. Len(fifo) - 1 : fifo'[i] = fifo[i + 1]
      BY <1>0, <1>10, StoreFacts
    <3>9. todo'["rx"] = todo'["tx"] + Len(fifo')
      BY <1>0, <2>1, <3>1, <3>5, <3>8 DEF WholePacket, Channels
    <3>10. ASSUME NEW i \in 1 .. Len(fifo')
           PROVE  fifo'[i].run = run' /\ (fifo'[i].last <=> todo'["tx"] = 0 /\ i = Len(fifo'))
      <4>1. i + 1 \in 1 .. Len(fifo) /\ i \in 1 .. Len(fifo) - 1 /\ (i = Len(fifo') <=> i + 1 = Len(fifo))
        BY <2>1
      <4>2. fifo[i + 1].run = run /\ (fifo[i + 1].last <=> todo["tx"] = 0 /\ i + 1 = Len(fifo))
        BY <3>1, <4>1 DEF WholePacket
      <4> QED
        BY <2>1, <3>8, <4>1, <4>2
    <3>11. ASSUME NEW i \in 1 .. Length, i <= Length - todo'["rx"] PROVE memory'[i] = run'
      <4>1. CASE i = Length - todo["rx"] + 1
        BY <1>0, <1>10, <2>1, <3>1, <3>2, <4>1, StoreFacts
      <4>2. CASE i # Length - todo["rx"] + 1
        <5>1. memory'[i] = memory[i]
          BY <1>0, <1>10, <4>2, StoreFacts
        <5>2. i <= Length - todo["rx"]
          BY <1>0, <2>1, <3>5, <3>11, <4>2
        <5> QED
          BY <2>1, <3>1, <5>1, <5>2 DEF WholePacket
      <4> QED
        BY <4>1, <4>2
    <3>12. "rx" \in ioc' => todo'["rx"] = 0
      <4>1. "rx" \notin ioc
        BY <2>1, <3>1 DEF WholePacket
      <4> QED
        BY <1>0, <1>10, <4>1, StoreFacts
    <3>13. WholePacket'
      BY <3>9, <3>10, <3>11, <3>12 DEF WholePacket
    <3> QED
      BY <1>0, <2>1, <2>4, <3>7, <3>13 DEF LoopedInv
  <2> QED
    BY <2>2, <2>3, <2>4
<1> QED
  BY <1>1, <1>2, <1>3, <1>4, <1>5, <1>6, <1>7, <1>8, <1>9, <1>10
     DEF Direct!DirectNext, Direct!DirectProgram, Direct!Channels, Channels

\* The other program.
LEMMA StreamedStep ==
  ASSUME TestInv, driver # LoopProgram, Direct!DirectNext
  PROVE  StreamedInv'
<1>0. DmaTypes /\ StreamedInv /\ step \in 0 .. 7 /\ Length \in Nat \ {0} /\ todo \in [Channels -> 0 .. Length]
  BY LoopbackAssumption DEF TestInv, DmaTypes
<1>1. CASE Direct!Begin \/ Direct!Kill
  <2>1. step' \in {0, 1}
    BY <1>1 DEF Direct!Begin, Direct!Kill
  <2> QED
    BY <2>1 DEF StreamedInv
<1>2. ASSUME NEW c \in Channels, Direct!ResetDma(c) PROVE StreamedInv'
  <2>1. /\ Direct!Do("reset", c) /\ fifo' = <<>> /\ running' = {} /\ ioc' = {}
        /\ todo' = [d \in Channels |-> 0]
    BY <1>2 DEF Direct!ResetDma, Direct!Channels, Channels
  <2>2. step' = 2
    BY <1>0, <2>1, StreamScriptAt
  <2>3. Len(fifo') = 0 /\ todo'["rx"] = 0
    BY <2>1 DEF Channels
  <2> QED
    BY <2>1, <2>2, <2>3 DEF StreamedInv
<1>3. ASSUME NEW c \in Channels, Direct!Halt(c) PROVE StreamedInv'
  <2>1. Direct!Do("halt", c) /\ running' = running \ {c} /\ UNCHANGED <<run, todo, fifo, ioc>>
    BY <1>3 DEF Direct!Halt
  <2>2. step = 2 /\ step' = 3
    BY <1>0, <2>1, StreamScriptAt
  <2> QED
    BY <1>0, <2>1, <2>2 DEF StreamedInv
<1>4. ASSUME NEW c \in Channels, Direct!SetAddress(c) PROVE StreamedInv'
  <2>1. Direct!Do("address", c) /\ address' = address \cup {c} /\ UNCHANGED <<run, running, todo, fifo, ioc>>
    BY <1>4 DEF Direct!SetAddress
  <2>2. step = 3 /\ step' = 4 /\ c = "rx"
    BY <1>0, <2>1, StreamScriptAt
  <2> QED
    BY <1>0, <2>1, <2>2 DEF StreamedInv
<1>5. ASSUME NEW c \in Channels, Direct!Run(c) PROVE StreamedInv'
  <2>1. Direct!Do("run", c) /\ running' = running \cup {c} /\ UNCHANGED <<run, address, todo, fifo, ioc>>
    BY <1>5 DEF Direct!Run
  <2>2. step = 4 /\ step' = 5 /\ c = "rx"
    BY <1>0, <2>1, StreamScriptAt
  <2> QED
    BY <1>0, <2>1, <2>2 DEF StreamedInv
<1>6. ASSUME NEW c \in Channels, Direct!SetLength(c) PROVE StreamedInv'
  <2>1. /\ Direct!Do("length", c) /\ UNCHANGED <<run, running, address, ioc, fifo, memory>>
        /\ c \in running => todo' = [todo EXCEPT ![c] = Length]
    BY <1>6 DEF Direct!SetLength
  <2>2. step = 5 /\ step' = 6 /\ c = "rx"
    BY <1>0, <2>1, StreamScriptAt
  <2>3. todo'["rx"] = Length /\ "rx" \notin ioc'
    BY <1>0, <2>1, <2>2 DEF StreamedInv, Channels
  <2>4. FirstWord'
    BY <1>0, <2>3 DEF FirstWord
  <2> QED
    BY <1>0, <2>1, <2>2, <2>4 DEF StreamedInv
<1>7. ASSUME NEW c \in Channels, Direct!Sync(c) \/ Direct!Spin(c) \/ Direct!Dump PROVE StreamedInv'
  <2>1. UNCHANGED <<run, running, address, todo, ioc, fifo, memory>>
    BY <1>7 DEF Direct!Sync, Direct!Spin, Direct!Dump, Direct!channelVars, Direct!directVars
  <2>2. \/ step' = step
        \/ step = 6 /\ step' = 7 /\ "rx" \in ioc
        \/ step' = 0
    <3>1. CASE Direct!Sync(c)
      <4>1. Direct!Do("sync", c) /\ c \in ioc
        BY <3>1 DEF Direct!Sync, Direct!Over
      <4> QED
        BY <1>0, <4>1, StreamScriptAt
    <3>2. CASE Direct!Dump
      <4>1. Direct!Do("dump", "rx")
        BY <3>2 DEF Direct!Dump
      <4> QED
        BY <1>0, <4>1, StreamScriptAt
    <3>3. CASE Direct!Spin(c)
      BY <3>3 DEF Direct!Spin, Direct!directVars
    <3> QED
      BY <1>7, <3>1, <3>2, <3>3
  <2>3. FirstWord => FirstWord'
    BY <2>1 DEF FirstWord
  <2>4. CASE step' = step
    BY <1>0, <2>1, <2>3, <2>4 DEF StreamedInv
  <2>5. CASE step = 6 /\ step' = 7 /\ "rx" \in ioc
    <3>1. FirstWord /\ todo["rx"] = 0
      BY <1>0, <2>5 DEF StreamedInv, FirstWord
    <3> QED
      BY <1>0, <2>1, <2>3, <2>5, <3>1 DEF StreamedInv
  <2>6. CASE step' = 0
    BY <2>6 DEF StreamedInv
  <2> QED
    BY <2>2, <2>4, <2>5, <2>6
<1>8. CASE Direct!TxMoves \/ Direct!WordComes
  <2>1. /\ running # {} /\ Len(fifo) \in Nat /\ Len(fifo') = Len(fifo) + 1
        /\ \A i \in 1 .. Len(fifo) : fifo'[i] = fifo[i]
        /\ fifo'[Len(fifo) + 1].run = run
        /\ todo'["rx"] = todo["rx"] /\ ("rx" \in ioc' => "rx" \in ioc)
        /\ UNCHANGED <<step, run, running, address, memory>>
    <3>1. CASE Direct!TxMoves
      BY <1>0, <3>1, TxMovesFacts
    <3>2. CASE Direct!WordComes
      BY <1>0, <3>2, WordComesFacts
    <3> QED
      BY <1>8, <3>1, <3>2
  <2>2. (\A i \in 1 .. Len(fifo) : fifo[i].run = run) => \A i \in 1 .. Len(fifo') : fifo'[i].run = run'
    <3> SUFFICES ASSUME \A j \in 1 .. Len(fifo) : fifo[j].run = run, NEW i \in 1 .. Len(fifo')
                 PROVE  fifo'[i].run = run
      BY <2>1
    <3>1. CASE i = Len(fifo) + 1
      BY <2>1, <3>1
    <3>2. CASE i \in 1 .. Len(fifo)
      BY <2>1, <3>2
    <3> QED
      BY <2>1, <3>1, <3>2
  <2>3. FirstWord => FirstWord'
    BY <2>1 DEF FirstWord
  <2> QED
    BY <1>0, <2>1, <2>2, <2>3 DEF StreamedInv
<1>9. ASSUME NEW fails \in BOOLEAN, Direct!RxStores(fails) PROVE StreamedInv'
  <2>1. /\ "rx" \in running /\ todo["rx"] \in 1 .. Length /\ Len(fifo) \in Nat \ {0}
        /\ Len(fifo') = Len(fifo) - 1 /\ step' = step /\ run' = run /\ address' = address
        /\ \A i \in 1 .. Len(fifo) - 1 : fifo'[i] = fifo[i + 1]
    BY <1>0, <1>9, StoreFacts
  <2>2. step \in {0, 1} \/ step = 6
    BY <1>0, <2>1 DEF StreamedInv
  <2>3. CASE step \in {0, 1}
    BY <2>1, <2>3 DEF StreamedInv
  <2>4. CASE step = 6
    <3>1. FirstWord /\ "rx" \in address /\ \A i \in 1 .. Len(fifo) : fifo[i].run = run
      BY <1>0, <2>4 DEF StreamedInv
    <3>2. \A i \in 1 .. Len(fifo') : fifo'[i].run = run'
      BY <2>1, <3>1
    <3>3. memory'[1] = run
      <4>1. CASE todo["rx"] = Length
        <5>1. 1 = Length - todo["rx"] + 1 /\ fifo[1].run = run
          BY <1>0, <2>1, <3>1, <4>1
        <5> QED
          BY <1>0, <1>9, <3>1, <5>1, StoreFacts
      <4>2. CASE todo["rx"] # Length
        <5>1. memory[1] = run /\ 1 # Length - todo["rx"] + 1 /\ 1 \in 1 .. Length
          BY <1>0, <2>1, <3>1, <4>2 DEF FirstWord
        <5> QED
          BY <1>0, <1>9, <5>1, StoreFacts
      <4> QED
        BY <4>1, <4>2
    <3>4. "rx" \in ioc' => todo'["rx"] = 0
      <4>1. "rx" \notin ioc
        BY <2>1, <3>1 DEF FirstWord
      <4> QED
        BY <1>0, <1>9, <4>1, StoreFacts
    <3>5. FirstWord'
      BY <2>1, <3>3, <3>4 DEF FirstWord
    <3> QED
      BY <2>1, <2>4, <3>1, <3>2, <3>5 DEF StreamedInv
  <2> QED
    BY <2>2, <2>3, <2>4
<1> QED
  BY <1>1, <1>2, <1>3, <1>4, <1>5, <1>6, <1>7, <1>8, <1>9
     DEF Direct!DirectNext, Direct!DirectProgram, Direct!Channels, Channels

\* What is printed: the packet, at the end of the script.
LEMMA PrintedStep ==
  ASSUME TestInv, driver' = driver, Direct!DirectNext
  PROVE  PrintedInv'
<1>0. /\ DmaTypes /\ PrintedInv /\ Length \in Nat \ {0} /\ todo \in [Channels -> 0 .. Length]
  BY LoopbackAssumption DEF TestInv, DmaTypes
<1>1. CASE Direct!Begin
  BY <1>1 DEF Direct!Begin, PrintedInv
<1>2. CASE Direct!Dump
  <2>1. Direct!Do("dump", "rx") /\ printed' = Direct!Mapped /\ UNCHANGED <<run, memory>>
    BY <1>2 DEF Direct!Dump
  <2>2. CASE driver = LoopProgram
    <3>1. step = 13 /\ step' = 0
      BY <1>0, <2>1, <2>2, LoopScriptAt DEF DmaTypes
    <3>2. WholePacket /\ todo["rx"] = 0
      BY <2>2, <3>1 DEF TestInv, LoopedInv
    <3>3. \A i \in 1 .. Length : memory[i] = run
      BY <1>0, <3>2 DEF WholePacket
    <3>4. printed' = memory
      BY <2>1, <2>2 DEF Direct!Mapped, Direct!Looped, LoopProgram
    <3> QED
      BY <2>1, <3>1, <3>3, <3>4 DEF PrintedInv
  <2>3. CASE driver # LoopProgram
    <3>1. step' = 0
      BY <1>0, <2>1, <2>3, StreamScriptAt DEF DmaTypes
    <3> QED
      BY <2>3, <3>1 DEF PrintedInv
  <2> QED
    BY <2>2, <2>3
<1>3. ASSUME printed' = printed, step # 0 \/ (step' = step /\ run' = run)
      PROVE  PrintedInv'
  BY <1>0, <1>3 DEF PrintedInv
<1>4. ASSUME Direct!Kill \/ Direct!TxMoves \/ Direct!WordComes
      PROVE  printed' = printed /\ (step # 0 \/ (step' = step /\ run' = run))
  BY <1>4 DEF Direct!Kill, Direct!TxMoves, Direct!WordComes
<1>5. ASSUME NEW fails \in BOOLEAN, Direct!RxStores(fails)
      PROVE  printed' = printed /\ step' = step /\ run' = run
  BY <1>5 DEF Direct!RxStores
<1>6. ASSUME NEW c \in Channels,
             \/ Direct!ResetDma(c) \/ Direct!Halt(c) \/ Direct!SetAddress(c) \/ Direct!Run(c)
             \/ Direct!SetLength(c) \/ Direct!Sync(c) \/ Direct!Spin(c)
      PROVE  printed' = printed /\ step # 0
  BY <1>6 DEF Direct!ResetDma, Direct!Halt, Direct!SetAddress, Direct!Run, Direct!SetLength,
     Direct!Sync, Direct!Spin, Direct!Do, Direct!directVars
<1> QED
  BY <1>1, <1>2, <1>3, <1>4, <1>5, <1>6 DEF Direct!DirectNext, Direct!DirectProgram, Direct!Channels, Channels

\* Either program, and whatever breaks it off.
LEMMA TestStepInv == TestInv /\ [Direct!DirectNext]_testVars /\ driver' = driver => TestInv'
<1> SUFFICES ASSUME TestInv, [Direct!DirectNext]_testVars, driver' = driver PROVE TestInv'
  OBVIOUS
<1>1. DmaTypes'
  BY DmaTypesStep DEF TestInv
<1>2. CASE Direct!DirectNext
  BY <1>1, <1>2, LoopedStep, StreamedStep, PrintedStep DEF TestInv
<1>3. CASE UNCHANGED testVars
  <2>1. UNCHANGED <<step, run, running, address, todo, ioc, fifo, memory, printed>>
    BY <1>3 DEF testVars
  <2>2. (NothingMoves => NothingMoves') /\ (WholePacket => WholePacket') /\ (FirstWord => FirstWord')
    BY <2>1 DEF NothingMoves, WholePacket, FirstWord
  <2>3. LoopedInv => LoopedInv'
    BY <2>1, <2>2 DEF LoopedInv
  <2>4. StreamedInv => StreamedInv'
    BY <2>1, <2>2 DEF StreamedInv
  <2>5. PrintedInv => PrintedInv'
    BY <2>1 DEF PrintedInv
  <2> QED
    BY <1>1, <2>3, <2>4, <2>5 DEF TestInv
<1> QED
  BY <1>2, <1>3

\* So does the end of the poll, and what the looped program prints.
LEMMA TestVerdict == TestInv => Direct!PollMeansReceived
<1> SUFFICES ASSUME TestInv
             PROVE  /\ step = Len(Direct!Script) => todo["rx"] = 0 /\ memory[1] = run
                    /\ Direct!Looped /\ printed # <<>> => \A i \in 1 .. Length : printed[i] = run
  BY DEF Direct!PollMeansReceived
<1>0. Length \in Nat \ {0}
  BY LoopbackAssumption
<1>1. ASSUME driver = LoopProgram, step = Len(Direct!Script)
      PROVE  todo["rx"] = 0 /\ memory[1] = run
  <2>1. step = 13
    BY <1>1 DEF Direct!Script, Direct!Looped, Direct!LoopScript, LoopProgram
  <2>2. WholePacket /\ todo["rx"] = 0
    BY <1>1, <2>1 DEF TestInv, LoopedInv
  <2> QED
    BY <1>0, <2>2 DEF WholePacket
<1>2. ASSUME driver # LoopProgram, step = Len(Direct!Script)
      PROVE  todo["rx"] = 0 /\ memory[1] = run
  <2>1. step = 7
    BY <1>2 DEF Direct!Script, Direct!Looped, Direct!StreamScript, LoopProgram
  <2>2. FirstWord /\ todo["rx"] = 0
    BY <1>2, <2>1 DEF TestInv, StreamedInv
  <2> QED
    BY <1>0, <2>1, <2>2 DEF FirstWord
<1>3. Direct!Looped /\ printed # <<>> => \A i \in 1 .. Length : printed[i] = run
  BY DEF TestInv, PrintedInv, Direct!Looped, LoopProgram
<1> QED
  BY <1>1, <1>2, <1>3

----------------------------------------------------------------------------
(* The behaviours of any of the programs.                                  *)

\* Each part is preserved whichever program runs: the others stand still.
AllInv == LoopbackInv /\ ExampleInv /\ TestInv

\* A step of the whole is one of a program or leaves it alone.
LEMMA AllSteps ==
  ASSUME [AllNext]_allVars
  PROVE  /\ driver' = driver
         /\ [LoopbackNext]_loopbackVars
         /\ [Sg!SgNext]_exampleVars
         /\ [Direct!DirectNext]_testVars
<1>1. CASE UNCHANGED allVars
  BY <1>1 DEF allVars
<1>2. CASE LoopbackNext /\ UNCHANGED <<driver, exampleVars, testVars>>
  BY <1>2
<1>3. CASE SgStep(Sg!SgNext)
  BY <1>3 DEF SgStep
<1>4. CASE DirectStep(Direct!DirectNext)
  <2>1. Direct!DirectNext /\ UNCHANGED <<loopbackVars, exampleVars>>
    BY <1>4 DEF DirectStep
  <2>2. driver' = driver
    BY <2>1 DEF Direct!DirectNext, Direct!DirectProgram, Direct!Begin, Direct!Kill, Direct!ResetDma,
       Direct!Halt, Direct!SetAddress, Direct!Run, Direct!SetLength, Direct!Sync, Direct!Spin,
       Direct!Dump, Direct!Do, Direct!TxMoves, Direct!WordComes, Direct!RxStores, Direct!directVars
  <2> QED
    BY <2>1, <2>2
<1>5. CASE Finished
  BY <1>5 DEF Finished, allVars
<1> QED
  BY <1>1, <1>2, <1>3, <1>4, <1>5 DEF AllNext

LEMMA AllInvHolds == AllSpec => []AllInv
<1>1. AllInit => AllInv
  BY LoopbackInitInv, ExampleInitInv, TestInitInv DEF AllInit, AllInv
<1>2. AllInv /\ [AllNext]_allVars => AllInv'
  BY AllSteps, LoopbackStepInv, ExampleStepInv, TestStepInv DEF AllInv
<1> QED
  BY <1>1, <1>2, PTL DEF AllSpec

\* The module's and the channels' variables keep their types, whatever the
\* kernel's calls return.
THEOREM DmaTypeOK == AllSpec => []LoopbackTypeOK
<1>1. AllInv => LoopbackTypeOK
  BY DEF AllInv, LoopbackInv, ModuleTypes, EngineTypes, LoopbackTypeOK
<1> QED
  BY <1>1, AllInvHolds, PTL

\* Without a timeout the source buffer is unmapped and freed only after the
\* transmit channel has read all of it: the completion that axidma_start_transfer
\* waits for is that of the channel it waits on.
THEOREM DmaSourceIsDone == AllSpec => []SourceIsDone
<1>1. AllInv => SourceIsDone
  BY DEF AllInv, LoopbackInv
<1> QED
  BY <1>1, AllInvHolds, PTL

\* The loop keeps words and their order, so axidma_init's comparison fails only
\* where a word is missing.
THEOREM DmaFailureIsTooEarly == AllSpec => FailureIsTooEarly
<1>1. AllInv /\ [AllNext]_allVars => [~failed /\ failed' => Len(dest) < Length]_loopbackVars
  BY AllSteps, FailureStep DEF AllInv
<1> QED
  BY <1>1, AllInvHolds, PTL DEF AllSpec, FailureIsTooEarly

\* What the programs say of their transfers is so: the example that passes has
\* all words of its packet in a buffer whose line is clean and its descriptors
\* back where they were; a dma_test.c that polls until its transfer is over has
\* a word of its own run in the memory it gave to the DMA, and the looped one
\* prints its whole packet.  Of what counter_dma's prints nothing is said.
THEOREM DmaVerdictIsRight == AllSpec => []VerdictIsRight
<1>1. AllInv => VerdictIsRight
  BY ExampleVerdict, TestVerdict DEF AllInv, VerdictIsRight
<1> QED
  BY <1>1, AllInvHolds, PTL
=============================================================================
