------------------------ MODULE AxisPacketizerProofs ------------------------
(***************************************************************************)
(* The packetizer for every counter width, with and without CONTINUOUS,    *)
(* the register that controls it, and the recorder that it gates.          *)
(***************************************************************************)
EXTENDS PacketizerControl, AdcRecorder, ModLemmas

\* A shut gate has not begun a packet, and its counter is where a reset or the
\* end of the packet left it.
ShutGate == ~enbl => beats = 0 /\ (cntr = 0 \/ ~Comp)

IInv == TypeOK /\ LastBeatIsLength /\ OnePacketThenShut /\ ShutGate

LEMMA ZeroFits == 0 \in 0 .. CntrSize - 1 /\ 0 \in Nat
BY PacketizerAssumption

LEMMA EdgeInv ==
  ASSUME IInv, NEW tready \in BOOLEAN, NEW more \in BOOLEAN, ClockEdge(tready, more)
  PROVE  IInv'
<1> USE PacketizerAssumption DEF IInv
<1> DEFINE taken == Taken(tready)
<1>t. /\ cntr \in 0 .. CntrSize - 1 /\ cfg \in 0 .. CntrSize - 1
      /\ beats \in Nat /\ packets \in Nat
      /\ enbl \in BOOLEAN /\ offered \in BOOLEAN /\ cfg' = cfg
      /\ continuous \in BOOLEAN /\ continuous' = continuous
  BY DEF TypeOK, ClockEdge, Clock
<1>n. Comp => (cntr + 1) % CntrSize = cntr + 1
  <2>1. Comp => cntr + 1 \in 0 .. CntrSize - 1
    BY <1>t DEF Comp
  <2> QED
    BY <2>1, ModSmall
<1>1. CASE ~enbl
  <2>1. /\ ~taken /\ cntr' = cntr /\ beats' = beats /\ packets' = packets
        /\ enbl' <=> Comp
    BY <1>1 DEF ClockEdge, Clock, Taken, Tvalid, CntrNext, EnblNext
  <2>2. offered' \in BOOLEAN /\ enbl' \in BOOLEAN
    BY <1>1, <1>t DEF ClockEdge, Clock, EnblNext
  <2> QED
    BY <1>1, <1>t, <2>1, <2>2
    DEF TypeOK, LastBeatIsLength, OnePacketThenShut, ShutGate, Comp
<1>2. CASE enbl /\ ~taken
  <2>1. cntr' = cntr /\ beats' = beats /\ packets' = packets /\ enbl' /\ offered' \in BOOLEAN
    BY <1>2, <1>t DEF ClockEdge, Clock, CntrNext, EnblNext
  <2> QED
    BY <1>2, <1>t, <2>1
    DEF TypeOK, LastBeatIsLength, OnePacketThenShut, ShutGate, Comp
<1>3. CASE enbl /\ taken /\ Comp
  <2>1. /\ cntr' = cntr + 1 /\ beats' = beats + 1 /\ packets' = packets
        /\ enbl' /\ offered' \in BOOLEAN
    BY <1>3, <1>t, <1>n DEF ClockEdge, Clock, CntrNext, EnblNext, Tlast
  <2> QED
    BY <1>3, <1>t, <2>1
    DEF TypeOK, LastBeatIsLength, OnePacketThenShut, ShutGate, Comp
<1>4. CASE enbl /\ taken /\ ~Comp
  <2>1. /\ beats' = 0 /\ packets' = packets + 1 /\ offered' \in BOOLEAN
        /\ cntr' = IF continuous THEN 0 ELSE cntr
        /\ enbl' <=> continuous
    BY <1>4, <1>t DEF ClockEdge, Clock, CntrNext, EnblNext, Tlast
  <2>2. enbl' \in BOOLEAN
    BY DEF ClockEdge, Clock, EnblNext
  <2> QED
    BY <1>4, <1>t, <2>1, <2>2
    DEF TypeOK, LastBeatIsLength, OnePacketThenShut, ShutGate, Comp
<1> QED
  BY <1>1, <1>2, <1>3, <1>4, <1>t

\* At power-on the gate is shut and nothing has passed.
LEMMA PacketizerStarts ==
  ASSUME Init
  PROVE  IInv
<1>1. TypeOK
  BY ZeroFits, Zenon DEF Init, TypeOK
<1>2. ~enbl /\ cntr = 0 /\ beats = 0 /\ packets = 0 /\ cfg >= 0
  BY PacketizerAssumption DEF Init
<1> QED
  BY <1>1, <1>2 DEF IInv, LastBeatIsLength, OnePacketThenShut, ShutGate

\* A reset shuts the gate in the middle of a packet and forgets it.
LEMMA ResetInv ==
  ASSUME IInv, ResetEdge
  PROVE  IInv'
<1>1. TypeOK'
  BY ZeroFits, Zenon DEF ResetEdge, IInv, TypeOK
<1>2. ~enbl' /\ cntr' = 0 /\ beats' = 0 /\ packets' = 0 /\ cfg' >= 0
  BY PacketizerAssumption DEF ResetEdge
<1> QED
  BY <1>1, <1>2 DEF IInv, LastBeatIsLength, OnePacketThenShut, ShutGate

LEMMA StutterInv ==
  ASSUME IInv, UNCHANGED vars
  PROVE  IInv'
BY DEF vars, IInv, TypeOK, LastBeatIsLength, OnePacketThenShut, ShutGate, Comp

\* A packet is cfg_data + 1 beats with tlast on its last one; without
\* CONTINUOUS there is one of them, and with a length of zero there is none.
THEOREM PacketizerInv == Spec => [](TypeOK /\ LastBeatIsLength /\ OnePacketThenShut)
<1>1. Init => IInv
  BY PacketizerStarts
<1>2. IInv /\ [Next]_vars => IInv'
  BY EdgeInv, ResetInv, StutterInv DEF Next
<1> QED
  BY <1>1, <1>2, PTL DEF Spec, IInv

\* axis_packetizer.vhd:65: without CONTINUOUS nothing passes after the packet.
THEOREM PacketizerShuts == Spec => []OnePacketThenShut
BY PacketizerInv, PTL

\* The counter stays within its width for every length.
THEOREM PacketizerTypeOK == Spec => []TypeOK
BY PacketizerInv, PTL

----------------------------------------------------------------------------
(* Under the configuration register.                                       *)

Values == Lengths \cup {1}

RegisterTypeOK ==
  /\ core \in {"cfg", "sts"}
  /\ word \in [Words -> Values]
  /\ late \in BOOLEAN /\ bvalid \in BOOLEAN /\ rvalid \in BOOLEAN
  /\ rdata \in Values
  /\ write \in {Axi!None, Axi!Sent} \cup Axi!Writes
  /\ read \in {Axi!None, Axi!Sent} \cup Axi!Reads

\* The registers' reset is over before anything is stored, and an answer is up
\* exactly while the master waits for it.
Channels ==
  /\ late => write = Axi!None /\ word = [j \in Words |-> 0]
  /\ bvalid <=> write = Axi!Sent
  /\ rvalid <=> read = Axi!Sent

\* How far the program is, and its store: the length is written in reset.
Order ==
  /\ stage \in {"hold", "length", "release"}
  /\ core = "cfg" =>
       /\ word[Length] \in Lengths
       /\ write \in Axi!Writes =>
            /\ stage = "length" => write.addr = Reset /\ write.data = 0
            /\ stage = "release" => write.addr = Length /\ write.data \in Lengths
            /\ stage = "hold" => write.addr = Reset /\ write.data = 1
       /\ stage = "release" \/ (stage = "length" /\ write \notin Axi!Writes) => word[Reset] = 0

RegisterInv == RegisterTypeOK /\ Channels /\ Order

LEMMA Shapes ==
  /\ Axi!None # Axi!Sent /\ Axi!None \notin Axi!Writes /\ Axi!Sent \notin Axi!Writes
  /\ Axi!None \notin Axi!Reads /\ Axi!Sent \notin Axi!Reads
BY DEF Axi!None, Axi!Sent, Axi!Writes, Axi!Reads

\* Out of reset nothing is asked for and every word is zero.
LEMMA RegisterStarts ==
  ASSUME Axi!RegisterInit, stage = "hold"
  PROVE  RegisterInv
<1>1. 0 \in Lengths /\ 0 \in Values /\ 1 \in Values
  BY PacketizerAssumption DEF Lengths, Values
<1>2. word = [j \in Words |-> 0] /\ Reset \in Words /\ Length \in Words
  BY DEF Axi!RegisterInit, Words
<1>3. RegisterTypeOK
  BY <1>1, <1>2, Zenon DEF Axi!RegisterInit, RegisterTypeOK
<1>4. Channels
  BY <1>2, Shapes, Zenon DEF Axi!RegisterInit, Channels
<1>5. Order
  BY <1>1, <1>2, Shapes DEF Axi!RegisterInit, Order
<1> QED
  BY <1>3, <1>4, <1>5 DEF RegisterInv

\* What an edge leaves in the words of the configuration register.
LEMMA WordsKept ==
  ASSUME RegisterInv, core = "cfg"
  PROVE  /\ Axi!WordNext \in [Words -> Values]
         /\ ~Axi!Wvalid => Axi!WordNext = word
         /\ Axi!Wvalid => Axi!WordNext = [word EXCEPT ![write.addr] = write.data]
<1> USE DEF RegisterInv, RegisterTypeOK, Channels
<1>1. 0 \in Values
  BY PacketizerAssumption DEF Values, Lengths
<1>2. Axi!Wvalid => write \in Axi!Writes /\ ~late
  BY Shapes DEF Axi!Wvalid
<1>3. Axi!Wvalid => write.addr \in Words /\ write.data \in Values
  BY <1>2 DEF Axi!Writes, Values
<1> QED
  BY <1>1, <1>2, <1>3 DEF Axi!WordNext

\* A step of the master's stores, by what it does to them: nothing is asked
\* for, a new store is, an answer waits, a store waits, it is taken.
LEMMA StoresMove ==
  ASSUME RegisterInv, NEW a \in Words, NEW d \in SUBSET Values, Axi!MasterStores(a, d)
  PROVE  \/ ~Axi!Wvalid /\ write \notin Axi!Writes /\ write' = Axi!None
         \/ /\ ~Axi!Wvalid /\ write \notin Axi!Writes
            /\ write' \in Axi!Writes /\ write'.addr = a /\ write'.data \in d
         \/ ~Axi!Wvalid /\ write = Axi!Sent /\ write' = Axi!Sent
         \/ /\ ~Axi!Wvalid /\ write \in Axi!Writes /\ write' \in Axi!Writes
            /\ write'.addr = write.addr /\ write'.data = write.data
         \/ Axi!Wvalid /\ write \in Axi!Writes /\ write' = Axi!Sent
<1>1. Axi!Wvalid => write \in Axi!Writes
  BY DEF Axi!Wvalid
<1>2. CASE /\ write = Axi!None \/ (write = Axi!Sent /\ bvalid)
           /\ write' = Axi!None
  BY <1>1, <1>2, Shapes
<1>3. CASE /\ write = Axi!None \/ (write = Axi!Sent /\ bvalid)
           /\ Axi!Ask(a, d)
  <2>1. write' \in Axi!Writes /\ write'.addr = a /\ write'.data \in d
    BY <1>3 DEF Axi!Ask, Axi!Writes, Values
  <2> QED
    BY <1>1, <1>3, <2>1, Shapes
<1>4. CASE /\ write \in Axi!Writes /\ ~Axi!Wvalid
           /\ write' \in {write, [write EXCEPT !.awvalid = TRUE, !.wvalid = TRUE]}
  BY <1>4 DEF Axi!Writes
<1>5. CASE Axi!Wvalid /\ write' = Axi!Sent
  BY <1>1, <1>5
<1>6. CASE write = Axi!Sent /\ UNCHANGED write
  BY <1>1, <1>6, Shapes
<1> QED
  BY <1>2, <1>3, <1>4, <1>5, <1>6 DEF Axi!MasterStores

\* A step of the master's loads: nothing is asked for, a new load is, an
\* answer waits, a load is taken.
LEMMA LoadsMove ==
  ASSUME RegisterInv, Axi!MasterLoads
  PROVE  \/ ~Axi!Arvalid /\ read' = Axi!None
         \/ ~Axi!Arvalid /\ read' \in Axi!Reads
         \/ ~Axi!Arvalid /\ read = Axi!Sent /\ read' = Axi!Sent
         \/ Axi!Arvalid /\ read' = Axi!Sent
BY Shapes DEF Axi!MasterLoads, Axi!Arvalid

\* An edge keeps the types of the registers, and an answer up to the clock it
\* is taken in.
LEMMA RegisterKept ==
  ASSUME RegisterInv, NEW a \in Words, NEW d \in SUBSET Values, Axi!RegisterEdge(a, d)
  PROVE  RegisterTypeOK' /\ Channels'
<1> USE DEF RegisterInv
<1>m. Axi!MasterStores(a, d) /\ Axi!MasterLoads /\ late' = FALSE /\ core' = core
  BY DEF Axi!RegisterEdge
<1>1. word' \in [Words -> Values]
  <2>1. CASE core = "cfg"
    BY <2>1, WordsKept DEF Axi!RegisterEdge
  <2>2. CASE core # "cfg"
    BY <2>2 DEF Axi!RegisterEdge, Values
  <2> QED
    BY <2>1, <2>2
<1>2. bvalid' \in BOOLEAN /\ rvalid' \in BOOLEAN
  BY DEF Axi!RegisterEdge, Axi!BvalidNext, Axi!RvalidNext, Axi!Wvalid, Axi!Arvalid
<1>3. rdata' \in Values
  <2>1. Axi!Arvalid => word[read.addr] \in Values
    BY DEF Axi!Arvalid, Axi!Reads, RegisterTypeOK
  <2> QED
    BY <2>1 DEF Axi!RegisterEdge, Axi!RdataNext, RegisterTypeOK
<1>4. /\ write' \in {Axi!None, Axi!Sent} \cup Axi!Writes
      /\ bvalid' <=> write' = Axi!Sent
  <2>1. bvalid' = (Axi!Wvalid \/ (bvalid /\ ~(write = Axi!Sent /\ write' # Axi!Sent)))
    BY DEF Axi!RegisterEdge, Axi!BvalidNext
  <2> QED
    BY <1>m, <2>1, StoresMove, Shapes DEF Channels
<1>5. /\ read' \in {Axi!None, Axi!Sent} \cup Axi!Reads
      /\ rvalid' <=> read' = Axi!Sent
  <2>1. rvalid' = (Axi!Arvalid \/ (rvalid /\ ~(read = Axi!Sent /\ read' # Axi!Sent)))
    BY DEF Axi!RegisterEdge, Axi!RvalidNext
  <2>2. read' \in {Axi!None, Axi!Sent} \cup Axi!Reads
    BY <1>m, LoadsMove
  <2>3. rvalid' <=> read' = Axi!Sent
    <3>1. rvalid <=> read = Axi!Sent
      BY DEF Channels
    <3>2. CASE Axi!Arvalid
      BY <3>2, <1>m, <2>1, LoadsMove
    <3>3. CASE ~Axi!Arvalid /\ read' = Axi!Sent
      BY <3>1, <3>3, <1>m, <2>1, LoadsMove, Shapes
    <3>4. CASE ~Axi!Arvalid /\ read' # Axi!Sent
      BY <3>1, <3>4, <2>1
    <3> QED
      BY <3>2, <3>3, <3>4
  <2> QED
    BY <2>2, <2>3
<1>6. core' \in {"cfg", "sts"} /\ late' \in BOOLEAN
  BY <1>m DEF RegisterTypeOK
<1>7. RegisterTypeOK'
  BY <1>1, <1>2, <1>3, <1>4, <1>5, <1>6, Zenon DEF RegisterTypeOK
<1>8. Channels'
  BY <1>m, <1>4, <1>5 DEF Channels
<1> QED
  BY <1>7, <1>8

----------------------------------------------------------------------------
\* A step of the core is one of the file, whatever the store is.
LEMMA EdgeImplementsFile ==
  ASSUME RegisterInv, NEW a \in Words, NEW d \in SUBSET Values, Axi!RegisterEdge(a, d)
  PROVE  Axi!File!FileNext
<1> USE DEF RegisterInv
<1>m. Axi!MasterStores(a, d) /\ Axi!MasterLoads /\ core' = core
  BY DEF Axi!RegisterEdge
<1>1. UNCHANGED (core = "sts")
  BY <1>m
<1>2. UNCHANGED Axi!LoadSeen \/ Axi!File!LoadStep
  <2>1. CASE read \in Axi!Reads
    <3>1. read' = Axi!Sent /\ rdata' = word[read.addr]
      BY <2>1, <1>m, LoadsMove DEF Axi!RegisterEdge, Axi!RdataNext, Axi!Arvalid
    <3>2. /\ Axi!LoadSeen = [state |-> "asked", addr |-> read.addr]
          /\ Axi!LoadSeen' = [state |-> "done", data |-> word[read.addr]]
      BY <2>1, <3>1, Shapes DEF Axi!LoadSeen, Axi!Arvalid
    <3> QED
      BY <3>2 DEF Axi!File!LoadStep, Axi!File!Answer
  <2>2. CASE read \notin Axi!Reads /\ read' = Axi!Sent
    <3>1. read = Axi!Sent /\ rdata' = rdata
      BY <2>2, <1>m, LoadsMove, Shapes DEF Axi!RegisterEdge, Axi!RdataNext, Axi!Arvalid
    <3> QED
      BY <2>2, <3>1, Shapes DEF Axi!LoadSeen, Axi!Arvalid
  <2>3. CASE read \notin Axi!Reads /\ read' # Axi!Sent
    <3>1. Axi!LoadSeen.state # "asked"
      BY <2>3 DEF Axi!LoadSeen, Axi!Arvalid
    <3>2. Axi!LoadSeen' \in {Axi!File!Free} \cup Axi!File!Loads
      BY <2>3, <1>m, LoadsMove, Shapes
      DEF Axi!LoadSeen, Axi!Arvalid, Axi!Reads, Axi!File!Free, Axi!File!Loads
    <3> QED
      BY <3>1, <3>2 DEF Axi!File!LoadStep
  <2> QED
    BY <2>1, <2>2, <2>3
<1>3. ~Axi!Wvalid => Axi!File!AskStore \/ UNCHANGED Axi!StoreSeen
  <2> SUFFICES ASSUME ~Axi!Wvalid PROVE Axi!File!AskStore \/ UNCHANGED Axi!StoreSeen
    OBVIOUS
  <2>1. CASE write \notin Axi!Writes /\ (write' = Axi!None \/ write' \in Axi!Writes)
    <3>1. Axi!StoreSeen.state # "asked"
      BY <2>1 DEF Axi!StoreSeen
    <3>2. Axi!StoreSeen' \in {Axi!File!Free} \cup Axi!File!Stores
      BY <2>1, Shapes DEF Axi!StoreSeen, Axi!Writes, Axi!File!Free, Axi!File!Stores, Values
    <3> QED
      BY <3>1, <3>2 DEF Axi!File!AskStore
  <2>2. CASE write = Axi!Sent /\ write' = Axi!Sent
    BY <2>2 DEF Axi!StoreSeen
  <2>3. CASE /\ write \in Axi!Writes /\ write' \in Axi!Writes
             /\ write'.addr = write.addr /\ write'.data = write.data
    BY <2>3 DEF Axi!StoreSeen
  <2> QED
    BY <1>m, StoresMove, <2>1, <2>2, <2>3
<1>4. CASE core = "cfg"
  <2>1. CASE Axi!Wvalid
    <3>1. write \in Axi!Writes /\ write' = Axi!Sent
      BY <2>1, <1>m, StoresMove
    <3>2. word' = [word EXCEPT ![write.addr] = write.data]
      BY <1>4, <2>1, WordsKept DEF Axi!RegisterEdge
    <3>3. /\ Axi!StoreSeen = [state |-> "asked", addr |-> write.addr, data |-> write.data]
          /\ Axi!StoreSeen' = [state |-> "done"]
      BY <3>1, Shapes DEF Axi!StoreSeen
    <3>4. Axi!File!StoreStep
      BY <3>2, <3>3 DEF Axi!File!StoreStep, Axi!File!Done
    <3> QED
      BY <1>4, <3>4, <1>1, <1>2 DEF Axi!File!FileNext
  <2>2. CASE ~Axi!Wvalid
    <3>1. word' = word
      BY <1>4, <2>2, WordsKept DEF Axi!RegisterEdge
    <3> QED
      BY <1>4, <2>2, <3>1, <1>1, <1>2, <1>3 DEF Axi!File!FileNext, Axi!File!StoreStep
  <2> QED
    BY <2>1, <2>2
<1>5. CASE core = "sts"
  <2>1. word' \in [Words -> Values] /\ ~Axi!Wvalid
    BY <1>5 DEF Axi!RegisterEdge, Axi!Wvalid, Values
  <2> QED
    BY <1>5, <2>1, <1>1, <1>2, <1>3 DEF Axi!File!FileNext, Axi!File!LogicStep, Values
<1> QED
  BY <1>4, <1>5 DEF RegisterTypeOK

\* The program keeps to its order whatever the master does with its stores.
LEMMA OrderKept ==
  ASSUME RegisterInv, core = "cfg", Axi!RegisterEdge(Place, Data), Program
  PROVE  Order'
<1> USE DEF RegisterInv
<1>d. Place \in Words /\ Data \in SUBSET Values
  BY PacketizerAssumption DEF Place, Data, Words, Values, Lengths, Order
<1>m. /\ Axi!MasterStores(Place, Data) /\ core' = core /\ word' = Axi!WordNext
      /\ word \in [Words -> Values]
  BY DEF Axi!RegisterEdge, RegisterTypeOK
<1>1. CASE ~Axi!Wvalid /\ write \notin Axi!Writes /\ write' \in Axi!Writes
  <2>1. write'.addr = Place /\ write'.data \in Data /\ word' = word /\ stage' = NextStage
    BY <1>1, <1>d, <1>m, StoresMove, WordsKept, Shapes DEF Program
  <2> QED
    BY <1>1, <1>m, <2>1 DEF Order, Place, Data, NextStage
<1>2. CASE ~Axi!Wvalid /\ write \notin Axi!Writes /\ write' \notin Axi!Writes
  <2>1. word' = word /\ stage' = stage
    BY <1>2, <1>m, WordsKept DEF Program
  <2> QED
    BY <1>2, <1>m, <2>1 DEF Order
<1>3. CASE ~Axi!Wvalid /\ write \in Axi!Writes
  <2>1. /\ write' \in Axi!Writes /\ write'.addr = write.addr /\ write'.data = write.data
        /\ word' = word /\ stage' = stage
    BY <1>3, <1>d, <1>m, StoresMove, WordsKept, Shapes DEF Program
  <2> QED
    BY <1>3, <1>m, <2>1 DEF Order
<1>4. CASE Axi!Wvalid
  <2>1. /\ write \in Axi!Writes /\ write' \notin Axi!Writes /\ stage' = stage
        /\ word' = [word EXCEPT ![write.addr] = write.data]
    BY <1>4, <1>d, <1>m, StoresMove, WordsKept, Shapes DEF Program
  <2> QED
    BY <1>m, <2>1 DEF Order, Words, Reset, Length
<1> QED
  BY <1>1, <1>2, <1>3, <1>4

ControlInv == RegisterInv /\ IInv /\ (core = "cfg" => cfg = word[Length])

LEMMA ControlStarts == ControlInit => ControlInv
<1> SUFFICES ASSUME ControlInit PROVE ControlInv
  OBVIOUS
<1>1. Init /\ cfg = 0 /\ Axi!RegisterInit /\ stage = "hold"
  BY DEF ControlInit
<1>2. RegisterInv
  BY <1>1, RegisterStarts
<1>3. IInv
  BY <1>1, PacketizerStarts
<1>4. cfg = word[Length]
  BY <1>1 DEF Axi!RegisterInit, Words
<1> QED
  BY <1>2, <1>3, <1>4 DEF ControlInv

\* Out of reset the length stays: no store to it is under way.
LEMMA ControlEdge ==
  ASSUME ControlInv, NEW tready \in BOOLEAN, NEW more \in BOOLEAN, Edge(tready, more)
  PROVE  ControlInv'
<1> USE DEF ControlInv
<1>1. /\ core = "cfg" /\ Axi!RegisterEdge(Place, Data) /\ Program
      /\ PacketizerEdge(tready, more) /\ core' = core /\ word' = Axi!WordNext
  BY DEF Edge, PacketizerEdge, Axi!RegisterEdge
<1>2. Place \in Words /\ Data \in SUBSET Values
  BY PacketizerAssumption DEF Place, Data, Words, Values, Lengths, Order, RegisterInv
<1>3. RegisterInv'
  BY <1>1, <1>2, RegisterKept, OrderKept DEF RegisterInv
<1>4. cfg' = word'[Length] /\ word'[Length] \in Lengths
  BY <1>1, <1>3 DEF PacketizerEdge, RegisterInv, Order
<1>5. IInv'
  <2>1. CASE word[Reset] = 0
    BY <2>1, <1>1, ResetInv DEF PacketizerEdge
  <2>2. CASE word[Reset] # 0
    <3>1. word'[Length] = word[Length]
      BY <2>2, <1>1, WordsKept DEF RegisterInv, Order, RegisterTypeOK, Words, Reset, Length, Axi!Wvalid
    <3>2. ClockEdge(tready, more)
      BY <2>2, <3>1, <1>1, <1>4 DEF PacketizerEdge, ClockEdge
    <3> QED
      BY <3>2, EdgeInv
  <2> QED
    BY <2>1, <2>2
<1> QED
  BY <1>1, <1>3, <1>4, <1>5

LEMMA ControlStep == ControlInv /\ [ControlNext]_controlVars => ControlInv'
<1> SUFFICES ASSUME ControlInv, [ControlNext]_controlVars PROVE ControlInv'
  OBVIOUS
<1>1. CASE \E tready, more \in BOOLEAN : Edge(tready, more)
  BY <1>1, ControlEdge
<1>2. CASE StatusEdge
  <2>1. /\ core = "sts" /\ core' = core /\ UNCHANGED vars /\ stage' = stage
        /\ Axi!RegisterEdge(Reset, {0})
    BY <1>2 DEF StatusEdge, Axi!RegisterEdge
  <2>2. Reset \in Words /\ {0} \in SUBSET Values
    BY PacketizerAssumption DEF Words, Values, Lengths
  <2>3. RegisterInv'
    BY <2>1, <2>2, RegisterKept DEF ControlInv, RegisterInv, Order
  <2>4. IInv'
    BY <2>1, StutterInv DEF ControlInv
  <2> QED
    BY <2>1, <2>3, <2>4 DEF ControlInv
<1>3. CASE UNCHANGED controlVars
  <2>1. UNCHANGED vars
    BY <1>3 DEF controlVars
  <2>2. IInv'
    BY <2>1, StutterInv DEF ControlInv
  <2>3. RegisterInv' /\ (core' = "cfg" => cfg' = word'[Length])
    BY <1>3 DEF controlVars, vars, Axi!registerVars, ControlInv, RegisterInv,
                RegisterTypeOK, Channels, Order
  <2> QED
    BY <2>2, <2>3 DEF ControlInv
<1> QED
  BY <1>1, <1>2, <1>3 DEF ControlNext

LEMMA ControlAlways == ControlSpec => []ControlInv
BY ControlStarts, ControlStep, PTL DEF ControlSpec

\* The order of the program's stores and the registers' word at a time give
\* the packetizer a length that does not change under a packet: what is
\* proved of the gate holds of the gate and its register.
THEOREM ControlledPackets == ControlSpec => [](LastBeatIsLength /\ OnePacketThenShut)
<1>1. ControlInv => LastBeatIsLength /\ OnePacketThenShut
  BY DEF ControlInv, IInv
<1> QED
  BY <1>1, ControlAlways, PTL

\* axi_cfg_register.vhd and axi_sts_register.vhd: a load or a store does its
\* work once, between the request and the answer.
THEOREM ControlImplementsRegisterFile == ControlSpec => ImplementsRegisterFile
<1>1. ControlInit => Axi!File!FileInit
  <2> SUFFICES ASSUME ControlInit PROVE Axi!File!FileInit
    OBVIOUS
  <2>1. Axi!RegisterInit /\ 0 \in Values
    BY PacketizerAssumption DEF ControlInit, Values, Lengths
  <2> QED
    BY <2>1, Shapes
    DEF Axi!RegisterInit, Axi!File!FileInit, Axi!File!Free, Axi!StoreSeen, Axi!LoadSeen,
        Axi!Arvalid, Values
<1>2. ControlInv /\ [ControlNext]_controlVars => [Axi!File!FileNext]_(Axi!File!fileVars)
  <2> SUFFICES ASSUME ControlInv, [ControlNext]_controlVars
               PROVE  Axi!File!FileNext \/ UNCHANGED Axi!File!fileVars
    OBVIOUS
  <2>1. CASE \E tready, more \in BOOLEAN : Edge(tready, more)
    <3>1. Axi!RegisterEdge(Place, Data) /\ RegisterInv
      BY <2>1 DEF Edge, ControlInv
    <3>2. Place \in Words /\ Data \in SUBSET Values
      BY PacketizerAssumption
      DEF Place, Data, Words, Values, Lengths, Order, RegisterInv, ControlInv
    <3> QED
      BY <3>1, <3>2, EdgeImplementsFile
  <2>2. CASE StatusEdge
    <3>1. Axi!RegisterEdge(Reset, {0}) /\ RegisterInv
      BY <2>2 DEF StatusEdge, ControlInv
    <3>2. Reset \in Words /\ {0} \in SUBSET Values
      BY PacketizerAssumption DEF Words, Values, Lengths
    <3> QED
      BY <3>1, <3>2, EdgeImplementsFile
  <2>3. CASE UNCHANGED controlVars
    BY <2>3 DEF controlVars, Axi!registerVars, Axi!File!fileVars, Axi!StoreSeen,
                Axi!LoadSeen, Axi!Arvalid
  <2> QED
    BY <2>1, <2>2, <2>3 DEF ControlNext
<1> QED
  BY <1>1, <1>2, ControlAlways, PTL
  DEF ControlSpec, ImplementsRegisterFile, Axi!ImplementsRegisterFile, Axi!File!FileSpec
----------------------------------------------------------------------------
(* The recorder: the packetizer in front of a converter and the writer.    *)

W == INSTANCE AxisRamWriterProofs WITH Orderly <- TRUE

LEMMA RecorderSizes ==
  /\ Samples \in Nat \ {0} /\ Samples % 2 = 0 /\ Samples < CntrSize /\ CntrSize \in Nat
  /\ Burst \in Nat \ {0, 1} /\ Ring \in Nat \ {0} /\ Ring % Burst = 0 /\ Ids \in Nat \ {0}
  /\ AlmostEmptyOffset \in Nat /\ AlmostEmptyOffset + 1 >= Burst
  /\ FifoDepth \in Nat /\ FifoDepth > AlmostEmptyOffset + 1
  /\ PorCycles \in Nat /\ MaxWords \in Nat /\ TRUE \in BOOLEAN
BY RecorderAssumption, PacketizerAssumption

LEMMA SizesAreNat ==
  /\ Samples \in Nat /\ AlmostEmptyOffset \in Nat /\ FifoDepth \in Nat /\ Ring \in Nat
  /\ (Samples - 1) + 1 = Samples
BY RecorderSizes

\* Samples are two to the word, and the ring has room for all of them.
LEMMA PacketWordsFacts ==
  PacketWords \in Nat /\ Samples = 2 * PacketWords /\ PacketWords <= Ring
<1>1. PICK z \in Nat, h \in 0 .. 1 : Samples = 2 * z + h /\ Samples \div 2 = z /\ Samples % 2 = h
  <2>1. Samples \in Nat /\ 2 \in Nat \ {0}
    BY RecorderSizes
  <2> QED
    BY <2>1, DivMod
<1>2. h = 0 /\ 2 * z <= 2 * Ring /\ Ring \in Nat
  BY <1>1, RecorderAssumption
<1> QED
  BY <1>1, <1>2 DEF PacketWords

\* The writer of the recorder is the one of the proofs, wire by wire.
LEMMA SameEdge ==
  ASSUME NEW t \in BOOLEAN, NEW a \in BOOLEAN, NEW w \in BOOLEAN, NEW l \in BOOLEAN,
         Writer!ClockEdge(t, a, w, l)
  PROVE  W!ClockEdge(t, a, w, l)
BY Zenon DEF
   Writer!ClockEdge, Writer!AlmostEmpty, Writer!Rden, Writer!AwvalidNext, Writer!WvalidNext,
   Writer!AddrNext, Writer!WidNext, Writer!Max2, Writer!FifoAfter, Writer!Wren, Writer!Full,
   Writer!SlaveAfter, Writer!RamAfter, Writer!Opened, Writer!Idle, Writer!Head, Writer!NoWord,
   Writer!StartBurst, Writer!EndBurst, Writer!Wlast,
   W!ClockEdge, W!AlmostEmpty, W!Rden, W!AwvalidNext, W!WvalidNext,
   W!AddrNext, W!WidNext, W!Max2, W!FifoAfter, W!Wren, W!Full,
   W!SlaveAfter, W!RamAfter, W!Opened, W!Idle, W!Head, W!NoWord,
   W!StartBurst, W!EndBurst, W!Wlast

LEMMA WriterStays ==
  ASSUME W!WriterInv,
         \/ UNCHANGED Writer!vars
         \/ Writer!ResetEdge
         \/ \E a, w, l \in BOOLEAN : Writer!ClockEdge(WordOffered, a, w, l)
  PROVE  W!WriterInv'
<1>1. CASE Writer!ResetEdge
  <2>1. W!ResetEdge
    BY <1>1, Zenon DEF Writer!ResetEdge, Writer!Max2, Writer!NoWord, W!ResetEdge, W!Max2, W!NoWord
  <2> QED
    BY <2>1, RecorderSizes, W!WriterStep, Zenon DEF W!Next
<1>2. CASE \E a, w, l \in BOOLEAN : Writer!ClockEdge(WordOffered, a, w, l)
  <2>1. WordOffered \in BOOLEAN
    BY DEF WordOffered
  <2>2. W!Next
    BY <1>2, <2>1, SameEdge, Zenon DEF W!Next
  <2> QED
    BY <2>2, RecorderSizes, W!WriterStep, Zenon
<1>3. CASE UNCHANGED Writer!vars
  <2>1. UNCHANGED W!vars
    BY <1>3 DEF Writer!vars, W!vars
  <2> QED
    BY <2>1, RecorderSizes, W!WriterStep, Zenon
<1> QED
  BY <1>1, <1>2, <1>3

LEMMA WriterFacts ==
  ASSUME W!WriterInv
  PROVE  /\ fifo \in 0 .. FifoDepth /\ moved \in Nat /\ por \in 0 .. PorCycles
         /\ \A k \in 0 .. moved - 1 : k >= moved - Ring => mem[k % Ring] = k
BY RecorderSizes, W!WriterFacts, Zenon

LEMMA CountsAreNat ==
  ASSUME W!WriterInv
  PROVE  fifo \in Nat /\ moved \in Nat
<1>1. fifo \in 0 .. FifoDepth /\ moved \in Nat
  BY WriterFacts
<1> QED
  BY <1>1, SizesAreNat

\* A sample that the packetizer passes on in this clock.
Passing == IF Taken(ConverterReady) THEN 1 ELSE 0

\* An edge of the writer keeps the samples: what came in is in the converter,
\* in the FIFO or in RAM.
LEMMA SamplesKept ==
  ASSUME W!WriterInv, held \in 0 .. 2, por = 0 \/ held # 2,
         NEW a \in BOOLEAN, NEW w \in BOOLEAN, NEW l \in BOOLEAN,
         Writer!ClockEdge(WordOffered, a, w, l), held' = HeldAfter
  PROVE  /\ held' \in 0 .. 2
         /\ held' + 2 * (fifo' + moved') = held + 2 * (fifo + moved) + Passing
         /\ moved' >= moved
         /\ por = 0 => por' = 0
<1>1. WordOffered \in BOOLEAN /\ (por = 0 \/ ~WordOffered)
  BY DEF WordOffered
<1>2. W!ClockEdge(WordOffered, a, w, l)
  BY <1>1, SameEdge
<1>3. /\ fifo' + moved' = fifo + moved + (IF WordOffered /\ ~W!Full THEN 1 ELSE 0)
      /\ moved' >= moved
      /\ por = 0 => por' = 0
  BY <1>1, <1>2, RecorderSizes, W!WordsKept, Zenon
<1>4. /\ fifo' + moved' = fifo + moved + (IF WordTaken THEN 1 ELSE 0)
      /\ fifo + moved \in Nat
  BY <1>3, WriterFacts, RecorderSizes DEF WordTaken, Writer!Full, W!Full
<1>5. /\ held' = (IF WordTaken THEN 0 ELSE held) + Passing
      /\ Passing \in 0 .. 1
      /\ WordTaken => held = 2
      /\ Passing = 1 /\ held = 2 => WordTaken
  BY DEF HeldAfter, Passing, WordTaken, WordOffered, Taken, ConverterReady
<1> DEFINE new == fifo' + moved'
           old == fifo + moved
<1>6. new = old + (IF WordTaken THEN 1 ELSE 0) /\ old \in Nat
  BY <1>4
<1> HIDE DEF new, old
<1>7. held' \in 0 .. 2 /\ held' + 2 * new = held + 2 * old + Passing
  <2>1. CASE WordTaken
    <3>1. held = 2 /\ held' = 0 + Passing /\ new = old + 1
      BY <1>5, <1>6, <2>1
    <3> QED
      BY <1>5, <1>6, <3>1
  <2>2. CASE ~WordTaken
    <3>1. held' = held + Passing /\ new = old + 0 /\ (Passing = 1 => held # 2)
      BY <1>5, <1>6, <2>2
    <3> QED
      BY <1>5, <1>6, <3>1
  <2> QED
    BY <2>1, <2>2
<1> QED
  BY <1>3, <1>7 DEF new, old

\* What the packetizer has let through since its reset.
Through == IF packets = 1 THEN cfg + 1 ELSE beats

\* Without CONTINUOUS an edge counts the sample it passes on, and after the
\* packet passes none on.
LEMMA ThroughCounts ==
  ASSUME IInv, ~continuous, NEW more \in BOOLEAN, ClockEdge(ConverterReady, more)
  PROVE  /\ Through \in Nat /\ Through' = Through + Passing
         /\ packets = 1 => Passing = 0 /\ packets' = 1
         /\ ~enbl => Passing = 0
         /\ packets = 1 => ~enbl'
<1>1. /\ cntr \in Nat /\ cfg \in Nat /\ beats \in Nat /\ packets \in 0 .. 1
      /\ packets = 1 => ~enbl /\ ~Comp
      /\ enbl => cntr = beats
      /\ beats <= cfg
  BY PacketizerAssumption DEF IInv, TypeOK, LastBeatIsLength, OnePacketThenShut
<1>2. /\ cfg' = cfg
      /\ beats' = IF ~Taken(ConverterReady) THEN beats ELSE IF Tlast THEN 0 ELSE beats + 1
      /\ packets' = IF Taken(ConverterReady) /\ Tlast THEN packets + 1 ELSE packets
  BY DEF ClockEdge, Clock
<1>3. ~enbl => Passing = 0
  BY DEF Passing, Taken, Tvalid
<1>4. packets = 1 => ~enbl'
  BY <1>1 DEF ClockEdge, Clock, EnblNext
<1>5. CASE ~Taken(ConverterReady)
  BY <1>1, <1>2, <1>3, <1>4, <1>5 DEF Through, Passing
<1>6. CASE Taken(ConverterReady)
  <2>1. enbl /\ packets = 0 /\ Passing = 1
    BY <1>1, <1>6 DEF Taken, Tvalid, Passing
  <2>2. CASE Tlast
    <3>1. beats = cfg
      BY <1>1, <2>1, <2>2 DEF Tlast, Comp
    <3> QED
      BY <1>1, <1>2, <1>6, <2>1, <2>2, <3>1 DEF Through
  <2>3. CASE ~Tlast
    BY <1>1, <1>2, <1>6, <2>1, <2>3 DEF Through
  <2> QED
    BY <2>2, <2>3
<1> QED
  BY <1>5, <1>6
\* The program's accesses and the hardware go together: the writer is cleared
\* while the packetizer is shut, and stays empty until the packetizer's own
\* reset is over; what is shut is in reset or has had its packet.
Phase ==
  /\ pc \in {"begin", "clear writer", "set writer", "clear filters", "set filters",
             "first sleep", "clear packetizer", "set length", "set packetizer",
             "second sleep", "print"}
  /\ pc = "set writer" => "writer" \notin unreset
  /\ pc \notin {"begin", "clear writer", "set writer"} => "writer" \in unreset
  /\ pc \in {"clear filters", "set filters", "first sleep", "clear packetizer", "set length",
             "set packetizer"} => held = 0 /\ fifo = 0 /\ moved = 0
  /\ pc \in {"set length", "set packetizer"} => "packetizer" \notin unreset
  /\ pc \in {"second sleep", "print"} => "packetizer" \in unreset
  /\ pc \in {"clear packetizer", "set length", "set packetizer", "second sleep", "print"} => por = 0
  /\ pc \in {"set packetizer", "second sleep", "print"} => cfg = Samples - 1
  /\ "packetizer" \notin unreset => ~enbl
  /\ "packetizer" \in unreset /\ pc # "second sleep" => packets = 1
  /\ pc = "print" => PacketWords <= moved + AlmostEmptyOffset + 1

RecorderInv ==
  /\ IInv /\ ~continuous /\ W!WriterInv
  /\ held \in 0 .. 2
  /\ Phase /\ SamplesAccounted

LEMMA RecorderStarts == RecorderInit => RecorderInv
<1> SUFFICES ASSUME RecorderInit PROVE RecorderInv
  OBVIOUS
<1>1. IInv /\ ~continuous
  BY PacketizerStarts DEF RecorderInit
<1>2. W!WriterInv
  <2>1. W!Init
    BY Zenon DEF RecorderInit, Writer!Init, Writer!Idle, Writer!NoWord, W!Init, W!Idle, W!NoWord
  <2> QED
    BY <2>1, RecorderSizes, W!WriterStarts, Zenon
<1>3. held \in 0 .. 2 /\ Phase /\ SamplesAccounted
  BY DEF RecorderInit, Init, Phase, SamplesAccounted
<1> QED
  BY <1>1, <1>2, <1>3 DEF RecorderInv

\* The packetizer's part of an edge.
LEMMA GateStep ==
  ASSUME RecorderInv, NEW more \in BOOLEAN, GateEdge(more)
  PROVE  /\ IInv' /\ ~continuous'
         /\ "packetizer" \notin unreset => Through' = 0 /\ ~enbl' /\ packets' = 0
         /\ "packetizer" \in unreset => Through' = Through + Passing
         /\ pc # "second sleep" => ~enbl' /\ Passing = 0
         /\ "packetizer" \in unreset /\ packets = 1 => packets' = 1 /\ Passing = 0 /\ ~enbl'
<1>1. CASE "packetizer" \in unreset
  <2>1. ClockEdge(ConverterReady, more)
    BY <1>1 DEF GateEdge
  <2>2. ConverterReady \in BOOLEAN
    BY DEF ConverterReady, WordTaken, WordOffered, Writer!Full
  <2>3. IInv'
    BY <2>1, <2>2, EdgeInv DEF RecorderInv
  <2>4. continuous' = continuous
    BY <2>1 DEF ClockEdge, Clock
  <2>5. pc # "second sleep" => packets = 1
    BY <1>1 DEF RecorderInv, Phase
  <2> QED
    BY <1>1, <2>1, <2>3, <2>4, <2>5, ThroughCounts DEF RecorderInv
<1>2. CASE "packetizer" \notin unreset
  <2>1. ResetEdge
    BY <1>2 DEF GateEdge
  <2>2. IInv'
    BY <2>1, ResetInv DEF RecorderInv
  <2>3. ~enbl
    BY <1>2 DEF RecorderInv, Phase
  <2>4. Passing = 0
    BY <2>3 DEF Passing, Taken, Tvalid
  <2>5. packets' = 0 /\ beats' = 0 /\ enbl' = FALSE /\ continuous' = continuous
    BY <2>1 DEF ResetEdge
  <2>6. Through' = 0
    BY <2>5 DEF Through
  <2>7. ~continuous
    BY DEF RecorderInv
  <2> QED
    BY <1>2, <2>2, <2>4, <2>5, <2>6, <2>7
<1> QED
  BY <1>1, <1>2

\* The writer's.
LEMMA WriterEdgeStep ==
  ASSUME RecorderInv, NEW a \in BOOLEAN, NEW w \in BOOLEAN, NEW l \in BOOLEAN,
         WriterEdge(a, w, l)
  PROVE  /\ W!WriterInv' /\ held' \in 0 .. 2
         /\ "writer" \notin unreset => held' = 0 /\ fifo' = 0 /\ moved' = 0
         /\ "writer" \in unreset /\ (por = 0 \/ held = 0) =>
              /\ held' + 2 * (fifo' + moved') = held + 2 * (fifo + moved) + Passing
              /\ moved' >= moved
              /\ por = 0 => por' = 0
<1>1. CASE "writer" \in unreset
  <2>1. Writer!ClockEdge(WordOffered, a, w, l) /\ held' = HeldAfter
    BY <1>1 DEF WriterEdge
  <2>2. W!WriterInv'
    BY <2>1, WriterStays DEF RecorderInv
  <2>3. held' \in 0 .. 2
    <3>1. WordTaken => held = 2
      BY DEF WordTaken, WordOffered
    <3>2. Taken(ConverterReady) /\ held = 2 => WordTaken
      BY DEF Taken, ConverterReady
    <3> QED
      BY <2>1, <3>1, <3>2 DEF HeldAfter, RecorderInv
  <2>4. por = 0 \/ held = 0 =>
          /\ held' + 2 * (fifo' + moved') = held + 2 * (fifo + moved) + Passing
          /\ moved' >= moved
          /\ por = 0 => por' = 0
    BY <2>1, SamplesKept DEF RecorderInv
  <2> QED
    BY <1>1, <2>2, <2>3, <2>4
<1>2. CASE "writer" \notin unreset
  <2>1. Writer!ResetEdge /\ held' = 0
    BY <1>2 DEF WriterEdge
  <2>2. W!WriterInv'
    BY <2>1, WriterStays DEF RecorderInv
  <2> QED
    BY <1>2, <2>1, <2>2 DEF Writer!ResetEdge
<1> QED
  BY <1>1, <1>2

\* What may stay behind of the samples.
LEMMA TailFits ==
  ASSUME NEW f \in Nat, NEW m \in Nat, NEW h \in 0 .. 2, h # 2,
         Samples = h + 2 * (f + m), f <= AlmostEmptyOffset + 1
  PROVE  PacketWords <= m + AlmostEmptyOffset + 1
<1> DEFINE words == f + m
<1>1. PacketWords \in Nat /\ words \in Nat /\ 2 * PacketWords = h + 2 * words /\ h \in 0 .. 1
  BY PacketWordsFacts
<1> HIDE DEF words
<1>2. PacketWords = words
  BY <1>1
<1> QED
  BY <1>2, SizesAreNat DEF words

\* All is quiet: what is not in RAM is below the FIFO's threshold.
LEMMA QuietTail ==
  ASSUME RecorderInv, pc = "second sleep", Quiet
  PROVE  PacketWords <= moved + AlmostEmptyOffset + 1
<1>1. fifo \in Nat /\ moved \in Nat /\ held \in 0 .. 2
  BY CountsAreNat DEF RecorderInv
<1>2. packets = 1 /\ held # 2 /\ fifo <= AlmostEmptyOffset + 1
  BY DEF Quiet, WordOffered, Writer!AlmostEmpty
<1>3. cfg + 1 = held + 2 * (fifo + moved) /\ cfg = Samples - 1
  BY <1>2 DEF RecorderInv, SamplesAccounted, Phase
<1>4. Samples = held + 2 * (fifo + moved)
  BY <1>3, SizesAreNat, Zenon
<1> QED
  BY <1>1, <1>2, <1>4, TailFits, Zenon
\* Where all the samples are.
Sum == held + 2 * (fifo + moved)

LEMMA NoSum == 0 + 2 * (0 + 0) = 0
OBVIOUS

LEMMA NoSamples ==
  ASSUME NEW h \in 0 .. 2, NEW f \in Nat, NEW m \in Nat, h + 2 * (f + m) = 0
  PROVE  h = 0 /\ f = 0 /\ m = 0
OBVIOUS

LEMMA TailShrinks ==
  ASSUME NEW m \in Nat, NEW n \in Nat, n >= m, PacketWords <= m + AlmostEmptyOffset + 1
  PROVE  PacketWords <= n + AlmostEmptyOffset + 1
BY PacketWordsFacts, SizesAreNat

\* What an edge does, whatever the program does at it.
LEMMA RecorderEdge ==
  ASSUME RecorderInv, NEW more \in BOOLEAN, NEW a \in BOOLEAN, NEW w \in BOOLEAN,
         NEW l \in BOOLEAN, HardwareEdge(more, a, w, l)
  PROVE  /\ IInv' /\ ~continuous' /\ W!WriterInv' /\ held' \in 0 .. 2
         /\ "writer" \notin unreset => held' = 0 /\ fifo' = 0 /\ moved' = 0
         /\ "packetizer" \notin unreset => ~enbl' /\ Through' = 0
         /\ pc # "second sleep" => ~enbl'
         /\ "packetizer" \in unreset /\ packets = 1 => packets' = 1 /\ ~enbl'
         /\ "writer" \in unreset /\ pc # "second sleep" /\ held = 0 /\ fifo = 0 /\ moved = 0 =>
              held' = 0 /\ fifo' = 0 /\ moved' = 0
         /\ "writer" \in unreset /\ por = 0 => por' = 0
         /\ pc \in {"second sleep", "print"} => Through' = Sum'
         /\ pc = "print" \/ (pc = "second sleep" /\ Quiet) =>
              PacketWords <= moved' + AlmostEmptyOffset + 1
<1>1. /\ IInv' /\ ~continuous'
      /\ "packetizer" \notin unreset => Through' = 0 /\ ~enbl'
      /\ "packetizer" \in unreset => Through' = Through + Passing
      /\ pc # "second sleep" => ~enbl' /\ Passing = 0
      /\ "packetizer" \in unreset /\ packets = 1 => packets' = 1 /\ ~enbl'
  BY GateStep DEF HardwareEdge
<1>2. /\ W!WriterInv' /\ held' \in 0 .. 2
      /\ "writer" \notin unreset => held' = 0 /\ fifo' = 0 /\ moved' = 0
      /\ "writer" \in unreset /\ (por = 0 \/ held = 0) =>
           Sum' = Sum + Passing /\ moved' >= moved /\ (por = 0 => por' = 0)
  BY WriterEdgeStep DEF HardwareEdge, Sum
<1>3. fifo' \in Nat /\ moved' \in Nat /\ moved \in Nat
  <2>1. moved \in Nat
    BY CountsAreNat DEF RecorderInv
  <2>2. fifo' \in 0 .. FifoDepth /\ moved' \in Nat
    BY <1>2 DEF W!WriterInv, W!FlowInv, W!TypeOK
  <2> QED
    BY <2>1, <2>2, SizesAreNat
<1>4. ASSUME "writer" \in unreset, pc # "second sleep", held = 0, fifo = 0, moved = 0
      PROVE  held' = 0 /\ fifo' = 0 /\ moved' = 0
  <2>1. Sum' = Sum + Passing /\ Passing = 0
    BY <1>1, <1>2, <1>4
  <2>2. Sum = 0
    BY <1>4, NoSum, Zenon DEF Sum
  <2>3. held' + 2 * (fifo' + moved') = 0
    BY <2>1, <2>2 DEF Sum
  <2> QED
    BY <1>2, <1>3, <2>3, NoSamples
<1>5. pc \in {"second sleep", "print"} =>
        "writer" \in unreset /\ "packetizer" \in unreset /\ por = 0 /\ Through = Sum
  BY DEF RecorderInv, Phase, SamplesAccounted, Through, Sum
<1>6. pc \in {"second sleep", "print"} => Through' = Sum'
  BY <1>1, <1>2, <1>5, Zenon
<1>7. pc = "print" \/ (pc = "second sleep" /\ Quiet) =>
        PacketWords <= moved' + AlmostEmptyOffset + 1
  <2>1. pc = "print" => PacketWords <= moved + AlmostEmptyOffset + 1
    BY DEF RecorderInv, Phase
  <2>2. pc \in {"second sleep", "print"} => moved' >= moved
    BY <1>2, <1>5
  <2> QED
    BY <1>3, <2>1, <2>2, QuietTail, TailShrinks
<1> QED
  BY <1>1, <1>2, <1>4, <1>6, <1>7

LEMMA RecorderSteps ==
  ASSUME RecorderInv, RecorderNext
  PROVE  RecorderInv'
<1>1. PICK more \in BOOLEAN, a \in BOOLEAN, w \in BOOLEAN, l \in BOOLEAN :
        /\ ProgramStep \/ ProgramRests
        /\ HardwareEdge(more, a, w, l)
  BY DEF RecorderNext
<1>2. /\ IInv' /\ ~continuous' /\ W!WriterInv' /\ held' \in 0 .. 2
      /\ "writer" \notin unreset => held' = 0 /\ fifo' = 0 /\ moved' = 0
      /\ "packetizer" \notin unreset => ~enbl' /\ Through' = 0
      /\ pc # "second sleep" => ~enbl'
      /\ "packetizer" \in unreset /\ packets = 1 => packets' = 1 /\ ~enbl'
      /\ "writer" \in unreset /\ pc # "second sleep" /\ held = 0 /\ fifo = 0 /\ moved = 0 =>
           held' = 0 /\ fifo' = 0 /\ moved' = 0
      /\ "writer" \in unreset /\ por = 0 => por' = 0
      /\ pc \in {"second sleep", "print"} => Through' = Sum'
      /\ pc = "print" \/ (pc = "second sleep" /\ Quiet) =>
           PacketWords <= moved' + AlmostEmptyOffset + 1
  BY <1>1, RecorderEdge, Zenon
<1>3. Phase
  BY DEF RecorderInv
<1>4. held' = 0 /\ fifo' = 0 /\ moved' = 0 => Sum' = 0
  BY DEF Sum
<1>5. Phase' /\ (pc' \in {"second sleep", "print"} => Through' = Sum')
  <2> USE <1>2, <1>3, <1>4 DEF Phase
  <2>1. CASE Begin
    BY <2>1 DEF Begin
  <2>2. CASE ClearBit("clear writer", "writer", "set writer")
    BY <2>2 DEF ClearBit
  <2>3. CASE SetBit("set writer", "writer", "clear filters")
    BY <2>3 DEF SetBit
  <2>4. CASE ClearBit("clear filters", "filters", "set filters")
    BY <2>4 DEF ClearBit
  <2>5. CASE SetBit("set filters", "filters", "first sleep")
    BY <2>5 DEF SetBit
  <2>6. CASE FirstSleep
    BY <2>6 DEF FirstSleep
  <2>7. CASE ClearBit("clear packetizer", "packetizer", "set length")
    BY <2>7 DEF ClearBit
  <2>8. CASE SetLength
    BY <2>8 DEF SetLength
  <2>9. CASE SetBit("set packetizer", "packetizer", "second sleep")
    BY <2>9 DEF SetBit
  <2>10. CASE SecondSleep
    BY <2>10 DEF SecondSleep, Quiet
  <2>11. CASE ProgramRests
    BY <2>11 DEF ProgramRests, programVars
  <2> QED
    BY <1>1, <2>1, <2>2, <2>3, <2>4, <2>5, <2>6, <2>7, <2>8, <2>9, <2>10, <2>11
    DEF ProgramStep
<1>6. SamplesAccounted'
  BY <1>5 DEF SamplesAccounted, Through, Sum
<1> QED
  BY <1>2, <1>5, <1>6 DEF RecorderInv
LEMMA RecorderStays == RecorderInv /\ [RecorderNext]_recorderVars => RecorderInv'
<1> SUFFICES ASSUME RecorderInv, UNCHANGED recorderVars PROVE RecorderInv'
  BY RecorderSteps
<1>1. IInv'
  BY StutterInv DEF recorderVars, RecorderInv
<1>2. W!WriterInv'
  BY WriterStays DEF recorderVars, RecorderInv
<1> QED
  BY <1>1, <1>2 DEF recorderVars, programVars, vars, Writer!vars, RecorderInv, Phase,
                    SamplesAccounted

\* Packetizer, converter and writer, which count on their own and are reset one
\* after the other, agree on the samples of the run, from the moment the packet
\* begins to the program's print, whatever ran before.
THEOREM RecorderAccounts == RecorderSpec => []SamplesAccounted
BY RecorderStarts, RecorderStays, PTL DEF RecorderSpec, RecorderInv

\* The words that are printed and are all in RAM have not left the ring.
LEMMA StillInRing ==
  ASSUME NEW f \in Nat, NEW m \in Nat, NEW h \in 0 .. 2, Samples = h + 2 * (f + m),
         PacketWords <= m + AlmostEmptyOffset + 1,
         NEW k \in 0 .. PacketWords - 1, k < PacketWords - (AlmostEmptyOffset + 1)
  PROVE  k \in 0 .. m - 1 /\ k >= m - Ring /\ k % Ring = k
<1>1. /\ PacketWords \in Nat /\ PacketWords <= Ring /\ Samples = 2 * PacketWords
      /\ AlmostEmptyOffset \in Nat /\ Ring \in Nat
  BY PacketWordsFacts, SizesAreNat
<1>2. m <= PacketWords
  BY <1>1
<1>3. k \in 0 .. m - 1 /\ k >= m - Ring /\ k \in 0 .. Ring - 1 /\ Ring \in Nat \ {0}
  BY <1>1, <1>2
<1> QED
  BY <1>3, ModSmall

LEMMA PrintedWords ==
  ASSUME RecorderInv, pc = "print",
         NEW k \in 0 .. PacketWords - 1, k < PacketWords - (AlmostEmptyOffset + 1)
  PROVE  mem[k] = k
<1>1. fifo \in Nat /\ moved \in Nat /\ held \in 0 .. 2
  BY CountsAreNat DEF RecorderInv
<1>2. PacketWords <= moved + AlmostEmptyOffset + 1
  BY DEF RecorderInv, Phase
<1>3. Samples = held + 2 * (fifo + moved)
  BY SizesAreNat, Zenon DEF RecorderInv, Phase, SamplesAccounted
<1>4. k \in 0 .. moved - 1 /\ k >= moved - Ring /\ k % Ring = k
  BY <1>1, <1>2, <1>3, StillInRing, Zenon
<1>5. mem[k % Ring] = k
  BY <1>4, WriterFacts, Zenon DEF RecorderInv
<1> QED
  BY <1>4, <1>5

\* adc-recorder.c:47-52: what the program prints is this run's recording, word
\* by word, but for the words that the FIFO's threshold may keep back, wherever
\* its bursts end and whatever the run before has left in RAM.
THEOREM RecorderPrints == RecorderSpec => []PrintsAllButTail
<1>1. RecorderInv => PrintsAllButTail
  BY PrintedWords DEF PrintsAllButTail
<1> QED
  BY RecorderStarts, RecorderStays, <1>1, PTL DEF RecorderSpec
=============================================================================
