--------------------------- MODULE LiaBoardsProofs --------------------------
(***************************************************************************)
(* The register program's theorems, on each of the boards: what a board    *)
(* does to the registers is a step of the program, or none.  The lists of  *)
(* definitions say only that both instances of LiaControl are the same.    *)
(***************************************************************************)
EXTENDS LiaBoards, ModLemmas

GenProgram == INSTANCE LiaControlProofs WITH
  ResetBits <- <<0>>, Defaults <- LockIn, StsThere <- FALSE, Requests <- GenRequests
RxProgram == INSTANCE LiaControlProofs WITH
  ResetBits <- <<0, 1, 2>>, Defaults <- Receiver, StsThere <- TRUE, Requests <- RxRequests
TxProgram == INSTANCE LiaControlProofs WITH
  ResetBits <- <<0>>, Defaults <- LockIn, StsThere <- FALSE, Requests <- TxRequests

----------------------------------------------------------------------------
(* The generator.                                                          *)

GenInv == GenProgram!IInv /\ GenProgram!LoneInv /\ GenProgram!RestInv

\* The command lines are ones of this board.
LEMMA GenAssumed == GenProgram!LiaAssumption
BY BoardsAssumption DEF
       Gen!LiaAssumption, GenProgram!LiaAssumption, Gen!Settings, GenProgram!Settings,
       Gen!Bits, GenProgram!Bits

\* At power-on.
LEMMA GenStarts == Gen!BoardInit => GenInv
<1> SUFFICES ASSUME Gen!BoardInit PROVE GenInv
  OBVIOUS
<1>1. GenProgram!Init
  BY Zenon DEF Gen!BoardInit,
       Gen!Init, GenProgram!Init, Gen!Settings, GenProgram!Settings, Gen!PowerOn,
       GenProgram!PowerOn, Gen!NoRequest, GenProgram!NoRequest
<1> QED
  BY <1>1, GenAssumed, GenProgram!InitAll DEF GenInv

\* Both instances of the program take the same steps.
LEMMA GenSameNext == [Gen!Next]_(Gen!vars) => [GenProgram!Next]_(GenProgram!vars)
BY ZenonT(30) DEF
       Gen!Next, GenProgram!Next, Gen!vars, GenProgram!vars, Gen!registers,
       GenProgram!registers, Gen!history, GenProgram!history, Gen!processVars,
       GenProgram!processVars, Gen!Settings, GenProgram!Settings, Gen!Bits, GenProgram!Bits,
       Gen!Value, GenProgram!Value, Gen!PowerOn, GenProgram!PowerOn, Gen!NoRequest,
       GenProgram!NoRequest, Gen!Goto, GenProgram!Goto, Gen!Gone, GenProgram!Gone,
       Gen!InInit, GenProgram!InInit, Gen!Accepted, GenProgram!Accepted, Gen!Start,
       GenProgram!Start, Gen!OpenDevices, GenProgram!OpenDevices, Gen!NoSize,
       GenProgram!NoSize, Gen!FirstAccess, GenProgram!FirstAccess, Gen!CfgFault,
       GenProgram!CfgFault, Gen!InitAgain, GenProgram!InitAgain, Gen!StreamRead,
       GenProgram!StreamRead, Gen!StreamWrite, GenProgram!StreamWrite, Gen!PollFault,
       GenProgram!PollFault, Gen!Interrupt, GenProgram!Interrupt, Gen!Return,
       GenProgram!Return, Gen!Kill, GenProgram!Kill, Gen!ReadRegister,
       GenProgram!ReadRegister, Gen!RegisterFault, GenProgram!RegisterFault,
       Gen!WriteRegister, GenProgram!WriteRegister, Gen!WriteStatus, GenProgram!WriteStatus,
       Gen!Stored, GenProgram!Stored, Gen!SetRegister, GenProgram!SetRegister,
       Gen!ClearRead, GenProgram!ClearRead, Gen!ClearWrite, GenProgram!ClearWrite,
       Gen!Configure, GenProgram!Configure, Gen!ReleaseRead, GenProgram!ReleaseRead,
       Gen!ReleaseWrite, GenProgram!ReleaseWrite, Gen!ParseParam, GenProgram!ParseParam,
       Gen!DevicesInit, GenProgram!DevicesInit, Gen!Main, GenProgram!Main, Gen!Registers,
       GenProgram!Registers, Gen!InitSystem, GenProgram!InitSystem, Gen!Signal,
       GenProgram!Signal

\* A step of the board is a step of the program or leaves its registers.
LEMMA GenSteps == [Gen!BoardNext]_(Gen!boardVars) => [Gen!Next]_(Gen!vars)
BY Zenon DEF Gen!BoardNext, Gen!boardVars, Gen!Next, Gen!Software, Gen!GenParseParam, Gen!GenDevicesInit,
       Gen!GenMain, Gen!GenRegisters, Gen!GenInitSystem, Gen!Sample, Gen!Deliver

\* So the program's invariants are kept,
LEMMA GenStepInv ==
  ASSUME GenInv, [Gen!BoardNext]_(Gen!boardVars)
  PROVE  GenInv'
BY GenSteps, GenSameNext, GenAssumed, GenProgram!StepInv, GenProgram!LoneStep, GenProgram!RestStep DEF GenInv

\* and give what the board's run checks.
LEMMA GenSafe ==
  ASSUME GenInv
  PROVE  Gen!ConfiguredBeforeReleased /\ Gen!LoneRunLeavesReady /\ Gen!ReleasedAtRest
<1>1. GenProgram!ConfiguredBeforeReleased /\ GenProgram!LoneRunLeavesReady /\ GenProgram!ReleasedAtRest
  BY GenAssumed, GenProgram!InvReady, GenProgram!InvRest DEF GenInv, GenProgram!IInv
<1> QED
  BY <1>1, Zenon DEF
       Gen!Configured, GenProgram!Configured, Gen!ConfiguredBeforeReleased,
       GenProgram!ConfiguredBeforeReleased, Gen!LoneRunLeavesReady,
       GenProgram!LoneRunLeavesReady, Gen!ReleasedAtRest, GenProgram!ReleasedAtRest,
       Gen!Settings, GenProgram!Settings, Gen!Bits, GenProgram!Bits, Gen!PowerOn,
       GenProgram!PowerOn, Gen!InInit, GenProgram!InInit

----------------------------------------------------------------------------
(* The receiver.                                                           *)

RxInv == RxProgram!IInv /\ RxProgram!LoneInv /\ RxProgram!RestInv

\* The command lines are ones of this board.
LEMMA RxAssumed == RxProgram!LiaAssumption
BY BoardsAssumption DEF
       Rx!LiaAssumption, RxProgram!LiaAssumption, Rx!Settings, RxProgram!Settings, Rx!Bits,
       RxProgram!Bits

\* At power-on.
LEMMA RxStarts == Rx!BoardInit => RxInv
<1> SUFFICES ASSUME Rx!BoardInit PROVE RxInv
  OBVIOUS
<1>1. RxProgram!Init
  BY Zenon DEF Rx!BoardInit,
       Rx!Init, RxProgram!Init, Rx!Settings, RxProgram!Settings, Rx!PowerOn,
       RxProgram!PowerOn, Rx!NoRequest, RxProgram!NoRequest
<1> QED
  BY <1>1, RxAssumed, RxProgram!InitAll DEF RxInv

\* Both instances of the program take the same steps.
LEMMA RxSameNext == [Rx!Next]_(Rx!vars) => [RxProgram!Next]_(RxProgram!vars)
BY ZenonT(30) DEF
       Rx!Next, RxProgram!Next, Rx!vars, RxProgram!vars, Rx!registers, RxProgram!registers,
       Rx!history, RxProgram!history, Rx!processVars, RxProgram!processVars, Rx!Settings,
       RxProgram!Settings, Rx!Bits, RxProgram!Bits, Rx!Value, RxProgram!Value, Rx!PowerOn,
       RxProgram!PowerOn, Rx!NoRequest, RxProgram!NoRequest, Rx!Goto, RxProgram!Goto,
       Rx!Gone, RxProgram!Gone, Rx!InInit, RxProgram!InInit, Rx!Accepted,
       RxProgram!Accepted, Rx!Start, RxProgram!Start, Rx!OpenDevices, RxProgram!OpenDevices,
       Rx!NoSize, RxProgram!NoSize, Rx!FirstAccess, RxProgram!FirstAccess, Rx!CfgFault,
       RxProgram!CfgFault, Rx!InitAgain, RxProgram!InitAgain, Rx!StreamRead,
       RxProgram!StreamRead, Rx!StreamWrite, RxProgram!StreamWrite, Rx!PollFault,
       RxProgram!PollFault, Rx!Interrupt, RxProgram!Interrupt, Rx!Return, RxProgram!Return,
       Rx!Kill, RxProgram!Kill, Rx!ReadRegister, RxProgram!ReadRegister, Rx!RegisterFault,
       RxProgram!RegisterFault, Rx!WriteRegister, RxProgram!WriteRegister, Rx!WriteStatus,
       RxProgram!WriteStatus, Rx!Stored, RxProgram!Stored, Rx!SetRegister,
       RxProgram!SetRegister, Rx!ClearRead, RxProgram!ClearRead, Rx!ClearWrite,
       RxProgram!ClearWrite, Rx!Configure, RxProgram!Configure, Rx!ReleaseRead,
       RxProgram!ReleaseRead, Rx!ReleaseWrite, RxProgram!ReleaseWrite, Rx!ParseParam,
       RxProgram!ParseParam, Rx!DevicesInit, RxProgram!DevicesInit, Rx!Main, RxProgram!Main,
       Rx!Registers, RxProgram!Registers, Rx!InitSystem, RxProgram!InitSystem, Rx!Signal,
       RxProgram!Signal

\* A step of the board is a step of the program or leaves its registers.
LEMMA RxSteps == [Rx!BoardNext]_(Rx!boardVars) => [Rx!Next]_(Rx!vars)
BY Zenon DEF Rx!BoardNext, Rx!boardVars, Rx!Next, Rx!Software, Rx!RxParseParam, Rx!RxDevicesInit, Rx!RxMain, Rx!RxRegisters, Rx!RxInitSystem,
       Rx!Word

\* So the program's invariants are kept,
LEMMA RxStepInv ==
  ASSUME RxInv, [Rx!BoardNext]_(Rx!boardVars)
  PROVE  RxInv'
BY RxSteps, RxSameNext, RxAssumed, RxProgram!StepInv, RxProgram!LoneStep, RxProgram!RestStep DEF RxInv

\* and give what the board's run checks.
LEMMA RxSafe ==
  ASSUME RxInv
  PROVE  Rx!ConfiguredBeforeReleased /\ Rx!LoneRunLeavesReady /\ Rx!ReleasedAtRest
<1>1. RxProgram!ConfiguredBeforeReleased /\ RxProgram!LoneRunLeavesReady /\ RxProgram!ReleasedAtRest
  BY RxAssumed, RxProgram!InvReady, RxProgram!InvRest DEF RxInv, RxProgram!IInv
<1> QED
  BY <1>1, Zenon DEF
       Rx!Configured, RxProgram!Configured, Rx!ConfiguredBeforeReleased,
       RxProgram!ConfiguredBeforeReleased, Rx!LoneRunLeavesReady,
       RxProgram!LoneRunLeavesReady, Rx!ReleasedAtRest, RxProgram!ReleasedAtRest,
       Rx!Settings, RxProgram!Settings, Rx!Bits, RxProgram!Bits, Rx!PowerOn,
       RxProgram!PowerOn, Rx!InInit, RxProgram!InInit

----------------------------------------------------------------------------
(* The receiver's packets.                                                 *)

\* Every module is out of reset and the counter is where the ring wants it.
RxAligned == {0, 1, 2} \subseteq reset /\ setting["ns"] = NSamples /\ taken % NSamples = count

\* Of a process that nobody runs beside: the bits it has cleared stay clear,
\* those it has set are the only ones, and no sample passes until it is done.
RxLone(p) ==
  /\ pc[p] \in {"clear read", "clear write"} => \A b \in 0 .. idx[p] - 2 : b \notin reset
  /\ pc[p] \in {"clear write", "release write"} => seen[p] = reset
  /\ pc[p] = "configure" => reset = {}
  /\ pc[p] \in {"release read", "release write"} =>
       reset = 0 .. idx[p] - 2 /\ setting["ns"] = NSamples /\ count = 0 /\ taken = 0
  /\ pc[p] = "done" /\ cmd[p].op = "i" => RxAligned

\* A module in reset has forgotten what it counted.
RxAtRest ==
  /\ count \in 0 .. CountMax - 1 /\ taken \in 0 .. Ring - 1
  /\ 1 \notin reset => count = 0
  /\ 2 \notin reset => taken = 0

RxPackets ==
  /\ RxAtRest
  /\ clean => RxAligned
  /\ \A p \in Procs : alone[p] => RxLone(p)

\* init_system's lists: three bits, and one register.
LEMMA RxLists ==
  /\ Len(<<0, 1, 2>>) = 3 /\ \A i \in 1 .. 3 : <<0, 1, 2>>[i] = i - 1
  /\ DOMAIN <<0, 1, 2>> = 1 .. 3
  /\ Len(Receiver) = 1 /\ DOMAIN Receiver = {1} /\ Receiver[1] = [reg |-> "ns", val |-> NSamples]
  /\ Rx!Bits = {0, 1, 2} /\ RxProgram!Bits = {0, 1, 2}
  /\ Rx!Settings = {"ns"} /\ RxProgram!Settings = {"ns"}
<1>1. /\ Len(<<0, 1, 2>>) = 3 /\ \A i \in 1 .. 3 : <<0, 1, 2>>[i] = i - 1
      /\ DOMAIN <<0, 1, 2>> = 1 .. 3
  OBVIOUS
<1>2. Len(Receiver) = 1 /\ DOMAIN Receiver = {1} /\ Receiver[1] = [reg |-> "ns", val |-> NSamples]
  BY DEF Receiver
<1>3. \A b : (\E i \in 1 .. 3 : b = <<0, 1, 2>>[i]) <=> b \in {0, 1, 2}
  BY <1>1
<1>4. Rx!Bits = {0, 1, 2} /\ RxProgram!Bits = {0, 1, 2}
  BY <1>1, <1>3 DEF Rx!Bits, RxProgram!Bits
<1>5. Rx!Settings = {"ns"} /\ RxProgram!Settings = {"ns"}
  BY <1>2 DEF Rx!Settings, RxProgram!Settings
<1> QED
  BY <1>1, <1>2, <1>4, <1>5

\* One sample more: the packet's counter and the ring's go on together.
LEMMA OneSampleMore ==
  ASSUME taken \in 0 .. Ring - 1, taken % NSamples = count
  PROVE  /\ count \in 0 .. NSamples - 1
         /\ ((taken + 1) % Ring) % NSamples = IF count = NSamples - 1 THEN 0 ELSE count + 1
<1>1. NSamples \in Nat \ {0} /\ Ring \in Nat \ {0} /\ taken \in Nat /\ taken + 1 \in Nat
  BY PacketAssumption
<1>2. ((taken + 1) % Ring) % NSamples = (taken + 1) % NSamples
  BY <1>1, ModOfMod, PacketAssumption
<1>3. (taken + 1) % NSamples = IF taken % NSamples = NSamples - 1 THEN 0 ELSE (taken % NSamples) + 1
  BY <1>1, ModSucc
<1>4. taken % NSamples \in 0 .. NSamples - 1
  BY <1>1, DivMod
<1> QED
  BY <1>2, <1>3, <1>4

\* The mark is on the last sample of a packet.
LEMMA RxTlast ==
  ASSUME setting["ns"] = NSamples
  PROVE  Rx!Value("ns") = NSamples /\ (Rx!Tlast <=> count = NSamples - 1)
<1>1. NSamples \in 1 .. CountMax /\ CountMax \in Nat \ {0}
  BY PacketAssumption
<1>2. Rx!Value("ns") = NSamples
  BY <1>1 DEF Rx!Value, Rx!PowerOn
<1>3. (NSamples + CountMax - 1) % CountMax = NSamples - 1
  <2>1. NSamples - 1 \in 0 .. CountMax - 1
    BY <1>1
  <2>2. (CountMax * 1 + (NSamples - 1)) % CountMax = NSamples - 1
    BY <1>1, <2>1, ModUnique
  <2>3. CountMax * 1 + (NSamples - 1) = NSamples + CountMax - 1
    BY <1>1
  <2> QED
    BY <2>2, <2>3
<1> QED
  BY <1>2, <1>3 DEF Rx!Tlast

\* axis_tlast_gen and the ring take a sample: only with the first and the last
\* bit set, that is when no lone process is on its way.
LEMMA RxWord ==
  ASSUME RxInv, RxPackets, Rx!Word
  PROVE  RxPackets'
<1>1. /\ {0, 2} \subseteq reset
      /\ taken' = (taken + 1) % Ring
      /\ count' = IF 1 \notin reset \/ Rx!Tlast THEN 0 ELSE (count + 1) % CountMax
      /\ UNCHANGED <<reset, setting, pc, cmd, idx, seen, alone, clean>>
  BY DEF Rx!Word, Rx!Source, Rx!Writer, Rx!TlastGen, Rx!vars, Rx!registers, Rx!processVars
<1>2. RxAtRest'
  <2>1. taken' \in 0 .. Ring - 1
    BY <1>1, DivMod, PacketAssumption DEF RxPackets, RxAtRest
  <2>2. count' \in 0 .. CountMax - 1
    BY <1>1, DivMod, PacketAssumption DEF RxPackets, RxAtRest
  <2> QED
    BY <1>1, <2>1, <2>2 DEF RxAtRest
<1>3. RxAligned => RxAligned'
  <2> SUFFICES ASSUME RxAligned PROVE RxAligned'
    OBVIOUS
  <2>1. /\ count \in 0 .. NSamples - 1
        /\ taken' % NSamples = IF count = NSamples - 1 THEN 0 ELSE count + 1
    BY <1>1, OneSampleMore DEF RxPackets, RxAtRest, RxAligned
  <2>2. Rx!Tlast <=> count = NSamples - 1
    BY RxTlast DEF RxAligned
  <2>3. count # NSamples - 1 => (count + 1) % CountMax = count + 1
    <3>1. count # NSamples - 1 => count + 1 \in 0 .. CountMax - 1
      BY <2>1, PacketAssumption
    <3> QED
      BY <3>1, ModSmall, PacketAssumption
  <2> QED
    BY <1>1, <2>1, <2>2, <2>3 DEF RxAligned
<1>4. ASSUME NEW p \in Procs, alone[p] PROVE RxLone(p)'
  <2>1. RxLone(p)
    BY <1>4 DEF RxPackets
  <2>2. pc[p] \notin {"configure", "release read", "release write"}
    <3>1. pc[p] # "configure"
      BY <1>1, <2>1 DEF RxLone
    <3>2. ASSUME pc[p] \in {"release read", "release write"} PROVE FALSE
      <4>1. idx[p] \in 1 .. 3
        BY <3>2, RxLists DEF RxInv, RxProgram!IInv, RxProgram!Indices
      <4>2. reset = 0 .. idx[p] - 2
        BY <2>1, <3>2 DEF RxLone
      <4> QED
        BY <1>1, <4>1, <4>2
    <3> QED
      BY <3>1, <3>2
  <2> QED
    BY <1>1, <1>3, <2>1, <2>2 DEF RxLone
<1> QED
  BY <1>1, <1>2, <1>3, <1>4 DEF RxPackets

\* A step of a process: the others stay as they are, and if nobody runs beside
\* it, it has to be as it should afterwards.
LEMMA RxFrame ==
  ASSUME RxInv, RxPackets, NEW p \in Procs, Rx!React, pc[p] # "off",
         \A q \in Procs \ {p} : pc'[q] = pc[q] /\ alone'[q] = alone[q],
         alone[p] /\ pc'[p] # "off" => cmd'[p] = cmd[p] /\ RxLone(p)',
         alone'[p] => alone[p] /\ pc'[p] # "off"
  PROVE  RxPackets'
<1>1. /\ count' = IF 1 \in reset' THEN count ELSE 0
      /\ taken' = IF 2 \in reset' THEN taken ELSE 0
      /\ clean' = \/ clean /\ UNCHANGED <<reset, setting>>
                  \/ \E q \in Procs : alone[q] /\ cmd[q].op = "i" /\ pc'[q] = "done"
  BY Zenon DEF Rx!React, Rx!Reset, Rx!TlastGen, Rx!Writer, Rx!registers
<1>2. RxAtRest'
  BY <1>1, PacketAssumption DEF RxPackets, RxAtRest
<1>3. \A q \in Procs \ {p} : ~alone[q]
  BY DEF RxInv, RxProgram!LoneInv
<1>4. clean' => RxAligned'
  <2>1. CASE clean /\ UNCHANGED <<reset, setting>>
    BY <1>1, <2>1 DEF RxPackets, RxAligned
  <2>2. CASE \E q \in Procs : alone[q] /\ cmd[q].op = "i" /\ pc'[q] = "done"
    BY <1>3, <2>2 DEF RxLone
  <2> QED
    BY <1>1, <2>1, <2>2
<1>5. \A q \in Procs : alone'[q] => RxLone(q)'
  BY <1>3
<1> QED
  BY <1>2, <1>4, <1>5 DEF RxPackets

\* The processes' variables are functions.
LEMMA RxTyped ==
  ASSUME RxInv
  PROVE  /\ DOMAIN pc = Procs /\ DOMAIN cmd = Procs /\ DOMAIN idx = Procs
         /\ DOMAIN seen = Procs /\ DOMAIN alone = Procs /\ DOMAIN ret = Procs
         /\ \A p \in Procs : ret[p] \in {"act", "done"} /\ alone[p] \in BOOLEAN
         /\ \A p \in Procs : pc[p] \in {"clear read", "clear write", "release read", "release write"} =>
              idx[p] \in 1 .. 3
         /\ \A p \in Procs : pc[p] = "configure" => idx[p] = 1
         /\ reset \subseteq {0, 1, 2} /\ DOMAIN setting = {"ns"}
BY RxLists DEF RxInv, RxProgram!IInv, RxProgram!TypeOK, RxProgram!Indices, RxProgram!ConfiguresInOrder

\* Two back from the next is one back from where it was.
LEMMA TwoBack ==
  ASSUME NEW a, NEW b \in Nat, a = b + 1
  PROVE  a - 2 = b - 1
OBVIOUS

\* A process that starts has done nothing yet.
LEMMA RxStartPackets ==
  ASSUME RxInv, RxPackets, NEW p \in Procs, Rx!RxParseParam(p)
  PROVE  RxPackets'
<1>1. PICK c \in RxRequests : Rx!Start(p, c)
  BY DEF Rx!RxParseParam, Rx!ParseParam
<1>2. /\ pc[p] = "off" /\ pc' = [pc EXCEPT ![p] = "open"]
      /\ alone' = [q \in Procs |-> IF q = p THEN \A r \in Procs \ {p} : pc[r] = "off" ELSE FALSE]
      /\ cmd' = [cmd EXCEPT ![p] = c]
      /\ UNCHANGED <<reset, setting, idx, seen>>
  BY <1>1 DEF Rx!Start, Rx!Goto, Rx!registers
<1>3. /\ count' = IF 1 \in reset' THEN count ELSE 0
      /\ taken' = IF 2 \in reset' THEN taken ELSE 0
      /\ clean' = \/ clean /\ UNCHANGED <<reset, setting>>
                  \/ \E q \in Procs : alone[q] /\ cmd[q].op = "i" /\ pc'[q] = "done"
  BY Zenon DEF Rx!RxParseParam, Rx!React, Rx!Reset, Rx!TlastGen, Rx!Writer, Rx!registers
<1>4. UNCHANGED <<count, taken>>
  BY <1>2, <1>3 DEF RxPackets, RxAtRest
<1>5. RxAtRest' /\ (RxAligned => RxAligned')
  BY <1>2, <1>4 DEF RxPackets, RxAtRest, RxAligned
<1>6. clean' => RxAligned
  <2>1. ASSUME NEW q \in Procs, alone[q], cmd[q].op = "i", pc'[q] = "done" PROVE RxAligned
    <3>1. pc[q] = "done"
      BY <1>2, <2>1, RxTyped
    <3> QED
      BY <2>1, <3>1 DEF RxPackets, RxLone
  <2> QED
    BY <1>3, <2>1 DEF RxPackets
<1>7. \A q \in Procs : alone'[q] => RxLone(q)'
  BY <1>2, RxTyped DEF RxLone
<1> QED
  BY <1>5, <1>6, <1>7 DEF RxPackets

\* Of a process that goes there is nothing to say.
LEMMA RxGone ==
  ASSUME RxInv, RxPackets, NEW p \in Procs, Rx!Gone(p), Rx!React, pc[p] # "off"
  PROVE  RxPackets'
<1>1. pc' = [pc EXCEPT ![p] = "off"] /\ alone' = [alone EXCEPT ![p] = FALSE]
  BY DEF Rx!Gone
<1>2. pc'[p] = "off" /\ ~alone'[p] /\ \A q \in Procs \ {p} : pc'[q] = pc[q] /\ alone'[q] = alone[q]
  BY <1>1, RxTyped
<1> QED
  BY <1>2, RxFrame

\* Nor of one that goes on outside init_system, unless -i has done its work.
LEMMA RxGoesOn ==
  ASSUME RxInv, RxPackets, NEW p \in Procs, Rx!React, pc[p] # "off",
         NEW to \in {"first", "act", "stream write", "poll", "hung", "done"},
         pc' = [pc EXCEPT ![p] = to], to = "done" => cmd[p].op # "i",
         UNCHANGED <<cmd, alone>>
  PROVE  RxPackets'
<1>1. pc'[p] = to /\ \A q \in Procs \ {p} : pc'[q] = pc[q]
  BY RxTyped
<1>2. /\ cmd'[p] = cmd[p] /\ (pc'[p] = "done" => cmd'[p].op # "i")
      /\ pc'[p] \in {"first", "act", "stream write", "poll", "hung", "done"}
  BY <1>1
<1>3. RxLone(p)'
  BY <1>2 DEF RxLone
<1> QED
  BY <1>1, <1>2, <1>3, RxFrame

\* cfg_init and sts_init.
LEMMA RxDevicesPackets ==
  ASSUME RxInv, RxPackets, NEW p \in Procs, Rx!RxDevicesInit(p)
  PROVE  RxPackets'
<1>1. Rx!React
  BY DEF Rx!RxDevicesInit
<1>2. CASE Rx!NoSize(p)
  BY <1>1, <1>2, RxGone DEF Rx!NoSize
<1>3. CASE \E got \in SUBSET {"cfg", "sts"} : Rx!OpenDevices(p, got)
  <2>1. pc[p] = "open" /\ pc' = [pc EXCEPT ![p] = "first"] /\ UNCHANGED <<cmd, alone>>
    BY <1>3 DEF Rx!OpenDevices, Rx!Goto
  <2> QED
    BY <1>1, <2>1, RxGoesOn
<1> QED
  BY <1>2, <1>3 DEF Rx!RxDevicesInit, Rx!DevicesInit

\* main, up to the first bit.
LEMMA RxMainPackets ==
  ASSUME RxInv, RxPackets, NEW p \in Procs, Rx!RxMain(p)
  PROVE  RxPackets'
<1>0. Rx!React
  BY DEF Rx!RxMain
<1>1. ASSUME pc[p] \in {"first", "act"}, pc' = [pc EXCEPT ![p] = "clear read"],
             idx' = [idx EXCEPT ![p] = 1], UNCHANGED <<cmd, alone>>
      PROVE  RxPackets'
  <2>1. pc'[p] = "clear read" /\ idx'[p] = 1 /\ \A q \in Procs \ {p} : pc'[q] = pc[q]
    BY <1>1, RxTyped
  <2>2. \A b \in 0 .. idx'[p] - 2 : FALSE
    <3>1. \A b \in 0 .. 1 - 2 : FALSE
      OBVIOUS
    <3> QED
      BY <2>1, <3>1
  <2>3. RxLone(p)'
    BY <2>1, <2>2 DEF RxLone
  <2> QED
    BY <1>0, <1>1, <2>1, <2>3, RxFrame
<1>2. CASE Rx!FirstAccess(p)
  <2>1. /\ pc[p] = "first" /\ pc' = [pc EXCEPT ![p] = IF reset = {} THEN "clear read" ELSE "act"]
        /\ idx' = [idx EXCEPT ![p] = IF reset = {} THEN 1 ELSE 0] /\ UNCHANGED <<cmd, alone>>
    BY <1>2 DEF Rx!FirstAccess, Rx!Goto
  <2> QED
    BY <1>0, <1>1, <2>1, RxGoesOn
<1>3. CASE Rx!InitAgain(p)
  BY <1>1, <1>3 DEF Rx!InitAgain, Rx!Goto
<1>4. CASE Rx!StreamRead(p)
  BY <1>0, <1>4, RxGoesOn DEF Rx!StreamRead, Rx!Goto
<1>5. CASE Rx!StreamWrite(p)
  BY <1>0, <1>5, RxGoesOn DEF Rx!StreamWrite, Rx!Goto
<1>6. CASE Rx!Interrupt(p)
  <2>1. pc[p] = "poll" /\ pc' = [pc EXCEPT ![p] = "done"] /\ UNCHANGED <<cmd, alone>>
    BY <1>6 DEF Rx!Interrupt, Rx!Goto
  <2>2. cmd[p].op = "o"
    BY <2>1 DEF RxInv, RxProgram!LoneInv
  <2> QED
    BY <1>0, <2>1, <2>2, RxGoesOn
<1>7. CASE Rx!CfgFault(p) \/ (\E zero \in BOOLEAN : Rx!PollFault(p, zero)) \/ Rx!Return(p) \/ Rx!Kill(p)
  <2>1. Rx!Gone(p) /\ pc[p] # "off"
    BY <1>7 DEF Rx!CfgFault, Rx!PollFault, Rx!Return, Rx!Kill
  <2> QED
    BY <1>0, <2>1, RxGone
<1> QED
  BY <1>2, <1>3, <1>4, <1>5, <1>6, <1>7 DEF Rx!RxMain, Rx!Main, Rx!Signal

\* The options that access one register are not -i.
LEMMA RxRegistersPackets ==
  ASSUME RxInv, RxPackets, NEW p \in Procs, Rx!RxRegisters(p)
  PROVE  RxPackets'
<1>1. Rx!React
  BY DEF Rx!RxRegisters
<1>2. CASE Rx!RegisterFault(p)
  BY <1>1, <1>2, RxGone DEF Rx!RegisterFault
<1>3. CASE ~Rx!RegisterFault(p)
  <2>1. /\ pc[p] = "act" /\ cmd[p].op # "i" /\ UNCHANGED <<cmd, alone>>
        /\ pc' = [pc EXCEPT ![p] = "done"] \/ pc' = [pc EXCEPT ![p] = "hung"]
    BY <1>3 DEF Rx!RxRegisters, Rx!Registers, Rx!ReadRegister, Rx!WriteStatus, Rx!WriteRegister,
                Rx!SetRegister, Rx!Goto
  <2> QED
    BY <1>1, <2>1, RxGoesOn
<1> QED
  BY <1>2, <1>3

\* init_system: bit after bit, down and up again.
LEMMA RxInitSystemPackets ==
  ASSUME RxInv, RxPackets, NEW p \in Procs, Rx!RxInitSystem(p)
  PROVE  RxPackets'
<1>0. Rx!React /\ count' = (IF 1 \in reset' THEN count ELSE 0) /\ taken' = (IF 2 \in reset' THEN taken ELSE 0)
  BY Zenon DEF Rx!RxInitSystem, Rx!React, Rx!Reset, Rx!TlastGen, Rx!Writer
<1>1. ASSUME pc[p] # "off", NEW to, pc' = [pc EXCEPT ![p] = to], to # "off", UNCHANGED <<cmd, alone>>,
             alone[p] => RxLone(p)'
      PROVE  RxPackets'
  <2>1. pc'[p] = to /\ \A q \in Procs \ {p} : pc'[q] = pc[q]
    BY <1>1, RxTyped
  <2> QED
    BY <1>0, <1>1, <2>1, RxFrame
<1>2. alone[p] => RxLone(p)
  BY DEF RxPackets
<1>3. CASE Rx!ClearRead(p)
  <2>1. /\ pc[p] = "clear read" /\ pc' = [pc EXCEPT ![p] = "clear write"]
        /\ seen' = [seen EXCEPT ![p] = reset] /\ UNCHANGED <<reset, idx, cmd, alone>>
    BY <1>3 DEF Rx!ClearRead, Rx!Goto, Rx!registers
  <2>2. pc'[p] = "clear write" /\ seen'[p] = reset'
    BY <2>1, RxTyped
  <2>3. alone[p] => RxLone(p)'
    BY <1>2, <2>1, <2>2 DEF RxLone
  <2> QED
    BY <1>1, <2>1, <2>3
<1>4. CASE Rx!ClearWrite(p)
  <2>1. /\ pc[p] = "clear write" /\ UNCHANGED <<cmd, alone>>
        /\ pc' = [pc EXCEPT ![p] = IF idx[p] = 3 THEN "configure" ELSE "clear read"]
        /\ idx' = [idx EXCEPT ![p] = IF idx[p] = 3 THEN 1 ELSE idx[p] + 1]
        /\ reset' = seen[p] \ {<<0, 1, 2>>[idx[p]]}
    BY <1>4, RxLists DEF Rx!ClearWrite, Rx!Goto
  <2>2. idx[p] \in 1 .. 3 /\ reset' = seen[p] \ {idx[p] - 1} /\ reset \subseteq {0, 1, 2}
    BY <2>1, RxTyped, RxLists
  <2>3. /\ pc'[p] = IF idx[p] = 3 THEN "configure" ELSE "clear read"
        /\ idx'[p] = IF idx[p] = 3 THEN 1 ELSE idx[p] + 1
    BY <2>1, RxTyped
  <2>4. ASSUME alone[p] PROVE RxLone(p)'
    <3>1. seen[p] = reset /\ \A b \in 0 .. idx[p] - 2 : b \notin reset
      BY <1>2, <2>1, <2>4 DEF RxLone
    <3>2. \A b \in 0 .. idx[p] - 1 : b \notin reset'
      BY <2>2, <3>1
    <3>3. CASE idx[p] = 3
      <4>1. reset' = {}
        BY <2>2, <3>1, <3>2, <3>3
      <4> QED
        BY <2>3, <3>3, <4>1 DEF RxLone
    <3>4. CASE idx[p] # 3
      <4>1. pc'[p] = "clear read" /\ idx'[p] = idx[p] + 1
        BY <2>3, <3>4
      <4>2. idx[p] \in Nat
        BY <2>2
      <4>3. idx'[p] - 2 = idx[p] - 1
        BY <4>1, <4>2, TwoBack
      <4> QED
        BY <3>2, <4>1, <4>3 DEF RxLone
    <3> QED
      BY <3>3, <3>4
  <2> QED
    BY <1>1, <2>1, <2>4
<1>5. CASE Rx!Configure(p)
  <2>1. /\ pc[p] = "configure" /\ idx[p] = 1 /\ UNCHANGED <<reset, cmd, alone>>
        /\ pc' = [pc EXCEPT ![p] = "release read"]
        /\ idx' = [idx EXCEPT ![p] = 1]
        /\ setting' = [setting EXCEPT !["ns"] = NSamples]
    <3>1. pc[p] = "configure" /\ idx[p] = 1
      BY <1>5, RxTyped DEF Rx!Configure, Rx!Goto
    <3>2. Rx!Stored("ns", NSamples) = NSamples
      BY DEF Rx!Stored
    <3>3. Receiver[idx[p]].reg = "ns" /\ Receiver[idx[p]].val = NSamples /\ idx[p] = Len(Receiver)
      BY <3>1, RxLists
    <3> QED
      BY <1>5, <3>1, <3>2, <3>3, Zenon DEF Rx!Configure, Rx!Goto
  <2>2. pc'[p] = "release read" /\ idx'[p] = 1 /\ setting'["ns"] = NSamples
    BY <2>1, RxTyped
  <2>3. ASSUME alone[p] PROVE RxLone(p)'
    <3>1. reset' = {}
      BY <1>2, <2>1, <2>3 DEF RxLone
    <3>e. 0 .. 1 - 2 = {}
      OBVIOUS
    <3>2. count' = 0 /\ taken' = 0
      BY <1>0, <3>1
    <3> QED
      BY <2>2, <3>1, <3>2, <3>e DEF RxLone
  <2> QED
    BY <1>1, <2>1, <2>3
<1>6. CASE Rx!ReleaseRead(p)
  <2>1. /\ pc[p] = "release read" /\ pc' = [pc EXCEPT ![p] = "release write"]
        /\ seen' = [seen EXCEPT ![p] = reset] /\ UNCHANGED <<reset, setting, idx, cmd, alone>>
    BY <1>6 DEF Rx!ReleaseRead, Rx!Goto, Rx!registers
  <2>2. pc'[p] = "release write" /\ seen'[p] = reset'
    BY <2>1, RxTyped
  <2>3. ASSUME alone[p] PROVE RxLone(p)'
    <3>1. reset = 0 .. idx[p] - 2 /\ setting["ns"] = NSamples /\ count = 0 /\ taken = 0
      BY <1>2, <2>1, <2>3 DEF RxLone
    <3> QED
      BY <1>0, <2>1, <2>2, <3>1 DEF RxLone
  <2> QED
    BY <1>1, <2>1, <2>3
<1>7. CASE Rx!ReleaseWrite(p)
  <2>1. /\ pc[p] = "release write" /\ UNCHANGED <<setting, cmd, alone>>
        /\ pc' = [pc EXCEPT ![p] = IF idx[p] = 3 THEN ret[p] ELSE "release read"]
        /\ idx' = [idx EXCEPT ![p] = IF idx[p] = 3 THEN 0 ELSE idx[p] + 1]
        /\ reset' = seen[p] \cup {<<0, 1, 2>>[idx[p]]}
    BY <1>7, RxLists DEF Rx!ReleaseWrite, Rx!Goto
  <2>2. idx[p] \in 1 .. 3 /\ reset' = seen[p] \cup {idx[p] - 1} /\ ret[p] \in {"act", "done"}
    BY <2>1, RxTyped, RxLists
  <2>3. /\ pc'[p] = IF idx[p] = 3 THEN ret[p] ELSE "release read"
        /\ idx'[p] = IF idx[p] = 3 THEN 0 ELSE idx[p] + 1
    BY <2>1, RxTyped
  <2>4. ASSUME alone[p] PROVE RxLone(p)'
    <3>1. reset' = 0 .. idx[p] - 1 /\ setting'["ns"] = NSamples /\ count' = 0 /\ taken' = 0
      <4>1. /\ seen[p] = 0 .. idx[p] - 2 /\ setting["ns"] = NSamples /\ count = 0 /\ taken = 0
        BY <1>2, <2>1, <2>4 DEF RxLone
      <4>2. (0 .. idx[p] - 2) \cup {idx[p] - 1} = 0 .. idx[p] - 1
        BY <2>2
      <4> QED
        BY <1>0, <2>1, <2>2, <4>1, <4>2
    <3>2. CASE idx[p] = 3
      <4>1. {0, 1, 2} \subseteq reset'
        BY <3>1, <3>2
      <4>2. 0 % NSamples = 0
        BY ModSmall, PacketAssumption
      <4>3. RxAligned'
        BY <3>1, <4>1, <4>2 DEF RxAligned
      <4> QED
        BY <2>2, <2>3, <3>2, <4>3 DEF RxLone
    <3>3. CASE idx[p] # 3
      <4>1. pc'[p] = "release read" /\ idx'[p] = idx[p] + 1
        BY <2>3, <3>3
      <4>2. idx[p] \in Nat
        BY <2>2
      <4>3. idx'[p] - 2 = idx[p] - 1
        BY <4>1, <4>2, TwoBack
      <4> QED
        BY <3>1, <4>1, <4>3 DEF RxLone
    <3> QED
      BY <3>2, <3>3
  <2>5. \/ pc' = [pc EXCEPT ![p] = "act"]
        \/ pc' = [pc EXCEPT ![p] = "done"]
        \/ pc' = [pc EXCEPT ![p] = "release read"]
    BY <2>1, <2>2
  <2> QED
    BY <1>1, <2>1, <2>4, <2>5
<1> QED
  BY <1>3, <1>4, <1>5, <1>6, <1>7 DEF Rx!RxInitSystem, Rx!InitSystem

\* Every step of the receiver's board.
LEMMA RxStepPackets ==
  ASSUME RxInv, RxPackets, [Rx!BoardNext]_(Rx!boardVars)
  PROVE  RxPackets'
<1>1. CASE UNCHANGED Rx!boardVars
  BY <1>1 DEF Rx!boardVars, Rx!vars, Rx!registers, Rx!processVars, Rx!hardware,
              RxPackets, RxAtRest, RxAligned, RxLone
<1>2. CASE Rx!Software
  BY <1>2, RxStartPackets, RxDevicesPackets, RxMainPackets, RxRegistersPackets, RxInitSystemPackets
  DEF Rx!Software
<1> QED
  BY <1>1, <1>2, RxWord DEF Rx!BoardNext

\* What the board's run checks.
LEMMA RxPacketsSafe == RxPackets => Rx!PacketsAligned
<1> SUFFICES ASSUME RxPackets, clean PROVE Rx!Bits \subseteq reset /\ taken % Rx!Value("ns") = count
  BY DEF Rx!PacketsAligned
<1>1. RxAligned
  BY DEF RxPackets
<1> QED
  BY <1>1, RxLists, RxTlast DEF RxAligned

----------------------------------------------------------------------------
(* The transmitter.                                                        *)

TxInv == TxProgram!IInv /\ TxProgram!LoneInv /\ TxProgram!RestInv

\* The command lines are ones of this board.
LEMMA TxAssumed == TxProgram!LiaAssumption
BY BoardsAssumption DEF
       Tx!LiaAssumption, TxProgram!LiaAssumption, Tx!Settings, TxProgram!Settings, Tx!Bits,
       TxProgram!Bits

\* At power-on.
LEMMA TxStarts == Tx!BoardInit => TxInv
<1> SUFFICES ASSUME Tx!BoardInit PROVE TxInv
  OBVIOUS
<1>1. TxProgram!Init
  BY Zenon DEF Tx!BoardInit,
       Tx!Init, TxProgram!Init, Tx!Settings, TxProgram!Settings, Tx!PowerOn,
       TxProgram!PowerOn, Tx!NoRequest, TxProgram!NoRequest
<1> QED
  BY <1>1, TxAssumed, TxProgram!InitAll DEF TxInv

\* Both instances of the program take the same steps.
LEMMA TxSameNext == [Tx!Next]_(Tx!vars) => [TxProgram!Next]_(TxProgram!vars)
BY ZenonT(30) DEF
       Tx!Next, TxProgram!Next, Tx!vars, TxProgram!vars, Tx!registers, TxProgram!registers,
       Tx!history, TxProgram!history, Tx!processVars, TxProgram!processVars, Tx!Settings,
       TxProgram!Settings, Tx!Bits, TxProgram!Bits, Tx!Value, TxProgram!Value, Tx!PowerOn,
       TxProgram!PowerOn, Tx!NoRequest, TxProgram!NoRequest, Tx!Goto, TxProgram!Goto,
       Tx!Gone, TxProgram!Gone, Tx!InInit, TxProgram!InInit, Tx!Accepted,
       TxProgram!Accepted, Tx!Start, TxProgram!Start, Tx!OpenDevices, TxProgram!OpenDevices,
       Tx!NoSize, TxProgram!NoSize, Tx!FirstAccess, TxProgram!FirstAccess, Tx!CfgFault,
       TxProgram!CfgFault, Tx!InitAgain, TxProgram!InitAgain, Tx!StreamRead,
       TxProgram!StreamRead, Tx!StreamWrite, TxProgram!StreamWrite, Tx!PollFault,
       TxProgram!PollFault, Tx!Interrupt, TxProgram!Interrupt, Tx!Return, TxProgram!Return,
       Tx!Kill, TxProgram!Kill, Tx!ReadRegister, TxProgram!ReadRegister, Tx!RegisterFault,
       TxProgram!RegisterFault, Tx!WriteRegister, TxProgram!WriteRegister, Tx!WriteStatus,
       TxProgram!WriteStatus, Tx!Stored, TxProgram!Stored, Tx!SetRegister,
       TxProgram!SetRegister, Tx!ClearRead, TxProgram!ClearRead, Tx!ClearWrite,
       TxProgram!ClearWrite, Tx!Configure, TxProgram!Configure, Tx!ReleaseRead,
       TxProgram!ReleaseRead, Tx!ReleaseWrite, TxProgram!ReleaseWrite, Tx!ParseParam,
       TxProgram!ParseParam, Tx!DevicesInit, TxProgram!DevicesInit, Tx!Main, TxProgram!Main,
       Tx!Registers, TxProgram!Registers, Tx!InitSystem, TxProgram!InitSystem, Tx!Signal,
       TxProgram!Signal

\* A step of the board is a step of the program or leaves its registers.
LEMMA TxSteps == [Tx!BoardNext]_(Tx!boardVars) => [Tx!Next]_(Tx!vars)
BY Zenon DEF Tx!BoardNext, Tx!boardVars, Tx!Next, Tx!Software, Tx!TxParseParam, Tx!TxDevicesInit, Tx!TxMain, Tx!TxRegisters, Tx!TxInitSystem,
       Tx!OutOfReset, Tx!Tone

\* So the program's invariants are kept,
LEMMA TxStepInv ==
  ASSUME TxInv, [Tx!BoardNext]_(Tx!boardVars)
  PROVE  TxInv'
BY TxSteps, TxSameNext, TxAssumed, TxProgram!StepInv, TxProgram!LoneStep, TxProgram!RestStep DEF TxInv

\* and give what the board's run checks.
LEMMA TxSafe ==
  ASSUME TxInv
  PROVE  Tx!ConfiguredBeforeReleased /\ Tx!LoneRunLeavesReady /\ Tx!ReleasedAtRest
<1>1. TxProgram!ConfiguredBeforeReleased /\ TxProgram!LoneRunLeavesReady /\ TxProgram!ReleasedAtRest
  BY TxAssumed, TxProgram!InvReady, TxProgram!InvRest DEF TxInv, TxProgram!IInv
<1> QED
  BY <1>1, Zenon DEF
       Tx!Configured, TxProgram!Configured, Tx!ConfiguredBeforeReleased,
       TxProgram!ConfiguredBeforeReleased, Tx!LoneRunLeavesReady,
       TxProgram!LoneRunLeavesReady, Tx!ReleasedAtRest, TxProgram!ReleasedAtRest,
       Tx!Settings, TxProgram!Settings, Tx!Bits, TxProgram!Bits, Tx!PowerOn,
       TxProgram!PowerOn, Tx!InInit, TxProgram!InInit

----------------------------------------------------------------------------
(* The transmitter's tone.                                                 *)

\* The generator of tones in reset stands at the first one.
TxAtRest ==
  /\ addr \in 0 .. Depth - 1 /\ valid \in BOOLEAN
  /\ 0 \notin reset => addr = 0 /\ valid = FALSE

\* Nobody asked the process for an initialisation and nobody runs beside it:
\* if it initialises all the same, the reset bit was clear, and still is.
TxLone(p) ==
  Tx!AskedForNone(p) /\ Tx!InInit(p) =>
    reset = {} /\ (pc[p] = "clear write" => seen[p] = {})

TxTone == TxAtRest /\ \A p \in Procs : alone[p] => TxLone(p)

\* What ToneGoesOn says of a step.
TxGoesOn == (\E p \in Procs : alone[p] /\ Tx!AskedForNone(p)) => Tx!GoesOn

\* The one reset bit.
LEMMA TxLists ==
  /\ Len(<<0>>) = 1 /\ <<0>>[1] = 0 /\ DOMAIN <<0>> = {1}
  /\ Tx!Bits = {0} /\ TxProgram!Bits = {0}
<1>1. Len(<<0>>) = 1 /\ <<0>>[1] = 0 /\ DOMAIN <<0>> = {1}
  OBVIOUS
<1> QED
  BY <1>1 DEF Tx!Bits, TxProgram!Bits

\* The processes' variables are functions.
LEMMA TxTyped ==
  ASSUME TxInv
  PROVE  /\ DOMAIN pc = Procs /\ DOMAIN cmd = Procs /\ DOMAIN seen = Procs /\ DOMAIN alone = Procs
         /\ \A p \in Procs : ret[p] \in {"act", "done"}
         /\ \A p \in Procs : pc[p] \in {"clear read", "clear write", "release read", "release write"} =>
              idx[p] = 1
         /\ reset \subseteq {0}
BY TxLists DEF TxInv, TxProgram!IInv, TxProgram!TypeOK, TxProgram!Indices

\* A step of a process: the reset bit is left as it is, set, or was clear, if
\* nobody runs beside the process and nobody asked it to initialise.
LEMMA TxFrame ==
  ASSUME TxInv, TxTone, NEW p \in Procs, pc[p] # "off",
         Tx!Reset \/ UNCHANGED <<reset, addr, valid>>,
         \A q \in Procs \ {p} : pc'[q] = pc[q] /\ alone'[q] = alone[q],
         alone[p] /\ Tx!AskedForNone(p) => reset' = reset \/ 0 \in reset' \/ reset = {},
         alone'[p] => alone[p] /\ TxLone(p)'
  PROVE  TxTone' /\ TxGoesOn
<1>1. \/ addr' = addr /\ valid' = valid /\ (0 \in reset' \/ reset' = reset)
      \/ addr' = 0 /\ valid' = FALSE /\ 0 \notin reset'
  BY TxLists DEF Tx!Reset, Tx!hardware
<1>2. \A q \in Procs \ {p} : ~alone[q]
  BY DEF TxInv, TxProgram!LoneInv
<1>3. TxAtRest'
  <2>1. 0 \in 0 .. Depth - 1
    BY DepthAssumption
  <2> QED
    BY <1>1, <2>1 DEF TxTone, TxAtRest
<1>4. TxGoesOn
  <2> SUFFICES ASSUME alone[p], Tx!AskedForNone(p) PROVE Tx!GoesOn
    BY <1>2 DEF TxGoesOn
  <2>1. CASE addr' = addr /\ valid' = valid
    BY <2>1 DEF Tx!GoesOn
  <2>2. CASE addr' = 0 /\ valid' = FALSE /\ 0 \notin reset'
    <3>1. addr = 0 /\ valid = FALSE
      BY <2>2 DEF TxTone, TxAtRest
    <3> QED
      BY <2>2, <3>1 DEF Tx!GoesOn
  <2> QED
    BY <1>1, <2>1, <2>2
<1>5. \A q \in Procs : alone'[q] => TxLone(q)'
  BY <1>2
<1> QED
  BY <1>3, <1>4, <1>5 DEF TxTone

\* A process that is not in init_system afterwards.
LEMMA TxOutside ==
  ASSUME TxInv, TxTone, NEW p \in Procs, pc[p] # "off",
         Tx!Reset \/ UNCHANGED <<reset, addr, valid>>,
         NEW to \in {"off", "first", "act", "stream write", "poll", "hung", "done"},
         pc' = [pc EXCEPT ![p] = to],
         UNCHANGED alone \/ alone' = [alone EXCEPT ![p] = FALSE],
         alone[p] /\ Tx!AskedForNone(p) => reset' = reset \/ 0 \in reset'
  PROVE  TxTone' /\ TxGoesOn
<1>1. /\ pc'[p] \in {"off", "first", "act", "stream write", "poll", "hung", "done"}
      /\ \A q \in Procs \ {p} : pc'[q] = pc[q] /\ alone'[q] = alone[q]
      /\ alone'[p] => alone[p]
  BY TxTyped
<1>2. TxLone(p)'
  BY <1>1 DEF TxLone, Tx!InInit
<1> QED
  BY <1>1, <1>2, TxFrame

\* parse_param: a new process ends the others' being alone.
LEMMA TxStartTone ==
  ASSUME TxInv, TxTone, NEW p \in Procs, Tx!TxParseParam(p)
  PROVE  TxTone' /\ TxGoesOn
<1>1. PICK c \in TxRequests : Tx!Start(p, c)
  BY DEF Tx!TxParseParam, Tx!ParseParam
<1>2. /\ pc' = [pc EXCEPT ![p] = "open"] /\ UNCHANGED <<reset, addr, valid>>
      /\ alone' = [q \in Procs |-> IF q = p THEN \A r \in Procs \ {p} : pc[r] = "off" ELSE FALSE]
  BY <1>1 DEF Tx!TxParseParam, Tx!Start, Tx!Goto, Tx!registers, Tx!hardware
<1>3. \A q \in Procs : alone'[q] => TxLone(q)'
  BY <1>2, TxTyped DEF TxLone, Tx!InInit
<1> QED
  BY <1>2, <1>3 DEF TxTone, TxAtRest, TxGoesOn, Tx!GoesOn

\* cfg_init and sts_init.
LEMMA TxDevicesTone ==
  ASSUME TxInv, TxTone, NEW p \in Procs, Tx!TxDevicesInit(p)
  PROVE  TxTone' /\ TxGoesOn
<1>1. /\ pc[p] = "open" /\ UNCHANGED <<reset, addr, valid>>
      /\ \/ pc' = [pc EXCEPT ![p] = "off"] /\ alone' = [alone EXCEPT ![p] = FALSE]
         \/ pc' = [pc EXCEPT ![p] = "first"] /\ UNCHANGED alone
  BY DEF Tx!TxDevicesInit, Tx!DevicesInit, Tx!NoSize, Tx!Gone, Tx!OpenDevices, Tx!Goto,
         Tx!registers, Tx!hardware
<1> QED
  BY <1>1, TxOutside

\* main: a bit is set by -o, and one that is clear leads to init_system.
LEMMA TxMainTone ==
  ASSUME TxInv, TxTone, NEW p \in Procs, Tx!TxMain(p)
  PROVE  TxTone' /\ TxGoesOn
<1>0. Tx!Reset
  BY DEF Tx!TxMain
<1>1. ASSUME pc[p] # "off", pc' = [pc EXCEPT ![p] = "clear read"], UNCHANGED <<reset, cmd, alone>>,
             Tx!AskedForNone(p) => reset = {}
      PROVE  TxTone' /\ TxGoesOn
  <2>1. pc'[p] = "clear read" /\ \A q \in Procs \ {p} : pc'[q] = pc[q]
    BY <1>1, TxTyped
  <2>2. TxLone(p)'
    BY <1>1, <2>1 DEF TxLone, Tx!AskedForNone
  <2> QED
    BY <1>0, <1>1, <2>1, <2>2, TxFrame
<1>2. CASE Tx!FirstAccess(p)
  <2>1. /\ pc[p] = "first" /\ pc' = [pc EXCEPT ![p] = IF reset = {} THEN "clear read" ELSE "act"]
        /\ UNCHANGED <<reset, cmd, alone>>
    BY <1>2 DEF Tx!FirstAccess, Tx!Goto, Tx!registers
  <2> QED
    BY <1>0, <1>1, <2>1, TxOutside
<1>3. CASE Tx!InitAgain(p)
  <2>1. /\ pc[p] = "act" /\ pc' = [pc EXCEPT ![p] = "clear read"]
        /\ UNCHANGED <<reset, cmd, alone>> /\ cmd[p].op = "i"
    BY <1>3 DEF Tx!InitAgain, Tx!Goto, Tx!registers
  <2> QED
    BY <1>1, <2>1 DEF Tx!AskedForNone
<1>4. CASE Tx!StreamRead(p) \/ Tx!Interrupt(p)
  <2>1. /\ pc[p] \in {"act", "poll"} /\ UNCHANGED <<reset, alone>>
        /\ pc' = [pc EXCEPT ![p] = "stream write"] \/ pc' = [pc EXCEPT ![p] = "done"]
    BY <1>4 DEF Tx!StreamRead, Tx!Interrupt, Tx!Goto, Tx!registers
  <2> QED
    BY <1>0, <2>1, TxOutside
<1>5. CASE Tx!StreamWrite(p)
  <2>1. /\ pc[p] = "stream write" /\ UNCHANGED alone /\ pc' = [pc EXCEPT ![p] = "poll"]
        /\ 0 \in reset'
    BY <1>5, TxLists DEF Tx!StreamWrite, Tx!Goto
  <2> QED
    BY <1>0, <2>1, TxOutside
<1>6. CASE Tx!CfgFault(p) \/ (\E zero \in BOOLEAN : Tx!PollFault(p, zero)) \/ Tx!Return(p) \/ Tx!Kill(p)
  <2>1. /\ pc[p] # "off" /\ UNCHANGED reset
        /\ pc' = [pc EXCEPT ![p] = "off"] /\ alone' = [alone EXCEPT ![p] = FALSE]
    BY <1>6 DEF Tx!CfgFault, Tx!PollFault, Tx!Return, Tx!Kill, Tx!Gone, Tx!registers
  <2> QED
    BY <1>0, <2>1, TxOutside
<1> QED
  BY <1>2, <1>3, <1>4, <1>5, <1>6 DEF Tx!TxMain, Tx!Main, Tx!Signal

\* The options: only -w writes the reset register.
LEMMA TxRegistersTone ==
  ASSUME TxInv, TxTone, NEW p \in Procs, Tx!TxRegisters(p)
  PROVE  TxTone' /\ TxGoesOn
<1>1. /\ pc[p] = "act" /\ Tx!Reset
      /\ \/ pc' = [pc EXCEPT ![p] = "off"] /\ alone' = [alone EXCEPT ![p] = FALSE]
         \/ pc' = [pc EXCEPT ![p] = "done"] /\ UNCHANGED alone
         \/ pc' = [pc EXCEPT ![p] = "hung"] /\ UNCHANGED alone
      /\ UNCHANGED reset \/ cmd[p].op = "w"
  BY DEF Tx!TxRegisters, Tx!Registers, Tx!ReadRegister, Tx!RegisterFault, Tx!WriteRegister,
         Tx!WriteStatus, Tx!SetRegister, Tx!Gone, Tx!Goto, Tx!registers
<1>2. Tx!AskedForNone(p) => cmd[p].op # "w"
  BY DEF Tx!AskedForNone
<1> QED
  BY <1>1, <1>2, TxOutside

\* init_system: until it releases the tones it writes what it found, nothing.
LEMMA TxInitSystemTone ==
  ASSUME TxInv, TxTone, NEW p \in Procs, Tx!TxInitSystem(p)
  PROVE  TxTone' /\ TxGoesOn
<1>0. Tx!Reset
  BY DEF Tx!TxInitSystem
<1>1. ASSUME Tx!InInit(p), NEW to, pc' = [pc EXCEPT ![p] = to], UNCHANGED <<cmd, alone>>,
             alone[p] /\ Tx!AskedForNone(p) /\ reset = {} /\ (pc[p] = "clear write" => seen[p] = {}) =>
               reset' = {} /\ (to = "clear write" => seen'[p] = {})
      PROVE  TxTone' /\ TxGoesOn
  <2>1. pc'[p] = to /\ \A q \in Procs \ {p} : pc'[q] = pc[q]
    BY <1>1, TxTyped
  <2>2. alone[p] /\ Tx!AskedForNone(p) => reset = {} /\ reset' = {} /\ (to = "clear write" => seen'[p] = {})
    BY <1>1 DEF TxTone, TxLone
  <2>3. alone[p] => TxLone(p)'
    BY <1>1, <2>1, <2>2 DEF TxLone, Tx!AskedForNone
  <2> QED
    BY <1>0, <1>1, <2>1, <2>2, <2>3, TxFrame DEF Tx!InInit
<1>2. CASE Tx!ClearRead(p)
  <2>1. /\ pc[p] = "clear read" /\ pc' = [pc EXCEPT ![p] = "clear write"]
        /\ seen' = [seen EXCEPT ![p] = reset] /\ UNCHANGED <<reset, cmd, alone>>
    BY <1>2 DEF Tx!ClearRead, Tx!Goto, Tx!registers
  <2>2. seen'[p] = reset
    BY <2>1, TxTyped
  <2> QED
    BY <1>1, <2>1, <2>2 DEF Tx!InInit
<1>3. CASE Tx!ClearWrite(p)
  <2>1. /\ pc[p] = "clear write" /\ idx[p] = 1 /\ pc' = [pc EXCEPT ![p] = "configure"]
        /\ reset' = seen[p] \ {<<0>>[idx[p]]} /\ UNCHANGED <<cmd, alone>>
    BY <1>3, TxLists, TxTyped DEF Tx!ClearWrite, Tx!Goto
  <2> QED
    BY <1>1, <2>1 DEF Tx!InInit
<1>4. CASE Tx!Configure(p)
  <2>1. /\ pc[p] = "configure" /\ UNCHANGED <<reset, cmd, alone>>
        /\ pc' = [pc EXCEPT ![p] = "release read"] \/ pc' = [pc EXCEPT ![p] = "configure"]
    BY <1>4 DEF Tx!Configure, Tx!Goto
  <2> QED
    BY <1>1, <2>1 DEF Tx!InInit
<1>5. CASE Tx!ReleaseRead(p)
  <2>1. /\ pc[p] = "release read" /\ pc' = [pc EXCEPT ![p] = "release write"]
        /\ UNCHANGED <<reset, cmd, alone>>
    BY <1>5 DEF Tx!ReleaseRead, Tx!Goto, Tx!registers
  <2> QED
    BY <1>1, <2>1 DEF Tx!InInit
<1>6. CASE Tx!ReleaseWrite(p)
  <2>1. /\ pc[p] = "release write" /\ idx[p] = 1 /\ pc' = [pc EXCEPT ![p] = ret[p]]
        /\ reset' = seen[p] \cup {<<0>>[1]} /\ UNCHANGED <<cmd, alone>>
    BY <1>6, TxLists, TxTyped DEF Tx!ReleaseWrite, Tx!Goto
  <2>2. 0 \in reset' /\ ret[p] \in {"act", "done"}
    BY <2>1, TxLists, TxTyped
  <2> QED
    BY <1>0, <2>1, <2>2, TxOutside
<1> QED
  BY <1>2, <1>3, <1>4, <1>5, <1>6 DEF Tx!TxInitSystem, Tx!InitSystem

\* Every step of the transmitter's board.
LEMMA TxStepTone ==
  ASSUME TxInv, TxTone, [Tx!BoardNext]_(Tx!boardVars)
  PROVE  TxTone' /\ TxGoesOn
<1>1. CASE UNCHANGED Tx!boardVars
  BY <1>1 DEF Tx!boardVars, Tx!vars, Tx!registers, Tx!processVars, Tx!hardware,
              TxTone, TxAtRest, TxLone, Tx!InInit, Tx!AskedForNone, TxGoesOn, Tx!GoesOn
<1>2. CASE Tx!Software
  BY <1>2, TxStartTone, TxDevicesTone, TxMainTone, TxRegistersTone, TxInitSystemTone
  DEF Tx!Software
<1>3. CASE Tx!OutOfReset \/ Tx!Tone
  <2>1. /\ 0 \in reset /\ UNCHANGED <<reset, pc, cmd, seen, alone>>
        /\ \/ valid' = TRUE /\ UNCHANGED addr
           \/ addr' = (addr + 1) % Depth /\ UNCHANGED valid
    BY <1>3, TxLists DEF Tx!OutOfReset, Tx!Tone, Tx!Released, Tx!vars, Tx!registers, Tx!processVars
  <2>2. addr' \in 0 .. Depth - 1 /\ valid' \in BOOLEAN
    <3>1. Depth \in Nat \ {0} /\ addr \in 0 .. Depth - 1 /\ valid \in BOOLEAN
      BY DepthAssumption DEF TxTone, TxAtRest
    <3>2. (addr + 1) % Depth \in 0 .. Depth - 1
      BY <3>1, DivMod
    <3>3. addr' \in 0 .. Depth - 1
      BY <2>1, <3>1, <3>2
    <3>4. valid' \in BOOLEAN
      BY <2>1, <3>1
    <3> QED
      BY <3>3, <3>4
  <2>3. TxGoesOn
    BY <2>1 DEF TxGoesOn, Tx!GoesOn
  <2> QED
    BY <2>1, <2>2, <2>3 DEF TxTone, TxAtRest, TxLone, Tx!InInit, Tx!AskedForNone
<1> QED
  BY <1>1, <1>2, <1>3 DEF Tx!BoardNext

----------------------------------------------------------------------------
(* All boards.                                                             *)

BoardsInv ==
  /\ board = "gen" => GenInv
  /\ board = "rx" => RxInv
  /\ board = "tx" => TxInv

\* One board is there from the start, and stays.
LEMMA BoardsStart == Init => BoardsInv
BY GenStarts, RxStarts, TxStarts DEF Init, BoardsInv

\* Every step is one of the board that is there.
LEMMA BoardsStep ==
  ASSUME BoardsInv, [Next]_vars
  PROVE  BoardsInv'
<1>1. UNCHANGED board
  BY DEF Next, vars
<1>2. board = "gen" => [Gen!BoardNext]_(Gen!boardVars)
  BY DEF Next, vars, genVars, Gen!boardVars, Gen!hardware, Gen!vars, Gen!registers, Gen!processVars, Gen!history
<1>3. board = "rx" => [Rx!BoardNext]_(Rx!boardVars)
  BY DEF Next, vars, rxVars, Rx!boardVars, Rx!hardware, Rx!vars, Rx!registers, Rx!processVars, Rx!history
<1>4. board = "tx" => [Tx!BoardNext]_(Tx!boardVars)
  BY DEF Next, vars, txVars, Tx!boardVars, Tx!hardware, Tx!vars, Tx!registers, Tx!processVars, Tx!history
<1> QED
  BY <1>1, <1>2, <1>3, <1>4, GenStepInv, RxStepInv, TxStepInv DEF BoardsInv

\* What holds on the board that is there is what the theorems say.
LEMMA BoardsSafe == BoardsInv => ConfiguredBeforeReleased /\ LoneRunLeavesReady /\ ReleasedAtRest
BY GenSafe, RxSafe, TxSafe
DEF BoardsInv, ConfiguredBeforeReleased, LoneRunLeavesReady, ReleasedAtRest

\* zynq_io.c, init_system, on every board: however many processes run, overlap
\* and die, no module is out of reset on a register nobody has written.
THEOREM BoardsConfigured == Spec => []ConfiguredBeforeReleased
BY BoardsStart, BoardsStep, BoardsSafe, PTL DEF Spec

\* lia_rp.c, main, on every board: a process that nobody ran beside leaves
\* every module released and configured.
THEOREM BoardsReady == Spec => []LoneRunLeavesReady
BY BoardsStart, BoardsStep, BoardsSafe, PTL DEF Spec

\* On the boards with one reset bit, initialisations that overlap release it.
THEOREM BoardsAtRest == Spec => []ReleasedAtRest
BY BoardsStart, BoardsStep, BoardsSafe, PTL DEF Spec

\* The receiver's packets and the transmitter's tone.
StreamsInv ==
  /\ board = "rx" => RxPackets
  /\ board = "tx" => TxTone

\* At power-on nothing has been counted or played.
LEMMA StreamsStart == Init => StreamsInv
<1> SUFFICES ASSUME Init PROVE StreamsInv
  OBVIOUS
<1>1. ASSUME board = "rx" PROVE RxPackets
  <2>1. Rx!BoardInit
    BY <1>1 DEF Init
  <2> QED
    BY <2>1, PacketAssumption DEF Rx!BoardInit, Rx!Init, RxPackets, RxAtRest
<1>2. ASSUME board = "tx" PROVE TxTone
  <2>1. Tx!BoardInit
    BY <1>2 DEF Init
  <2>2. addr = 0 /\ valid = FALSE /\ \A p \in Procs : ~alone[p]
    BY <2>1 DEF Tx!BoardInit, Tx!Init
  <2>3. 0 \in 0 .. Depth - 1
    BY DepthAssumption
  <2> QED
    BY <2>2, <2>3 DEF TxTone, TxAtRest
<1> QED
  BY <1>1, <1>2 DEF StreamsInv

\* Every step is one of the board that is there.
LEMMA StreamsStep ==
  ASSUME BoardsInv, StreamsInv, [Next]_vars
  PROVE  StreamsInv' /\ (board = "tx" => TxGoesOn)
<1>1. UNCHANGED board
  BY DEF Next, vars
<1>2. board = "rx" => [Rx!BoardNext]_(Rx!boardVars)
  BY DEF Next, vars, rxVars, Rx!boardVars, Rx!hardware, Rx!vars, Rx!registers, Rx!processVars, Rx!history
<1>3. board = "tx" => [Tx!BoardNext]_(Tx!boardVars)
  BY DEF Next, vars, txVars, Tx!boardVars, Tx!hardware, Tx!vars, Tx!registers, Tx!processVars, Tx!history
<1> QED
  BY <1>1, <1>2, <1>3, RxStepPackets, TxStepTone DEF BoardsInv, StreamsInv

\* zynq_io.c, init_system of rxchan16_test2, with axis_tlast_gen behind it: once
\* an initialisation nobody ran beside is over, and until somebody touches a
\* register, the packets begin where the ring does, however long the ring and
\* the packet are and whatever ran or died before.
THEOREM BoardsAligned == Spec => []PacketsAligned
<1>1. StreamsInv => PacketsAligned
  BY RxPacketsSafe DEF StreamsInv, PacketsAligned
<1> QED
  BY <1>1, BoardsStart, BoardsStep, StreamsStart, StreamsStep, PTL DEF Spec

\* lia_rp.c, main, with gen_tonos behind it: a program that runs alone and was
\* not asked to initialise breaks no tone off.
THEOREM BoardsTone == Spec => ToneGoesOn
<1>1. ASSUME BoardsInv, StreamsInv, [Next]_vars
      PROVE  [board = "tx" /\ (\E p \in Procs : alone[p] /\ Tx!AskedForNone(p)) => Tx!GoesOn]_vars
  BY <1>1, StreamsStep DEF TxGoesOn
<1> QED
  BY <1>1, BoardsStart, BoardsStep, StreamsStart, StreamsStep, PTL DEF Spec, ToneGoesOn
=============================================================================
