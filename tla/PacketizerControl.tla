--------------------------- MODULE PacketizerControl --------------------------
(***************************************************************************)
(* The packetizer under the configuration register, as adc_recorder's      *)
(* block design wires them and its program drives them: a bit of the first *)
(* word is the packetizer's reset, the second word its length.  That a     *)
(* length changes in reset only, and that a reset is seen, is up to the    *)
(* program's order of stores and to the register's word at a time.  A      *)
(* behaviour is one of this, or of a status register on its own.           *)
(*                                                                         *)
(* The other bits of the first word, which the program leaves as they are, *)
(* are left out.  Both words may be loaded at any time, by this program's  *)
(* &= and |= or by others.                                                 *)
(***************************************************************************)
EXTENDS AxisPacketizer

VARIABLES
  core, word, late, bvalid, rvalid, rdata, write, read,  \* AxiRegister
  stage  \* the next store of the program

Reset == 0
Length == 1
Lengths == 0 .. CntrSize - 1
Words == {Reset, Length}
StatusValues == {0, 1}  \* bound: values of a status word

Axi == INSTANCE AxiRegister WITH Values <- Lengths \cup {1}

controlVars == <<vars, Axi!registerVars, stage>>

ControlInit ==
  /\ Init /\ cfg = 0
  /\ Axi!RegisterInit
  /\ stage = "hold"

\* What the program stores next, and where: it holds the packetizer in reset,
\* writes the length and lets it go.
Place == IF stage = "length" THEN Length ELSE Reset

Data == CASE stage = "hold" -> {0} [] stage = "length" -> Lengths [] stage = "release" -> {1}

NextStage ==
  CASE stage = "hold" -> "length" [] stage = "length" -> "release" [] stage = "release" -> "hold"

\* A store that is under way is behind the program.
Program ==
  stage' = IF write \notin Axi!Writes /\ write' \in Axi!Writes THEN NextStage ELSE stage

\* The packetizer sees the words of the clock before.
PacketizerEdge(tready, more) ==
  /\ core = "cfg"
  /\ IF word[Reset] = 0 THEN ResetEdge ELSE Clock(tready, more)
  /\ cfg' = Axi!WordNext[Length]

Edge(tready, more) ==
  /\ PacketizerEdge(tready, more)
  /\ Axi!RegisterEdge(Place, Data)
  /\ Program

\* What the logic shows may be anything; a store to it hangs.
StatusEdge ==
  /\ core = "sts"
  /\ word' \in [Words -> StatusValues]
  /\ Axi!RegisterEdge(Reset, {0})
  /\ UNCHANGED <<vars, stage>>

ControlNext ==
  \/ \E tready, more \in BOOLEAN : Edge(tready, more)
  \/ StatusEdge

ControlSpec == ControlInit /\ [][ControlNext]_controlVars

\* The clock runs; source and sink of the packetizer are as in its own
\* specification; the master completes what it asks for and takes its answers.
ControlFairness ==
  /\ WF_controlVars(\E tready \in BOOLEAN : Edge(tready, TRUE))
  /\ WF_controlVars(\E more \in BOOLEAN : Edge(TRUE, more))
  /\ WF_controlVars(write = Axi!Sent /\ ControlNext /\ write' # Axi!Sent)
  /\ WF_controlVars(read = Axi!Sent /\ ControlNext /\ read' # Axi!Sent)
  /\ WF_controlVars(write \in Axi!Writes /\ ControlNext /\ write' # write)

FairControlSpec == ControlSpec /\ ControlFairness

----------------------------------------------------------------------------
\* See AxiRegister.
ImplementsRegisterFile == Axi!ImplementsRegisterFile

AccessesEnd == Axi!AccessesEnd
=============================================================================
