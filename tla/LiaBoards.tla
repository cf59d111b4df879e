------------------------------ MODULE LiaBoards -----------------------------
(***************************************************************************)
(* The register program on each of the boards that have it.  A behaviour   *)
(* is one of one board; what the other boards have stays as it was.        *)
(***************************************************************************)
EXTENDS Integers, Sequences

CONSTANTS
  Procs, MaxFreq, FreqScale, IntMax,
  GenRequests, RxRequests, TxRequests,  \* command lines on each board
  NSamples,                             \* 1024*1024
  Ring, CountMax,                       \* see RxBoard
  Depth                                 \* see TxBoard

VARIABLES
  board,  \* "gen", "rx" or "tx"
  reset, setting, pc, cmd, mapped, idx, seen, ret, alone, raw, cut,  \* LiaControl
  held, freq,                                                        \* GenBoard
  count, taken, clean,                                               \* RxBoard
  addr, valid                                                        \* TxBoard

\* init_system of gen_test and of txchan16_test2, and of rxchan16_test2.
LockIn == << [reg |-> "fv", val |-> 1], [reg |-> "kp", val |-> 1],
             [reg |-> "ki", val |-> 1], [reg |-> "xv", val |-> 1] >>
Receiver == << [reg |-> "ns", val |-> NSamples] >>

Gen == INSTANCE GenBoard WITH
         ResetBits <- <<0>>, Defaults <- LockIn, StsThere <- FALSE, Requests <- GenRequests
Rx == INSTANCE RxBoard WITH
         ResetBits <- <<0, 1, 2>>, Defaults <- Receiver, StsThere <- TRUE, Requests <- RxRequests
Tx == INSTANCE TxBoard WITH
         ResetBits <- <<0>>, Defaults <- LockIn, StsThere <- FALSE, Requests <- TxRequests

\* The command lines are ones of each board.
ASSUME BoardsAssumption == Gen!LiaAssumption /\ Rx!LiaAssumption /\ Tx!LiaAssumption

\* The ring holds whole packets, and the counter reaches a packet's end.
ASSUME PacketAssumption ==
  /\ CountMax \in Nat /\ NSamples \in 1 .. CountMax
  /\ Ring \in Nat \ {0} /\ Ring % NSamples = 0

ASSUME DepthAssumption == Depth \in Nat \ {0}

genVars == <<held, freq>>
rxVars == <<count, taken, clean>>
txVars == <<addr, valid>>
vars == <<board, reset, setting, pc, cmd, mapped, idx, seen, ret, alone, raw, cut,
          genVars, rxVars, txVars>>

NoGen == held = Gen!Nothing /\ freq = 0
NoRx == count = 0 /\ taken = 0 /\ clean = FALSE
NoTx == addr = 0 /\ valid = FALSE

Init ==
  \/ board = "gen" /\ Gen!BoardInit /\ NoRx /\ NoTx
  \/ board = "rx" /\ Rx!BoardInit /\ NoGen /\ NoTx
  \/ board = "tx" /\ Tx!BoardInit /\ NoGen /\ NoRx

Next ==
  /\ UNCHANGED board
  /\ \/ board = "gen" /\ Gen!BoardNext /\ UNCHANGED <<rxVars, txVars>>
     \/ board = "rx" /\ Rx!BoardNext /\ UNCHANGED <<genVars, txVars>>
     \/ board = "tx" /\ Tx!BoardNext /\ UNCHANGED <<genVars, rxVars>>

\* Only the generator's converter is asked to make progress: its clocks run.
Fairness ==
  /\ WF_vars(board = "gen" /\ Gen!Sample /\ UNCHANGED <<board, rxVars, txVars>>)
  /\ WF_vars(board = "gen" /\ Gen!Deliver /\ UNCHANGED <<board, rxVars, txVars>>)

Spec == Init /\ [][Next]_vars /\ Fairness

----------------------------------------------------------------------------
TypeOK ==
  /\ board = "gen" => Gen!BoardTypeOK
  /\ board = "rx" => Rx!BoardTypeOK
  /\ board = "tx" => Tx!BoardTypeOK

\* On every board: no module runs on a register nobody has written.
ConfiguredBeforeReleased ==
  /\ board = "gen" => Gen!ConfiguredBeforeReleased
  /\ board = "rx" => Rx!ConfiguredBeforeReleased
  /\ board = "tx" => Tx!ConfiguredBeforeReleased

\* On every board: a program alone leaves the modules released and configured.
LoneRunLeavesReady ==
  /\ board = "gen" => Gen!LoneRunLeavesReady
  /\ board = "rx" => Rx!LoneRunLeavesReady
  /\ board = "tx" => Tx!LoneRunLeavesReady

\* On every board with one reset bit: overlapping initialisations release it.
ReleasedAtRest ==
  /\ board = "gen" => Gen!ReleasedAtRest
  /\ board = "rx" => Rx!ReleasedAtRest
  /\ board = "tx" => Tx!ReleasedAtRest

\* The generator plays the frequency that stays in its register.
PlaysWhatIsSet ==
  \A v \in Gen!Frequencies : <>[](board = "gen" /\ Gen!Holds(v)) => <>[](freq = v)

\* The receiver's packets begin where its ring does.
PacketsAligned == board = "rx" => Rx!PacketsAligned

\* The transmitter's tone is broken off by an initialisation only.
ToneGoesOn ==
  [][board = "tx" /\ (\E p \in Procs : alone[p] /\ Tx!AskedForNone(p)) => Tx!GoesOn]_vars
=============================================================================
