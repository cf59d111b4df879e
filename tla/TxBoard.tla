------------------------------- MODULE TxBoard ------------------------------
(***************************************************************************)
(* The board of txchan16_test2: gen_tonos reads a memory of tones round    *)
(* and round, into the transmit channelizer and the converter to the DAC,  *)
(* all of them held by the one reset bit.  None of the other registers     *)
(* leads anywhere, and there is no status register.  lia_rp.c and          *)
(* zynq_io.c are the same as gen_test's, byte for byte.                    *)
(***************************************************************************)
EXTENDS LiaControl

CONSTANT Depth  \* words of the memory

VARIABLES
  addr,  \* mem_rd_addr_reg of gen_tonos
  valid  \* its valid_reg

hardware == <<addr, valid>>
boardVars == <<vars, hardware>>

Released == Bits \subseteq reset

BoardInit == Init /\ addr = 0 /\ valid = FALSE

Reset ==
  IF Bits \subseteq reset' THEN UNCHANGED hardware ELSE addr' = 0 /\ valid' = FALSE

TxParseParam(p) == ParseParam(p) /\ UNCHANGED hardware

TxDevicesInit(p) == DevicesInit(p) /\ UNCHANGED hardware

TxMain(p) == (Main(p) \/ Signal(p)) /\ Reset

TxRegisters(p) == Registers(p) /\ Reset

TxInitSystem(p) == InitSystem(p) /\ Reset

\* The first clock out of reset
OutOfReset ==
  /\ Released /\ ~valid
  /\ valid' = TRUE
  /\ UNCHANGED <<vars, addr>>

\* The channelizer takes the word before addr: the first is the memory's last.
Tone ==
  /\ Released /\ valid
  /\ addr' = (addr + 1) % Depth
  /\ UNCHANGED <<vars, valid>>

Software ==
  \E p \in Procs :
    TxParseParam(p) \/ TxDevicesInit(p) \/ TxMain(p) \/ TxRegisters(p) \/ TxInitSystem(p)

BoardNext == Software \/ OutOfReset \/ Tone

BoardSpec == BoardInit /\ [][BoardNext]_boardVars

----------------------------------------------------------------------------
BoardTypeOK ==
  /\ TypeOK
  /\ addr \in 0 .. Depth - 1
  /\ valid \in BOOLEAN

\* A program that was not asked for an initialisation
AskedForNone(p) == cmd[p].op \in {"a", "o", "r", "s"}

GoesOn == addr' \in {addr, (addr + 1) % Depth} /\ (valid => valid')

\* Only an initialisation breaks a tone off.  A program that was not asked for
\* one, and has run alone so far, does not: it takes the board for one never
\* written only if no tone is playing.  (Beside another program it may: one
\* that looks while the other initialises does it again.)
ToneGoesOn == [][(\E p \in Procs : alone[p] /\ AskedForNone(p)) => GoesOn]_boardVars
=============================================================================
