------------------------------ MODULE AxiRegister ------------------------------
(***************************************************************************)
(* cores/axi_cfg_register and cores/axi_sts_register: the AXI slaves by    *)
(* which programs reach the logic.  Both have the same read channel; the   *)
(* one's words are written by the master and led to the logic, the other's *)
(* come from the logic, and its write channel is not driven.               *)
(*                                                                         *)
(* A step is a rising edge of the clock.  The master keeps AXI's rules: a  *)
(* request stays until it is taken, its address and its data may come one  *)
(* after the other, none is up at the first edge out of reset.  As the     *)
(* bridge to AXI4-Lite does, it asks again only when it has the answer.    *)
(* The cores are reset at power-on only; stores are of whole words.        *)
(***************************************************************************)
EXTENDS Integers

CONSTANTS
  Words,  \* CFG_SIZE, or STS_SIZE, words
  Values  \* what a word may hold, zero among it

VARIABLES
  core,    \* "cfg" or "sts"
  word,    \* int_data_mux
  late,    \* reset_s: the registers' reset, a clock behind aresetn
  bvalid,  \* int_bvalid_reg
  rvalid,  \* int_rvalid_reg
  rdata,   \* int_rdata_reg
  write,   \* the store the master asks for, Sent when it was taken, or None
  read     \* the same of the load

registerVars == <<core, word, late, bvalid, rvalid, rdata, write, read>>

None == [sent |-> FALSE]
Sent == [sent |-> TRUE]
Writes == [addr : Words, data : Values, awvalid : BOOLEAN, wvalid : BOOLEAN]
Reads == [addr : Words]

----------------------------------------------------------------------------
(* The wires.                                                              *)

Arvalid == read \in Reads

\* int_wvalid_wire, which is awready and wready, too
Wvalid == core = "cfg" /\ write \in Writes /\ write.awvalid /\ write.wvalid

BvalidNext(bready) == Wvalid \/ (bvalid /\ ~bready)

\* Mutant of RvalidNext: an answer is up for a clock only.
RvalidNextShort(rready) == Arvalid

RvalidNext(rready) == Arvalid \/ (rvalid /\ ~rready)

RdataNext == IF Arvalid THEN word[read.addr] ELSE rdata

\* Mutant of WordNext: the enable does not wait for the address.
WordNextEarly ==
  IF late THEN [j \in Words |-> 0]
  ELSE IF write \in Writes /\ write.wvalid THEN [word EXCEPT ![write.addr] = write.data]
  ELSE word

\* The flip-flops: their reset goes before their enable.
WordNext ==
  IF late THEN [j \in Words |-> 0]
  ELSE IF Wvalid THEN [word EXCEPT ![write.addr] = write.data]
  ELSE word

----------------------------------------------------------------------------
RegisterInit ==
  /\ core \in {"cfg", "sts"}
  /\ word = [j \in Words |-> 0]
  /\ late = TRUE
  /\ bvalid = FALSE /\ rvalid = FALSE /\ rdata = 0
  /\ write = None /\ read = None

\* The master's side of an edge.  It may ask for the store it has in mind,
\* complete what it asks for, or take an answer, by bready and rready.
Ask(address, data) ==
  /\ write' \in [addr : {address}, data : data, awvalid : BOOLEAN, wvalid : BOOLEAN]
  /\ write'.awvalid \/ write'.wvalid

MasterStores(address, data) ==
  \/ /\ write = None \/ (write = Sent /\ bvalid)
     /\ write' = None \/ Ask(address, data)
  \/ /\ write \in Writes /\ ~Wvalid
     /\ write' \in {write, [write EXCEPT !.awvalid = TRUE, !.wvalid = TRUE]}
  \/ Wvalid /\ write' = Sent
  \/ write = Sent /\ UNCHANGED write

MasterLoads ==
  \/ /\ read = None \/ (read = Sent /\ rvalid)
     /\ read' \in {None} \cup Reads
  \/ Arvalid /\ read' = Sent
  \/ read = Sent /\ UNCHANGED read

RegisterEdge(address, data) ==
  /\ MasterStores(address, data)
  /\ MasterLoads
  /\ late' = FALSE
  /\ IF core = "cfg" THEN word' = WordNext ELSE word' \in [Words -> Values]
  /\ bvalid' = BvalidNext(write = Sent /\ write' # Sent)
  /\ rvalid' = RvalidNext(read = Sent /\ read' # Sent)
  /\ rdata' = RdataNext
  /\ UNCHANGED core

----------------------------------------------------------------------------
\* A store or a load as the program sees it.
StoreSeen ==
  IF write \in Writes THEN [state |-> "asked", addr |-> write.addr, data |-> write.data]
  ELSE IF write = Sent THEN [state |-> "done"] ELSE [state |-> "free"]

LoadSeen ==
  IF Arvalid THEN [state |-> "asked", addr |-> read.addr]
  ELSE IF read = Sent THEN [state |-> "done", data |-> rdata] ELSE [state |-> "free"]

File == INSTANCE RegisterFile WITH
          readOnly <- core = "sts", regs <- word, store <- StoreSeen, load <- LoadSeen

\* Every load and store does its work once, at one moment before its answer:
\* none is lost to the registers' reset, which is a clock late, none is
\* answered and not done, no answer is overwritten by the next.
ImplementsRegisterFile == File!FileSpec

\* Every load is answered, and every store to a register that is there.
AccessesEnd ==
  /\ read = Sent ~> read # Sent
  /\ core = "cfg" /\ write # None ~> write = Sent
  /\ write = Sent ~> write # Sent
=============================================================================
