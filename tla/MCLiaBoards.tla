----------------------------- MODULE MCLiaBoards ----------------------------
(***************************************************************************)
(* Two programs at a time, on each board, with the command lines that      *)
(* change a register in a way of their own: -i, -o, -s, -w, and the ones   *)
(* that fail or hang.  A packet of two samples fills the ring.             *)
(***************************************************************************)
EXTENDS LiaBoards

All == [op |-> "a"]
Initialise == [op |-> "i"]
Stream == [op |-> "o"]
Read(d) == [op |-> "r", dev |-> d]
Write(r, v) == [op |-> "w", dev |-> "cfg", reg |-> r, val |-> v]
WriteSts == [op |-> "w", dev |-> "sts"]
Set(r, v) == [op |-> "s", reg |-> r, val |-> v]

\* 3 saturates, 4 is refused
MCGenRequests == {Initialise, Write("kp", 0), Set("fv", 3), Set("fv", 4)}

MCRxRequests == {Initialise, Stream, WriteSts}

MCTxRequests == {All, Initialise, Stream, Read("sts"), Write("reset", {0})}
=============================================================================
