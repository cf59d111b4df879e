----------------------------- MODULE RegisterFile -----------------------------
(***************************************************************************)
(* What programs take the registers of the logic for: a store or a load    *)
(* does its work at one moment between the time it is asked for and the    *)
(* time it is answered.  The registers of a file that is read-only are     *)
(* written by the logic instead.  A step is a clock, in which a store and  *)
(* a load may both move on; the load sees what was there before.           *)
(***************************************************************************)
CONSTANTS
  Words,  \* the registers
  Values  \* what they hold

VARIABLES
  readOnly,
  regs,
  store,  \* Free, Done, or what is asked for
  load    \* Free, what is asked for, or the answer

fileVars == <<readOnly, regs, store, load>>

Free == [state |-> "free"]
Done == [state |-> "done"]
Answer(v) == [state |-> "done", data |-> v]
Stores == [state : {"asked"}, addr : Words, data : Values]
Loads == [state : {"asked"}, addr : Words]

FileInit ==
  /\ readOnly \in BOOLEAN
  /\ regs \in [Words -> Values]
  /\ store = Free /\ load = Free

\* An answer may be taken and the next request made in the same clock.
AskStore == store.state # "asked" /\ store' \in {Free} \cup Stores

StoreStep ==
  \/ AskStore /\ UNCHANGED regs
  \/ /\ store.state = "asked"
     /\ store' = Done
     /\ regs' = [regs EXCEPT ![store.addr] = store.data]

LogicStep ==
  /\ regs' \in [Words -> Values]
  /\ AskStore \/ UNCHANGED store

LoadStep ==
  \/ load.state # "asked" /\ load' \in {Free} \cup Loads
  \/ load.state = "asked" /\ load' = Answer(regs[load.addr])

FileNext ==
  /\ \/ UNCHANGED <<regs, store>>
     \/ ~readOnly /\ StoreStep
     \/ readOnly /\ LogicStep
  /\ UNCHANGED load \/ LoadStep
  /\ UNCHANGED readOnly

FileSpec == FileInit /\ [][FileNext]_fileVars
=============================================================================
